----------------------------- MODULE DailySpend -----------------------------
(***************************************************************************)
(* What one customer orders on one business day of one store, in the       *)
(* FastAPI backend: the orders and their refunds, the daily balance, and   *)
(* the reward grants, coupons and redemptions it earns.  Every row here is *)
(* keyed by (store, customer, business day), so one such key is enough.    *)
(*                                                                         *)
(* Requests run at READ COMMITTED and interleave.  A request is split where *)
(* it may wait for a row lock and where it writes what it read earlier;    *)
(* between its last read and its commit it only writes, so those writes    *)
(* are one step, taken when nobody holds a row that they touch.            *)
(***************************************************************************)
EXTENDS Integers, FiniteSets, FiniteSetsExt

CONSTANTS Workers,    \* server threads: the requests in progress
          OrderIds,   \* external order ids of the point of sale
          Amount,     \* [OrderIds -> Nat]: totalAmount of each
          Tiers,      \* reward tiers
          Threshold,  \* [Tiers -> Nat]: threshold_amount of each
          Refunds,    \* explicit refund amounts asked for
          Keys,       \* Idempotency-Key values
          NoKey,      \* no such header
          NoOrder     \* no order: an empty order_id

ASSUME SpendAssumption ==
  /\ IsFiniteSet(OrderIds)
  /\ Amount \in [OrderIds -> Nat]
  /\ Threshold \in [Tiers -> Nat]
  /\ Refunds \subseteq Nat
  /\ NoKey \notin Keys
  /\ NoOrder \notin OrderIds

VARIABLES
  pass,        \* the customer's Wi-Fi pass: WiFiPass has its minutes
  order,       \* orders: status and refunded amount
  balance,     \* daily_spend_balances.total_amount; 0 before the first order
  grant,       \* reward_grants.status of each tier
  coupon,      \* the coupon of the grant
  redemption,  \* the redemption of the grant
  usedFor,     \* reward_redemptions.order_id
  late,        \* the seven days of the coupon are over
  records,     \* idempotency_records: pairs of scope and key
  pc, job,     \* where each request is, and what it asks for
  seen         \* what it has read

tables == <<pass, order, balance, grant, coupon, redemption, usedFor, late, records>>
vars == <<tables, pc, job, seen>>

Order == [status : {"none", "PAID", "PARTIALLY_REFUNDED", "REFUNDED"}, refunded : Nat]
NoRow == [status |-> "none", refunded |-> 0]

Job == [id : OrderIds \cup {NoOrder}, key : Keys \cup {NoKey}, amount : Nat,
        tier : SUBSET Tiers, day : BOOLEAN]
Asks(e, k, a) == [id |-> e, key |-> k, amount |-> a, tier |-> {}, day |-> FALSE]
Chooses(e, t, d) == [id |-> e, key |-> NoKey, amount |-> 0, tier |-> {t}, day |-> d]
NoJob == Asks(NoOrder, NoKey, 0)

(* Values read before a lock or a write, and used after it; left are the   *)
(* grants whose coupon is yet to be read.                                  *)
Seen == [balance : Nat, grants : SUBSET Tiers, coupons : SUBSET Tiers, left : SUBSET Tiers]
Nothing == [balance |-> 0, grants |-> {}, coupons |-> {}, left |-> {}]

Init ==
  /\ pass = "none"
  /\ order = [e \in OrderIds |-> NoRow]
  /\ balance = 0
  /\ grant = [t \in Tiers |-> "none"]
  /\ coupon = [t \in Tiers |-> "none"]
  /\ redemption = [t \in Tiers |-> "none"]
  /\ usedFor = [t \in Tiers |-> NoOrder]
  /\ late = [t \in Tiers |-> FALSE]
  /\ records = {}
  /\ pc = [w \in Workers |-> "idle"]
  /\ job = [w \in Workers |-> NoJob]
  /\ seen = [w \in Workers |-> Nothing]

-----------------------------------------------------------------------------
Placed(e) == order[e].status # "none"
Recorded(scope, key) == key # NoKey /\ <<scope, key>> \in records
Record(scope, key) ==
  records' = IF key = NoKey THEN records ELSE records \cup {<<scope, key>>}

(* Mutants: the refund, or the order, reads the pass without FOR UPDATE. *)
HoldsPassNotRefund(w) == pc[w] = "write" \/ (pc[w] = "chosen" /\ job[w].day)
HoldsPassNotOrder(w) == pc[w] \in {"coupons", "reclaim"} \/ (pc[w] = "chosen" /\ job[w].day)

(* SELECT ... FOR UPDATE: who holds which row. *)
HoldsPass(w) ==
  pc[w] \in {"write", "coupons", "reclaim"} \/ (pc[w] = "chosen" /\ job[w].day)
HoldsOrder(w, e) == pc[w] \in {"refund", "coupons", "reclaim"} /\ job[w].id = e
HoldsGrant(w, t) == pc[w] \in {"choose", "chosen"} /\ job[w].tier = {t}

PassLocked == \E w \in Workers : HoldsPass(w)
(* Mutant: the refund reads the order without FOR UPDATE. *)
OrderNotLocked(e) == FALSE
OrderLocked(e) == \E w \in Workers : HoldsOrder(w, e)
GrantLocked(t) == \E w \in Workers : HoldsGrant(w, t)

Goes(w, to) ==
  /\ pc' = [pc EXCEPT ![w] = to]
  /\ UNCHANGED <<job, seen>>

(* Answered, whatever with: COMMIT or ROLLBACK, and the thread is free. *)
Ends(w) ==
  /\ pc' = [pc EXCEPT ![w] = "idle"]
  /\ job' = [job EXCEPT ![w] = NoJob]
  /\ seen' = [seen EXCEPT ![w] = Nothing]

-----------------------------------------------------------------------------
(* POST /pos/orders.  A key already recorded is answered with the stored   *)
(* response, or 409, and changes nothing: such a request is no step here.  *)
OrderLookup(w, e, key) ==
  /\ pc[w] = "idle"
  /\ ~Recorded("order", key)
  /\ pc' = [pc EXCEPT ![w] = "duplicate"]
  /\ job' = [job EXCEPT ![w] = Asks(e, key, 0)]
  /\ UNCHANGED <<tables, seen>>

(* externalOrderId is looked up before anything is locked: 409 if known. *)
OrderDuplicate(w) ==
  /\ pc[w] = "duplicate"
  /\ IF Placed(job[w].id) THEN Ends(w) ELSE Goes(w, "lock")
  /\ UNCHANGED tables

(* The pass is locked, or found missing, in which case nothing is; then    *)
(* the oldest available redemption and the balance are read.  A pass that  *)
(* staff ended answers 409.                                                *)
OrderLocks(w) ==
  /\ pc[w] = "lock"
  /\ ~PassLocked
  /\ \/ /\ pass = "ended"
        /\ Ends(w)
     \/ /\ pass # "ended"
        /\ pc' = [pc EXCEPT ![w] = IF pass = "none" THEN "first" ELSE "write"]
        /\ \E oldest \in SUBSET {t \in Tiers : redemption[t] = "AVAILABLE"} :
             /\ oldest = {} <=> \A t \in Tiers : redemption[t] # "AVAILABLE"
             /\ \A t, u \in oldest : t = u
             /\ seen' = [seen EXCEPT ![w] =
                  [balance |-> balance, grants |-> oldest, coupons |-> {}, left |-> {}]]
        /\ UNCHANGED job
  /\ UNCHANGED tables

(* Mutant: no unique constraint on (store, externalOrderId). *)
ConflictNotOrder(w) ==
  \/ pc[w] = "first" /\ pass # "none"
  \/ Recorded("order", job[w].key)

(* The unique constraints on the pass, the order and the key speak at a    *)
(* flush, outside the handler's try: IntegrityError, answered with 500.    *)
Conflict(w) ==
  \/ pc[w] = "first" /\ pass # "none"
  \/ Placed(job[w].id)
  \/ Recorded("order", job[w].key)

OrderConflicts(w) ==
  /\ pc[w] \in {"first", "write"}
  /\ Conflict(w)
  /\ Ends(w)
  /\ UNCHANGED tables

(* evaluate_grants: one grant for each tier reached, if it has none yet. *)
Awarded(total) ==
  [t \in Tiers |-> IF Threshold[t] <= total /\ grant[t] = "none"
                   THEN "AWAITING_CHOICE" ELSE grant[t]]

(* The pass lengthened or inserted (an expired one is open again), the     *)
(* order, the redemption used up, evaluate_grants, the key; then COMMIT.   *)
OrderCommits(w) ==
  LET e == job[w].id
      total == seen[w].balance + Amount[e]
      oldest == seen[w].grants
  IN
  /\ pc[w] \in {"first", "write"}
  /\ ~Conflict(w)
  /\ pass' = "open"
  /\ order' = [order EXCEPT ![e] = [status |-> "PAID", refunded |-> 0]]
  /\ redemption' = [t \in Tiers |-> IF t \in oldest THEN "CONSUMED" ELSE redemption[t]]
  /\ usedFor' = [t \in Tiers |-> IF t \in oldest THEN e ELSE usedFor[t]]
  /\ balance' = total
  /\ grant' = Awarded(total)
  /\ Record("order", job[w].key)
  /\ Ends(w)
  /\ UNCHANGED <<coupon, late>>

-----------------------------------------------------------------------------
(* POST /pos/orders/{id}/refund: the order is locked, its key and what is  *)
(* left of it checked, and the balance read without a lock.  No amount in  *)
(* the request means all that is left.                                     *)
RefundLocks(w, e, key) ==
  /\ pc[w] = "idle"
  /\ Placed(e)
  /\ ~OrderLocked(e)
  /\ ~Recorded(e, key)
  /\ LET refundable == Amount[e] - order[e].refunded IN
       \E a \in Refunds \cup {refundable} :
         /\ 0 < a
         /\ a <= refundable
         /\ job' = [job EXCEPT ![w] = Asks(e, key, a)]
  /\ seen' = [seen EXCEPT ![w].balance = balance]
  /\ pc' = [pc EXCEPT ![w] = "refund"]
  /\ UNCHANGED tables

(* Mutant: the refund is not kept from making the balance negative. *)
NewTotalUnbounded(w) == seen[w].balance - job[w].amount

NewTotal(w) ==
  IF seen[w].balance > job[w].amount THEN seen[w].balance - job[w].amount ELSE 0

(* The pass is locked; then the grants above the new total are read,       *)
RefundReads(w) ==
  /\ pc[w] = "refund"
  /\ ~PassLocked
  /\ LET lost == {t \in Tiers : /\ grant[t] \in {"AWAITING_CHOICE", "FULFILLED"}
                                /\ Threshold[t] > NewTotal(w)}
     IN  /\ seen' = [seen EXCEPT ![w] =
              [balance |-> @.balance,
               grants |-> {t \in lost : grant[t] = "AWAITING_CHOICE"},
               coupons |-> {},
               left |-> lost]]
         /\ pc' = [pc EXCEPT ![w] = IF lost = {} THEN "reclaim" ELSE "coupons"]
  /\ UNCHANGED <<tables, job>>

(* and one by one their unused coupons. *)
RefundReadsCoupon(w, t) ==
  /\ pc[w] = "coupons"
  /\ t \in seen[w].left
  /\ seen' = [seen EXCEPT ![w] =
       [balance |-> @.balance,
        grants |-> @.grants,
        coupons |-> IF coupon[t] = "AVAILABLE" THEN @.coupons \cup {t} ELSE @.coupons,
        left |-> @.left \ {t}]]
  /\ pc' = [pc EXCEPT ![w] = IF seen[w].left = {t} THEN "reclaim" ELSE "coupons"]
  /\ UNCHANGED <<tables, job>>

(* UPDATEs and COMMIT, from what was read.  The minutes of the refunded    *)
(* part may be all that an open pass had left.                             *)
RefundCommits(w) ==
  LET e == job[w].id
      refunded == order[e].refunded + job[w].amount
  IN
  /\ pc[w] = "reclaim"
  /\ \A t \in seen[w].grants : ~GrantLocked(t)
  /\ order' = [order EXCEPT ![e] =
       [status |-> IF refunded = Amount[e] THEN "REFUNDED" ELSE "PARTIALLY_REFUNDED",
        refunded |-> refunded]]
  /\ balance' = NewTotal(w)
  /\ pass' \in (IF pass = "open" THEN {"open", "over"} ELSE {pass})
  /\ grant' = [t \in Tiers |-> IF t \in seen[w].grants THEN "REVOKED" ELSE grant[t]]
  /\ coupon' = [t \in Tiers |-> IF t \in seen[w].coupons THEN "REVOKED" ELSE coupon[t]]
  /\ Record(e, job[w].key)
  /\ Ends(w)
  /\ UNCHANGED <<redemption, usedFor, late>>

-----------------------------------------------------------------------------
(* POST /public/rewards/{id}/choose locks the grant.  A benefit kept as a  *)
(* coupon, or as a redemption for the next order, needs no other lock.     *)
Fulfilled(t) == grant' = [grant EXCEPT ![t] = "FULFILLED"]

Redeems(t, e) ==
  /\ redemption' = [redemption EXCEPT ![t] = IF e = NoOrder THEN "AVAILABLE" ELSE "CONSUMED"]
  /\ usedFor' = [usedFor EXCEPT ![t] = e]
  /\ UNCHANGED coupon

AsCoupon(t) ==
  /\ coupon' = [coupon EXCEPT ![t] = "AVAILABLE"]
  /\ UNCHANGED <<redemption, usedFor>>

ChooseReward(t) ==
  /\ ~GrantLocked(t)
  /\ grant[t] = "AWAITING_CHOICE"
  /\ Fulfilled(t)
  /\ AsCoupon(t) \/ Redeems(t, NoOrder)
  /\ UNCHANGED <<pass, order, balance, late, records, pc, job, seen>>

(* An IMMEDIATE choice of the Wi-Fi day pass then locks the pass; one for  *)
(* the current order refers to its row, and waits while a refund holds it. *)
ChooseLocks(w, t, e, day) ==
  /\ pc[w] = "idle"
  /\ day \/ e # NoOrder
  /\ e # NoOrder => Placed(e)
  /\ ~GrantLocked(t)
  /\ grant[t] # "none"
  /\ pc' = [pc EXCEPT ![w] = IF day THEN "choose" ELSE "chosen"]
  /\ job' = [job EXCEPT ![w] = Chooses(e, t, day)]
  /\ UNCHANGED <<tables, seen>>

ChooseLocksPass(w) ==
  /\ pc[w] = "choose"
  /\ ~PassLocked
  /\ IF pass = "open" THEN Goes(w, "chosen") ELSE Ends(w)
  /\ UNCHANGED tables

(* Mutant: the status of the grant is not checked. *)
ChooseCommitsAnyway(w) ==
  /\ pc[w] = "chosen"
  /\ \A t \in job[w].tier : Fulfilled(t) /\ Redeems(t, job[w].id)
  /\ Ends(w)
  /\ UNCHANGED <<pass, order, balance, late, records>>

(* The status is checked once all is locked: 409 if already chosen. *)
ChooseCommits(w) ==
  /\ pc[w] = "chosen"
  /\ \A t \in job[w].tier :
       \/ /\ grant[t] = "AWAITING_CHOICE"
          /\ job[w].id # NoOrder => ~OrderLocked(job[w].id)
          /\ Fulfilled(t)
          /\ Redeems(t, job[w].id)
       \/ /\ grant[t] # "AWAITING_CHOICE"
          /\ UNCHANGED <<grant, redemption, usedFor, coupon>>
  /\ Ends(w)
  /\ UNCHANGED <<pass, order, balance, late, records>>

(* POST /public/coupons/{id}/redeem, under the coupon's lock. *)
RedeemCoupon(t) ==
  /\ coupon[t] = "AVAILABLE"
  /\ coupon' = [coupon EXCEPT ![t] = IF late[t] THEN "EXPIRED" ELSE "REDEEMED"]
  /\ UNCHANGED <<pass, order, balance, grant, redemption, usedFor, late, records,
                 pc, job, seen>>

(* GET /public/coupons reads without a lock, and writes EXPIRED. *)
ListReads(w) ==
  /\ pc[w] = "idle"
  /\ \E t \in Tiers : coupon[t] = "AVAILABLE"
  /\ seen' = [seen EXCEPT ![w].coupons = {t \in Tiers : coupon[t] = "AVAILABLE"}]
  /\ pc' = [pc EXCEPT ![w] = "list"]
  /\ UNCHANGED <<tables, job>>

ListCommits(w) ==
  /\ pc[w] = "list"
  /\ coupon' = [t \in Tiers |-> IF t \in seen[w].coupons /\ late[t]
                                THEN "EXPIRED" ELSE coupon[t]]
  /\ Ends(w)
  /\ UNCHANGED <<pass, order, balance, grant, redemption, usedFor, late, records>>

-----------------------------------------------------------------------------
(* The pass runs out, or staff ends it. *)
PassEnds ==
  /\ ~PassLocked
  /\ pass = "open"
  /\ pass' \in {"over", "ended"}
  /\ UNCHANGED <<order, balance, grant, coupon, redemption, usedFor, late, records,
                 pc, job, seen>>

WeekPasses(t) ==
  /\ coupon[t] # "none"
  /\ late' = [late EXCEPT ![t] = TRUE]
  /\ UNCHANGED <<pass, order, balance, grant, coupon, redemption, usedFor, records,
                 pc, job, seen>>

(* The process or the connection breaks before the commit. *)
RolledBack(w) ==
  /\ pc[w] # "idle"
  /\ Ends(w)
  /\ UNCHANGED tables

(* Who waits for a row that another request holds. *)
WaitsFor(a, b) ==
  \/ pc[a] \in {"lock", "refund", "choose"} /\ HoldsPass(b)
  \/ pc[a] = "reclaim" /\ \E t \in seen[a].grants : HoldsGrant(b, t)
  \/ /\ pc[a] = "chosen"
     /\ \A t \in job[a].tier : grant[t] = "AWAITING_CHOICE"
     /\ HoldsOrder(b, job[a].id)

(* Refunds lock order, pass, grants; a choice locks the grant, then the    *)
(* pass and the order.  The database aborts one of those that wait in a    *)
(* circle; the error is caught nowhere: 500.                               *)
DeadlockVictim(w) ==
  /\ \E circle \in SUBSET Workers :
       /\ w \in circle
       /\ \A a \in circle : \E b, c \in circle \ {a} : WaitsFor(a, b) /\ WaitsFor(c, a)
  /\ Ends(w)
  /\ UNCHANGED tables

-----------------------------------------------------------------------------
Step(w) ==
  \/ OrderDuplicate(w) \/ OrderLocks(w) \/ OrderConflicts(w) \/ OrderCommits(w)
  \/ RefundReads(w) \/ (\E t \in Tiers : RefundReadsCoupon(w, t)) \/ RefundCommits(w)
  \/ ChooseLocksPass(w) \/ ChooseCommits(w)
  \/ ListReads(w) \/ ListCommits(w)
  \/ RolledBack(w) \/ DeadlockVictim(w)

Next ==
  \/ \E w \in Workers :
       \/ \E e \in OrderIds, key \in Keys \cup {NoKey} :
            OrderLookup(w, e, key) \/ RefundLocks(w, e, key)
       \/ \E t \in Tiers, e \in OrderIds \cup {NoOrder}, day \in BOOLEAN :
            ChooseLocks(w, t, e, day)
       \/ Step(w)
  \/ \E t \in Tiers : ChooseReward(t) \/ RedeemCoupon(t) \/ WeekPasses(t)
  \/ PassEnds

Spec == Init /\ [][Next]_vars

-----------------------------------------------------------------------------
TypeOK ==
  /\ pass \in {"none", "open", "over", "ended"}
  /\ order \in [OrderIds -> Order]
  /\ balance \in Nat
  /\ grant \in [Tiers -> {"none", "AWAITING_CHOICE", "FULFILLED", "REVOKED"}]
  /\ coupon \in [Tiers -> {"none", "AVAILABLE", "REDEEMED", "EXPIRED", "REVOKED"}]
  /\ redemption \in [Tiers -> {"none", "AVAILABLE", "CONSUMED"}]
  /\ usedFor \in [Tiers -> OrderIds \cup {NoOrder}]
  /\ late \in [Tiers -> BOOLEAN]
  /\ records \subseteq ({"order"} \cup OrderIds) \X Keys
  /\ pc \in [Workers -> {"idle", "duplicate", "lock", "first", "write",
                         "refund", "coupons", "reclaim", "choose", "chosen", "list"}]
  /\ job \in [Workers -> Job]
  /\ seen \in [Workers -> Seen]

(* No order is refunded beyond its total, however many refunds of it are   *)
(* under way, and it is REFUNDED exactly when nothing of it is left        *)
(* (refund_order's check and its FOR UPDATE on the order).                 *)
RefundsWithinTotal ==
  \A e \in OrderIds :
    /\ order[e].refunded <= Amount[e]
    /\ order[e].status \in {"PARTIALLY_REFUNDED", "REFUNDED"} =>
         (order[e].status = "REFUNDED" <=> order[e].refunded = Amount[e])

(* A customer is never offered a reward whose tier the balance does not    *)
(* reach: orders grant and refunds revoke from balances and grants read    *)
(* before, which only the lock on the pass keeps in step (evaluate_grants, *)
(* refund_order).                                                          *)
AwaitingIsEarned ==
  \A t \in Tiers : grant[t] = "AWAITING_CHOICE" => Threshold[t] <= balance

(* A grant gives one benefit: never a coupon and a redemption, and none    *)
(* before it is chosen (choose_reward, whose day pass choice waits for the *)
(* pass between its lock and its status check).                            *)
OneBenefit ==
  \A t \in Tiers :
    /\ coupon[t] = "none" \/ redemption[t] = "none"
    /\ coupon[t] # "none" \/ redemption[t] # "none" => grant[t] \in {"FULFILLED", "REVOKED"}

(* A redemption is used up by one order and stays with it (create_order    *)
(* picks it with a plain SELECT; the lock on the pass protects it).        *)
ConsumedOnce ==
  [][\A t \in Tiers : usedFor[t] # NoOrder => usedFor'[t] = usedFor[t]]_vars

(* What was paid and not refunded, and how far the balance is from it. *)
Net == [e \in OrderIds |-> IF Placed(e) THEN Amount[e] - order[e].refunded ELSE 0]
NetSpend == MapThenSumSet(LAMBDA e : Net[e], OrderIds)
Drift == balance - NetSpend

(* Only the commit of a refund can move the balance away from the net      *)
(* spend, and only if the balance it has read was overtaken, or is already *)
(* too small (and must not become negative): concurrent orders, retries,   *)
(* conflicts and rollbacks never do, nor does a refund that meets nobody.  *)
OnlyRefundsDrift ==
  [][\/ Drift' = Drift
     \/ \E w \in Workers :
          RefundCommits(w) /\ (seen[w].balance # balance \/ Drift < 0)]_vars

-----------------------------------------------------------------------------
(* Why this holds: the inductive strengthening of the invariants above.    *)

(* FOR UPDATE gives a row to one request at a time. *)
LocksExclude ==
  \A v, w \in Workers :
    /\ HoldsPass(v) /\ HoldsPass(w) => v = w
    /\ \A e \in OrderIds : HoldsOrder(v, e) /\ HoldsOrder(w, e) => v = w

(* The customer's first order makes the pass, and nothing precedes it. *)
NothingBeforePass ==
  pass = "none" => /\ balance = 0
                   /\ \A e \in OrderIds : ~Placed(e)
                   /\ \A t \in Tiers : grant[t] = "none"

(* What a request asks for, once it is past its first checks. *)
JobsFit ==
  \A w \in Workers :
    /\ pc[w] \in {"duplicate", "lock", "first", "write"} => job[w].id \in OrderIds
    /\ pc[w] \in {"refund", "coupons", "reclaim"} =>
         /\ job[w].id \in OrderIds
         /\ Placed(job[w].id)
         /\ order[job[w].id].refunded + job[w].amount <= Amount[job[w].id]
    /\ pc[w] \in {"choose", "chosen"} => \E t \in Tiers : job[w].tier = {t}

(* What was read under the lock on the pass is as it was, or was read when *)
(* there was no pass.                                                      *)
ReadUnderLock ==
  \A w \in Workers :
    /\ pc[w] = "first" => seen[w].balance = 0 /\ seen[w].grants = {}
    /\ pc[w] = "write" =>
         /\ pass # "none"
         /\ seen[w].balance = balance
         /\ \A t \in seen[w].grants : redemption[t] = "AVAILABLE"
    /\ pc[w] \in {"coupons", "reclaim"} =>
         \A t \in Tiers :
           grant[t] = "AWAITING_CHOICE" /\ Threshold[t] > NewTotal(w) => t \in seen[w].grants

(* Coupons that were seen exist: no write invents one. *)
SeenCoupons ==
  \A w \in Workers : \A t \in seen[w].coupons : coupon[t] # "none"

UsedIsConsumed ==
  \A t \in Tiers : usedFor[t] # NoOrder => redemption[t] = "CONSUMED"

SpendInv ==
  /\ TypeOK
  /\ LocksExclude
  /\ NothingBeforePass
  /\ JobsFit
  /\ ReadUnderLock
  /\ SeenCoupons
  /\ UsedIsConsumed
  /\ RefundsWithinTotal
  /\ AwaitingIsEarned
  /\ OneBenefit

-----------------------------------------------------------------------------
(* A statement of the repository that the code does not keep. *)

(* README.md:288: a refund takes exactly the refunded amount off the daily *)
(* balance, so that it is the net spend of the day.                        *)
BalanceIsNetSpend == balance = NetSpend

=============================================================================

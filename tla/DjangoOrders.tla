---------------------------- MODULE DjangoOrders ----------------------------
(***************************************************************************)
(* The orders of one customer and business day in the Django backend, and  *)
(* what they earn: the point of sale's requests with their idempotency     *)
(* keys, refunds, reward grants, coupons and immediate benefits, and the   *)
(* exchange of an order's claim.                                           *)
(*                                                                         *)
(* create_paid_order and refund_order lock the balance before they read    *)
(* what depends on it, the other services lock the one row they change, so *)
(* each service call is one step.  The point of sale's request is three:   *)
(* the idempotency record is read before the order's transaction and       *)
(* written after it has committed.                                         *)
(***************************************************************************)
EXTENDS Integers, FiniteSets, FiniteSetsExt

CONSTANTS Orders,    \* external order ids
          Price,     \* [Orders -> Nat]: totalAmount
          Keys,      \* Idempotency-Key values
          Attempts,  \* requests of the point of sale
          Tiers,
          Threshold, \* [Tiers -> Nat]
          NoOrder

ASSUME DjangoOrdersConstants ==
  /\ IsFiniteSet(Orders)
  /\ Price \in [Orders -> Nat \ {0}]
  /\ Threshold \in [Tiers -> Nat \ {0}]
  /\ NoOrder \notin Orders

VARIABLES
  published,  \* a Wi-Fi policy is published
  active,     \* the reward tiers staff have created
  paid,       \* orders in the table
  refunded,   \* refunded_amount of each
  total,      \* the balance's total_amount, 0 while there is no row
  grant,      \* status of each tier's grant
  coupon,     \* status of the grant's coupon
  redemption, \* status of the grant's immediate benefit
  late,       \* tiers whose coupon or immediate benefit has expired
  usable,     \* passes of the day an order may lengthen
  blocked,    \* passes of the day that are BLOCKED
  everBlocked,\* history: staff have blocked a pass of the day
  exchanged,  \* orders whose claim was exchanged
  lateClaim,  \* orders whose claim has expired
  record,     \* the order whose response is stored under each key
  pc, job,    \* where each request is, and what it asks for
  told        \* what it was answered

rewards == <<grant, coupon, redemption, late>>
passes == <<usable, blocked, everBlocked>>
claims == <<exchanged, lateClaim>>
requests == <<record, pc, job, told>>
vars == <<published, active, paid, refunded, total, rewards, passes, claims, requests>>

Answers == {"none", "created", "replayed", "duplicate", "conflict",
            "refused", "error", "lost"}

Init ==
  /\ published = FALSE /\ active = {}
  /\ paid = {} /\ refunded = [o \in Orders |-> 0] /\ total = 0
  /\ grant = [t \in Tiers |-> "none"]
  /\ coupon = [t \in Tiers |-> "none"]
  /\ redemption = [t \in Tiers |-> "none"]
  /\ late = {}
  /\ usable = 0 /\ blocked = 0 /\ everBlocked = FALSE
  /\ exchanged = {} /\ lateClaim = {}
  /\ record = [k \in Keys |-> NoOrder]
  /\ pc = [a \in Attempts |-> "new"]
  /\ job = [a \in Attempts |-> [order |-> NoOrder, key |-> NoOrder]]
  /\ told = [a \in Attempts |-> "none"]

-----------------------------------------------------------------------------
(* POST /pos/orders *)

Goes(a, to) == pc' = [pc EXCEPT ![a] = to] /\ UNCHANGED told
Answered(a, what) ==
  /\ pc' = [pc EXCEPT ![a] = "done"]
  /\ told' = [told EXCEPT ![a] = what]

(* The record of the key is looked up without a lock. *)
Receive(a, o, k) ==
  /\ pc[a] = "new"
  /\ job' = [job EXCEPT ![a] = [order |-> o, key |-> k]]
  /\ CASE record[k] = NoOrder -> Goes(a, "create")
       [] record[k] = o -> Answered(a, "replayed")
       [] OTHER -> Answered(a, "conflict")
  /\ UNCHANGED <<published, active, paid, refunded, total, rewards, passes, claims, record>>

(* Mutant: a tier reached again after a refund is granted again. *)
GrantedAgain(sum) ==
  [t \in Tiers |-> IF t \in active /\ Threshold[t] <= sum /\ grant[t] # "FULFILLED"
                   THEN "AWAITING_CHOICE" ELSE grant[t]]

(* apply_paid_order: the tiers reached that have no grant yet, in any      *)
(* status, get one.                                                        *)
Granted(sum) ==
  [t \in Tiers |-> IF t \in active /\ Threshold[t] <= sum /\ grant[t] = "none"
                   THEN "AWAITING_CHOICE" ELSE grant[t]]

(* issue_or_extend_pass: an order finds a pass that is not BLOCKED or      *)
(* issues one.                                                             *)
OrderFindsPass == usable' = IF usable = 0 THEN 1 ELSE usable

(* Mutant: without a policy the order is kept, and no pass is issued. *)
CreateWithoutPass(a, o) ==
  /\ paid' = paid \cup {o}
  /\ total' = total + Price[o]
  /\ grant' = Granted(total')
  /\ IF published THEN OrderFindsPass ELSE UNCHANGED usable
  /\ Goes(a, "store")

(* The one transaction of create_paid_order: the unique external id first, *)
(* then the balance, the grants and the pass; no policy, no order.         *)
Commit(a, o) ==
  IF published
  THEN /\ paid' = paid \cup {o}
       /\ total' = total + Price[o]
       /\ grant' = Granted(total')
       /\ OrderFindsPass
       /\ Goes(a, "store")
  ELSE /\ Answered(a, "refused")
       /\ UNCHANGED <<paid, total, grant, usable>>

Create(a) ==
  /\ pc[a] = "create"
  /\ IF job[a].order \in paid
     THEN /\ Answered(a, "duplicate")
          /\ UNCHANGED <<paid, total, grant, usable>>
     ELSE Commit(a, job[a].order)
  /\ UNCHANGED <<published, active, refunded, coupon, redemption, late,
                 blocked, everBlocked, claims, record, job>>

(* Mutant: the response is stored under the key whoever stored one before. *)
StoreOver(a) ==
  /\ pc[a] = "store"
  /\ record' = [record EXCEPT ![job[a].key] = job[a].order]
  /\ Answered(a, "created")
  /\ UNCHANGED <<published, active, paid, refunded, total, rewards, passes, claims, job>>

(* The record is inserted in a transaction of its own.  The key may have   *)
(* been taken in the meantime: nothing catches that IntegrityError, and    *)
(* the committed order is answered with a 500.                             *)
StoreRecord(a) ==
  /\ pc[a] = "store"
  /\ IF record[job[a].key] = NoOrder
     THEN /\ record' = [record EXCEPT ![job[a].key] = job[a].order]
          /\ Answered(a, "created")
     ELSE /\ Answered(a, "error")
          /\ UNCHANGED record
  /\ UNCHANGED <<published, active, paid, refunded, total, rewards, passes, claims, job>>

(* The process stops before the order commits, or before its record does. *)
Stop(a) ==
  /\ pc[a] \in {"create", "store"}
  /\ Answered(a, "lost")
  /\ UNCHANGED <<published, active, paid, refunded, total, rewards, passes, claims,
                 record, job>>

-----------------------------------------------------------------------------
(* POST /admin/orders/{id}/refunds *)

Positive(n) == IF n > 0 THEN n ELSE 0

(* The unused coupons of the tiers that the balance no longer reaches. *)
WithdrawnCoupons(sum) ==
  coupon' = [t \in Tiers |->
    IF coupon[t] = "AVAILABLE" /\ Threshold[t] > sum THEN "REVOKED" ELSE coupon[t]]

RefundOrder(o, x) ==
  /\ o \in paid
  /\ x > 0 /\ x <= Price[o] - refunded[o]
  /\ refunded' = [refunded EXCEPT ![o] = @ + x]
  /\ total' = Positive(total - x)
  /\ grant' = [t \in Tiers |->
       IF grant[t] = "AWAITING_CHOICE" /\ Threshold[t] > total' THEN "REVOKED" ELSE grant[t]]
  /\ WithdrawnCoupons(total')
  /\ UNCHANGED <<published, active, paid, redemption, late, passes, claims, requests>>

-----------------------------------------------------------------------------
(* The customer: choose_benefit, redeem_coupon; the point of sale:         *)
(* apply_immediate_redemption.  The EXPIRED that the last two write for a  *)
(* late one is rolled back with the exception that follows it.             *)
Fulfil(t) ==
  /\ grant[t] = "AWAITING_CHOICE"
  /\ grant' = [grant EXCEPT ![t] = "FULFILLED"]

(* A day pass taken as a coupon is a coupon like any other. *)
ChooseCoupon(t) ==
  /\ Fulfil(t)
  /\ coupon' = [coupon EXCEPT ![t] = "AVAILABLE"]
  /\ UNCHANGED <<published, active, paid, refunded, total, redemption, late,
                 passes, claims, requests>>

(* The day pass needs a pass of the day, BLOCKED or not, or all is undone. *)
ChooseImmediate(t, dayPass) ==
  /\ Fulfil(t)
  /\ dayPass => usable + blocked > 0
  /\ redemption' = [redemption EXCEPT ![t] = IF dayPass THEN "APPLIED" ELSE "AVAILABLE"]
  /\ UNCHANGED <<published, active, paid, refunded, total, coupon, late,
                 passes, claims, requests>>

(* Mutant: the EXPIRED of a late coupon is committed. *)
RedeemOrExpire(t) ==
  /\ coupon[t] = "AVAILABLE"
  /\ coupon' = [coupon EXCEPT ![t] = IF t \in late THEN "EXPIRED" ELSE "REDEEMED"]
  /\ UNCHANGED <<published, active, paid, refunded, total, grant, redemption, late,
                 passes, claims, requests>>

RedeemCoupon(t) ==
  /\ coupon[t] = "AVAILABLE"
  /\ t \notin late
  /\ coupon' = [coupon EXCEPT ![t] = "REDEEMED"]
  /\ UNCHANGED <<published, active, paid, refunded, total, grant, redemption, late,
                 passes, claims, requests>>

(* Any order of the customer will do, refunded or not. *)
ApplyRedemption(t) ==
  /\ redemption[t] = "AVAILABLE"
  /\ t \notin late
  /\ paid # {}
  /\ redemption' = [redemption EXCEPT ![t] = "APPLIED"]
  /\ UNCHANGED <<published, active, paid, refunded, total, grant, coupon, late,
                 passes, claims, requests>>

-----------------------------------------------------------------------------
(* POST /public/order-claims/exchange: once, in ten minutes, and while the *)
(* customer has one pass of the day: with two, .get() fails the request.   *)
ExchangeClaim(o) ==
  /\ o \in paid \ (exchanged \cup lateClaim)
  /\ usable + blocked = 1
  /\ exchanged' = exchanged \cup {o}
  /\ UNCHANGED <<published, active, paid, refunded, total, rewards, passes,
                 lateClaim, requests>>

(* Staff: BLOCK and UNBLOCK of DjangoPass, a first policy, a reward tier. *)
BlockPass ==
  /\ usable > 0
  /\ usable' = usable - 1 /\ blocked' = blocked + 1 /\ everBlocked' = TRUE
  /\ UNCHANGED <<published, active, paid, refunded, total, rewards, claims, requests>>

UnblockPass ==
  /\ blocked > 0
  /\ usable' = usable + 1 /\ blocked' = blocked - 1
  /\ UNCHANGED <<published, active, paid, refunded, total, rewards, everBlocked,
                 claims, requests>>

PublishPolicy ==
  /\ ~published
  /\ published' = TRUE
  /\ UNCHANGED <<active, paid, refunded, total, rewards, passes, claims, requests>>

CreateTier(t) ==
  /\ t \notin active
  /\ active' = active \cup {t}
  /\ UNCHANGED <<published, paid, refunded, total, rewards, passes, claims, requests>>

(* Time: ten minutes of a claim, seven days or one day of a benefit. *)
ClaimExpires(o) ==
  /\ o \in paid \ (exchanged \cup lateClaim)
  /\ lateClaim' = lateClaim \cup {o}
  /\ UNCHANGED <<published, active, paid, refunded, total, rewards, passes,
                 exchanged, requests>>

BenefitExpires(t) ==
  /\ "AVAILABLE" \in {coupon[t], redemption[t]}
  /\ t \notin late
  /\ late' = late \cup {t}
  /\ UNCHANGED <<published, active, paid, refunded, total, grant, coupon, redemption,
                 passes, claims, requests>>

-----------------------------------------------------------------------------
PosStep(a) ==
  \/ \E o \in Orders, k \in Keys : Receive(a, o, k)
  \/ Create(a) \/ StoreRecord(a) \/ Stop(a)

AdminOrderRefund(o) == \E x \in 1 .. Price[o] : RefundOrder(o, x)

RewardChoose(t) == ChooseCoupon(t) \/ \E dayPass \in BOOLEAN : ChooseImmediate(t, dayPass)

Next ==
  \/ \E a \in Attempts : PosStep(a)
  \/ \E o \in Orders : AdminOrderRefund(o) \/ ExchangeClaim(o) \/ ClaimExpires(o)
  \/ \E t \in Tiers :
       \/ RewardChoose(t) \/ RedeemCoupon(t) \/ ApplyRedemption(t)
       \/ BenefitExpires(t) \/ CreateTier(t)
  \/ BlockPass \/ UnblockPass \/ PublishPolicy

Spec == Init /\ [][Next]_vars

-----------------------------------------------------------------------------
(* Every variable holds values of its kind: statuses the code writes. *)
TypeOK ==
  /\ published \in BOOLEAN /\ active \subseteq Tiers
  /\ paid \subseteq Orders
  /\ refunded \in [Orders -> Nat] /\ total \in Nat
  /\ grant \in [Tiers -> {"none", "AWAITING_CHOICE", "FULFILLED", "REVOKED"}]
  /\ coupon \in [Tiers -> {"none", "AVAILABLE", "REDEEMED", "REVOKED"}]
  /\ redemption \in [Tiers -> {"none", "AVAILABLE", "APPLIED"}]
  /\ late \subseteq Tiers
  /\ usable \in Nat /\ blocked \in Nat /\ everBlocked \in BOOLEAN
  /\ exchanged \subseteq paid /\ lateClaim \subseteq paid
  /\ record \in [Keys -> Orders \cup {NoOrder}]
  /\ pc \in [Attempts -> {"new", "create", "store", "done"}]
  /\ job \in [Attempts -> [order : Orders \cup {NoOrder}, key : Keys \cup {NoOrder}]]
  /\ told \in [Attempts -> Answers]

Spent(o) == IF o \in paid THEN Price[o] - refunded[o] ELSE 0

(* What a request was told is so: an order answered with its data or as a  *)
(* duplicate is paid, a stored response is of a paid order, and a 500      *)
(* after the commit is met only by a request whose key another one took.   *)
AnswersAreTrue ==
  /\ \A a \in Attempts :
       /\ told[a] \in {"created", "replayed", "duplicate", "error"} => job[a].order \in paid
       /\ told[a] \in {"created", "replayed"} => record[job[a].key] = job[a].order
       /\ told[a] = "error" => \E b \in Attempts : /\ told[b] = "created"
                                                   /\ job[b].key = job[a].key
                                                   /\ job[b].order # job[a].order
  /\ \A k \in Keys : record[k] # NoOrder => record[k] \in paid

(* The claim of a paid order finds a pass, and the only one of the day,    *)
(* unless staff have blocked a pass: the next order then issues a second   *)
(* and no claim of the customer can be exchanged that day.                 *)
ClaimFindsPass ==
  paid # {} => /\ usable + blocked > 0
               /\ ~everBlocked => usable + blocked = 1

(* A request under way is about an order and a key and has no answer yet.  *)
RequestsFit ==
  \A a \in Attempts :
    /\ pc[a] # "new" => job[a].order \in Orders /\ job[a].key \in Keys
    /\ told[a] # "none" => pc[a] = "done"
    /\ pc[a] = "store" => job[a].order \in paid

(* Only one request is to store the response of an order; a response that  *)
(* is stored is the answer of the request that stored it.                  *)
ResponsesFit ==
  /\ \A a, b \in Attempts :
       (pc[a] = "store" /\ a # b /\ job[b].order = job[a].order)
         => pc[b] # "store" /\ told[b] # "created"
  /\ \A k \in Keys : record[k] # NoOrder =>
       \E b \in Attempts :
         told[b] = "created" /\ job[b].key = k /\ job[b].order = record[k]

(* Until staff block one, there is one pass of the day. *)
PassesFit ==
  /\ paid # {} => usable + blocked > 0
  /\ ~everBlocked => blocked = 0 /\ usable <= 1

(* What the customer has of a tier, from its grant g, coupon c and         *)
(* immediate benefit r.                                                    *)
Benefit(g, c, r) ==
  CASE r = "APPLIED" \/ c = "REDEEMED" -> "used"
    [] c = "AVAILABLE" -> "coupon"
    [] r = "AVAILABLE" -> "immediate"
    [] c = "REVOKED" \/ g = "REVOKED" -> "withdrawn"
    [] g = "AWAITING_CHOICE" -> "offered"
    [] OTHER -> "none"

Contract == INSTANCE SpendContract WITH
  spent <- [o \in Orders |-> Spent(o)],
  balance <- total,
  benefit <- [t \in Tiers |-> Benefit(grant[t], coupon[t], redemption[t])]

(* No more is refunded than was paid.                                      *)
RefundsFit ==
  \A o \in Orders : refunded[o] <= IF o \in paid THEN Price[o] ELSE 0

(* The balance counts what each order has paid and not got back.           *)
BalanceCounts == total = Contract!NetSpend

(* Of a tier there is nothing but its grant until one benefit is chosen.   *)
BenefitsFit ==
  \A t \in Tiers :
    /\ coupon[t] = "none" \/ redemption[t] = "none"
    /\ grant[t] # "FULFILLED" => coupon[t] = "none" /\ redemption[t] = "none"

OrdersInv ==
  /\ TypeOK /\ RequestsFit /\ ResponsesFit /\ PassesFit /\ AnswersAreTrue /\ ClaimFindsPass
  /\ RefundsFit /\ BalanceCounts /\ BenefitsFit

(* Orders, refunds and choices keep the contract of the day's spending,    *)
(* whatever requests are repeated or cut short: the balance counts every   *)
(* order once and needs no max(0, ...) to repair it, and a benefit to      *)
(* choose or to use is covered by it until it is used.                     *)
KeepsContract == Contract!Spec
=============================================================================

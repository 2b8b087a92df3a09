-------------------------- MODULE DailySpendProofs --------------------------
(* Proofs about DailySpend, for any requests, orders, tiers and amounts. *)
EXTENDS DailySpend, FiniteSetTheorems, WellFoundedInduction, TLAPS

LEMMA NoJobType == NoJob \in Job
  BY SpendAssumption DEF NoJob, Asks, Job

LEMMA NothingType == Nothing \in Seen
  BY DEF Nothing, Seen

(***************************************************************************)
(* Initially.                                                              *)
(***************************************************************************)
LEMMA InitSpendInv == Init => SpendInv
  <1> SUFFICES ASSUME Init PROVE SpendInv
    OBVIOUS
  <1> USE DEF Init
  <1>1. TypeOK
    BY SpendAssumption, NoJobType, NothingType DEF TypeOK, Order, NoRow
  <1>2. LocksExclude
    BY DEF LocksExclude, HoldsPass, HoldsOrder
  <1>3. NothingBeforePass
    BY DEF NothingBeforePass, Placed, NoRow
  <1>4. JobsFit /\ ReadUnderLock
    BY DEF JobsFit, ReadUnderLock
  <1>5. SeenCoupons /\ UsedIsConsumed
    BY DEF SeenCoupons, UsedIsConsumed, Nothing
  <1>6. RefundsWithinTotal
    BY SpendAssumption DEF RefundsWithinTotal, NoRow
  <1>7. AwaitingIsEarned /\ OneBenefit
    BY DEF AwaitingIsEarned, OneBenefit
  <1> QED
    BY <1>1, <1>2, <1>3, <1>4, <1>5, <1>6, <1>7 DEF SpendInv

(***************************************************************************)
(* A step of one request that changes no table: what it locks, asks for    *)
(* and has read must fit.                                                  *)
(***************************************************************************)
States == {"idle", "duplicate", "lock", "first", "write",
           "refund", "coupons", "reclaim", "choose", "chosen", "list"}

NewTotalOf(j, s) == IF s.balance > j.amount THEN s.balance - j.amount ELSE 0

(* The lock it gets was free, or its own already. *)
LocksFree(w, to, j) ==
  /\ to \in {"write", "coupons", "reclaim"} \/ (to = "chosen" /\ j.day) => ~PassLocked \/ HoldsPass(w)
  /\ to \in {"refund", "coupons", "reclaim"} => ~OrderLocked(j.id) \/ HoldsOrder(w, j.id)

JobFits(to, j) ==
  /\ to \in {"duplicate", "lock", "first", "write"} => j.id \in OrderIds
  /\ to \in {"refund", "coupons", "reclaim"} =>
       /\ j.id \in OrderIds
       /\ Placed(j.id)
       /\ order[j.id].refunded + j.amount <= Amount[j.id]
  /\ to \in {"choose", "chosen"} => \E t \in Tiers : j.tier = {t}

SeenFits(to, j, s) ==
  /\ to = "first" => s.balance = 0 /\ s.grants = {}
  /\ to = "write" => /\ pass # "none"
                     /\ s.balance = balance
                     /\ \A t \in s.grants : redemption[t] = "AVAILABLE"
  /\ to \in {"coupons", "reclaim"} =>
       \A t \in Tiers :
         grant[t] = "AWAITING_CHOICE" /\ Threshold[t] > NewTotalOf(j, s) => t \in s.grants
  /\ \A t \in s.coupons : coupon[t] # "none"

LEMMA LocalInv ==
  ASSUME SpendInv, UNCHANGED tables,
         NEW w \in Workers, NEW to \in States, NEW j \in Job, NEW s \in Seen,
         pc' = [pc EXCEPT ![w] = to],
         job' = [job EXCEPT ![w] = j],
         seen' = [seen EXCEPT ![w] = s],
         LocksFree(w, to, j), JobFits(to, j), SeenFits(to, j, s)
  PROVE  SpendInv'
  <1> USE DEF SpendInv, tables
  <1>0. /\ TypeOK
        /\ \A v \in Workers : /\ pc'[v] = IF v = w THEN to ELSE pc[v]
                              /\ job'[v] = IF v = w THEN j ELSE job[v]
                              /\ seen'[v] = IF v = w THEN s ELSE seen[v]
    BY DEF TypeOK
  <1>1. TypeOK'
    BY DEF TypeOK, States
  <1>2. LocksExclude'
    <2>1. ASSUME NEW v \in Workers, v # w
          PROVE  /\ HoldsPass(v)' => HoldsPass(v)
                 /\ HoldsPass(w)' /\ HoldsPass(v)' => FALSE
                 /\ \A e \in OrderIds : HoldsOrder(v, e)' => HoldsOrder(v, e)
                 /\ \A e \in OrderIds : HoldsOrder(w, e)' /\ HoldsOrder(v, e)' => FALSE
      <3>1. HoldsPass(v)' <=> HoldsPass(v)
        BY <1>0, <2>1 DEF HoldsPass
      <3>2. \A e \in OrderIds : HoldsOrder(v, e)' <=> HoldsOrder(v, e)
        BY <1>0, <2>1 DEF HoldsOrder
      <3>3. HoldsPass(w)' => ~PassLocked \/ HoldsPass(w)
        BY <1>0 DEF HoldsPass, LocksFree
      <3>4. \A e \in OrderIds : HoldsOrder(w, e)' => ~OrderLocked(e) \/ HoldsOrder(w, e)
        BY <1>0 DEF HoldsOrder, LocksFree
      <3> QED
        BY <2>1, <3>1, <3>2, <3>3, <3>4 DEF LocksExclude, PassLocked, OrderLocked
    <2> QED
      BY <2>1 DEF LocksExclude
  <1>3. NothingBeforePass'
    BY DEF NothingBeforePass, Placed
  <1>4. JobsFit'
    BY <1>0 DEF JobsFit, JobFits, Placed
  <1>5. ReadUnderLock'
    BY <1>0 DEF ReadUnderLock, SeenFits, NewTotal, NewTotalOf
  <1>6. SeenCoupons' /\ UsedIsConsumed'
    BY <1>0 DEF SeenCoupons, UsedIsConsumed, SeenFits
  <1>7. RefundsWithinTotal' /\ AwaitingIsEarned' /\ OneBenefit'
    BY DEF RefundsWithinTotal, AwaitingIsEarned, OneBenefit
  <1> QED
    BY <1>1, <1>2, <1>3, <1>4, <1>5, <1>6, <1>7

LEMMA EndsInv ==
  ASSUME NEW w \in Workers, SpendInv, Ends(w), UNCHANGED tables
  PROVE  SpendInv'
  <1>1. LocksFree(w, "idle", NoJob) /\ JobFits("idle", NoJob)
    BY DEF LocksFree, JobFits
  <1>2. SeenFits("idle", NoJob, Nothing)
    BY DEF SeenFits, Nothing
  <1> QED
    BY <1>1, <1>2, LocalInv, NoJobType, NothingType DEF Ends, States

(***************************************************************************)
(* The local steps.                                                        *)
(***************************************************************************)
LEMMA OrderLookupInv ==
  ASSUME NEW w \in Workers, NEW e \in OrderIds, NEW key \in Keys \cup {NoKey},
         SpendInv, OrderLookup(w, e, key)
  PROVE  SpendInv'
  <1> DEFINE j == Asks(e, key, 0)
  <1>1. j \in Job /\ j.id = e
    BY DEF Asks, Job
  <1>2. seen[w] \in Seen /\ seen' = [seen EXCEPT ![w] = seen[w]]
    BY DEF SpendInv, TypeOK, OrderLookup
  <1>3. LocksFree(w, "duplicate", j) /\ JobFits("duplicate", j)
    BY <1>1 DEF LocksFree, JobFits
  <1>4. SeenFits("duplicate", j, seen[w])
    BY DEF SeenFits, SpendInv, SeenCoupons
  <1> QED
    BY <1>1, <1>2, <1>3, <1>4, LocalInv DEF OrderLookup, States

LEMMA OrderDuplicateInv ==
  ASSUME NEW w \in Workers, SpendInv, OrderDuplicate(w)
  PROVE  SpendInv'
  <1>1. CASE Ends(w)
    BY <1>1, EndsInv DEF OrderDuplicate
  <1>2. CASE Goes(w, "lock")
    <2>1. /\ job[w] \in Job /\ job' = [job EXCEPT ![w] = job[w]]
          /\ seen[w] \in Seen /\ seen' = [seen EXCEPT ![w] = seen[w]]
          /\ pc' = [pc EXCEPT ![w] = "lock"]
      BY <1>2 DEF SpendInv, TypeOK, Goes
    <2>2. job[w].id \in OrderIds
      BY DEF OrderDuplicate, SpendInv, JobsFit
    <2>3. LocksFree(w, "lock", job[w]) /\ JobFits("lock", job[w])
      BY <2>2 DEF LocksFree, JobFits
    <2>4. SeenFits("lock", job[w], seen[w])
      BY DEF SeenFits, SpendInv, SeenCoupons
    <2> QED
      BY <2>1, <2>3, <2>4, LocalInv DEF OrderDuplicate, States
  <1> QED
    BY <1>1, <1>2 DEF OrderDuplicate

LEMMA OrderLocksInv ==
  ASSUME NEW w \in Workers, SpendInv, OrderLocks(w)
  PROVE  SpendInv'
  <1>1. CASE Ends(w)
    BY <1>1, EndsInv DEF OrderLocks
  <1>2. CASE ~Ends(w)
    <2> DEFINE to == IF pass = "none" THEN "first" ELSE "write"
    <2>1. PICK oldest \in SUBSET {t \in Tiers : redemption[t] = "AVAILABLE"} :
            seen' = [seen EXCEPT ![w] = [balance |-> balance, grants |-> oldest,
                                         coupons |-> {}, left |-> {}]]
      BY <1>2 DEF OrderLocks
    <2> DEFINE s == [balance |-> balance, grants |-> oldest, coupons |-> {}, left |-> {}]
    <2>2. /\ job[w] \in Job /\ job' = [job EXCEPT ![w] = job[w]]
          /\ pc' = [pc EXCEPT ![w] = to]
          /\ ~PassLocked
          /\ UNCHANGED tables
      BY <1>2 DEF SpendInv, TypeOK, OrderLocks
    <2>3. s \in Seen
      BY DEF SpendInv, TypeOK, Seen
    <2>4. job[w].id \in OrderIds
      BY DEF OrderLocks, SpendInv, JobsFit
    <2>5. LocksFree(w, to, job[w]) /\ JobFits(to, job[w])
      BY <2>2, <2>4 DEF LocksFree, JobFits
    <2>6. pass = "none" => balance = 0 /\ oldest = {}
      BY DEF SpendInv, NothingBeforePass, OneBenefit
    <2>7. SeenFits(to, job[w], s)
      BY <2>6 DEF SeenFits
    <2>8. to \in States
      BY DEF States
    <2> HIDE DEF to, s
    <2> QED
      BY <2>1, <2>2, <2>3, <2>5, <2>7, <2>8, LocalInv DEF s
  <1> QED
    BY <1>1, <1>2

LEMMA RefundLocksInv ==
  ASSUME NEW w \in Workers, NEW e \in OrderIds, NEW key \in Keys \cup {NoKey},
         SpendInv, RefundLocks(w, e, key)
  PROVE  SpendInv'
  <1>1. /\ TypeOK /\ order[e] \in Order /\ Amount[e] \in Nat
        /\ order[e].refunded \in Nat
    BY SpendAssumption DEF SpendInv, TypeOK, Order
  <1>2. PICK a \in Refunds \cup {Amount[e] - order[e].refunded} :
          /\ 0 < a
          /\ a <= Amount[e] - order[e].refunded
          /\ job' = [job EXCEPT ![w] = Asks(e, key, a)]
    BY DEF RefundLocks
  <1>3. a \in Nat
    BY <1>1, <1>2, SpendAssumption
  <1> DEFINE j == Asks(e, key, a)
             s == [seen[w] EXCEPT !.balance = balance]
  <1>4. j \in Job /\ j.id = e /\ j.amount = a
    BY <1>3 DEF Asks, Job
  <1>5. s \in Seen /\ s.coupons = seen[w].coupons
    BY <1>1 DEF TypeOK, Seen
  <1>6. seen' = [seen EXCEPT ![w] = s]
    BY <1>1 DEF RefundLocks, TypeOK
  <1>7. LocksFree(w, "refund", j)
    BY <1>4 DEF LocksFree, RefundLocks
  <1>8. JobFits("refund", j)
    BY <1>1, <1>2, <1>3, <1>4 DEF JobFits, RefundLocks
  <1>9. SeenFits("refund", j, s)
    BY <1>5 DEF SeenFits, SpendInv, SeenCoupons
  <1> HIDE DEF s, j
  <1> QED
    BY <1>2, <1>4, <1>5, <1>6, <1>7, <1>8, <1>9, LocalInv DEF RefundLocks, States, j

LEMMA RefundReadsInv ==
  ASSUME NEW w \in Workers, SpendInv, RefundReads(w)
  PROVE  SpendInv'
  <1> DEFINE lost == {t \in Tiers : /\ grant[t] \in {"AWAITING_CHOICE", "FULFILLED"}
                                    /\ Threshold[t] > NewTotal(w)}
             s == [balance |-> seen[w].balance,
                   grants |-> {t \in lost : grant[t] = "AWAITING_CHOICE"},
                   coupons |-> {}, left |-> lost]
             to == IF lost = {} THEN "reclaim" ELSE "coupons"
  <1>1. /\ TypeOK /\ seen[w] \in Seen /\ job[w] \in Job
        /\ job' = [job EXCEPT ![w] = job[w]]
        /\ pc[w] = "refund"
    BY DEF SpendInv, TypeOK, RefundReads
  <1>2. s \in Seen
    BY <1>1 DEF Seen
  <1>3. seen' = [seen EXCEPT ![w] = s] /\ pc' = [pc EXCEPT ![w] = to]
    BY <1>1 DEF RefundReads, TypeOK
  <1>4. LocksFree(w, to, job[w]) /\ JobFits(to, job[w])
    <2>1. /\ job[w].id \in OrderIds
          /\ Placed(job[w].id)
          /\ order[job[w].id].refunded + job[w].amount <= Amount[job[w].id]
      BY <1>1 DEF SpendInv, JobsFit
    <2> QED
      BY <1>1, <2>1 DEF LocksFree, JobFits, HoldsOrder, RefundReads
  <1>5. SeenFits(to, job[w], s)
    BY DEF SeenFits, NewTotalOf, NewTotal
  <1>6. to \in States
    BY DEF States
  <1> HIDE DEF s, to
  <1> QED
    BY <1>1, <1>2, <1>3, <1>4, <1>5, <1>6, LocalInv DEF RefundReads

LEMMA RefundReadsCouponInv ==
  ASSUME NEW w \in Workers, NEW t \in Tiers, SpendInv, RefundReadsCoupon(w, t)
  PROVE  SpendInv'
  <1> DEFINE s == [balance |-> seen[w].balance,
                   grants |-> seen[w].grants,
                   coupons |-> IF coupon[t] = "AVAILABLE" THEN seen[w].coupons \cup {t}
                               ELSE seen[w].coupons,
                   left |-> seen[w].left \ {t}]
             to == IF seen[w].left = {t} THEN "reclaim" ELSE "coupons"
  <1>1. /\ TypeOK /\ seen[w] \in Seen /\ job[w] \in Job
        /\ job' = [job EXCEPT ![w] = job[w]]
        /\ pc[w] = "coupons"
    BY DEF SpendInv, TypeOK, RefundReadsCoupon
  <1>2. s \in Seen
    BY <1>1 DEF Seen
  <1>3. seen' = [seen EXCEPT ![w] = s] /\ pc' = [pc EXCEPT ![w] = to]
    BY <1>1 DEF RefundReadsCoupon, TypeOK
  <1>4. LocksFree(w, to, job[w]) /\ JobFits(to, job[w])
    <2>1. /\ job[w].id \in OrderIds
          /\ Placed(job[w].id)
          /\ order[job[w].id].refunded + job[w].amount <= Amount[job[w].id]
      BY <1>1 DEF SpendInv, JobsFit
    <2> QED
      BY <1>1, <2>1 DEF LocksFree, JobFits, HoldsOrder, HoldsPass
  <1>5. SeenFits(to, job[w], s)
    <2>1. \A u \in Tiers :
            grant[u] = "AWAITING_CHOICE" /\ Threshold[u] > NewTotal(w) => u \in seen[w].grants
      BY <1>1 DEF SpendInv, ReadUnderLock
    <2>2. \A u \in s.coupons : coupon[u] # "none"
      BY DEF SpendInv, SeenCoupons
    <2>3. to \in {"coupons", "reclaim"} /\ s.grants = seen[w].grants /\ s.balance = seen[w].balance
      OBVIOUS
    <2> HIDE DEF s, to
    <2> QED
      BY <2>1, <2>2, <2>3 DEF SeenFits, NewTotalOf, NewTotal
  <1>6. to \in States
    BY DEF States
  <1> HIDE DEF s, to
  <1> QED
    BY <1>1, <1>2, <1>3, <1>4, <1>5, <1>6, LocalInv DEF RefundReadsCoupon

LEMMA ChooseLocksInv ==
  ASSUME NEW w \in Workers, NEW t \in Tiers, NEW e \in OrderIds \cup {NoOrder},
         NEW day \in BOOLEAN, SpendInv, ChooseLocks(w, t, e, day)
  PROVE  SpendInv'
  <1> DEFINE j == Chooses(e, t, day)
             to == IF day THEN "choose" ELSE "chosen"
  <1>1. j \in Job /\ j.tier = {t} /\ j.day = day
    BY DEF Chooses, Job
  <1>2. /\ seen[w] \in Seen /\ seen' = [seen EXCEPT ![w] = seen[w]]
        /\ pc' = [pc EXCEPT ![w] = to]
        /\ job' = [job EXCEPT ![w] = j]
        /\ UNCHANGED tables
    BY DEF SpendInv, TypeOK, ChooseLocks
  <1>3. LocksFree(w, to, j) /\ JobFits(to, j)
    BY <1>1 DEF LocksFree, JobFits
  <1>4. SeenFits(to, j, seen[w])
    BY DEF SeenFits, SpendInv, SeenCoupons
  <1>5. to \in States
    BY DEF States
  <1> HIDE DEF j, to
  <1> QED
    BY <1>1, <1>2, <1>3, <1>4, <1>5, LocalInv

LEMMA ChooseLocksPassInv ==
  ASSUME NEW w \in Workers, SpendInv, ChooseLocksPass(w)
  PROVE  SpendInv'
  <1>1. CASE Ends(w)
    BY <1>1, EndsInv DEF ChooseLocksPass
  <1>2. CASE Goes(w, "chosen")
    <2>1. /\ job[w] \in Job /\ job' = [job EXCEPT ![w] = job[w]]
          /\ seen[w] \in Seen /\ seen' = [seen EXCEPT ![w] = seen[w]]
          /\ pc' = [pc EXCEPT ![w] = "chosen"]
      BY <1>2 DEF SpendInv, TypeOK, Goes
    <2>2. LocksFree(w, "chosen", job[w]) /\ JobFits("chosen", job[w])
      BY DEF LocksFree, JobFits, ChooseLocksPass, SpendInv, JobsFit
    <2>3. SeenFits("chosen", job[w], seen[w])
      BY DEF SeenFits, SpendInv, SeenCoupons
    <2> QED
      BY <2>1, <2>2, <2>3, LocalInv DEF ChooseLocksPass, States
  <1> QED
    BY <1>1, <1>2 DEF ChooseLocksPass

LEMMA ListReadsInv ==
  ASSUME NEW w \in Workers, SpendInv, ListReads(w)
  PROVE  SpendInv'
  <1> DEFINE s == [seen[w] EXCEPT !.coupons = {t \in Tiers : coupon[t] = "AVAILABLE"}]
  <1>1. /\ TypeOK /\ seen[w] \in Seen
        /\ job[w] \in Job /\ job' = [job EXCEPT ![w] = job[w]]
    BY DEF SpendInv, TypeOK, ListReads
  <1>2. s \in Seen /\ s.coupons = {t \in Tiers : coupon[t] = "AVAILABLE"}
    BY <1>1 DEF Seen
  <1>3. seen' = [seen EXCEPT ![w] = s]
    BY <1>1 DEF ListReads, TypeOK
  <1>4. LocksFree(w, "list", job[w]) /\ JobFits("list", job[w])
    BY DEF LocksFree, JobFits
  <1>5. SeenFits("list", job[w], s)
    BY <1>2 DEF SeenFits
  <1> HIDE DEF s
  <1> QED
    BY <1>1, <1>2, <1>3, <1>4, <1>5, LocalInv DEF ListReads, States

(***************************************************************************)
(* Steps that are one transaction under one lock: they change tables only. *)
(***************************************************************************)
LEMMA ChooseRewardInv ==
  ASSUME NEW t \in Tiers, SpendInv, ChooseReward(t)
  PROVE  SpendInv'
  <1> USE DEF SpendInv, ChooseReward, Fulfilled, AsCoupon, Redeems
  <1>0. /\ TypeOK
        /\ grant[t] = "AWAITING_CHOICE"
        /\ coupon[t] = "none" /\ redemption[t] = "none"
    BY DEF OneBenefit
  <1>1. TypeOK'
    BY DEF TypeOK
  <1>2. LocksExclude'
    BY DEF LocksExclude, HoldsPass, HoldsOrder
  <1>3. NothingBeforePass'
    BY <1>0 DEF NothingBeforePass
  <1>4. JobsFit'
    BY DEF JobsFit, Placed
  <1>5. ReadUnderLock'
    <2>1. \A u \in Tiers : /\ grant'[u] = "AWAITING_CHOICE" => grant[u] = "AWAITING_CHOICE"
                           /\ redemption[u] = "AVAILABLE" => redemption'[u] = "AVAILABLE"
      BY <1>0 DEF TypeOK
    <2>2. \A w \in Workers : seen[w].grants \subseteq Tiers
      BY <1>0 DEF TypeOK, Seen
    <2>3. \A w \in Workers : NewTotal(w)' = NewTotal(w)
      BY DEF NewTotal
    <2> QED
      BY <2>1, <2>2, <2>3 DEF ReadUnderLock
  <1>6. SeenCoupons' /\ UsedIsConsumed'
    <2>1. \A w \in Workers : seen[w].coupons \subseteq Tiers
      BY <1>0 DEF TypeOK, Seen
    <2>2. \A u \in Tiers : coupon[u] # "none" => coupon'[u] # "none"
      BY <1>0 DEF TypeOK
    <2>3. \A u \in Tiers : usedFor'[u] # NoOrder => redemption'[u] = "CONSUMED"
      BY <1>0 DEF TypeOK, UsedIsConsumed
    <2> QED
      BY <2>1, <2>2, <2>3 DEF SeenCoupons, UsedIsConsumed
  <1>7. RefundsWithinTotal' /\ AwaitingIsEarned'
    BY <1>0 DEF RefundsWithinTotal, AwaitingIsEarned, TypeOK
  <1>8. OneBenefit'
    BY <1>0 DEF OneBenefit, TypeOK
  <1> QED
    BY <1>1, <1>2, <1>3, <1>4, <1>5, <1>6, <1>7, <1>8

(* What leaves all but the pass, the coupons and the clock alone. *)
LEMMA OutsideInv ==
  ASSUME SpendInv,
         UNCHANGED <<order, balance, grant, redemption, usedFor, records, pc, job, seen>>,
         pass' \in {"none", "open", "over", "ended"}, pass' = "none" <=> pass = "none",
         coupon' \in [Tiers -> {"none", "AVAILABLE", "REDEEMED", "EXPIRED", "REVOKED"}],
         \A t \in Tiers : coupon'[t] = "none" <=> coupon[t] = "none",
         late' \in [Tiers -> BOOLEAN]
  PROVE  SpendInv'
  <1> USE DEF SpendInv
  <1>1. TypeOK'
    BY DEF TypeOK
  <1>2. LocksExclude'
    BY DEF LocksExclude, HoldsPass, HoldsOrder
  <1>3. NothingBeforePass'
    BY DEF NothingBeforePass, Placed
  <1>4. JobsFit'
    BY DEF JobsFit, Placed
  <1>5. ReadUnderLock'
    BY DEF ReadUnderLock, NewTotal
  <1>6. SeenCoupons' /\ UsedIsConsumed'
    BY DEF SeenCoupons, UsedIsConsumed, TypeOK, Seen
  <1>7. RefundsWithinTotal' /\ AwaitingIsEarned' /\ OneBenefit'
    BY DEF RefundsWithinTotal, AwaitingIsEarned, OneBenefit
  <1> QED
    BY <1>1, <1>2, <1>3, <1>4, <1>5, <1>6, <1>7

LEMMA OutsideStepsInv ==
  ASSUME NEW t \in Tiers, SpendInv, RedeemCoupon(t) \/ WeekPasses(t)
  PROVE  SpendInv'
  <1>0. TypeOK
    BY DEF SpendInv
  <1>1. CASE RedeemCoupon(t)
    BY <1>0, <1>1, OutsideInv DEF RedeemCoupon, TypeOK
  <1>2. CASE WeekPasses(t)
    BY <1>0, <1>2, OutsideInv DEF WeekPasses, TypeOK
  <1> QED
    BY <1>1, <1>2

LEMMA PassEndsInv ==
  ASSUME SpendInv, PassEnds
  PROVE  SpendInv'
  BY OutsideInv DEF PassEnds, SpendInv, TypeOK

(***************************************************************************)
(* The commits of what a request has read.                                 *)
(***************************************************************************)

(* The other requests are where they were. *)
LEMMA EndsFrame ==
  ASSUME TypeOK, NEW w \in Workers, Ends(w)
  PROVE  /\ pc' \in [Workers -> States] /\ job' \in [Workers -> Job]
         /\ seen' \in [Workers -> Seen]
         /\ \A v \in Workers : /\ pc'[v] = IF v = w THEN "idle" ELSE pc[v]
                               /\ job'[v] = IF v = w THEN NoJob ELSE job[v]
                               /\ seen'[v] = IF v = w THEN Nothing ELSE seen[v]
  BY NoJobType, NothingType DEF Ends, TypeOK, States

LEMMA EndsLocks ==
  ASSUME SpendInv, NEW w \in Workers, Ends(w)
  PROVE  /\ LocksExclude'
         /\ \A v \in Workers : v # w => NewTotal(v)' = NewTotal(v)
  <1>1. \A v \in Workers : /\ pc'[v] = IF v = w THEN "idle" ELSE pc[v]
                           /\ job'[v] = IF v = w THEN NoJob ELSE job[v]
                           /\ seen'[v] = IF v = w THEN Nothing ELSE seen[v]
    BY EndsFrame DEF SpendInv
  <1>2. LocksExclude'
    BY <1>1 DEF LocksExclude, HoldsPass, HoldsOrder, SpendInv
  <1>3. \A v \in Workers : v # w => NewTotal(v)' = NewTotal(v)
    BY <1>1 DEF NewTotal
  <1> QED
    BY <1>2, <1>3

LEMMA ListCommitsInv ==
  ASSUME NEW w \in Workers, SpendInv, ListCommits(w)
  PROVE  SpendInv'
  <1> USE DEF SpendInv, ListCommits
  <1>0. /\ TypeOK
        /\ \A v \in Workers : /\ pc'[v] = IF v = w THEN "idle" ELSE pc[v]
                              /\ job'[v] = IF v = w THEN NoJob ELSE job[v]
                              /\ seen'[v] = IF v = w THEN Nothing ELSE seen[v]
        /\ \A v \in Workers : seen[v].coupons \subseteq Tiers
        /\ \A t \in Tiers : coupon'[t] = "none" <=> coupon[t] = "none"
    BY EndsFrame DEF TypeOK, Seen, SeenCoupons
  <1>1. TypeOK'
    BY EndsFrame DEF TypeOK, States
  <1>2. LocksExclude'
    BY EndsLocks
  <1>3. NothingBeforePass'
    BY DEF NothingBeforePass, Placed
  <1>4. JobsFit'
    BY <1>0 DEF JobsFit, Placed
  <1>5. ReadUnderLock'
    BY <1>0, EndsLocks DEF ReadUnderLock
  <1>6. SeenCoupons' /\ UsedIsConsumed'
    BY <1>0 DEF SeenCoupons, UsedIsConsumed, Nothing
  <1>7. RefundsWithinTotal' /\ AwaitingIsEarned' /\ OneBenefit'
    BY <1>0 DEF RefundsWithinTotal, AwaitingIsEarned, OneBenefit
  <1> QED
    BY <1>1, <1>2, <1>3, <1>4, <1>5, <1>6, <1>7

(* Only the holder of the pass, or the first order of all, commits orders: *)
(* what another request has read under the lock cannot be outdated.        *)
LEMMA OrderCommitsInv ==
  ASSUME NEW w \in Workers, SpendInv, OrderCommits(w)
  PROVE  SpendInv'
  <1> DEFINE e == job[w].id
             total == seen[w].balance + Amount[e]
             oldest == seen[w].grants
  <1>0. /\ TypeOK
        /\ e \in OrderIds /\ Amount[e] \in Nat
        /\ seen[w].balance \in Nat /\ balance \in Nat
        /\ oldest \subseteq Tiers
        /\ \A v \in Workers : seen[v].grants \subseteq Tiers /\ seen[v].coupons \subseteq Tiers
        /\ Ends(w)
    BY SpendAssumption DEF SpendInv, TypeOK, JobsFit, OrderCommits, Seen
  <1>1. /\ pass' = "open"
        /\ order' = [order EXCEPT ![e] = [status |-> "PAID", refunded |-> 0]]
        /\ redemption' = [t \in Tiers |-> IF t \in oldest THEN "CONSUMED" ELSE redemption[t]]
        /\ usedFor' = [t \in Tiers |-> IF t \in oldest THEN e ELSE usedFor[t]]
        /\ balance' = total
        /\ grant' = Awarded(total)
        /\ UNCHANGED <<coupon, late>>
        /\ ~Placed(e)
        /\ records' \subseteq ({"order"} \cup OrderIds) \X Keys
        /\ pc[w] \in {"first", "write"}
        /\ pc[w] = "first" => pass = "none"
    <2>1. records' \subseteq ({"order"} \cup OrderIds) \X Keys
      BY <1>0 DEF OrderCommits, Record, TypeOK, Job
    <2> QED
      BY <2>1 DEF OrderCommits, Conflict
  <1>2. \A v \in Workers : v # w => pc[v] \notin {"write", "coupons", "reclaim"}
    <2>1. ASSUME NEW v \in Workers, v # w, pc[v] \in {"write", "coupons", "reclaim"} PROVE FALSE
      <3>1. HoldsPass(v)
        BY <2>1 DEF HoldsPass
      <3>2. pass # "none"
        BY <1>0, <2>1 DEF SpendInv, JobsFit, ReadUnderLock, NothingBeforePass
      <3>3. HoldsPass(w)
        BY <1>1, <3>2 DEF HoldsPass
      <3> QED
        BY <2>1, <3>1, <3>3 DEF SpendInv, LocksExclude
    <2> QED
      BY <2>1
  <1>3. balance <= total
    BY <1>0, <1>1 DEF SpendInv, NothingBeforePass, ReadUnderLock
  <1>4. \A t \in oldest : redemption[t] = "AVAILABLE"
    BY <1>1 DEF SpendInv, ReadUnderLock
  <1>5. \A v \in Workers : /\ pc'[v] = IF v = w THEN "idle" ELSE pc[v]
                           /\ job'[v] = IF v = w THEN NoJob ELSE job[v]
                           /\ seen'[v] = IF v = w THEN Nothing ELSE seen[v]
    BY <1>0, EndsFrame
  <1>6. /\ order' \in [OrderIds -> Order]
        /\ \A d \in OrderIds : IF d = e THEN order'[d] = [status |-> "PAID", refunded |-> 0]
                                        ELSE order'[d] = order[d]
    BY <1>0, <1>1 DEF TypeOK, Order
  <1>7. /\ total \in Nat
        /\ grant' \in [Tiers -> {"none", "AWAITING_CHOICE", "FULFILLED", "REVOKED"}]
        /\ \A t \in Tiers : grant'[t] = IF Threshold[t] <= total /\ grant[t] = "none"
                                        THEN "AWAITING_CHOICE" ELSE grant[t]
    BY <1>0, <1>1 DEF Awarded, TypeOK
  <1> HIDE DEF total
  <1>10. TypeOK'
    <2>1. /\ redemption' \in [Tiers -> {"none", "AVAILABLE", "CONSUMED"}]
          /\ usedFor' \in [Tiers -> OrderIds \cup {NoOrder}]
      BY <1>0, <1>1 DEF TypeOK
    <2> QED
      BY <1>0, <1>1, <1>6, <1>7, <2>1, EndsFrame DEF TypeOK, States
  <1>11. LocksExclude'
    BY <1>0, EndsLocks
  <1>12. NothingBeforePass'
    BY <1>1 DEF NothingBeforePass
  <1>13. JobsFit'
    <2>1. \A d \in OrderIds : Placed(d) => Placed(d)' /\ order'[d] = order[d]
      BY <1>1, <1>6 DEF Placed
    <2> QED
      BY <1>5, <2>1 DEF JobsFit, SpendInv
  <1>14. ReadUnderLock'
    BY <1>2, <1>5 DEF ReadUnderLock, SpendInv
  <1>15. SeenCoupons'
    BY <1>1, <1>5 DEF SeenCoupons, SpendInv, Nothing
  <1>16. UsedIsConsumed'
    BY <1>0, <1>1 DEF UsedIsConsumed, SpendInv
  <1>17. RefundsWithinTotal'
    BY <1>0, <1>6 DEF RefundsWithinTotal, SpendInv
  <1>18. AwaitingIsEarned'
    <2>1. \A t \in Tiers : Threshold[t] \in Nat
      BY SpendAssumption
    <2> QED
      BY <1>0, <1>1, <1>3, <1>7, <2>1 DEF AwaitingIsEarned, SpendInv
  <1>19. OneBenefit'
    <2>1. \A t \in Tiers : redemption'[t] # "none" <=> redemption[t] # "none"
      BY <1>0, <1>1, <1>4
    <2>2. \A t \in Tiers : grant[t] \in {"FULFILLED", "REVOKED"} => grant'[t] = grant[t]
      BY <1>7
    <2> QED
      BY <1>1, <2>1, <2>2 DEF OneBenefit, SpendInv
  <1> QED
    BY <1>10, <1>11, <1>12, <1>13, <1>14, <1>15, <1>16, <1>17, <1>18, <1>19 DEF SpendInv

LEMMA RefundCommitsInv ==
  ASSUME NEW w \in Workers, SpendInv, RefundCommits(w)
  PROVE  SpendInv'
  <1> DEFINE e == job[w].id
             refunded == order[e].refunded + job[w].amount
             row == [status |-> IF refunded = Amount[e] THEN "REFUNDED"
                                ELSE "PARTIALLY_REFUNDED",
                     refunded |-> refunded]
             total == NewTotal(w)
  <1>0. /\ TypeOK
        /\ pc[w] = "reclaim"
        /\ e \in OrderIds /\ Amount[e] \in Nat /\ order[e] \in Order
        /\ job[w].amount \in Nat
        /\ Placed(e)
        /\ refunded <= Amount[e]
        /\ \A v \in Workers : seen[v].grants \subseteq Tiers /\ seen[v].coupons \subseteq Tiers
        /\ Ends(w)
    BY SpendAssumption DEF SpendInv, TypeOK, JobsFit, RefundCommits, Seen, Job
  <1>1. refunded \in Nat /\ row \in Order
    BY <1>0 DEF Order
  <1>2. total \in Nat
    BY <1>0 DEF NewTotal, TypeOK, Seen
  <1>3. /\ order' = [order EXCEPT ![e] = row]
        /\ balance' = total
        /\ pass' \in {"none", "open", "over", "ended"} /\ (pass' = "none" <=> pass = "none")
        /\ grant' = [t \in Tiers |-> IF t \in seen[w].grants THEN "REVOKED" ELSE grant[t]]
        /\ coupon' = [t \in Tiers |-> IF t \in seen[w].coupons THEN "REVOKED" ELSE coupon[t]]
        /\ records' \subseteq ({"order"} \cup OrderIds) \X Keys
        /\ UNCHANGED <<redemption, usedFor, late>>
    <2>1. records' \subseteq ({"order"} \cup OrderIds) \X Keys
      BY <1>0 DEF RefundCommits, Record, TypeOK, Job
    <2>2. pass' \in {"none", "open", "over", "ended"} /\ (pass' = "none" <=> pass = "none")
      BY <1>0 DEF RefundCommits, TypeOK
    <2> QED
      BY <2>1, <2>2 DEF RefundCommits
  <1>4. \A v \in Workers : v # w => pc[v] \notin {"write", "coupons", "reclaim"}
    BY <1>0 DEF SpendInv, LocksExclude, HoldsPass
  <1>5. \A v \in Workers : v # w /\ pc[v] \in {"refund", "coupons"} => job[v].id # e
    <2>1. ASSUME NEW v \in Workers, v # w, pc[v] \in {"refund", "coupons"}, job[v].id = e
          PROVE FALSE
      BY <1>0, <2>1 DEF SpendInv, LocksExclude, HoldsOrder
    <2> QED
      BY <2>1
  <1>6. \A v \in Workers : /\ pc'[v] = IF v = w THEN "idle" ELSE pc[v]
                           /\ job'[v] = IF v = w THEN NoJob ELSE job[v]
                           /\ seen'[v] = IF v = w THEN Nothing ELSE seen[v]
    BY <1>0, EndsFrame
  <1>7. /\ order' \in [OrderIds -> Order]
        /\ \A d \in OrderIds : order'[d] = IF d = e THEN row ELSE order[d]
        /\ \A d \in OrderIds : Placed(d)' <=> Placed(d)
    <2>1. /\ order' \in [OrderIds -> Order]
          /\ \A d \in OrderIds : order'[d] = IF d = e THEN row ELSE order[d]
      BY <1>0, <1>1, <1>3 DEF TypeOK
    <2>2. row.status # "none"
      OBVIOUS
    <2> QED
      BY <1>0, <2>1, <2>2 DEF Placed
  <1>8. /\ \A t \in Tiers : grant'[t] = IF t \in seen[w].grants THEN "REVOKED" ELSE grant[t]
        /\ \A t \in Tiers : coupon'[t] = "none" <=> coupon[t] = "none"
    BY <1>3 DEF SpendInv, SeenCoupons
  <1>9. row.refunded = refunded /\ (row.status = "REFUNDED" <=> refunded = Amount[e])
    OBVIOUS
  <1>10. TypeOK'
    <2>1. /\ grant' \in [Tiers -> {"none", "AWAITING_CHOICE", "FULFILLED", "REVOKED"}]
          /\ coupon' \in [Tiers -> {"none", "AVAILABLE", "REDEEMED", "EXPIRED", "REVOKED"}]
      BY <1>0, <1>3 DEF TypeOK
    <2> QED
      BY <1>0, <1>2, <1>3, <1>7, <2>1, EndsFrame DEF TypeOK, States
  <1> HIDE DEF total, row, refunded
  <1>11. LocksExclude'
    BY <1>0, EndsLocks
  <1>12. NothingBeforePass'
    BY <1>0, <1>3 DEF NothingBeforePass, SpendInv
  <1>13. JobsFit'
    BY <1>4, <1>5, <1>6, <1>7 DEF JobsFit, SpendInv
  <1>14. ReadUnderLock'
    BY <1>4, <1>6 DEF ReadUnderLock, SpendInv
  <1>15. SeenCoupons'
    BY <1>0, <1>6, <1>8 DEF SeenCoupons, SpendInv, Nothing
  <1>16. UsedIsConsumed'
    BY <1>3 DEF UsedIsConsumed, SpendInv
  <1>17. RefundsWithinTotal'
    BY <1>0, <1>7, <1>9 DEF RefundsWithinTotal, SpendInv
  <1>18. AwaitingIsEarned'
    <2>1. ASSUME NEW t \in Tiers, grant'[t] = "AWAITING_CHOICE" PROVE Threshold[t] <= total
      <3>1. t \notin seen[w].grants /\ grant[t] = "AWAITING_CHOICE"
        BY <1>8, <2>1
      <3>2. ~(Threshold[t] > NewTotal(w))
        BY <1>0, <3>1 DEF SpendInv, ReadUnderLock
      <3>3. Threshold[t] \in Nat
        BY SpendAssumption
      <3> QED
        BY <1>2, <3>2, <3>3 DEF total
    <2> QED
      BY <1>3, <2>1 DEF AwaitingIsEarned
  <1>19. OneBenefit'
    BY <1>3, <1>8 DEF OneBenefit, SpendInv
  <1> QED
    BY <1>10, <1>11, <1>12, <1>13, <1>14, <1>15, <1>16, <1>17, <1>18, <1>19 DEF SpendInv

LEMMA ChooseCommitsInv ==
  ASSUME NEW w \in Workers, SpendInv, ChooseCommits(w)
  PROVE  SpendInv'
  <1>0. /\ TypeOK
        /\ Ends(w)
        /\ job[w] \in Job /\ job[w].id \in OrderIds \cup {NoOrder}
        /\ UNCHANGED <<pass, order, balance, late, records>>
    BY DEF SpendInv, TypeOK, ChooseCommits, Job
  <1>1. PICK t \in Tiers : job[w].tier = {t}
    BY DEF ChooseCommits, SpendInv, JobsFit
  <1>2. CASE grant[t] # "AWAITING_CHOICE"
    <2>1. UNCHANGED tables
      BY <1>0, <1>1, <1>2 DEF ChooseCommits, tables
    <2> QED
      BY <1>0, <2>1, EndsInv
  <1>3. CASE grant[t] = "AWAITING_CHOICE"
    <2>0. /\ grant' = [grant EXCEPT ![t] = "FULFILLED"]
          /\ redemption' = [redemption EXCEPT ![t] =
                              IF job[w].id = NoOrder THEN "AVAILABLE" ELSE "CONSUMED"]
          /\ usedFor' = [usedFor EXCEPT ![t] = job[w].id]
          /\ coupon' = coupon
      BY <1>1, <1>3 DEF ChooseCommits, Fulfilled, Redeems
    <2>1. coupon[t] = "none" /\ redemption[t] = "none"
      BY <1>3 DEF SpendInv, OneBenefit
    <2>2. \A v \in Workers : /\ pc'[v] = IF v = w THEN "idle" ELSE pc[v]
                             /\ job'[v] = IF v = w THEN NoJob ELSE job[v]
                             /\ seen'[v] = IF v = w THEN Nothing ELSE seen[v]
      BY <1>0, EndsFrame
    <2>3. \A u \in Tiers :
            /\ grant'[u] = IF u = t THEN "FULFILLED" ELSE grant[u]
            /\ redemption[u] = "AVAILABLE" => redemption'[u] = "AVAILABLE"
            /\ u # t => redemption'[u] = redemption[u] /\ usedFor'[u] = usedFor[u]
      BY <1>0, <2>0, <2>1 DEF TypeOK
    <2>10. TypeOK'
      <3>1. /\ grant' \in [Tiers -> {"none", "AWAITING_CHOICE", "FULFILLED", "REVOKED"}]
            /\ redemption' \in [Tiers -> {"none", "AVAILABLE", "CONSUMED"}]
            /\ usedFor' \in [Tiers -> OrderIds \cup {NoOrder}]
        BY <1>0, <2>0 DEF TypeOK
      <3> QED
        BY <1>0, <2>0, <3>1, EndsFrame DEF TypeOK, States
    <2>11. LocksExclude'
      BY <1>0, EndsLocks
    <2>12. NothingBeforePass'
      BY <1>0, <1>3 DEF NothingBeforePass, SpendInv
    <2>13. JobsFit'
      BY <1>0, <2>2 DEF JobsFit, SpendInv, Placed
    <2>14. ReadUnderLock'
      <3>1. \A v \in Workers : seen[v].grants \subseteq Tiers
        BY <1>0 DEF TypeOK, Seen
      <3>2. \A v \in Workers : v # w => NewTotal(v)' = NewTotal(v)
        BY <1>0, EndsLocks
      <3> QED
        BY <1>0, <2>2, <2>3, <3>1, <3>2 DEF ReadUnderLock, SpendInv
    <2>15. SeenCoupons'
      BY <2>0, <2>2 DEF SeenCoupons, SpendInv, Nothing
    <2>16. UsedIsConsumed'
      <3>1. usedFor'[t] # NoOrder => redemption'[t] = "CONSUMED"
        BY <1>0, <2>0 DEF TypeOK
      <3> QED
        BY <2>3, <3>1 DEF UsedIsConsumed, SpendInv
    <2>17. RefundsWithinTotal'
      BY <1>0 DEF RefundsWithinTotal, SpendInv
    <2>18. AwaitingIsEarned'
      BY <1>0, <2>3 DEF AwaitingIsEarned, SpendInv
    <2>19. OneBenefit'
      BY <2>0, <2>1, <2>3 DEF OneBenefit, SpendInv
    <2> QED
      BY <2>10, <2>11, <2>12, <2>13, <2>14, <2>15, <2>16, <2>17, <2>18, <2>19 DEF SpendInv
  <1> QED
    BY <1>2, <1>3

(***************************************************************************)
(* Every step.                                                             *)
(***************************************************************************)
LEMMA StepInv ==
  ASSUME NEW w \in Workers, SpendInv, Step(w)
  PROVE  SpendInv'
  <1>1. CASE OrderDuplicate(w)
    BY <1>1, OrderDuplicateInv
  <1>2. CASE OrderLocks(w)
    BY <1>2, OrderLocksInv
  <1>3. CASE OrderConflicts(w)
    BY <1>3, EndsInv DEF OrderConflicts
  <1>4. CASE OrderCommits(w)
    BY <1>4, OrderCommitsInv
  <1>5. CASE RefundReads(w)
    BY <1>5, RefundReadsInv
  <1>6. CASE RefundCommits(w)
    BY <1>6, RefundCommitsInv
  <1>7. CASE ChooseLocksPass(w)
    BY <1>7, ChooseLocksPassInv
  <1>8. CASE ChooseCommits(w)
    BY <1>8, ChooseCommitsInv
  <1>9. CASE ListReads(w)
    BY <1>9, ListReadsInv
  <1>10. CASE ListCommits(w)
    BY <1>10, ListCommitsInv
  <1>11. CASE RolledBack(w)
    BY <1>11, EndsInv DEF RolledBack
  <1>12. CASE DeadlockVictim(w)
    BY <1>12, EndsInv DEF DeadlockVictim
  <1>13. ASSUME NEW t \in Tiers, RefundReadsCoupon(w, t) PROVE SpendInv'
    BY <1>13, RefundReadsCouponInv
  <1> QED
    BY <1>1, <1>2, <1>3, <1>4, <1>5, <1>6, <1>7, <1>8, <1>9, <1>10, <1>11, <1>12, <1>13 DEF Step

LEMMA NextSpendInv == SpendInv /\ [Next]_vars => SpendInv'
  <1> SUFFICES ASSUME SpendInv, [Next]_vars PROVE SpendInv'
    OBVIOUS
  <1>1. ASSUME NEW w \in Workers, NEW e \in OrderIds, NEW key \in Keys \cup {NoKey},
               OrderLookup(w, e, key) \/ RefundLocks(w, e, key)
        PROVE  SpendInv'
    BY <1>1, OrderLookupInv, RefundLocksInv
  <1>2. ASSUME NEW w \in Workers, NEW t \in Tiers, NEW e \in OrderIds \cup {NoOrder},
               NEW day \in BOOLEAN, ChooseLocks(w, t, e, day)
        PROVE  SpendInv'
    BY <1>2, ChooseLocksInv
  <1>3. ASSUME NEW w \in Workers, Step(w) PROVE SpendInv'
    BY <1>3, StepInv
  <1>4. ASSUME NEW t \in Tiers, ChooseReward(t) \/ RedeemCoupon(t) \/ WeekPasses(t)
        PROVE  SpendInv'
    BY <1>4, ChooseRewardInv, OutsideStepsInv
  <1>5. CASE PassEnds
    BY <1>5, PassEndsInv
  <1>6. CASE UNCHANGED vars
    <2>1. UNCHANGED tables /\ UNCHANGED <<pc, job, seen>>
      BY <1>6 DEF vars
    <2> QED
      BY <2>1 DEF tables, SpendInv, TypeOK, LocksExclude, HoldsPass, HoldsOrder,
                  NothingBeforePass, Placed, JobsFit, ReadUnderLock, NewTotal,
                  SeenCoupons, UsedIsConsumed, RefundsWithinTotal,
                  AwaitingIsEarned, OneBenefit
  <1> QED
    BY <1>1, <1>2, <1>3, <1>4, <1>5, <1>6 DEF Next

LEMMA SpendInvHolds == Spec => []SpendInv
  BY InitSpendInv, NextSpendInv, PTL DEF Spec

(***************************************************************************)
(* The results.                                                            *)
(***************************************************************************)

(* Every table, request and value read has its type in every reachable     *)
(* state, however many requests interleave (the rows of models.py).        *)
THEOREM SpendTypeCorrect == Spec => []TypeOK
  BY SpendInvHolds, PTL DEF SpendInv

(* No order is refunded beyond its total (refund_order's FOR UPDATE on the *)
(* order covers its check and its update).                                 *)
THEOREM NoOverRefund == Spec => []RefundsWithinTotal
  BY SpendInvHolds, PTL DEF SpendInv

(* A reward on offer is always earned by the balance (create_order and     *)
(* refund_order grant and revoke under the lock on the pass).              *)
THEOREM OffersAreEarned == Spec => []AwaitingIsEarned
  BY SpendInvHolds, PTL DEF SpendInv

(* A grant gives one benefit (choose_reward checks the status under the    *)
(* lock on the grant).                                                     *)
THEOREM OneBenefitEach == Spec => []OneBenefit
  BY SpendInvHolds, PTL DEF SpendInv

(* A request commits the redemption it read only if nobody else could have *)
(* used it up since.                                                       *)
LEMMA NextKeepsUsed ==
  ASSUME SpendInv, [Next]_vars, NEW t \in Tiers, usedFor[t] # NoOrder
  PROVE  usedFor'[t] = usedFor[t]
  <1>1. TypeOK /\ redemption[t] = "CONSUMED" /\ grant[t] # "AWAITING_CHOICE"
    BY DEF SpendInv, UsedIsConsumed, OneBenefit
  <1>2. ASSUME NEW w \in Workers, OrderCommits(w) PROVE usedFor'[t] = usedFor[t]
    <2>1. t \notin seen[w].grants
      BY <1>1, <1>2 DEF OrderCommits, SpendInv, ReadUnderLock
    <2> QED
      BY <1>2, <2>1 DEF OrderCommits
  <1>3. ASSUME NEW w \in Workers, ChooseCommits(w) PROVE usedFor'[t] = usedFor[t]
    <2>1. PICK u \in Tiers : job[w].tier = {u}
      BY <1>3 DEF ChooseCommits, SpendInv, JobsFit
    <2> QED
      BY <1>1, <1>3, <2>1 DEF ChooseCommits, Redeems, TypeOK
  <1>4. ASSUME NEW u \in Tiers, ChooseReward(u) PROVE usedFor'[t] = usedFor[t]
    BY <1>1, <1>4 DEF ChooseReward, AsCoupon, Redeems, TypeOK
  <1>5. ASSUME NEW w \in Workers, Step(w), ~OrderCommits(w), ~ChooseCommits(w)
        PROVE  usedFor' = usedFor
    BY <1>5 DEF Step, OrderDuplicate, OrderLocks, OrderConflicts, RefundReads,
                RefundReadsCoupon, RefundCommits, ChooseLocksPass, ListReads, ListCommits,
                RolledBack, DeadlockVictim, tables
  <1>6. ASSUME NEW w \in Workers, NEW e \in OrderIds, NEW key \in Keys \cup {NoKey},
               OrderLookup(w, e, key) \/ RefundLocks(w, e, key)
        PROVE  usedFor' = usedFor
    BY <1>6 DEF OrderLookup, RefundLocks, tables
  <1>7. ASSUME NEW w \in Workers, NEW u \in Tiers, NEW e \in OrderIds \cup {NoOrder},
               NEW day \in BOOLEAN, ChooseLocks(w, u, e, day)
        PROVE  usedFor' = usedFor
    BY <1>7 DEF ChooseLocks, tables
  <1>8. ASSUME NEW u \in Tiers, RedeemCoupon(u) \/ WeekPasses(u) PROVE usedFor' = usedFor
    BY <1>8 DEF RedeemCoupon, WeekPasses
  <1>9. PassEnds \/ UNCHANGED vars => usedFor' = usedFor
    BY DEF PassEnds, vars, tables
  <1> QED
    BY <1>2, <1>3, <1>4, <1>5, <1>6, <1>7, <1>8, <1>9 DEF Next

(* No redemption serves two orders (create_order picks it by a plain       *)
(* SELECT, but holds the pass from before that read to its commit).        *)
THEOREM RedemptionUsedOnce == Spec => ConsumedOnce
  <1>1. SpendInv /\ [Next]_vars =>
          [\A t \in Tiers : usedFor[t] # NoOrder => usedFor'[t] = usedFor[t]]_vars
    BY NextKeepsUsed
  <1> QED
    BY <1>1, SpendInvHolds, PTL DEF Spec, ConsumedOnce

(***************************************************************************)
(* Sums over a finite set.  MapThenSumSet is a recursive function, and the *)
(* induction over it is on the least cardinality where it would fail.      *)
(***************************************************************************)
Any(s) == CHOOSE x \in s : TRUE

(* The function a gives the sum of f over every subset of S. *)
IsSum(a, f, S) ==
  a = [s \in SUBSET S |-> IF s = {} THEN 0 ELSE f[Any(s)] + a[s \ {Any(s)}]]

Total(f, S) == (CHOOSE a : IsSum(a, f, S))[S]

LEMMA LeastNat ==
  ASSUME NEW T \in SUBSET Nat, T # {}
  PROVE  \E n \in T : \A m \in T : n <= m
  <1>1. IsWellFoundedOn(OpToRel(<, Nat), Nat)
    BY NatLessThanWellFounded
  <1>2. PICK n \in T : \A m \in T : ~(<<m, n>> \in OpToRel(<, Nat))
    BY <1>1, WFMin
  <1>3. \A m \in T : ~(m < n)
    BY <1>2 DEF OpToRel
  <1> QED
    BY <1>3

LEMMA OneLess ==
  ASSUME NEW u, IsFiniteSet(u), NEW x \in u
  PROVE  /\ Cardinality(u) \in Nat /\ Cardinality(u \ {x}) \in Nat
         /\ Cardinality(u \ {x}) = Cardinality(u) - 1
  <1>1. IsFiniteSet(u \ {x}) /\ Cardinality(u \ {x}) = Cardinality(u) - 1
    BY FS_RemoveElement
  <1> QED
    BY <1>1, FS_CardinalityType

(* A minimal number of a set of numbers: the next smaller is not in it. *)
LEMMA NextSmaller ==
  ASSUME NEW T \in SUBSET Nat, NEW n \in T, \A m \in T : n <= m
  PROVE  n \in Nat /\ n - 1 \notin T
  <1>1. n \in Nat
    OBVIOUS
  <1>2. ASSUME n - 1 \in T PROVE FALSE
    <2>1. n <= n - 1
      BY <1>2
    <2> QED
      BY <1>1, <2>1
  <1> QED
    BY <1>1, <1>2

LEMMA SumExists ==
  ASSUME NEW S, IsFiniteSet(S), NEW f \in [S -> Nat]
  PROVE  \E a \in [SUBSET S -> Nat] : IsSum(a, f, S)
  <1> DEFINE Fill(h) == [s \in SUBSET S |-> IF s = {} THEN 0 ELSE f[Any(s)] + h[s \ {Any(s)}]]
             UpTo(h, n) == \A s \in SUBSET S : Cardinality(s) <= n => h[s] = Fill(h)[s]
             Bad == {n \in Nat : ~\E h \in [SUBSET S -> Nat] : UpTo(h, n)}
  <1>1. \A s \in SUBSET S : s # {} => Any(s) \in s /\ Any(s) \in S /\ s \ {Any(s)} \in SUBSET S
    BY DEF Any
  <1>2. ASSUME NEW h \in [SUBSET S -> Nat] PROVE Fill(h) \in [SUBSET S -> Nat]
    <2>1. ASSUME NEW s \in SUBSET S PROVE (IF s = {} THEN 0 ELSE f[Any(s)] + h[s \ {Any(s)}]) \in Nat
      BY <1>1
    <2> QED
      BY <2>1
  <1>3. \A s \in SUBSET S : IsFiniteSet(s) /\ Cardinality(s) \in Nat
    BY FS_Subset, FS_CardinalityType
  <1>4. ASSUME NEW s \in SUBSET S, s # {}
        PROVE  Cardinality(s \ {Any(s)}) = Cardinality(s) - 1
    BY <1>1, <1>3, <1>4, FS_RemoveElement
  <1>5. ASSUME NEW n \in Nat, NEW h \in [SUBSET S -> Nat], UpTo(h, n)
        PROVE  UpTo(Fill(h), n + 1)
    <2> SUFFICES ASSUME NEW s \in SUBSET S, Cardinality(s) <= n + 1
                 PROVE  Fill(h)[s] = Fill(Fill(h))[s]
      OBVIOUS
    <2>1. CASE s = {}
      BY <2>1
    <2>2. CASE s # {}
      <3>1. s \ {Any(s)} \in SUBSET S /\ Cardinality(s \ {Any(s)}) <= n
        BY <1>1, <1>3, <1>4, <2>2
      <3>2. h[s \ {Any(s)}] = Fill(h)[s \ {Any(s)}]
        BY <1>5, <3>1
      <3>3. Fill(h)[s] = f[Any(s)] + h[s \ {Any(s)}]
        BY <2>2
      <3>4. Fill(Fill(h))[s] = f[Any(s)] + Fill(h)[s \ {Any(s)}]
        BY <2>2
      <3> QED
        BY <3>2, <3>3, <3>4
    <2> QED
      BY <2>1, <2>2
  <1>6. ASSUME Bad # {} PROVE FALSE
    <2>1. PICK n \in Bad : \A m \in Bad : n <= m
      <3>1. Bad \in SUBSET Nat
        OBVIOUS
      <3> HIDE DEF Bad
      <3> QED
        BY <1>6, <3>1, LeastNat
    <2>2. n # 0
      <3> DEFINE z == [s \in SUBSET S |-> 0]
      <3>1. z \in [SUBSET S -> Nat]
        OBVIOUS
      <3>2. UpTo(z, 0)
        <4> SUFFICES ASSUME NEW s \in SUBSET S, Cardinality(s) <= 0
                     PROVE  z[s] = Fill(z)[s]
          OBVIOUS
        <4>1. Cardinality(s) = 0
          BY <1>3
        <4>2. s = {}
          BY <1>3, <4>1, FS_EmptySet
        <4>3. z[s] = 0
          OBVIOUS
        <4>4. Fill(z)[s] = 0
          BY <4>2
        <4> HIDE DEF z, Fill
        <4> QED
          BY <4>3, <4>4
      <3>3. 0 \notin Bad
        <4> HIDE DEF z, UpTo, Fill
        <4> QED
          BY <3>1, <3>2
      <3> HIDE DEF Bad
      <3> QED
        BY <2>1, <3>3
    <2>3. n \in Nat /\ n - 1 \in Nat /\ n - 1 \notin Bad
      <3>1. Bad \in SUBSET Nat
        OBVIOUS
      <3> HIDE DEF Bad
      <3>2. n \in Nat /\ n - 1 \notin Bad
        BY <2>1, <3>1, NextSmaller
      <3> QED
        BY <2>2, <3>2
    <2>4. PICK h \in [SUBSET S -> Nat] : UpTo(h, n - 1)
      BY <2>3
    <2>5. UpTo(Fill(h), (n - 1) + 1) /\ Fill(h) \in [SUBSET S -> Nat]
      BY <1>2, <1>5, <2>3, <2>4
    <2>6. (n - 1) + 1 = n
      BY <2>3
    <2> HIDE DEF UpTo, Fill
    <2> QED
      BY <2>1, <2>5, <2>6
  <1>7. Cardinality(S) \in Nat /\ Cardinality(S) \notin Bad
    BY <1>6, <1>3
  <1>8. PICK h \in [SUBSET S -> Nat] : UpTo(h, Cardinality(S))
    BY <1>7
  <1>9. \A s \in SUBSET S : Cardinality(s) <= Cardinality(S)
    BY FS_Subset
  <1>10. \A s \in SUBSET S : h[s] = Fill(h)[s]
    BY <1>8, <1>9
  <1>11. h = Fill(h)
    BY <1>10
  <1> QED
    BY <1>11 DEF IsSum

Unfolds(a, f, S) ==
  \A s \in SUBSET S : /\ s = {} => a[s] = 0
                      /\ s # {} => Any(s) \in s /\ a[s] = f[Any(s)] + a[s \ {Any(s)}]

LEMMA SumUnfolds ==
  ASSUME NEW S, NEW f, NEW a, IsSum(a, f, S)
  PROVE  Unfolds(a, f, S)
  <1> SUFFICES ASSUME NEW s \in SUBSET S
               PROVE  /\ s = {} => a[s] = 0
                      /\ s # {} => Any(s) \in s /\ a[s] = f[Any(s)] + a[s \ {Any(s)}]
    BY DEF Unfolds
  <1>1. a[s] = IF s = {} THEN 0 ELSE f[Any(s)] + a[s \ {Any(s)}]
    BY DEF IsSum
  <1>2. s # {} => Any(s) \in s
    BY DEF Any
  <1> QED
    BY <1>1, <1>2

(* A sum of natural numbers, over the subsets of a finite set. *)
Adds(a, f, S) ==
  /\ IsFiniteSet(S) /\ f \in [S -> Nat]
  /\ a \in [SUBSET S -> Nat] /\ IsSum(a, f, S)

(* Whichever member is taken first, the sum is the same. *)
Splits(a, f, S) == \A s \in SUBSET S : \A x \in s : a[s] = f[x] + a[s \ {x}]

LEMMA SumRemove ==
  ASSUME NEW S, NEW f, NEW a, Adds(a, f, S)
  PROVE  Splits(a, f, S)
  <1> USE DEF Adds, Splits
  <1> DEFINE Bad == {n \in Nat : \E u \in SUBSET S : \E y \in u :
                                   Cardinality(u) = n /\ a[u] # f[y] + a[u \ {y}]}
  <1>1. \A u \in SUBSET S : IsFiniteSet(u) /\ Cardinality(u) \in Nat
    BY FS_Subset, FS_CardinalityType
  <1>2. ASSUME NEW u \in SUBSET S, u # {}
        PROVE  Any(u) \in u /\ a[u] = f[Any(u)] + a[u \ {Any(u)}]
    BY <1>2 DEF Any, IsSum
  <1>3. ASSUME Bad # {} PROVE FALSE
    <2>1. PICK n \in Bad : \A m \in Bad : n <= m
      <3>1. Bad \in SUBSET Nat
        OBVIOUS
      <3> HIDE DEF Bad
      <3> QED
        BY <1>3, <3>1, LeastNat
    <2>2. PICK u \in SUBSET S : \E y \in u : Cardinality(u) = n /\ a[u] # f[y] + a[u \ {y}]
      BY <2>1
    <2>3. PICK y \in u : Cardinality(u) = n /\ a[u] # f[y] + a[u \ {y}]
      BY <2>2
    <2> DEFINE c == Any(u)
    <2>4. c \in u /\ a[u] = f[c] + a[u \ {c}] /\ c # y
      BY <1>2, <2>3
    <2> HIDE DEF c
    <2>5. ASSUME NEW z \in u, NEW w \in u, z # w
          PROVE  a[u \ {z}] = f[w] + a[(u \ {z}) \ {w}]
      <3>1. u \ {z} \in SUBSET S /\ w \in u \ {z}
        BY <2>5
      <3>2. Cardinality(u \ {z}) = n - 1 /\ n - 1 \in Nat
        BY <1>1, <2>3, OneLess
      <3>3. n - 1 \notin Bad
        <4>1. Bad \in SUBSET Nat
          OBVIOUS
        <4> HIDE DEF Bad
        <4> QED
          BY <2>1, <4>1, NextSmaller
      <3> QED
        BY <3>1, <3>2, <3>3
    <2>6. a[u \ {c}] = f[y] + a[(u \ {c}) \ {y}] /\ a[u \ {y}] = f[c] + a[(u \ {y}) \ {c}]
      BY <2>4, <2>5
    <2>7. (u \ {c}) \ {y} = (u \ {y}) \ {c}
      OBVIOUS
    <2>8. f[y] \in Nat /\ f[c] \in Nat /\ a[(u \ {y}) \ {c}] \in Nat
      BY <2>4
    <2>9. a[u] = f[c] + (f[y] + a[(u \ {y}) \ {c}]) /\ a[u \ {y}] = f[c] + a[(u \ {y}) \ {c}]
      BY <2>4, <2>6, <2>7
    <2>10. \A i, j, k \in Nat : i + (j + k) = j + (i + k)
      OBVIOUS
    <2>11. a[u] # f[y] + a[u \ {y}]
      BY <2>3
    <2> HIDE DEF Bad
    <2> QED
      BY <2>8, <2>9, <2>10, <2>11
  <1>4. \A s \in SUBSET S : Cardinality(s) \in Nat /\ Cardinality(s) \notin Bad
    BY <1>1, <1>3
  <1> QED
    BY <1>4

(* Functions that agree on a set have the same sum over it. *)
LEMMA SumSame ==
  ASSUME NEW S, NEW f, NEW a, Adds(a, f, S),
         NEW T, NEW g, NEW b, Adds(b, g, T),
         NEW s, s \subseteq S, s \subseteq T, \A x \in s : f[x] = g[x]
  PROVE  a[s] = b[s]
  <1> USE DEF Adds
  <1> DEFINE Bad == {n \in Nat : \E u \in SUBSET s : Cardinality(u) = n /\ a[u] # b[u]}
  <1>1. \A u \in SUBSET s : u \in SUBSET S /\ IsFiniteSet(u) /\ Cardinality(u) \in Nat
    BY FS_Subset, FS_CardinalityType
  <1>2. ASSUME Bad # {} PROVE FALSE
    <2>1. PICK n \in Bad : \A m \in Bad : n <= m
      <3>1. Bad \in SUBSET Nat
        OBVIOUS
      <3> HIDE DEF Bad
      <3> QED
        BY <1>2, <3>1, LeastNat
    <2>2. PICK u \in SUBSET s : Cardinality(u) = n /\ a[u] # b[u]
      BY <2>1
    <2>3. u # {} /\ u \in SUBSET S
      BY <1>1, <2>2 DEF IsSum
    <2> DEFINE c == Any(u)
    <2>4. c \in u /\ a[u] = f[c] + a[u \ {c}] /\ b[u] = g[c] + b[u \ {c}]
      <3>1. c \in u /\ u \in SUBSET T
        BY <2>3 DEF Any
      <3>2. a[u] = f[c] + a[u \ {c}]
        BY <2>3 DEF IsSum
      <3>3. b[u] = g[c] + b[u \ {c}]
        BY <2>3, <3>1 DEF IsSum
      <3> QED
        BY <3>1, <3>2, <3>3
    <2> HIDE DEF c
    <2>5. Cardinality(u \ {c}) = n - 1 /\ n - 1 \in Nat /\ u \ {c} \in SUBSET s
      BY <1>1, <2>2, <2>4, OneLess
    <2>6. n - 1 \notin Bad
      <3>1. Bad \in SUBSET Nat
        OBVIOUS
      <3> HIDE DEF Bad
      <3> QED
        BY <2>1, <3>1, NextSmaller
    <2>7. a[u \ {c}] = b[u \ {c}]
      BY <2>5, <2>6
    <2> QED
      BY <2>2, <2>4, <2>7
  <1>3. Cardinality(s) \in Nat /\ Cardinality(s) \notin Bad
    BY <1>1, <1>2
  <1> QED
    BY <1>3

LEMMA TotalIsSum ==
  ASSUME NEW S, IsFiniteSet(S), NEW f \in [S -> Nat]
  PROVE  \E a : Adds(a, f, S) /\ Total(f, S) = a[S]
  <1> DEFINE c == CHOOSE a : IsSum(a, f, S)
  <1>1. PICK a \in [SUBSET S -> Nat] : IsSum(a, f, S)
    BY SumExists
  <1>2. IsSum(c, f, S)
    BY <1>1
  <1>3. c = [s \in SUBSET S |-> c[s]]
    BY <1>2 DEF IsSum
  <1> HIDE DEF c
  <1>4. ASSUME NEW s \in SUBSET S PROVE c[s] \in Nat
    <2> DEFINE Bad == {n \in Nat : \E u \in SUBSET S : Cardinality(u) = n /\ c[u] \notin Nat}
    <2>1. \A u \in SUBSET S : IsFiniteSet(u) /\ Cardinality(u) \in Nat
      BY FS_Subset, FS_CardinalityType
    <2>2. ASSUME Bad # {} PROVE FALSE
      <3>1. Bad \in SUBSET Nat
        OBVIOUS
      <3>2. PICK n \in Bad : \A m \in Bad : n <= m
        <4> HIDE DEF Bad
        <4> QED
          BY <2>2, <3>1, LeastNat
      <3>3. PICK u \in SUBSET S : Cardinality(u) = n /\ c[u] \notin Nat
        BY <3>2
      <3> DEFINE y == Any(u)
      <3> HIDE DEF Bad
      <3>4. /\ u = {} => c[u] = 0
            /\ u # {} => Any(u) \in u /\ c[u] = f[Any(u)] + c[u \ {Any(u)}]
        <4>1. Unfolds(c, f, S)
          BY <1>2, SumUnfolds
        <4> QED
          BY <4>1 DEF Unfolds
      <3>5. y \in u /\ c[u] = f[y] + c[u \ {y}]
        <4>1. u # {}
          BY <3>3, <3>4
        <4> QED
          BY <3>4, <4>1
      <3> HIDE DEF y
      <3>6. Cardinality(u \ {y}) = n - 1 /\ n - 1 \in Nat /\ u \ {y} \in SUBSET S
        BY <2>1, <3>3, <3>5, OneLess
      <3>7. n - 1 \notin Bad
        BY <3>1, <3>2, NextSmaller
      <3>8. c[u \ {y}] \in Nat
        BY <3>6, <3>7 DEF Bad
      <3> QED
        BY <3>3, <3>5, <3>8
    <2>3. Cardinality(s) \in Nat /\ Cardinality(s) \notin Bad
      BY <2>1, <2>2
    <2> QED
      BY <2>3
  <1>5. c \in [SUBSET S -> Nat]
    BY <1>3, <1>4
  <1> QED
    BY <1>2, <1>5 DEF Total, c, Adds

LEMMA TotalOfZeros ==
  ASSUME NEW S, IsFiniteSet(S), NEW f \in [S -> Nat], \A x \in S : f[x] = 0
  PROVE  Total(f, S) = 0
  <1> DEFINE z == [s \in SUBSET S |-> 0]
  <1>1. PICK a : Adds(a, f, S) /\ Total(f, S) = a[S]
    BY TotalIsSum
  <1>2. ASSUME NEW s \in SUBSET S
        PROVE  z[s] = IF s = {} THEN 0 ELSE f[Any(s)] + z[s \ {Any(s)}]
    <2>1. s # {} => Any(s) \in S
      BY DEF Any
    <2> QED
      BY <2>1
  <1>3. Adds(z, f, S)
    BY <1>2 DEF IsSum, Adds
  <1> HIDE DEF z
  <1>4. a[S] = z[S]
    BY <1>1, <1>3, SumSame
  <1> QED
    BY <1>1, <1>4 DEF z

(* What one term adds to a sum, and that it is part of it. *)
LEMMA TotalChange ==
  ASSUME NEW S, IsFiniteSet(S), NEW f \in [S -> Nat], NEW g \in [S -> Nat],
         NEW x \in S, \A y \in S \ {x} : g[y] = f[y]
  PROVE  /\ Total(f, S) \in Nat /\ Total(f, S) >= f[x]
         /\ Total(g, S) = (Total(f, S) - f[x]) + g[x]
  <1>1. PICK a : Adds(a, f, S) /\ Total(f, S) = a[S]
    BY TotalIsSum
  <1>2. PICK b : Adds(b, g, S) /\ Total(g, S) = b[S]
    BY TotalIsSum
  <1>3. a[S] = f[x] + a[S \ {x}] /\ b[S] = g[x] + b[S \ {x}]
    <2>1. Splits(a, f, S) /\ Splits(b, g, S)
      BY <1>1, <1>2, SumRemove
    <2> QED
      BY <2>1 DEF Splits
  <1>4. a[S \ {x}] = b[S \ {x}]
    <2>1. S \ {x} \subseteq S /\ \A y \in S \ {x} : f[y] = g[y]
      OBVIOUS
    <2> QED
      BY <1>1, <1>2, <2>1, SumSame
  <1>5. f[x] \in Nat /\ g[x] \in Nat /\ a[S \ {x}] \in Nat
    BY <1>1 DEF Adds
  <1> QED
    BY <1>1, <1>2, <1>3, <1>4, <1>5

(***************************************************************************)
(* The drift of the balance.                                               *)
(***************************************************************************)
LEMMA NetSpendIsTotal ==
  /\ NetSpend = Total(Net, OrderIds)
  /\ NetSpend' = Total(Net', OrderIds)
  <1>1. NetSpend = Total(Net, OrderIds)
    BY DEF NetSpend, MapThenSumSet, MapThenFoldSet, Total, IsSum, Any
  <1>2. NetSpend' = Total(Net', OrderIds)
    BY DEF NetSpend, MapThenSumSet, MapThenFoldSet, Total, IsSum, Any
  <1> QED
    BY <1>1, <1>2

(* No term is negative: an order is not refunded beyond its total. *)
LEMMA NetType ==
  /\ SpendInv => Net \in [OrderIds -> Nat]
  /\ SpendInv' => Net' \in [OrderIds -> Nat]
  <1>1. ASSUME SpendInv, NEW e \in OrderIds PROVE Amount[e] - order[e].refunded \in Nat
    <2>1. Amount[e] \in Nat /\ order[e].refunded \in Nat /\ order[e].refunded <= Amount[e]
      BY <1>1, SpendAssumption DEF SpendInv, TypeOK, Order, RefundsWithinTotal
    <2> QED
      BY <2>1
  <1>2. ASSUME SpendInv', NEW e \in OrderIds PROVE Amount[e] - order'[e].refunded \in Nat
    <2>1. Amount[e] \in Nat /\ order'[e].refunded \in Nat /\ order'[e].refunded <= Amount[e]
      BY <1>2, SpendAssumption DEF SpendInv, TypeOK, Order, RefundsWithinTotal
    <2> QED
      BY <2>1
  <1> QED
    BY <1>1, <1>2 DEF Net

(* An order that commits counts in full, on both sides. *)
LEMMA OrderKeepsDrift ==
  ASSUME NEW w \in Workers, SpendInv, SpendInv', OrderCommits(w)
  PROVE  Drift' = Drift
  <1> DEFINE e == job[w].id
  <1>1. /\ TypeOK
        /\ e \in OrderIds /\ ~Placed(e) /\ Amount[e] \in Nat
        /\ order' = [order EXCEPT ![e] = [status |-> "PAID", refunded |-> 0]]
        /\ balance' = seen[w].balance + Amount[e]
    BY SpendAssumption DEF SpendInv, JobsFit, OrderCommits, Conflict
  <1>2. seen[w].balance = balance
    <2>1. CASE pc[w] = "write"
      BY <2>1 DEF SpendInv, ReadUnderLock
    <2>2. CASE pc[w] = "first"
      <3>1. pass = "none"
        BY <2>2 DEF OrderCommits, Conflict
      <3>2. balance = 0
        BY <3>1 DEF SpendInv, NothingBeforePass
      <3>3. seen[w].balance = 0
        BY <2>2 DEF SpendInv, ReadUnderLock
      <3> QED
        BY <3>2, <3>3
    <2> QED
      BY <2>1, <2>2 DEF OrderCommits
  <1>3. \A d \in OrderIds : /\ d # e => order'[d] = order[d]
                            /\ order'[e] = [status |-> "PAID", refunded |-> 0]
    BY <1>1 DEF TypeOK
  <1>4. Net \in [OrderIds -> Nat] /\ Net' \in [OrderIds -> Nat]
    BY NetType
  <1>5. Net[e] = 0 /\ Net'[e] = Amount[e]
    BY <1>1, <1>3 DEF Net, Placed
  <1>6. \A d \in OrderIds \ {e} : Net'[d] = Net[d]
    BY <1>3 DEF Net, Placed
  <1>7. /\ Total(Net, OrderIds) \in Nat
        /\ Total(Net', OrderIds) = Total(Net, OrderIds) + Amount[e]
    <2>1. /\ Total(Net, OrderIds) \in Nat
          /\ Total(Net', OrderIds) = (Total(Net, OrderIds) - Net[e]) + Net'[e]
      BY <1>1, <1>4, <1>6, TotalChange, SpendAssumption
    <2> QED
      BY <1>1, <1>5, <2>1
  <1>8. balance \in Nat
    BY <1>1 DEF TypeOK
  <1>9. balance' = balance + Amount[e] /\ Amount[e] \in Nat
    BY <1>1, <1>2
  <1>10. NetSpend \in Nat /\ NetSpend' = NetSpend + Amount[e]
    BY <1>7, NetSpendIsTotal
  <1> HIDE DEF e
  <1>11. (balance + Amount[e]) - (NetSpend + Amount[e]) = balance - NetSpend
    BY <1>8, <1>9, <1>10
  <1>12. balance' - NetSpend' = (balance + Amount[e]) - (NetSpend + Amount[e])
    BY <1>9, <1>10
  <1> QED
    BY <1>11, <1>12 DEF Drift

(* A refund that commits from the present balance takes as much off both   *)
(* sides, unless less than the refund is left in the balance.              *)
LEMMA RefundKeepsDrift ==
  ASSUME NEW w \in Workers, SpendInv, SpendInv', RefundCommits(w),
         seen[w].balance = balance, ~(Drift < 0)
  PROVE  Drift' = Drift
  <1> DEFINE e == job[w].id
  <1>1. /\ TypeOK
        /\ e \in OrderIds /\ Placed(e) /\ Amount[e] \in Nat
        /\ order[e].refunded \in Nat /\ job[w].amount \in Nat
        /\ order[e].refunded + job[w].amount <= Amount[e]
        /\ balance' = NewTotal(w)
    <2>1. TypeOK /\ pc[w] = "reclaim" /\ balance' = NewTotal(w)
      BY DEF SpendInv, RefundCommits
    <2>2. /\ e \in OrderIds /\ Placed(e)
          /\ order[e].refunded + job[w].amount <= Amount[e]
      BY <2>1 DEF SpendInv, JobsFit
    <2>3. order[e] \in Order /\ job[w] \in Job /\ Amount[e] \in Nat
      BY <2>1, <2>2, SpendAssumption DEF TypeOK
    <2> HIDE DEF e
    <2> QED
      BY <2>1, <2>2, <2>3 DEF Order, Job
  <1>2. /\ \A d \in OrderIds \ {e} : order'[d] = order[d]
        /\ order'[e].refunded = order[e].refunded + job[w].amount
        /\ order'[e].status # "none"
    BY <1>1 DEF RefundCommits, TypeOK
  <1>3. Net \in [OrderIds -> Nat] /\ Net' \in [OrderIds -> Nat]
    BY NetType
  <1>4. /\ Net[e] = Amount[e] - order[e].refunded
        /\ Net'[e] = Amount[e] - (order[e].refunded + job[w].amount)
    BY <1>1, <1>2 DEF Net, Placed
  <1>5. \A d \in OrderIds \ {e} : Net'[d] = Net[d]
    BY <1>2 DEF Net, Placed
  <1>6. /\ Total(Net, OrderIds) \in Nat /\ Total(Net, OrderIds) >= Net[e]
        /\ Total(Net', OrderIds) = (Total(Net, OrderIds) - Net[e]) + Net'[e]
    BY <1>1, <1>3, <1>5, TotalChange, SpendAssumption
  <1> HIDE DEF e
  <1>7. /\ NetSpend \in Nat /\ NetSpend >= job[w].amount
        /\ NetSpend' = NetSpend - job[w].amount
    BY <1>1, <1>4, <1>6, NetSpendIsTotal
  <1>8. balance \in Nat /\ balance >= NetSpend
    <2>1. balance \in Nat
      BY <1>1 DEF TypeOK
    <2> QED
      BY <1>7, <2>1 DEF Drift
  <1>9. balance' = balance - job[w].amount
    BY <1>1, <1>7, <1>8 DEF NewTotal
  <1>10. balance' - NetSpend' = balance - NetSpend
    BY <1>1, <1>7, <1>8, <1>9
  <1> QED
    BY <1>10 DEF Drift

LEMMA FrameKeepsDrift ==
  ASSUME UNCHANGED <<order, balance>>
  PROVE  Drift' = Drift
  <1>1. Net' = Net
    BY DEF Net, Placed
  <1> QED
    BY <1>1, NetSpendIsTotal DEF Drift

Overtakes(w) == RefundCommits(w) /\ (seen[w].balance # balance \/ Drift < 0)

LEMMA NextKeepsDrift ==
  ASSUME SpendInv, SpendInv', [Next]_vars
  PROVE  Drift' = Drift \/ \E w \in Workers : Overtakes(w)
  <1>1. ASSUME NEW w \in Workers, Step(w), ~Overtakes(w) PROVE Drift' = Drift
    <2>1. CASE OrderCommits(w)
      BY <2>1, OrderKeepsDrift
    <2>2. CASE RefundCommits(w)
      BY <1>1, <2>2, RefundKeepsDrift DEF Overtakes
    <2>3. CASE ~OrderCommits(w) /\ ~RefundCommits(w)
      <3>1. UNCHANGED <<order, balance>>
        BY <1>1, <2>3 DEF Step, OrderDuplicate, OrderLocks, OrderConflicts, RefundReads,
                RefundReadsCoupon, ChooseLocksPass, ChooseCommits, ListReads, ListCommits,
                RolledBack, DeadlockVictim, tables
      <3> QED
        BY <3>1, FrameKeepsDrift
    <2> QED
      BY <2>1, <2>2, <2>3
  <1>2. ASSUME NEW w \in Workers, NEW e \in OrderIds, NEW key \in Keys \cup {NoKey},
               OrderLookup(w, e, key) \/ RefundLocks(w, e, key)
        PROVE  UNCHANGED <<order, balance>>
    BY <1>2 DEF OrderLookup, RefundLocks, tables
  <1>3. ASSUME NEW w \in Workers, NEW t \in Tiers, NEW e \in OrderIds \cup {NoOrder},
               NEW day \in BOOLEAN, ChooseLocks(w, t, e, day)
        PROVE  UNCHANGED <<order, balance>>
    BY <1>3 DEF ChooseLocks, tables
  <1>4. ASSUME NEW t \in Tiers, ChooseReward(t) \/ RedeemCoupon(t) \/ WeekPasses(t)
        PROVE  UNCHANGED <<order, balance>>
    BY <1>4 DEF ChooseReward, RedeemCoupon, WeekPasses
  <1>5. PassEnds \/ UNCHANGED vars => UNCHANGED <<order, balance>>
    BY DEF PassEnds, vars, tables
  <1> QED
    BY <1>1, <1>2, <1>3, <1>4, <1>5, FrameKeepsDrift DEF Next

(* Concurrent orders, retries, conflicts and rollbacks keep the balance    *)
(* where it is against the net spend of the day; only the commit of a      *)
(* refund can move it, when the balance it read before the lock on the     *)
(* pass was overtaken or is too small (refund_order).                      *)
THEOREM OrdersNeverDrift == Spec => OnlyRefundsDrift
  <1>1. SpendInv /\ SpendInv' /\ [Next]_vars =>
          [Drift' = Drift \/ \E w \in Workers :
             RefundCommits(w) /\ (seen[w].balance # balance \/ Drift < 0)]_vars
    BY NextKeepsDrift DEF Overtakes
  <1> QED
    BY <1>1, SpendInvHolds, PTL DEF Spec, OnlyRefundsDrift

(***************************************************************************)
(* One request at a time.                                                  *)
(***************************************************************************)
ReadIsPresent ==
  \A w \in Workers : pc[w] \in {"refund", "coupons", "reclaim"} => seen[w].balance = balance

LEMMA AloneReadsPresent ==
  ASSUME \A v, w \in Workers : v = w, SpendInv, ReadIsPresent, [Next]_vars
  PROVE  ReadIsPresent'
  <1>0. TypeOK
    BY DEF SpendInv
  <1>1. ASSUME NEW w \in Workers, Ends(w) PROVE ReadIsPresent'
    BY <1>0, <1>1, EndsFrame DEF ReadIsPresent
  <1>2. ASSUME NEW w \in Workers, NEW to \in States \ {"refund", "coupons", "reclaim"},
               pc' = [pc EXCEPT ![w] = to]
        PROVE  ReadIsPresent'
    BY <1>0, <1>2 DEF ReadIsPresent, TypeOK
  <1>3. ASSUME NEW w \in Workers, NEW e \in OrderIds, NEW key \in Keys \cup {NoKey},
               RefundLocks(w, e, key)
        PROVE  ReadIsPresent'
    <2>1. balance' = balance /\ seen' = [seen EXCEPT ![w].balance = balance]
      BY <1>3 DEF RefundLocks, tables
    <2>2. seen'[w].balance = balance
      BY <1>0, <2>1 DEF TypeOK, Seen
    <2> QED
      BY <2>1, <2>2 DEF ReadIsPresent
  <1>4. ASSUME NEW w \in Workers, RefundReads(w) PROVE ReadIsPresent'
    <2>1. balance' = balance /\ pc[w] = "refund" /\ seen'[w].balance = seen[w].balance
      BY <1>0, <1>4 DEF RefundReads, tables, TypeOK, Seen
    <2> QED
      BY <2>1 DEF ReadIsPresent
  <1>5. ASSUME NEW w \in Workers, Step(w) PROVE ReadIsPresent'
    <2>1. CASE Ends(w)
      BY <1>1, <2>1
    <2>2. CASE RefundReads(w)
      BY <1>4, <2>2
    <2>4. ASSUME NEW t \in Tiers, RefundReadsCoupon(w, t) PROVE ReadIsPresent'
      <3>1. balance' = balance /\ pc[w] = "coupons" /\ seen'[w].balance = seen[w].balance
        BY <1>0, <2>4 DEF RefundReadsCoupon, tables, TypeOK, Seen
      <3> QED
        BY <3>1 DEF ReadIsPresent
    <2>3. CASE ~Ends(w) /\ ~RefundReads(w) /\ ~\E t \in Tiers : RefundReadsCoupon(w, t)
      <3>1. \E to \in States \ {"refund", "coupons", "reclaim"} : pc' = [pc EXCEPT ![w] = to]
        BY <1>5, <2>3 DEF Step, OrderDuplicate, OrderLocks, OrderConflicts, OrderCommits,
           RefundCommits, ChooseLocksPass, ChooseCommits, ListReads, ListCommits,
           RolledBack, DeadlockVictim, Goes, States
      <3> QED
        BY <1>2, <3>1
    <2> QED
      BY <2>1, <2>2, <2>3, <2>4
  <1>6. ASSUME NEW w \in Workers, NEW e \in OrderIds, NEW key \in Keys \cup {NoKey},
               OrderLookup(w, e, key)
        PROVE  ReadIsPresent'
    BY <1>2, <1>6 DEF OrderLookup, States
  <1>7. ASSUME NEW w \in Workers, NEW t \in Tiers, NEW e \in OrderIds \cup {NoOrder},
               NEW day \in BOOLEAN, ChooseLocks(w, t, e, day)
        PROVE  ReadIsPresent'
    <2>1. PICK to \in States \ {"refund", "coupons", "reclaim"} : pc' = [pc EXCEPT ![w] = to]
      BY <1>7 DEF ChooseLocks, States
    <2> QED
      BY <1>2, <2>1
  <1>8. ASSUME UNCHANGED <<pc, seen, balance>> PROVE ReadIsPresent'
    BY <1>8 DEF ReadIsPresent
  <1>9. ASSUME NEW t \in Tiers, ChooseReward(t) \/ RedeemCoupon(t) \/ WeekPasses(t)
        PROVE  ReadIsPresent'
    BY <1>8, <1>9 DEF ChooseReward, RedeemCoupon, WeekPasses
  <1>10. CASE PassEnds \/ UNCHANGED vars
    BY <1>8, <1>10 DEF PassEnds, vars, tables
  <1> QED
    BY <1>3, <1>5, <1>6, <1>7, <1>9, <1>10 DEF Next

LEMMA InitNetSpend == Init => NetSpend = 0
  <1> SUFFICES ASSUME Init PROVE Total(Net, OrderIds) = 0
    BY NetSpendIsTotal
  <1>1. Net \in [OrderIds -> Nat] /\ \A e \in OrderIds : Net[e] = 0
    BY DEF Init, Net, Placed, NoRow
  <1> QED
    BY <1>1, TotalOfZeros, SpendAssumption

(* With one request at a time the balance is the net spend of the day, as  *)
(* README.md says: what makes it drift is overlapping requests and nothing *)
(* else (refund_order reads the balance before it locks the pass).         *)
THEOREM AloneBalanceIsNetSpend ==
  ASSUME \A v, w \in Workers : v = w
  PROVE  Spec => []BalanceIsNetSpend
  <1> DEFINE Alone == ReadIsPresent /\ Drift = 0
  <1>1. Init => Alone
    <2>1. Init => ReadIsPresent
      BY DEF Init, ReadIsPresent
    <2>2. Init => Drift = 0
      BY InitNetSpend DEF Init, Drift
    <2> QED
      BY <2>1, <2>2
  <1>2. SpendInv /\ SpendInv' /\ Alone /\ [Next]_vars => Alone'
    <2> SUFFICES ASSUME SpendInv, SpendInv', ReadIsPresent, Drift = 0, [Next]_vars
                 PROVE  ReadIsPresent' /\ Drift' = 0
      OBVIOUS
    <2>1. ReadIsPresent'
      BY AloneReadsPresent
    <2>2. ASSUME NEW w \in Workers, Overtakes(w) PROVE FALSE
      BY <2>2 DEF Overtakes, ReadIsPresent, RefundCommits
    <2> QED
      BY <2>1, <2>2, NextKeepsDrift
  <1>3. Alone /\ SpendInv => BalanceIsNetSpend
    <2> SUFFICES ASSUME SpendInv, Drift = 0 PROVE balance = NetSpend
      BY DEF BalanceIsNetSpend
    <2>1. balance \in Nat /\ NetSpend \in Nat
      <3>1. Total(Net, OrderIds) \in Nat
        <4>1. Net \in [OrderIds -> Nat]
          BY NetType
        <4>2. PICK a : Adds(a, Net, OrderIds) /\ Total(Net, OrderIds) = a[OrderIds]
          BY <4>1, TotalIsSum, SpendAssumption
        <4> QED
          BY <4>2 DEF Adds
      <3> QED
        BY <3>1, NetSpendIsTotal DEF SpendInv, TypeOK
    <2> QED
      BY <2>1 DEF Drift
  <1> HIDE DEF Alone
  <1> QED
    BY <1>1, <1>2, <1>3, SpendInvHolds, PTL DEF Spec
=============================================================================

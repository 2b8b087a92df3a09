------------------------- MODULE DjangoOrdersProofs -------------------------
(***************************************************************************)
(* Proofs about DjangoOrders, for any orders, prices, keys, tiers and      *)
(* number of requests.                                                     *)
(***************************************************************************)
EXTENDS DjangoOrders, FiniteSetTheorems, WellFoundedInduction, TLAPS

JobRow == [order : Orders \cup {NoOrder}, key : Keys \cup {NoOrder}]
Stages == {"new", "create", "store", "done"}

(* The steps of staff, customers and time, which leave the requests and    *)
(* the orders paid alone.                                                  *)
OtherStep ==
  \/ \E o \in Orders : AdminOrderRefund(o) \/ ExchangeClaim(o) \/ ClaimExpires(o)
  \/ \E t \in Tiers :
       \/ RewardChoose(t) \/ RedeemCoupon(t) \/ ApplyRedemption(t)
       \/ BenefitExpires(t) \/ CreateTier(t)
  \/ BlockPass \/ UnblockPass \/ PublishPolicy
  \/ UNCHANGED vars

LEMMA StepCases ==
  ASSUME [Next]_vars
  PROVE  \/ OtherStep
         \/ \E a \in Attempts :
              \/ \E o \in Orders, k \in Keys : Receive(a, o, k)
              \/ Create(a) \/ StoreRecord(a) \/ Stop(a)
  BY DEF Next, PosStep, OtherStep

LEMMA OthersLeaveRequests ==
  ASSUME OtherStep
  PROVE  UNCHANGED <<paid, requests>>
  BY DEF OtherStep, AdminOrderRefund, RefundOrder, ExchangeClaim, ClaimExpires, RewardChoose,
         ChooseCoupon, ChooseImmediate, RedeemCoupon, ApplyRedemption, BenefitExpires, CreateTier,
         BlockPass, UnblockPass, PublishPolicy, vars

(* What a request becomes, and that no other one changes. *)
LEMMA AnsweredFrame ==
  ASSUME TypeOK, NEW a \in Attempts, NEW what \in Answers, Answered(a, what)
  PROVE  /\ pc' \in [Attempts -> Stages] /\ told' \in [Attempts -> Answers]
         /\ \A b \in Attempts : /\ pc'[b] = IF b = a THEN "done" ELSE pc[b]
                                /\ told'[b] = IF b = a THEN what ELSE told[b]
  BY DEF TypeOK, Answered, Stages

LEMMA GoesFrame ==
  ASSUME TypeOK, NEW a \in Attempts, NEW to \in Stages, Goes(a, to)
  PROVE  /\ pc' \in [Attempts -> Stages] /\ told' = told
         /\ \A b \in Attempts : pc'[b] = IF b = a THEN to ELSE pc[b]
  BY DEF TypeOK, Goes, Stages

LEMMA GrantedType ==
  ASSUME TypeOK, NEW sum \in Nat
  PROVE  Granted(sum) \in [Tiers -> {"none", "AWAITING_CHOICE", "FULFILLED", "REVOKED"}]
  BY DEF TypeOK, Granted

(***************************************************************************)
(* Types.                                                                  *)
(***************************************************************************)
LEMMA NextTypeOK ==
  ASSUME TypeOK, RequestsFit, [Next]_vars
  PROVE  TypeOK'
  <1> USE DEF rewards, passes, claims, requests
  <1>1. ASSUME NEW a \in Attempts, NEW o \in Orders, NEW k \in Keys, Receive(a, o, k) PROVE TypeOK'
    <2>1. job' \in [Attempts -> JobRow]
      BY <1>1 DEF Receive, TypeOK, JobRow
    <2>2. Goes(a, "create") \/ Answered(a, "replayed") \/ Answered(a, "conflict")
      BY <1>1 DEF Receive
    <2>3. pc' \in [Attempts -> Stages] /\ told' \in [Attempts -> Answers]
      BY <2>2, AnsweredFrame, GoesFrame DEF Answers, Stages, TypeOK
    <2> QED
      BY <1>1, <2>1, <2>3 DEF Receive, TypeOK, JobRow, Stages
  <1>2. ASSUME NEW a \in Attempts, Create(a) PROVE TypeOK'
    <2>1. job[a].order \in Orders
      BY <1>2 DEF Create, RequestsFit
    <2>2. pc' \in [Attempts -> Stages] /\ told' \in [Attempts -> Answers]
      <3>1. Goes(a, "store") \/ Answered(a, "refused") \/ Answered(a, "duplicate")
        BY <1>2 DEF Create, Commit
      <3> QED
        BY <3>1, AnsweredFrame, GoesFrame DEF Answers, Stages, TypeOK
    <2>3. CASE UNCHANGED <<paid, total, grant, usable>>
      BY <1>2, <2>2, <2>3 DEF Create, TypeOK, Stages
    <2>4. CASE Commit(a, job[a].order) /\ published
      <3>1. paid' \subseteq Orders /\ paid \subseteq paid'
        BY <2>1, <2>4 DEF Commit, TypeOK
      <3>2. total' \in Nat
        BY <2>1, <2>4, DjangoOrdersConstants DEF Commit, TypeOK
      <3>3. grant' \in [Tiers -> {"none", "AWAITING_CHOICE", "FULFILLED", "REVOKED"}]
        BY <2>4, <3>2, GrantedType DEF Commit
      <3>4. usable' \in Nat
        BY <2>4 DEF Commit, OrderFindsPass, TypeOK
      <3> QED
        BY <1>2, <2>2, <3>1, <3>2, <3>3, <3>4 DEF Create, TypeOK, Stages
    <2> QED
      BY <1>2, <2>3, <2>4 DEF Create, Commit
  <1>3. ASSUME NEW a \in Attempts, StoreRecord(a) PROVE TypeOK'
    <2>1. job[a].order \in Orders /\ job[a].key \in Keys
      BY <1>3 DEF StoreRecord, RequestsFit
    <2>2. Answered(a, "created") \/ Answered(a, "error")
      BY <1>3 DEF StoreRecord
    <2>3. pc' \in [Attempts -> Stages] /\ told' \in [Attempts -> Answers]
      BY <2>2, AnsweredFrame DEF Answers
    <2>4. record' \in [Keys -> Orders \cup {NoOrder}]
      BY <1>3, <2>1 DEF StoreRecord, TypeOK
    <2> QED
      BY <1>3, <2>3, <2>4 DEF StoreRecord, TypeOK, Stages
  <1>4. ASSUME NEW a \in Attempts, Stop(a) PROVE TypeOK'
    <2>1. pc' \in [Attempts -> Stages] /\ told' \in [Attempts -> Answers]
      BY <1>4, AnsweredFrame DEF Stop, Answers
    <2> QED
      BY <1>4, <2>1 DEF Stop, TypeOK, Stages
  <1>5. ASSUME NEW o \in Orders, NEW x \in 1 .. Price[o], RefundOrder(o, x) PROVE TypeOK'
    <2>1. Price[o] \in Nat
      BY DjangoOrdersConstants
    <2>2. refunded' \in [Orders -> Nat]
      BY <1>5, <2>1 DEF RefundOrder, TypeOK
    <2>3. total' \in Nat
      BY <1>5, <2>1 DEF RefundOrder, Positive, TypeOK
    <2>4. grant' \in [Tiers -> {"none", "AWAITING_CHOICE", "FULFILLED", "REVOKED"}]
      BY <1>5 DEF RefundOrder, TypeOK
    <2>5. coupon' \in [Tiers -> {"none", "AVAILABLE", "REDEEMED", "REVOKED"}]
      BY <1>5 DEF RefundOrder, WithdrawnCoupons, TypeOK
    <2> QED
      BY <1>5, <2>2, <2>3, <2>4, <2>5 DEF RefundOrder, TypeOK
  <1>6. ASSUME NEW o \in Orders, ExchangeClaim(o) \/ ClaimExpires(o) PROVE TypeOK'
    BY <1>6 DEF ExchangeClaim, ClaimExpires, TypeOK
  <1>7. ASSUME NEW t \in Tiers, NEW dayPass \in BOOLEAN, ChooseCoupon(t) \/ ChooseImmediate(t, dayPass)
        PROVE  TypeOK'
    BY <1>7 DEF ChooseCoupon, ChooseImmediate, Fulfil, TypeOK
  <1>8. ASSUME NEW t \in Tiers, RedeemCoupon(t) \/ ApplyRedemption(t) PROVE TypeOK'
    BY <1>8 DEF RedeemCoupon, ApplyRedemption, TypeOK
  <1>9. ASSUME NEW t \in Tiers, BenefitExpires(t) \/ CreateTier(t) PROVE TypeOK'
    BY <1>9 DEF BenefitExpires, CreateTier, TypeOK
  <1>10. CASE BlockPass \/ UnblockPass \/ PublishPolicy
    <2>1. usable' \in Nat /\ blocked' \in Nat
      <3>1. usable \in Nat /\ blocked \in Nat
        BY DEF TypeOK
      <3>2. \/ usable > 0 /\ usable' = usable - 1 /\ blocked' = blocked + 1
            \/ blocked > 0 /\ usable' = usable + 1 /\ blocked' = blocked - 1
            \/ UNCHANGED <<usable, blocked>>
        BY <1>10 DEF BlockPass, UnblockPass, PublishPolicy
      <3> QED
        BY <3>1, <3>2
    <2>3. everBlocked' \in BOOLEAN /\ published' \in BOOLEAN
      BY <1>10 DEF BlockPass, UnblockPass, PublishPolicy, TypeOK
    <2>2. UNCHANGED <<active, paid, refunded, total, rewards, claims, requests>>
      BY <1>10 DEF BlockPass, UnblockPass, PublishPolicy
    <2> QED
      BY <2>1, <2>2, <2>3 DEF TypeOK
  <1>11. CASE UNCHANGED vars
    BY <1>11 DEF vars, TypeOK
  <1> QED
    BY <1>1, <1>2, <1>3, <1>4, <1>5, <1>6, <1>7, <1>8, <1>9, <1>10, <1>11
       DEF Next, PosStep, AdminOrderRefund, RewardChoose

(***************************************************************************)
(* What the requests are told.                                             *)
(***************************************************************************)
LEMMA NextRequestsFit ==
  ASSUME TypeOK, RequestsFit, [Next]_vars
  PROVE  RequestsFit'
  <1>1. ASSUME NEW a \in Attempts, NEW o \in Orders, NEW k \in Keys, Receive(a, o, k)
        PROVE  RequestsFit'
    <2>1. \A b \in Attempts : job'[b] = IF b = a THEN [order |-> o, key |-> k] ELSE job[b]
      BY <1>1 DEF Receive, TypeOK
    <2>2. CASE Goes(a, "create")
      <3>1. told[a] = "none" /\ told' = told
            /\ \A b \in Attempts : pc'[b] = IF b = a THEN "create" ELSE pc[b]
        BY <1>1, <2>2, GoesFrame DEF Receive, RequestsFit, Stages
      <3> QED
        BY <1>1, <2>1, <3>1 DEF Receive, RequestsFit
    <2>3. ASSUME NEW what \in Answers, Answered(a, what) PROVE RequestsFit'
      BY <1>1, <2>1, <2>3, AnsweredFrame DEF Receive, RequestsFit
    <2> QED
      BY <1>1, <2>2, <2>3 DEF Receive, Answers
  <1>2. ASSUME NEW a \in Attempts, Create(a) PROVE RequestsFit'
    <2>1. ASSUME NEW what \in Answers, Answered(a, what), UNCHANGED <<paid, job>>
          PROVE  RequestsFit'
      BY <1>2, <2>1, AnsweredFrame DEF Create, RequestsFit
    <2>2. CASE Goes(a, "store") /\ paid' = paid \cup {job[a].order}
      <3>1. told[a] = "none" /\ told' = told /\ job' = job
            /\ \A b \in Attempts : pc'[b] = IF b = a THEN "store" ELSE pc[b]
        BY <1>2, <2>2, GoesFrame DEF Create, RequestsFit, Stages
      <3> QED
        BY <1>2, <2>2, <3>1 DEF Create, RequestsFit
    <2> QED
      BY <1>2, <2>1, <2>2 DEF Create, Commit, Answers
  <1>3. ASSUME NEW a \in Attempts, StoreRecord(a) \/ Stop(a) PROVE RequestsFit'
    <2>1. PICK what \in Answers : Answered(a, what)
      BY <1>3 DEF StoreRecord, Stop, Answers
    <2>2. pc[a] # "new" /\ UNCHANGED <<paid, job>>
      BY <1>3 DEF StoreRecord, Stop
    <2> QED
      BY <2>1, <2>2, AnsweredFrame DEF RequestsFit
  <1>4. CASE OtherStep
    BY <1>4, OthersLeaveRequests DEF requests, RequestsFit
  <1> QED
    BY <1>1, <1>2, <1>3, <1>4, StepCases

LEMMA NextResponsesFit ==
  ASSUME TypeOK, RequestsFit, ResponsesFit, AnswersAreTrue, [Next]_vars
  PROVE  ResponsesFit' /\ AnswersAreTrue'
  <1>1. ASSUME NEW a \in Attempts, NEW o \in Orders, NEW k \in Keys, Receive(a, o, k)
        PROVE  ResponsesFit' /\ AnswersAreTrue'
    <2>1. /\ \A b \in Attempts : job'[b] = IF b = a THEN [order |-> o, key |-> k] ELSE job[b]
          /\ pc[a] = "new" /\ told[a] = "none" /\ UNCHANGED <<paid, record>>
      BY <1>1 DEF Receive, TypeOK, RequestsFit
    <2>2. /\ \A b \in Attempts \ {a} : pc'[b] = pc[b] /\ told'[b] = told[b]
          /\ pc'[a] \in {"create", "done"}
          /\ told'[a] \in {"none", "replayed", "conflict"}
          /\ told'[a] = "replayed" => record[k] = o
      <3>1. CASE record[k] = NoOrder
        BY <1>1, <2>1, <3>1, GoesFrame, DjangoOrdersConstants DEF Receive, Stages
      <3>2. CASE record[k] # NoOrder /\ record[k] = o
        BY <1>1, <3>2, AnsweredFrame, DjangoOrdersConstants DEF Receive, Answers
      <3>3. CASE record[k] # NoOrder /\ record[k] # o
        BY <1>1, <3>3, AnsweredFrame DEF Receive, Answers
      <3> QED
        BY <3>1, <3>2, <3>3
    <2>3. ResponsesFit'
      <3>1. ASSUME NEW b \in Attempts, NEW c \in Attempts, pc'[b] = "store", b # c,
                   job'[c].order = job'[b].order
            PROVE  pc'[c] # "store" /\ told'[c] # "created"
        <4>1. b # a /\ pc[b] = "store"
          BY <2>2, <3>1
        <4> QED
          BY <2>1, <2>2, <3>1, <4>1 DEF ResponsesFit
      <3>2. ASSUME NEW h \in Keys, record'[h] # NoOrder
            PROVE  \E b \in Attempts : told'[b] = "created" /\ job'[b].key = h /\ job'[b].order = record'[h]
        <4>1. PICK b \in Attempts : told[b] = "created" /\ job[b].key = h /\ job[b].order = record[h]
          BY <2>1, <3>2 DEF ResponsesFit
        <4> QED
          BY <2>1, <2>2, <4>1
      <3> QED
        BY <3>1, <3>2 DEF ResponsesFit
    <2>4. \A b \in Attempts : told'[b] \in {"created", "duplicate", "error"} => b # a
      BY <2>2
    <2>5. ASSUME NEW b \in Attempts, told'[b] = "error"
          PROVE  \E c \in Attempts : /\ told'[c] = "created" /\ job'[c].key = job'[b].key
                                     /\ job'[c].order # job'[b].order
      <3>1. PICK c \in Attempts : /\ told[c] = "created" /\ job[c].key = job[b].key
                                  /\ job[c].order # job[b].order
        BY <2>2, <2>4, <2>5 DEF AnswersAreTrue
      <3> QED
        BY <2>1, <2>2, <2>4, <2>5, <3>1
    <2>6. ASSUME NEW b \in Attempts
          PROVE  /\ told'[b] \in {"created", "replayed", "duplicate", "error"} => job'[b].order \in paid'
                 /\ told'[b] \in {"created", "replayed"} => record'[job'[b].key] = job'[b].order
      <3>1. CASE b = a
        <4>1. record[k] # NoOrder => record[k] \in paid
          BY DEF AnswersAreTrue
        <4> QED
          BY <2>1, <2>2, <3>1, <4>1, DjangoOrdersConstants
      <3>2. CASE b # a
        BY <2>1, <2>2, <3>2 DEF AnswersAreTrue
      <3> QED
        BY <3>1, <3>2
    <2>7. \A h \in Keys : record'[h] # NoOrder => record'[h] \in paid'
      BY <2>1 DEF AnswersAreTrue
    <2> QED
      BY <2>3, <2>5, <2>6, <2>7 DEF AnswersAreTrue
  <1>2. ASSUME NEW a \in Attempts, Create(a) PROVE ResponsesFit' /\ AnswersAreTrue'
    <2>1. /\ UNCHANGED <<job, record>> /\ paid \subseteq paid' /\ pc[a] = "create" /\ told[a] = "none"
      BY <1>2 DEF Create, Commit, RequestsFit
    <2>2. /\ \A b \in Attempts \ {a} : pc'[b] = pc[b] /\ told'[b] = told[b]
          /\ pc'[a] = "store" => job[a].order \notin paid
          /\ told'[a] \in {"none", "refused", "duplicate"}
          /\ told'[a] = "duplicate" => job[a].order \in paid
      <3>1. CASE job[a].order \in paid
        BY <1>2, <3>1, AnsweredFrame DEF Create, Answers
      <3>2. CASE job[a].order \notin paid /\ published
        BY <1>2, <2>1, <3>2, GoesFrame DEF Create, Commit, Stages
      <3>3. CASE job[a].order \notin paid /\ ~published
        BY <1>2, <3>3, AnsweredFrame DEF Create, Commit, Answers
      <3> QED
        BY <3>1, <3>2, <3>3
    <2>3. \A b \in Attempts : pc[b] = "store" \/ told[b] = "created" => job[b].order \in paid
      BY DEF RequestsFit, AnswersAreTrue
    <2>4. ASSUME NEW b \in Attempts, NEW c \in Attempts, pc'[b] = "store", b # c,
                 job'[c].order = job'[b].order
          PROVE  pc'[c] # "store" /\ told'[c] # "created"
      <3>1. CASE b = a
        BY <2>1, <2>2, <2>3, <2>4, <3>1
      <3>2. CASE b # a /\ c = a
        BY <2>1, <2>2, <2>3, <2>4, <3>2
      <3>3. CASE b # a /\ c # a
        BY <2>1, <2>2, <2>4, <3>3 DEF ResponsesFit
      <3> QED
        BY <3>1, <3>2, <3>3
    <2>5. \A b \in Attempts : told[b] \in {"created", "error"} => told'[b] = told[b]
      BY <2>1, <2>2
    <2>6. \A b \in Attempts : told'[b] \in {"created", "replayed", "error"} => told[b] = told'[b]
      BY <2>2
    <2>7. ResponsesFit'
      BY <2>1, <2>4, <2>5 DEF ResponsesFit
    <2>8. ASSUME NEW b \in Attempts
          PROVE  /\ told'[b] \in {"created", "replayed", "duplicate", "error"} => job'[b].order \in paid'
                 /\ told'[b] \in {"created", "replayed"} => record'[job'[b].key] = job'[b].order
                 /\ told'[b] = "error" => \E c \in Attempts :
                      /\ told'[c] = "created" /\ job'[c].key = job'[b].key
                      /\ job'[c].order # job'[b].order
      <3>1. CASE b = a
        BY <2>1, <2>2, <3>1
      <3>2. CASE b # a
        BY <2>1, <2>2, <2>5, <3>2 DEF AnswersAreTrue
      <3> QED
        BY <3>1, <3>2
    <2>9. \A h \in Keys : record'[h] # NoOrder => record'[h] \in paid'
      BY <2>1 DEF AnswersAreTrue
    <2> QED
      BY <2>7, <2>8, <2>9 DEF AnswersAreTrue
  <1>3. ASSUME NEW a \in Attempts, StoreRecord(a) PROVE ResponsesFit' /\ AnswersAreTrue'
    <2>1. /\ UNCHANGED <<job, paid>> /\ pc[a] = "store" /\ told[a] = "none"
          /\ job[a].order \in Orders /\ job[a].key \in Keys /\ job[a].order \in paid
      BY <1>3 DEF StoreRecord, RequestsFit
    <2> DEFINE o == job[a].order
               k == job[a].key
    <2>2. CASE record[k] = NoOrder
      <3>1. /\ \A b \in Attempts : /\ pc'[b] = IF b = a THEN "done" ELSE pc[b]
                                   /\ told'[b] = IF b = a THEN "created" ELSE told[b]
            /\ \A h \in Keys : record'[h] = IF h = k THEN o ELSE record[h]
        BY <1>3, <2>1, <2>2, AnsweredFrame DEF StoreRecord, Answers, TypeOK
      <3> HIDE DEF o, k
      <3>2. ASSUME NEW b \in Attempts, NEW c \in Attempts, pc'[b] = "store", b # c,
                   job'[c].order = job'[b].order
            PROVE  pc'[c] # "store" /\ told'[c] # "created"
        BY <2>1, <3>1, <3>2 DEF ResponsesFit
      <3>3. ASSUME NEW h \in Keys, record'[h] # NoOrder
            PROVE  \E b \in Attempts : told'[b] = "created" /\ job'[b].key = h /\ job'[b].order = record'[h]
        <4>1. CASE h = k
          BY <2>1, <3>1, <4>1 DEF o, k
        <4>2. CASE h # k
          <5>1. PICK b \in Attempts : told[b] = "created" /\ job[b].key = h /\ job[b].order = record[h]
            BY <3>1, <3>3, <4>2 DEF ResponsesFit
          <5> QED
            BY <2>1, <3>1, <4>2, <5>1
        <4> QED
          BY <4>1, <4>2
      <3>4. ASSUME NEW b \in Attempts
            PROVE  /\ told'[b] \in {"created", "replayed", "duplicate", "error"} => job'[b].order \in paid'
                   /\ told'[b] \in {"created", "replayed"} => record'[job'[b].key] = job'[b].order
                   /\ told'[b] = "error" => \E c \in Attempts :
                        /\ told'[c] = "created" /\ job'[c].key = job'[b].key
                        /\ job'[c].order # job'[b].order
        <4>1. CASE b = a
          BY <2>1, <3>1, <4>1 DEF o, k
        <4>2. ASSUME b # a, told[b] \in {"created", "replayed"}
              PROVE  record'[job[b].key] = job[b].order
          <5>1. record[job[b].key] = job[b].order /\ job[b].order \in Orders /\ job[b].key \in Keys
            BY <4>2 DEF AnswersAreTrue, RequestsFit
          <5>2. job[b].key # k
            BY <2>2, <5>1, DjangoOrdersConstants DEF k
          <5> QED
            BY <3>1, <5>1, <5>2
        <4>3. ASSUME b # a, told[b] = "error"
              PROVE  \E c \in Attempts : /\ told'[c] = "created" /\ job'[c].key = job'[b].key
                                         /\ job'[c].order # job'[b].order
          <5>1. PICK c \in Attempts : /\ told[c] = "created" /\ job[c].key = job[b].key
                                      /\ job[c].order # job[b].order
            BY <4>3 DEF AnswersAreTrue
          <5> QED
            BY <2>1, <3>1, <5>1
        <4>4. CASE b # a
          BY <2>1, <3>1, <4>2, <4>3, <4>4 DEF AnswersAreTrue
        <4> QED
          BY <4>1, <4>4
      <3>5. \A h \in Keys : record'[h] # NoOrder => record'[h] \in paid'
        BY <2>1, <3>1 DEF AnswersAreTrue, o
      <3> QED
        BY <3>2, <3>3, <3>4, <3>5 DEF ResponsesFit, AnswersAreTrue
    <2>3. CASE record[k] # NoOrder
      <3>1. /\ \A b \in Attempts : /\ pc'[b] = IF b = a THEN "done" ELSE pc[b]
                                   /\ told'[b] = IF b = a THEN "error" ELSE told[b]
            /\ record' = record
        BY <1>3, <2>1, <2>3, AnsweredFrame DEF StoreRecord, Answers
      <3>2. PICK w \in Attempts : told[w] = "created" /\ job[w].key = k /\ job[w].order = record[k]
        BY <2>1, <2>3 DEF ResponsesFit
      <3>3. w # a /\ job[w].order # o
        BY <2>1, <3>2 DEF ResponsesFit
      <3>4. ASSUME NEW b \in Attempts, NEW c \in Attempts, pc'[b] = "store", b # c,
                   job'[c].order = job'[b].order
            PROVE  pc'[c] # "store" /\ told'[c] # "created"
        BY <2>1, <3>1, <3>4 DEF ResponsesFit
      <3>5. ASSUME NEW h \in Keys, record'[h] # NoOrder
            PROVE  \E b \in Attempts : told'[b] = "created" /\ job'[b].key = h /\ job'[b].order = record'[h]
        <4>1. PICK b \in Attempts : told[b] = "created" /\ job[b].key = h /\ job[b].order = record[h]
          BY <3>1, <3>5 DEF ResponsesFit
        <4> QED
          BY <2>1, <3>1, <4>1
      <3>6. ASSUME NEW b \in Attempts
            PROVE  /\ told'[b] \in {"created", "replayed", "duplicate", "error"} => job'[b].order \in paid'
                   /\ told'[b] \in {"created", "replayed"} => record'[job'[b].key] = job'[b].order
                   /\ told'[b] = "error" => \E c \in Attempts :
                        /\ told'[c] = "created" /\ job'[c].key = job'[b].key
                        /\ job'[c].order # job'[b].order
        <4>1. CASE b = a
          BY <2>1, <3>1, <3>2, <3>3, <4>1
        <4>2. ASSUME b # a, told[b] = "error"
              PROVE  \E c \in Attempts : /\ told'[c] = "created" /\ job'[c].key = job'[b].key
                                         /\ job'[c].order # job'[b].order
          <5>1. PICK c \in Attempts : /\ told[c] = "created" /\ job[c].key = job[b].key
                                      /\ job[c].order # job[b].order
            BY <4>2 DEF AnswersAreTrue
          <5> QED
            BY <2>1, <3>1, <5>1
        <4>3. CASE b # a
          BY <2>1, <3>1, <4>2, <4>3 DEF AnswersAreTrue
        <4> QED
          BY <4>1, <4>3
      <3>7. \A h \in Keys : record'[h] # NoOrder => record'[h] \in paid'
        BY <2>1, <3>1 DEF AnswersAreTrue
      <3> QED
        BY <3>4, <3>5, <3>6, <3>7 DEF ResponsesFit, AnswersAreTrue
    <2> QED
      BY <2>2, <2>3
  <1>4. ASSUME NEW a \in Attempts, Stop(a) PROVE ResponsesFit' /\ AnswersAreTrue'
    <2>1. /\ UNCHANGED <<job, paid, record>> /\ told[a] = "none"
          /\ \A b \in Attempts : /\ pc'[b] = IF b = a THEN "done" ELSE pc[b]
                                 /\ told'[b] = IF b = a THEN "lost" ELSE told[b]
      BY <1>4, AnsweredFrame DEF Stop, Answers, RequestsFit
    <2>2. \A b \in Attempts : told[b] \in {"created", "error"} => told'[b] = told[b]
      BY <2>1
    <2>3. \A b \in Attempts : told'[b] \in {"created", "replayed", "duplicate", "error"} => told[b] = told'[b]
      BY <2>1
    <2>4. ResponsesFit'
      BY <2>1, <2>2, <2>3 DEF ResponsesFit
    <2>5. AnswersAreTrue'
      BY <2>1, <2>2, <2>3 DEF AnswersAreTrue
    <2> QED
      BY <2>4, <2>5
  <1>5. CASE OtherStep
    BY <1>5, OthersLeaveRequests DEF requests, ResponsesFit, AnswersAreTrue
  <1> QED
    BY <1>1, <1>2, <1>3, <1>4, <1>5, StepCases

(***************************************************************************)
(* The passes of the day.                                                  *)
(***************************************************************************)
LEMMA NextPassesFit ==
  ASSUME TypeOK, PassesFit, [Next]_vars
  PROVE  PassesFit'
  <1>1. CASE UNCHANGED <<paid, passes>>
    BY <1>1 DEF PassesFit, passes
  <1>2. ASSUME NEW a \in Attempts, Create(a) PROVE PassesFit'
    BY <1>2 DEF Create, Commit, OrderFindsPass, PassesFit, TypeOK
  <1>3. CASE BlockPass
    BY <1>3 DEF BlockPass, PassesFit, TypeOK
  <1>4. CASE UnblockPass
    BY <1>4 DEF UnblockPass, PassesFit, TypeOK
  <1> QED
    BY <1>1, <1>2, <1>3, <1>4
       DEF Next, PosStep, Receive, StoreRecord, Stop, AdminOrderRefund, RefundOrder, ExchangeClaim,
           ClaimExpires, RewardChoose, ChooseCoupon, ChooseImmediate, RedeemCoupon, ApplyRedemption,
           BenefitExpires, CreateTier, PublishPolicy, vars

(***************************************************************************)
(* Sums over a finite set.  MapThenSumSet is a recursive function, and the *)
(* induction over it is on the least cardinality where it would fail.      *)
(***************************************************************************)
Any(s) == CHOOSE x \in s : TRUE

(* The function a gives the sum of f over every subset of S. *)
IsSum(a, f, S) ==
  a = [s \in SUBSET S |-> IF s = {} THEN 0 ELSE f[Any(s)] + a[s \ {Any(s)}]]

Total(f, S) == (CHOOSE a : IsSum(a, f, S))[S]

LEMMA LeastNat ==
  ASSUME NEW T \in SUBSET Nat, T # {}
  PROVE  \E n \in T : \A m \in T : n <= m
  <1>1. IsWellFoundedOn(OpToRel(<, Nat), Nat)
    BY NatLessThanWellFounded
  <1>2. PICK n \in T : \A m \in T : ~(<<m, n>> \in OpToRel(<, Nat))
    BY <1>1, WFMin
  <1>3. \A m \in T : ~(m < n)
    BY <1>2 DEF OpToRel
  <1> QED
    BY <1>3

LEMMA OneLess ==
  ASSUME NEW u, IsFiniteSet(u), NEW x \in u
  PROVE  /\ Cardinality(u) \in Nat /\ Cardinality(u \ {x}) \in Nat
         /\ Cardinality(u \ {x}) = Cardinality(u) - 1
  <1>1. IsFiniteSet(u \ {x}) /\ Cardinality(u \ {x}) = Cardinality(u) - 1
    BY FS_RemoveElement
  <1> QED
    BY <1>1, FS_CardinalityType

(* A minimal number of a set of numbers: the next smaller is not in it. *)
LEMMA NextSmaller ==
  ASSUME NEW T \in SUBSET Nat, NEW n \in T, \A m \in T : n <= m
  PROVE  n \in Nat /\ n - 1 \notin T
  <1>1. n \in Nat
    OBVIOUS
  <1>2. ASSUME n - 1 \in T PROVE FALSE
    <2>1. n <= n - 1
      BY <1>2
    <2> QED
      BY <1>1, <2>1
  <1> QED
    BY <1>1, <1>2

LEMMA SumExists ==
  ASSUME NEW S, IsFiniteSet(S), NEW f \in [S -> Nat]
  PROVE  \E a \in [SUBSET S -> Nat] : IsSum(a, f, S)
  <1> DEFINE Step(h) == [s \in SUBSET S |-> IF s = {} THEN 0 ELSE f[Any(s)] + h[s \ {Any(s)}]]
             UpTo(h, n) == \A s \in SUBSET S : Cardinality(s) <= n => h[s] = Step(h)[s]
             Bad == {n \in Nat : ~\E h \in [SUBSET S -> Nat] : UpTo(h, n)}
  <1>1. \A s \in SUBSET S : s # {} => Any(s) \in s /\ Any(s) \in S /\ s \ {Any(s)} \in SUBSET S
    BY DEF Any
  <1>2. ASSUME NEW h \in [SUBSET S -> Nat] PROVE Step(h) \in [SUBSET S -> Nat]
    <2>1. ASSUME NEW s \in SUBSET S PROVE (IF s = {} THEN 0 ELSE f[Any(s)] + h[s \ {Any(s)}]) \in Nat
      BY <1>1
    <2> QED
      BY <2>1
  <1>3. \A s \in SUBSET S : IsFiniteSet(s) /\ Cardinality(s) \in Nat
    BY FS_Subset, FS_CardinalityType
  <1>4. ASSUME NEW s \in SUBSET S, s # {}
        PROVE  Cardinality(s \ {Any(s)}) = Cardinality(s) - 1
    BY <1>1, <1>3, <1>4, FS_RemoveElement
  <1>5. ASSUME NEW n \in Nat, NEW h \in [SUBSET S -> Nat], UpTo(h, n)
        PROVE  UpTo(Step(h), n + 1)
    <2> SUFFICES ASSUME NEW s \in SUBSET S, Cardinality(s) <= n + 1
                 PROVE  Step(h)[s] = Step(Step(h))[s]
      OBVIOUS
    <2>1. CASE s = {}
      BY <2>1
    <2>2. CASE s # {}
      <3>1. s \ {Any(s)} \in SUBSET S /\ Cardinality(s \ {Any(s)}) <= n
        BY <1>1, <1>3, <1>4, <2>2
      <3>2. h[s \ {Any(s)}] = Step(h)[s \ {Any(s)}]
        BY <1>5, <3>1
      <3>3. Step(h)[s] = f[Any(s)] + h[s \ {Any(s)}]
        BY <2>2
      <3>4. Step(Step(h))[s] = f[Any(s)] + Step(h)[s \ {Any(s)}]
        BY <2>2
      <3> QED
        BY <3>2, <3>3, <3>4
    <2> QED
      BY <2>1, <2>2
  <1>6. ASSUME Bad # {} PROVE FALSE
    <2>1. PICK n \in Bad : \A m \in Bad : n <= m
      <3>1. Bad \in SUBSET Nat
        OBVIOUS
      <3> HIDE DEF Bad
      <3> QED
        BY <1>6, <3>1, LeastNat
    <2>2. n # 0
      <3> DEFINE z == [s \in SUBSET S |-> 0]
      <3>1. z \in [SUBSET S -> Nat]
        OBVIOUS
      <3>2. UpTo(z, 0)
        <4> SUFFICES ASSUME NEW s \in SUBSET S, Cardinality(s) <= 0
                     PROVE  z[s] = Step(z)[s]
          OBVIOUS
        <4>1. Cardinality(s) = 0
          BY <1>3
        <4>2. s = {}
          BY <1>3, <4>1, FS_EmptySet
        <4>3. z[s] = 0
          OBVIOUS
        <4>4. Step(z)[s] = 0
          BY <4>2
        <4> HIDE DEF z, Step
        <4> QED
          BY <4>3, <4>4
      <3>3. 0 \notin Bad
        <4> HIDE DEF z, UpTo, Step
        <4> QED
          BY <3>1, <3>2
      <3> HIDE DEF Bad
      <3> QED
        BY <2>1, <3>3
    <2>3. n \in Nat /\ n - 1 \in Nat /\ n - 1 \notin Bad
      <3>1. Bad \in SUBSET Nat
        OBVIOUS
      <3> HIDE DEF Bad
      <3>2. n \in Nat /\ n - 1 \notin Bad
        BY <2>1, <3>1, NextSmaller
      <3> QED
        BY <2>2, <3>2
    <2>4. PICK h \in [SUBSET S -> Nat] : UpTo(h, n - 1)
      BY <2>3
    <2>5. UpTo(Step(h), (n - 1) + 1) /\ Step(h) \in [SUBSET S -> Nat]
      BY <1>2, <1>5, <2>3, <2>4
    <2>6. (n - 1) + 1 = n
      BY <2>3
    <2> HIDE DEF UpTo, Step
    <2> QED
      BY <2>1, <2>5, <2>6
  <1>7. Cardinality(S) \in Nat /\ Cardinality(S) \notin Bad
    BY <1>6, <1>3
  <1>8. PICK h \in [SUBSET S -> Nat] : UpTo(h, Cardinality(S))
    BY <1>7
  <1>9. \A s \in SUBSET S : Cardinality(s) <= Cardinality(S)
    BY FS_Subset
  <1>10. \A s \in SUBSET S : h[s] = Step(h)[s]
    BY <1>8, <1>9
  <1>11. h = Step(h)
    BY <1>10
  <1> QED
    BY <1>11 DEF IsSum

Unfolds(a, f, S) ==
  \A s \in SUBSET S : /\ s = {} => a[s] = 0
                      /\ s # {} => Any(s) \in s /\ a[s] = f[Any(s)] + a[s \ {Any(s)}]

LEMMA SumUnfolds ==
  ASSUME NEW S, NEW f, NEW a, IsSum(a, f, S)
  PROVE  Unfolds(a, f, S)
  <1> SUFFICES ASSUME NEW s \in SUBSET S
               PROVE  /\ s = {} => a[s] = 0
                      /\ s # {} => Any(s) \in s /\ a[s] = f[Any(s)] + a[s \ {Any(s)}]
    BY DEF Unfolds
  <1>1. a[s] = IF s = {} THEN 0 ELSE f[Any(s)] + a[s \ {Any(s)}]
    BY DEF IsSum
  <1>2. s # {} => Any(s) \in s
    BY DEF Any
  <1> QED
    BY <1>1, <1>2

(* A sum of natural numbers, over the subsets of a finite set. *)
Adds(a, f, S) ==
  /\ IsFiniteSet(S) /\ f \in [S -> Nat]
  /\ a \in [SUBSET S -> Nat] /\ IsSum(a, f, S)

(* Whichever member is taken first, the sum is the same. *)
Splits(a, f, S) == \A s \in SUBSET S : \A x \in s : a[s] = f[x] + a[s \ {x}]

LEMMA SumRemove ==
  ASSUME NEW S, NEW f, NEW a, Adds(a, f, S)
  PROVE  Splits(a, f, S)
  <1> USE DEF Adds, Splits
  <1> DEFINE Bad == {n \in Nat : \E u \in SUBSET S : \E y \in u :
                                   Cardinality(u) = n /\ a[u] # f[y] + a[u \ {y}]}
  <1>1. \A u \in SUBSET S : IsFiniteSet(u) /\ Cardinality(u) \in Nat
    BY FS_Subset, FS_CardinalityType
  <1>2. ASSUME NEW u \in SUBSET S, u # {}
        PROVE  Any(u) \in u /\ a[u] = f[Any(u)] + a[u \ {Any(u)}]
    BY <1>2 DEF Any, IsSum
  <1>3. ASSUME Bad # {} PROVE FALSE
    <2>1. PICK n \in Bad : \A m \in Bad : n <= m
      <3>1. Bad \in SUBSET Nat
        OBVIOUS
      <3> HIDE DEF Bad
      <3> QED
        BY <1>3, <3>1, LeastNat
    <2>2. PICK u \in SUBSET S : \E y \in u : Cardinality(u) = n /\ a[u] # f[y] + a[u \ {y}]
      BY <2>1
    <2>3. PICK y \in u : Cardinality(u) = n /\ a[u] # f[y] + a[u \ {y}]
      BY <2>2
    <2> DEFINE c == Any(u)
    <2>4. c \in u /\ a[u] = f[c] + a[u \ {c}] /\ c # y
      BY <1>2, <2>3
    <2> HIDE DEF c
    <2>5. ASSUME NEW z \in u, NEW w \in u, z # w
          PROVE  a[u \ {z}] = f[w] + a[(u \ {z}) \ {w}]
      <3>1. u \ {z} \in SUBSET S /\ w \in u \ {z}
        BY <2>5
      <3>2. Cardinality(u \ {z}) = n - 1 /\ n - 1 \in Nat
        BY <1>1, <2>3, OneLess
      <3>3. n - 1 \notin Bad
        <4>1. Bad \in SUBSET Nat
          OBVIOUS
        <4> HIDE DEF Bad
        <4> QED
          BY <2>1, <4>1, NextSmaller
      <3> QED
        BY <3>1, <3>2, <3>3
    <2>6. a[u \ {c}] = f[y] + a[(u \ {c}) \ {y}] /\ a[u \ {y}] = f[c] + a[(u \ {y}) \ {c}]
      BY <2>4, <2>5
    <2>7. (u \ {c}) \ {y} = (u \ {y}) \ {c}
      OBVIOUS
    <2>8. f[y] \in Nat /\ f[c] \in Nat /\ a[(u \ {y}) \ {c}] \in Nat
      BY <2>4
    <2>9. a[u] = f[c] + (f[y] + a[(u \ {y}) \ {c}]) /\ a[u \ {y}] = f[c] + a[(u \ {y}) \ {c}]
      BY <2>4, <2>6, <2>7
    <2>10. \A i, j, k \in Nat : i + (j + k) = j + (i + k)
      OBVIOUS
    <2>11. a[u] # f[y] + a[u \ {y}]
      BY <2>3
    <2> HIDE DEF Bad
    <2> QED
      BY <2>8, <2>9, <2>10, <2>11
  <1>4. \A s \in SUBSET S : Cardinality(s) \in Nat /\ Cardinality(s) \notin Bad
    BY <1>1, <1>3
  <1> QED
    BY <1>4

(* Functions that agree on a set have the same sum over it. *)
LEMMA SumSame ==
  ASSUME NEW S, NEW f, NEW a, Adds(a, f, S),
         NEW T, NEW g, NEW b, Adds(b, g, T),
         NEW s, s \subseteq S, s \subseteq T, \A x \in s : f[x] = g[x]
  PROVE  a[s] = b[s]
  <1> USE DEF Adds
  <1> DEFINE Bad == {n \in Nat : \E u \in SUBSET s : Cardinality(u) = n /\ a[u] # b[u]}
  <1>1. \A u \in SUBSET s : u \in SUBSET S /\ IsFiniteSet(u) /\ Cardinality(u) \in Nat
    BY FS_Subset, FS_CardinalityType
  <1>2. ASSUME Bad # {} PROVE FALSE
    <2>1. PICK n \in Bad : \A m \in Bad : n <= m
      <3>1. Bad \in SUBSET Nat
        OBVIOUS
      <3> HIDE DEF Bad
      <3> QED
        BY <1>2, <3>1, LeastNat
    <2>2. PICK u \in SUBSET s : Cardinality(u) = n /\ a[u] # b[u]
      BY <2>1
    <2>3. u # {} /\ u \in SUBSET S
      BY <1>1, <2>2 DEF IsSum
    <2> DEFINE c == Any(u)
    <2>4. c \in u /\ a[u] = f[c] + a[u \ {c}] /\ b[u] = g[c] + b[u \ {c}]
      <3>1. c \in u /\ u \in SUBSET T
        BY <2>3 DEF Any
      <3>2. a[u] = f[c] + a[u \ {c}]
        BY <2>3 DEF IsSum
      <3>3. b[u] = g[c] + b[u \ {c}]
        BY <2>3, <3>1 DEF IsSum
      <3> QED
        BY <3>1, <3>2, <3>3
    <2> HIDE DEF c
    <2>5. Cardinality(u \ {c}) = n - 1 /\ n - 1 \in Nat /\ u \ {c} \in SUBSET s
      BY <1>1, <2>2, <2>4, OneLess
    <2>6. n - 1 \notin Bad
      <3>1. Bad \in SUBSET Nat
        OBVIOUS
      <3> HIDE DEF Bad
      <3> QED
        BY <2>1, <3>1, NextSmaller
    <2>7. a[u \ {c}] = b[u \ {c}]
      BY <2>5, <2>6
    <2> QED
      BY <2>2, <2>4, <2>7
  <1>3. Cardinality(s) \in Nat /\ Cardinality(s) \notin Bad
    BY <1>1, <1>2
  <1> QED
    BY <1>3

LEMMA TotalIsSum ==
  ASSUME NEW S, IsFiniteSet(S), NEW f \in [S -> Nat]
  PROVE  \E a : Adds(a, f, S) /\ Total(f, S) = a[S]
  <1> DEFINE c == CHOOSE a : IsSum(a, f, S)
  <1>1. PICK a \in [SUBSET S -> Nat] : IsSum(a, f, S)
    BY SumExists
  <1>2. IsSum(c, f, S)
    BY <1>1
  <1>3. c = [s \in SUBSET S |-> c[s]]
    BY <1>2 DEF IsSum
  <1> HIDE DEF c
  <1>4. ASSUME NEW s \in SUBSET S PROVE c[s] \in Nat
    <2> DEFINE Bad == {n \in Nat : \E u \in SUBSET S : Cardinality(u) = n /\ c[u] \notin Nat}
    <2>1. \A u \in SUBSET S : IsFiniteSet(u) /\ Cardinality(u) \in Nat
      BY FS_Subset, FS_CardinalityType
    <2>2. ASSUME Bad # {} PROVE FALSE
      <3>1. Bad \in SUBSET Nat
        OBVIOUS
      <3>2. PICK n \in Bad : \A m \in Bad : n <= m
        <4> HIDE DEF Bad
        <4> QED
          BY <2>2, <3>1, LeastNat
      <3>3. PICK u \in SUBSET S : Cardinality(u) = n /\ c[u] \notin Nat
        BY <3>2
      <3> DEFINE y == Any(u)
      <3> HIDE DEF Bad
      <3>4. /\ u = {} => c[u] = 0
            /\ u # {} => Any(u) \in u /\ c[u] = f[Any(u)] + c[u \ {Any(u)}]
        <4>1. Unfolds(c, f, S)
          BY <1>2, SumUnfolds
        <4> QED
          BY <4>1 DEF Unfolds
      <3>5. y \in u /\ c[u] = f[y] + c[u \ {y}]
        <4>1. u # {}
          BY <3>3, <3>4
        <4> QED
          BY <3>4, <4>1
      <3> HIDE DEF y
      <3>6. Cardinality(u \ {y}) = n - 1 /\ n - 1 \in Nat /\ u \ {y} \in SUBSET S
        BY <2>1, <3>3, <3>5, OneLess
      <3>7. n - 1 \notin Bad
        BY <3>1, <3>2, NextSmaller
      <3>8. c[u \ {y}] \in Nat
        BY <3>6, <3>7 DEF Bad
      <3> QED
        BY <3>3, <3>5, <3>8
    <2>3. Cardinality(s) \in Nat /\ Cardinality(s) \notin Bad
      BY <2>1, <2>2
    <2> QED
      BY <2>3
  <1>5. c \in [SUBSET S -> Nat]
    BY <1>3, <1>4
  <1> QED
    BY <1>2, <1>5 DEF Total, c, Adds

LEMMA TotalOfZeros ==
  ASSUME NEW S, IsFiniteSet(S), NEW f \in [S -> Nat], \A x \in S : f[x] = 0
  PROVE  Total(f, S) = 0
  <1> DEFINE z == [s \in SUBSET S |-> 0]
  <1>1. PICK a : Adds(a, f, S) /\ Total(f, S) = a[S]
    BY TotalIsSum
  <1>2. ASSUME NEW s \in SUBSET S
        PROVE  z[s] = IF s = {} THEN 0 ELSE f[Any(s)] + z[s \ {Any(s)}]
    <2>1. s # {} => Any(s) \in S
      BY DEF Any
    <2> QED
      BY <2>1
  <1>3. Adds(z, f, S)
    BY <1>2 DEF IsSum, Adds
  <1> HIDE DEF z
  <1>4. a[S] = z[S]
    BY <1>1, <1>3, SumSame
  <1> QED
    BY <1>1, <1>4 DEF z

(* What one term adds to a sum, and that it is part of it. *)
LEMMA TotalChange ==
  ASSUME NEW S, IsFiniteSet(S), NEW f \in [S -> Nat], NEW g \in [S -> Nat],
         NEW x \in S, \A y \in S \ {x} : g[y] = f[y]
  PROVE  /\ Total(f, S) \in Nat /\ Total(f, S) >= f[x]
         /\ Total(g, S) = (Total(f, S) - f[x]) + g[x]
  <1>1. PICK a : Adds(a, f, S) /\ Total(f, S) = a[S]
    BY TotalIsSum
  <1>2. PICK b : Adds(b, g, S) /\ Total(g, S) = b[S]
    BY TotalIsSum
  <1>3. a[S] = f[x] + a[S \ {x}] /\ b[S] = g[x] + b[S \ {x}]
    <2>1. Splits(a, f, S) /\ Splits(b, g, S)
      BY <1>1, <1>2, SumRemove
    <2> QED
      BY <2>1 DEF Splits
  <1>4. a[S \ {x}] = b[S \ {x}]
    <2>1. S \ {x} \subseteq S /\ \A y \in S \ {x} : f[y] = g[y]
      OBVIOUS
    <2> QED
      BY <1>1, <1>2, <2>1, SumSame
  <1>5. f[x] \in Nat /\ g[x] \in Nat /\ a[S \ {x}] \in Nat
    BY <1>1 DEF Adds
  <1> QED
    BY <1>1, <1>2, <1>3, <1>4, <1>5

(***************************************************************************)
(* The contract of the day's spending.                                     *)
(***************************************************************************)
SpentAll == [o \in Orders |-> Spent(o)]
Benefits == [t \in Tiers |-> Benefit(grant[t], coupon[t], redemption[t])]

GrantStatus == {"none", "AWAITING_CHOICE", "FULFILLED", "REVOKED"}
CouponStatus == {"none", "AVAILABLE", "REDEEMED", "REVOKED"}
RedemptionStatus == {"none", "AVAILABLE", "APPLIED"}
Fit(g, c, r) ==
  /\ g \in GrantStatus /\ c \in CouponStatus /\ r \in RedemptionStatus
  /\ c = "none" \/ r = "none"
  /\ g # "FULFILLED" => c = "none" /\ r = "none"

LEMMA NetSpendIsTotal ==
  /\ Contract!NetSpend = Total(SpentAll, Orders)
  /\ Contract!NetSpend' = Total(SpentAll', Orders)
  <1>1. Contract!NetSpend = Total(SpentAll, Orders)
    BY DEF Contract!NetSpend, Contract!MapThenSumSet, Contract!MapThenFoldSet, Total, IsSum, Any, SpentAll
  <1>2. Contract!NetSpend' = Total(SpentAll', Orders)
    BY DEF Contract!NetSpend, Contract!MapThenSumSet, Contract!MapThenFoldSet, Total, IsSum, Any, SpentAll
  <1> QED
    BY <1>1, <1>2

LEMMA BenefitCases ==
  ASSUME NEW g, NEW c, NEW r, Fit(g, c, r)
  PROVE  /\ Benefit(g, c, r) = "none" <=> g = "none" \/ (g = "FULFILLED" /\ c = "none" /\ r = "none")
         /\ Benefit(g, c, r) = "offered" <=> g = "AWAITING_CHOICE"
         /\ Benefit(g, c, r) = "coupon" <=> c = "AVAILABLE"
         /\ Benefit(g, c, r) = "immediate" <=> r = "AVAILABLE"
         /\ Benefit(g, c, r) = "used" <=> c = "REDEEMED" \/ r = "APPLIED"
         /\ Benefit(g, c, r) = "withdrawn" <=> g = "REVOKED" \/ c = "REVOKED"
  BY DEF Benefit, Fit, GrantStatus, CouponStatus, RedemptionStatus

(* Said of a state and, for the steps, of the next one. *)
LEMMA BenefitsAreFit ==
  ASSUME NEW t \in Tiers
  PROVE  /\ TypeOK /\ BenefitsFit => Fit(grant[t], coupon[t], redemption[t])
         /\ TypeOK' /\ BenefitsFit' => Fit(grant'[t], coupon'[t], redemption'[t])
  BY DEF TypeOK, BenefitsFit, Fit, GrantStatus, CouponStatus, RedemptionStatus

(* A refund that takes the tier away withdraws the offer and the coupon.   *)
LEMMA RefundWithdraws ==
  ASSUME NEW g, NEW c, NEW r, Fit(g, c, r), NEW lost \in BOOLEAN,
         NEW h, h = IF g = "AWAITING_CHOICE" /\ lost THEN "REVOKED" ELSE g,
         NEW d, d = IF c = "AVAILABLE" /\ lost THEN "REVOKED" ELSE c
  PROVE  /\ Fit(h, d, r)
         /\ Benefit(h, d, r) = IF Benefit(g, c, r) \in {"offered", "coupon"} /\ lost
                              THEN "withdrawn" ELSE Benefit(g, c, r)
  <1>1. Fit(h, d, r)
    BY DEF Fit, GrantStatus, CouponStatus
  <1>2. CASE lost /\ g = "AWAITING_CHOICE"
    BY <1>1, <1>2, BenefitCases
  <1>3. CASE lost /\ c = "AVAILABLE"
    BY <1>1, <1>3, BenefitCases
  <1>4. CASE ~(lost /\ g = "AWAITING_CHOICE") /\ ~(lost /\ c = "AVAILABLE")
    <2>1. h = g /\ d = c
      BY <1>4
    <2> QED
      BY <1>4, <2>1, BenefitCases
  <1> QED
    BY <1>1, <1>2, <1>3, <1>4

LEMMA NextRefundsFit ==
  ASSUME TypeOK, RequestsFit, RefundsFit, [Next]_vars
  PROVE  RefundsFit'
  <1>1. CASE UNCHANGED <<paid, refunded>>
    BY <1>1 DEF RefundsFit
  <1>2. ASSUME NEW a \in Attempts, Create(a) PROVE RefundsFit'
    <2>1. refunded' = refunded /\ paid \subseteq paid'
      BY <1>2 DEF Create, Commit
    <2>2. \A o \in Orders : refunded[o] \in Nat /\ Price[o] \in Nat
      BY DjangoOrdersConstants DEF TypeOK
    <2> QED
      BY <2>1, <2>2 DEF RefundsFit
  <1>3. ASSUME NEW o \in Orders, NEW x \in 1 .. Price[o], RefundOrder(o, x) PROVE RefundsFit'
    <2>1. \A u \in Orders : refunded[u] \in Nat /\ Price[u] \in Nat
      BY DjangoOrdersConstants DEF TypeOK
    <2>2. /\ paid' = paid /\ o \in paid /\ x <= Price[o] - refunded[o]
          /\ \A u \in Orders : refunded'[u] = IF u = o THEN refunded[u] + x ELSE refunded[u]
      BY <1>3 DEF RefundOrder, TypeOK
    <2>3. refunded[o] + x <= Price[o]
      BY <2>1, <2>2
    <2> QED
      BY <2>2, <2>3 DEF RefundsFit
  <1> QED
    BY <1>1, <1>2, <1>3
       DEF Next, PosStep, Receive, StoreRecord, Stop, AdminOrderRefund, ExchangeClaim, ClaimExpires,
           RewardChoose, ChooseCoupon, ChooseImmediate, RedeemCoupon, ApplyRedemption,
           BenefitExpires, CreateTier, BlockPass, UnblockPass, PublishPolicy, vars

LEMMA NextBenefitsFit ==
  ASSUME TypeOK, BenefitsFit, [Next]_vars
  PROVE  BenefitsFit'
  <1>1. CASE UNCHANGED <<grant, coupon, redemption>>
    BY <1>1 DEF BenefitsFit
  <1>2. ASSUME NEW a \in Attempts, Create(a) PROVE BenefitsFit'
    <2>1. UNCHANGED <<coupon, redemption>>
      BY <1>2 DEF Create
    <2>2. \A t \in Tiers : grant[t] = "FULFILLED" => grant'[t] = "FULFILLED"
      BY <1>2 DEF Create, Commit, Granted
    <2> QED
      BY <2>1, <2>2 DEF BenefitsFit
  <1>3. ASSUME NEW o \in Orders, NEW x \in 1 .. Price[o], RefundOrder(o, x) PROVE BenefitsFit'
    BY <1>3 DEF RefundOrder, WithdrawnCoupons, BenefitsFit
  <1>4. ASSUME NEW t \in Tiers, NEW dayPass \in BOOLEAN, ChooseCoupon(t) \/ ChooseImmediate(t, dayPass)
        PROVE  BenefitsFit'
    BY <1>4 DEF ChooseCoupon, ChooseImmediate, Fulfil, BenefitsFit, TypeOK
  <1>5. ASSUME NEW t \in Tiers, RedeemCoupon(t) \/ ApplyRedemption(t)
        PROVE  BenefitsFit'
    BY <1>5 DEF RedeemCoupon, ApplyRedemption, BenefitsFit, TypeOK
  <1> QED
    BY <1>1, <1>2, <1>3, <1>4, <1>5
       DEF Next, PosStep, Receive, StoreRecord, Stop, AdminOrderRefund, ExchangeClaim, ClaimExpires,
           RewardChoose, BenefitExpires, CreateTier, BlockPass, UnblockPass, PublishPolicy, vars, rewards

LEMMA SpentType ==
  /\ TypeOK /\ RefundsFit => SpentAll \in [Orders -> Nat]
  /\ TypeOK' /\ RefundsFit' => SpentAll' \in [Orders -> Nat]
  <1>1. ASSUME NEW P, P \in [Orders -> Nat \ {0}], NEW r, r \in [Orders -> Nat], NEW q,
               \A o \in Orders : r[o] <= IF o \in q THEN P[o] ELSE 0
        PROVE  [o \in Orders |-> IF o \in q THEN P[o] - r[o] ELSE 0] \in [Orders -> Nat]
    <2>1. ASSUME NEW o \in Orders PROVE (IF o \in q THEN P[o] - r[o] ELSE 0) \in Nat
      <3>1. P[o] \in Nat /\ r[o] \in Nat
        BY <1>1
      <3> QED
        BY <1>1, <3>1
    <2> QED
      BY <2>1
  <1>2. TypeOK /\ RefundsFit => SpentAll \in [Orders -> Nat]
    BY <1>1, DjangoOrdersConstants DEF TypeOK, RefundsFit, SpentAll, Spent
  <1>3. TypeOK' /\ RefundsFit' => SpentAll' \in [Orders -> Nat]
    BY <1>1, DjangoOrdersConstants DEF TypeOK, RefundsFit, SpentAll, Spent
  <1> QED
    BY <1>2, <1>3

(* Every step keeps the balance, and is a step of the contract or none.    *)
ContractStep == BalanceCounts' /\ [Contract!Next]_(Contract!contractVars)

LEMMA PosKeepsContract ==
  ASSUME TypeOK, RequestsFit, RefundsFit, BalanceCounts, BenefitsFit,
         TypeOK', RefundsFit', BenefitsFit', NEW a \in Attempts, Create(a)
  PROVE  ContractStep
  <1>1. PICK o \in Orders : o = job[a].order
    BY DEF Create, RequestsFit
  <1>2. UNCHANGED <<refunded, coupon, redemption>>
    BY DEF Create
  <1>3. CASE UNCHANGED <<paid, total, grant>>
    <2>1. SpentAll' = SpentAll /\ Benefits' = Benefits
      BY <1>2, <1>3 DEF SpentAll, Spent, Benefits
    <2>2. UNCHANGED Contract!contractVars
      BY <1>3, <2>1 DEF Contract!contractVars, SpentAll, Benefits
    <2> QED
      BY <1>3, <2>1, <2>2, NetSpendIsTotal DEF ContractStep, BalanceCounts
  <1>4. CASE ~UNCHANGED <<paid, total, grant>>
    <2>1. /\ o \notin paid /\ paid' = paid \cup {o} /\ total' = total + Price[o]
          /\ grant' = Granted(total')
      BY <1>1, <1>4 DEF Create, Commit
    <2>2. SpentAll \in [Orders -> Nat] /\ SpentAll' \in [Orders -> Nat]
      BY SpentType
    <2>3. SpentAll[o] = 0 /\ SpentAll'[o] = Price[o]
      <3>1. refunded[o] = 0
        BY <2>1 DEF RefundsFit, TypeOK
      <3> QED
        BY <1>2, <2>1, <3>1, DjangoOrdersConstants DEF SpentAll, Spent
    <2>4. \A u \in Orders \ {o} : SpentAll'[u] = SpentAll[u]
      BY <1>2, <2>1 DEF SpentAll, Spent
    <2>5. SpentAll' = [SpentAll EXCEPT ![o] = Price[o]]
      BY <2>2, <2>3, <2>4
    <2>6. /\ Total(SpentAll, Orders) \in Nat
          /\ Total(SpentAll', Orders) = (Total(SpentAll, Orders) - SpentAll[o]) + SpentAll'[o]
      BY <2>2, <2>4, TotalChange, DjangoOrdersConstants
    <2>7. total' = Contract!NetSpend'
      <3>1. total = Total(SpentAll, Orders)
        BY NetSpendIsTotal DEF BalanceCounts
      <3>2. Price[o] \in Nat
        BY DjangoOrdersConstants
      <3> QED
        BY <2>1, <2>3, <2>6, <3>1, <3>2, NetSpendIsTotal
    <2> DEFINE offered == {t \in Tiers : t \in active /\ Threshold[t] <= total' /\ grant[t] = "none"}
    <2>8. ASSUME NEW t \in Tiers
          PROVE  /\ t \in offered => Benefits[t] = "none" /\ Benefits'[t] = "offered"
                 /\ t \notin offered => Benefits'[t] = Benefits[t]
      <3>1. Fit(grant[t], coupon[t], redemption[t]) /\ Fit(grant'[t], coupon'[t], redemption'[t])
        BY BenefitsAreFit
      <3>2. grant'[t] = IF t \in offered THEN "AWAITING_CHOICE" ELSE grant[t]
        BY <2>1 DEF Granted
      <3>3. coupon'[t] = coupon[t] /\ redemption'[t] = redemption[t]
        BY <1>2
      <3>4. t \in offered => grant[t] = "none"
        OBVIOUS
      <3> HIDE DEF offered
      <3>5. t \in offered => Benefits[t] = "none"
        BY <3>1, <3>4, BenefitCases DEF Benefits
      <3>6. t \in offered => Benefits'[t] = "offered"
        BY <3>1, <3>2, BenefitCases DEF Benefits
      <3> QED
        BY <3>2, <3>3, <3>5, <3>6 DEF Benefits
    <2>9. Benefits' = [t \in Tiers |-> IF t \in offered THEN "offered" ELSE Benefits[t]]
      <3> HIDE DEF offered
      <3>1. Benefits' = [t \in Tiers |-> Benefits'[t]]
        BY DEF Benefits
      <3> QED
        BY <2>8, <3>1
    <2>10. offered \in SUBSET {t \in Tiers : Benefits[t] = "none" /\ Threshold[t] <= Contract!NetSpend'}
      BY <2>7, <2>8
    <2> HIDE DEF offered
    <2>11. Contract!Pay(o)
      BY <2>3, <2>5, <2>7, <2>9, <2>10 DEF Contract!Pay, SpentAll, Benefits
    <2> QED
      BY <2>7, <2>11 DEF Contract!Next, ContractStep, BalanceCounts
  <1> QED
    BY <1>3, <1>4

LEMMA RefundKeepsContract ==
  ASSUME TypeOK, RefundsFit, BalanceCounts, BenefitsFit,
         TypeOK', RefundsFit', BenefitsFit', NEW o \in Orders, NEW x \in 1 .. Price[o], RefundOrder(o, x)
  PROVE  ContractStep
  <1>1. /\ o \in paid /\ paid' = paid /\ x > 0 /\ x <= Price[o] - refunded[o]
        /\ total' = Positive(total - x) /\ redemption' = redemption
        /\ \A u \in Orders : refunded'[u] = IF u = o THEN refunded[u] + x ELSE refunded[u]
    BY DEF RefundOrder, TypeOK
  <1>2. SpentAll \in [Orders -> Nat] /\ SpentAll' \in [Orders -> Nat]
    BY SpentType
  <1>3. SpentAll[o] >= x /\ SpentAll'[o] = SpentAll[o] - x /\ x \in Nat
    <2>1. Price[o] \in Nat /\ refunded[o] \in Nat
      BY DjangoOrdersConstants DEF TypeOK
    <2> QED
      BY <1>1, <2>1 DEF SpentAll, Spent
  <1>4. \A u \in Orders \ {o} : SpentAll'[u] = SpentAll[u]
    BY <1>1 DEF SpentAll, Spent
  <1>5. SpentAll' = [SpentAll EXCEPT ![o] = SpentAll'[o]]
    BY <1>2, <1>4
  <1>6. /\ Total(SpentAll, Orders) \in Nat /\ Total(SpentAll, Orders) >= SpentAll[o]
        /\ Total(SpentAll', Orders) = (Total(SpentAll, Orders) - SpentAll[o]) + SpentAll'[o]
    BY <1>2, <1>4, TotalChange, DjangoOrdersConstants
  <1>7. total' = Contract!NetSpend'
    <2>1. total = Total(SpentAll, Orders)
      BY NetSpendIsTotal DEF BalanceCounts
    <2>2. SpentAll[o] \in Nat /\ SpentAll'[o] \in Nat
      BY <1>2
    <2>3. Positive(total - x) = total - x
      BY <1>3, <1>6, <2>1, <2>2 DEF Positive
    <2>4. Total(SpentAll', Orders) = total - x
      BY <1>3, <1>6, <2>1, <2>2
    <2> QED
      BY <1>1, <2>3, <2>4, NetSpendIsTotal
  <1>8. ASSUME NEW t \in Tiers
        PROVE  Benefits'[t] = IF Benefits[t] \in {"offered", "coupon"} /\ Threshold[t] > total'
                              THEN "withdrawn" ELSE Benefits[t]
    <2>1. Fit(grant[t], coupon[t], redemption[t])
      BY BenefitsAreFit
    <2>2. PICK lost \in BOOLEAN : lost <=> Threshold[t] > total'
      OBVIOUS
    <2>3. grant'[t] = IF grant[t] = "AWAITING_CHOICE" /\ lost THEN "REVOKED" ELSE grant[t]
      BY <2>2 DEF RefundOrder
    <2>4. coupon'[t] = IF coupon[t] = "AVAILABLE" /\ lost THEN "REVOKED" ELSE coupon[t]
      BY <2>2 DEF RefundOrder, WithdrawnCoupons
    <2>5. Benefit(grant'[t], coupon'[t], redemption[t]) =
            IF Benefit(grant[t], coupon[t], redemption[t]) \in {"offered", "coupon"} /\ lost
            THEN "withdrawn" ELSE Benefit(grant[t], coupon[t], redemption[t])
      BY <2>1, <2>3, <2>4, RefundWithdraws
    <2> QED
      BY <1>1, <2>2, <2>5 DEF Benefits
  <1>9. Benefits' = [t \in Tiers |->
          IF Benefits[t] \in {"offered", "coupon"} /\ Threshold[t] > Contract!NetSpend'
          THEN "withdrawn" ELSE Benefits[t]]
    <2>1. Benefits' = [t \in Tiers |-> Benefits'[t]]
      BY DEF Benefits
    <2> QED
      BY <1>7, <1>8, <2>1
  <1>10. SpentAll[o] > 0 /\ SpentAll'[o] \in 0 .. SpentAll[o] - 1
    <2>1. SpentAll[o] \in Nat /\ SpentAll'[o] \in Nat
      BY <1>2
    <2> QED
      BY <1>1, <1>3, <2>1
  <1>11. Contract!Refund(o)
    BY <1>5, <1>7, <1>9, <1>10 DEF Contract!Refund, SpentAll, Benefits
  <1> QED
    BY <1>7, <1>11 DEF Contract!Next, ContractStep, BalanceCounts

LEMMA BenefitKeepsContract ==
  ASSUME TypeOK, BalanceCounts, BenefitsFit, TypeOK', BenefitsFit', NEW t \in Tiers,
         \/ RewardChoose(t)
         \/ RedeemCoupon(t) \/ ApplyRedemption(t)
  PROVE  ContractStep
  <1>1. UNCHANGED <<paid, refunded, total>>
    BY DEF RewardChoose, ChooseCoupon, ChooseImmediate, RedeemCoupon, ApplyRedemption
  <1>2. SpentAll' = SpentAll /\ BalanceCounts'
    <2>1. SpentAll' = SpentAll
      BY <1>1 DEF SpentAll, Spent
    <2> QED
      BY <1>1, <2>1, NetSpendIsTotal DEF BalanceCounts
  <1>3. ASSUME NEW u \in Tiers, u # t PROVE Benefits'[u] = Benefits[u]
    <2>1. grant'[u] = grant[u] /\ coupon'[u] = coupon[u] /\ redemption'[u] = redemption[u]
      BY <1>3 DEF RewardChoose, ChooseCoupon, ChooseImmediate, Fulfil, RedeemCoupon, ApplyRedemption, TypeOK
    <2> QED
      BY <2>1 DEF Benefits
  <1>4. Benefits' = [Benefits EXCEPT ![t] = Benefits'[t]]
    <2>1. DOMAIN Benefits = Tiers /\ Benefits' = [u \in Tiers |-> Benefits'[u]]
          /\ Benefits = [u \in Tiers |-> Benefits[u]]
      BY DEF Benefits
    <2> QED
      BY <1>3, <2>1
  <1>5. Fit(grant[t], coupon[t], redemption[t]) /\ Fit(grant'[t], coupon'[t], redemption'[t])
    BY BenefitsAreFit
  <1>6. CASE RewardChoose(t)
    <2>1. /\ grant[t] = "AWAITING_CHOICE"
          /\ coupon'[t] = "AVAILABLE" \/ redemption'[t] \in {"AVAILABLE", "APPLIED"}
      BY <1>6 DEF RewardChoose, ChooseCoupon, ChooseImmediate, Fulfil, TypeOK
    <2>2. Benefits[t] = "offered" /\ Benefits'[t] \in {"coupon", "immediate", "used"}
      BY <1>5, <2>1, BenefitCases DEF Benefits
    <2>3. Contract!Take(t)
      BY <1>1, <1>2, <1>4, <2>2 DEF Contract!Take, Benefits, SpentAll
    <2> QED
      BY <1>2, <2>3 DEF Contract!Next, ContractStep
  <1>7. CASE RedeemCoupon(t) \/ ApplyRedemption(t)
    <2>1. \/ coupon[t] = "AVAILABLE" /\ coupon'[t] = "REDEEMED"
          \/ redemption[t] = "AVAILABLE" /\ redemption'[t] = "APPLIED"
      BY <1>7 DEF RedeemCoupon, ApplyRedemption, TypeOK
    <2>2. Benefits[t] \in {"coupon", "immediate"} /\ Benefits'[t] = "used"
      BY <1>5, <2>1, BenefitCases DEF Benefits
    <2>3. Contract!Use(t)
      BY <1>1, <1>2, <1>4, <2>2 DEF Contract!Use, Benefits, SpentAll
    <2> QED
      BY <1>2, <2>3 DEF Contract!Next, ContractStep
  <1> QED
    BY <1>6, <1>7

LEMMA NextContractStep ==
  ASSUME TypeOK, RequestsFit, RefundsFit, BalanceCounts, BenefitsFit,
         TypeOK', RefundsFit', BenefitsFit', [Next]_vars
  PROVE  ContractStep
  <1>1. CASE UNCHANGED <<paid, refunded, total, grant, coupon, redemption>>
    <2>1. SpentAll' = SpentAll /\ Benefits' = Benefits
      BY <1>1 DEF SpentAll, Spent, Benefits
    <2>2. UNCHANGED Contract!contractVars
      BY <1>1, <2>1 DEF Contract!contractVars, SpentAll, Benefits
    <2> QED
      BY <1>1, <2>1, <2>2, NetSpendIsTotal DEF ContractStep, BalanceCounts
  <1>2. ASSUME NEW a \in Attempts, Create(a) PROVE ContractStep
    BY <1>2, PosKeepsContract
  <1>3. ASSUME NEW o \in Orders, NEW x \in 1 .. Price[o], RefundOrder(o, x) PROVE ContractStep
    BY <1>3, RefundKeepsContract
  <1>4. ASSUME NEW t \in Tiers, RewardChoose(t) \/ RedeemCoupon(t) \/ ApplyRedemption(t)
        PROVE  ContractStep
    BY <1>4, BenefitKeepsContract
  <1> QED
    BY <1>1, <1>2, <1>3, <1>4
       DEF Next, PosStep, Receive, StoreRecord, Stop, AdminOrderRefund, ExchangeClaim, ClaimExpires,
           BenefitExpires, CreateTier, BlockPass, UnblockPass, PublishPolicy, vars, rewards

LEMMA InitContract ==
  ASSUME Init
  PROVE  Contract!Init /\ BalanceCounts
  <1>1. SpentAll = [o \in Orders |-> 0]
    BY DEF Init, SpentAll, Spent
  <1>2. Benefits = [t \in Tiers |-> "none"]
    <2>1. ASSUME NEW t \in Tiers PROVE Benefits[t] = "none"
      BY DEF Init, Benefits, Benefit
    <2> QED
      BY <2>1 DEF Benefits
  <1>3. Total(SpentAll, Orders) = 0
    BY <1>1, TotalOfZeros, DjangoOrdersConstants
  <1>4. BalanceCounts
    BY <1>3, NetSpendIsTotal DEF Init, BalanceCounts
  <1>5. Contract!Init
    BY <1>1, <1>2 DEF Init, Contract!Init, SpentAll, Benefits
  <1> QED
    BY <1>4, <1>5

(***************************************************************************)
(* The theorems.                                                           *)
(***************************************************************************)
LEMMA InitInv == Init => OrdersInv
  <1> SUFFICES ASSUME Init PROVE OrdersInv
    OBVIOUS
  <1>1. TypeOK
    BY DEF Init, TypeOK, Answers
  <1>2. RequestsFit /\ ResponsesFit
    BY DEF Init, RequestsFit, ResponsesFit
  <1>3. PassesFit /\ ClaimFindsPass
    BY DEF Init, PassesFit, ClaimFindsPass
  <1>4. AnswersAreTrue
    BY DEF Init, AnswersAreTrue
  <1>5. RefundsFit /\ BenefitsFit
    BY DjangoOrdersConstants DEF Init, RefundsFit, BenefitsFit
  <1>6. BalanceCounts
    BY InitContract
  <1> QED
    BY <1>1, <1>2, <1>3, <1>4, <1>5, <1>6 DEF OrdersInv

LEMMA NextInv == OrdersInv /\ [Next]_vars => OrdersInv'
  <1> SUFFICES ASSUME OrdersInv, [Next]_vars PROVE OrdersInv'
    OBVIOUS
  <1>1. TypeOK' /\ PassesFit'
    BY NextTypeOK, NextPassesFit DEF OrdersInv
  <1>3. RefundsFit' /\ BenefitsFit' /\ BalanceCounts'
    <2>1. RefundsFit' /\ BenefitsFit'
      BY NextRefundsFit, NextBenefitsFit DEF OrdersInv
    <2> QED
      BY <1>1, <2>1, NextContractStep DEF OrdersInv, ContractStep
  <1>2. ClaimFindsPass'
    <2>1. usable' \in Nat /\ blocked' \in Nat
      BY <1>1 DEF TypeOK
    <2>2. paid' # {} => usable' + blocked' > 0
      BY <1>1 DEF PassesFit
    <2>3. ASSUME ~everBlocked', usable' + blocked' > 0 PROVE usable' + blocked' = 1
      <3>1. blocked' = 0 /\ usable' <= 1
        BY <1>1, <2>3, Zenon DEF PassesFit
      <3>2. usable' + blocked' > 0
        BY <2>3
      <3>3. \A u, b \in Nat : b = 0 /\ u <= 1 /\ u + b > 0 => u + b = 1
        OBVIOUS
      <3> QED
        BY <2>1, <3>1, <3>2, <3>3
    <2> QED
      BY <2>2, <2>3, Zenon DEF ClaimFindsPass
  <1> QED
    BY <1>1, <1>2, <1>3, NextRequestsFit, NextResponsesFit DEF OrdersInv

LEMMA OrdersInvHolds == Spec => []OrdersInv
  BY InitInv, NextInv, PTL DEF Spec

(* Every variable of the Django register has values of its kind.           *)
THEOREM OrdersTypeCorrect == Spec => []TypeOK
  <1>1. OrdersInv => TypeOK
    BY DEF OrdersInv
  <1> QED
    BY <1>1, OrdersInvHolds, PTL

(* Whatever registers repeat, and wherever the process stops, a request of *)
(* the register is told the truth.                                         *)
THEOREM RegistersAreToldTheTruth == Spec => []AnswersAreTrue
  <1>1. OrdersInv => AnswersAreTrue
    BY DEF OrdersInv
  <1> QED
    BY <1>1, OrdersInvHolds, PTL

(* The claim of a paid order finds the one pass of the day, until staff    *)
(* have blocked a pass.                                                    *)
THEOREM ClaimsFindPass == Spec => []ClaimFindsPass
  <1>1. OrdersInv => ClaimFindsPass
    BY DEF OrdersInv
  <1> QED
    BY <1>1, OrdersInvHolds, PTL

(* The orders, refunds and benefits of a day implement the contract of its *)
(* spending: the balance is always the sum of what the orders have paid    *)
(* and not got back, and an unused benefit that a refund leaves uncovered  *)
(* is withdrawn with it.                                                   *)
THEOREM OrdersKeepContract == Spec => KeepsContract
  <1>1. Init => Contract!Init
    BY InitContract
  <1>2. OrdersInv /\ OrdersInv' /\ [Next]_vars => [Contract!Next]_(Contract!contractVars)
    BY NextContractStep DEF OrdersInv, ContractStep
  <1> QED
    BY <1>1, <1>2, OrdersInvHolds, PTL DEF Spec, KeepsContract, Contract!Spec
=============================================================================

------------------------- MODULE VerificationProofs -------------------------
(* Proofs about Verification, for any requests, orders and limits. *)
EXTENDS Verification, FiniteSetTheorems, TLAPS

LEMMA RowTypes ==
  /\ NoRow \in OtpChallenge
  /\ NoJob \in Job
  /\ NotSent \in Sending
  /\ \A o \in Orders, t \in Nat : Asks(o, t) \in Job
  BY DEF NoRow, OtpChallenge, NoJob, Asks, Job, NotSent, Sending

LEMMA ConfirmsType ==
  ASSUME otp \in [Challenges -> OtpChallenge], NEW c \in Challenges, NEW t \in Nat
  PROVE  Confirms(c, t) \in Job
  BY DEF Confirms, Job

LEMMA MarkedType ==
  ASSUME NEW r \in OtpChallenge, NEW status \in {"PENDING"} \cup Ended, NEW n \in Nat
  PROVE  Marked(r, status, n) \in OtpChallenge
  BY DEF Marked, OtpChallenge, Ended

LEMMA InitInv == Init => VerificationInv
  <1> SUFFICES ASSUME Init PROVE VerificationInv
    OBVIOUS
  <1> USE DEF Init
  <1>1. TypeOK
    BY RowTypes DEF TypeOK
  <1>2. ClaimsLocked /\ OtpsLocked /\ SendsTracked
    BY DEF ClaimsLocked, OtpsLocked, Confirming, SendsTracked, NoRow
  <1>3. AttemptsCounted
    <2>1. \A c \in Challenges : ~Comparing(c)
      BY DEF Comparing
    <2> QED
      BY <2>1, VerificationAssumption DEF AttemptsCounted, NoRow
  <1>4. TicketOnce
    BY DEF TicketOnce
  <1>5. OneSession
    BY DEF OneSession, NoRow
  <1>6. SendsAhead
    <2>1. \A o \in Orders : Recent(o) = {} /\ Asking(o) = {}
      BY DEF Recent, Asking, NoRow
    <2>2. Cardinality(Workers) \in Nat /\ Cardinality(Workers) # 0
      <3>1. Cardinality(Workers) \in Nat
        BY FS_CardinalityType, VerificationAssumption
      <3>2. Cardinality(Workers) # 0
        BY FS_EmptySet, VerificationAssumption
      <3> QED
        BY <3>1, <3>2
    <2>3. Cardinality({}) = 0
      BY FS_EmptySet
    <2> QED
      BY <2>1, <2>2, <2>3, VerificationAssumption DEF SendsAhead
  <1> QED
    BY <1>1, <1>2, <1>3, <1>4, <1>5, <1>6 DEF VerificationInv

(***************************************************************************)
(* Types.                                                                  *)
(***************************************************************************)
LEMMA NextTypeOK ==
  ASSUME TypeOK, ClaimsLocked, OtpsLocked, SendsTracked, [Next]_vars
  PROVE  TypeOK'
  <1> USE VerificationAssumption DEF TypeOK, Goes, history, sends, confirms
  <1>1. ASSUME NEW w \in Workers, NEW o \in Orders, ExchangeLocks(w, o) \/ SendCounts(w, o)
        PROVE  TypeOK'
    BY <1>1, RowTypes DEF ExchangeLocks, SendCounts
  <1>2. ASSUME NEW w \in Workers, NEW c \in Challenges, ConfirmLocks(w, c) PROVE TypeOK'
    BY <1>2, ConfirmsType DEF ConfirmLocks
  <1>3. ASSUME NEW w \in Workers, ExchangeCommits(w) PROVE TypeOK'
    <2>1. job[w].order \in Orders /\ job[w].at \in Nat
      BY <1>3 DEF ExchangeCommits, ClaimsLocked, Job
    <2>2. TicketEnds(job[w].at) \in Nat
      BY <2>1 DEF TicketEnds
    <2> QED
      BY <1>3, <2>1, <2>2, RowTypes DEF ExchangeCommits, Ends
  <1>4. ASSUME NEW w \in Workers, SendDelivers(w) PROVE TypeOK'
    <2>1. PICK c \in Challenges :
            /\ sent' = [sent EXCEPT ![c] = [order |-> job[w].order, at |-> now]]
            /\ Goes(w, "sent", Sends(job[w].order, c, job[w].at, now))
      BY <1>4 DEF SendDelivers
    <2>2. /\ Sends(job[w].order, c, job[w].at, now) \in Job
          /\ [order |-> job[w].order, at |-> now] \in Sending
      BY RowTypes DEF Sends, Job, Sending
    <2> QED
      BY <1>4, <2>1, <2>2 DEF SendDelivers
  <1>5. ASSUME NEW w \in Workers, SendCommits(w) PROVE TypeOK'
    <2>0. /\ job[w].order \in Orders \cup {NoOrder} /\ job[w].created \in Nat
          /\ job[w].at + OtpLife \in Nat /\ job[w].otp \in Challenges
      <3>1. job[w] \in Job
        OBVIOUS
      <3>2. job[w].at \in Nat /\ OtpLife \in Nat
        BY <3>1 DEF Job
      <3>3. job[w].otp \in Challenges
        BY <1>5 DEF SendCommits, SendsTracked
      <3> QED
        BY <3>1, <3>2, <3>3 DEF Job
    <2>1. NewRow(job[w]) \in OtpChallenge
      BY <2>0 DEF NewRow, OtpChallenge
    <2> QED
      BY <1>5, <2>0, <2>1, RowTypes DEF SendCommits, Ends
  <1>6. ASSUME NEW w \in Workers, ConfirmRefuses(w) \/ ConfirmCommits(w) PROVE TypeOK'
    <2>1. /\ job[w].otp \in Challenges /\ job[w].row \in OtpChallenge
          /\ job[w].row.attempts \in Nat
      BY <1>6 DEF ConfirmRefuses, ConfirmCommits, OtpsLocked, Confirming, Job, OtpChallenge
    <2>2. /\ Marked(job[w].row, "EXPIRED", job[w].row.attempts) \in OtpChallenge
          /\ Marked(job[w].row, "LOCKED", job[w].row.attempts) \in OtpChallenge
          /\ Marked(job[w].row, "VERIFIED", job[w].row.attempts + 1) \in OtpChallenge
          /\ AfterWrong(job[w].row) \in OtpChallenge
      <3>1. \A status \in {"PENDING"} \cup Ended, n \in Nat :
              Marked(job[w].row, status, n) \in OtpChallenge
        BY <2>1, MarkedType
      <3>2. {"PENDING"} \cup Ended = {"PENDING", "LOCKED", "VERIFIED", "EXPIRED"}
        BY DEF Ended
      <3>3. job[w].row.attempts + 1 \in Nat
        BY <2>1
      <3> QED
        BY <2>1, <3>1, <3>2, <3>3 DEF AfterWrong
    <2> DEFINE c == job[w].otp
    <2>3. \E r \in OtpChallenge : otp' = [otp EXCEPT ![c] = r]
      BY <1>6, <2>2 DEF ConfirmRefuses, ConfirmCommits
    <2>4. otp' \in [Challenges -> OtpChallenge]
      BY <2>1, <2>3
    <2>5. /\ opened' \in [Challenges -> Nat]
          /\ UNCHANGED <<now, exchanged, ticket, issued, sends, compared, undone>>
          /\ Goes(w, "idle", NoJob)
      BY <1>6, <2>1 DEF ConfirmRefuses, ConfirmCommits, Ends
    <2> HIDE DEF c
    <2> QED
      BY <2>4, <2>5, RowTypes
  <1>7. ASSUME NEW w \in Workers, RolledBack(w) PROVE TypeOK'
    <2>1. pc[w] \in {"sent", "wrong", "right"} => job[w].otp \in Challenges
      BY DEF SendsTracked, OtpsLocked, Confirming
    <2>2. \/ UNCHANGED <<lost, undone>>
          \/ lost' = lost \cup {job[w].otp} /\ job[w].otp \in Challenges /\ undone' = undone
          \/ undone' = [undone EXCEPT ![job[w].otp] = @ + 1] /\ lost' = lost
      BY <1>7, <2>1 DEF RolledBack
    <2>3. lost' \subseteq Challenges /\ undone' \in [Challenges -> Nat]
      BY <2>2
    <2>4. /\ Goes(w, "idle", NoJob)
          /\ UNCHANGED <<now, exchanged, ticket, otp, issued, sent, compared, opened>>
      BY <1>7 DEF RolledBack, Ends
    <2> QED
      BY <2>3, <2>4, RowTypes
  <1>10. ASSUME NEW w \in Workers, ConfirmCompares(w) PROVE TypeOK'
    <2>1. job[w].otp \in Challenges
      BY <1>10 DEF ConfirmCompares, OtpsLocked, Confirming
    <2>2. compared' \in [Challenges -> Nat]
      BY <1>10, <2>1 DEF ConfirmCompares
    <2> QED
      BY <1>10, <2>2 DEF ConfirmCompares
  <1>8. CASE Tick
    BY <1>8 DEF Tick
  <1>9. CASE UNCHANGED vars
    BY <1>9 DEF vars
  <1> QED
    BY <1>1, <1>2, <1>3, <1>4, <1>5, <1>6, <1>7, <1>8, <1>9, <1>10 DEF Next, Step

LEMMA GoesFrame ==
  ASSUME TypeOK, NEW w \in Workers, NEW to, NEW j, Goes(w, to, j)
  PROVE  \A v \in Workers : /\ pc'[v] = IF v = w THEN to ELSE pc[v]
                            /\ job'[v] = IF v = w THEN j ELSE job[v]
  BY DEF TypeOK, Goes

(***************************************************************************)
(* Claims: the lock makes the exchange the only one.                       *)
(***************************************************************************)
LEMMA NextClaims ==
  ASSUME TypeOK, ClaimsLocked, TicketOnce, [Next]_vars
  PROVE  ClaimsLocked' /\ TicketOnce'
  <1> USE DEF ClaimsLocked, TicketOnce, history, sends, confirms
  <1>1. ASSUME NEW w \in Workers, NEW o \in Orders, ExchangeLocks(w, o)
        PROVE  ClaimsLocked' /\ TicketOnce'
    <2>1. Asks(o, now).order = o
      BY DEF Asks
    <2>2. \A v \in Workers : pc[v] = "exchange" => job[v].order # o
      BY <1>1 DEF ExchangeLocks, ClaimLocked
    <2>3. Goes(w, "exchange", Asks(o, now)) /\ o \notin exchanged
      BY <1>1 DEF ExchangeLocks
    <2> QED
      BY <1>1, <2>1, <2>2, <2>3, GoesFrame DEF ExchangeLocks
  <1>2. ASSUME NEW w \in Workers, ExchangeCommits(w)
        PROVE  ClaimsLocked' /\ TicketOnce'
    <2> DEFINE o == job[w].order
    <2>1. o \in Orders \ exchanged /\ issued[o] = 0
      BY <1>2 DEF ExchangeCommits, TypeOK
    <2>2. /\ issued' = [issued EXCEPT ![o] = @ + 1]
          /\ exchanged' = exchanged \cup {o}
          /\ Goes(w, "idle", NoJob)
      BY <1>2 DEF ExchangeCommits, Ends
    <2>3. ClaimsLocked'
      BY <1>2, <2>1, <2>2, GoesFrame DEF ExchangeCommits
    <2>4. TicketOnce'
      BY <2>1, <2>2 DEF TypeOK
    <2> QED
      BY <2>3, <2>4
  <1>3. ASSUME NEW w \in Workers, NEW to \in {"idle", "send", "sent", "confirm", "wrong", "right"}, NEW j,
               Goes(w, to, j), UNCHANGED <<exchanged, issued>>
        PROVE  ClaimsLocked' /\ TicketOnce'
    BY <1>3, GoesFrame
  <1>4. ASSUME NEW w \in Workers, NEW o \in Orders, SendCounts(w, o)
        PROVE  ClaimsLocked' /\ TicketOnce'
    BY <1>3, <1>4 DEF SendCounts
  <1>5. ASSUME NEW w \in Workers, NEW c \in Challenges, ConfirmLocks(w, c)
        PROVE  ClaimsLocked' /\ TicketOnce'
    BY <1>3, <1>5 DEF ConfirmLocks
  <1>6. ASSUME NEW w \in Workers,
               \/ SendDelivers(w) \/ SendCommits(w) \/ RolledBack(w)
               \/ ConfirmRefuses(w) \/ ConfirmCompares(w) \/ ConfirmCommits(w)
        PROVE  ClaimsLocked' /\ TicketOnce'
    <2>1. CASE SendDelivers(w)
      BY <1>3, <2>1 DEF SendDelivers
    <2>2. CASE SendCommits(w)
      BY <1>3, <2>2 DEF SendCommits, Ends
    <2>3. CASE ConfirmCommits(w)
      BY <1>3, <2>3 DEF ConfirmCommits, Ends
    <2>4. CASE RolledBack(w)
      BY <1>3, <2>4 DEF RolledBack, Ends
    <2>5. CASE ConfirmRefuses(w)
      BY <1>3, <2>5 DEF ConfirmRefuses, Ends
    <2>6. CASE ConfirmCompares(w)
      BY <1>3, <2>6 DEF ConfirmCompares
    <2> QED
      BY <1>6, <2>1, <2>2, <2>3, <2>4, <2>5, <2>6
  <1>7. CASE Tick \/ UNCHANGED vars
    BY <1>7 DEF Tick, vars
  <1> QED
    BY <1>1, <1>2, <1>4, <1>5, <1>6, <1>7 DEF Next, Step

(***************************************************************************)
(* Challenges: what was read under the lock is what is written.            *)
(***************************************************************************)
ConfirmInv == OtpsLocked /\ AttemptsCounted /\ OneSession

(* A request that does not confirm any more disturbs no other's lock. *)
LEMMA LockReleased ==
  ASSUME TypeOK, OtpsLocked, NEW w \in Workers, NEW to, NEW j, NEW c,
         to \notin {"confirm", "wrong", "right"}, Goes(w, to, j),
         \A v \in Workers \ {w} : Confirming(v) => job[v].otp # c,
         \A d \in Challenges : d # c => otp'[d] = otp[d]
  PROVE  OtpsLocked'
  <1>1. ASSUME NEW v \in Workers, Confirming(v)'
        PROVE  v # w /\ Confirming(v) /\ job'[v] = job[v]
    BY <1>1, GoesFrame DEF Confirming
  <1>2. ASSUME NEW v \in Workers, Confirming(v)'
        PROVE  /\ job[v].otp \in Challenges /\ otp'[job[v].otp] = otp[job[v].otp]
               /\ job[v].row = otp[job[v].otp] /\ job[v].row.status = "PENDING"
    BY <1>1, <1>2 DEF OtpsLocked
  <1>3. ASSUME NEW v \in Workers, NEW u \in Workers, Confirming(v)', Confirming(u)',
               job'[u].otp = job'[v].otp
        PROVE  u = v
    BY <1>1, <1>3 DEF OtpsLocked
  <1> QED
    BY <1>1, <1>2, <1>3 DEF OtpsLocked

(* Only the challenge of the request that moves is compared or not. *)
LEMMA ComparingElsewhere ==
  ASSUME TypeOK, NEW w \in Workers, NEW to, NEW j, Goes(w, to, j), NEW c,
         pc[w] \in {"wrong", "right"} => job[w].otp = c,
         to \in {"wrong", "right"} => j.otp = c
  PROVE  \A d \in Challenges : d # c => (Comparing(d)' <=> Comparing(d))
  <1>1. \A v \in Workers \ {w} : pc'[v] = pc[v] /\ job'[v] = job[v]
    BY GoesFrame
  <1>2. pc'[w] = to /\ job'[w] = j
    BY GoesFrame
  <1> QED
    BY <1>1, <1>2 DEF Comparing

(* What is counted for one challenge. *)
CountedAt(c) ==
  /\ Comparing(c) => compared[c] = otp[c].attempts + undone[c] + 1
  /\ ~Comparing(c) => compared[c] = otp[c].attempts + undone[c]
  /\ otp[c].attempts <= MaxAttempts
  /\ otp[c].status = "none" => otp[c].attempts = 0
  /\ otp[c].status = "PENDING" => otp[c].attempts < MaxAttempts

OneAt(c) == opened[c] <= 1 /\ (opened[c] = 1 <=> otp[c].status = "VERIFIED")

LEMMA ByChallenge ==
  /\ AttemptsCounted <=> \A c \in Challenges : CountedAt(c)
  /\ OneSession <=> \A c \in Challenges : OneAt(c)
  BY DEF AttemptsCounted, OneSession, CountedAt, OneAt

(* It is enough to look at the challenge that the step is about. *)
LEMMA CountElsewhere ==
  ASSUME AttemptsCounted, OneSession, NEW c,
         \A d \in Challenges : d # c =>
           /\ Comparing(d)' <=> Comparing(d)
           /\ otp'[d] = otp[d] /\ compared'[d] = compared[d]
           /\ undone'[d] = undone[d] /\ opened'[d] = opened[d],
         c \in Challenges => CountedAt(c)' /\ OneAt(c)'
  PROVE  AttemptsCounted' /\ OneSession'
  <1>1. ASSUME NEW d \in Challenges PROVE CountedAt(d)' /\ OneAt(d)'
    <2>1. CASE d = c
      BY <2>1
    <2>2. CASE d # c
      <3>1. CountedAt(d)'
        BY <2>2 DEF AttemptsCounted, CountedAt
      <3>2. OneAt(d)'
        BY <2>2 DEF OneSession, OneAt
      <3> QED
        BY <3>1, <3>2
    <2> QED
      BY <2>1, <2>2
  <1> QED
    BY <1>1 DEF AttemptsCounted, OneSession, CountedAt, OneAt

LEMMA NextConfirming ==
  ASSUME TypeOK, SendsTracked, ConfirmInv, [Next]_vars
  PROVE  ConfirmInv'
  <1> USE DEF ConfirmInv, history, sends, confirms
  (* Steps that neither confirm nor give up a comparison. *)
  <1>1. ASSUME NEW w \in Workers, NEW to \in {"idle", "exchange", "send", "sent"}, NEW j,
               Goes(w, to, j), pc[w] \notin {"wrong", "right"},
               UNCHANGED <<otp, compared, undone, opened>>
        PROVE  ConfirmInv'
    <2> DEFINE c == NoChallenge
    <2>1. \A v \in Workers : Confirming(v) => job[v].otp # c
      BY VerificationAssumption DEF OtpsLocked
    <2>2. OtpsLocked'
      BY <1>1, <2>1, LockReleased
    <2>3. \A d \in Challenges : d # c => (Comparing(d)' <=> Comparing(d))
      BY <1>1, ComparingElsewhere
    <2>4. AttemptsCounted' /\ OneSession'
      BY <1>1, <2>3, CountElsewhere, VerificationAssumption
    <2> QED
      BY <2>2, <2>4
  <1>2. ASSUME NEW w \in Workers, NEW c \in Challenges, ConfirmLocks(w, c)
        PROVE  ConfirmInv'
    <2> DEFINE j == Confirms(c, now)
    <2>1. j.otp = c /\ j.row = otp[c]
      BY DEF Confirms
    <2>2. \A v \in Workers : Confirming(v) => job[v].otp # c
      BY <1>2 DEF ConfirmLocks, OtpLocked
    <2>3. /\ Goes(w, "confirm", j) /\ otp[c].status = "PENDING" /\ pc[w] = "idle"
          /\ UNCHANGED <<otp, compared, undone, opened>>
      BY <1>2 DEF ConfirmLocks
    <2> HIDE DEF j
    <2>4. OtpsLocked'
      <3>1. ASSUME NEW v \in Workers, v # w
            PROVE  (Confirming(v)' <=> Confirming(v)) /\ job'[v] = job[v]
        BY <2>3, <3>1, GoesFrame DEF Confirming
      <3>2. job'[w] = j
        BY <2>3, GoesFrame
      <3> QED
        BY <2>1, <2>2, <2>3, <3>1, <3>2 DEF OtpsLocked
    <2>5. \A d \in Challenges : d # NoChallenge => (Comparing(d)' <=> Comparing(d))
      BY <2>3, ComparingElsewhere
    <2>6. AttemptsCounted' /\ OneSession'
      BY <2>3, <2>5, CountElsewhere, VerificationAssumption
    <2> QED
      BY <2>4, <2>6
  <1>3. ASSUME NEW w \in Workers, SendCommits(w)
        PROVE  ConfirmInv'
    <2>1. PICK c \in Challenges : c = job[w].otp /\ otp[c].status = "none"
      BY <1>3 DEF SendCommits, SendsTracked
    <2>2. PICK row : row = NewRow(job[w])
      OBVIOUS
    <2>3. row.status = "PENDING" /\ row.attempts = 0
      BY <2>2 DEF NewRow
    <2>4. /\ otp' = [otp EXCEPT ![c] = row] /\ Goes(w, "idle", NoJob) /\ pc[w] = "sent"
          /\ UNCHANGED <<compared, undone, opened>>
      BY <1>3, <2>1, <2>2 DEF SendCommits, Ends
    <2>5. \A d \in Challenges : otp'[d] = IF d = c THEN row ELSE otp[d]
      BY <2>4 DEF TypeOK
    <2>6. \A v \in Workers : Confirming(v) => job[v].otp # c
      BY <2>1 DEF OtpsLocked
    <2>7. OtpsLocked'
      BY <2>4, <2>5, <2>6, LockReleased
    <2>c. \A d \in Challenges : d # NoChallenge => (Comparing(d)' <=> Comparing(d))
      BY <2>4, ComparingElsewhere
    <2>8. \A d \in Challenges : (Comparing(d)' <=> Comparing(d))
      BY <2>c, VerificationAssumption
    <2>9. ~Comparing(c)
      BY <2>6 DEF Comparing, Confirming
    <2>10. CountedAt(c)' /\ OneAt(c)'
      <3>1. CountedAt(c) /\ OneAt(c)
        BY ByChallenge
      <3>2. CountedAt(c)'
        BY <2>1, <2>3, <2>4, <2>5, <2>8, <2>9, <3>1, VerificationAssumption DEF CountedAt, TypeOK
      <3>3. OneAt(c)'
        BY <2>1, <2>3, <2>4, <2>5, <3>1 DEF OneAt, TypeOK
      <3> QED
        BY <3>2, <3>3
    <2>11. AttemptsCounted' /\ OneSession'
      BY <2>4, <2>5, <2>8, <2>10, CountElsewhere
    <2> QED
      BY <2>7, <2>11
  <1>4. ASSUME NEW w \in Workers,
               \/ ConfirmRefuses(w) \/ ConfirmCompares(w) \/ ConfirmCommits(w)
               \/ RolledBack(w) /\ pc[w] \in {"wrong", "right"}
        PROVE  ConfirmInv'
    <2>0. Confirming(w)
      BY <1>4 DEF ConfirmRefuses, ConfirmCompares, ConfirmCommits, Confirming
    <2>1. PICK c \in Challenges : c = job[w].otp
      BY <2>0 DEF OtpsLocked
    <2>2. /\ job[w].row = otp[c] /\ otp[c].status = "PENDING"
          /\ \A v \in Workers \ {w} : Confirming(v) => job[v].otp # c
      BY <2>0, <2>1 DEF OtpsLocked
    <2>3. PICK r \in OtpChallenge : r = otp[c]
      BY DEF TypeOK
    <2>4. /\ r.attempts \in Nat /\ r.attempts < MaxAttempts /\ r.status = "PENDING"
          /\ compared[c] \in Nat /\ undone[c] \in Nat /\ opened[c] \in Nat /\ opened[c] = 0
      <3>1. CountedAt(c) /\ OneAt(c)
        BY ByChallenge
      <3>2. r.attempts \in Nat /\ compared[c] \in Nat /\ undone[c] \in Nat /\ opened[c] \in Nat
        BY <2>3 DEF TypeOK, OtpChallenge
      <3>3. r.attempts < MaxAttempts
        BY <2>2, <2>3, <3>1 DEF CountedAt
      <3>4. opened[c] <= 1 /\ opened[c] # 1
        BY <2>2, <3>1 DEF OneAt
      <3> QED
        BY <2>2, <2>3, <3>2, <3>3, <3>4
    <2>5. /\ pc[w] = "confirm" => compared[c] = r.attempts + undone[c]
          /\ pc[w] # "confirm" => compared[c] = r.attempts + undone[c] + 1
      <3>1. CountedAt(c)
        BY ByChallenge
      <3>2. Comparing(c) <=> pc[w] \in {"wrong", "right"}
        BY <2>1, <2>2 DEF Comparing, Confirming
      <3>3. pc[w] # "confirm" => pc[w] \in {"wrong", "right"}
        BY <2>0 DEF Confirming
      <3>4. pc[w] = "confirm" => ~(pc[w] \in {"wrong", "right"})
        OBVIOUS
      <3> QED
        BY <2>3, <3>1, <3>2, <3>3, <3>4 DEF CountedAt
    (* The request ends: it counted n, opened m and left row x. *)
    <2> DEFINE Leaves(x, n, m) ==
          /\ otp' = [otp EXCEPT ![c] = x] /\ undone' = [undone EXCEPT ![c] = n]
          /\ opened' = [opened EXCEPT ![c] = m] /\ compared' = compared
          /\ compared[c] = x.attempts + n /\ x.attempts <= MaxAttempts
          /\ x.status # "none" /\ (x.status = "PENDING" => x.attempts < MaxAttempts)
          /\ (m = 1 => x.status = "VERIFIED") /\ (m # 1 => x.status # "VERIFIED")
          /\ Goes(w, "idle", NoJob)
    <2>6. ASSUME NEW x, NEW n \in Nat, NEW m \in {0, 1}, Leaves(x, n, m)
          PROVE  ConfirmInv'
      <3>1. \A d \in Challenges : /\ otp'[d] = IF d = c THEN x ELSE otp[d]
                                  /\ undone'[d] = IF d = c THEN n ELSE undone[d]
                                  /\ opened'[d] = IF d = c THEN m ELSE opened[d]
        BY <2>6 DEF TypeOK
      <3>2. OtpsLocked'
        <4>1. \A d \in Challenges : d # c => otp'[d] = otp[d]
          BY <3>1
        <4> QED
          BY <2>2, <2>6, <4>1, LockReleased
      <3>3. \A d \in Challenges : d # c => (Comparing(d)' <=> Comparing(d))
        BY <2>1, <2>6, ComparingElsewhere
      <3>4. ~Comparing(c)'
        <4>1. \A v \in Workers : pc'[v] \in {"wrong", "right"} => v # w /\ Confirming(v) /\ job'[v] = job[v]
          BY <2>6, GoesFrame DEF Confirming
        <4> QED
          BY <2>2, <4>1 DEF Comparing
      <3>5. CountedAt(c)'
        BY <2>6, <3>1, <3>4 DEF CountedAt
      <3>6. OneAt(c)'
        BY <2>6, <3>1 DEF OneAt
      <3>7. AttemptsCounted' /\ OneSession'
        BY <2>6, <3>1, <3>3, <3>5, <3>6, CountElsewhere
      <3> QED
        BY <3>2, <3>7
    <2>7. undone = [undone EXCEPT ![c] = undone[c]] /\ opened = [opened EXCEPT ![c] = 0]
          /\ otp = [otp EXCEPT ![c] = r]
      BY <2>3, <2>4 DEF TypeOK
    <2>8. CASE ConfirmRefuses(w)
      <3>1. pc[w] = "confirm" /\ ~(r.attempts >= MaxAttempts)
        BY <2>4, <2>8, VerificationAssumption DEF ConfirmRefuses
      <3>2. PICK x : x = Marked(r, "EXPIRED", r.attempts)
        OBVIOUS
      <3>3. /\ otp' = [otp EXCEPT ![c] = x] /\ UNCHANGED <<undone, opened, compared>>
            /\ Goes(w, "idle", NoJob)
        BY <2>1, <2>2, <2>3, <2>8, <3>1, <3>2 DEF ConfirmRefuses, Ends
      <3>4. x.attempts = r.attempts /\ x.status = "EXPIRED"
        BY <3>2 DEF Marked
      <3>5. x.attempts <= MaxAttempts /\ compared[c] = x.attempts + undone[c]
        BY <2>4, <2>5, <3>1, <3>4, VerificationAssumption
      <3>6. undone' = [undone EXCEPT ![c] = undone[c]] /\ opened' = [opened EXCEPT ![c] = 0]
        BY <2>7, <3>3
      <3>e. otp' = [otp EXCEPT ![c] = x] /\ compared' = compared /\ Goes(w, "idle", NoJob)
        BY <3>3
      <3>7. Leaves(x, undone[c], 0)
        BY <3>4, <3>5, <3>6, <3>e
      <3> HIDE DEF Leaves
      <3> QED
        BY <2>4, <2>6, <3>7
    <2>9. CASE ConfirmCompares(w)
      <3>1. PICK to \in {"wrong", "right"} : Goes(w, to, job[w])
        BY <2>9 DEF ConfirmCompares
      <3>2. /\ compared' = [compared EXCEPT ![c] = compared[c] + 1] /\ pc[w] = "confirm"
            /\ UNCHANGED <<otp, undone, opened>>
        BY <2>1, <2>9 DEF ConfirmCompares
      <3>3. OtpsLocked'
        <4>1. \A v \in Workers : (Confirming(v)' <=> Confirming(v)) /\ job'[v] = job[v]
          BY <2>0, <3>1, GoesFrame DEF Confirming
        <4> QED
          BY <3>2, <4>1 DEF OtpsLocked
      <3>4. \A d \in Challenges : d # c => (Comparing(d)' <=> Comparing(d))
        BY <2>1, <3>1, ComparingElsewhere
      <3>5. Comparing(c)'
        BY <2>1, <3>1, GoesFrame DEF Comparing
      <3>6. \A d \in Challenges : compared'[d] = IF d = c THEN compared[c] + 1 ELSE compared[d]
        BY <3>2 DEF TypeOK
      <3>7. CountedAt(c) /\ OneAt(c)
        BY ByChallenge
      <3>8. CountedAt(c)'
        BY <2>3, <2>4, <2>5, <3>2, <3>5, <3>6, <3>7 DEF CountedAt
      <3>9. OneAt(c)'
        BY <3>2, <3>7 DEF OneAt
      <3>10. AttemptsCounted' /\ OneSession'
        BY <3>2, <3>4, <3>6, <3>8, <3>9, CountElsewhere
      <3> QED
        BY <3>3, <3>10
    <2>10. CASE ConfirmCommits(w) /\ pc[w] = "wrong"
      <3>1. PICK x : x = AfterWrong(r)
        OBVIOUS
      <3>2. /\ otp' = [otp EXCEPT ![c] = x] /\ UNCHANGED <<undone, opened, compared>>
            /\ Goes(w, "idle", NoJob)
        BY <2>1, <2>2, <2>3, <2>10, <3>1 DEF ConfirmCommits, Ends
      <3>3. /\ x.attempts = r.attempts + 1
            /\ x.status = IF r.attempts + 1 >= MaxAttempts THEN "LOCKED" ELSE "PENDING"
        BY <3>1 DEF AfterWrong, Marked
      <3>4. /\ r.attempts + 1 <= MaxAttempts
            /\ ~(r.attempts + 1 >= MaxAttempts) => r.attempts + 1 < MaxAttempts
            /\ compared[c] = (r.attempts + 1) + undone[c]
        BY <2>4, <2>5, <2>10, VerificationAssumption
      <3>5. /\ x.attempts <= MaxAttempts /\ compared[c] = x.attempts + undone[c]
            /\ x.status = "PENDING" => x.attempts < MaxAttempts
            /\ x.status \in {"LOCKED", "PENDING"}
        BY <3>3, <3>4
      <3>6. undone' = [undone EXCEPT ![c] = undone[c]] /\ opened' = [opened EXCEPT ![c] = 0]
        BY <2>7, <3>2
      <3>e. otp' = [otp EXCEPT ![c] = x] /\ compared' = compared /\ Goes(w, "idle", NoJob)
        BY <3>2
      <3>7. Leaves(x, undone[c], 0)
        BY <3>5, <3>6, <3>e
      <3> HIDE DEF Leaves
      <3> QED
        BY <2>4, <2>6, <3>7
    <2>11. CASE ConfirmCommits(w) /\ pc[w] = "right"
      <3>1. PICK x : x = Marked(r, "VERIFIED", r.attempts + 1)
        OBVIOUS
      <3>2. /\ otp' = [otp EXCEPT ![c] = x] /\ UNCHANGED <<undone, compared>>
            /\ opened' = [opened EXCEPT ![c] = 1]
            /\ Goes(w, "idle", NoJob)
        BY <2>1, <2>2, <2>3, <2>4, <2>11, <3>1 DEF ConfirmCommits, Ends
      <3>3. x.attempts = r.attempts + 1 /\ x.status = "VERIFIED"
        BY <3>1 DEF Marked
      <3>4. x.attempts <= MaxAttempts /\ compared[c] = x.attempts + undone[c]
        BY <2>4, <2>5, <2>11, <3>3, VerificationAssumption
      <3>5. undone' = [undone EXCEPT ![c] = undone[c]]
        BY <2>7, <3>2
      <3>7. Leaves(x, undone[c], 1)
        BY <3>2, <3>3, <3>4, <3>5
      <3> HIDE DEF Leaves
      <3> QED
        BY <2>4, <2>6, <3>7
    <2>12. CASE RolledBack(w) /\ pc[w] \in {"wrong", "right"}
      <3>1. /\ undone' = [undone EXCEPT ![c] = undone[c] + 1] /\ Goes(w, "idle", NoJob)
            /\ UNCHANGED <<otp, compared, opened>>
        BY <2>1, <2>12 DEF RolledBack, Ends
      <3>2. /\ compared[c] = r.attempts + (undone[c] + 1) /\ r.attempts <= MaxAttempts
            /\ undone[c] + 1 \in Nat
        BY <2>4, <2>5, <2>12, VerificationAssumption
      <3>3. otp' = [otp EXCEPT ![c] = r] /\ opened' = [opened EXCEPT ![c] = 0]
        BY <2>7, <3>1
      <3>e. /\ undone' = [undone EXCEPT ![c] = undone[c] + 1] /\ compared' = compared
            /\ Goes(w, "idle", NoJob)
        BY <3>1
      <3>7. Leaves(r, undone[c] + 1, 0)
        BY <2>4, <3>2, <3>3, <3>e
      <3> HIDE DEF Leaves
      <3> QED
        BY <2>6, <3>2, <3>7
    <2>13. ConfirmCommits(w) => pc[w] \in {"wrong", "right"}
      BY DEF ConfirmCommits
    <2> QED
      BY <1>4, <2>8, <2>9, <2>10, <2>11, <2>12, <2>13
  <1>5. ASSUME NEW w \in Workers, NEW o \in Orders, ExchangeLocks(w, o) \/ SendCounts(w, o)
        PROVE  ConfirmInv'
    <2>1. CASE ExchangeLocks(w, o)
      BY <1>1, <2>1 DEF ExchangeLocks
    <2>2. CASE SendCounts(w, o)
      BY <1>1, <2>2 DEF SendCounts
    <2> QED
      BY <1>5, <2>1, <2>2
  <1>6. ASSUME NEW w \in Workers,
               \/ ExchangeCommits(w) \/ SendDelivers(w)
               \/ RolledBack(w) /\ pc[w] \notin {"wrong", "right"}
        PROVE  ConfirmInv'
    <2>1. CASE ExchangeCommits(w)
      BY <1>1, <2>1 DEF ExchangeCommits, Ends
    <2>2. CASE SendDelivers(w)
      <3>1. \E j : Goes(w, "sent", j)
        BY <2>2 DEF SendDelivers
      <3> QED
        BY <1>1, <2>2, <3>1 DEF SendDelivers
    <2>3. CASE RolledBack(w) /\ pc[w] \notin {"wrong", "right"}
      BY <1>1, <2>3 DEF RolledBack, Ends
    <2> QED
      BY <1>6, <2>1, <2>2, <2>3
  <1>7. CASE Tick \/ UNCHANGED vars
    BY <1>7 DEF Tick, vars, OtpsLocked, Confirming, AttemptsCounted, Comparing, OneSession
  <1> QED
    BY <1>2, <1>3, <1>4, <1>5, <1>6, <1>7 DEF Next, Step

(* Each comparison is an attempt counted, one undone, or the one under way *)
(* of a challenge with an attempt left.                                    *)
LEMMA AttemptsKept ==
  ASSUME TypeOK, OtpsLocked, AttemptsCounted
  PROVE  AttemptsBounded
  <1> SUFFICES ASSUME NEW c \in Challenges
               PROVE  compared[c] <= MaxAttempts + undone[c]
    BY DEF AttemptsBounded
  <1>1. /\ otp[c].attempts \in Nat /\ undone[c] \in Nat /\ compared[c] \in Nat
        /\ otp[c].attempts <= MaxAttempts
    BY DEF TypeOK, OtpChallenge, AttemptsCounted
  <1>2. CASE Comparing(c)
    <2>1. otp[c].status = "PENDING"
      BY <1>2 DEF Comparing, OtpsLocked, Confirming
    <2>2. otp[c].attempts < MaxAttempts /\ compared[c] = otp[c].attempts + undone[c] + 1
      BY <1>2, <2>1 DEF AttemptsCounted
    <2> QED
      BY <1>1, <2>2, VerificationAssumption
  <1>3. CASE ~Comparing(c)
    <2>1. compared[c] = otp[c].attempts + undone[c]
      BY <1>3 DEF AttemptsCounted
    <2> QED
      BY <1>1, <2>1, VerificationAssumption
  <1> QED
    BY <1>2, <1>3

(***************************************************************************)
(* Codes: whoever counts adds one to the requests under way, and each of   *)
(* them adds one row at most.                                              *)
(***************************************************************************)
LEMMA Finite ==
  ASSUME NEW o \in Orders
  PROVE  /\ IsFiniteSet(Recent(o)) /\ IsFiniteSet(Asking(o))
         /\ Cardinality(Recent(o)) \in Nat /\ Cardinality(Asking(o)) \in Nat
         /\ Cardinality(Workers) \in Nat
         /\ Cardinality(Asking(o)) <= Cardinality(Workers)
  <1>1. Recent(o) \subseteq Challenges /\ Asking(o) \subseteq Workers
    BY DEF Recent, Asking
  <1>2. IsFiniteSet(Recent(o)) /\ IsFiniteSet(Asking(o))
    BY <1>1, FS_Subset, VerificationAssumption
  <1>3. Cardinality(Asking(o)) <= Cardinality(Workers)
    BY <1>1, FS_Subset, VerificationAssumption
  <1> QED
    BY <1>2, <1>3, FS_CardinalityType, VerificationAssumption

LEMMA FewerAhead ==
  ASSUME SendsAhead, NEW o \in Orders,
         Recent(o)' \subseteq Recent(o), Asking(o)' \subseteq Asking(o)
  PROVE  Cardinality(Recent(o)') + Cardinality(Asking(o)') <= MaxSends + Cardinality(Workers) - 1
  <1>1. /\ IsFiniteSet(Recent(o)') /\ IsFiniteSet(Asking(o)')
        /\ Cardinality(Recent(o)') <= Cardinality(Recent(o))
        /\ Cardinality(Asking(o)') <= Cardinality(Asking(o))
    BY Finite, FS_Subset
  <1>2. Cardinality(Recent(o)') \in Nat /\ Cardinality(Asking(o)') \in Nat
    BY <1>1, FS_CardinalityType
  <1>3. Cardinality(Recent(o)) + Cardinality(Asking(o)) <= MaxSends + Cardinality(Workers) - 1
    BY DEF SendsAhead
  <1> QED
    BY <1>1, <1>2, <1>3, Finite, VerificationAssumption

(* Whatever neither counts nor adds a row only lowers the sum. *)
LEMMA QuietAhead ==
  ASSUME TypeOK, SendsAhead,
         \A o \in Orders : Recent(o)' \subseteq Recent(o) /\ Asking(o)' \subseteq Asking(o)
  PROVE  SendsAhead'
  BY FewerAhead DEF SendsAhead

LEMMA CountsAhead ==
  ASSUME TypeOK, SendsAhead, NEW w \in Workers, NEW o \in Orders, SendCounts(w, o)
  PROVE  SendsAhead'
  <1>1. Goes(w, "send", Asks(o, now)) /\ pc[w] = "idle" /\ UNCHANGED <<now, otp>>
    BY DEF SendCounts
  <1>2. \A q \in Orders : Recent(q)' = Recent(q)
    BY <1>1 DEF Recent
  <1>3. Asks(o, now).order = o
    BY DEF Asks
  <1>4. ASSUME NEW q \in Orders, q # o PROVE Asking(q)' \subseteq Asking(q)
    BY <1>1, <1>3, <1>4, GoesFrame DEF Asking
  <1>5. ASSUME NEW q \in Orders, q # o
        PROVE  Cardinality(Recent(q)') + Cardinality(Asking(q)') <= MaxSends + Cardinality(Workers) - 1
    BY <1>2, <1>4, <1>5, FewerAhead
  <1>6. Cardinality(Recent(o)') + Cardinality(Asking(o)') <= MaxSends + Cardinality(Workers) - 1
    <2>1. Cardinality(Recent(o)) < MaxSends
      BY DEF SendCounts, MaySend
    <2>2. Asking(o)' \subseteq Workers
      BY DEF Asking
    <2>3. /\ Cardinality(Asking(o)') <= Cardinality(Workers)
          /\ Cardinality(Asking(o)') \in Nat
      BY <2>2, FS_Subset, FS_CardinalityType, VerificationAssumption
    <2> QED
      BY <1>2, <2>1, <2>3, Finite, VerificationAssumption
  <1> QED
    BY <1>5, <1>6 DEF SendsAhead

LEMMA CommitsAhead ==
  ASSUME TypeOK, SendsTracked, SendsAhead, NEW w \in Workers, SendCommits(w)
  PROVE  SendsAhead'
  <1>0. PICK row : row = NewRow(job[w])
    OBVIOUS
  <1>1. row.order = job[w].order
    BY <1>0 DEF NewRow
  <1>2. PICK c \in Challenges : otp' = [otp EXCEPT ![c] = row]
    BY <1>0 DEF SendCommits, SendsTracked
  <1>3. \A d \in Challenges : otp'[d] = IF d = c THEN row ELSE otp[d]
    BY <1>2 DEF TypeOK
  <1>4. Goes(w, "idle", NoJob) /\ pc[w] = "sent" /\ now' = now
    BY DEF SendCommits, Ends
  <1>5. \A q \in Orders : Asking(q)' \subseteq Asking(q) \ {w}
    BY <1>4, GoesFrame DEF Asking
  <1>6. \A q \in Orders : Recent(q)' \subseteq Recent(q) \cup {c}
    BY <1>3, <1>4 DEF Recent
  <1>7. ASSUME NEW q \in Orders, q # job[w].order
        PROVE  Cardinality(Recent(q)') + Cardinality(Asking(q)') <= MaxSends + Cardinality(Workers) - 1
    <2>1. Recent(q)' \subseteq Recent(q)
      BY <1>1, <1>3, <1>4, <1>7 DEF Recent
    <2> QED
      BY <1>5, <2>1, FewerAhead
  <1>8. ASSUME NEW o \in Orders, o = job[w].order
        PROVE  Cardinality(Recent(o)') + Cardinality(Asking(o)') <= MaxSends + Cardinality(Workers) - 1
    <2>1. w \in Asking(o)
      BY <1>4, <1>8 DEF Asking
    <2>2. /\ IsFiniteSet(Asking(o) \ {w})
          /\ Cardinality(Asking(o) \ {w}) = Cardinality(Asking(o)) - 1
      BY <1>8, <2>1, Finite, FS_RemoveElement
    <2>3. Cardinality(Asking(o)') <= Cardinality(Asking(o)) - 1
      BY <1>5, <1>8, <2>2, FS_Subset
    <2>4. /\ IsFiniteSet(Recent(o) \cup {c})
          /\ Cardinality(Recent(o) \cup {c}) <= Cardinality(Recent(o)) + 1
      <3>1. IsFiniteSet(Recent(o)) /\ Cardinality(Recent(o)) \in Nat
        BY <1>8, Finite
      <3>2. CASE c \in Recent(o)
        <4>1. Recent(o) \cup {c} = Recent(o)
          BY <3>2
        <4>2. IsFiniteSet(Recent(o) \cup {c})
          BY <3>1, <4>1, Zenon
        <4>3. Cardinality(Recent(o) \cup {c}) = Cardinality(Recent(o))
          BY <4>1, Zenon
        <4> QED
          BY <3>1, <4>2, <4>3
      <3>3. CASE c \notin Recent(o)
        <4>1. /\ IsFiniteSet(Recent(o) \cup {c})
              /\ Cardinality(Recent(o) \cup {c}) = Cardinality(Recent(o)) + 1
          BY <3>1, <3>3, FS_AddElement
        <4> QED
          BY <3>1, <4>1
      <3> QED
        BY <3>2, <3>3
    <2>5. Cardinality(Recent(o)') <= Cardinality(Recent(o) \cup {c})
      BY <1>6, <1>8, <2>4, FS_Subset
    <2>6. Cardinality(Recent(o)') \in Nat /\ Cardinality(Asking(o)') \in Nat
      <3>1. IsFiniteSet(Recent(o)') /\ IsFiniteSet(Asking(o)')
        BY <1>5, <1>6, <1>8, <2>2, <2>4, FS_Subset
      <3> QED
        BY <3>1, FS_CardinalityType
    <2>7. Cardinality(Recent(o) \cup {c}) \in Nat
      BY <2>4, FS_CardinalityType
    <2>8. Cardinality(Recent(o)) + Cardinality(Asking(o)) <= MaxSends + Cardinality(Workers) - 1
      BY <1>8 DEF SendsAhead
    <2> QED
      BY <1>8, <2>3, <2>4, <2>5, <2>6, <2>7, <2>8, Finite, VerificationAssumption
  <1> QED
    BY <1>7, <1>8 DEF SendsAhead

LEMMA NextSends ==
  ASSUME TypeOK, OtpsLocked, SendsTracked, SendsAhead, [Next]_vars
  PROVE  SendsAhead'
  <1>1. ASSUME NEW w \in Workers, NEW to \in {"idle", "exchange", "confirm", "wrong", "right"}, NEW j,
               Goes(w, to, j), UNCHANGED <<now, otp>>
        PROVE  SendsAhead'
    <2>1. \A o \in Orders : Recent(o)' \subseteq Recent(o)
      BY <1>1 DEF Recent
    <2>2. \A o \in Orders : Asking(o)' \subseteq Asking(o)
      BY <1>1, GoesFrame DEF Asking
    <2> QED
      BY <2>1, <2>2, QuietAhead
  <1>2. ASSUME NEW w \in Workers, SendDelivers(w) PROVE SendsAhead'
    <2>1. PICK c \in Challenges : Goes(w, "sent", Sends(job[w].order, c, job[w].at, now))
      BY <1>2 DEF SendDelivers
    <2>j. PICK j : j = Sends(job[w].order, c, job[w].at, now)
      OBVIOUS
    <2>2. j.order = job[w].order /\ pc[w] = "send" /\ UNCHANGED <<now, otp>>
      BY <1>2, <2>j DEF SendDelivers, Sends
    <2>3. \A o \in Orders : Recent(o)' \subseteq Recent(o)
      BY <2>2 DEF Recent
    <2>4. \A o \in Orders : Asking(o)' \subseteq Asking(o)
      BY <2>1, <2>j, <2>2, GoesFrame DEF Asking
    <2> QED
      BY <2>3, <2>4, QuietAhead
  <1>3. ASSUME NEW w \in Workers, ConfirmRefuses(w) \/ ConfirmCommits(w) PROVE SendsAhead'
    <2> DEFINE c == job[w].otp
               r == job[w].row
    <2>1. c \in Challenges /\ r = otp[c] /\ r.status = "PENDING"
      BY <1>3 DEF ConfirmRefuses, ConfirmCommits, OtpsLocked, Confirming
    <2>2. Goes(w, "idle", NoJob) /\ now' = now
      BY <1>3 DEF ConfirmRefuses, ConfirmCommits, Ends
    <2>3. \E status, n : otp' = [otp EXCEPT ![c] = Marked(r, status, n)]
      <3> HIDE DEF c, r
      <3> QED
        BY <1>3 DEF ConfirmRefuses, ConfirmCommits, AfterWrong, c, r
    <2>4. PICK row : otp' = [otp EXCEPT ![c] = row] /\ row.order = r.order /\ row.created = r.created
      BY <2>3 DEF Marked
    <2>5. \A d \in Challenges : otp'[d] = IF d = c THEN row ELSE otp[d]
      BY <2>4 DEF TypeOK
    <2> HIDE DEF c, r
    <2>6. \A o \in Orders : Recent(o)' \subseteq Recent(o)
      BY <2>1, <2>2, <2>4, <2>5 DEF Recent
    <2>7. \A o \in Orders : Asking(o)' \subseteq Asking(o)
      BY <2>2, GoesFrame DEF Asking
    <2> QED
      BY <2>6, <2>7, QuietAhead
  <1>4. CASE Tick
    <2>1. /\ now' = now + 1 /\ UNCHANGED <<otp, pc, job>>
          /\ now \in Nat /\ Window \in Nat
      BY <1>4, VerificationAssumption DEF Tick, TypeOK
    <2>2. \A c \in Challenges : otp[c].created \in Nat
      BY DEF TypeOK, OtpChallenge
    <2>3. \A o \in Orders : Recent(o)' \subseteq Recent(o)
      BY <2>1, <2>2 DEF Recent
    <2>4. \A o \in Orders : Asking(o)' \subseteq Asking(o)
      BY <2>1 DEF Asking
    <2> QED
      BY <2>3, <2>4, QuietAhead
  <1>5. CASE UNCHANGED vars
    BY <1>5, QuietAhead DEF vars, Recent, Asking
  <1>6. ASSUME NEW w \in Workers, NEW o \in Orders, ExchangeLocks(w, o) PROVE SendsAhead'
    BY <1>1, <1>6 DEF ExchangeLocks
  <1>7. ASSUME NEW w \in Workers, ExchangeCommits(w) PROVE SendsAhead'
    BY <1>1, <1>7 DEF ExchangeCommits, Ends
  <1>8. ASSUME NEW w \in Workers, NEW c \in Challenges, ConfirmLocks(w, c) PROVE SendsAhead'
    BY <1>1, <1>8 DEF ConfirmLocks
  <1>9. ASSUME NEW w \in Workers, RolledBack(w) PROVE SendsAhead'
    BY <1>1, <1>9 DEF RolledBack, Ends
  <1>10. ASSUME NEW w \in Workers, NEW o \in Orders, SendCounts(w, o) PROVE SendsAhead'
    BY <1>10, CountsAhead
  <1>11. ASSUME NEW w \in Workers, SendCommits(w) PROVE SendsAhead'
    BY <1>11, CommitsAhead
  <1>12. ASSUME NEW w \in Workers, ConfirmCompares(w) PROVE SendsAhead'
    BY <1>1, <1>12 DEF ConfirmCompares
  <1> QED
    BY <1>2, <1>3, <1>4, <1>5, <1>6, <1>7, <1>8, <1>9, <1>10, <1>11, <1>12 DEF Next, Step

(* What happens to a challenge from the delivery of its code on. *)
Tracked(c) ==
  /\ otp[c].status # "none" => /\ sent[c] = [order |-> otp[c].order, at |-> otp[c].created]
                               /\ c \notin lost
  /\ otp[c].status = "none" => \/ sent[c] = NotSent
                               \/ c \in lost
                               \/ \E w \in Workers : pc[w] = "sent" /\ job[w].otp = c
  /\ sent[c] = NotSent => otp[c].status = "none" /\ c \notin lost

OnItsWay(w) ==
  /\ pc[w] \in {"send", "sent"} => job[w].order \in Orders
  /\ pc[w] = "sent" =>
       /\ job[w].otp \in Challenges \ lost
       /\ sent[job[w].otp] = [order |-> job[w].order, at |-> job[w].created]
       /\ otp[job[w].otp].status = "none"
       /\ \A v \in Workers : pc[v] = "sent" /\ job[v].otp = job[w].otp => v = w

LEMMA TrackedByParts ==
  SendsTracked <=> (\A c \in Challenges : Tracked(c)) /\ (\A w \in Workers : OnItsWay(w))
  BY DEF SendsTracked, Tracked, OnItsWay

LEMMA TrackedByPartsNext ==
  (\A c \in Challenges : Tracked(c)') /\ (\A w \in Workers : OnItsWay(w)') => SendsTracked'
  BY DEF SendsTracked, Tracked, OnItsWay

LEMMA SentIsNot ==
  ASSUME NEW o \in Orders, NEW t
  PROVE  [order |-> o, at |-> t] # NotSent
  <1>1. [order |-> o, at |-> t].order = o /\ NotSent.order = NoOrder
    BY DEF NotSent
  <1> QED
    BY <1>1, VerificationAssumption

LEMMA NextTracked ==
  ASSUME TypeOK, OtpsLocked, SendsTracked, [Next]_vars
  PROVE  SendsTracked'
  <1> USE DEF history, sends, confirms
  <1>0. (\A c \in Challenges : Tracked(c)) /\ (\A w \in Workers : OnItsWay(w))
    BY TrackedByParts
  (* Requests that have sent nothing. *)
  <1>1. ASSUME NEW w \in Workers, NEW to, NEW j, Goes(w, to, j),
               pc[w] # "sent", to # "sent", to = "send" => j.order \in Orders,
               UNCHANGED <<otp, sent, lost>>
        PROVE  SendsTracked'
    <2>1. ASSUME NEW v \in Workers
          PROVE  /\ (pc'[v] = "sent") <=> (pc[v] = "sent")
                 /\ pc[v] = "sent" => job'[v] = job[v]
                 /\ pc'[v] = "send" => (pc[v] = "send" /\ job'[v] = job[v]) \/ job'[v].order \in Orders
      BY <1>1, GoesFrame
    <2>2. \A c \in Challenges : Tracked(c)'
      BY <1>0, <1>1, <2>1 DEF Tracked
    <2>3. \A v \in Workers : OnItsWay(v)'
      BY <1>0, <1>1, <2>1 DEF OnItsWay
    <2> QED
      BY <2>2, <2>3, TrackedByPartsNext
  <1>2. ASSUME NEW w \in Workers, SendDelivers(w) PROVE SendsTracked'
    <2>1. PICK c \in Challenges :
            /\ sent[c] = NotSent
            /\ sent' = [sent EXCEPT ![c] = [order |-> job[w].order, at |-> now]]
            /\ Goes(w, "sent", Sends(job[w].order, c, job[w].at, now))
      BY <1>2 DEF SendDelivers
    <2>2. UNCHANGED <<otp, lost>> /\ pc[w] = "send" /\ job[w].order \in Orders
      BY <1>0, <1>2 DEF SendDelivers, OnItsWay
    <2>3. /\ pc'[w] = "sent" /\ job'[w].otp = c
          /\ job'[w].order = job[w].order /\ job'[w].created = now
          /\ \A v \in Workers : v # w => pc'[v] = pc[v] /\ job'[v] = job[v]
      BY <2>1, GoesFrame DEF Sends
    <2>4. /\ sent'[c] = [order |-> job[w].order, at |-> now]
          /\ \A d \in Challenges : d # c => sent'[d] = sent[d]
      BY <2>1 DEF TypeOK
    <2>5. sent'[c] # NotSent
      BY <2>2, <2>4, SentIsNot
    <2>6. otp[c].status = "none" /\ c \notin lost
      BY <1>0, <2>1 DEF Tracked
    <2>7. \A v \in Workers : pc[v] = "sent" => v # w /\ job[v].otp # c
      <3> SUFFICES ASSUME NEW v \in Workers, pc[v] = "sent" PROVE v # w /\ job[v].otp # c
        OBVIOUS
      <3>1. /\ job[v].order \in Orders
            /\ sent[job[v].otp] = [order |-> job[v].order, at |-> job[v].created]
        BY <1>0 DEF OnItsWay
      <3>2. sent[job[v].otp] # NotSent
        BY <3>1, SentIsNot
      <3> QED
        BY <2>1, <2>2, <3>2
    <2>8. ASSUME NEW d \in Challenges PROVE Tracked(d)'
      <3>1. CASE d = c
        BY <2>2, <2>3, <2>5, <2>6, <3>1 DEF Tracked
      <3>2. CASE d # c
        <4>1. Tracked(d) /\ sent'[d] = sent[d]
          BY <1>0, <2>4, <3>2
        <4>2. \A v \in Workers : pc[v] = "sent" => pc'[v] = "sent" /\ job'[v] = job[v]
          BY <2>3, <2>7
        <4> QED
          BY <2>2, <4>1, <4>2 DEF Tracked
      <3> QED
        BY <3>1, <3>2
    <2>9. ASSUME NEW v \in Workers PROVE OnItsWay(v)'
      <3>1. CASE v = w
        <4>1. \A u \in Workers : pc'[u] = "sent" /\ job'[u].otp = c => u = w
          BY <2>3, <2>7
        <4> QED
          BY <2>2, <2>3, <2>4, <2>6, <3>1, <4>1 DEF OnItsWay
      <3>2. CASE v # w
        <4>1. OnItsWay(v) /\ pc'[v] = pc[v] /\ job'[v] = job[v]
          BY <1>0, <2>3, <3>2
        <4>2. pc[v] = "sent" => sent'[job[v].otp] = sent[job[v].otp] /\ job[v].otp # c
          BY <2>4, <2>7, <4>1 DEF OnItsWay
        <4>3. \A u \in Workers : pc'[u] = "sent" /\ job'[u].otp # c => pc[u] = "sent" /\ job'[u] = job[u]
          BY <2>3
        <4> QED
          BY <2>2, <4>1, <4>2, <4>3 DEF OnItsWay
      <3> QED
        BY <3>1, <3>2
    <2> QED
      BY <2>8, <2>9, TrackedByPartsNext
  (* The request of a code that was sent ends: committed or lost. *)
  <1>3. ASSUME NEW w \in Workers, pc[w] = "sent", Goes(w, "idle", NoJob), sent' = sent,
               NEW c \in Challenges, c = job[w].otp,
               \/ otp' = [otp EXCEPT ![c] = NewRow(job[w])] /\ lost' = lost
               \/ otp' = otp /\ lost' = lost \cup {c}
        PROVE  SendsTracked'
    <2>1. /\ sent[c] = [order |-> job[w].order, at |-> job[w].created] /\ c \notin lost
          /\ otp[c].status = "none" /\ job[w].order \in Orders
          /\ \A v \in Workers : pc[v] = "sent" /\ job[v].otp = c => v = w
      BY <1>0, <1>3 DEF OnItsWay
    <2>2. /\ pc'[w] = "idle"
          /\ \A v \in Workers : v # w => pc'[v] = pc[v] /\ job'[v] = job[v]
      BY <1>3, GoesFrame
    <2>3. /\ \A d \in Challenges : d # c => otp'[d] = otp[d] /\ (d \in lost' <=> d \in lost)
          /\ \/ otp'[c] = NewRow(job[w]) /\ c \notin lost'
             \/ otp'[c] = otp[c] /\ c \in lost'
      BY <1>3, <2>1 DEF TypeOK
    <2>4. sent[c] # NotSent
      BY <2>1, SentIsNot
    <2>5. ASSUME NEW d \in Challenges PROVE Tracked(d)'
      <3>1. CASE d = c
        BY <1>3, <2>1, <2>3, <2>4, <3>1 DEF Tracked, NewRow
      <3>2. CASE d # c
        <4>1. Tracked(d) /\ otp'[d] = otp[d] /\ (d \in lost' <=> d \in lost)
          BY <1>0, <2>3, <3>2
        <4>2. \A v \in Workers : pc[v] = "sent" /\ job[v].otp = d => pc'[v] = "sent" /\ job'[v] = job[v]
          BY <1>3, <2>2, <3>2
        <4> QED
          BY <1>3, <4>1, <4>2 DEF Tracked
      <3> QED
        BY <3>1, <3>2
    <2>6. ASSUME NEW v \in Workers PROVE OnItsWay(v)'
      <3>1. CASE v = w
        BY <2>2, <3>1 DEF OnItsWay
      <3>2. CASE v # w
        <4>1. OnItsWay(v) /\ pc'[v] = pc[v] /\ job'[v] = job[v]
          BY <1>0, <2>2, <3>2
        <4>2. pc[v] = "sent" => /\ job[v].otp # c /\ job[v].otp \in Challenges
                               /\ otp'[job[v].otp] = otp[job[v].otp]
                               /\ job[v].otp \notin lost'
          BY <2>1, <2>3, <3>2, <4>1 DEF OnItsWay
        <4>3. \A u \in Workers : pc'[u] = "sent" => pc[u] = "sent" /\ job'[u] = job[u]
          BY <2>2
        <4> QED
          BY <1>3, <4>1, <4>2, <4>3 DEF OnItsWay
      <3> QED
        BY <3>1, <3>2
    <2> QED
      BY <2>5, <2>6, TrackedByPartsNext
  <1>4. ASSUME NEW w \in Workers, SendCommits(w) PROVE SendsTracked'
    <2>1. pc[w] = "sent" /\ job[w].otp \in Challenges
      BY <1>0, <1>4 DEF SendCommits, OnItsWay
    <2> QED
      BY <1>3, <1>4, <2>1 DEF SendCommits, Ends
  <1>5. ASSUME NEW w \in Workers, RolledBack(w) PROVE SendsTracked'
    <2>1. CASE pc[w] = "sent"
      <3>1. job[w].otp \in Challenges
        BY <1>0, <2>1 DEF OnItsWay
      <3> QED
        BY <1>3, <1>5, <2>1, <3>1 DEF RolledBack, Ends
    <2>2. CASE pc[w] # "sent"
      BY <1>1, <1>5, <2>2 DEF RolledBack, Ends
    <2> QED
      BY <2>1, <2>2
  (* A confirmation keeps order and time of the row it writes. *)
  <1>6. ASSUME NEW w \in Workers, ConfirmRefuses(w) \/ ConfirmCommits(w) PROVE SendsTracked'
    <2>1. PICK c \in Challenges : c = job[w].otp
      BY <1>6 DEF ConfirmRefuses, ConfirmCommits, OtpsLocked, Confirming
    <2>2. job[w].row = otp[c] /\ otp[c].status = "PENDING"
      BY <1>6, <2>1 DEF ConfirmRefuses, ConfirmCommits, OtpsLocked, Confirming
    <2>3. \E status \in {"PENDING"} \cup Ended : \E n \in Nat : otp' = [otp EXCEPT ![c] = Marked(otp[c], status, n)]
      <3>1. otp[c].attempts \in Nat /\ otp[c].attempts + 1 \in Nat
        BY DEF TypeOK, OtpChallenge
      <3>2. PICK r : r = otp[c]
        OBVIOUS
      <3>3. \/ otp' = [otp EXCEPT ![c] = Marked(r, "EXPIRED", r.attempts)]
            \/ otp' = [otp EXCEPT ![c] = Marked(r, "LOCKED", r.attempts)]
            \/ otp' = [otp EXCEPT ![c] = Marked(r, "LOCKED", r.attempts + 1)]
            \/ otp' = [otp EXCEPT ![c] = Marked(r, "PENDING", r.attempts + 1)]
            \/ otp' = [otp EXCEPT ![c] = Marked(r, "VERIFIED", r.attempts + 1)]
        BY <1>6, <2>1, <2>2, <3>2 DEF ConfirmRefuses, ConfirmCommits, AfterWrong
      <3> QED
        BY <3>1, <3>2, <3>3 DEF Ended
    <2>s. PICK status \in {"PENDING"} \cup Ended, n \in Nat : otp' = [otp EXCEPT ![c] = Marked(otp[c], status, n)]
      BY <2>3
    <2>x. PICK x : x = Marked(otp[c], status, n)
      OBVIOUS
    <2>4. /\ otp' = [otp EXCEPT ![c] = x] /\ x.status # "none"
          /\ x.order = otp[c].order /\ x.created = otp[c].created
      BY <2>s, <2>x DEF Marked, Ended
    <2>5. \A d \in Challenges : /\ (otp'[d].status = "none") <=> (otp[d].status = "none")
                                /\ otp'[d].order = otp[d].order /\ otp'[d].created = otp[d].created
      BY <2>2, <2>4 DEF TypeOK
    <2>6. /\ UNCHANGED <<sent, lost>>
          /\ \A v \in Workers : /\ pc'[v] \in {"send", "sent"} => pc'[v] = pc[v] /\ job'[v] = job[v]
                                /\ pc[v] = "sent" => pc'[v] = "sent" /\ job'[v] = job[v]
      BY <1>6, GoesFrame DEF ConfirmRefuses, ConfirmCommits, Ends
    <2>7. \A d \in Challenges : Tracked(d)'
      BY <1>0, <2>5, <2>6 DEF Tracked
    <2>8. \A v \in Workers : OnItsWay(v)'
      BY <1>0, <2>5, <2>6 DEF OnItsWay
    <2> QED
      BY <2>7, <2>8, TrackedByPartsNext
  <1>7. ASSUME NEW w \in Workers, NEW o \in Orders, ExchangeLocks(w, o) PROVE SendsTracked'
    BY <1>1, <1>7 DEF ExchangeLocks
  <1>8. ASSUME NEW w \in Workers, NEW o \in Orders, SendCounts(w, o) PROVE SendsTracked'
    <2>1. Asks(o, now).order = o
      BY DEF Asks
    <2> QED
      BY <1>1, <1>8, <2>1 DEF SendCounts
  <1>9. ASSUME NEW w \in Workers, NEW c \in Challenges, ConfirmLocks(w, c) PROVE SendsTracked'
    BY <1>1, <1>9 DEF ConfirmLocks
  <1>10. ASSUME NEW w \in Workers, ExchangeCommits(w) PROVE SendsTracked'
    BY <1>1, <1>10 DEF ExchangeCommits, Ends
  <1>11. ASSUME NEW w \in Workers, ConfirmCompares(w) PROVE SendsTracked'
    BY <1>1, <1>11 DEF ConfirmCompares
  <1>12. CASE Tick \/ UNCHANGED vars
    <2>1. UNCHANGED <<otp, sent, lost, pc, job>>
      BY <1>12 DEF Tick, vars
    <2> QED
      BY <2>1 DEF SendsTracked
  <1> QED
    BY <1>2, <1>4, <1>5, <1>6, <1>7, <1>8, <1>9, <1>10, <1>11, <1>12 DEF Next, Step

(* A code delivered and not lost is that of a row counted, or of a request *)
(* on its way to the commit.                                               *)
LEMMA DeliveredCounted ==
  ASSUME TypeOK, SendsTracked, NEW o \in Orders
  PROVE  Cardinality(Delivered(o) \ lost) <= Cardinality(Recent(o)) + Cardinality(Asking(o))
  <1> DEFINE S == {w \in Workers : pc[w] = "sent" /\ job[w].order = o}
             T == {job[w].otp : w \in S}
             f == [w \in S |-> job[w].otp]
  <1>1. Delivered(o) \ lost \subseteq Recent(o) \cup T
    <2> SUFFICES ASSUME NEW c \in Challenges, sent[c].order = o, sent[c].at >= now - Window, c \notin lost
                 PROVE  c \in Recent(o) \cup T
      BY DEF Delivered
    <2>1. CASE otp[c].status # "none"
      <3>1. sent[c] = [order |-> otp[c].order, at |-> otp[c].created]
        BY <2>1 DEF SendsTracked
      <3>2. otp[c].order = o /\ otp[c].created >= now - Window
        BY <3>1
      <3> QED
        BY <2>1, <3>2 DEF Recent
    <2>2. CASE otp[c].status = "none"
      <3>1. sent[c] # NotSent
        BY VerificationAssumption DEF NotSent
      <3>2. PICK w \in Workers : pc[w] = "sent" /\ job[w].otp = c
        BY <2>2, <3>1 DEF SendsTracked
      <3>3. sent[c] = [order |-> job[w].order, at |-> job[w].created]
        BY <3>2 DEF SendsTracked
      <3>4. job[w].order = o
        BY <3>3
      <3> QED
        BY <3>2, <3>4
    <2> QED
      BY <2>1, <2>2
  <1>2. S \subseteq Asking(o)
    BY DEF Asking
  <1>3. /\ IsFiniteSet(S) /\ Cardinality(S) \in Nat
        /\ Cardinality(S) <= Cardinality(Asking(o))
    <2>1. IsFiniteSet(Asking(o))
      BY Finite
    <2> HIDE DEF S
    <2> QED
      BY <1>2, <2>1, FS_Subset, FS_CardinalityType
  <1>4. f \in Surjection(S, T)
    BY DEF Surjection
  <1>5. IsFiniteSet(T) /\ Cardinality(T) <= Cardinality(S) /\ Cardinality(T) \in Nat
    <2> HIDE DEF S, T, f
    <2> QED
      BY <1>3, <1>4, FS_Surjection, FS_CardinalityType
  <1> HIDE DEF S, T, f
  <1>6. /\ IsFiniteSet(Recent(o)) /\ Cardinality(Recent(o)) \in Nat
        /\ Cardinality(Asking(o)) \in Nat
    BY Finite
  <1>7. /\ IsFiniteSet(Recent(o) \cup T)
        /\ Cardinality(Recent(o) \cup T) <= Cardinality(Recent(o)) + Cardinality(T)
    <2>1. /\ IsFiniteSet(Recent(o) \cup T)
          /\ Cardinality(Recent(o) \cup T)
               = Cardinality(Recent(o)) + Cardinality(T) - Cardinality(Recent(o) \cap T)
      BY <1>5, <1>6, FS_Union
    <2>2. Cardinality(Recent(o) \cap T) \in Nat
      <3>1. IsFiniteSet(Recent(o) \cap T)
        BY <1>6, FS_Subset
      <3> QED
        BY <3>1, FS_CardinalityType
    <2> QED
      BY <1>5, <1>6, <2>1, <2>2
  <1>8. /\ Cardinality(Delivered(o) \ lost) <= Cardinality(Recent(o) \cup T)
        /\ Cardinality(Delivered(o) \ lost) \in Nat
    <2>1. /\ IsFiniteSet(Delivered(o) \ lost)
          /\ Cardinality(Delivered(o) \ lost) <= Cardinality(Recent(o) \cup T)
      BY <1>1, <1>7, FS_Subset
    <2> QED
      BY <2>1, FS_CardinalityType
  <1>9. Cardinality(Recent(o) \cup T) \in Nat
    BY <1>7, FS_CardinalityType
  <1> QED
    BY <1>3, <1>5, <1>6, <1>7, <1>8, <1>9

(***************************************************************************)
(* The theorems.                                                           *)
(***************************************************************************)
LEMMA VerificationInvHolds == Spec => []VerificationInv
  <1>1. Init => VerificationInv
    BY InitInv
  <1>2. VerificationInv /\ [Next]_vars => VerificationInv'
    BY NextTypeOK, NextClaims, NextConfirming, NextTracked, NextSends
    DEF VerificationInv, ConfirmInv
  <1> QED
    BY <1>1, <1>2, PTL DEF Spec

(* Every claim, ticket, challenge and request keeps its type.              *)
(* app/routers/public.py.                                                  *)
THEOREM VerificationTypeCorrect == Spec => []TypeOK
  <1>1. VerificationInv => TypeOK
    BY DEF VerificationInv
  <1> QED
    BY <1>1, VerificationInvHolds, PTL

(* However many requests present a claim at once, and however many of them *)
(* fail, one ticket at most is issued for it (exchange_claim).             *)
THEOREM ClaimExchangedOnce == Spec => []TicketOnce
  <1>1. VerificationInv => TicketOnce
    BY DEF VerificationInv
  <1> QED
    BY <1>1, VerificationInvHolds, PTL

(* The unlocked count of send_otp is late by the requests under way and no *)
(* more: with n server threads, at most MaxSends + n - 1 codes reach the   *)
(* phone in any window, beside those of requests rolled back after the     *)
(* delivery.                                                               *)
THEOREM SendLimit == Spec => []SendsBounded
  <1>1. VerificationInv => SendsBounded
    <2> SUFFICES ASSUME TypeOK, SendsTracked, SendsAhead, NEW o \in Orders
                 PROVE  Cardinality(Delivered(o) \ lost) <= MaxSends + Cardinality(Workers) - 1
      BY DEF VerificationInv, SendsBounded
    <2>1. Cardinality(Recent(o)) + Cardinality(Asking(o)) <= MaxSends + Cardinality(Workers) - 1
      BY DEF SendsAhead
    <2>2. Cardinality(Delivered(o) \ lost) <= Cardinality(Recent(o)) + Cardinality(Asking(o))
      BY DeliveredCounted
    <2>3. Cardinality(Delivered(o) \ lost) \in Nat
      <3>1. IsFiniteSet(Delivered(o) \ lost)
        BY FS_Subset, VerificationAssumption DEF Delivered
      <3> QED
        BY <3>1, FS_CardinalityType
    <2> QED
      BY <2>1, <2>2, <2>3, Finite, VerificationAssumption
  <1> QED
    BY <1>1, VerificationInvHolds, PTL

(* No challenge compares more codes than the limit, but for comparisons    *)
(* whose request was rolled back before its commit (confirm_otp).          *)
THEOREM AttemptLimit == Spec => []AttemptsBounded
  <1>1. VerificationInv => AttemptsBounded
    BY AttemptsKept DEF VerificationInv
  <1> QED
    BY <1>1, VerificationInvHolds, PTL

(* A challenge opens one session, and stays VERIFIED (confirm_otp).        *)
THEOREM SessionOpenedOnce == Spec => []OneSession
  <1>1. VerificationInv => OneSession
    BY DEF VerificationInv
  <1> QED
    BY <1>1, VerificationInvHolds, PTL

(* What has ended is never written again, whatever requests had read it    *)
(* (confirm_otp reads the status under the lock).                          *)
THEOREM EndedForGood == Spec => EndedStays
  <1>1. VerificationInv /\ [Next]_vars
          => [\A c \in Challenges : otp[c].status \in Ended => otp'[c] = otp[c]]_vars
    <2> SUFFICES ASSUME TypeOK, OtpsLocked, SendsTracked, [Next]_vars, NEW d \in Challenges,
                        otp[d].status \in Ended
                 PROVE  otp'[d] = otp[d]
      BY DEF VerificationInv
    <2>1. otp[d].status # "none" /\ otp[d].status # "PENDING"
      BY DEF Ended
    <2>2. CASE UNCHANGED otp
      BY <2>2
    <2>3. ASSUME NEW w \in Workers, SendCommits(w) PROVE otp'[d] = otp[d]
      <3>1. otp[job[w].otp].status = "none" /\ otp' = [otp EXCEPT ![job[w].otp] = NewRow(job[w])]
        BY <2>3 DEF SendCommits, SendsTracked
      <3> QED
        BY <2>1, <3>1 DEF TypeOK
    <2>4. ASSUME NEW w \in Workers, ConfirmRefuses(w) \/ ConfirmCommits(w)
          PROVE  otp'[d] = otp[d]
      <3>1. job[w].otp # d
        BY <2>1, <2>4 DEF ConfirmRefuses, ConfirmCommits, OtpsLocked, Confirming
      <3>2. \E row : otp' = [otp EXCEPT ![job[w].otp] = row]
        BY <2>4 DEF ConfirmRefuses, ConfirmCommits
      <3> QED
        BY <3>1, <3>2 DEF TypeOK
    <2> QED
      BY <2>2, <2>3, <2>4
      DEF Next, Step, Tick, vars, ExchangeLocks, ExchangeCommits, SendCounts, SendDelivers,
          ConfirmLocks, ConfirmCompares, RolledBack
  <1> QED
    BY <1>1, VerificationInvHolds, PTL DEF Spec, EndedStays

=============================================================================

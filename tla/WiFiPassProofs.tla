--------------------------- MODULE WiFiPassProofs ---------------------------
(* Proofs about WiFiPass, for any passes, sessions, scans and bounds. *)
EXTENDS WiFiPass, TLAPS

(***************************************************************************)
(* What the row operators return.                                          *)
(***************************************************************************)
LEMMA NoRowType == NoRow \in Row
  BY DEF NoRow, Row, Statuses

LEMMA ExtendedType ==
  ASSUME NEW r \in Row, NEW m \in Nat, NEW t \in Nat
  PROVE  Extended(r, m, t) \in Row /\ Extended(r, m, t).expires >= r.expires
  <1> DEFINE end == Later(r.expires, t)
  <1>1. end \in Int /\ end >= r.expires
    BY DEF Row, Later
  <1> HIDE DEF end
  <1> QED
    BY <1>1 DEF Extended, Row, Statuses, end

LEMMA ReclaimedType ==
  ASSUME NEW r \in Row, NEW m \in Nat, NEW t \in Nat
  PROVE  Reclaimed(r, m, t) \in Row
  <1> DEFINE end == Later(t, r.expires - m)
  <1>1. end \in Int
    BY DEF Row, Later
  <1> QED
    BY <1>1 DEF Reclaimed, Row, Statuses, Terminal

LEMMA OverwrittenType ==
  ASSUME NEW r \in Row, NEW c \in Row
  PROVE  Overwritten(r, c) \in Row
  BY DEF Overwritten, Row, Statuses, Terminal

LEMMA RevokedType ==
  ASSUME session \in [Sessions -> {"unused", "live", "cut"}],
         NEW ref \in Sessions \cup {NoRef}
  PROVE  /\ Revoked(ref) \in [Sessions -> {"unused", "live", "cut"}]
         /\ \A r \in Sessions : Revoked(ref)[r] = IF r = ref THEN "cut" ELSE session[r]
  BY ConstantsOK DEF Revoked

LEMMA InStateType ==
  ASSUME NEW r \in Row, NEW status \in Statuses, NEW ref \in Sessions \cup {NoRef}
  PROVE  InState(r, status, ref) \in Row
  BY DEF InState, Row

LEMMA SentType ==
  ASSUME now \in Nat, NEW t \in Sent
  PROVE  t \in Nat /\ t <= now
  BY DEF Sent

(***************************************************************************)
(* Types.                                                                  *)
(***************************************************************************)
LEMMA InitTypeOK == Init => TypeOK
  BY ConstantsOK, NoRowType DEF Init, TypeOK

(* A handler leaves the scans alone and changes one row. *)
LEMMA HandlerTypeOK ==
  ASSUME NEW p \in Passes, TypeOK, Handler(p)
  PROVE  TypeOK'
  <1> USE ConstantsOK DEF TypeOK, scanVars
  <1>0. row[p] \in Row
    OBVIOUS
  <1>1. ASSUME NEW m \in Minutes, NEW t \in Nat, FirstOrder(p, m, t) PROVE TypeOK'
    <2>1. row'[p] \in Row /\ row' = [row EXCEPT ![p] = row'[p]]
      BY <1>1 DEF FirstOrder, Row, Statuses
    <2> QED
      BY <1>1, <2>1 DEF FirstOrder
  <1>2. ASSUME NEW m \in Minutes, NEW t \in Nat,
               AdditionalOrder(p, m, t) \/ (t = now /\ ExtendPass(p, m))
        PROVE  TypeOK'
    <2>1. Extended(row[p], m, t) \in Row
      BY ExtendedType, <1>0
    <2> QED
      BY <1>2, <2>1 DEF AdditionalOrder, ExtendPass
  <1>3. ASSUME NEW m \in Minutes, NEW t \in Nat, RefundReclaims(p, m, t) PROVE TypeOK'
    <2>1. Reclaimed(row[p], m, t) \in Row
      BY ReclaimedType, <1>0
    <2>2. Revoked(row[p].ref) \in [Sessions -> {"unused", "live", "cut"}]
      BY RevokedType, <1>0 DEF Row
    <2> QED
      BY <1>3, <2>1, <2>2 DEF RefundReclaims
  <1>4. CASE ChooseDayPass(p)
    <2>1. row'[p] \in Row /\ row' = [row EXCEPT ![p] = row'[p]]
      BY <1>0, <1>4 DEF ChooseDayPass, Row, Later
    <2> QED
      BY <1>4, <2>1 DEF ChooseDayPass
  <1>5. ASSUME NEW status \in EndedByStaff, EndPass(p, status) PROVE TypeOK'
    <2>1. row'[p] \in Row /\ row' = [row EXCEPT ![p] = row'[p]]
      BY <1>0, <1>5 DEF EndPass, Row, Statuses, EndedByStaff, Terminal
    <2>2. Revoked(row[p].ref) \in [Sessions -> {"unused", "live", "cut"}]
      BY RevokedType, <1>0 DEF Row
    <2> QED
      BY <1>5, <2>1, <2>2 DEF EndPass
  <1>6. CASE RevokeNotCommitted(p)
    <2>1. Revoked(row[p].ref) \in [Sessions -> {"unused", "live", "cut"}]
      BY RevokedType, <1>0 DEF Row
    <2> QED
      BY <1>6, <2>1 DEF RevokeNotCommitted
  <1>7. CASE ActivatePass(p)
    <2>1. InState(row[p], "EXPIRED", row[p].ref) \in Row
      BY InStateType, <1>0 DEF Row, Statuses, Terminal
    <2>2. \A r \in Sessions : InState(row[p], "ACTIVE", r) \in Row
      BY InStateType, <1>0 DEF Statuses
    <2>3. CASE row' = [row EXCEPT ![p] = InState(@, "EXPIRED", @.ref)]
               /\ UNCHANGED <<session, granted>>
      BY <1>7, <2>1, <2>3 DEF ActivatePass
    <2>4. ASSUME NEW r \in Sessions,
                 session' = [session EXCEPT ![r] = "live"],
                 row' = [row EXCEPT ![p] = InState(@, "ACTIVE", r)],
                 granted' = [granted EXCEPT ![p] = r]
          PROVE  TypeOK'
      BY <1>7, <2>2, <2>4 DEF ActivatePass
    <2> QED
      BY <1>7, <2>3, <2>4 DEF ActivatePass
  <1>8. CASE ActivationNotCommitted(p)
    <2>1. PICK r \in Sessions : /\ session' = [session EXCEPT ![r] = "live"]
                                /\ lost' = [lost EXCEPT ![p] = @ \cup {r}]
      BY <1>8 DEF ActivationNotCommitted
    <2> QED
      BY <1>8, <2>1 DEF ActivationNotCommitted
  <1> QED
    BY <1>1, <1>2, <1>3, <1>4, <1>5, <1>6, <1>7, <1>8, SentType
    DEF Handler, ExpirePass, BlockPass, EndedByStaff

LEMMA ScanStepTypeOK ==
  ASSUME NEW s \in Scanners, TypeOK,
         \/ Scan(s)
         \/ \E p \in Passes : LoadOwnPass(s, p)
         \/ InFlight(s)
  PROVE  TypeOK'
  <1> USE ConstantsOK, NoRowType DEF TypeOK
  <1>1. CASE Scan(s)
    <2> DEFINE found == {p \in Passes : IsDue(p)}
               read == [p \in Passes |-> IF p \in found /\ copy[s][p] = NoRow
                                         THEN row[p] ELSE copy[s][p]]
    <2>1. found \in SUBSET Passes
      OBVIOUS
    <2>2. read \in [Passes -> Row]
      OBVIOUS
    <2>3. CASE found = {}
      <3>1. Closed(s) /\ UNCHANGED <<now, row, session, granted, lost, alive, faults>>
        BY <1>1, <2>3 DEF Scan
      <3> QED
        BY <3>1 DEF Closed
    <2>4. CASE found # {}
      <3>1. /\ pc' = [pc EXCEPT ![s] = "pass"]
            /\ due' = [due EXCEPT ![s] = found]
            /\ copy' = [copy EXCEPT ![s] = read]
            /\ UNCHANGED <<now, row, session, granted, lost, cur, wrote, alive, faults>>
        BY <1>1, <2>4 DEF Scan
      <3> HIDE DEF found, read
      <3> QED
        BY <2>1, <2>2, <3>1
    <2> QED
      BY <2>3, <2>4
  <1>2. ASSUME NEW p \in Passes, LoadOwnPass(s, p) PROVE TypeOK'
    BY <1>2 DEF LoadOwnPass
  <1>3. ASSUME NEW p \in Passes, ScanRevokes(s, p) PROVE TypeOK'
    <2>1. Revoked(copy[s][p].ref) \in [Sessions -> {"unused", "live", "cut"}]
      BY RevokedType DEF Row
    <2> QED
      BY <1>3, <2>1 DEF ScanRevokes
  <1>4. ASSUME NEW p \in Passes, ScanRevokeFails(s, p) PROVE TypeOK'
    <2>1. Revoked(copy[s][p].ref) \in [Sessions -> {"unused", "live", "cut"}]
      BY RevokedType DEF Row
    <2> QED
      BY <1>4, <2>1 DEF ScanRevokeFails, Aborted, Closed
  <1>5. CASE ScanFlushes(s)
    BY <1>5 DEF ScanFlushes
  <1>6. CASE ScanWaits(s)
    BY <1>6 DEF ScanWaits
  <1>7. CASE DeadlockVictim(s)
    BY <1>7 DEF DeadlockVictim, Aborted, Closed
  <1>8. CASE ScanCommits(s)
    <2>1. ASSUME NEW p \in Passes
          PROVE  Overwritten(row[p], copy[s][p]) \in Row
      <3>1. row[p] \in Row /\ copy[s][p] \in Row
        OBVIOUS
      <3> QED
        BY <3>1, OverwrittenType
    <2> QED
      BY <1>8, <2>1 DEF ScanCommits, Closed
  <1> QED
    BY <1>1, <1>2, <1>3, <1>4, <1>5, <1>6, <1>7, <1>8 DEF InFlight

(* Type correctness of every reachable state (all of WiFiPass). *)
THEOREM TypeCorrect == Spec => []TypeOK
  <1>1. TypeOK /\ [Next]_vars => TypeOK'
    <2> SUFFICES ASSUME TypeOK, [Next]_vars PROVE TypeOK'
      OBVIOUS
    <2>1. ASSUME NEW p \in Passes, Handler(p) PROVE TypeOK'
      BY <2>1, HandlerTypeOK
    <2>2. ASSUME NEW s \in Scanners,
                 Scan(s) \/ (\E p \in Passes : LoadOwnPass(s, p)) \/ InFlight(s)
          PROVE  TypeOK'
      BY <2>2, ScanStepTypeOK
    <2>3. CASE Restart
      BY <2>3, NoRowType DEF Restart, TypeOK
    <2>4. CASE Tick
      BY <2>4 DEF Tick, TypeOK, scanVars
    <2>5. CASE UNCHANGED vars
      BY <2>5 DEF vars, TypeOK
    <2> QED
      BY <2>1, <2>2, <2>3, <2>4, <2>5 DEF Next
  <1> QED
    BY <1>1, InitTypeOK, PTL DEF Spec

(***************************************************************************)
(* Access: no session that an activation stored is forgotten.  The         *)
(* argument: a session is opened once and, once cut, never opened again; a *)
(* reference can only be the granted one; whoever clears it has cut its    *)
(* session before.                                                         *)
(***************************************************************************)

(* What a handler does to a row and a session, as far as access goes: the  *)
(* row keeps its reference, or loses one whose session it has just cut.    *)
LEMMA HandlerAccessInv ==
  ASSUME NEW p \in Passes, AccessInv, Handler(p)
  PROVE  AccessInv'
  <1> USE ConstantsOK DEF AccessInv, scanVars
  <1>0. row[p] \in Row /\ \A q \in Passes : row[q] \in Row
    BY DEF TypeOK
  <1>t. TypeOK'
    BY HandlerTypeOK
  <1>n. NothingHeldYet'
    <2>1. UNCHANGED <<pc, cur, wrote>>
      BY DEF Handler, FirstOrder, AdditionalOrder, ExtendPass, RefundReclaims,
             ChooseDayPass, ExpirePass, BlockPass, EndPass, RevokeNotCommitted,
             ActivatePass, ActivationNotCommitted
    <2> QED
      BY <2>1 DEF NothingHeldYet
  (* Steps that touch no session and keep the reference. *)
  <1>1. ASSUME UNCHANGED <<session, granted, lost, copy, cur, wrote>>,
               NEW r \in Row,
               row' = [row EXCEPT ![p] = r],
               r.ref = row[p].ref,
               r.status \in {"NONE", "ISSUED"} => row[p].status \in {"NONE", "ISSUED"}
        PROVE  AccessInv'
    <2>1. row'[p] = r /\ \A q \in Passes \ {p} : row'[q] = row[q]
      BY <1>1 DEF TypeOK
    <2>2. GrantedOnce'
      BY <1>1, <2>1 DEF GrantedOnce
    <2>3. RefsAreGranted'
      BY <1>1, <2>1 DEF RefsAreGranted
    <2>4. RevokedBeforeCleared'
      BY <1>1 DEF RevokedBeforeCleared
    <2>5. GrantedStored'
      BY <1>1, <2>1 DEF GrantedStored, HasAccess
    <2>6. OpenedByActivation'
      BY <1>1 DEF OpenedByActivation
    <2> QED
      BY <1>t, <1>n, <2>2, <2>3, <2>4, <2>5, <2>6
  (* Steps that cut the session of the row, and may clear the reference. *)
  <1>2. ASSUME UNCHANGED <<granted, lost, copy, cur, wrote>>,
               session' = Revoked(row[p].ref),
               NEW r \in Row,
               row' = [row EXCEPT ![p] = r],
               r.ref \in {row[p].ref, NoRef},
               r.status \in {"NONE", "ISSUED"} => row[p].status \in {"NONE", "ISSUED"}
        PROVE  AccessInv'
    <2>1. row'[p] = r /\ \A q \in Passes \ {p} : row'[q] = row[q]
      BY <1>2 DEF TypeOK
    <2>2. \A x \in Sessions : session'[x] = IF x = row[p].ref THEN "cut" ELSE session[x]
      BY <1>0, <1>2, RevokedType DEF TypeOK, Row
    <2>3. GrantedOnce'
      BY <1>2, <2>1, <2>2 DEF GrantedOnce, TypeOK
    <2>4. RefsAreGranted'
      BY <1>2, <2>1 DEF RefsAreGranted
    <2>5. RevokedBeforeCleared'
      BY <1>2, <2>2 DEF RevokedBeforeCleared, TypeOK, Row
    <2>6. GrantedStored'
      BY <1>2, <2>1, <2>2 DEF GrantedStored, HasAccess, TypeOK
    <2>7. OpenedByActivation'
      BY <1>2, <2>2 DEF OpenedByActivation
    <2> QED
      BY <1>t, <1>n, <2>3, <2>4, <2>5, <2>6, <2>7
  (* Activation: a session never used before. *)
  <1>3. ASSUME NEW x \in Sessions,
               session[x] = "unused",
               session' = [session EXCEPT ![x] = "live"],
               UNCHANGED <<copy, cur, wrote>>,
               row[p].status = "ISSUED",
               \/ /\ UNCHANGED <<row, granted>>
                  /\ lost' = [lost EXCEPT ![p] = @ \cup {x}]
               \/ /\ row' = [row EXCEPT ![p] = InState(@, "ACTIVE", x)]
                  /\ granted' = [granted EXCEPT ![p] = x]
                  /\ lost' = lost
        PROVE  AccessInv'
    <2>1. \A q \in Passes \ {p} : row'[q] = row[q] /\ granted'[q] = granted[q]
      BY <1>3 DEF TypeOK
    <2>2. granted[p] = NoRef
      BY <1>3 DEF GrantedOnce
    <2>3. \A q \in Passes : granted[q] # x
      BY <1>3 DEF GrantedOnce
    <2>4. \/ row'[p] = row[p] /\ granted'[p] = NoRef
          \/ row'[p].status = "ACTIVE" /\ row'[p].ref = x /\ granted'[p] = x
      BY <1>3, <2>2 DEF TypeOK, InState
    <2>5. \A y \in Sessions \ {x} : session'[y] = session[y]
      BY <1>3 DEF TypeOK
    <2>6. session'[x] = "live"
      BY <1>3 DEF TypeOK
    <2>7. GrantedOnce'
      BY <2>1, <2>2, <2>3, <2>4, <2>5, <2>6 DEF GrantedOnce, TypeOK
    <2>8. RefsAreGranted'
      BY <1>3, <2>1, <2>2, <2>4 DEF RefsAreGranted
    <2>9. RevokedBeforeCleared'
      BY <1>3, <2>5 DEF RevokedBeforeCleared, TypeOK, Row
    <2>10. GrantedStored'
      BY <2>1, <2>2, <2>3, <2>4, <2>5 DEF GrantedStored, HasAccess, TypeOK
    <2>11. OpenedByActivation'
      <3>1. /\ x \in lost'[p] \/ granted'[p] = x
            /\ \A q \in Passes : lost[q] \subseteq lost'[q]
        BY <1>3 DEF TypeOK
      <3>g. \A q \in Passes : granted[q] # NoRef => granted'[q] = granted[q]
        BY <2>1, <2>2
      <3> SUFFICES ASSUME NEW r \in Sessions, session'[r] = "live"
                   PROVE  \E q \in Passes : granted'[q] = r \/ r \in lost'[q]
        BY DEF OpenedByActivation
      <3>2. CASE r = x
        BY <3>1, <3>2
      <3>3. CASE r # x
        <4>1. PICK q \in Passes : granted[q] = r \/ r \in lost[q]
          BY <2>5, <3>3 DEF OpenedByActivation
        <4> QED
          BY <3>1, <3>g, <4>1
      <3> QED
        BY <3>2, <3>3
    <2> QED
      BY <1>t, <1>n, <2>7, <2>8, <2>9, <2>10, <2>11
  <1>4. ASSUME NEW m \in Minutes, NEW t \in Nat, FirstOrder(p, m, t) PROVE AccessInv'
    <2>1. row[p].ref = NoRef
      BY <1>4 DEF FirstOrder, GrantedOnce, RefsAreGranted
    <2>2. row'[p] \in Row /\ row' = [row EXCEPT ![p] = row'[p]]
          /\ row'[p].ref = NoRef
      BY <1>4 DEF FirstOrder, TypeOK, Row, Statuses
    <2> QED
      BY <1>1, <1>4, <2>1, <2>2 DEF FirstOrder
  <1>5. ASSUME NEW m \in Minutes, NEW t \in Nat,
               AdditionalOrder(p, m, t) \/ (t = now /\ ExtendPass(p, m))
        PROVE  AccessInv'
    <2>1. Extended(row[p], m, t) \in Row
      BY <1>0, ExtendedType DEF TypeOK
    <2>2. /\ Extended(row[p], m, t).ref = row[p].ref
          /\ Extended(row[p], m, t).status \in {"NONE", "ISSUED"} => row[p].status \in {"NONE", "ISSUED"}
      BY DEF Extended
    <2> QED
      BY <1>1, <1>5, <2>1, <2>2 DEF AdditionalOrder, ExtendPass
  <1>6. ASSUME NEW m \in Minutes, NEW t \in Nat, RefundReclaims(p, m, t) PROVE AccessInv'
    <2>1. Reclaimed(row[p], m, t) \in Row
      BY <1>0, ReclaimedType DEF TypeOK
    <2>2. /\ Reclaimed(row[p], m, t).ref \in {row[p].ref, NoRef}
          /\ Reclaimed(row[p], m, t).status \in {row[p].status, "EXPIRED"}
          /\ Reclaimed(row[p], m, t).status # "EXPIRED" => Reclaimed(row[p], m, t).ref = row[p].ref
      BY DEF Reclaimed
    <2>3. CASE Reclaimed(row[p], m, t).status = "EXPIRED"
      BY <1>2, <1>6, <2>1, <2>2, <2>3 DEF RefundReclaims
    <2>4. CASE Reclaimed(row[p], m, t).status # "EXPIRED"
      BY <1>1, <1>6, <2>1, <2>2, <2>4 DEF RefundReclaims
    <2> QED
      BY <2>3, <2>4
  <1>7. CASE ChooseDayPass(p)
    <2>1. /\ row'[p] \in Row /\ row' = [row EXCEPT ![p] = row'[p]]
          /\ row'[p].ref = row[p].ref /\ row'[p].status = row[p].status
      BY <1>0, <1>7 DEF ChooseDayPass, TypeOK, Row, Later
    <2> QED
      BY <1>1, <1>7, <2>1 DEF ChooseDayPass
  <1>8. ASSUME NEW status \in EndedByStaff, EndPass(p, status) PROVE AccessInv'
    <2>1. /\ row'[p] \in Row /\ row' = [row EXCEPT ![p] = row'[p]]
          /\ row'[p].ref = NoRef /\ row'[p].status = status
      BY <1>0, <1>8 DEF EndPass, TypeOK, Row, Statuses, EndedByStaff, Terminal
    <2> QED
      BY <1>2, <1>8, <2>1 DEF EndPass, EndedByStaff
  <1>9. CASE RevokeNotCommitted(p)
    <2>1. row' = [row EXCEPT ![p] = row[p]]
      BY <1>9 DEF RevokeNotCommitted, TypeOK
    <2> QED
      BY <1>0, <1>2, <1>9, <2>1 DEF RevokeNotCommitted
  <1>10. CASE ActivatePass(p)
    <2>1. CASE row' = [row EXCEPT ![p] = InState(@, "EXPIRED", @.ref)]
               /\ UNCHANGED <<session, granted>>
      <3>1. InState(row[p], "EXPIRED", row[p].ref) \in Row
        BY <1>0, InStateType DEF Row, Statuses, Terminal
      <3>2. /\ InState(row[p], "EXPIRED", row[p].ref).ref = row[p].ref
            /\ InState(row[p], "EXPIRED", row[p].ref).status = "EXPIRED"
        BY DEF InState
      <3> QED
        BY <1>1, <1>10, <2>1, <3>1, <3>2 DEF ActivatePass
    <2>2. ASSUME NEW x \in Sessions,
                 session[x] = "unused",
                 session' = [session EXCEPT ![x] = "live"],
                 row' = [row EXCEPT ![p] = InState(@, "ACTIVE", x)],
                 granted' = [granted EXCEPT ![p] = x]
          PROVE  AccessInv'
      BY <1>3, <1>10, <2>2 DEF ActivatePass
    <2> QED
      BY <1>10, <2>1, <2>2 DEF ActivatePass
  <1>11. CASE ActivationNotCommitted(p)
    BY <1>3, <1>11 DEF ActivationNotCommitted
  <1> QED
    BY <1>4, <1>5, <1>6, <1>7, <1>8, <1>9, <1>10, <1>11, SentType
    DEF TypeOK, Handler, ExpirePass, BlockPass, EndedByStaff

LEMMA ScanStepAccessInv ==
  ASSUME NEW s \in Scanners, AccessInv,
         \/ MayScan(s) /\ Scan(s)
         \/ \E p \in Passes : LoadOwnPass(s, p)
         \/ InFlight(s)
  PROVE  AccessInv'
  <1> USE ConstantsOK DEF AccessInv
  <1>t. TypeOK'
    BY ScanStepTypeOK
  (* Between two queries a scan keeps or empties what it holds. *)
  <1>c. ASSUME Closed(s), UNCHANGED <<row, granted, lost>>,
               \A x \in Sessions : session'[x] \in {session[x], "cut"}
        PROVE  AccessInv'
    <2>1. NothingHeldYet'
      BY <1>c DEF Closed, NothingHeldYet, TypeOK
    <2>2. GrantedOnce'
      BY <1>c DEF GrantedOnce, TypeOK
    <2>3. RefsAreGranted'
      BY <1>c DEF Closed, RefsAreGranted, TypeOK, NoRow
    <2>4. RevokedBeforeCleared'
      <3>1. ASSUME NEW t \in Scanners \ {s}
            PROVE  copy'[t] = copy[t] /\ cur'[t] = cur[t] /\ wrote'[t] = wrote[t]
        BY <1>c DEF Closed, TypeOK
      <3>2. cur'[s] = {} /\ wrote'[s] = {}
        BY <1>c DEF Closed, TypeOK
      <3> SUFFICES ASSUME NEW t \in Scanners, NEW q \in (cur[t] \cup wrote[t])',
                          copy'[t][q].ref # NoRef
                   PROVE  session'[copy'[t][q].ref] = "cut"
        BY DEF RevokedBeforeCleared
      <3>3. t # s /\ copy'[t] = copy[t] /\ q \in cur[t] \cup wrote[t]
        BY <3>1, <3>2
      <3>4. q \in Passes
        BY <3>3 DEF TypeOK
      <3>5. copy[t][q].ref \in Sessions
        BY <3>3, <3>4 DEF TypeOK, Row
      <3>6. session[copy[t][q].ref] = "cut"
        BY <3>3 DEF RevokedBeforeCleared
      <3> QED
        BY <1>c, <3>3, <3>5, <3>6
    <2>5. GrantedStored'
      BY <1>c DEF GrantedStored, HasAccess, TypeOK
    <2>6. OpenedByActivation'
      BY <1>c DEF OpenedByActivation
    <2> QED
      BY <1>t, <2>1, <2>2, <2>3, <2>4, <2>5, <2>6
  (* The copies change only where nothing is held. *)
  <1>l. ASSUME UNCHANGED <<row, session, granted, lost, cur, wrote>>,
               cur[s] = {}, wrote[s] = {},
               NEW c \in [Passes -> Row],
               copy' = [copy EXCEPT ![s] = c],
               \A p \in Passes : c[p] \in {row[p], copy[s][p]}
        PROVE  AccessInv'
    <2>1. copy'[s] = c /\ \A t \in Scanners \ {s} : copy'[t] = copy[t]
      BY <1>l DEF TypeOK
    <2>2. NothingHeldYet'
      <3>1. \A t \in Scanners \ {s} : pc'[t] = pc[t]
        BY DEF Scan, MayScan, Closed, LoadOwnPass, InFlight, ScanRevokes, ScanRevokeFails,
               ScanFlushes, ScanWaits, DeadlockVictim, Aborted, ScanCommits, TypeOK
      <3> QED
        BY <1>l, <3>1 DEF NothingHeldYet
    <2>3. GrantedOnce'
      BY <1>l DEF GrantedOnce
    <2>4. RefsAreGranted'
      BY <1>l, <2>1 DEF RefsAreGranted
    <2>5. RevokedBeforeCleared'
      BY <1>l, <2>1 DEF RevokedBeforeCleared
    <2>6. GrantedStored'
      BY <1>l DEF GrantedStored, HasAccess
    <2>7. OpenedByActivation'
      BY <1>l DEF OpenedByActivation
    <2> QED
      BY <1>t, <2>2, <2>3, <2>4, <2>5, <2>6, <2>7
  <1>1. CASE MayScan(s) /\ Scan(s)
    <2> DEFINE found == {p \in Passes : IsDue(p)}
               read == [p \in Passes |-> IF p \in found /\ copy[s][p] = NoRow
                                         THEN row[p] ELSE copy[s][p]]
    <2>1. CASE found = {}
      <3>1. Closed(s) /\ UNCHANGED <<row, session, granted, lost>>
        BY <1>1, <2>1 DEF Scan
      <3> QED
        BY <1>c, <3>1
    <2>2. CASE found # {}
      <3>1. /\ copy' = [copy EXCEPT ![s] = read]
            /\ UNCHANGED <<row, session, granted, lost, cur, wrote>>
        BY <1>1, <2>2 DEF Scan
      <3>2. cur[s] = {} /\ wrote[s] = {}
        BY <1>1 DEF MayScan, NothingHeldYet
      <3>3. read \in [Passes -> Row] /\ \A p \in Passes : read[p] \in {row[p], copy[s][p]}
        BY DEF TypeOK
      <3> HIDE DEF read
      <3> QED
        BY <1>l, <3>1, <3>2, <3>3
    <2> QED
      BY <2>1, <2>2
  <1>2. ASSUME NEW p \in Passes, LoadOwnPass(s, p) PROVE AccessInv'
    <2> DEFINE read == [copy[s] EXCEPT ![p] = row[p]]
    <2>1. /\ copy' = [copy EXCEPT ![s] = read]
          /\ UNCHANGED <<row, session, granted, lost, cur, wrote>>
      BY <1>2 DEF LoadOwnPass, TypeOK
    <2>2. cur[s] = {} /\ wrote[s] = {}
      BY <1>2 DEF LoadOwnPass, NothingHeldYet
    <2>3. read \in [Passes -> Row] /\ \A q \in Passes : read[q] \in {row[q], copy[s][q]}
      BY DEF TypeOK
    <2> HIDE DEF read
    <2> QED
      BY <1>l, <2>1, <2>2, <2>3
  <1>3. ASSUME NEW p \in Passes, ScanRevokes(s, p) PROVE AccessInv'
    <2>1. \A x \in Sessions :
            session'[x] = IF x = copy[s][p].ref THEN "cut" ELSE session[x]
      BY <1>3, RevokedType DEF ScanRevokes, TypeOK, Row
    <2>2. /\ cur'[s] = {p} /\ pc'[s] = "flush"
          /\ \A t \in Scanners \ {s} : cur'[t] = cur[t] /\ pc'[t] = pc[t]
          /\ UNCHANGED <<row, granted, lost, copy, wrote>>
      BY <1>3 DEF ScanRevokes, TypeOK
    <2>3. NothingHeldYet'
      BY <2>2 DEF NothingHeldYet
    <2>4. GrantedOnce'
      BY <2>1, <2>2 DEF GrantedOnce, TypeOK
    <2>5. RefsAreGranted'
      BY <2>2 DEF RefsAreGranted
    <2>6. RevokedBeforeCleared'
      <3> SUFFICES ASSUME NEW t \in Scanners, NEW q \in (cur[t] \cup wrote[t])',
                          copy[t][q].ref # NoRef
                   PROVE  session'[copy[t][q].ref] = "cut"
        BY <2>2 DEF RevokedBeforeCleared
      <3>1. q \in Passes /\ copy[t][q] \in Row
        BY <1>t DEF TypeOK
      <3>2. copy[t][q].ref \in Sessions
        BY <3>1 DEF Row
      <3>3. CASE t = s /\ q = p
        BY <2>1, <3>2, <3>3
      <3>4. CASE t # s \/ q # p
        <4>1. session[copy[t][q].ref] = "cut"
          BY <2>2, <3>4 DEF RevokedBeforeCleared
        <4> QED
          BY <2>1, <3>2, <4>1
      <3> QED
        BY <3>3, <3>4
    <2>7. GrantedStored'
      BY <2>1, <2>2 DEF GrantedStored, HasAccess, TypeOK
    <2>8. OpenedByActivation'
      BY <2>1, <2>2 DEF OpenedByActivation
    <2> QED
      BY <1>t, <2>3, <2>4, <2>5, <2>6, <2>7, <2>8
  <1>4. ASSUME NEW p \in Passes, ScanRevokeFails(s, p) PROVE AccessInv'
    <2>r. copy[s][p].ref \in Sessions \cup {NoRef}
      BY DEF TypeOK, Row
    <2>1. \A x \in Sessions : Revoked(copy[s][p].ref)[x] \in {session[x], "cut"}
      BY <2>r, RevokedType DEF TypeOK
    <2>2. \A x \in Sessions : session'[x] \in {session[x], "cut"}
      BY <1>4, <2>1 DEF ScanRevokeFails
    <2>3. Closed(s) /\ UNCHANGED <<row, granted, lost>>
      BY <1>4 DEF ScanRevokeFails, Aborted
    <2> QED
      BY <1>c, <2>2, <2>3
  <1>5. CASE ScanFlushes(s)
    <2>1. /\ wrote'[s] = wrote[s] \cup cur[s] /\ cur'[s] = {}
          /\ pc'[s] \in {"commit", "pass"}
          /\ \A t \in Scanners \ {s} :
               cur'[t] = cur[t] /\ wrote'[t] = wrote[t] /\ pc'[t] = pc[t]
          /\ UNCHANGED <<row, session, granted, lost, copy>>
      BY <1>5 DEF ScanFlushes, TypeOK
    <2>2. NothingHeldYet'
      BY <2>1 DEF NothingHeldYet
    <2>3. GrantedOnce' /\ RefsAreGranted' /\ GrantedStored' /\ OpenedByActivation'
      BY <2>1 DEF GrantedOnce, RefsAreGranted, GrantedStored, OpenedByActivation, HasAccess
    <2>4. RevokedBeforeCleared'
      BY <2>1 DEF RevokedBeforeCleared
    <2> QED
      BY <1>t, <2>2, <2>3, <2>4
  <1>6. CASE ScanWaits(s)
    <2>1. /\ pc'[s] = "wait" /\ \A t \in Scanners \ {s} : pc'[t] = pc[t]
          /\ UNCHANGED <<row, session, granted, lost, copy, cur, wrote>>
      BY <1>6 DEF ScanWaits, TypeOK
    <2>2. NothingHeldYet'
      BY <2>1 DEF NothingHeldYet
    <2>3. /\ GrantedOnce' /\ RefsAreGranted' /\ GrantedStored'
          /\ RevokedBeforeCleared' /\ OpenedByActivation'
      BY <2>1 DEF GrantedOnce, RefsAreGranted, GrantedStored, HasAccess,
                  RevokedBeforeCleared, OpenedByActivation
    <2> QED
      BY <1>t, <2>2, <2>3
  <1>7. CASE DeadlockVictim(s)
    BY <1>7, <1>c DEF DeadlockVictim, Aborted
  (* The commit clears only references whose session is cut. *)
  <1>8. CASE ScanCommits(s)
    <2>1. Closed(s) /\ UNCHANGED <<session, granted, lost>>
      BY <1>8 DEF ScanCommits
    <2>2. ASSUME NEW p \in Passes
          PROVE  /\ row'[p].ref = row[p].ref
                    \/ (/\ row'[p].ref = NoRef
                        /\ granted[p] # NoRef => session[granted[p]] = "cut")
                 /\ row'[p].status \in {row[p].status, "EXPIRED"}
      <3>1. CASE p \notin wrote[s]
        BY <1>8, <3>1 DEF ScanCommits
      <3>2. CASE p \in wrote[s]
        <4>1. row'[p] = Overwritten(row[p], copy[s][p])
          BY <1>8, <3>2 DEF ScanCommits
        <4>2. copy[s][p].ref # NoRef
                => copy[s][p].ref = granted[p] /\ session[copy[s][p].ref] = "cut"
          BY <3>2 DEF RefsAreGranted, RevokedBeforeCleared
        <4> QED
          BY <4>1, <4>2 DEF Overwritten
      <3> QED
        BY <3>1, <3>2
    <2>3. NothingHeldYet'
      BY <2>1 DEF Closed, NothingHeldYet, TypeOK
    <2>4. GrantedOnce'
      BY <2>1, <2>2 DEF GrantedOnce
    <2>5. RefsAreGranted'
      BY <2>1, <2>2 DEF Closed, RefsAreGranted, TypeOK, NoRow
    <2>6. RevokedBeforeCleared'
      <3>1. \A t \in Scanners \ {s} :
              copy'[t] = copy[t] /\ cur'[t] = cur[t] /\ wrote'[t] = wrote[t]
        BY <2>1 DEF Closed, TypeOK
      <3>2. cur'[s] = {} /\ wrote'[s] = {}
        BY <2>1 DEF Closed, TypeOK
      <3> QED
        BY <2>1, <3>1, <3>2 DEF RevokedBeforeCleared
    <2>7. GrantedStored'
      BY <2>1, <2>2 DEF GrantedStored, HasAccess
    <2>8. OpenedByActivation'
      BY <2>1 DEF OpenedByActivation
    <2> QED
      BY <1>t, <2>3, <2>4, <2>5, <2>6, <2>7, <2>8
  <1>9. pc[s] = "loaded" /\ Scan(s) => MayScan(s)
    BY DEF Scan
  <1> QED
    BY <1>1, <1>2, <1>3, <1>4, <1>5, <1>6, <1>7, <1>8, <1>9 DEF InFlight

LEMMA InitAccessInv == Init /\ TypeOK => AccessInv
  BY ConstantsOK, NoRowType
  DEF Init, AccessInv, NothingHeldYet, GrantedOnce, RefsAreGranted,
      RevokedBeforeCleared, GrantedStored, OpenedByActivation, HasAccess, NoRow

LEMMA NextAccessInv == AccessInv /\ [Next]_vars => AccessInv'
  <1> SUFFICES ASSUME AccessInv, [Next]_vars PROVE AccessInv'
    OBVIOUS
  <1>1. ASSUME NEW p \in Passes, Handler(p) PROVE AccessInv'
    BY <1>1, HandlerAccessInv
  <1>2. ASSUME NEW s \in Scanners,
               \/ pc[s] = "idle" /\ Scan(s)
               \/ \E p \in Passes : LoadOwnPass(s, p)
               \/ InFlight(s)
        PROVE  AccessInv'
    <2>1. Scan(s) => MayScan(s)
      BY DEF Scan
    <2> QED
      BY <1>2, <2>1, ScanStepAccessInv
  <1>3. CASE Restart
    <2>1. TypeOK'
      BY <1>3, NoRowType DEF Restart, AccessInv, TypeOK
    <2> QED
      BY <1>3, <2>1
      DEF Restart, AccessInv, NothingHeldYet, GrantedOnce, RefsAreGranted,
          RevokedBeforeCleared, GrantedStored, OpenedByActivation, HasAccess, NoRow
  <1>4. CASE Tick
    BY <1>4 DEF Tick, scanVars, AccessInv, TypeOK, NothingHeldYet, GrantedOnce,
                RefsAreGranted, RevokedBeforeCleared, GrantedStored, OpenedByActivation, HasAccess
  <1>5. CASE UNCHANGED vars
    BY <1>5 DEF vars, AccessInv, TypeOK, NothingHeldYet, GrantedOnce,
                RefsAreGranted, RevokedBeforeCleared, GrantedStored, OpenedByActivation, HasAccess
  <1> QED
    BY <1>1, <1>2, <1>3, <1>4, <1>5 DEF Next

LEMMA OpenIsRevocable == AccessInv => RevocableAccess
  <1> SUFFICES ASSUME AccessInv, NEW r \in Sessions, session[r] = "live"
               PROVE  \E p \in Passes : \/ granted[p] = r /\ row[p].ref = r
                                        \/ r \in lost[p]
    BY DEF RevocableAccess
  <1>1. PICK p \in Passes : granted[p] = r \/ r \in lost[p]
    BY DEF AccessInv, OpenedByActivation
  <1>2. granted[p] = r => row[p].ref = r
    BY ConstantsOK DEF AccessInv, GrantedStored, HasAccess
  <1> QED
    BY <1>1, <1>2

(* Whatever the handlers, the expiry scans of loop, admin list and portal, *)
(* failures and restarts do, every open session stands in the row of its   *)
(* pass, but for those of activations that never committed                 *)
(* (expire_due_passes, activate_pass, block_pass, expire_pass, refund).    *)
THEOREM AccessStaysRevocable == Spec => []RevocableAccess
  <1>1. Init => AccessInv
    BY InitTypeOK, InitAccessInv
  <1> QED
    BY <1>1, OpenIsRevocable, NextAccessInv, PTL DEF Spec

(***************************************************************************)
(* An ended pass gives no access, as long as no scan reuses an instance    *)
(* that its session loaded before the query (Viewers = {}): then a copy    *)
(* without a reference was read from an ACTIVE row without access.         *)
(***************************************************************************)

(* A handler opens access only by turning an ISSUED pass on, and what it   *)
(* ends it has cut.                                                        *)
LEMMA HandlerAccess ==
  ASSUME NEW p \in Passes, AccessInv, Handler(p)
  PROVE  /\ UNCHANGED scanVars
         /\ \A q \in Passes : q # p => row'[q] = row[q]
         /\ row'[p].status \in {"NONE", "ISSUED"} => row[p].status \in {"NONE", "ISSUED"}
         /\ row'[p].status \in Terminal =>
              (row[p].status \in Terminal /\ session' = session) \/ ~HasAccess(p)'
         /\ \A q \in Passes :
              HasAccess(q)' =>
                HasAccess(q) \/ (q = p /\ row[p].status = "ISSUED")
  <1> USE ConstantsOK DEF AccessInv
  <1>0. row[p] \in Row /\ row[p].ref \in Sessions \cup {NoRef}
    BY DEF TypeOK, Row
  <1>r. /\ \A x \in Sessions : Revoked(row[p].ref)[x] = IF x = row[p].ref THEN "cut" ELSE session[x]
        /\ HasAccess(p) => row[p].ref = granted[p]
    BY <1>0, RevokedType DEF TypeOK, GrantedStored
  <1>g. \A q \in Passes : granted[q] \in Sessions \cup {NoRef}
    BY DEF TypeOK
  <1>q. ASSUME UNCHANGED granted, session' \in {session, Revoked(row[p].ref)}
        PROVE  /\ \A q \in Passes : HasAccess(q)' => HasAccess(q)
               /\ session' = Revoked(row[p].ref) => ~HasAccess(p)'
    BY <1>q, <1>r, <1>g DEF HasAccess
  <1>1. CASE \E m \in Minutes, t \in Sent : FirstOrder(p, m, t)
    <2>1. PICK m \in Minutes, t \in Sent : FirstOrder(p, m, t)
      BY <1>1
    <2>2. row'[p].status = "ISSUED" /\ \A q \in Passes : q # p => row'[q] = row[q]
      BY <2>1 DEF FirstOrder, TypeOK
    <2> QED
      BY <1>q, <2>1, <2>2 DEF FirstOrder, Terminal
  <1>2. CASE \E m \in Minutes :
               (\E t \in Sent : AdditionalOrder(p, m, t)) \/ ExtendPass(p, m)
    <2>1. PICK m \in Minutes, t \in Int : AdditionalOrder(p, m, t) \/ ExtendPass(p, m)
      BY <1>2 DEF Sent
    <2>2. /\ row'[p].status \in {row[p].status, "ACTIVE"}
          /\ \A q \in Passes : q # p => row'[q] = row[q]
      BY <2>1 DEF AdditionalOrder, ExtendPass, Extended, TypeOK
    <2> QED
      BY <1>q, <2>1, <2>2 DEF AdditionalOrder, ExtendPass, Terminal
  <1>3. CASE \E m \in Minutes, t \in Sent : RefundReclaims(p, m, t)
    <2>1. PICK m \in Minutes, t \in Sent : RefundReclaims(p, m, t)
      BY <1>3
    <2>2. /\ row'[p].status = Reclaimed(row[p], m, t).status
          /\ \A q \in Passes : q # p => row'[q] = row[q]
      BY <2>1 DEF RefundReclaims, TypeOK
    <2>3. Reclaimed(row[p], m, t).status \in {row[p].status, "EXPIRED"}
      BY DEF Reclaimed
    <2>4. CASE Reclaimed(row[p], m, t).status = "EXPIRED"
      BY <1>q, <2>1, <2>2, <2>4 DEF RefundReclaims
    <2>5. CASE Reclaimed(row[p], m, t).status # "EXPIRED"
      BY <1>q, <2>1, <2>2, <2>3, <2>5 DEF RefundReclaims
    <2> QED
      BY <2>4, <2>5
  <1>4. CASE ChooseDayPass(p)
    <2>1. /\ row'[p].status = row[p].status
          /\ \A q \in Passes : q # p => row'[q] = row[q]
      BY <1>4 DEF ChooseDayPass, TypeOK
    <2> QED
      BY <1>q, <1>4, <2>1 DEF ChooseDayPass
  <1>5. CASE \E status \in EndedByStaff : EndPass(p, status)
    <2>1. PICK status \in EndedByStaff : EndPass(p, status)
      BY <1>5
    <2>2. /\ row'[p].status = status
          /\ \A q \in Passes : q # p => row'[q] = row[q]
      BY <2>1 DEF EndPass, TypeOK
    <2> QED
      BY <1>q, <2>1, <2>2 DEF EndPass, EndedByStaff
  <1>6. CASE RevokeNotCommitted(p)
    BY <1>6, <1>q DEF RevokeNotCommitted
  <1>7. CASE ActivatePass(p)
    <2>1. row[p].status = "ISSUED" /\ granted[p] = NoRef
      BY <1>7 DEF ActivatePass, GrantedOnce
    <2>2. CASE row' = [row EXCEPT ![p] = InState(@, "EXPIRED", @.ref)]
               /\ UNCHANGED <<session, granted>>
      <3>1. row'[p].status = "EXPIRED" /\ \A q \in Passes : q # p => row'[q] = row[q]
        BY <2>2 DEF InState, TypeOK
      <3> QED
        BY <1>7, <2>1, <2>2, <3>1 DEF ActivatePass, HasAccess
    <2>3. ASSUME NEW x \in Sessions,
                 session[x] = "unused",
                 session' = [session EXCEPT ![x] = "live"],
                 row' = [row EXCEPT ![p] = InState(@, "ACTIVE", x)],
                 granted' = [granted EXCEPT ![p] = x]
          PROVE  /\ row'[p].status = "ACTIVE"
                 /\ \A q \in Passes : q # p => row'[q] = row[q]
                 /\ \A q \in Passes : HasAccess(q)' => HasAccess(q) \/ q = p
      <3>1. row'[p].status = "ACTIVE" /\ \A q \in Passes : q # p => row'[q] = row[q]
        BY <2>3 DEF InState, TypeOK
      <3>2. \A q \in Passes : granted[q] # x
        BY <2>3 DEF GrantedOnce
      <3> QED
        BY <1>g, <2>3, <3>1, <3>2 DEF HasAccess, TypeOK
    <2> QED
      BY <1>7, <2>1, <2>2, <2>3 DEF ActivatePass, Terminal
  <1>8. CASE ActivationNotCommitted(p)
    <2>1. PICK x \in Sessions : session[x] = "unused" /\ session' = [session EXCEPT ![x] = "live"]
      BY <1>8 DEF ActivationNotCommitted
    <2>2. \A q \in Passes : HasAccess(q)' => HasAccess(q)
      BY <1>8, <1>g, <2>1 DEF ActivationNotCommitted, HasAccess, GrantedOnce, TypeOK
    <2> QED
      BY <1>8, <2>2 DEF ActivationNotCommitted, Terminal
  <1> QED
    BY <1>1, <1>2, <1>3, <1>4, <1>5, <1>6, <1>7, <1>8
    DEF Handler, ExpirePass, BlockPass, EndedByStaff

LEMMA HandlerEndInv ==
  ASSUME NEW p \in Passes, EndInv, Handler(p)
  PROVE  FreshCopies' /\ EndedHasNoAccess'
  <1> USE DEF EndInv
  <1>1. /\ UNCHANGED <<pc, copy, due, cur, wrote>>
        /\ \A q \in Passes : q # p => row'[q] = row[q]
        /\ row'[p].status \in {"NONE", "ISSUED"} => row[p].status \in {"NONE", "ISSUED"}
        /\ row'[p].status \in Terminal =>
             (row[p].status \in Terminal /\ session' = session) \/ ~HasAccess(p)'
        /\ \A q \in Passes :
             HasAccess(q)' => HasAccess(q) \/ (q = p /\ row[p].status = "ISSUED")
    BY HandlerAccess DEF scanVars
  <1> HIDE DEF HasAccess
  <1>2. FreshCopies'
    <2> SUFFICES ASSUME NEW s \in Scanners
                 PROVE  /\ pc[s] = "idle" => \A q \in Passes : copy[s][q] = NoRow
                        /\ pc[s] # "loaded"
                        /\ \A q \in due[s] \cup cur[s] \cup wrote[s] :
                             /\ row'[q].status \notin {"NONE", "ISSUED"}
                             /\ copy[s][q].status = "ACTIVE"
                             /\ copy[s][q].ref = NoRef => ~HasAccess(q)'
      BY <1>1 DEF FreshCopies
    <2>1. \A q \in due[s] \cup cur[s] \cup wrote[s] : q \in Passes
      BY DEF AccessInv, TypeOK
    <2> QED
      BY <1>1, <2>1 DEF FreshCopies
  <1>3. EndedHasNoAccess'
    <2> SUFFICES ASSUME NEW q \in Passes, row'[q].status \in Terminal
                 PROVE  ~HasAccess(q)'
      BY DEF EndedHasNoAccess
    <2>1. CASE q = p /\ row[p].status \notin Terminal
      BY <1>1, <2>1
    <2>2. CASE q # p \/ row[p].status \in Terminal
      <3>1. row[q].status \in Terminal
        BY <1>1, <2>2
      <3>2. ~HasAccess(q)
        BY <3>1 DEF EndedHasNoAccess
      <3> QED
        BY <1>1, <3>1, <3>2 DEF Terminal
    <2> QED
      BY <2>1, <2>2
  <1> QED
    BY <1>2, <1>3

(* What the access point knows changes only by cutting, in a scan. *)
LEMMA ScanStepCuts ==
  ASSUME NEW s \in Scanners, TypeOK,
         Scan(s) \/ (\E p \in Passes : LoadOwnPass(s, p)) \/ InFlight(s)
  PROVE  /\ UNCHANGED granted
         /\ \A q \in Passes : HasAccess(q)' => HasAccess(q)
  <1>1. UNCHANGED granted
    BY DEF Scan, LoadOwnPass, InFlight, ScanRevokes, ScanRevokeFails, ScanFlushes,
           ScanWaits, DeadlockVictim, ScanCommits
  <1>2. \A x \in Sessions : session'[x] \in {session[x], "cut"}
    <2>1. \A p \in Passes : copy[s][p].ref \in Sessions \cup {NoRef}
      BY DEF TypeOK, Row
    <2>2. \A p \in Passes : \A x \in Sessions :
            Revoked(copy[s][p].ref)[x] \in {session[x], "cut"}
      BY <2>1, RevokedType DEF TypeOK
    <2>3. session' = session \/ \E p \in Passes : session' = Revoked(copy[s][p].ref)
      BY DEF Scan, LoadOwnPass, InFlight, ScanRevokes, ScanRevokeFails, ScanFlushes,
             ScanWaits, DeadlockVictim, ScanCommits
    <2> QED
      BY <2>2, <2>3
  <1> QED
    BY <1>1, <1>2 DEF HasAccess, TypeOK

LEMMA ScanEndInv ==
  ASSUME NEW s \in Scanners, Viewers = {}, EndInv,
         \/ pc[s] = "idle" /\ Scan(s)
         \/ \E p \in Passes : LoadOwnPass(s, p)
         \/ InFlight(s)
  PROVE  FreshCopies' /\ EndedHasNoAccess'
  <1> USE DEF EndInv, AccessInv
  <1>a. UNCHANGED granted /\ \A q \in Passes : HasAccess(q)' => HasAccess(q)
    BY ScanStepCuts
  <1>b. \A t \in Scanners : \A q \in due[t] \cup cur[t] \cup wrote[t] : q \in Passes
    BY DEF TypeOK
  <1>o. \A t \in Scanners \ {s} :
          /\ pc'[t] = pc[t] /\ copy'[t] = copy[t] /\ due'[t] = due[t]
          /\ cur'[t] = cur[t] /\ wrote'[t] = wrote[t]
    BY DEF Scan, Closed, LoadOwnPass, InFlight, ScanRevokes, ScanRevokeFails, ScanFlushes,
           ScanWaits, DeadlockVictim, Aborted, ScanCommits, TypeOK
  (* It is enough to look at the scan that moves. *)
  <1>s. ASSUME \A q \in Passes : row'[q].status \in {row[q].status, "EXPIRED"},
               pc'[s] = "idle" => \A q \in Passes : copy'[s][q] = NoRow,
               pc'[s] # "loaded",
               \A q \in (due'[s] \cup cur'[s] \cup wrote'[s]) :
                 /\ q \in Passes
                 /\ row[q].status \notin {"NONE", "ISSUED"}
                 /\ copy'[s][q].status = "ACTIVE"
                 /\ copy'[s][q].ref = NoRef => ~HasAccess(q)
        PROVE  FreshCopies'
    <2> SUFFICES ASSUME NEW t \in Scanners
                 PROVE  /\ pc'[t] = "idle" => \A q \in Passes : copy'[t][q] = NoRow
                        /\ pc'[t] # "loaded"
                        /\ \A q \in (due'[t] \cup cur'[t] \cup wrote'[t]) :
                             /\ row'[q].status \notin {"NONE", "ISSUED"}
                             /\ copy'[t][q].status = "ACTIVE"
                             /\ copy'[t][q].ref = NoRef => ~HasAccess(q)'
      BY DEF FreshCopies
    <2>1. CASE t = s
      BY <1>a, <1>s, <2>1
    <2>2. CASE t # s
      BY <1>a, <1>b, <1>o, <1>s, <2>2 DEF FreshCopies
    <2> QED
      BY <2>1, <2>2
  (* Until it commits, the rows stay as they are. *)
  <1>r. row' = row => EndedHasNoAccess'
    BY <1>a DEF EndedHasNoAccess
  <1>c. Closed(s) => /\ pc'[s] = "idle" /\ \A q \in Passes : copy'[s][q] = NoRow
                     /\ due'[s] \cup cur'[s] \cup wrote'[s] = {}
    BY DEF Closed, TypeOK
  <1>1. CASE pc[s] = "idle" /\ Scan(s)
    <2> DEFINE found == {p \in Passes : IsDue(p)}
               read == [p \in Passes |-> IF p \in found /\ copy[s][p] = NoRow
                                         THEN row[p] ELSE copy[s][p]]
    <2>0. row' = row
      BY <1>1 DEF Scan
    <2>1. CASE found = {}
      <3>1. Closed(s)
        BY <1>1, <2>1 DEF Scan
      <3> QED
        BY <1>c, <1>r, <1>s, <2>0, <3>1
    <2>2. CASE found # {}
      <3>1. /\ pc'[s] = "pass" /\ due'[s] = found /\ copy'[s] = read
            /\ cur'[s] = {} /\ wrote'[s] = {}
        BY <1>1, <2>2 DEF Scan, NothingHeldYet, TypeOK
      <3>2. \A q \in found : read[q] = row[q] /\ row[q].status = "ACTIVE"
        BY <1>1 DEF FreshCopies, IsDue
      <3>3. \A q \in Passes : row[q].ref = NoRef => ~HasAccess(q)
        BY DEF GrantedStored, HasAccess
      <3>4. \A q \in found : q \in Passes
        OBVIOUS
      <3> HIDE DEF found, read
      <3> QED
        BY <1>r, <1>s, <2>0, <3>1, <3>2, <3>3, <3>4
    <2> QED
      BY <2>1, <2>2
  <1>2. ASSUME NEW p \in Passes, LoadOwnPass(s, p) PROVE FALSE
    BY <1>2 DEF LoadOwnPass
  <1>3. ASSUME NEW p \in Passes, ScanRevokes(s, p)
        PROVE  FreshCopies' /\ EndedHasNoAccess'
    <2>1. /\ pc'[s] = "flush" /\ cur'[s] = {p} /\ due'[s] = due[s] /\ wrote'[s] = wrote[s]
          /\ copy'[s] = copy[s] /\ p \in due[s] /\ row' = row
      BY <1>3 DEF ScanRevokes, TypeOK
    <2> QED
      BY <1>b, <1>r, <1>s, <2>1 DEF FreshCopies
  <1>4. ASSUME NEW p \in Passes, ScanRevokeFails(s, p)
        PROVE  FreshCopies' /\ EndedHasNoAccess'
    <2>1. Closed(s) /\ row' = row
      BY <1>4 DEF ScanRevokeFails, Aborted
    <2> QED
      BY <1>c, <1>r, <1>s, <2>1
  <1>5. CASE ScanFlushes(s)
    <2>1. /\ pc'[s] \in {"pass", "commit"} /\ cur'[s] = {} /\ due'[s] \subseteq due[s]
          /\ wrote'[s] = wrote[s] \cup cur[s] /\ copy'[s] = copy[s] /\ row' = row
      BY <1>5 DEF ScanFlushes, TypeOK
    <2> QED
      BY <1>b, <1>r, <1>s, <2>1 DEF FreshCopies
  <1>6. CASE ScanWaits(s)
    <2>1. /\ pc'[s] = "wait" /\ cur'[s] = cur[s] /\ due'[s] = due[s]
          /\ wrote'[s] = wrote[s] /\ copy'[s] = copy[s] /\ row' = row
      BY <1>6 DEF ScanWaits, TypeOK
    <2> QED
      BY <1>b, <1>r, <1>s, <2>1 DEF FreshCopies
  <1>7. CASE DeadlockVictim(s)
    <2>1. Closed(s) /\ row' = row
      BY <1>7 DEF DeadlockVictim, Aborted
    <2> QED
      BY <1>c, <1>r, <1>s, <2>1
  <1>8. CASE ScanCommits(s)
    <2>1. Closed(s)
      BY <1>8 DEF ScanCommits
    <2>2. \A q \in Passes : row'[q] = IF q \in wrote[s] THEN Overwritten(row[q], copy[s][q])
                                                        ELSE row[q]
      BY <1>8 DEF ScanCommits
    <2>3. ASSUME NEW q \in Passes
          PROVE  row'[q].status \in {row[q].status, "EXPIRED"}
      <3>1. Overwritten(row[q], copy[s][q]).status \in {row[q].status, "EXPIRED"}
        BY DEF Overwritten
      <3>2. CASE q \in wrote[s]
        BY <2>2, <3>1, <3>2
      <3>3. CASE q \notin wrote[s]
        BY <2>2, <3>3
      <3> QED
        BY <3>2, <3>3
    <2>4. \A q \in wrote[s] : ~HasAccess(q)
      BY <1>b DEF FreshCopies, RefsAreGranted, RevokedBeforeCleared, HasAccess
    <2>5. EndedHasNoAccess'
      BY <1>a, <2>2, <2>4 DEF EndedHasNoAccess
    <2> QED
      BY <1>c, <1>s, <2>1, <2>3, <2>5
  <1>9. pc[s] # "loaded"
    BY DEF FreshCopies
  <1> QED
    BY <1>1, <1>2, <1>3, <1>4, <1>5, <1>6, <1>7, <1>8, <1>9 DEF InFlight

(* Without the portal's status request, no session opened for a pass that  *)
(* has ended is open, but for those of activations that never committed,   *)
(* whatever loops, listings and handlers do in between                     *)
(* (expire_due_passes, reclaim_wifi_minutes, expire_pass, block_pass).     *)
THEOREM EndedGivesNoAccess ==
  ASSUME Viewers = {}
  PROVE  Spec => []TerminalCutsAccess
  <1>1. Init => EndInv
    <2> SUFFICES ASSUME Init PROVE EndInv
      OBVIOUS
    <2>1. AccessInv
      BY InitTypeOK, InitAccessInv
    <2> QED
      BY <2>1 DEF Init, EndInv, FreshCopies, EndedHasNoAccess, NoRow, HasAccess
  <1>2. EndInv /\ [Next]_vars => EndInv'
    <2> SUFFICES ASSUME EndInv, [Next]_vars PROVE EndInv'
      OBVIOUS
    <2>0. AccessInv'
      BY NextAccessInv DEF EndInv
    <2>1. ASSUME NEW p \in Passes, Handler(p) PROVE EndInv'
      BY <2>0, <2>1, HandlerEndInv DEF EndInv
    <2>2. ASSUME NEW s \in Scanners,
                 \/ pc[s] = "idle" /\ Scan(s)
                 \/ \E p \in Passes : LoadOwnPass(s, p)
                 \/ InFlight(s)
          PROVE  EndInv'
      BY <2>0, <2>2, ScanEndInv DEF EndInv
    <2>3. CASE Restart
      BY <2>0, <2>3 DEF Restart, EndInv, FreshCopies, EndedHasNoAccess, HasAccess
    <2>4. CASE Tick
      BY <2>0, <2>4 DEF Tick, scanVars, EndInv, FreshCopies, EndedHasNoAccess, HasAccess
    <2>5. CASE UNCHANGED vars
      BY <2>0, <2>5 DEF vars, EndInv, FreshCopies, EndedHasNoAccess, HasAccess
    <2> QED
      BY <2>1, <2>2, <2>3, <2>4, <2>5 DEF Next
  <1>3. EndInv => TerminalCutsAccess
    BY DEF EndInv, EndedHasNoAccess, TerminalCutsAccess, OpenFor, HasAccess
  <1> QED
    BY <1>1, <1>2, <1>3, PTL DEF Spec

(***************************************************************************)
(* The contract of a pass: every step but a scan's commit is one of its    *)
(* steps, or none.  The argument: a step changes the row and the access of *)
(* one pass, as a session is granted to one pass only.                     *)
(***************************************************************************)
Open == {p \in Passes : HasAccess(p)}

LEMMA NextGrantsDiffer ==
  ASSUME AccessInv, GrantsDiffer, [Next]_vars
  PROVE  GrantsDiffer'
  <1>1. CASE UNCHANGED granted
    BY <1>1 DEF GrantsDiffer
  <1>2. ASSUME NEW p \in Passes, NEW x \in Sessions, session[x] = "unused",
               granted' = [granted EXCEPT ![p] = x]
        PROVE  GrantsDiffer'
    <2>1. \A q \in Passes : granted[q] # x
      BY <1>2, ConstantsOK DEF AccessInv, GrantedOnce
    <2>2. \A q \in Passes : granted'[q] = IF q = p THEN x ELSE granted[q]
      BY <1>2 DEF AccessInv, TypeOK
    <2> QED
      BY <2>1, <2>2 DEF GrantsDiffer
  <1>3. ASSUME NEW p \in Passes, ActivatePass(p) PROVE GrantsDiffer'
    BY <1>1, <1>2, <1>3 DEF ActivatePass
  <1> QED
    BY <1>1, <1>3
    DEF Next, Handler, FirstOrder, AdditionalOrder, ExtendPass, RefundReclaims, ChooseDayPass,
        ExpirePass, BlockPass, EndPass, RevokeNotCommitted, ActivationNotCommitted,
        Scan, LoadOwnPass, InFlight, ScanRevokes, ScanRevokeFails, ScanFlushes, ScanWaits,
        DeadlockVictim, ScanCommits, Restart, Tick, vars

(* Revoking the reference of a pass, from its row or a copy, closes that   *)
(* pass's access and no other.                                             *)
LEMMA CutsOne ==
  ASSUME TypeOK, GrantsDiffer, NEW p \in Passes, NEW ref \in {NoRef, granted[p]},
         session' = Revoked(ref), granted' = granted
  PROVE  Open' = IF ref = NoRef THEN Open ELSE Open \ {p}
  <1>0. granted[p] \in Sessions \cup {NoRef} /\ \A q \in Passes : granted[q] \in Sessions \cup {NoRef}
    BY DEF TypeOK
  <1>1. \A x \in Sessions : session'[x] = IF x = ref THEN "cut" ELSE session[x]
    BY <1>0, RevokedType DEF TypeOK
  <1>2. CASE ref = NoRef
    BY <1>0, <1>1, <1>2, ConstantsOK DEF Open, HasAccess
  <1>3. CASE ref # NoRef
    <2>1. \A q \in Passes : granted[q] = ref => q = p
      BY <1>3 DEF GrantsDiffer
    <2> QED
      BY <1>0, <1>1, <1>3, <2>1 DEF Open, HasAccess
  <1> QED
    BY <1>2, <1>3

LEMMA SameOpen == UNCHANGED <<session, granted>> => Open' = Open
  BY DEF Open, HasAccess

(* Access lost, or nothing that the contract speaks of. *)
LEMMA AtMostLosesAccess ==
  ASSUME NEW p \in Passes, UNCHANGED <<now, row>>, Open' \in {Open, Open \ {p}}
  PROVE  [Contract!Next]_(Contract!contractVars)
  <1>1. ContractPass' = ContractPass
    BY DEF ContractPass
  <1>2. CASE Open' = Open
    BY <1>1, <1>2 DEF Contract!contractVars, Open
  <1>3. CASE Open' = Open \ {p} /\ p \in Open
    <2>1. Contract!LoseAccess(p)
      BY <1>1, <1>3 DEF Contract!LoseAccess, Open
    <2> QED
      BY <2>1 DEF Contract!Next
  <1>4. p \notin Open => Open \ {p} = Open
    OBVIOUS
  <1> QED
    BY <1>2, <1>3, <1>4

LEMMA HandlerKeepsContract ==
  ASSUME NEW p \in Passes, AccessInv, GrantsDiffer, Handler(p)
  PROVE  [Contract!Next]_(Contract!contractVars)
  <1> USE ConstantsOK
  <1>0. /\ TypeOK /\ row[p] \in Row /\ now \in Nat /\ row[p].ref \in {NoRef, granted[p]}
        /\ row[p].expires \in Int /\ row[p].version \in Nat /\ row[p].status \in Statuses
    BY DEF AccessInv, TypeOK, Row, RefsAreGranted
  (* One row is written: the contract's step is about that pass. *)
  <1>1. ASSUME NEW r, row' = [row EXCEPT ![p] = r], now' = now
        PROVE  /\ \A q \in Passes \ {p} : ContractPass'[q] = ContractPass[q]
               /\ ContractPass'[p].status = r.status
               /\ ContractPass'[p].expires = r.expires
               /\ ContractPass'[p].version = r.version
               /\ ContractPass'[p] = [status |-> r.status, expires |-> r.expires, version |-> r.version]
    BY <1>0, <1>1 DEF ContractPass, TypeOK
  <1>seen. /\ ContractPass[p].status = row[p].status
           /\ ContractPass[p].expires = row[p].expires
           /\ ContractPass[p].version = row[p].version
           /\ ContractPass[p] = [status |-> row[p].status, expires |-> row[p].expires, version |-> row[p].version]
    BY DEF ContractPass
  <1>2. ASSUME NEW r, row' = [row EXCEPT ![p] = r], now' = now,
               \/ \E t \in 0 .. now : Contract!Sell(p, t) \/ Contract!Shorten(p, t)
               \/ Contract!Lengthen(p)
               \/ Contract!TurnOn(p) \/ Contract!EndByStaff(p) \/ Contract!RunOut(p)
        PROVE  [Contract!Next]_(Contract!contractVars)
    <2>1. Contract!OnePass(p)
      BY <1>1, <1>2 DEF Contract!OnePass
    <2> QED
      BY <2>1 DEF Contract!Next
  (* What is revoked with the row's reference is the pass's access. *)
  <1>3. ASSUME session' = Revoked(row[p].ref), granted' = granted
        PROVE  Open' = Open \ {p}
    <2>1. Open' = IF row[p].ref = NoRef THEN Open ELSE Open \ {p}
      BY <1>0, <1>3, CutsOne
    <2>2. row[p].ref = NoRef => p \notin Open
      BY DEF AccessInv, GrantedStored, Open, HasAccess
    <2> QED
      BY <2>1, <2>2
  <1>4. ASSUME NEW m \in Minutes, NEW t \in 0 .. now, FirstOrder(p, m, t)
        PROVE  [Contract!Next]_(Contract!contractVars)
    <2>1. PICK r : r = [status |-> "ISSUED", expires |-> t + m, version |-> 1, ref |-> NoRef]
      OBVIOUS
    <2>2. row' = [row EXCEPT ![p] = r] /\ now' = now /\ row[p].status = "NONE" /\ Open' = Open
      BY <1>4, <2>1, SameOpen DEF FirstOrder
    <2>3. m \in Nat /\ r.expires >= t /\ r.status = "ISSUED" /\ r.version = 1
      BY <1>0, <2>1
    <2>written. /\ ContractPass'[p].status = r.status /\ ContractPass'[p].expires = r.expires
                /\ ContractPass'[p].version = r.version
      BY <1>1, <2>2
    <2>4. Contract!Sell(p, t)
      BY <1>0, <1>seen, <2>written, <2>2, <2>3 DEF Contract!Sell, Open
    <2> QED
      BY <1>2, <2>2, <2>4
  <1>5. ASSUME NEW m \in Minutes, NEW t \in Nat,
               AdditionalOrder(p, m, t) \/ (t = now /\ ExtendPass(p, m))
        PROVE  [Contract!Next]_(Contract!contractVars)
    <2>1. PICK r : r = Extended(row[p], m, t)
      OBVIOUS
    <2>2. /\ row' = [row EXCEPT ![p] = r] /\ now' = now /\ Open' = Open
          /\ row[p].status \notin {"NONE", "BLOCKED", "CANCELLED"}
      BY <1>5, <2>1, SameOpen DEF AdditionalOrder, ExtendPass, MayExtend, EndedByStaff
    <2>3. /\ r.expires >= row[p].expires /\ r.version = row[p].version + 1
          /\ r.status = IF row[p].status = "EXPIRED" THEN "ACTIVE" ELSE row[p].status
      BY <1>0, <2>1, ExtendedType DEF Extended
    <2>4. row[p].status \in {"ISSUED", "ACTIVE", "EXPIRED"}
      BY <1>0, <2>2 DEF Statuses, Terminal
    <2>written. /\ ContractPass'[p].status = r.status /\ ContractPass'[p].expires = r.expires
                /\ ContractPass'[p].version = r.version
      BY <1>1, <2>2
    <2>5. Contract!Lengthen(p)
      BY <1>0, <1>seen, <2>written, <2>2, <2>3, <2>4 DEF Contract!Lengthen, Open
    <2> QED
      BY <1>2, <2>2, <2>5
  <1>6. ASSUME NEW m \in Minutes, NEW t \in 0 .. now, RefundReclaims(p, m, t)
        PROVE  [Contract!Next]_(Contract!contractVars)
    <2>1. PICK r : r = Reclaimed(row[p], m, t)
      OBVIOUS
    <2>2. /\ row' = [row EXCEPT ![p] = r] /\ now' = now /\ row[p].expires > t /\ m > 0
          /\ row[p].status \in {"ISSUED", "ACTIVE"} /\ granted' = granted
          /\ session' = IF r.status = "EXPIRED" THEN Revoked(row[p].ref) ELSE session
      BY <1>0, <1>6, <2>1 DEF RefundReclaims, Statuses, Terminal
    <2>3. /\ r.expires \in Int /\ r.expires >= t /\ r.expires < row[p].expires
          /\ r.version = row[p].version + 1
          /\ r.status = IF r.expires = t THEN "EXPIRED" ELSE row[p].status
      <3>1. PICK e : e = Later(t, row[p].expires - m)
        OBVIOUS
      <3>2. e \in Int /\ e >= t /\ e < row[p].expires
        <4>1. /\ t \in Int /\ row[p].expires \in Int /\ m \in Int
              /\ row[p].expires > t /\ m > 0
          BY <1>0, <2>2
        <4> QED
          BY <3>1, <4>1 DEF Later
      <3>3. e <= t <=> e = t
        BY <1>0, <3>2
      <3> QED
        BY <2>1, <3>1, <3>2, <3>3 DEF Reclaimed
    <2>4. IF r.expires = t THEN Open' = Open \ {p} ELSE Open' = Open
      <3>1. CASE r.expires = t
        BY <1>3, <2>2, <2>3, <3>1
      <3>2. CASE r.expires # t
        <4>1. r.status # "EXPIRED"
          BY <2>2, <2>3, <3>2
        <4> QED
          BY <2>2, <3>2, <4>1, SameOpen
      <3> QED
        BY <3>1, <3>2
    <2>written. /\ ContractPass'[p].status = r.status /\ ContractPass'[p].expires = r.expires
                /\ ContractPass'[p].version = r.version
      BY <1>1, <2>2
    <2>5. Contract!Shorten(p, t)
      BY <1>0, <1>seen, <2>written, <2>2, <2>3, <2>4 DEF Contract!Shorten, Open
    <2> QED
      BY <1>2, <2>2, <2>5
  <1>7. CASE ChooseDayPass(p)
    <2>1. PICK r : r = [status |-> row[p].status, expires |-> Later(row[p].expires, DayEnd),
                        version |-> row[p].version + 1, ref |-> row[p].ref]
      OBVIOUS
    <2>2. /\ row' = [row EXCEPT ![p] = r] /\ now' = now /\ Open' = Open
          /\ row[p].status \in {"ISSUED", "ACTIVE"}
      BY <1>0, <1>7, <2>1, SameOpen DEF ChooseDayPass, TypeOK, Statuses, Terminal
    <2>3. r.expires >= row[p].expires /\ r.version = row[p].version + 1 /\ r.status = row[p].status
      BY <1>0, <2>1 DEF Later
    <2>written. /\ ContractPass'[p].status = r.status /\ ContractPass'[p].expires = r.expires
                /\ ContractPass'[p].version = r.version
      BY <1>1, <2>2
    <2>4. Contract!Lengthen(p)
      BY <1>0, <1>seen, <2>written, <2>2, <2>3 DEF Contract!Lengthen, Open
    <2> QED
      BY <1>2, <2>2, <2>4
  <1>8. ASSUME NEW status \in EndedByStaff, EndPass(p, status)
        PROVE  [Contract!Next]_(Contract!contractVars)
    <2>1. PICK r : r = [status |-> status, expires |-> row[p].expires,
                        version |-> row[p].version + 1, ref |-> NoRef]
      OBVIOUS
    <2>2. /\ row' = [row EXCEPT ![p] = r] /\ now' = now
          /\ row[p].status \in {"ISSUED", "ACTIVE"}
      BY <1>0, <1>8, <2>1 DEF EndPass, TypeOK, Statuses, Terminal
    <2>3. r.expires = row[p].expires /\ r.version = row[p].version + 1
          /\ r.status \in {"CANCELLED", "BLOCKED"}
      BY <2>1 DEF EndedByStaff
    <2>4. Open' = Open \ {p}
      BY <1>3, <1>8 DEF EndPass
    <2>written. /\ ContractPass'[p].status = r.status /\ ContractPass'[p].expires = r.expires
                /\ ContractPass'[p].version = r.version
      BY <1>1, <2>2
    <2>5. Contract!EndByStaff(p)
      BY <1>0, <1>seen, <2>written, <2>2, <2>3, <2>4 DEF Contract!EndByStaff, Open
    <2> QED
      BY <1>2, <2>2, <2>5
  <1>9. CASE RevokeNotCommitted(p)
    <2>1. Open' = Open \ {p} /\ UNCHANGED <<now, row>>
      BY <1>3, <1>9 DEF RevokeNotCommitted
    <2> QED
      BY <2>1, AtMostLosesAccess
  <1>10. CASE ActivatePass(p)
    <2>1. row[p].status = "ISSUED" /\ now' = now /\ granted[p] = NoRef /\ p \notin Open
      BY <1>10 DEF ActivatePass, AccessInv, GrantedOnce, Open, HasAccess
    <2>2. CASE row[p].expires <= now /\ row' = [row EXCEPT ![p] = InState(@, "EXPIRED", @.ref)]
               /\ UNCHANGED <<session, granted>>
      <3>1. PICK r : r = InState(row[p], "EXPIRED", row[p].ref)
        OBVIOUS
      <3>2. row' = [row EXCEPT ![p] = r] /\ Open' = Open \ {p}
        BY <1>0, <2>1, <2>2, <3>1, SameOpen DEF TypeOK
      <3>3. r.status = "EXPIRED" /\ r.expires = row[p].expires /\ r.version = row[p].version
        BY <3>1 DEF InState
      <3>written. /\ ContractPass'[p].status = r.status /\ ContractPass'[p].expires = r.expires
                  /\ ContractPass'[p].version = r.version
        BY <1>1, <2>1, <3>2
      <3>4. Contract!RunOut(p)
        BY <1>0, <1>seen, <3>written, <2>1, <2>2, <3>2, <3>3 DEF Contract!RunOut, Open
      <3> QED
        BY <1>2, <2>1, <3>2, <3>4
    <2>3. ASSUME NEW x \in Sessions, row[p].expires > now,
                 session[x] = "unused",
                 session' = [session EXCEPT ![x] = "live"],
                 row' = [row EXCEPT ![p] = InState(@, "ACTIVE", x)],
                 granted' = [granted EXCEPT ![p] = x]
          PROVE  [Contract!Next]_(Contract!contractVars)
      <3>1. PICK r : r = InState(row[p], "ACTIVE", x)
        OBVIOUS
      <3>2. row' = [row EXCEPT ![p] = r]
        BY <1>0, <2>3, <3>1 DEF TypeOK
      <3>3. r.status = "ACTIVE" /\ r.expires = row[p].expires /\ r.version = row[p].version
        BY <3>1 DEF InState
      <3>4. Open' = Open \cup {p}
        <4>1. \A q \in Passes : granted[q] # x
          BY <2>3 DEF AccessInv, GrantedOnce
        <4> QED
          BY <1>0, <2>3, <4>1 DEF Open, HasAccess, TypeOK
      <3>5. ContractPass' = [ContractPass EXCEPT ![p].status = "ACTIVE"]
        <4>1. ContractPass' = [q \in Passes |-> ContractPass'[q]] /\ DOMAIN ContractPass = Passes
              /\ ContractPass = [q \in Passes |-> ContractPass[q]]
          BY DEF ContractPass
        <4>2. ContractPass'[p] = [ContractPass[p] EXCEPT !.status = "ACTIVE"]
          <5>1. ContractPass'[p] = [status |-> r.status, expires |-> r.expires, version |-> r.version]
            BY <1>1, <2>1, <3>2
          <5> QED
            BY <1>seen, <5>1, <3>3
        <4>3. \A q \in Passes \ {p} : ContractPass'[q] = ContractPass[q]
          BY <1>1, <2>1, <3>2
        <4> QED
          BY <4>1, <4>2, <4>3
      <3>6. Contract!TurnOn(p)
        BY <1>seen, <2>1, <2>3, <3>4, <3>5 DEF Contract!TurnOn, Open
      <3> QED
        BY <1>2, <2>1, <3>2, <3>6
    <2> QED
      BY <1>10, <2>2, <2>3 DEF ActivatePass
  <1>11. CASE ActivationNotCommitted(p)
    <2>1. PICK x \in Sessions : session[x] = "unused" /\ session' = [session EXCEPT ![x] = "live"]
      BY <1>11 DEF ActivationNotCommitted
    <2>2. Open' = Open
      BY <1>0, <1>11, <2>1 DEF ActivationNotCommitted, Open, HasAccess, AccessInv, GrantedOnce, TypeOK
    <2> QED
      BY <1>11, <2>2, AtMostLosesAccess DEF ActivationNotCommitted
  <1> QED
    <2>1. \A t \in Sent : t \in Nat /\ t \in 0 .. now
      BY <1>0, SentType
    <2> QED
      BY <1>0, <1>4, <1>5, <1>6, <1>7, <1>8, <1>9, <1>10, <1>11, <2>1
      DEF Handler, ExpirePass, BlockPass, EndedByStaff

LEMMA ScanKeepsContract ==
  ASSUME NEW s \in Scanners, AccessInv, GrantsDiffer,
         \/ pc[s] = "idle" /\ Scan(s)
         \/ \E p \in Passes : LoadOwnPass(s, p)
         \/ InFlight(s)
  PROVE  [Contract!Next]_(Contract!contractVars) \/ ScanCommits(s)
  <1>1. CASE UNCHANGED <<now, row, session, granted>>
    <2>1. ContractPass' = ContractPass /\ Open' = Open
      BY <1>1, SameOpen DEF ContractPass
    <2> QED
      BY <1>1, <2>1 DEF Contract!contractVars, Open
  <1>2. ASSUME NEW p \in Passes, UNCHANGED <<now, row, granted>>,
               session' \in {session, Revoked(copy[s][p].ref)}
        PROVE  [Contract!Next]_(Contract!contractVars)
    <2>1. copy[s][p].ref \in {NoRef, granted[p]} /\ TypeOK
      BY DEF AccessInv, RefsAreGranted
    <2>2. Open' \in {Open, Open \ {p}}
      <3>1. CASE session' = session
        BY <1>2, <3>1, SameOpen
      <3>2. CASE session' = Revoked(copy[s][p].ref)
        BY <1>2, <2>1, <3>2, CutsOne
      <3> QED
        BY <1>2, <3>1, <3>2
    <2> QED
      BY <1>2, <2>2, AtMostLosesAccess
  <1>3. ASSUME NEW p \in Passes, ScanRevokes(s, p) \/ ScanRevokeFails(s, p)
        PROVE  [Contract!Next]_(Contract!contractVars)
    BY <1>2, <1>3 DEF ScanRevokes, ScanRevokeFails
  <1> QED
    BY <1>1, <1>3 DEF Scan, LoadOwnPass, InFlight, ScanFlushes, ScanWaits, DeadlockVictim

(* Whatever the handlers, the expiry scans, failures and restarts do, only *)
(* the commit of a scan, whichever it is, can take a pass where its        *)
(* contract does not go:                                                   *)
(* who changes a pass from which status, that versions count, and that a   *)
(* session closes no later than its pass and closes no other's.            *)
THEOREM HandlersKeepContract == Spec => OnlyScanCommitsBreakContract
  <1>1. Init => AccessInv /\ GrantsDiffer
    <2>1. Init => GrantsDiffer
      BY DEF Init, GrantsDiffer
    <2> QED
      BY <2>1, InitTypeOK, InitAccessInv
  <1>2. AccessInv /\ GrantsDiffer /\ [Next]_vars => (AccessInv /\ GrantsDiffer)'
    BY NextAccessInv, NextGrantsDiffer
  <1>3. AccessInv /\ GrantsDiffer /\ [Next]_vars =>
          [Contract!Next \/ \E s \in Scanners : ScanCommits(s)]_(Contract!contractVars)
    <2> SUFFICES ASSUME AccessInv, GrantsDiffer, [Next]_vars
                 PROVE  [Contract!Next \/ \E s \in Scanners : ScanCommits(s)]_(Contract!contractVars)
      OBVIOUS
    <2>1. ASSUME NEW p \in Passes, Handler(p) PROVE [Contract!Next]_(Contract!contractVars)
      BY <2>1, HandlerKeepsContract
    <2>2. ASSUME NEW s \in Scanners,
                 \/ pc[s] = "idle" /\ Scan(s)
                 \/ \E p \in Passes : LoadOwnPass(s, p)
                 \/ InFlight(s)
          PROVE  [Contract!Next]_(Contract!contractVars) \/ \E t \in Scanners : ScanCommits(t)
      BY <2>2, ScanKeepsContract
    <2>3. CASE Tick
      <3>1. ContractPass' = ContractPass /\ Open' = Open /\ now' = now + 1
        BY <2>3, SameOpen DEF Tick, ContractPass
      <3>2. Contract!TimePasses
        BY <3>1 DEF Contract!TimePasses, Open
      <3> QED
        BY <3>2 DEF Contract!Next
    <2>4. CASE Restart \/ UNCHANGED vars
      <3>1. ContractPass' = ContractPass /\ Open' = Open /\ now' = now
        BY <2>4, SameOpen DEF Restart, vars, ContractPass
      <3> QED
        BY <3>1 DEF Contract!contractVars, Open
    <2> QED
      BY <2>1, <2>2, <2>3, <2>4 DEF Next
  <1> QED
    BY <1>1, <1>2, <1>3, PTL DEF Spec, OnlyScanCommitsBreakContract

(* Where "no later order revives the pass" (admin.py, expire_pass) fails.  *)
(* A pass that a manager blocked or cancelled keeps that status, unless    *)
(* the commit of a scan that loaded the pass before it was over makes it   *)
(* EXPIRED.                                                                *)
Undone(s, p) ==
  /\ ScanCommits(s)
  /\ p \in wrote[s]
  /\ copy[s][p].status # "EXPIRED"
  /\ row'[p].status = "EXPIRED"

Kept(p) == row'[p].status = row[p].status \/ \E s \in Scanners : Undone(s, p)

OnlyScansUndoStaff ==
  [][\A p \in Passes : row[p].status \in EndedByStaff => Kept(p)]_vars

(* Whatever orders, rewards, refunds, activations, requests, restarts and  *)
(* the other steps of scans do, staff's ending of a pass stays: no handler *)
(* touches the row of a blocked or cancelled pass.                         *)
THEOREM StaffEndingOutlivesHandlers == Spec => OnlyScansUndoStaff
  <1> DEFINE Keeps == \A p \in Passes : row[p].status \in EndedByStaff => Kept(p)
  <1>1. TypeOK /\ [Next]_vars => [Keeps]_vars
    <2> SUFFICES ASSUME TypeOK, [Next]_vars,
                        NEW p \in Passes, row[p].status \in EndedByStaff
                 PROVE  Kept(p)
      OBVIOUS
    <2>1. ASSUME NEW q \in Passes, Handler(q) PROVE row'[p] = row[p]
      <3>1. row[p].status \notin {"NONE", "ISSUED"} /\ row[p].status \in Terminal
        BY DEF EndedByStaff, Terminal
      <3>2. row' = row \/ \E r : row' = [row EXCEPT ![q] = r]
        BY <2>1 DEF Handler, FirstOrder, AdditionalOrder, ExtendPass, RefundReclaims,
                    ChooseDayPass, ExpirePass, BlockPass, EndPass, RevokeNotCommitted,
                    ActivatePass, ActivationNotCommitted
      <3>3. CASE q # p
        BY <3>2, <3>3 DEF TypeOK
      <3>4. CASE q = p
        BY <2>1, <3>1, <3>4
           DEF Handler, FirstOrder, AdditionalOrder, ExtendPass, RefundReclaims, MayExtend,
               ChooseDayPass, ExpirePass, BlockPass, EndPass, RevokeNotCommitted,
               ActivatePass, ActivationNotCommitted
      <3> QED
        BY <3>3, <3>4
    <2>2. ASSUME NEW s \in Scanners, ScanCommits(s) PROVE Kept(p)
      <3>1. row'[p] = IF p \in wrote[s] THEN Overwritten(row[p], copy[s][p]) ELSE row[p]
        BY <2>2 DEF ScanCommits
      <3>2. CASE p \in wrote[s] /\ copy[s][p].status # "EXPIRED"
        <4>1. row'[p].status = "EXPIRED"
          BY <3>1, <3>2 DEF Overwritten
        <4> QED
          BY <2>2, <3>2, <4>1 DEF Kept, Undone
      <3>3. CASE p \notin wrote[s] \/ copy[s][p].status = "EXPIRED"
        BY <3>1, <3>3 DEF Overwritten, Kept
      <3> QED
        BY <3>2, <3>3
    <2>3. ASSUME NEW s \in Scanners,
                 \/ pc[s] = "idle" /\ Scan(s)
                 \/ \E q \in Passes : LoadOwnPass(s, q)
                 \/ InFlight(s),
                 ~ScanCommits(s)
          PROVE  row' = row
      BY <2>3 DEF Scan, LoadOwnPass, InFlight, ScanRevokes, ScanRevokeFails, ScanFlushes,
                  ScanWaits, DeadlockVictim
    <2>4. CASE Restart \/ Tick \/ UNCHANGED vars
      BY <2>4 DEF Restart, Tick, vars, Kept
    <2>5. row' = row => Kept(p)
      BY DEF Kept
    <2>6. row'[p] = row[p] => Kept(p)
      BY DEF Kept
    <2> QED
      BY <2>1, <2>2, <2>3, <2>4, <2>5, <2>6 DEF Next
  <1> QED
    BY <1>1, TypeCorrect, PTL DEF Spec, OnlyScansUndoStaff

=============================================================================

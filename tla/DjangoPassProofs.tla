-------------------------- MODULE DjangoPassProofs --------------------------
(***************************************************************************)
(* Proofs about DjangoPass, for any passes, sessions, number of tasks at   *)
(* once, durations and bounds.                                             *)
(***************************************************************************)
EXTENDS DjangoPass, TLAPS

LEMMA LaterType ==
  ASSUME NEW a \in Nat, NEW b \in Nat
  PROVE  Later(a, b) \in Nat
  BY DEF Later

LEMMA QuietType ==
  ASSUME NEW e \in Nat, now \in Nat
  PROVE  Quiet(e) \in Nat
  BY DjangoPassConstants, LaterType DEF Quiet

(***************************************************************************)
(* What each request makes of the rows: one row is replaced.               *)
(***************************************************************************)
LEMMA RowFields ==
  ASSUME TypeOK, NEW p \in Passes
  PROVE  /\ pass[p].status \in Statuses
         /\ pass[p].expires \in Nat
         /\ pass[p].version \in Nat
         /\ pass[p].ref \in Sessions \cup {NoRef}
         /\ pass[p] \in Row
  BY DEF TypeOK, Row

LEMMA ScheduledType ==
  ASSUME NEW p \in Passes, now \in Nat,
         pass'[p].expires \in Nat, pass'[p].version \in Nat
  PROVE  /\ Scheduled(p) \subseteq Actions
         /\ \A a \in Scheduled(p) :
              /\ a.pass = p
              /\ a.version = pass'[p].version
              /\ a.kind # "SEND_EXPIRING_NOTIFICATION" => a.at = pass'[p].expires
  <1> DEFINE end == pass'[p].expires
             version == pass'[p].version
             Made(kind, at) == [pass |-> p, kind |-> kind, at |-> at, version |-> version]
  <1>1. ASSUME NEW a \in Scheduled(p)
        PROVE  \/ a = Made("EXPIRE_PASS", end)
               \/ a = Made("REVOKE_NETWORK_ACCESS", end)
               \/ end - Notice > now /\ a = Made("SEND_EXPIRING_NOTIFICATION", end - Notice)
    BY DEF Scheduled, Entry
  <1>2. end - Notice > now => end - Notice \in Nat
    BY DjangoPassConstants
  <1>3. version \in Nat /\ end \in Nat
    OBVIOUS
  <1> HIDE DEF end, version
  <1>4. ASSUME NEW a \in Scheduled(p)
        PROVE  /\ a \in Actions
               /\ a.pass = p /\ a.version = version
               /\ a.kind # "SEND_EXPIRING_NOTIFICATION" => a.at = end
    BY <1>1, <1>2, <1>3, <1>4 DEF Actions, Kinds
  <1> QED
    BY <1>4 DEF end, version

(***************************************************************************)
(* Types.                                                                  *)
(***************************************************************************)
LEMMA NextTypeOK ==
  ASSUME TypeOK, RefsAreOwn, [Next]_vars
  PROVE  TypeOK'
  <1> USE DEF taskVars, history
  <1>1. ASSUME NEW p \in Passes, FirstOrder(p) PROVE TypeOK'
    <2>1. Quiet(now + Base) \in Nat
      <3>1. now + Base \in Nat
        BY DjangoPassConstants DEF TypeOK
      <3> QED
        BY <3>1, QuietType DEF TypeOK
    <2>2. pass' \in [Passes -> Row]
      BY <1>1, <2>1 DEF FirstOrder, TypeOK, Row, Statuses
    <2>3. Scheduled(p) \subseteq Actions
      BY <2>2, ScheduledType DEF TypeOK, Row
    <2> QED
      BY <1>1, <2>2, <2>3 DEF FirstOrder, TypeOK
  <1>2. ASSUME NEW p \in Passes, NEW m \in Bonus, AdditionalOrder(p, m) PROVE TypeOK'
    <2>1. Quiet(Later(pass[p].expires, now) + m) \in Nat
      <3>1. Later(pass[p].expires, now) \in Nat
        BY LaterType, RowFields DEF TypeOK
      <3>2. Later(pass[p].expires, now) + m \in Nat
        BY <3>1, DjangoPassConstants
      <3> QED
        BY <3>2, QuietType DEF TypeOK
    <2>2. pass' \in [Passes -> Row]
      BY <1>2, <2>1, RowFields DEF AdditionalOrder, TypeOK, Row, Statuses
    <2>3. Scheduled(p) \subseteq Actions
      BY <2>2, ScheduledType DEF TypeOK, Row
    <2> QED
      BY <1>2, <2>2, <2>3 DEF AdditionalOrder, TypeOK
  <1>3. ASSUME NEW p \in Passes, NEW s \in Sessions, ActivatePass(p, s) PROVE TypeOK'
    <2>1. pass' \in [Passes -> Row]
      BY <1>3, RowFields DEF ActivatePass, TypeOK, Row, Statuses
    <2> QED
      BY <1>3, <2>1 DEF ActivatePass, TypeOK
  <1>4. ASSUME NEW p \in Passes, NEW e \in Nat, Moved(p, e) PROVE TypeOK'
    <2>1. pass' \in [Passes -> Row]
      BY <1>4, RowFields DEF Moved, TypeOK, Row
    <2> QED
      BY <1>4, <2>1 DEF Moved, TypeOK
  <1>5. ASSUME NEW p \in Passes, NEW m \in Granted, PassExtend(p, m) PROVE TypeOK'
    <2>1. Later(pass[p].expires, now) + m \in Nat
      BY LaterType, RowFields, DjangoPassConstants DEF TypeOK
    <2>2. pass' \in [Passes -> Row]
      BY <1>5, <2>1, RowFields DEF PassExtend, TypeOK, Row, Statuses
    <2> QED
      BY <1>5, <2>2 DEF PassExtend, TypeOK
  <1>6. ASSUME NEW p \in Passes, Block(p) PROVE TypeOK'
    <2>1. pass' \in [Passes -> Row]
      <3>1. [pass[p] EXCEPT !.status = "BLOCKED", !.ref = NoRef] \in Row
        BY RowFields DEF Row, Statuses
      <3>2. pass' = [pass EXCEPT ![p] = [pass[p] EXCEPT !.status = "BLOCKED", !.ref = NoRef]]
        BY <1>6 DEF Block
      <3> QED
        BY <3>1, <3>2, RowFields DEF TypeOK, Row
    <2>2. dropped' \subseteq used
      <3>1. dropped \subseteq used /\ pass[p].ref \in used \cup {NoRef}
        BY DEF TypeOK, RefsAreOwn
      <3>2. dropped' = dropped \cup ({pass[p].ref} \ {NoRef})
        BY <1>6 DEF Block
      <3> QED
        BY <3>1, <3>2
    <2> QED
      BY <1>6, <2>1, <2>2 DEF Block, TypeOK
  <1>7. ASSUME NEW p \in Passes, Unblock(p) PROVE TypeOK'
    <2>1. pass' \in [Passes -> Row]
      BY <1>7, RowFields DEF Unblock, TypeOK, Row, Statuses
    <2> QED
      BY <1>7, <2>1 DEF Unblock, TypeOK
  <1>8. ASSUME NEW p \in Passes PROVE Ended(p) \in [Passes -> Row]
    BY RowFields DEF Ended, TypeOK, Row, Statuses
  <1>9. ASSUME NEW p \in Passes, AdminExpire(p) PROVE TypeOK'
    <2>1. pass' \in [Passes -> Row] /\ faults' \in Nat
      BY <1>8, <1>9 DEF AdminExpire, TypeOK
    <2> QED
      BY <1>9, <2>1 DEF AdminExpire, Closed, TypeOK
  <1>10. ASSUME NEW t \in Tasks, ListPasses(t) PROVE TypeOK'
    <2> DEFINE found == {[pass |-> p, at |-> pass[p].expires] :
                           p \in {q \in Passes : pass[q].status = "ACTIVE" /\ pass[q].expires <= now}}
    <2>1. found \subseteq Overdue
      BY RowFields DEF Overdue
    <2>2. list' = [list EXCEPT ![t] = found]
      BY <1>10 DEF ListPasses
    <2> HIDE DEF found
    <2> QED
      BY <1>10, <2>1, <2>2 DEF ListPasses, TypeOK
  <1>11. ASSUME NEW t \in Tasks, NEW x \in list[t], ExpirePass(t, x) PROVE TypeOK'
    <2>1. x.pass \in Passes
      BY <1>11 DEF ExpirePass, TypeOK, Overdue
    <2>2. pass' \in [Passes -> Row] /\ live' \subseteq live
      BY <1>8, <1>11, <2>1 DEF ExpirePass, Closed, TypeOK
    <2>3. \A u \in Tasks : list'[u] \subseteq list[u]
      BY <1>11 DEF ExpirePass, TypeOK
    <2>4. list' \in [Tasks -> SUBSET (Overdue \cup Actions)]
      BY <1>11 DEF ExpirePass, TypeOK
    <2> QED
      BY <1>11, <2>2, <2>3, <2>4 DEF ExpirePass, TypeOK
  <1>12. ASSUME NEW t \in Tasks, ListActions(t) PROVE TypeOK'
    <2> DEFINE due == {a \in pending : a.at <= now}
    <2>1. due \subseteq Actions /\ list' = [list EXCEPT ![t] = due]
      BY <1>12 DEF ListActions, TypeOK
    <2> HIDE DEF due
    <2> QED
      BY <1>12, <2>1 DEF ListActions, TypeOK
  <1>13. ASSUME NEW t \in Tasks, NEW a \in list[t], Execute(t, a) PROVE TypeOK'
    <2>1. a.pass \in Passes
      BY <1>13 DEF Execute, TypeOK, Actions
    <2>2. pass' \in [Passes -> Row] /\ live' \subseteq live
      <3>1. ASSUME Perform(a) PROVE pass' \in [Passes -> Row] /\ live' \subseteq live
        <4>1. Expired(a.pass) \in [Passes -> Row]
          BY <2>1, RowFields DEF Expired, TypeOK, Row, Statuses
        <4>2. [pass EXCEPT ![a.pass].ref = NoRef] \in [Passes -> Row]
          BY <2>1, RowFields DEF TypeOK, Row
        <4> QED
          BY <3>1, <4>1, <4>2 DEF Perform, Closed, TypeOK
      <3>2. ASSUME UNCHANGED <<pass, live>> PROVE pass' \in [Passes -> Row] /\ live' \subseteq live
        BY <3>2 DEF TypeOK
      <3> QED
        BY <1>13, <3>1, <3>2 DEF Execute
    <2>3. \A u \in Tasks : list'[u] \subseteq list[u]
      BY <1>13 DEF Execute, TypeOK
    <2>4. list' \in [Tasks -> SUBSET (Overdue \cup Actions)]
      BY <1>13 DEF Execute, TypeOK
    <2> QED
      BY <1>13, <2>2, <2>3, <2>4 DEF Execute, TypeOK
  <1>14. ASSUME NEW t \in Tasks, FinishTask(t) PROVE TypeOK'
    BY <1>14 DEF FinishTask, TypeOK
  <1>15. ASSUME NEW t \in Tasks, TaskFails(t) PROVE TypeOK'
    <2>1. live' \subseteq live
      BY <1>15 DEF TaskFails, Closed
    <2> QED
      BY <1>15, <2>1 DEF TaskFails, TypeOK
  <1>16. CASE Tick
    BY <1>16 DEF Tick, TypeOK
  <1>17. CASE UNCHANGED vars
    BY <1>17 DEF vars, TypeOK
  <1>18. ASSUME NEW p \in Passes, Request(p) PROVE TypeOK'
    <2>1. ASSUME ApplyDayPass(p) PROVE TypeOK'
      BY <1>4, <2>1, DjangoPassConstants DEF ApplyDayPass
    <2>2. ASSUME NEW m \in Granted, ExtendAction(p, m) PROVE TypeOK'
      <3>1. Later(pass[p].expires, now) + m \in Nat
        BY LaterType, RowFields, DjangoPassConstants DEF TypeOK
      <3> QED
        BY <1>4, <2>2, <3>1 DEF ExtendAction
    <2> QED
      BY <1>1, <1>2, <1>3, <1>5, <1>6, <1>7, <1>9, <1>18, <2>1, <2>2
         DEF Request, PassActivate, AdminPassAction
  <1> QED
    BY <1>10, <1>11, <1>12, <1>13, <1>14, <1>15, <1>16, <1>17, <1>18 DEF Next, TaskStep

(***************************************************************************)
(* The access point: a reference is one pass's own, and a session is       *)
(* closed with the reference that goes.                                    *)
(***************************************************************************)
LEMMA EndedFields ==
  ASSUME TypeOK, NEW p \in Passes
  PROVE  \A q \in Passes :
           IF q = p THEN /\ Ended(p)[q].status = "EXPIRED"
                         /\ Ended(p)[q].expires = pass[q].expires
                         /\ Ended(p)[q].version = pass[q].version + 1
                         /\ Ended(p)[q].ref = NoRef
           ELSE Ended(p)[q] = pass[q]
  BY DEF Ended, TypeOK

(* The revocation in a step of the task that has no failure. *)
LEMMA PerformFields ==
  ASSUME TypeOK, NEW a \in Actions, Perform(a)
  PROVE  /\ \A q \in Passes : q # a.pass => pass'[q] = pass[q]
         /\ pass'[a.pass].expires = pass[a.pass].expires
         /\ pass'[a.pass].version = pass[a.pass].version
         /\ pass'[a.pass].status = pass[a.pass].status \/ pass'[a.pass].status = "EXPIRED"
         /\ \/ live' = live /\ pass'[a.pass].ref = pass[a.pass].ref
            \/ /\ a.kind = "REVOKE_NETWORK_ACCESS"
               /\ live' = Closed(a.pass) /\ pass'[a.pass].ref = NoRef
               /\ pass'[a.pass].status = pass[a.pass].status
         /\ pass'[a.pass].status # pass[a.pass].status => a.kind = "EXPIRE_PASS"
  <1>1. a.pass \in Passes
    BY DEF Actions
  <1>2. CASE /\ a.kind = "EXPIRE_PASS" /\ pass' = Expired(a.pass) /\ UNCHANGED live
    BY <1>1, <1>2 DEF Expired, TypeOK
  <1>3. CASE UNCHANGED <<pass, live>>
    BY <1>3
  <1>4. CASE /\ a.kind = "REVOKE_NETWORK_ACCESS"
             /\ live' = Closed(a.pass)
             /\ pass' = [pass EXCEPT ![a.pass].ref = NoRef]
    BY <1>1, <1>4 DEF TypeOK
  <1> QED
    BY <1>2, <1>3, <1>4 DEF Perform

LEMMA NextRefs ==
  ASSUME TypeOK, RefsAreOwn, OpenSessionsAreFound, [Next]_vars
  PROVE  RefsAreOwn' /\ OpenSessionsAreFound'
  <1> USE DEF taskVars, history
  <1> DEFINE Sound == RefsAreOwn' /\ OpenSessionsAreFound'
  <1>1. ASSUME /\ \A q \in Passes : /\ pass'[q].ref = pass[q].ref
                                    /\ pass'[q].status \in {"NONE", "ISSUED"} =>
                                         \/ pass[q].status \in {"NONE", "ISSUED"}
                                         \/ pass[q].ref = NoRef,
               live' \subseteq live, UNCHANGED <<used, lost, dropped>>
        PROVE  Sound
    BY <1>1 DEF RefsAreOwn, OpenSessionsAreFound
  <1>2. ASSUME NEW p \in Passes, pass'[p].ref = NoRef,
               \A q \in Passes : q # p => pass'[q] = pass[q],
               pass[p].ref \notin live' \/ pass[p].ref \in dropped',
               live' \subseteq live, dropped \subseteq dropped', UNCHANGED <<used, lost>>
        PROVE  Sound
    <2>1. RefsAreOwn'
      BY <1>2 DEF RefsAreOwn
    <2>2. ASSUME NEW s \in live', s \notin lost', s \notin dropped'
          PROVE  \E q \in Passes : s = pass'[q].ref
      <3>1. PICK q \in Passes : s = pass[q].ref
        BY <1>2, <2>2 DEF OpenSessionsAreFound
      <3>2. q # p
        BY <1>2, <2>2, <3>1
      <3> QED
        BY <1>2, <3>1, <3>2
    <2>3. OpenSessionsAreFound'
      BY <2>2 DEF OpenSessionsAreFound
    <2> QED
      BY <2>1, <2>3
  <1>3. ASSUME NEW p \in Passes, FirstOrder(p) PROVE Sound
    <2>1. \A q \in Passes : q # p => pass'[q] = pass[q]
      BY <1>3 DEF FirstOrder, TypeOK
    <2>2. pass'[p].ref = NoRef /\ pass[p].ref = NoRef
      BY <1>3 DEF FirstOrder, RefsAreOwn, TypeOK
    <2>3. NoRef \notin live
      BY DjangoPassConstants DEF TypeOK
    <2> QED
      BY <1>2, <1>3, <2>1, <2>2, <2>3 DEF FirstOrder
  <1>4. ASSUME NEW p \in Passes, NEW m \in Bonus, AdditionalOrder(p, m) PROVE Sound
    <2>1. \A q \in Passes : /\ pass'[q].ref = pass[q].ref
                            /\ pass'[q].status = pass[q].status \/ pass'[q].status = "ACTIVE"
      BY <1>4 DEF AdditionalOrder, TypeOK
    <2> QED
      BY <1>1, <1>4, <2>1 DEF AdditionalOrder
  <1>5. ASSUME NEW p \in Passes, NEW s \in Sessions, ActivatePass(p, s) PROVE Sound
    <2>1. /\ pass[p].ref = NoRef /\ s \notin used /\ NoRef \notin live /\ s # NoRef
          /\ used' = used \cup {s} /\ live' = live \cup {s} /\ dropped' = dropped
          /\ \A q \in Passes : pass[q].ref # s
      BY <1>5, DjangoPassConstants DEF ActivatePass, RefsAreOwn, TypeOK
    <2>2. CASE pass' = [pass EXCEPT ![p].status = "ACTIVE", ![p].ref = s] /\ lost' = lost
      <3>1. \A q \in Passes : /\ pass'[q].ref = IF q = p THEN s ELSE pass[q].ref
                              /\ pass'[q].status = IF q = p THEN "ACTIVE" ELSE pass[q].status
        BY <2>2 DEF TypeOK
      <3>2. RefsAreOwn'
        BY <2>1, <3>1 DEF RefsAreOwn
      <3>3. ASSUME NEW v \in live', v \notin lost', v \notin dropped'
            PROVE  \E q \in Passes : v = pass'[q].ref
        <4>1. CASE v = s
          BY <3>1, <4>1
        <4>2. CASE v # s
          <5>1. PICK q \in Passes : v = pass[q].ref
            BY <2>1, <2>2, <3>3, <4>2 DEF OpenSessionsAreFound
          <5>2. v \in live
            BY <2>1, <3>3, <4>2
          <5>3. q # p
            BY <2>1, <5>1, <5>2
          <5> QED
            BY <3>1, <5>1, <5>3
        <4> QED
          BY <4>1, <4>2
      <3> QED
        BY <3>2, <3>3 DEF OpenSessionsAreFound
    <2>3. CASE pass' = pass /\ lost' = lost \cup {s}
      BY <2>1, <2>3 DEF RefsAreOwn, OpenSessionsAreFound
    <2> QED
      BY <1>5, <2>2, <2>3 DEF ActivatePass
  <1>6. ASSUME NEW p \in Passes, NEW e, Moved(p, e) PROVE Sound
    <2>1. \A q \in Passes : pass'[q].ref = pass[q].ref /\ pass'[q].status = pass[q].status
      BY <1>6 DEF Moved, TypeOK
    <2> QED
      BY <1>1, <1>6, <2>1 DEF Moved
  <1>7. ASSUME NEW p \in Passes, NEW m \in Granted, PassExtend(p, m) PROVE Sound
    <2>1. \A q \in Passes : /\ pass'[q].ref = pass[q].ref
                            /\ pass'[q].status = pass[q].status \/ pass'[q].status = "ACTIVE"
      BY <1>7 DEF PassExtend, TypeOK
    <2> QED
      BY <1>1, <1>7, <2>1 DEF PassExtend
  <1>8. ASSUME NEW p \in Passes, Block(p) PROVE Sound
    <2>1. pass'[p].ref = NoRef /\ \A q \in Passes : q # p => pass'[q] = pass[q]
      BY <1>8 DEF Block, TypeOK
    <2>2. pass[p].ref \in dropped' \/ pass[p].ref \notin live'
      BY <1>8, DjangoPassConstants DEF Block, TypeOK
    <2> QED
      BY <1>2, <1>8, <2>1, <2>2 DEF Block
  <1>9. ASSUME NEW p \in Passes, Unblock(p) PROVE Sound
    <2>1. \A q \in Passes : /\ pass'[q].ref = pass[q].ref
                            /\ pass'[q].status = pass[q].status \/ pass'[q].status = "ACTIVE"
      BY <1>9 DEF Unblock, TypeOK
    <2> QED
      BY <1>1, <1>9, <2>1 DEF Unblock
  <1>10. ASSUME NEW p \in Passes, live' = Closed(p), pass' = Ended(p),
                UNCHANGED <<used, lost, dropped>>
         PROVE  Sound
    BY <1>2, <1>10, EndedFields DEF Closed
  <1>11. ASSUME NEW p \in Passes, live' = Closed(p), UNCHANGED <<pass, used, lost, dropped>>
         PROVE  Sound
    BY <1>1, <1>11 DEF Closed
  <1>12. ASSUME UNCHANGED <<pass, used, live, lost, dropped>> PROVE Sound
    BY <1>1, <1>12
  <1>13. ASSUME NEW p \in Passes, AdminExpire(p) PROVE Sound
    BY <1>10, <1>11, <1>13 DEF AdminExpire
  <1>14. ASSUME NEW t \in Tasks, NEW x \in list[t], ExpirePass(t, x) PROVE Sound
    <2>1. x.pass \in Passes
      BY <1>14 DEF ExpirePass, TypeOK, Overdue
    <2> QED
      BY <1>10, <1>12, <1>14, <2>1 DEF ExpirePass
  <1>15. ASSUME NEW t \in Tasks, NEW a \in list[t], Execute(t, a) PROVE Sound
    <2>1. a \in Actions /\ a.pass \in Passes
      BY <1>15 DEF Execute, TypeOK, Actions
    <2>2. UNCHANGED <<used, lost, dropped>>
      BY <1>15 DEF Execute
    <2>3. CASE Perform(a)
      <3>1. CASE live' = live /\ pass'[a.pass].ref = pass[a.pass].ref
        <4>1. \A q \in Passes : /\ pass'[q].ref = pass[q].ref
                                /\ pass'[q].status = pass[q].status \/ pass'[q].status = "EXPIRED"
          BY <2>1, <2>3, <3>1, PerformFields
        <4> QED
          BY <1>1, <2>2, <3>1, <4>1
      <3>2. CASE live' = Closed(a.pass) /\ pass'[a.pass].ref = NoRef
        BY <1>2, <2>1, <2>2, <2>3, <3>2, PerformFields DEF Closed
      <3> QED
        BY <2>1, <2>3, <3>1, <3>2, PerformFields
    <2>4. CASE UNCHANGED <<pass, live>>
      BY <1>12, <2>2, <2>4
    <2> QED
      BY <1>15, <2>3, <2>4 DEF Execute
  <1>16. ASSUME NEW t \in Tasks, TaskFails(t) PROVE Sound
    <2>1. live' \subseteq live
      BY <1>16 DEF TaskFails, Closed
    <2> QED
      BY <1>1, <1>16, <2>1 DEF TaskFails
  <1>17. ASSUME NEW t \in Tasks, ListPasses(t) \/ ListActions(t) \/ FinishTask(t) PROVE Sound
    BY <1>12, <1>17 DEF ListPasses, ListActions, FinishTask
  <1>18. CASE Tick \/ UNCHANGED vars
    BY <1>12, <1>18 DEF Tick, vars
  <1>19. ASSUME NEW p \in Passes, Request(p) PROVE Sound
    BY <1>3, <1>4, <1>5, <1>6, <1>7, <1>8, <1>9, <1>13, <1>19
       DEF Request, PassActivate, AdminPassAction, ApplyDayPass, ExtendAction
  <1> QED
    BY <1>14, <1>15, <1>16, <1>17, <1>18, <1>19 DEF Next, TaskStep

(***************************************************************************)
(* Scheduled actions and lists.  A version only grows, and with it what    *)
(* was scheduled before loses its effect; the expiry of a version stays.   *)
(***************************************************************************)
LEMMA NextActions ==
  ASSUME TypeOK, RefsAreOwn, ActionsFit, [Next]_vars
  PROVE  ActionsFit'
  <1> USE DEF taskVars, history
  <1>t. /\ \A q \in Passes : pass[q].version \in Nat /\ pass'[q].version \in Nat
        /\ \A a \in pending : a \in Actions /\ a.pass \in Passes /\ a.version \in Nat
    BY NextTypeOK DEF TypeOK, Row, Actions
  <1>1. ASSUME pending' \subseteq pending,
               \A q \in Passes :
                 /\ pass'[q].status = "NONE" => pass[q].status = "NONE" /\ pass'[q].version = pass[q].version
                 /\ \/ pass'[q].version = pass[q].version /\ pass'[q].expires = pass[q].expires
                    \/ pass'[q].version = pass[q].version + 1
        PROVE  ActionsFit'
    <2>1. ASSUME NEW a \in pending'
          PROVE  /\ 0 < a.version /\ a.version <= pass'[a.pass].version
                 /\ (a.version = pass'[a.pass].version /\ a.kind # "SEND_EXPIRING_NOTIFICATION")
                      => a.at = pass'[a.pass].expires
      <3> DEFINE q == a.pass
      <3>1. q \in Passes /\ a \in pending /\ 0 < a.version /\ a.version <= pass[q].version
        BY <1>1, <1>t, <2>1 DEF ActionsFit
      <3>2. CASE pass'[q].version = pass[q].version /\ pass'[q].expires = pass[q].expires
        BY <3>1, <3>2 DEF ActionsFit
      <3>3. CASE pass'[q].version = pass[q].version + 1
        BY <1>t, <3>1, <3>3
      <3> QED
        BY <1>1, <3>1, <3>2, <3>3
    <2> QED
      BY <1>1, <2>1 DEF ActionsFit
  <1>2. ASSUME NEW p \in Passes, pending' = pending \cup Scheduled(p),
               \A q \in Passes : q # p => pass'[q] = pass[q],
               pass'[p].status # "NONE", pass'[p].version = pass[p].version + 1
        PROVE  ActionsFit'
    <2>1. \A a \in Scheduled(p) :
            /\ a.pass = p
            /\ a.version = pass'[p].version
            /\ a.kind # "SEND_EXPIRING_NOTIFICATION" => a.at = pass'[p].expires
      BY NextTypeOK, ScheduledType DEF TypeOK, Row
    <2>2. ASSUME NEW a \in pending'
          PROVE  /\ 0 < a.version /\ a.version <= pass'[a.pass].version
                 /\ (a.version = pass'[a.pass].version /\ a.kind # "SEND_EXPIRING_NOTIFICATION")
                      => a.at = pass'[a.pass].expires
      <3>1. CASE a \in Scheduled(p)
        BY <1>2, <1>t, <2>1, <3>1
      <3>2. CASE a \in pending
        <4>1. a.pass \in Passes /\ a.version \in Nat /\ 0 < a.version /\ a.version <= pass[a.pass].version
          BY <1>t, <3>2 DEF ActionsFit
        <4>2. CASE a.pass = p
          BY <1>2, <1>t, <4>1, <4>2
        <4>3. CASE a.pass # p
          BY <1>2, <3>2, <4>1, <4>3 DEF ActionsFit
        <4> QED
          BY <4>2, <4>3
      <3> QED
        BY <1>2, <2>2, <3>1, <3>2
    <2> QED
      BY <1>2, <2>2 DEF ActionsFit
  <1>3. ASSUME NEW p \in Passes, FirstOrder(p) PROVE ActionsFit'
    <2>1. \A q \in Passes : q # p => pass'[q] = pass[q]
      BY <1>3 DEF FirstOrder, TypeOK
    <2>2. pass'[p].status = "ISSUED" /\ pass'[p].version = 1 /\ pass[p].version = 0
      BY <1>3 DEF FirstOrder, ActionsFit, TypeOK
    <2> QED
      BY <1>2, <1>3, <2>1, <2>2 DEF FirstOrder
  <1>4. ASSUME NEW p \in Passes, NEW m \in Bonus, AdditionalOrder(p, m) PROVE ActionsFit'
    <2>1. \A q \in Passes : q # p => pass'[q] = pass[q]
      BY <1>4 DEF AdditionalOrder, TypeOK
    <2>2. pass'[p].status # "NONE" /\ pass'[p].version = pass[p].version + 1
      BY <1>4 DEF AdditionalOrder, Existing, Least, TypeOK
    <2> QED
      BY <1>2, <1>4, <2>1, <2>2 DEF AdditionalOrder
  <1>5. ASSUME NEW p \in Passes, NEW s \in Sessions, ActivatePass(p, s) PROVE ActionsFit'
    <2>1. pending' = pending
      BY <1>5 DEF ActivatePass
    <2>2. CASE pass' = pass
      BY <1>1, <2>1, <2>2
    <2>3. CASE pass' = [pass EXCEPT ![p].status = "ACTIVE", ![p].ref = s]
      <3>1. \A q \in Passes : /\ pass'[q].version = pass[q].version
                              /\ pass'[q].expires = pass[q].expires
        BY <2>3 DEF TypeOK, Row
      <3>2. \A q \in Passes : pass'[q].status = IF q = p THEN "ACTIVE" ELSE pass[q].status
        BY <2>3 DEF TypeOK, Row
      <3> QED
        BY <1>1, <2>1, <3>1, <3>2
    <2> QED
      BY <1>5, <2>2, <2>3 DEF ActivatePass
  <1>6. ASSUME NEW p \in Passes, NEW e, Moved(p, e) PROVE ActionsFit'
    <2>1. /\ pending' = pending
          /\ \A q \in Passes : /\ pass'[q].status = pass[q].status
                               /\ q # p => pass'[q] = pass[q]
          /\ pass[p].status # "NONE" /\ pass'[p].version = pass[p].version + 1
      BY <1>6 DEF Moved, TypeOK
    <2> QED
      BY <1>1, <2>1
  <1>7. ASSUME NEW p \in Passes, NEW m \in Granted, PassExtend(p, m) PROVE ActionsFit'
    <2>1. /\ pending' = pending
          /\ \A q \in Passes : q # p => pass'[q] = pass[q]
          /\ pass'[p].status # "NONE" /\ pass'[p].version = pass[p].version + 1
      BY <1>7 DEF PassExtend, TypeOK
    <2> QED
      BY <1>1, <2>1
  <1>8. ASSUME NEW p \in Passes, Block(p) \/ Unblock(p) PROVE ActionsFit'
    <2>1. pending' = pending
      BY <1>8 DEF Block, Unblock
    <2>2. \A q \in Passes : /\ pass'[q].version = pass[q].version
                            /\ pass'[q].expires = pass[q].expires
      BY <1>8 DEF Block, Unblock, TypeOK, Row
    <2>3. \A q \in Passes : q # p => pass'[q].status = pass[q].status
      BY <1>8 DEF Block, Unblock, TypeOK, Row
    <2>4. pass'[p].status \in {"BLOCKED", "ACTIVE"}
      BY <1>8 DEF Block, Unblock, TypeOK, Row
    <2> QED
      BY <1>1, <2>1, <2>2, <2>3, <2>4
  <1>9. ASSUME NEW p \in Passes, pass' = Ended(p), pending' = pending PROVE ActionsFit'
    <2>1. \A q \in Passes : /\ q # p => pass'[q] = pass[q]
                            /\ q = p => /\ pass'[q].status = "EXPIRED"
                                        /\ pass'[q].version = pass[q].version + 1
      BY <1>9, EndedFields
    <2> QED
      BY <1>1, <1>9, <2>1
  <1>10. ASSUME pass' = pass, pending' = pending PROVE ActionsFit'
    BY <1>1, <1>10
  <1>11. ASSUME NEW t \in Tasks, NEW a \in list[t], Execute(t, a) PROVE ActionsFit'
    <2>1. a \in Actions /\ a.pass \in Passes /\ pending' \subseteq pending
      BY <1>11 DEF Execute, TypeOK, Actions
    <2>2. CASE Perform(a)
      <3>1. \A q \in Passes : /\ pass'[q].version = pass[q].version
                              /\ pass'[q].expires = pass[q].expires
                              /\ pass'[q].status = pass[q].status \/ pass'[q].status = "EXPIRED"
        BY <2>1, <2>2, PerformFields
      <3> QED
        BY <1>1, <2>1, <3>1
    <2>3. CASE pass' = pass
      BY <1>1, <2>1, <2>3
    <2> QED
      BY <1>11, <2>2, <2>3 DEF Execute
  <1>12. ASSUME NEW t \in Tasks, NEW x \in list[t], ExpirePass(t, x) PROVE ActionsFit'
    <2>1. x.pass \in Passes
      BY <1>12 DEF ExpirePass, TypeOK, Overdue
    <2> QED
      BY <1>9, <1>10, <1>12, <2>1 DEF ExpirePass
  <1>13. ASSUME NEW t \in Tasks, TaskFails(t) \/ ListPasses(t) \/ ListActions(t) \/ FinishTask(t)
         PROVE  ActionsFit'
    BY <1>10, <1>13 DEF TaskFails, ListPasses, ListActions, FinishTask
  <1>14. CASE Tick \/ UNCHANGED vars
    BY <1>10, <1>14 DEF Tick, vars
  <1>15. ASSUME NEW p \in Passes, AdminExpire(p) PROVE ActionsFit'
    BY <1>9, <1>10, <1>15 DEF AdminExpire
  <1>16. ASSUME NEW p \in Passes, Request(p) PROVE ActionsFit'
    BY <1>3, <1>4, <1>5, <1>6, <1>7, <1>8, <1>15, <1>16
       DEF Request, PassActivate, AdminPassAction, ApplyDayPass, ExtendAction
  <1> QED
    BY <1>11, <1>12, <1>13, <1>14, <1>16 DEF Next, TaskStep

LEMMA NextLists ==
  ASSUME TypeOK, ListsAreDue, [Next]_vars
  PROVE  ListsAreDue'
  <1> USE DEF taskVars, history
  <1>1. ASSUME UNCHANGED <<pc, clock, list>>, now' = now PROVE ListsAreDue'
    BY <1>1 DEF ListsAreDue
  <1>2. ASSUME NEW p \in Passes, Request(p) PROVE ListsAreDue'
    <2>1. UNCHANGED <<pc, clock, list>> /\ now' = now
      BY <1>2 DEF Request, FirstOrder, AdditionalOrder, PassActivate, ActivatePass,
                  ApplyDayPass, Moved, AdminPassAction, ExtendAction, Block, Unblock,
                  AdminExpire, PassExtend
    <2> QED
      BY <1>1, <2>1
  <1>3. CASE Tick
    <2>1. now \in Nat /\ now' = now + 1 /\ UNCHANGED <<pc, clock, list>>
      BY <1>3 DEF Tick, TypeOK
    <2>2. \A t \in Tasks : clock[t] \in Nat
      BY DEF TypeOK
    <2>3. \A t \in Tasks : pc[t] = "actions" => \A a \in list[t] : a.at \in Nat
      BY DEF TypeOK, Actions
    <2> QED
      BY <2>1, <2>2, <2>3 DEF ListsAreDue
  <1>4. ASSUME NEW t \in Tasks, NEW x \in list[t], ExpirePass(t, x) \/ Execute(t, x)
        PROVE  ListsAreDue'
    <2>1. /\ \A u \in Tasks : list'[u] \subseteq list[u]
          /\ UNCHANGED <<pc, clock>> /\ now' = now
      BY <1>4 DEF ExpirePass, Execute, TypeOK
    <2> QED
      BY <2>1 DEF ListsAreDue
  <1>5. ASSUME NEW t \in Tasks,
               ListPasses(t) \/ ListActions(t) \/ FinishTask(t) \/ TaskFails(t)
        PROVE  ListsAreDue'
    <2>1. \A u \in Tasks : u # t => /\ pc'[u] = pc[u] /\ clock'[u] = clock[u]
                                    /\ list'[u] = list[u]
      BY <1>5 DEF ListPasses, ListActions, FinishTask, TaskFails, TypeOK
    <2>2. /\ now' = now
          /\ pc'[t] = "passes" => clock'[t] <= now
          /\ pc'[t] = "actions" => \A a \in list'[t] : a.at <= now
      BY <1>5 DEF ListPasses, ListActions, FinishTask, TaskFails, TypeOK
    <2> QED
      BY <2>1, <2>2 DEF ListsAreDue
  <1>6. CASE UNCHANGED vars
    BY <1>1, <1>6 DEF vars
  <1> QED
    BY <1>2, <1>3, <1>4, <1>5, <1>6 DEF Next, TaskStep

(***************************************************************************)
(* One usable pass: only an order issues one, and only when there is none. *)
(***************************************************************************)
LEMMA NextOneUsable ==
  ASSUME TypeOK, ActionsFit, OneUsablePass, [Next]_vars
  PROVE  OneUsablePass'
  <1> USE DEF taskVars, history
  <1>1. ASSUME Existing' \subseteq Existing, unblocked \subseteq unblocked' PROVE OneUsablePass'
    BY <1>1 DEF OneUsablePass
  <1>2. ASSUME unblocked' = unblocked,
               \A q \in Passes : pass'[q].status \notin {"NONE", "BLOCKED"} =>
                                   pass[q].status \notin {"NONE", "BLOCKED"}
        PROVE  OneUsablePass'
    BY <1>1, <1>2 DEF Existing
  <1>3. ASSUME NEW p \in Passes, FirstOrder(p) PROVE OneUsablePass'
    <2>1. Existing = {} /\ \A q \in Passes : q # p => pass'[q] = pass[q]
      BY <1>3 DEF FirstOrder, TypeOK
    <2>2. \A q \in Passes : q # p => pass'[q].status \in {"NONE", "BLOCKED"}
      BY <2>1 DEF Existing
    <2>3. Existing' \subseteq {p}
      BY <2>2 DEF Existing
    <2> QED
      BY <2>3 DEF OneUsablePass
  <1>4. ASSUME NEW p \in Passes, Unblock(p) PROVE OneUsablePass'
    <2>1. unblocked' = unblocked \cup {p} /\ \A q \in Passes : q # p => pass'[q] = pass[q]
      BY <1>4 DEF Unblock, TypeOK
    <2>2. Existing' \subseteq Existing \cup {p}
      BY <2>1 DEF Existing
    <2> QED
      BY <2>1, <2>2 DEF OneUsablePass
  <1>5. ASSUME NEW p \in Passes, NEW m \in Bonus, AdditionalOrder(p, m) PROVE OneUsablePass'
    <2>1. unblocked' = unblocked /\ p \in Existing
          /\ \A q \in Passes : q # p => pass'[q] = pass[q]
      BY <1>5 DEF AdditionalOrder, Least, TypeOK
    <2> QED
      BY <1>2, <2>1 DEF Existing
  <1>6. ASSUME NEW p \in Passes, NEW s \in Sessions, ActivatePass(p, s) PROVE OneUsablePass'
    <2>1. unblocked' = unblocked /\ pass[p].status = "ISSUED"
          /\ \A q \in Passes : q # p => pass'[q] = pass[q]
      BY <1>6 DEF ActivatePass, TypeOK
    <2> QED
      BY <1>2, <2>1
  <1>7. ASSUME NEW p \in Passes, NEW e, Moved(p, e) PROVE OneUsablePass'
    <2>1. unblocked' = unblocked /\ \A q \in Passes : pass'[q].status = pass[q].status
      BY <1>7 DEF Moved, TypeOK
    <2> QED
      BY <1>2, <2>1
  <1>8. ASSUME NEW p \in Passes, NEW m \in Granted, PassExtend(p, m) PROVE OneUsablePass'
    <2>1. unblocked' = unblocked
      BY <1>8 DEF PassExtend
    <2>2. \A q \in Passes : \/ pass'[q].status = pass[q].status
                            \/ pass[q].status = "EXPIRED"
      BY <1>8 DEF PassExtend, TypeOK
    <2> QED
      BY <1>2, <2>1, <2>2
  <1>9. ASSUME NEW p \in Passes, Block(p) PROVE OneUsablePass'
    <2>1. unblocked' = unblocked /\ pass'[p].status = "BLOCKED"
          /\ \A q \in Passes : q # p => pass'[q] = pass[q]
      BY <1>9 DEF Block, TypeOK
    <2> QED
      BY <1>2, <2>1
  <1>10. ASSUME NEW p \in Passes, pass[p].status \notin {"NONE", "BLOCKED"},
                pass' = Ended(p), unblocked' = unblocked
         PROVE  OneUsablePass'
    BY <1>2, <1>10, EndedFields
  <1>11. ASSUME pass' = pass, unblocked' = unblocked PROVE OneUsablePass'
    BY <1>2, <1>11
  <1>12. ASSUME NEW p \in Passes, AdminExpire(p) PROVE OneUsablePass'
    BY <1>10, <1>11, <1>12 DEF AdminExpire
  <1>13. ASSUME NEW t \in Tasks, NEW x \in list[t], ExpirePass(t, x) PROVE OneUsablePass'
    <2>1. x.pass \in Passes
      BY <1>13 DEF ExpirePass, TypeOK, Overdue
    <2> QED
      BY <1>10, <1>11, <1>13, <2>1 DEF ExpirePass
  <1>14. ASSUME NEW t \in Tasks, NEW a \in list[t], Execute(t, a) PROVE OneUsablePass'
    <2>1. a \in Actions /\ a.pass \in Passes /\ unblocked' = unblocked
      BY <1>14 DEF Execute, TypeOK, Actions
    <2>2. CASE UNCHANGED <<pass, live>>
      BY <1>11, <2>1, <2>2
    <2>3. CASE a \in pending /\ a.version = pass[a.pass].version /\ Perform(a)
      <3>1. pass[a.pass].status # "NONE"
        BY <2>1, <2>3 DEF ActionsFit
      <3>2. pass[a.pass].status = "BLOCKED" => pass'[a.pass].status = "BLOCKED"
        <4>1. CASE pass' = Expired(a.pass)
          BY <2>1, <4>1 DEF Expired
        <4>2. CASE pass' = pass
          BY <4>2
        <4>3. CASE pass' = [pass EXCEPT ![a.pass].ref = NoRef]
          BY <2>1, <4>3 DEF TypeOK, Row
        <4> QED
          BY <2>3, <4>1, <4>2, <4>3 DEF Perform
      <3>3. \A q \in Passes : q # a.pass => pass'[q] = pass[q]
        BY <2>1, <2>3, PerformFields
      <3> QED
        BY <1>2, <2>1, <3>1, <3>2, <3>3
    <2> QED
      BY <1>14, <2>2, <2>3 DEF Execute
  <1>15. ASSUME NEW t \in Tasks, TaskFails(t) \/ ListPasses(t) \/ ListActions(t) \/ FinishTask(t)
         PROVE  OneUsablePass'
    BY <1>11, <1>15 DEF TaskFails, ListPasses, ListActions, FinishTask
  <1>16. CASE Tick \/ UNCHANGED vars
    BY <1>11, <1>16 DEF Tick, vars
  <1>17. ASSUME NEW p \in Passes, Request(p) PROVE OneUsablePass'
    BY <1>3, <1>4, <1>5, <1>6, <1>7, <1>8, <1>9, <1>12, <1>17
       DEF Request, PassActivate, AdminPassAction, ApplyDayPass, ExtendAction
  <1> QED
    BY <1>13, <1>14, <1>15, <1>16, <1>17 DEF Next, TaskStep

(***************************************************************************)
(* The invariant.                                                          *)
(***************************************************************************)
LEMMA InitInv == Init => PassInv
  <1> SUFFICES ASSUME Init PROVE PassInv
    OBVIOUS
  <1> USE DEF Init
  <1>1. TypeOK
    <2>1. pass \in [Passes -> Row]
      BY DEF Row, Statuses
    <2> QED
      BY <2>1 DEF TypeOK
  <1>2. RefsAreOwn /\ ActionsFit /\ ListsAreDue /\ OpenSessionsAreFound
    BY DEF RefsAreOwn, ActionsFit, ListsAreDue, OpenSessionsAreFound
  <1>3. OneUsablePass
    BY DEF OneUsablePass, Existing
  <1> QED
    BY <1>1, <1>2, <1>3 DEF PassInv

LEMMA NextInv == PassInv /\ [Next]_vars => PassInv'
  BY NextTypeOK, NextRefs, NextActions, NextLists, NextOneUsable DEF PassInv

LEMMA PassInvHolds == Spec => []PassInv
  BY InitInv, NextInv, PTL DEF Spec

(* Every variable holds values of its kind, in every reachable state. *)
THEOREM DjangoTypeCorrect == Spec => []TypeOK
  <1>1. PassInv => TypeOK
    BY DEF PassInv
  <1> QED
    BY <1>1, PassInvHolds, PTL

(* No open session is lost but by an activation that did not commit or by  *)
(* the staff's BLOCK, however many runs of the task overlap.               *)
THEOREM SessionsAreFound == Spec => []OpenSessionsAreFound
  <1>1. PassInv => OpenSessionsAreFound
    BY DEF PassInv
  <1> QED
    BY <1>1, PassInvHolds, PTL

(* Orders issue a second pass of the day only beside a BLOCKED one; two    *)
(* that can be used come only of unblocking.                               *)
THEOREM OnePassUsable == Spec => []OneUsablePass
  <1>1. PassInv => OneUsablePass
    BY DEF PassInv
  <1> QED
    BY <1>1, PassInvHolds, PTL

(***************************************************************************)
(* What a step may take.                                                   *)
(***************************************************************************)
LEMMA StepKeepsPaidTime ==
  ASSUME PassInv, [Next]_vars, NEW p \in Passes,
         \/ pass[p].status \in {"ISSUED", "ACTIVE"} /\ pass'[p].status = "EXPIRED"
         \/ pass[p].ref \in live \ live'
  PROVE  pass[p].expires <= now \/ AdminExpire(p)
  <1> USE DEF taskVars, history, PassInv
  <1>1. ASSUME NEW q \in Passes, pass[p].ref \in live, live' = Closed(q)
        PROVE  pass[p].ref \in live' \/ p = q
    BY <1>1, DjangoPassConstants DEF Closed, RefsAreOwn, TypeOK
  <1>2. ASSUME NEW q \in Passes, q # p, \/ live' = Closed(q) \/ live \subseteq live',
               pass'[p] = pass[p]
        PROVE  FALSE
    BY <1>1, <1>2
  <1>3. ASSUME live \subseteq live',
               pass'[p].status = pass[p].status \/ pass'[p].status # "EXPIRED"
        PROVE  FALSE
    BY <1>3
  <1>4. ASSUME NEW q \in Passes, AdminExpire(q) PROVE AdminExpire(p)
    <2>1. ASSUME q # p PROVE FALSE
      <3>1. pass'[p] = pass[p] /\ live' = Closed(q)
        BY <1>4, <2>1, EndedFields DEF AdminExpire
      <3> QED
        BY <1>2, <2>1, <3>1
    <2> QED
      BY <1>4, <2>1
  <1>5. ASSUME NEW q \in Passes, Request(q), ~AdminExpire(q) PROVE FALSE
    <2>1. live \subseteq live'
      BY <1>5 DEF Request, FirstOrder, AdditionalOrder, PassActivate, ActivatePass,
                  ApplyDayPass, Moved, AdminPassAction, ExtendAction, Block, Unblock, PassExtend
    <2>2. pass'[p].status = pass[p].status \/ pass'[p].status # "EXPIRED"
      <3>1. CASE FirstOrder(q)
        BY <3>1 DEF FirstOrder, TypeOK
      <3>2. ASSUME NEW m \in Bonus, AdditionalOrder(q, m)
            PROVE  pass'[p].status = pass[p].status \/ pass'[p].status # "EXPIRED"
        BY <3>2 DEF AdditionalOrder, TypeOK
      <3>3. ASSUME NEW s \in Sessions, ActivatePass(q, s)
            PROVE  pass'[p].status = pass[p].status \/ pass'[p].status # "EXPIRED"
        BY <3>3 DEF ActivatePass, TypeOK, Row
      <3>4. ASSUME NEW e, Moved(q, e)
            PROVE  pass'[p].status = pass[p].status \/ pass'[p].status # "EXPIRED"
        BY <3>4 DEF Moved, TypeOK, Row
      <3>5. CASE Block(q) \/ Unblock(q)
        BY <3>5 DEF Block, Unblock, TypeOK, Row
      <3>6. ASSUME NEW m \in Granted, PassExtend(q, m)
            PROVE  pass'[p].status = pass[p].status \/ pass'[p].status # "EXPIRED"
        BY <3>6 DEF PassExtend, TypeOK
      <3> QED
        BY <1>5, <3>1, <3>2, <3>3, <3>4, <3>5, <3>6
           DEF Request, PassActivate, AdminPassAction, ApplyDayPass, ExtendAction
    <2> QED
      BY <1>3, <2>1, <2>2
  <1>6. \A q \in Passes : pass[q].expires \in Nat
    BY RowFields
  <1>7. ASSUME NEW t \in Tasks, NEW x \in list[t], ExpirePass(t, x) PROVE pass[p].expires <= now
    <2>1. x.pass \in Passes
      BY <1>7 DEF ExpirePass, TypeOK, Overdue
    <2>2. CASE UNCHANGED <<live, pass>>
      BY <1>3, <2>2
    <2>3. CASE pass[x.pass].expires <= clock[t] /\ live' = Closed(x.pass) /\ pass' = Ended(x.pass)
      <3>1. pass[x.pass].expires <= now
        <4>1. clock[t] <= now /\ clock[t] \in Nat /\ now \in Nat
          BY <1>7 DEF ExpirePass, ListsAreDue, TypeOK
        <4> QED
          BY <1>6, <2>1, <2>3, <4>1
      <3>2. x.pass # p => pass'[p] = pass[p]
        BY <2>1, <2>3, EndedFields
      <3> QED
        BY <1>2, <2>1, <2>3, <3>1, <3>2
    <2> QED
      BY <1>7, <2>2, <2>3 DEF ExpirePass
  <1>8. ASSUME NEW t \in Tasks, NEW a \in list[t] \cap pending, pc[t] = "actions",
               a.version = pass[a.pass].version, a.kind # "SEND_EXPIRING_NOTIFICATION"
        PROVE  a.pass \in Passes /\ pass[a.pass].expires <= now
    <2>1. a.pass \in Passes
      BY DEF TypeOK, Actions
    <2>2. a.at <= now
      BY <1>8 DEF ListsAreDue
    <2>3. a.at = pass[a.pass].expires
      BY <1>8 DEF ActionsFit
    <2> QED
      BY <2>1, <2>2, <2>3
  <1>9. ASSUME NEW t \in Tasks, NEW a \in list[t], Execute(t, a) PROVE pass[p].expires <= now
    <2>1. a \in Actions /\ a.pass \in Passes /\ pc[t] = "actions"
      BY <1>9 DEF Execute, TypeOK, Actions
    <2>2. CASE UNCHANGED <<pass, live>>
      BY <1>3, <2>2
    <2>3. CASE a \in pending /\ a.version = pass[a.pass].version /\ Perform(a)
      <3>1. CASE a.pass # p
        <4>1. pass'[p] = pass[p] /\ (live' = Closed(a.pass) \/ live' = live)
          BY <2>1, <2>3, <3>1, PerformFields
        <4> QED
          BY <1>2, <2>1, <3>1, <4>1
      <3>2. CASE a.pass = p /\ a.kind = "SEND_EXPIRING_NOTIFICATION"
        BY <1>3, <2>3, <3>2 DEF Perform
      <3>3. CASE a.pass = p /\ a.kind # "SEND_EXPIRING_NOTIFICATION"
        BY <1>8, <2>1, <2>3, <3>3
      <3> QED
        BY <3>1, <3>2, <3>3
    <2> QED
      BY <1>9, <2>2, <2>3 DEF Execute
  <1>10. ASSUME NEW t \in Tasks, TaskFails(t) PROVE pass[p].expires <= now
    <2>1. pass' = pass
      BY <1>10 DEF TaskFails
    <2>2. CASE UNCHANGED live
      BY <1>3, <2>1, <2>2
    <2>3. ASSUME NEW x \in list[t], pc[t] = "passes", pass[x.pass].expires <= clock[t],
                 live' = Closed(x.pass)
          PROVE  pass[p].expires <= now
      <3>1. x.pass \in Passes
        BY <2>3 DEF TypeOK, Overdue
      <3>2. p = x.pass
        BY <1>1, <2>1, <2>3, <3>1
      <3>3. clock[t] <= now /\ clock[t] \in Nat /\ now \in Nat
        BY <2>3 DEF ListsAreDue, TypeOK
      <3> QED
        BY <1>6, <2>3, <3>2, <3>3
    <2>4. ASSUME NEW x \in list[t] \cap pending, pc[t] = "actions",
                 x.kind = "REVOKE_NETWORK_ACCESS", x.version = pass[x.pass].version,
                 live' = Closed(x.pass)
          PROVE  pass[p].expires <= now
      <3>1. x.pass \in Passes /\ pass[x.pass].expires <= now
        BY <1>8, <2>4
      <3> QED
        BY <1>1, <2>1, <2>4, <3>1
    <2> QED
      BY <1>10, <2>2, <2>3, <2>4 DEF TaskFails, First
  <1>11. ASSUME NEW t \in Tasks, ListPasses(t) \/ ListActions(t) \/ FinishTask(t) PROVE FALSE
    BY <1>3, <1>11 DEF ListPasses, ListActions, FinishTask
  <1>12. CASE Tick \/ UNCHANGED vars
    BY <1>3, <1>12 DEF Tick, vars
  <1> QED
    BY <1>4, <1>5, <1>7, <1>9, <1>10, <1>11, <1>12 DEF Next, TaskStep

(* The task takes no time that was paid for, whatever lists, clocks and    *)
(* older actions it works with.                                            *)
THEOREM PaidTimeStays == Spec => PaidTimeIsKept
  <1>1. PassInv /\ [Next]_vars =>
          [\A p \in Passes :
             (\/ pass[p].status \in {"ISSUED", "ACTIVE"} /\ pass'[p].status = "EXPIRED"
              \/ pass[p].ref \in live \ live')
               => pass[p].expires <= now \/ AdminExpire(p)]_vars
    BY StepKeepsPaidTime
  <1> QED
    BY <1>1, PassInvHolds, PTL DEF Spec, PaidTimeIsKept
=============================================================================

--------------------------- MODULE AccountsProofs ---------------------------
(***************************************************************************)
(* Proofs about Accounts, for any people, sessions and number of requests  *)
(* at once, in either backend.                                             *)
(***************************************************************************)
EXTENDS Accounts, FiniteSetTheorems, TLAPS

SessionRow == [state : {"none", "live", "revoked"}, user : Users \cup {Nobody},
               from : Sessions \cup {NoSession}]
JobRow == [user : Users \cup {Nobody}, from : Sessions \cup {NoSession},
           read : Row, next : Row, revoke : SUBSET Sessions]

LEMMA IdleType == Idle \in JobRow /\ NoRow \in Row
  BY DEF Idle, JobRow, NoRow, Row, Roles, States

LEMMA JobTypes ==
  ASSUME NEW u \in Users, NEW from \in Sessions \cup {NoSession},
         NEW read \in Row, NEW next \in Row
  PROVE  /\ [Idle EXCEPT !.user = u] \in JobRow
         /\ [Idle EXCEPT !.user = u, !.from = from] \in JobRow
         /\ [Idle EXCEPT !.user = u, !.read = read, !.next = next] \in JobRow
  BY IdleType DEF Idle, JobRow

LEMMA IssuedFields ==
  ASSUME TypeOK, NEW u \in Users, NEW from \in Sessions \cup {NoSession},
         NEW new \in Sessions, new # from
  PROVE  /\ Issued(u, from, new) \in [Sessions -> SessionRow]
         /\ \A s \in Sessions :
              IF s = new THEN Issued(u, from, new)[s] = [state |-> "live", user |-> u, from |-> from]
              ELSE IF s = from
              THEN /\ Issued(u, from, new)[s].state = "revoked"
                   /\ Issued(u, from, new)[s].user = session[s].user
                   /\ Issued(u, from, new)[s].from = session[s].from
              ELSE Issued(u, from, new)[s] = session[s]
  <1>1. /\ session \in [Sessions -> SessionRow]
        /\ \A s \in Sessions : session[s] \in SessionRow
    BY DEF TypeOK, SessionRow
  <1>3. Issued(u, from, new)[new] = [state |-> "live", user |-> u, from |-> from]
    BY DEF Issued
  <1>4. ASSUME NEW s \in Sessions, s # new, s = from
        PROVE  Issued(u, from, new)[s] = [session[s] EXCEPT !.state = "revoked"]
    BY <1>4 DEF Issued
  <1>5. ASSUME NEW s \in Sessions, s # new, s # from
        PROVE  Issued(u, from, new)[s] = session[s]
    BY <1>5 DEF Issued
  <1>6. ASSUME NEW s \in Sessions
        PROVE  /\ [session[s] EXCEPT !.state = "revoked"] \in SessionRow
               /\ [session[s] EXCEPT !.state = "revoked"].state = "revoked"
               /\ [session[s] EXCEPT !.state = "revoked"].user = session[s].user
               /\ [session[s] EXCEPT !.state = "revoked"].from = session[s].from
    BY <1>1 DEF SessionRow
  <1>7. [state |-> "live", user |-> u, from |-> from] \in SessionRow
    BY DEF SessionRow
  <1>8. \A s \in Sessions : Issued(u, from, new)[s] \in SessionRow
    BY <1>1, <1>3, <1>4, <1>5, <1>6, <1>7
  <1>9. Issued(u, from, new) = [s \in Sessions |-> Issued(u, from, new)[s]]
    BY DEF Issued
  <1>10. Issued(u, from, new) \in [Sessions -> SessionRow]
    BY <1>8, <1>9
  <1>11. ASSUME NEW s \in Sessions
         PROVE  IF s = new THEN Issued(u, from, new)[s] = [state |-> "live", user |-> u, from |-> from]
                ELSE IF s = from
                THEN /\ Issued(u, from, new)[s].state = "revoked"
                     /\ Issued(u, from, new)[s].user = session[s].user
                     /\ Issued(u, from, new)[s].from = session[s].from
                ELSE Issued(u, from, new)[s] = session[s]
    <2>1. CASE s = new
      BY <1>3, <2>1
    <2>2. CASE s # new /\ s = from
      BY <1>4, <1>6, <2>2
    <2>3. CASE s # new /\ s # from
      BY <1>5, <2>3
    <2> QED
      BY <2>1, <2>2, <2>3
  <1> QED
    BY <1>10, <1>11

LEMMA StartsFrame ==
  ASSUME TypeOK, NEW r \in Requests, NEW to, NEW j, Starts(r, to, j)
  PROVE  /\ pc[r] = "idle"
         /\ \A q \in Requests : /\ pc'[q] = IF q = r THEN to ELSE pc[q]
                                /\ job'[q] = IF q = r THEN j ELSE job[q]
  BY DEF TypeOK, Starts

LEMMA EndsFrame ==
  ASSUME TypeOK, NEW r \in Requests, Ends(r)
  PROVE  \A q \in Requests : /\ pc'[q] = IF q = r THEN "idle" ELSE pc[q]
                             /\ job'[q] = IF q = r THEN Idle ELSE job[q]
  BY DEF TypeOK, Ends

(***************************************************************************)
(* Types.                                                                  *)
(***************************************************************************)
LEMMA NextTypeOK ==
  ASSUME TypeOK, JobsFit, LiveHaveUsers, [Next]_vars
  PROVE  TypeOK'
  <1>1. ASSUME session' \in [Sessions -> SessionRow], member' \in [Users -> Row],
               pc' \in [Requests -> {"idle", "issue", "team", "revoke"}],
               job' \in [Requests -> JobRow],
               \A r \in Requests : pc'[r] = "idle" => job'[r] = Idle,
               loggedOut' \subseteq Sessions, raced' \subseteq Sessions,
               overlap' \in BOOLEAN, backend' = backend
        PROVE  TypeOK'
    BY <1>1 DEF TypeOK, SessionRow, JobRow
  <1>2. /\ session \in [Sessions -> SessionRow] /\ job \in [Requests -> JobRow]
        /\ \A s \in Sessions : session[s] \in SessionRow
    BY DEF TypeOK, SessionRow, JobRow
  <1>3. ASSUME NEW r \in Requests, NEW to \in {"issue", "team", "revoke"}, NEW j \in JobRow,
               Starts(r, to, j), UNCHANGED <<backend, member, session, loggedOut, raced, overlap>>
        PROVE  TypeOK'
    BY <1>1, <1>2, <1>3 DEF Starts, TypeOK
  <1>4. ASSUME NEW r \in Requests, Ends(r), session' \in [Sessions -> SessionRow],
               member' \in [Users -> Row], UNCHANGED <<backend, loggedOut>>,
               raced' \subseteq Sessions, overlap' \in BOOLEAN
        PROVE  TypeOK'
    BY <1>1, <1>2, <1>4, IdleType DEF Ends, TypeOK
  <1>5. ASSUME UNCHANGED <<backend, pc, job>>, session' \in [Sessions -> SessionRow],
               member' \in [Users -> Row], loggedOut' \subseteq Sessions,
               raced' \subseteq Sessions, overlap' = overlap
        PROVE  TypeOK'
    BY <1>1, <1>2, <1>5 DEF TypeOK
  <1>6. ASSUME NEW r \in Requests, NEW u \in Users, LoginCheck(r, u) PROVE TypeOK'
    <2>1. [Idle EXCEPT !.user = u] \in JobRow
      BY JobTypes, IdleType
    <2> QED
      BY <1>3, <1>6, <2>1 DEF LoginCheck
  <1>7. ASSUME NEW r \in Requests, NEW s \in Sessions, RefreshCheck(r, s) PROVE TypeOK'
    <2>1. session[s].user \in Users
      BY <1>7 DEF RefreshCheck, LiveHaveUsers
    <2>2. [Idle EXCEPT !.user = session[s].user, !.from = s] \in JobRow
      BY <2>1, JobTypes, IdleType
    <2> QED
      BY <1>3, <1>7, <2>2 DEF RefreshCheck
  <1>8. ASSUME NEW r \in Requests, NEW new \in Sessions, IssueCommit(r, new) PROVE TypeOK'
    <2>1. job[r].user \in Users /\ job[r].from \in Sessions \cup {NoSession}
      BY <1>8, <1>2 DEF IssueCommit, JobsFit, JobRow
    <2>2. session' \in [Sessions -> SessionRow]
      <3>1. new # job[r].from
        BY <1>8, <2>1, AccountsConstants DEF IssueCommit, JobsFit
      <3>2. Issued(job[r].user, job[r].from, new) \in [Sessions -> SessionRow]
        BY <2>1, <3>1, IssuedFields
      <3> QED
        BY <1>8, <3>2 DEF IssueCommit
    <2> QED
      BY <1>4, <1>8, <2>2 DEF IssueCommit, TypeOK
  <1>9. ASSUME NEW r \in Requests, NEW a \in Users, NEW u \in Users,
               NEW next \in [role : Roles, state : {"active", "inactive"}], TeamCheck(r, a, u, next)
        PROVE  TypeOK'
    <2>1. next \in Row /\ member[u] \in Row
      BY DEF Row, States, TypeOK
    <2>2. [Idle EXCEPT !.user = u, !.read = member[u], !.next = next] \in JobRow
      BY <2>1, JobTypes, IdleType
    <2> QED
      BY <1>3, <1>9, <2>2 DEF TeamCheck
  <1>10. ASSUME NEW r \in Requests, TeamRevokes(r) PROVE TypeOK'
    <2> DEFINE seen == SeenSessions(job[r].user, job[r].next)
    <2>1. seen \subseteq Sessions
      BY DEF SeenSessions
    <2>2. job' = [job EXCEPT ![r].revoke = seen]
      BY <1>10 DEF TeamRevokes
    <2> HIDE DEF seen
    <2>3. job' \in [Requests -> JobRow]
      BY <1>2, <2>1, <2>2 DEF JobRow
    <2>4. \A q \in Requests : q # r => job'[q] = job[q] /\ pc'[q] = pc[q]
      BY <1>10, <2>2 DEF TeamRevokes, TypeOK
    <2>5. pc' \in [Requests -> {"idle", "issue", "team", "revoke"}] /\ pc'[r] = "revoke"
      BY <1>10 DEF TeamRevokes, TypeOK
    <2> QED
      BY <1>1, <1>2, <1>10, <2>3, <2>4, <2>5 DEF TeamRevokes, TypeOK
  <1>11. ASSUME NEW r \in Requests, TeamCommit(r) PROVE TypeOK'
    <2> DEFINE u == job[r].user
               row == Written(member[u], job[r].read, job[r].next)
    <2>1. u \in Users
      BY <1>11 DEF TeamCommit, JobsFit
    <2>2. job[r].read \in Row /\ job[r].next \in Row /\ member[u] \in Row
      BY <1>2, <2>1 DEF JobRow, TypeOK
    <2>3. row \in Row
      BY <2>2 DEF Written, Row
    <2>4. member' = [member EXCEPT ![u] = row]
      BY <1>11 DEF TeamCommit, TypeOK
    <2> HIDE DEF u, row
    <2>5. member' \in [Users -> Row]
      BY <2>1, <2>3, <2>4 DEF TypeOK
    <2>6. session' \in [Sessions -> SessionRow]
      BY <1>2, <1>11 DEF TeamCommit, SessionRow
    <2>7. raced' \subseteq Sessions /\ overlap' \in BOOLEAN
      BY <1>11 DEF TeamCommit, TypeOK
    <2> QED
      BY <1>4, <1>11, <2>5, <2>6, <2>7 DEF TeamCommit
  <1>12. ASSUME NEW r \in Requests, Abort(r) PROVE TypeOK'
    BY <1>2, <1>4, <1>12 DEF Abort, TypeOK
  <1>13. ASSUME NEW s \in Sessions, Logout(s) \/ DjangoLogout(s) PROVE TypeOK'
    <2>1. session' \in [Sessions -> SessionRow]
      BY <1>2, <1>13 DEF Logout, DjangoLogout, SessionRow
    <2> QED
      BY <1>5, <1>13, <2>1 DEF Logout, DjangoLogout, TypeOK
  <1>14. ASSUME NEW u \in Users, NEW from \in Sessions \cup {NoSession}, NEW new \in Sessions,
                DjangoIssues(u, from, new), new # from
         PROVE  TypeOK'
    BY <1>5, <1>14, IssuedFields DEF DjangoIssues, TypeOK
  <1>15. ASSUME NEW u \in Users, NEW new \in Sessions, DjangoLogin(u, new) PROVE TypeOK'
    BY <1>14, <1>15, AccountsConstants DEF DjangoLogin
  <1>16. CASE UNCHANGED vars
    BY <1>2, <1>5, <1>16 DEF vars, TypeOK
  <1>17. ASSUME NEW from \in Sessions, NEW new \in Sessions, DjangoRefresh(from, new) PROVE TypeOK'
    <2>1. CASE session[from].state = "live"
      <3>1. session[from].user \in Users
        BY <2>1 DEF LiveHaveUsers
      <3>2. DjangoIssues(session[from].user, from, new) /\ new # from
        BY <1>17, <2>1 DEF DjangoRefresh, DjangoRotate, DjangoIssues
      <3> QED
        BY <1>14, <3>1, <3>2
    <2> QED
      BY <1>16, <1>17, <2>1 DEF DjangoRefresh
  <1>18. ASSUME NEW a \in Users, NEW u \in Users, NEW role \in Roles,
                CreateMember(a, u, role) \/ DjangoTeam(a, u, role)
         PROVE  TypeOK'
    <2>1. member' \in [Users -> Row]
      BY <1>18 DEF CreateMember, DjangoTeam, TypeOK, Row, States
    <2> QED
      BY <1>2, <1>5, <1>18, <2>1 DEF CreateMember, DjangoTeam, TypeOK
  <1> QED
    BY <1>6, <1>7, <1>8, <1>9, <1>10, <1>11, <1>12, <1>13, <1>15, <1>16, <1>17, <1>18
       DEF Next, Step

(***************************************************************************)
(* What a step does to the sessions: it issues one, or revokes some.       *)
(***************************************************************************)
Issues(u, from, new) ==
  /\ new # from
  /\ session[new].state = "none"
  /\ from \in Sessions => session[from].state = "live"
  /\ session' = Issued(u, from, new)

Revokes(R) ==
  \A s \in Sessions :
    /\ s \in R => session'[s].state = "revoked"
    /\ s \notin R => session'[s] = session[s]
    /\ session'[s].user = session[s].user
    /\ session'[s].from = session[s].from

LEMMA IssueIssues ==
  ASSUME TypeOK, JobsFit, NEW r \in Requests, NEW new \in Sessions, IssueCommit(r, new)
  PROVE  /\ job[r].user \in Users
         /\ job[r].from \in Sessions \cup {NoSession}
         /\ Issues(job[r].user, job[r].from, new)
  <1>1. job[r].user \in Users
    BY DEF IssueCommit, JobsFit
  <1>2. job[r].from \in Sessions \cup {NoSession}
    BY DEF TypeOK
  <1>3. job[r].from \in Sessions => session[job[r].from].state = "live"
    BY DEF IssueCommit, JobsFit
  <1>4. new # job[r].from
    BY <1>2, <1>3, AccountsConstants DEF IssueCommit
  <1> QED
    BY <1>1, <1>2, <1>3, <1>4 DEF IssueCommit, Issues

LEMMA LoginIssues ==
  ASSUME NEW u \in Users, NEW new \in Sessions, DjangoLogin(u, new)
  PROVE  Issues(u, NoSession, new)
  BY AccountsConstants DEF DjangoLogin, DjangoIssues, Issues

LEMMA RefreshIssues ==
  ASSUME LiveHaveUsers, NEW from \in Sessions, NEW new \in Sessions,
         DjangoRefresh(from, new), session[from].state = "live"
  PROVE  /\ session[from].user \in Users
         /\ Issues(session[from].user, from, new)
  <1>1. session[from].user \in Users
    BY DEF LiveHaveUsers
  <1>2. DjangoIssues(session[from].user, from, new)
    BY DEF DjangoRefresh, DjangoRotate
  <1> QED
    BY <1>1, <1>2 DEF DjangoIssues, Issues

LEMMA LogoutRevokes ==
  ASSUME TypeOK, NEW s \in Sessions, Logout(s) \/ DjangoLogout(s)
  PROVE  Revokes({s})
  BY DEF TypeOK, Logout, DjangoLogout, Revokes

LEMMA CommitRevokes ==
  ASSUME TypeOK, NEW r \in Requests, TeamCommit(r)
  PROVE  Revokes(job[r].revoke)
  <1>1. \A s \in Sessions : session[s] \in SessionRow
    BY DEF TypeOK, SessionRow
  <1>2. \A s \in Sessions :
          session'[s] = IF s \in job[r].revoke
                        THEN [session[s] EXCEPT !.state = "revoked"] ELSE session[s]
    BY DEF TeamCommit
  <1> QED
    BY <1>1, <1>2 DEF Revokes, SessionRow

(* What becomes of a session when one is issued. *)
LEMMA IssuesFields ==
  ASSUME TypeOK, NEW u \in Users, NEW from \in Sessions \cup {NoSession},
         NEW new \in Sessions, Issues(u, from, new), NEW s \in Sessions
  PROVE  /\ s = new => /\ session'[s].state = "live" /\ session'[s].user = u
                       /\ session'[s].from = from
         /\ s # new => /\ session'[s].user = session[s].user
                       /\ session'[s].from = session[s].from
         /\ (s # new /\ s = from) => session'[s].state = "revoked"
         /\ (s # new /\ s # from) => session'[s].state = session[s].state
  <1>1. session' = Issued(u, from, new) /\ new # from
    BY DEF Issues
  <1>2. IF s = new THEN session'[s] = [state |-> "live", user |-> u, from |-> from]
        ELSE IF s = from
        THEN /\ session'[s].state = "revoked"
             /\ session'[s].user = session[s].user
             /\ session'[s].from = session[s].from
        ELSE session'[s] = session[s]
    <2>1. \A t \in Sessions :
            IF t = new THEN session'[t] = [state |-> "live", user |-> u, from |-> from]
            ELSE IF t = from
            THEN /\ session'[t].state = "revoked"
                 /\ session'[t].user = session[t].user
                 /\ session'[t].from = session[t].from
            ELSE session'[t] = session[t]
      BY <1>1, IssuedFields
    <2> QED
      BY <2>1
  <1> QED
    BY <1>2

LEMMA SessionStep ==
  ASSUME TypeOK, JobsFit, LiveHaveUsers, [Next]_vars
  PROVE  \/ UNCHANGED <<session, loggedOut>>
         \/ /\ \E u \in Users, from \in Sessions \cup {NoSession}, new \in Sessions :
                 Issues(u, from, new)
            /\ UNCHANGED loggedOut
         \/ \E R \in SUBSET Sessions :
              /\ Revokes(R)
              /\ loggedOut' \subseteq loggedOut \cup {s \in R : session[s].state = "live"}
  <1>1. ASSUME NEW r \in Requests, NEW new \in Sessions, IssueCommit(r, new)
        PROVE  /\ \E u \in Users, from \in Sessions \cup {NoSession}, n \in Sessions :
                    Issues(u, from, n)
               /\ UNCHANGED loggedOut
    BY <1>1, IssueIssues DEF IssueCommit
  <1>2. ASSUME NEW u \in Users, NEW new \in Sessions, DjangoLogin(u, new)
        PROVE  /\ \E v \in Users, from \in Sessions \cup {NoSession}, n \in Sessions :
                    Issues(v, from, n)
               /\ UNCHANGED loggedOut
    BY <1>2, LoginIssues DEF DjangoLogin, DjangoIssues
  <1>3. ASSUME NEW f \in Sessions, NEW new \in Sessions, DjangoRefresh(f, new),
               session[f].state = "live"
        PROVE  /\ \E u \in Users, from \in Sessions \cup {NoSession}, n \in Sessions :
                    Issues(u, from, n)
               /\ UNCHANGED loggedOut
    BY <1>3, RefreshIssues DEF DjangoRefresh, DjangoRotate, DjangoIssues
  <1>4. ASSUME NEW s \in Sessions, Logout(s) \/ DjangoLogout(s)
        PROVE  \E R \in SUBSET Sessions :
                 /\ Revokes(R)
                 /\ loggedOut' \subseteq loggedOut \cup {t \in R : session[t].state = "live"}
    <2>1. loggedOut' \subseteq loggedOut \cup {t \in {s} : session[t].state = "live"}
      BY <1>4 DEF Logout, DjangoLogout
    <2> QED
      BY <1>4, <2>1, LogoutRevokes
  <1>5. ASSUME NEW r \in Requests, TeamCommit(r)
        PROVE  \E R \in SUBSET Sessions :
                 /\ Revokes(R)
                 /\ loggedOut' \subseteq loggedOut \cup {t \in R : session[t].state = "live"}
    <2>1. job[r].revoke \in SUBSET Sessions /\ loggedOut' = loggedOut
      BY <1>5 DEF TypeOK, TeamCommit
    <2> QED
      BY <1>5, <2>1, CommitRevokes
  <1>6. ASSUME NEW f \in Sessions, NEW new \in Sessions, DjangoRefresh(f, new),
               session[f].state # "live"
        PROVE  UNCHANGED <<session, loggedOut>>
    BY <1>6 DEF DjangoRefresh, vars
  <1>7. ASSUME NEW r \in Requests,
               \/ \E u \in Users : LoginCheck(r, u)
               \/ \E s \in Sessions : RefreshCheck(r, s)
               \/ \E a, u \in Users, next \in [role : Roles, state : {"active", "inactive"}] :
                    TeamCheck(r, a, u, next)
               \/ TeamRevokes(r) \/ Abort(r)
        PROVE  UNCHANGED <<session, loggedOut>>
    BY <1>7 DEF LoginCheck, RefreshCheck, TeamCheck, TeamRevokes, Abort
  <1>8. ASSUME NEW a \in Users, NEW u \in Users, NEW role \in Roles,
               CreateMember(a, u, role) \/ DjangoTeam(a, u, role)
        PROVE  UNCHANGED <<session, loggedOut>>
    BY <1>8 DEF CreateMember, DjangoTeam
  <1>9. CASE UNCHANGED vars
    BY <1>9 DEF vars
  <1> QED
    BY <1>1, <1>2, <1>3, <1>4, <1>5, <1>6, <1>7, <1>8, <1>9 DEF Next, Step

LEMMA NextLiveHaveUsers ==
  ASSUME TypeOK, JobsFit, LiveHaveUsers, [Next]_vars
  PROVE  LiveHaveUsers'
  <1>1. ASSUME NEW u \in Users, NEW from \in Sessions \cup {NoSession}, NEW new \in Sessions,
               Issues(u, from, new)
        PROVE  LiveHaveUsers'
    BY <1>1, IssuesFields DEF LiveHaveUsers
  <1>2. ASSUME NEW R \in SUBSET Sessions, Revokes(R)
        PROVE  LiveHaveUsers'
    BY <1>2 DEF LiveHaveUsers, Revokes
  <1> QED
    BY <1>1, <1>2, SessionStep DEF LiveHaveUsers

LEMMA NextSessionEndsOnce ==
  ASSUME TypeOK, JobsFit, LiveHaveUsers, SessionEndsOnce, [Next]_vars
  PROVE  SessionEndsOnce'
  <1>1. ASSUME NEW u \in Users, NEW from \in Sessions \cup {NoSession}, NEW new \in Sessions,
               Issues(u, from, new), UNCHANGED loggedOut
        PROVE  SessionEndsOnce'
    <2>1. \A s \in loggedOut : session[s].state = "revoked"
      BY DEF SessionEndsOnce, TypeOK
    <2>2. \A s, t \in Sessions : session[t].from = s =>
            session[s].state = "revoked" /\ s \notin loggedOut
      BY DEF SessionEndsOnce
    <2>3. session[new].state = "none" /\ (from \in Sessions => session[from].state = "live")
      BY <1>1 DEF Issues
    <2>4. ASSUME NEW s \in Sessions, session[s].state = "revoked"
          PROVE  session'[s].state = "revoked" /\ s # new /\ s # from
      BY <1>1, <2>3, <2>4, IssuesFields
    <2>5. ASSUME NEW s \in Sessions, NEW t \in Sessions, session'[t].from = s
          PROVE  /\ session'[s].state = "revoked" /\ s \notin loggedOut'
                 /\ \A v \in Sessions : session'[v].from = s => v = t
      <3>1. CASE t = new
        <4>1. s = from
          BY <1>1, <2>5, <3>1, IssuesFields
        <4>2. session'[s].state = "revoked"
          BY <1>1, <4>1, IssuesFields DEF Issues
        <4>3. s \notin loggedOut
          BY <2>1, <2>3, <4>1
        <4>4. ASSUME NEW v \in Sessions, session'[v].from = s, v # new PROVE FALSE
          <5>1. session[v].from = s
            BY <1>1, <4>4, IssuesFields
          <5> QED
            BY <2>2, <2>3, <4>1, <5>1
        <4> QED
          BY <1>1, <3>1, <4>2, <4>3, <4>4
      <3>2. CASE t # new
        <4>1. session[t].from = s
          BY <1>1, <2>5, <3>2, IssuesFields
        <4>2. session[s].state = "revoked" /\ s \notin loggedOut
          BY <2>2, <4>1
        <4>3. ASSUME NEW v \in Sessions, session'[v].from = s PROVE v = t
          <5>1. v # new
            BY <1>1, <2>4, <4>2, <4>3, IssuesFields
          <5>2. session[v].from = s
            BY <1>1, <4>3, <5>1, IssuesFields
          <5> QED
            BY <4>1, <5>2 DEF SessionEndsOnce
        <4> QED
          BY <1>1, <2>4, <4>2, <4>3
      <3> QED
        BY <3>1, <3>2
    <2> QED
      BY <1>1, <2>1, <2>4, <2>5 DEF SessionEndsOnce
  <1>2. ASSUME NEW R \in SUBSET Sessions, Revokes(R),
               loggedOut' \subseteq loggedOut \cup {s \in R : session[s].state = "live"}
        PROVE  SessionEndsOnce'
    <2>1. \A s \in Sessions : session[s].state = "revoked" => session'[s].state = "revoked"
      BY <1>2 DEF Revokes
    <2>2. \A s \in loggedOut' : session'[s].state = "revoked"
      BY <1>2, <2>1 DEF Revokes, SessionEndsOnce, TypeOK
    <2>3. \A s, t \in Sessions : session'[t].from = s => session[t].from = s
      BY <1>2 DEF Revokes
    <2>4. ASSUME NEW s \in Sessions, NEW t \in Sessions, session'[t].from = s
          PROVE  /\ session'[s].state = "revoked" /\ s \notin loggedOut'
                 /\ \A v \in Sessions : session'[v].from = s => v = t
      <3>1. session[t].from = s
        BY <2>3, <2>4
      <3>2. /\ session[s].state = "revoked" /\ s \notin loggedOut
            /\ \A v \in Sessions : session[v].from = s => v = t
        BY <3>1 DEF SessionEndsOnce
      <3> QED
        BY <1>2, <2>1, <2>3, <3>2
    <2> QED
      BY <2>2, <2>4 DEF SessionEndsOnce
  <1>3. CASE UNCHANGED <<session, loggedOut>>
    BY <1>3 DEF SessionEndsOnce
  <1> QED
    BY <1>1, <1>2, <1>3, SessionStep

(***************************************************************************)
(* Requests under way.                                                     *)
(***************************************************************************)
LEMMA DjangoIdle ==
  ASSUME JobsFit, backend = "django", NEW r \in Requests
  PROVE  pc[r] = "idle"
  BY DEF JobsFit

LEMMA IdleFields == Idle.from = NoSession /\ NoSession \notin Sessions
  BY AccountsConstants DEF Idle

(* The steps that start or end no request. *)
LEMMA NextJobsOutside ==
  ASSUME TypeOK, JobsFit, LiveHaveUsers,
         \/ \E s \in Sessions : Logout(s) \/ DjangoLogout(s)
         \/ \E u \in Users, new \in Sessions : DjangoLogin(u, new)
         \/ \E from, new \in Sessions : DjangoRefresh(from, new)
         \/ \E a, u \in Users, role \in Roles : CreateMember(a, u, role) \/ DjangoTeam(a, u, role)
         \/ UNCHANGED vars
  PROVE  JobsFit'
  <1>1. UNCHANGED <<backend, pc, job>>
    BY DEF Logout, DjangoLogout, DjangoLogin, DjangoRefresh, DjangoRotate, DjangoIssues,
           CreateMember, DjangoTeam, vars
  <1>2. ASSUME NEW s \in Sessions, NEW r \in Requests, pc[r] = "issue", job[r].from = s
        PROVE  session'[s].state = "live"
    <2>1. session[s].state = "live" /\ backend = "fastapi"
      BY <1>2 DEF JobsFit
    <2>2. CASE \E t \in Sessions : Logout(t)
      <3>1. PICK t \in Sessions : Logout(t)
        BY <2>2
      <3>2. t # s
        BY <1>2, <3>1 DEF Logout, SessionLocked
      <3> QED
        BY <2>1, <3>1, <3>2 DEF Logout, TypeOK
    <2>3. CASE \E a, u \in Users, role \in Roles : CreateMember(a, u, role)
      BY <2>1, <2>3 DEF CreateMember
    <2>4. CASE UNCHANGED vars
      BY <2>1, <2>4 DEF vars
    <2>5. CASE \E from, new \in Sessions : DjangoRefresh(from, new)
      BY <2>1, <2>4, <2>5 DEF DjangoRefresh, DjangoRotate, DjangoIssues
    <2> QED
      BY <2>1, <2>2, <2>3, <2>4, <2>5 DEF DjangoLogout, DjangoLogin, DjangoIssues, DjangoTeam
  <1> QED
    BY <1>1, <1>2 DEF JobsFit

LEMMA NextJobsStart ==
  ASSUME TypeOK, JobsFit, LiveHaveUsers, NEW r \in Requests,
         \/ \E u \in Users : LoginCheck(r, u)
         \/ \E s \in Sessions : RefreshCheck(r, s)
         \/ \E a, u \in Users, next \in [role : Roles, state : {"active", "inactive"}] :
              TeamCheck(r, a, u, next)
  PROVE  JobsFit'
  <1>1. backend = "fastapi" /\ UNCHANGED <<backend, session>>
    BY DEF LoginCheck, RefreshCheck, TeamCheck
  <1>2. ASSUME NEW to, NEW j, Starts(r, to, j), j.user \in Users,
               to \in {"team", "revoke"} => j.next.state # "absent" /\ j.read.state # "absent",
               to = "issue" /\ j.from \in Sessions =>
                 session[j.from].state = "live" /\ ~SessionLocked(j.from)
        PROVE  JobsFit'
    <2>1. \A q \in Requests : /\ pc'[q] = IF q = r THEN to ELSE pc[q]
                              /\ job'[q] = IF q = r THEN j ELSE job[q]
      BY <1>2, StartsFrame
    <2>2. ASSUME NEW q \in Requests
          PROVE  /\ pc'[q] # "idle" => backend' = "fastapi" /\ job'[q].user \in Users
                 /\ pc'[q] \in {"team", "revoke"} =>
                      job'[q].next.state # "absent" /\ job'[q].read.state # "absent"
      BY <1>1, <1>2, <2>1 DEF JobsFit
    <2>3. ASSUME NEW q \in Requests, pc'[q] = "issue", job'[q].from \in Sessions
          PROVE  session'[job'[q].from].state = "live"
      BY <1>1, <1>2, <2>1, <2>3 DEF JobsFit
    <2>4. ASSUME NEW q \in Requests, pc'[q] = "issue", job'[q].from \in Sessions,
                 NEW p \in Requests, pc'[p] = "issue", job'[p].from = job'[q].from
          PROVE  p = q
      <3>1. CASE p # r /\ q # r
        BY <2>1, <2>4, <3>1 DEF JobsFit
      <3>2. CASE p = r /\ q # r
        BY <1>2, <2>1, <2>4, <3>2 DEF SessionLocked
      <3>3. CASE q = r /\ p # r
        BY <1>2, <2>1, <2>4, <3>3 DEF SessionLocked
      <3> QED
        BY <3>1, <3>2, <3>3
    <2> QED
      BY <2>2, <2>3, <2>4 DEF JobsFit
  <1>3. ASSUME NEW u \in Users, LoginCheck(r, u) PROVE JobsFit'
    <2> DEFINE j == [Idle EXCEPT !.user = u]
    <2>1. j.user = u /\ j.from = NoSession
      BY DEF Idle
    <2>2. Starts(r, "issue", j)
      BY <1>3 DEF LoginCheck
    <2> HIDE DEF j
    <2> QED
      BY <1>2, <2>1, <2>2, AccountsConstants
  <1>4. ASSUME NEW s \in Sessions, RefreshCheck(r, s) PROVE JobsFit'
    <2> DEFINE j == [Idle EXCEPT !.user = session[s].user, !.from = s]
    <2>1. j.user = session[s].user /\ j.from = s
      BY DEF Idle
    <2>2. Starts(r, "issue", j) /\ session[s].state = "live" /\ ~SessionLocked(s)
      BY <1>4 DEF RefreshCheck
    <2>3. session[s].user \in Users
      BY <2>2 DEF LiveHaveUsers
    <2> HIDE DEF j
    <2> QED
      BY <1>2, <2>1, <2>2, <2>3
  <1>5. ASSUME NEW a \in Users, NEW u \in Users,
               NEW next \in [role : Roles, state : {"active", "inactive"}], TeamCheck(r, a, u, next)
        PROVE  JobsFit'
    <2> DEFINE j == [Idle EXCEPT !.user = u, !.read = member[u], !.next = next]
    <2>1. j.user = u /\ j.next = next /\ j.read = member[u]
      BY DEF Idle
    <2>2. Starts(r, "team", j) /\ member[u].state # "absent" /\ next.state # "absent"
      BY <1>5 DEF TeamCheck
    <2> HIDE DEF j
    <2> QED
      BY <1>2, <2>1, <2>2
  <1> QED
    BY <1>3, <1>4, <1>5

LEMMA NextJobsFit ==
  ASSUME TypeOK, JobsFit, LiveHaveUsers, [Next]_vars
  PROVE  JobsFit'
  <1>1. ASSUME NEW r \in Requests, Ends(r), UNCHANGED backend,
               \A q \in Requests \ {r} : pc[q] = "issue" /\ job[q].from \in Sessions =>
                 session'[job[q].from].state = "live"
        PROVE  JobsFit'
    <2>1. \A q \in Requests : /\ pc'[q] = IF q = r THEN "idle" ELSE pc[q]
                              /\ job'[q] = IF q = r THEN Idle ELSE job[q]
      BY <1>1, EndsFrame
    <2> QED
      BY <1>1, <2>1 DEF JobsFit
  <1>2. ASSUME NEW r \in Requests, NEW new \in Sessions, IssueCommit(r, new) PROVE JobsFit'
    <2>1. Issues(job[r].user, job[r].from, new) /\ job[r].user \in Users
          /\ job[r].from \in Sessions \cup {NoSession} /\ pc[r] = "issue"
      BY <1>2, IssueIssues DEF IssueCommit
    <2>2. ASSUME NEW q \in Requests \ {r}, pc[q] = "issue", job[q].from \in Sessions
          PROVE  session'[job[q].from].state = "live"
      <3>1. session[job[q].from].state = "live" /\ job[q].from # job[r].from
        BY <2>1, <2>2 DEF JobsFit
      <3> QED
        BY <2>1, <2>2, <3>1, IssuesFields
    <2> QED
      BY <1>1, <1>2, <2>2 DEF IssueCommit
  <1>3. ASSUME NEW r \in Requests, TeamCommit(r) PROVE JobsFit'
    <2>1. ASSUME NEW q \in Requests \ {r}, pc[q] = "issue", job[q].from \in Sessions
          PROVE  session'[job[q].from].state = "live"
      <3>1. session[job[q].from].state = "live"
        BY <2>1 DEF JobsFit
      <3>2. job[q].from \notin job[r].revoke
        BY <1>3, <2>1 DEF TeamCommit, SessionLocked
      <3> QED
        BY <1>3, <2>1, <3>1, <3>2, CommitRevokes DEF Revokes
    <2> QED
      BY <1>1, <1>3, <2>1 DEF TeamCommit
  <1>4. ASSUME NEW r \in Requests, Abort(r) PROVE JobsFit'
    BY <1>1, <1>4 DEF Abort, JobsFit
  <1>5. ASSUME NEW r \in Requests, TeamRevokes(r) PROVE JobsFit'
    <2>1. /\ pc[r] = "team" /\ UNCHANGED <<backend, session>>
          /\ \A q \in Requests : /\ pc'[q] = IF q = r THEN "revoke" ELSE pc[q]
                                 /\ job'[q].user = job[q].user /\ job'[q].from = job[q].from
                                 /\ job'[q].next = job[q].next /\ job'[q].read = job[q].read
      BY <1>5 DEF TeamRevokes, TypeOK
    <2> QED
      BY <2>1 DEF JobsFit
  <1> QED
    BY <1>2, <1>3, <1>4, <1>5, NextJobsOutside, NextJobsStart DEF Next, Step

(***************************************************************************)
(* Deactivated members.                                                    *)
(***************************************************************************)
SessionsKept ==
  \A s \in Sessions : session'[s].state = "live" =>
    /\ session[s].state = "live"
    /\ session'[s].user = session[s].user
    /\ s \in raced => s \in raced'

LEMMA RevokingKeeps ==
  ASSUME NEW R \in SUBSET Sessions, Revokes(R), raced' = raced \ R
  PROVE  SessionsKept /\ \A s \in R : session'[s].state # "live"
  BY DEF Revokes, SessionsKept

LEMMA OtherStepsKeep ==
  ASSUME TypeOK,
         \/ \E r \in Requests, u \in Users : LoginCheck(r, u)
         \/ \E r \in Requests, s \in Sessions : RefreshCheck(r, s)
         \/ \E r \in Requests, a, u \in Users,
               next \in [role : Roles, state : {"active", "inactive"}] : TeamCheck(r, a, u, next)
         \/ \E r \in Requests : TeamRevokes(r) \/ Abort(r)
         \/ \E s \in Sessions : Logout(s)
         \/ \E a, u \in Users, role \in Roles : CreateMember(a, u, role)
         \/ UNCHANGED vars
  PROVE  SessionsKept
  <1>1. ASSUME NEW s \in Sessions, Logout(s) PROVE SessionsKept
    BY <1>1, LogoutRevokes, RevokingKeeps DEF Logout
  <1>2. CASE UNCHANGED <<session, raced>>
    BY <1>2 DEF SessionsKept
  <1> QED
    BY <1>1, <1>2 DEF LoginCheck, RefreshCheck, TeamCheck, TeamRevokes, Abort, CreateMember, vars

(* A session is issued to a member being deactivated, or already so, only  *)
(* as one that raced with it.                                              *)
LEMMA IssuedRaced ==
  ASSUME TypeOK, JobsFit, NEW r \in Requests, NEW new \in Sessions, IssueCommit(r, new),
         NEW s \in Sessions, session'[s].state = "live"
  PROVE  \/ /\ s = new /\ session'[s].user = job[r].user /\ job[r].user \in Users
            /\ (member[job[r].user].state = "inactive" \/ Deactivating(job[r].user)) => s \in raced'
         \/ /\ session[s].state = "live" /\ session'[s].user = session[s].user
            /\ s \in raced => s \in raced'
  <1>1. /\ Issues(job[r].user, job[r].from, new) /\ job[r].user \in Users
        /\ job[r].from \in Sessions \cup {NoSession}
    BY IssueIssues
  <1>2. CASE s = new
    BY <1>1, <1>2, IssuesFields DEF IssueCommit
  <1>3. CASE s # new
    <2>1. s # job[r].from /\ session[s].state = "live" /\ session'[s].user = session[s].user
      BY <1>1, <1>3, IssuesFields
    <2> QED
      BY <2>1 DEF IssueCommit
  <1> QED
    BY <1>2, <1>3

LEMMA NextRevokesFit ==
  ASSUME TypeOK, JobsFit, LiveHaveUsers, RevokesFit, [Next]_vars
  PROVE  RevokesFit'
  <1>1. CASE backend = "django"
    <2>1. backend' = "django"
      BY <1>1 DEF Next, Step, LoginCheck, RefreshCheck, IssueCommit, TeamCheck, TeamRevokes, TeamCommit,
                  Abort, Logout, DjangoLogout, DjangoLogin, DjangoRefresh, DjangoRotate, DjangoIssues,
                  CreateMember, DjangoTeam, vars
    <2>2. JobsFit'
      BY NextJobsFit
    <2> QED
      BY <2>1, <2>2 DEF JobsFit, RevokesFit
  <1>2. ASSUME SessionsKept,
               \A q \in Requests : pc'[q] = "revoke" => pc[q] = "revoke" /\ job'[q] = job[q]
        PROVE  RevokesFit'
    BY <1>2 DEF RevokesFit, SessionsKept
  <1>3. ASSUME NEW r \in Requests, NEW to, NEW j, Starts(r, to, j), to # "revoke"
        PROVE  \A q \in Requests : pc'[q] = "revoke" => pc[q] = "revoke" /\ job'[q] = job[q]
    BY <1>3, StartsFrame
  <1>4. ASSUME NEW r \in Requests, Ends(r)
        PROVE  \A q \in Requests : pc'[q] = "revoke" => pc[q] = "revoke" /\ job'[q] = job[q]
    BY <1>4, EndsFrame
  <1>5. ASSUME NEW r \in Requests,
               \/ \E u \in Users : LoginCheck(r, u)
               \/ \E s \in Sessions : RefreshCheck(r, s)
               \/ \E a, u \in Users, next \in [role : Roles, state : {"active", "inactive"}] :
                    TeamCheck(r, a, u, next)
        PROVE  RevokesFit'
    <2>1. SessionsKept
      BY <1>5, OtherStepsKeep
    <2> QED
      BY <1>2, <1>3, <1>5, <2>1 DEF LoginCheck, RefreshCheck, TeamCheck
  <1>6. ASSUME NEW r \in Requests, Abort(r) PROVE RevokesFit'
    BY <1>2, <1>4, <1>6, OtherStepsKeep DEF Abort
  <1>7. ASSUME NEW r \in Requests, TeamCommit(r) PROVE RevokesFit'
    <2>1. SessionsKept
      BY <1>7, CommitRevokes, RevokingKeeps DEF TeamCommit, TypeOK
    <2> QED
      BY <1>2, <1>4, <1>7, <2>1 DEF TeamCommit
  <1>8. ASSUME NEW r \in Requests, TeamRevokes(r) PROVE RevokesFit'
    <2>1. /\ pc'[r] = "revoke" /\ UNCHANGED <<session, raced>>
          /\ job'[r].revoke = SeenSessions(job[r].user, job[r].next)
          /\ job'[r].user = job[r].user /\ job'[r].next = job[r].next
          /\ job'[r].read = job[r].read
          /\ \A q \in Requests \ {r} : pc'[q] = pc[q] /\ job'[q] = job[q]
      BY <1>8 DEF TeamRevokes, TypeOK
    <2>2. ASSUME NEW q \in Requests, pc'[q] = "revoke", job'[q].next.state = "inactive",
                 job'[q].read.state = "active", NEW s \in Sessions,
                 session'[s].state = "live", session'[s].user = job'[q].user
          PROVE  s \in job'[q].revoke \cup raced'
      <3>1. CASE q = r
        BY <2>1, <2>2, <3>1 DEF SeenSessions
      <3>2. CASE q # r
        BY <2>1, <2>2, <3>2 DEF RevokesFit
      <3> QED
        BY <3>1, <3>2
    <2> QED
      BY <2>2 DEF RevokesFit
  <1>9. ASSUME NEW r \in Requests, NEW new \in Sessions, IssueCommit(r, new) PROVE RevokesFit'
    <2>1. Ends(r)
      BY <1>9 DEF IssueCommit
    <2>2. ASSUME NEW q \in Requests, pc'[q] = "revoke", job'[q].next.state = "inactive",
                 job'[q].read.state = "active", NEW s \in Sessions,
                 session'[s].state = "live", session'[s].user = job'[q].user
          PROVE  s \in job'[q].revoke \cup raced'
      <3>1. pc[q] = "revoke" /\ job'[q] = job[q]
        BY <1>4, <2>1, <2>2
      <3>2. CASE s = new /\ session'[s].user = job[r].user
        <4>1. Deactivating(job[r].user)
          BY <2>2, <3>1, <3>2 DEF Deactivating
        <4>2. s \in raced'
          BY <1>9, <3>2, <4>1 DEF IssueCommit
        <4> QED
          BY <4>2
      <3>3. CASE /\ session[s].state = "live" /\ session'[s].user = session[s].user
                 /\ s \in raced => s \in raced'
        BY <2>2, <3>1, <3>3 DEF RevokesFit
      <3> QED
        BY <1>9, <2>2, <3>2, <3>3, IssuedRaced
    <2> QED
      BY <2>2 DEF RevokesFit
  <1>10. ASSUME backend = "fastapi",
               \/ \E s \in Sessions : Logout(s)
               \/ \E a, u \in Users, role \in Roles : CreateMember(a, u, role)
               \/ UNCHANGED vars
         PROVE  RevokesFit'
    <2>1. SessionsKept
      BY <1>10, OtherStepsKeep
    <2>2. UNCHANGED <<pc, job>>
      BY <1>10 DEF Logout, CreateMember, vars
    <2> QED
      BY <1>2, <2>1, <2>2
  <1>11. CASE backend = "fastapi"
    <2>1. ASSUME NEW from \in Sessions, NEW new \in Sessions, DjangoRefresh(from, new)
          PROVE  UNCHANGED vars
      BY <1>11, <2>1 DEF DjangoRefresh, DjangoRotate, DjangoIssues
    <2> QED
      BY <1>5, <1>6, <1>7, <1>8, <1>9, <1>10, <1>11, <2>1
         DEF Next, Step, DjangoLogout, DjangoLogin, DjangoIssues, DjangoTeam
  <1> QED
    BY <1>1, <1>11 DEF TypeOK

LEMMA BackendStays ==
  ASSUME [Next]_vars
  PROVE  backend' = backend
  BY DEF Next, Step, LoginCheck, RefreshCheck, IssueCommit, TeamCheck, TeamRevokes, TeamCommit,
         Abort, Logout, DjangoLogout, DjangoLogin, DjangoRefresh, DjangoRotate, DjangoIssues,
         CreateMember, DjangoTeam, vars

(* What a step does to the members. *)
LEMMA MemberStep ==
  ASSUME TypeOK, JobsFit, [Next]_vars
  PROVE  \/ UNCHANGED member
         \/ \E r \in Requests : TeamCommit(r)
         \/ \E a, u \in Users, role \in Roles : CreateMember(a, u, role) \/ DjangoTeam(a, u, role)
  BY DEF Next, Step, LoginCheck, RefreshCheck, IssueCommit, TeamCheck, TeamRevokes,
         Abort, Logout, DjangoLogout, DjangoLogin, DjangoRefresh, DjangoRotate, DjangoIssues, vars

LEMMA NextDjangoKeepsActive ==
  ASSUME TypeOK, JobsFit, DjangoKeepsActive, [Next]_vars
  PROVE  DjangoKeepsActive'
  <1> SUFFICES ASSUME backend = "django" PROVE \A v \in Users : member'[v].state # "inactive"
    BY BackendStays DEF DjangoKeepsActive
  <1>1. CASE UNCHANGED member
    BY <1>1 DEF DjangoKeepsActive
  <1>2. ASSUME NEW r \in Requests, TeamCommit(r) PROVE FALSE
    BY <1>2, DjangoIdle DEF TeamCommit
  <1>3. ASSUME NEW a \in Users, NEW u \in Users, NEW role \in Roles,
               CreateMember(a, u, role) \/ DjangoTeam(a, u, role)
        PROVE  \A v \in Users : member'[v].state # "inactive"
    BY <1>3 DEF CreateMember, DjangoTeam, TypeOK, DjangoKeepsActive
  <1> QED
    BY <1>1, <1>2, <1>3, MemberStep

LEMMA NextDeactivation ==
  ASSUME TypeOK, JobsFit, LiveHaveUsers, RevokesFit, DjangoKeepsActive,
         DeactivationEndsSessions, [Next]_vars
  PROVE  DeactivationEndsSessions'
  <1>1. DjangoKeepsActive' /\ LiveHaveUsers' /\ backend' = backend
    BY NextDjangoKeepsActive, NextLiveHaveUsers, BackendStays
  <1>2. CASE backend = "django"
    BY <1>1, <1>2 DEF DjangoKeepsActive, LiveHaveUsers, DeactivationEndsSessions
  <1>3. ASSUME SessionsKept,
               \A v \in Users : member'[v].state = "inactive" => member[v].state = "inactive"
        PROVE  DeactivationEndsSessions'
    BY <1>1, <1>3 DEF DeactivationEndsSessions, SessionsKept, LiveHaveUsers
  <1>4. ASSUME NEW r \in Requests, NEW new \in Sessions, IssueCommit(r, new)
        PROVE  DeactivationEndsSessions'
    <2>1. UNCHANGED member
      BY <1>4 DEF IssueCommit
    <2>2. ASSUME NEW s \in Sessions, session'[s].state = "live",
                 member'[session'[s].user].state = "inactive"
          PROVE  s \in raced'
      <3>1. CASE /\ s = new /\ session'[s].user = job[r].user
                 /\ (member[job[r].user].state = "inactive" \/ Deactivating(job[r].user)) => s \in raced'
        BY <2>1, <2>2, <3>1
      <3>2. CASE /\ session[s].state = "live" /\ session'[s].user = session[s].user
                 /\ s \in raced => s \in raced'
        BY <2>1, <2>2, <3>2 DEF DeactivationEndsSessions
      <3> QED
        BY <1>4, <2>2, <3>1, <3>2, IssuedRaced
    <2> QED
      BY <2>2 DEF DeactivationEndsSessions
  <1>5. ASSUME NEW r \in Requests, TeamCommit(r)
        PROVE  DeactivationEndsSessions'
    <2> DEFINE u == job[r].user
    <2>1. u \in Users /\ pc[r] = "revoke" /\ job[r].revoke \in SUBSET Sessions
      BY <1>5 DEF TeamCommit, JobsFit, TypeOK
    <2>2. SessionsKept /\ \A s \in job[r].revoke : session'[s].state # "live"
      BY <1>5, <2>1, CommitRevokes, RevokingKeeps DEF TeamCommit
    <2>3. \A v \in Users \ {u} : member'[v] = member[v]
      BY <1>5 DEF TeamCommit, TypeOK
    <2>4. member'[u] = Written(member[u], job[r].read, job[r].next)
      BY <1>5, <2>1 DEF TeamCommit, TypeOK
    <2>5. member'[u].state = IF job[r].next.state # job[r].read.state THEN job[r].next.state
                             ELSE member[u].state
      BY <2>4 DEF Written
    <2> HIDE DEF u
    <2>6. ASSUME NEW s \in Sessions, session'[s].state = "live",
                 member'[session'[s].user].state = "inactive"
          PROVE  s \in raced'
      <3>1. /\ session[s].state = "live" /\ session'[s].user = session[s].user
            /\ s \in raced => s \in raced'
        BY <2>2, <2>6 DEF SessionsKept
      <3>2. session[s].user \in Users
        BY <3>1 DEF LiveHaveUsers
      <3>3. CASE member[session[s].user].state = "inactive"
        BY <3>1, <3>3 DEF DeactivationEndsSessions
      <3>4. CASE member[session[s].user].state # "inactive"
        <4>1. session[s].user = u
          BY <2>3, <2>6, <3>1, <3>2, <3>4
        <4>2. job[r].next.state = "inactive" /\ job[r].next.state # job[r].read.state
          BY <2>5, <2>6, <3>1, <3>4, <4>1
        <4>3. job[r].read.state = "active"
          BY <1>5, <2>1, <4>2 DEF TypeOK, JobsFit, Row, States
        <4>4. s \in job[r].revoke \cup raced
          BY <2>1, <3>1, <4>1, <4>2, <4>3 DEF RevokesFit, u
        <4> QED
          BY <2>2, <2>6, <3>1, <4>4
      <3> QED
        BY <3>3, <3>4
    <2> QED
      BY <2>6 DEF DeactivationEndsSessions
  <1>6. ASSUME NEW a \in Users, NEW v \in Users, NEW role \in Roles, CreateMember(a, v, role)
        PROVE  DeactivationEndsSessions'
    <2>1. SessionsKept
      BY <1>6, OtherStepsKeep
    <2>2. \A w \in Users : member'[w].state = "inactive" => member[w].state = "inactive"
      BY <1>6 DEF CreateMember, TypeOK
    <2> QED
      BY <1>3, <2>1, <2>2
  <1>7. ASSUME \/ \E r \in Requests, u \in Users : LoginCheck(r, u)
               \/ \E r \in Requests, s \in Sessions : RefreshCheck(r, s)
               \/ \E r \in Requests, a, u \in Users,
                     next \in [role : Roles, state : {"active", "inactive"}] : TeamCheck(r, a, u, next)
               \/ \E r \in Requests : TeamRevokes(r) \/ Abort(r)
               \/ \E s \in Sessions : Logout(s)
               \/ UNCHANGED vars
        PROVE  DeactivationEndsSessions'
    <2>1. SessionsKept
      BY <1>7, OtherStepsKeep
    <2>2. UNCHANGED member
      BY <1>7 DEF LoginCheck, RefreshCheck, TeamCheck, TeamRevokes, Abort, Logout, vars
    <2> QED
      BY <1>3, <2>1, <2>2
  <1>8. CASE backend = "fastapi"
    <2>1. ASSUME NEW from \in Sessions, NEW new \in Sessions, DjangoRefresh(from, new)
          PROVE  UNCHANGED vars
      BY <1>8, <2>1 DEF DjangoRefresh, DjangoRotate, DjangoIssues
    <2> QED
      BY <1>4, <1>5, <1>6, <1>7, <1>8, <2>1
         DEF Next, Step, DjangoLogout, DjangoLogin, DjangoIssues, DjangoTeam
  <1> QED
    BY <1>2, <1>8 DEF TypeOK

(***************************************************************************)
(* The owners.                                                             *)
(***************************************************************************)
LEMMA AnotherOwner ==
  ASSUME NEW u \in Users, Cardinality(Owners) > 1
  PROVE  \E v \in Owners : v # u
  <1> SUFFICES ASSUME Owners \subseteq {u} PROVE FALSE
    OBVIOUS
  <1>1. IsFiniteSet({u}) /\ Cardinality({u}) = 1
    BY FS_Singleton
  <1>2. IsFiniteSet(Owners) /\ Cardinality(Owners) <= Cardinality({u})
    BY <1>1, FS_Subset
  <1>3. Cardinality(Owners) \in Nat
    BY <1>2, FS_CardinalityType
  <1> QED
    BY <1>1, <1>2, <1>3

Endangers(j) ==
  /\ j.read.role = "OWNER"
  /\ j.next.role # "OWNER" \/ j.next.state = "inactive"

Stands(r) ==
  /\ member[job[r].user] = job[r].read
  /\ Endangers(job[r]) => \E v \in Owners : v # job[r].user

LEMMA ChecksAreStands ==
  ChecksStand <=> (~overlap => \A r \in Requests : pc[r] \in {"team", "revoke"} => Stands(r))
  BY DEF ChecksStand, Stands, Endangers

LEMMA NextChecksStand ==
  ASSUME TypeOK, JobsFit, ChecksStand, [Next]_vars
  PROVE  ChecksStand'
  <1>1. ASSUME UNCHANGED <<member, overlap>>,
               \A q \in Requests : pc'[q] \in {"team", "revoke"} =>
                 /\ pc[q] \in {"team", "revoke"}
                 /\ job'[q].user = job[q].user /\ job'[q].read = job[q].read
                 /\ job'[q].next = job[q].next
        PROVE  ChecksStand'
    BY <1>1 DEF ChecksStand, Owners
  <1>2. ASSUME NEW r \in Requests, Ends(r), UNCHANGED <<member, overlap>>
        PROVE  ChecksStand'
    BY <1>1, <1>2, EndsFrame
  <1>3. ASSUME NEW r \in Requests, NEW j, Starts(r, "issue", j), UNCHANGED <<member, overlap>>
        PROVE  ChecksStand'
    BY <1>1, <1>3, StartsFrame
  <1>4. ASSUME NEW r \in Requests, TeamRevokes(r) PROVE ChecksStand'
    <2>1. UNCHANGED <<member, overlap>> /\ pc[r] = "team"
      BY <1>4 DEF TeamRevokes
    <2>2. \A q \in Requests :
            /\ pc'[q] = IF q = r THEN "revoke" ELSE pc[q]
            /\ job'[q].user = job[q].user /\ job'[q].read = job[q].read
            /\ job'[q].next = job[q].next
      BY <1>4 DEF TeamRevokes, TypeOK
    <2> QED
      BY <1>1, <2>1, <2>2
  <1>5. ASSUME NEW r \in Requests, NEW a \in Users, NEW u \in Users,
               NEW next \in [role : Roles, state : {"active", "inactive"}], TeamCheck(r, a, u, next)
        PROVE  ChecksStand'
    <2> DEFINE j == [Idle EXCEPT !.user = u, !.read = member[u], !.next = next]
    <2>1. j.user = u /\ j.next = next /\ j.read = member[u]
      BY DEF Idle
    <2>2. Starts(r, "team", j) /\ UNCHANGED <<member, overlap>> /\ LeavesOwner(member[u], next)
      BY <1>5 DEF TeamCheck
    <2> HIDE DEF j
    <2>3. \A q \in Requests : /\ pc'[q] = IF q = r THEN "team" ELSE pc[q]
                              /\ job'[q] = IF q = r THEN j ELSE job[q]
      BY <2>2, StartsFrame
    <2>4. Endangers(j) => \E v \in Owners : v # u
      BY <2>1, <2>2, AnotherOwner DEF LeavesOwner, Endangers
    <2>5. Owners' = Owners
      BY <2>2 DEF Owners
    <2>6. ASSUME ~overlap', NEW q \in Requests, pc'[q] \in {"team", "revoke"}
          PROVE  /\ member'[job'[q].user] = job'[q].read
                 /\ Endangers(job'[q]) => \E v \in Owners' : v # job'[q].user
      <3>1. CASE q = r
        BY <2>1, <2>2, <2>3, <2>4, <2>5, <3>1
      <3>2. CASE q # r
        <4>1. Stands(q) /\ job'[q] = job[q]
          BY <2>2, <2>3, <2>6, <3>2, ChecksAreStands
        <4> QED
          BY <2>2, <2>5, <4>1 DEF Stands
      <3> QED
        BY <3>1, <3>2
    <2> QED
      BY <2>6 DEF ChecksStand, Endangers
  <1>6. ASSUME NEW r \in Requests, TeamCommit(r) PROVE ChecksStand'
    <2>1. overlap' \/ \A q \in Requests \ {r} : pc[q] \notin {"team", "revoke"}
      BY <1>6 DEF TeamCommit
    <2>2. \A q \in Requests : pc'[q] = IF q = r THEN "idle" ELSE pc[q]
      BY <1>6, EndsFrame DEF TeamCommit
    <2> QED
      BY <2>1, <2>2 DEF ChecksStand
  <1>7. ASSUME NEW a \in Users, NEW u \in Users, NEW role \in Roles, CreateMember(a, u, role)
        PROVE  ChecksStand'
    <2>1. /\ member[u].state = "absent" /\ UNCHANGED <<pc, job, overlap>>
          /\ \A v \in Users \ {u} : member'[v] = member[v]
      BY <1>7 DEF CreateMember, TypeOK
    <2>2. Owners \subseteq Owners'
      BY <2>1 DEF Owners
    <2>3. ASSUME ~overlap', NEW q \in Requests, pc'[q] \in {"team", "revoke"}
          PROVE  /\ member'[job'[q].user] = job'[q].read
                 /\ Endangers(job'[q]) => \E v \in Owners' : v # job'[q].user
      <3>1. Stands(q)
        BY <2>1, <2>3, ChecksAreStands
      <3>2. job[q].user \in Users /\ job[q].read.state # "absent"
        BY <2>1, <2>3 DEF JobsFit
      <3>3. job[q].user # u
        BY <2>1, <3>1, <3>2 DEF Stands
      <3> QED
        BY <2>1, <2>2, <3>1, <3>2, <3>3 DEF Stands
    <2> QED
      BY <2>3 DEF ChecksStand, Endangers
  <1>8. ASSUME NEW a \in Users, NEW u \in Users, NEW role \in Roles, DjangoTeam(a, u, role)
        PROVE  ChecksStand'
    <2>1. \A q \in Requests : pc'[q] = "idle"
      BY <1>8, DjangoIdle DEF DjangoTeam
    <2> QED
      BY <2>1 DEF ChecksStand
  <1>9. ASSUME \/ \E s \in Sessions : Logout(s) \/ DjangoLogout(s)
               \/ \E u \in Users, new \in Sessions : DjangoLogin(u, new)
               \/ \E from, new \in Sessions : DjangoRefresh(from, new)
               \/ UNCHANGED vars
        PROVE  ChecksStand'
    <2>1. UNCHANGED <<member, overlap, pc, job>>
      BY <1>9 DEF Logout, DjangoLogout, DjangoLogin, DjangoRefresh, DjangoRotate, DjangoIssues, vars
    <2> QED
      BY <1>1, <2>1
  <1>10. ASSUME NEW r \in Requests, Step(r) PROVE ChecksStand'
    <2>1. ASSUME NEW u \in Users, LoginCheck(r, u) PROVE ChecksStand'
      BY <1>3, <2>1 DEF LoginCheck
    <2>2. ASSUME NEW s \in Sessions, RefreshCheck(r, s) PROVE ChecksStand'
      BY <1>3, <2>2 DEF RefreshCheck
    <2>3. ASSUME NEW s \in Sessions, IssueCommit(r, s) PROVE ChecksStand'
      BY <1>2, <2>3 DEF IssueCommit
    <2>4. CASE Abort(r)
      BY <1>2, <2>4 DEF Abort
    <2> QED
      BY <1>4, <1>5, <1>6, <1>10, <2>1, <2>2, <2>3, <2>4 DEF Step
  <1> QED
    BY <1>7, <1>8, <1>9, <1>10 DEF Next

LEMMA NextOwnerRemains ==
  ASSUME TypeOK, JobsFit, ChecksStand, OwnerRemains, [Next]_vars
  PROVE  OwnerRemains'
  <1>1. backend' = backend
    BY BackendStays
  <1>2. overlap => overlap'
    BY DEF Next, Step, LoginCheck, RefreshCheck, IssueCommit, TeamCheck, TeamRevokes, TeamCommit,
           Abort, Logout, DjangoLogout, DjangoLogin, DjangoRefresh, DjangoRotate, DjangoIssues,
           CreateMember, DjangoTeam, vars
  <1> SUFFICES ASSUME backend = "fastapi", ~overlap' PROVE Owners' # {}
    BY <1>1 DEF OwnerRemains
  <1>3. Owners # {}
    BY <1>2 DEF OwnerRemains
  <1>4. CASE UNCHANGED member
    BY <1>3, <1>4 DEF Owners
  <1>5. ASSUME NEW a \in Users, NEW u \in Users, NEW role \in Roles,
               CreateMember(a, u, role) \/ DjangoTeam(a, u, role)
        PROVE  Owners' # {}
    <2>1. member[u].state = "absent" /\ \A v \in Users \ {u} : member'[v] = member[v]
      BY <1>5 DEF CreateMember, DjangoTeam, TypeOK
    <2>2. Owners \subseteq Owners'
      BY <2>1 DEF Owners
    <2> QED
      BY <1>3, <2>2
  <1>6. ASSUME NEW r \in Requests, TeamCommit(r) PROVE Owners' # {}
    <2> DEFINE u == job[r].user
    <2>1. u \in Users /\ pc[r] = "revoke" /\ job[r].next.state # "absent" /\ Stands(r)
      BY <1>2, <1>6, ChecksAreStands DEF TeamCommit, JobsFit
    <2>2. \A v \in Users \ {u} : member'[v] = member[v]
      BY <1>6 DEF TeamCommit, TypeOK
    <2>3. member'[u] = Written(member[u], job[r].read, job[r].next)
      BY <1>6, <2>1 DEF TeamCommit, TypeOK
    <2>4. member'[u] = [role |-> job[r].next.role, state |-> job[r].next.state]
      BY <2>1, <2>3 DEF Written, Stands
    <2> HIDE DEF u
    <2>5. CASE Endangers(job[r])
      <3>1. PICK v \in Owners : v # u
        BY <2>1, <2>5 DEF Stands, u
      <3> QED
        BY <2>2, <3>1 DEF Owners
    <2>6. CASE member[u].role # "OWNER"
      BY <1>3, <2>2, <2>6 DEF Owners
    <2>7. CASE ~Endangers(job[r]) /\ member[u].role = "OWNER"
      <3>1. job[r].next.role = "OWNER" /\ job[r].next.state = "active"
        BY <2>1, <2>7 DEF Endangers, Stands, TypeOK, Row, States, u
      <3> QED
        BY <2>1, <2>4, <3>1 DEF Owners
    <2> QED
      BY <2>5, <2>6, <2>7
  <1> QED
    BY <1>4, <1>5, <1>6, MemberStep

(***************************************************************************)
(* The theorems.                                                           *)
(***************************************************************************)
LEMMA InitInv == Init => AccountsInv
  <1> SUFFICES ASSUME Init PROVE AccountsInv
    OBVIOUS
  <1>1. PICK u \in Users :
          member = [v \in Users |-> IF v = u THEN [role |-> "OWNER", state |-> "active"] ELSE NoRow]
    BY DEF Init
  <1>2. TypeOK
    <2>1. member \in [Users -> Row]
      BY <1>1, IdleType DEF Row, Roles, States
    <2> QED
      BY <2>1, IdleType DEF Init, TypeOK, JobRow
  <1>3. \A s \in Sessions : session[s].state = "none" /\ session[s].from \notin Sessions
    BY AccountsConstants DEF Init
  <1>4. \A v \in Users : member[v].state # "inactive"
    BY <1>1 DEF NoRow
  <1>5. u \in Owners
    BY <1>1 DEF Owners
  <1> QED
    BY <1>2, <1>3, <1>4, <1>5
       DEF Init, AccountsInv, JobsFit, LiveHaveUsers, RevokesFit, DjangoKeepsActive, ChecksStand,
           SessionEndsOnce, DeactivationEndsSessions, OwnerRemains

LEMMA NextInv == AccountsInv /\ [Next]_vars => AccountsInv'
  BY NextTypeOK, NextJobsFit, NextLiveHaveUsers, NextRevokesFit, NextDjangoKeepsActive,
     NextChecksStand, NextSessionEndsOnce, NextDeactivation, NextOwnerRemains
     DEF AccountsInv

LEMMA AccountsInvHolds == Spec => []AccountsInv
  BY InitInv, NextInv, PTL DEF Spec

(* Every variable of the two account services has values of its kind.      *)
THEOREM AccountsTypeCorrect == Spec => []TypeOK
  <1>1. AccountsInv => TypeOK
    BY DEF AccountsInv
  <1> QED
    BY <1>1, AccountsInvHolds, PTL

(* A refresh token is exchanged once or logged out, never both, in either  *)
(* backend and whatever other requests do.                                 *)
THEOREM SessionsEndOnce == Spec => []SessionEndsOnce
  <1>1. AccountsInv => SessionEndsOnce
    BY DEF AccountsInv
  <1> QED
    BY <1>1, AccountsInvHolds, PTL

(* What a deactivated member keeps was made by a request that raced with   *)
(* the deactivation.                                                       *)
THEOREM DeactivationEnds == Spec => []DeactivationEndsSessions
  <1>1. AccountsInv => DeactivationEndsSessions
    BY DEF AccountsInv
  <1> QED
    BY <1>1, AccountsInvHolds, PTL

(* Only overlapping team updates take a store's last owner in FastAPI.     *)
THEOREM LastOwnerStays == Spec => []OwnerRemains
  <1>1. AccountsInv => OwnerRemains
    BY DEF AccountsInv
  <1> QED
    BY <1>1, AccountsInvHolds, PTL
=============================================================================

------------------------------ MODULE Accounts ------------------------------
(***************************************************************************)
(* The people of one store and their refresh-token sessions, in whichever  *)
(* of the two backends is deployed (never both on one database).           *)
(*                                                                         *)
(* FastAPI: a login or a refresh reads the member without a lock, then     *)
(* commits a new session; a refresh holds its session's row in between.  A *)
(* team update reads the member and counts the owners without a lock, then *)
(* revokes the sessions its bulk UPDATE sees, if the member is to be       *)
(* inactive, and writes the member last: the Session does not autoflush.   *)
(* Django: a rotation locks session and user, a login is one insert, and a *)
(* team update checks the actor's role and nothing else.                   *)
(***************************************************************************)
EXTENDS Naturals, FiniteSets

CONSTANTS Users, Sessions, Requests, Nobody, NoSession

ASSUME AccountsConstants ==
  Nobody \notin Users /\ NoSession \notin Sessions /\ IsFiniteSet(Users)

VARIABLES
  backend,   \* "fastapi" or "django"
  member,    \* [Users -> [role, state]]: the committed admin users
  session,   \* [Sessions -> [state, user, from]]: the committed sessions
  pc, job,   \* where each request is, and what it has read
  loggedOut, \* history: sessions that were live when their logout committed
  raced,     \* history: live sessions made while their member was deactivated
  overlap    \* history: two team updates have overlapped

vars == <<backend, member, session, pc, job, loggedOut, raced, overlap>>

Roles == {"OWNER", "MANAGER"}
States == {"absent", "active", "inactive"}
Row == [role : Roles, state : States]
NoRow == [role |-> "MANAGER", state |-> "absent"]

Idle == [user |-> Nobody, from |-> NoSession, read |-> NoRow, next |-> NoRow,
         revoke |-> {}]

Owners == {u \in Users : member[u] = [role |-> "OWNER", state |-> "active"]}

Init ==
  /\ backend \in {"fastapi", "django"}
  /\ \E u \in Users :
       member = [v \in Users |-> IF v = u THEN [role |-> "OWNER", state |-> "active"]
                                 ELSE NoRow]
  /\ session = [s \in Sessions |-> [state |-> "none", user |-> Nobody, from |-> NoSession]]
  /\ pc = [r \in Requests |-> "idle"]
  /\ job = [r \in Requests |-> Idle]
  /\ loggedOut = {} /\ raced = {} /\ overlap = FALSE

Starts(r, to, what) ==
  /\ pc[r] = "idle"
  /\ pc' = [pc EXCEPT ![r] = to]
  /\ job' = [job EXCEPT ![r] = what]

(* Mutant: what the request has read stays behind. *)
EndsKeepingJob(r) ==
  /\ pc' = [pc EXCEPT ![r] = "idle"]
  /\ UNCHANGED job

Ends(r) ==
  /\ pc' = [pc EXCEPT ![r] = "idle"]
  /\ job' = [job EXCEPT ![r] = Idle]

(* Mutant: the session is read without FOR UPDATE. *)
SessionNotLocked(s) == FALSE

(* SELECT ... FOR UPDATE of the session, until the request ends. *)
SessionLocked(s) == \E r \in Requests : pc[r] = "issue" /\ job[r].from = s

(* A deactivation has looked for the sessions it will revoke. *)
Deactivating(u) ==
  \E r \in Requests : /\ pc[r] = "revoke" /\ job[r].user = u
                       /\ job[r].read.state = "active" /\ job[r].next.state = "inactive"

-----------------------------------------------------------------------------
(* Logging in and refreshing *)

LoginCheck(r, u) ==
  /\ backend = "fastapi"
  /\ member[u].state = "active"
  /\ Starts(r, "issue", [Idle EXCEPT !.user = u])
  /\ UNCHANGED <<backend, member, session, loggedOut, raced, overlap>>

(* A revoked or unknown session, or an inactive member: 401. *)
RefreshCheck(r, s) ==
  /\ backend = "fastapi"
  /\ ~SessionLocked(s)
  /\ session[s].state = "live"
  /\ member[session[s].user].state = "active"
  /\ Starts(r, "issue", [Idle EXCEPT !.user = session[s].user, !.from = s])
  /\ UNCHANGED <<backend, member, session, loggedOut, raced, overlap>>

(* _new_refresh_session with what it replaces, if anything. *)
Issued(u, from, new) ==
  [s \in Sessions |->
     CASE s = new -> [state |-> "live", user |-> u, from |-> from]
       [] s = from -> [session[s] EXCEPT !.state = "revoked"]
       [] OTHER -> session[s]]

IssueCommit(r, new) ==
  /\ pc[r] = "issue"
  /\ session[new].state = "none"
  /\ session' = Issued(job[r].user, job[r].from, new)
  /\ raced' = (raced \ {job[r].from})
       \cup (IF member[job[r].user].state = "inactive" \/ Deactivating(job[r].user)
             THEN {new} ELSE {})
  /\ Ends(r)
  /\ UNCHANGED <<backend, member, loggedOut, overlap>>

(* An exception, or the process stops: nothing of the request remains. *)
Abort(r) ==
  /\ pc[r] # "idle"
  /\ Ends(r)
  /\ UNCHANGED <<backend, member, session, loggedOut, raced, overlap>>

(* Django: issue_token_pair, in the transaction of its caller. *)
DjangoIssues(u, from, new) ==
  /\ backend = "django"
  /\ session[new].state = "none"
  /\ session' = Issued(u, from, new)
  /\ UNCHANGED <<backend, member, pc, job, loggedOut, raced, overlap>>

DjangoLogin(u, new) ==
  /\ member[u].state = "active"
  /\ DjangoIssues(u, NoSession, new)

(* The rotation locks the session with its user and does not ask whether   *)
(* the user is active.                                                     *)
DjangoRotate(from, new) ==
  /\ session[from].state = "live"
  /\ DjangoIssues(session[from].user, from, new)

(* A token presented twice is answered 401, and the revocation of all the  *)
(* user's sessions that precedes the answer is rolled back by it.          *)
DjangoRefresh(from, new) ==
  IF session[from].state = "live" THEN DjangoRotate(from, new) ELSE UNCHANGED vars

(* FastAPI reads the session without a lock and sets revoked_at, waiting   *)
(* for whoever has locked the row.                                         *)
Logout(s) ==
  /\ backend = "fastapi"
  /\ session[s].state # "none"
  /\ ~SessionLocked(s)
  /\ session' = [session EXCEPT ![s].state = "revoked"]
  /\ loggedOut' = IF session[s].state = "live" THEN loggedOut \cup {s} ELSE loggedOut
  /\ raced' = raced \ {s}
  /\ UNCHANGED <<backend, member, pc, job, overlap>>

(* Django's UPDATE takes the session if it is not yet revoked. *)
DjangoLogout(s) ==
  /\ backend = "django"
  /\ session[s].state = "live"
  /\ session' = [session EXCEPT ![s].state = "revoked"]
  /\ loggedOut' = loggedOut \cup {s}
  /\ UNCHANGED <<backend, member, pc, job, raced, overlap>>

-----------------------------------------------------------------------------
(* The team *)

CreateMember(actor, u, role) ==
  /\ backend = "fastapi"
  /\ actor \in Owners
  /\ member[u].state = "absent"
  /\ member' = [member EXCEPT ![u] = [role |-> role, state |-> "active"]]
  /\ UNCHANGED <<backend, session, pc, job, loggedOut, raced, overlap>>

(* Mutant: only deactivating an owner asks for another one. *)
LeavesOwnerIfDeactivated(read, next) ==
  (read.role = "OWNER" /\ next.state = "inactive") => Cardinality(Owners) > 1

(* An owner who is to be no longer one must not be the last. *)
LeavesOwner(read, next) ==
  (read.role = "OWNER" /\ (next.role # "OWNER" \/ next.state = "inactive"))
    => Cardinality(Owners) > 1

TeamCheck(r, actor, u, next) ==
  /\ backend = "fastapi"
  /\ actor \in Owners
  /\ member[u].state # "absent"
  /\ ~(u = actor /\ next.state = "inactive")
  /\ LeavesOwner(member[u], next)
  /\ Starts(r, "team", [Idle EXCEPT !.user = u, !.read = member[u], !.next = next])
  /\ UNCHANGED <<backend, member, session, loggedOut, raced, overlap>>

(* Mutant: the sessions of a deactivated member are left alone. *)
SeenSessionsNone(u, next) == {}

(* The bulk UPDATE takes the rows its snapshot shows: a session that a     *)
(* request in progress is about to insert is not among them.               *)
SeenSessions(u, next) ==
  {s \in Sessions : /\ next.state = "inactive"
                    /\ session[s].state = "live"
                    /\ session[s].user = u}

TeamRevokes(r) ==
  /\ pc[r] = "team"
  /\ pc' = [pc EXCEPT ![r] = "revoke"]
  /\ job' = [job EXCEPT ![r].revoke = SeenSessions(job[r].user, job[r].next)]
  /\ UNCHANGED <<backend, member, session, loggedOut, raced, overlap>>

(* Only what differs from what was read is written. *)
Written(row, read, next) ==
  [role |-> IF next.role # read.role THEN next.role ELSE row.role,
   state |-> IF next.state # read.state THEN next.state ELSE row.state]

(* The bulk UPDATE waits for the rows that are locked, and skips those     *)
(* that have been revoked by then.  The member's own UPDATE follows, in    *)
(* the flush of publish_event, and nothing but the commit comes after it.  *)
TeamCommit(r) ==
  LET j == job[r] IN
  /\ pc[r] = "revoke"
  /\ \A s \in j.revoke : ~SessionLocked(s)
  /\ member' = [member EXCEPT ![j.user] = Written(@, j.read, j.next)]
  /\ session' = [s \in Sessions |-> IF s \in j.revoke
                                    THEN [session[s] EXCEPT !.state = "revoked"]
                                    ELSE session[s]]
  /\ overlap' = (overlap \/ \E q \in Requests \ {r} : pc[q] \in {"team", "revoke"})
  /\ raced' = raced \ j.revoke
  /\ Ends(r)
  /\ UNCHANGED <<backend, loggedOut>>

(* update_or_create of a membership: no member is ever deactivated here,   *)
(* and nothing counts the owners.                                          *)
DjangoTeam(actor, u, role) ==
  /\ backend = "django"
  /\ actor \in Owners
  /\ member' = [member EXCEPT ![u] = [role |-> role, state |-> "active"]]
  /\ UNCHANGED <<backend, session, pc, job, loggedOut, raced, overlap>>

-----------------------------------------------------------------------------
Step(r) ==
  \/ \E u \in Users : LoginCheck(r, u)
  \/ \E s \in Sessions : RefreshCheck(r, s) \/ IssueCommit(r, s)
  \/ \E a, u \in Users, next \in [role : Roles, state : {"active", "inactive"}] :
       TeamCheck(r, a, u, next)
  \/ TeamRevokes(r) \/ TeamCommit(r) \/ Abort(r)

Next ==
  \/ \E r \in Requests : Step(r)
  \/ \E s \in Sessions : Logout(s) \/ DjangoLogout(s)
  \/ \E u \in Users, new \in Sessions : DjangoLogin(u, new)
  \/ \E from, new \in Sessions : DjangoRefresh(from, new)
  \/ \E a, u \in Users, role \in Roles : CreateMember(a, u, role) \/ DjangoTeam(a, u, role)

Spec == Init /\ [][Next]_vars

-----------------------------------------------------------------------------
(* Every variable holds values of its kind, and an idle request nothing.   *)
TypeOK ==
  /\ backend \in {"fastapi", "django"}
  /\ member \in [Users -> Row]
  /\ session \in [Sessions -> [state : {"none", "live", "revoked"},
                               user : Users \cup {Nobody},
                               from : Sessions \cup {NoSession}]]
  /\ pc \in [Requests -> {"idle", "issue", "team", "revoke"}]
  /\ job \in [Requests -> [user : Users \cup {Nobody}, from : Sessions \cup {NoSession},
                           read : Row, next : Row, revoke : SUBSET Sessions]]
  /\ \A r \in Requests : pc[r] = "idle" => job[r] = Idle
  /\ loggedOut \subseteq Sessions /\ raced \subseteq Sessions
  /\ overlap \in BOOLEAN

(* A request under way is about a person; what it refreshes is alive and   *)
(* its own.                                                                *)
JobsFit ==
  \A r \in Requests :
    /\ pc[r] # "idle" => backend = "fastapi" /\ job[r].user \in Users
    /\ pc[r] \in {"team", "revoke"} => job[r].next.state # "absent" /\ job[r].read.state # "absent"
    /\ pc[r] = "issue" /\ job[r].from \in Sessions =>
         /\ session[job[r].from].state = "live"
         /\ \A q \in Requests :
              pc[q] = "issue" /\ job[q].from = job[r].from => q = r

LiveHaveUsers == \A s \in Sessions : session[s].state = "live" => session[s].user \in Users

(* What a deactivation did not see when it looked came while it was under  *)
(* way.                                                                    *)
RevokesFit ==
  \A r \in Requests :
    (/\ pc[r] = "revoke"
     /\ job[r].read.state = "active"
     /\ job[r].next.state = "inactive")
      => \A s \in Sessions :
           session[s].state = "live" /\ session[s].user = job[r].user
             => s \in job[r].revoke \cup raced

DjangoKeepsActive == backend = "django" => \A u \in Users : member[u].state # "inactive"

(* Until two team updates overlap, what one has read and counted stands. *)
ChecksStand ==
  ~overlap =>
    \A r \in Requests :
      pc[r] \in {"team", "revoke"} =>
        /\ member[job[r].user] = job[r].read
        /\ (/\ job[r].read.role = "OWNER"
            /\ job[r].next.role # "OWNER" \/ job[r].next.state = "inactive")
             => \E v \in Owners : v # job[r].user

(* A session ends in one way, and once: by a refresh, which has the only   *)
(* session that replaces it, or by a logout, which no refresh under way    *)
(* outlives.                                                               *)
SessionEndsOnce ==
  \A s, t \in Sessions :
    /\ session[t].from = s =>
         /\ session[s].state = "revoked" /\ s \notin loggedOut
         /\ \A u \in Sessions : session[u].from = s => u = t
    /\ s \in loggedOut => session[s].state = "revoked"

(* A deactivated member has no session left but one that a login or a      *)
(* refresh committed after the deactivation had looked for sessions to     *)
(* revoke, having found the member active before.                          *)
DeactivationEndsSessions ==
  \A s \in Sessions :
    (session[s].state = "live" /\ member[session[s].user].state = "inactive")
      => s \in raced

(* The store loses its last active owner only if two team updates overlap: *)
(* each of them counts the other's owner.                                  *)
OwnerRemains == (backend = "fastapi" /\ ~overlap) => Owners # {}

AccountsInv ==
  /\ TypeOK /\ JobsFit /\ LiveHaveUsers /\ RevokesFit /\ DjangoKeepsActive /\ ChecksStand
  /\ SessionEndsOnce /\ DeactivationEndsSessions /\ OwnerRemains
=============================================================================

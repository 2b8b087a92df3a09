------------------------------ MODULE WiFiPass ------------------------------
(***************************************************************************)
(* The life of a Wi-Fi pass in the FastAPI backend: the row of wifi_passes *)
(* that an order creates, a customer activates, further orders, managers,  *)
(* rewards and refunds lengthen or shorten, and staff or the expiry scan   *)
(* end; and the access-point sessions that the row's network_reference     *)
(* stands for.                                                             *)
(*                                                                         *)
(* Every handler that changes a pass selects its row FOR UPDATE and keeps  *)
(* the lock until it commits, so a handler is one step, enabled when no    *)
(* scan holds the row.  expire_due_passes is different: it reads the due   *)
(* passes without a lock, revokes and writes them one after the other from *)
(* the copies it read, and commits once at the end.  It is split at every  *)
(* point where another transaction can run.                                *)
(***************************************************************************)
EXTENDS Integers

CONSTANTS Passes,      \* (store, customer, business day): one row each
          Sessions,    \* sessions the access point can open
          Loops,       \* runs of the lifespan loop or of the Celery task
          Lists,       \* GET /admin/passes/active requests
          Viewers,     \* GET /public/passes/{id} requests
          UseCelery,   \* settings.use_celery
          Minutes,     \* minutes an order, manager or refund adds or removes
          DayEnd,      \* business_day_end of the passes' business day
          MaxTime,     \* bound: the clock stops there
          MaxVersion,  \* bound: no handler raises a version beyond it
          MaxWait,     \* bound: an order or refund waits no longer for the row
          MaxFaults,   \* bound on failed calls, lost replies and restarts
          NoRef        \* network_reference is None

Scanners == Loops \cup Lists \cup Viewers

ASSUME ConstantsOK ==
  /\ Minutes \subseteq Nat
  /\ DayEnd \in Nat
  /\ MaxTime \in Nat
  /\ MaxVersion \in Nat
  /\ MaxWait \in Nat
  /\ MaxFaults \in Nat
  /\ UseCelery \in BOOLEAN
  /\ NoRef \notin Sessions
  /\ Loops \cap Lists = {}
  /\ Loops \cap Viewers = {}
  /\ Lists \cap Viewers = {}

VARIABLES
  now,      \* the clock, in minutes
  row,      \* the committed rows of wifi_passes
  session,  \* what the access point knows of each session
  granted,  \* history: the session a committed activation stored in the row
  lost,     \* history: sessions of activations that did not commit
  pc,       \* where each scan is
  copy,     \* the instances a scan's SQLAlchemy session has loaded
  due,      \* passes the scan's query returned and it has not flushed yet
  cur,      \* the pass it has revoked and is about to flush
  wrote,    \* passes it has flushed: it holds their row locks
  alive,    \* the lifespan task of this loop has not died of an exception
  faults    \* failures so far

vars == <<now, row, session, granted, lost, pc, copy, due, cur, wrote, alive, faults>>
scanVars == <<pc, copy, due, cur, wrote, alive>>

Terminal == {"EXPIRED", "BLOCKED", "CANCELLED"}
EndedByStaff == {"BLOCKED", "CANCELLED"}
Statuses == {"NONE", "ISSUED", "ACTIVE"} \cup Terminal

Row == [status : Statuses, expires : Int, version : Nat,
        ref : Sessions \cup {NoRef}]

(* The row of a pass nobody has ordered yet, and an instance not loaded. *)
NoRow == [status |-> "NONE", expires |-> 0, version |-> 0, ref |-> NoRef]

Later(a, b) == IF a >= b THEN a ELSE b

Init ==
  /\ now = 0
  /\ row = [p \in Passes |-> NoRow]
  /\ session = [r \in Sessions |-> "unused"]
  /\ granted = [p \in Passes |-> NoRef]
  /\ lost = [p \in Passes |-> {}]
  /\ pc = [s \in Scanners |-> "idle"]
  /\ copy = [s \in Scanners |-> [p \in Passes |-> NoRow]]
  /\ due = [s \in Scanners |-> {}]
  /\ cur = [s \in Scanners |-> {}]
  /\ wrote = [s \in Scanners |-> {}]
  /\ alive = [s \in Loops |-> TRUE]
  /\ faults = 0

-----------------------------------------------------------------------------
(* Handlers: SELECT ... FOR UPDATE, checks, writes and COMMIT in one step. *)
(* An order and a refund look at the clock before they wait for the row:   *)
(* t is what it said then.                                                 *)

Unlocked(p) == \A s \in Scanners : p \notin wrote[s]

(* Mutant: the call to the access point is forgotten. *)
RevokedNot(ref) == session

(* revoke(network_reference or ""): nothing is called for an empty one. *)
Revoked(ref) == IF ref = NoRef THEN session
                               ELSE [session EXCEPT ![ref] = "cut"]

(* The first paid order of the day inserts the row. *)
FirstOrder(p, m, t) ==
  /\ row[p].status = "NONE"
  /\ row' = [row EXCEPT ![p] = [status |-> "ISSUED", expires |-> t + m,
                                version |-> 1, ref |-> NoRef]]
  /\ UNCHANGED <<now, session, granted, lost, faults, scanVars>>

(* More minutes from t or from the old expiry, whichever is later; an      *)
(* expired pass becomes ACTIVE again.                                      *)
Extended(r, m, t) ==
  [status |-> IF r.status = "EXPIRED" THEN "ACTIVE" ELSE r.status,
   expires |-> Later(r.expires, t) + m,
   version |-> r.version + 1,
   ref |-> r.ref]

(* Mutant: the check for an ending by staff is dropped. *)
MayExtendAny(p) ==
  /\ Unlocked(p)
  /\ row[p].status # "NONE"
  /\ row[p].version < MaxVersion

MayExtend(p) ==
  /\ Unlocked(p)
  /\ row[p].status \notin {"NONE"} \cup EndedByStaff
  /\ row[p].version < MaxVersion

AdditionalOrder(p, m, t) ==
  /\ MayExtend(p)
  /\ row' = [row EXCEPT ![p] = Extended(@, m, t)]
  /\ UNCHANGED <<now, session, granted, lost, faults, scanVars>>

(* A manager's extension adds at least one minute. *)
ExtendPass(p, m) ==
  /\ MayExtend(p)
  /\ m > 0
  /\ row' = [row EXCEPT ![p] = Extended(@, m, now)]
  /\ UNCHANGED <<now, session, granted, lost, faults, scanVars>>

(* Choosing the Wi-Fi day pass, IMMEDIATE: open until the business day ends. *)
ChooseDayPass(p) ==
  /\ Unlocked(p)
  /\ row[p].status \notin {"NONE"} \cup Terminal
  /\ row[p].version < MaxVersion
  /\ row' = [row EXCEPT ![p] = [status |-> @.status,
                                expires |-> Later(@.expires, DayEnd),
                                version |-> @.version + 1, ref |-> @.ref]]
  /\ UNCHANGED <<now, session, granted, lost, faults, scanVars>>

(* reclaim_wifi_minutes, as refund_order calls it. *)
Reclaimed(r, m, t) ==
  LET end == Later(t, r.expires - m)
  IN  [status |-> IF end <= t THEN "EXPIRED" ELSE r.status,
       expires |-> end,
       version |-> r.version + 1,
       ref |-> IF end <= t THEN NoRef ELSE r.ref]

RefundReclaims(p, m, t) ==
  /\ Unlocked(p)
  /\ m > 0
  /\ row[p].status \notin {"NONE"} \cup Terminal
  /\ row[p].expires > t
  /\ row[p].version < MaxVersion
  /\ row' = [row EXCEPT ![p] = Reclaimed(@, m, t)]
  /\ session' = IF Reclaimed(row[p], m, t).status = "EXPIRED"
                THEN Revoked(row[p].ref) ELSE session
  /\ UNCHANGED <<now, granted, lost, faults, scanVars>>

(* Mutant: the row is ended, the session stays open. *)
EndPassOnly(p, status) ==
  /\ Unlocked(p)
  /\ row[p].status \notin {"NONE"} \cup Terminal
  /\ row[p].version < MaxVersion
  /\ row' = [row EXCEPT ![p] = [status |-> status, expires |-> @.expires,
                                version |-> @.version + 1, ref |-> @.ref]]
  /\ UNCHANGED <<now, session, granted, lost, faults, scanVars>>

(* A manager ends the pass: revoke, then the given terminal status. *)
EndPass(p, status) ==
  /\ Unlocked(p)
  /\ row[p].status \notin {"NONE"} \cup Terminal
  /\ row[p].version < MaxVersion
  /\ session' = Revoked(row[p].ref)
  /\ row' = [row EXCEPT ![p] = [status |-> status, expires |-> @.expires,
                                version |-> @.version + 1, ref |-> NoRef]]
  /\ UNCHANGED <<now, granted, lost, faults, scanVars>>

(* Mutant: a status that no pass of this backend has. *)
ExpirePassFailed(p) == EndPass(p, "FAILED")

ExpirePass(p) == EndPass(p, "CANCELLED")
BlockPass(p) == EndPass(p, "BLOCKED")

(* The access point ended the session, but the handler did not commit: the *)
(* reply was lost (502) or the process stopped before the commit.          *)
RevokeNotCommitted(p) ==
  /\ Unlocked(p)
  /\ row[p].status \notin {"NONE"} \cup Terminal
  /\ row[p].ref # NoRef
  /\ faults < MaxFaults
  /\ session' = Revoked(row[p].ref)
  /\ faults' = faults + 1
  /\ UNCHANGED <<now, row, granted, lost, scanVars>>

InState(r, status, ref) ==
  [status |-> status, expires |-> r.expires, version |-> r.version, ref |-> ref]

(* The portal turns the pass on: a new access-point session, kept in the   *)
(* row.  A pass that is already over becomes EXPIRED, its version as is.   *)
ActivatePass(p) ==
  /\ Unlocked(p)
  /\ row[p].status = "ISSUED"
  /\ \/ /\ row[p].expires <= now
        /\ row' = [row EXCEPT ![p] = InState(@, "EXPIRED", @.ref)]
        /\ UNCHANGED <<session, granted>>
     \/ /\ row[p].expires > now
        /\ \E r \in Sessions :
             /\ session[r] = "unused"
             /\ session' = [session EXCEPT ![r] = "live"]
             /\ row' = [row EXCEPT ![p] = InState(@, "ACTIVE", r)]
             /\ granted' = [granted EXCEPT ![p] = r]
  /\ UNCHANGED <<now, lost, faults, scanVars>>

(* The access point opened a session, but the activation did not commit:   *)
(* its reference is nowhere.                                               *)
ActivationNotCommitted(p) ==
  /\ Unlocked(p)
  /\ row[p].status = "ISSUED"
  /\ row[p].expires > now
  /\ faults < MaxFaults
  /\ \E r \in Sessions : /\ session[r] = "unused"
                         /\ session' = [session EXCEPT ![r] = "live"]
                         /\ lost' = [lost EXCEPT ![p] = @ \cup {r}]
  /\ faults' = faults + 1
  /\ UNCHANGED <<now, row, granted, scanVars>>

-----------------------------------------------------------------------------
(* expire_due_passes, step by step, for scan s. *)

(* The SQLAlchemy session is closed: nothing loaded, no lock held. *)
Closed(s) ==
  /\ pc' = [pc EXCEPT ![s] = "idle"]
  /\ copy' = [copy EXCEPT ![s] = [p \in Passes |-> NoRow]]
  /\ due' = [due EXCEPT ![s] = {}]
  /\ cur' = [cur EXCEPT ![s] = {}]
  /\ wrote' = [wrote EXCEPT ![s] = {}]

(* Mutant: the Celery task, too, is not run again after an exception. *)
AbortedForGood(s) ==
  /\ Closed(s)
  /\ alive' = IF s \in Loops THEN [alive EXCEPT ![s] = FALSE] ELSE alive

(* An exception leaves the scan: session_scope or get_db rolls back.  The  *)
(* lifespan task is not started again; a Celery task is, a minute later.   *)
Aborted(s) ==
  /\ Closed(s)
  /\ alive' = IF s \in Loops /\ ~UseCelery
              THEN [alive EXCEPT ![s] = FALSE] ELSE alive

(* GET /public/passes/{id} first loads the customer's own pass. *)
LoadOwnPass(s, p) ==
  /\ s \in Viewers
  /\ pc[s] = "idle"
  /\ row[p].status # "NONE"
  /\ pc' = [pc EXCEPT ![s] = "loaded"]
  /\ copy' = [copy EXCEPT ![s][p] = row[p]]
  /\ UNCHANGED <<now, row, session, granted, lost, due, cur, wrote, alive, faults>>

IsDue(p) == row[p].status = "ACTIVE" /\ row[p].expires <= now

MayScan(s) ==
  \/ s \in Loops /\ pc[s] = "idle" /\ alive[s]
  \/ s \in Lists /\ pc[s] = "idle"
  \/ s \in Viewers /\ pc[s] = "loaded"

(* The query sees the committed rows and takes no lock.  An instance that  *)
(* the SQLAlchemy session already holds is returned as it was loaded.      *)
Scan(s) ==
  /\ MayScan(s)
  /\ LET found == {p \in Passes : IsDue(p)} IN
       IF found = {}
       THEN Closed(s)
       ELSE /\ pc' = [pc EXCEPT ![s] = "pass"]
            /\ due' = [due EXCEPT ![s] = found]
            /\ copy' = [copy EXCEPT ![s] =
                 [p \in Passes |-> IF p \in found /\ copy[s][p] = NoRow
                                   THEN row[p] ELSE copy[s][p]]]
            /\ UNCHANGED <<cur, wrote>>
  /\ UNCHANGED <<now, row, session, granted, lost, alive, faults>>

(* Next pass of the batch: revoke the reference in the copy. *)
ScanRevokes(s, p) ==
  /\ pc[s] = "pass"
  /\ p \in due[s]
  /\ session' = Revoked(copy[s][p].ref)
  /\ pc' = [pc EXCEPT ![s] = "flush"]
  /\ cur' = [cur EXCEPT ![s] = {p}]
  /\ UNCHANGED <<now, row, granted, lost, copy, due, wrote, alive, faults>>

(* The controller fails the call, before or after ending the session:      *)
(* ProviderError is caught nowhere and the whole batch is rolled back.     *)
ScanRevokeFails(s, p) ==
  /\ pc[s] = "pass"
  /\ p \in due[s]
  /\ copy[s][p].ref # NoRef
  /\ faults < MaxFaults
  /\ session' \in {session, Revoked(copy[s][p].ref)}
  /\ faults' = faults + 1
  /\ Aborted(s)
  /\ UNCHANGED <<now, row, granted, lost>>

(* publish_event flushes: the UPDATE takes the row lock, or queues for it  *)
(* while another scan holds it; nobody overtakes a scan in the queue.      *)
LockHeld(s) == \E t \in Scanners \ {s} : cur[s] \cap wrote[t] # {}
Overtakes(s) == \E t \in Scanners \ {s} : pc[t] = "wait" /\ cur[t] = cur[s]

ScanFlushes(s) ==
  /\ \/ pc[s] = "flush" /\ ~Overtakes(s)
     \/ pc[s] = "wait"
  /\ ~LockHeld(s)
  /\ wrote' = [wrote EXCEPT ![s] = @ \cup cur[s]]
  /\ due' = [due EXCEPT ![s] = @ \ cur[s]]
  /\ cur' = [cur EXCEPT ![s] = {}]
  /\ pc' = [pc EXCEPT ![s] = IF due[s] \subseteq cur[s] THEN "commit" ELSE "pass"]
  /\ UNCHANGED <<now, row, session, granted, lost, copy, alive, faults>>

ScanWaits(s) ==
  /\ pc[s] = "flush"
  /\ LockHeld(s)
  /\ pc' = [pc EXCEPT ![s] = "wait"]
  /\ UNCHANGED <<now, row, session, granted, lost, copy, due, cur, wrote, alive, faults>>

WaitsFor(s, t) == pc[s] = "wait" /\ cur[s] \cap wrote[t] # {}

(* The database aborts one of the scans that wait for each other's rows. *)
DeadlockVictim(s) ==
  /\ \E D \in SUBSET Scanners :
       /\ s \in D
       /\ \A a \in D : \E b, c \in D \ {a} : WaitsFor(a, b) /\ WaitsFor(c, a)
  /\ Aborted(s)
  /\ UNCHANGED <<now, row, session, granted, lost, faults>>

(* What the UPDATE leaves in the row: SQLAlchemy writes the attributes     *)
(* whose value differs from the one loaded, and no others.                 *)
Overwritten(r, c) ==
  [status |-> IF c.status = "EXPIRED" THEN r.status ELSE "EXPIRED",
   expires |-> r.expires,
   version |-> c.version + 1,
   ref |-> IF c.ref = NoRef THEN r.ref ELSE NoRef]

ScanCommits(s) ==
  /\ pc[s] = "commit"
  /\ row' = [p \in Passes |-> IF p \in wrote[s]
                              THEN Overwritten(row[p], copy[s][p]) ELSE row[p]]
  /\ Closed(s)
  /\ UNCHANGED <<now, session, granted, lost, alive, faults>>

(* The server process stops and starts again: every scan in flight is      *)
(* rolled back and the lifespan starts a new loop.                         *)
Restart ==
  /\ faults < MaxFaults
  /\ faults' = faults + 1
  /\ pc' = [s \in Scanners |-> "idle"]
  /\ copy' = [s \in Scanners |-> [p \in Passes |-> NoRow]]
  /\ due' = [s \in Scanners |-> {}]
  /\ cur' = [s \in Scanners |-> {}]
  /\ wrote' = [s \in Scanners |-> {}]
  /\ alive' = [s \in Loops |-> TRUE]
  /\ UNCHANGED <<now, row, session, granted, lost>>

Tick ==
  /\ now < MaxTime
  /\ now' = now + 1
  /\ UNCHANGED <<row, session, granted, lost, faults, scanVars>>

-----------------------------------------------------------------------------
(* When an order or refund that now has the row may have been sent. *)
Sent == {t \in 0 .. now : t + MaxWait >= now}

Handler(p) ==
  \/ \E m \in Minutes, t \in Sent :
       FirstOrder(p, m, t) \/ AdditionalOrder(p, m, t) \/ RefundReclaims(p, m, t)
  \/ \E m \in Minutes : ExtendPass(p, m)
  \/ ChooseDayPass(p)
  \/ ExpirePass(p)
  \/ BlockPass(p)
  \/ RevokeNotCommitted(p)
  \/ ActivatePass(p)
  \/ ActivationNotCommitted(p)

(* A step of a scan that has started; it needs nobody to go on. *)
InFlight(s) ==
  \/ pc[s] = "loaded" /\ Scan(s)
  \/ \E p \in Passes : ScanRevokes(s, p) \/ ScanRevokeFails(s, p)
  \/ ScanFlushes(s)
  \/ ScanWaits(s)
  \/ DeadlockVictim(s)
  \/ ScanCommits(s)

Next ==
  \/ \E p \in Passes : Handler(p)
  \/ \E s \in Scanners : \/ pc[s] = "idle" /\ Scan(s)
                         \/ \E p \in Passes : LoadOwnPass(s, p)
                         \/ InFlight(s)
  \/ Restart
  \/ Tick

Spec == Init /\ [][Next]_vars

(* A scan that has started runs to its end, and each loop keeps scanning   *)
(* while its task lives (its sleep ends; Celery beat sends the next run).  *)
(* Nobody has to order, activate or look at a pass, and time may stop.     *)
ScanFairness ==
  /\ \A s \in Scanners : WF_vars(InFlight(s))
  /\ \A s \in Loops : WF_vars(pc[s] = "idle" /\ Scan(s))

FairSpec == Spec /\ ScanFairness

-----------------------------------------------------------------------------
TypeOK ==
  /\ now \in Nat
  /\ row \in [Passes -> Row]
  /\ session \in [Sessions -> {"unused", "live", "cut"}]
  /\ granted \in [Passes -> Sessions \cup {NoRef}]
  /\ lost \in [Passes -> SUBSET Sessions]
  /\ pc \in [Scanners -> {"idle", "loaded", "pass", "flush", "wait", "commit"}]
  /\ copy \in [Scanners -> [Passes -> Row]]
  /\ due \in [Scanners -> SUBSET Passes]
  /\ cur \in [Scanners -> SUBSET Passes]
  /\ wrote \in [Scanners -> SUBSET Passes]
  /\ alive \in [Loops -> BOOLEAN]
  /\ faults \in Nat

(* The session that p's committed activation opened is still open. *)
HasAccess(p) == granted[p] # NoRef /\ session[granted[p]] = "live"

(* Every session of p that is open, whether its activation committed or not. *)
OpenFor(p) == {r \in {granted[p]} \cup lost[p] : r # NoRef /\ session[r] = "live"}

(* Every session the access point keeps open stands in the row of the pass *)
(* it was opened for, where expiry, block or refund can still revoke it,   *)
(* but for those opened by an activation that then did not commit          *)
(* (activate_pass authorizes before its commit): these no row ever has.    *)
(* The scan clears references from copies it read long before, and several *)
(* scans, requests and rollbacks may interleave: the clearing must never   *)
(* outrun the revocation (expire_due_passes, block_pass, expire_pass).     *)
RevocableAccess ==
  \A r \in Sessions :
    session[r] = "live" =>
      \E p \in Passes : \/ granted[p] = r /\ row[p].ref = r
                       \/ r \in lost[p]

(* When a pass has ended, no session opened for it is open any more, but   *)
(* for those of activations that did not commit, which nothing revokes:    *)
(* whoever wrote EXPIRED, BLOCKED or CANCELLED had revoked the one in the  *)
(* row before (expire_due_passes, reclaim_wifi_minutes, expire_pass,       *)
(* block_pass).  It holds between the loops and the admin listing;         *)
(* GET /public/passes/{id} can break it.                                   *)
TerminalCutsAccess ==
  \A p \in Passes : row[p].status \in Terminal => OpenFor(p) \subseteq lost[p]

(* The pass as PassContract sees it: a session counts as the access of a   *)
(* pass once its activation has committed.                                 *)
ContractPass ==
  [p \in Passes |-> [status |-> row[p].status, expires |-> row[p].expires,
                     version |-> row[p].version]]

Contract == INSTANCE PassContract
              WITH pass <- ContractPass, open <- {p \in Passes : HasAccess(p)}

(* Every step of every handler, and every scan step before its commit,     *)
(* does what the contract allows: what breaks the contract is the commit   *)
(* of a scan alone (the handlers of pos.py, public.py and admin.py, with   *)
(* their FOR UPDATE, status checks and version increments).                *)
OnlyScanCommitsBreakContract ==
  [][Contract!Next \/ \E s \in Scanners : ScanCommits(s)]_(Contract!contractVars)

(* A pass that is over is ended, if time or an order does not change that: *)
(* the periodic scan of expire_due_passes reaches every due pass.          *)
OverdueEnds ==
  \A p \in Passes :
    LET overdue == row[p].status = "ACTIVE" /\ row[p].expires <= now
    IN  overdue ~> ~overdue

-----------------------------------------------------------------------------
(* Why no granted session is forgotten: the inductive strengthening of     *)
(* RevocableAccess, for any number of scans.                               *)

(* A pass is activated once: nothing leads back to ISSUED. *)
GrantedOnce ==
  \A p \in Passes :
    /\ row[p].status \in {"NONE", "ISSUED"} => granted[p] = NoRef
    /\ granted[p] # NoRef => session[granted[p]] # "unused"

(* So a reference, in a row or in a scan's copy, is the one granted. *)
RefsAreGranted ==
  \A p \in Passes :
    /\ row[p].ref \in {NoRef, granted[p]}
    /\ \A s \in Scanners : copy[s][p].ref \in {NoRef, granted[p]}

(* As long as its session is open, a pass stores its reference. *)
GrantedStored ==
  \A p \in Passes : HasAccess(p) => row[p].ref = granted[p]

(* Whatever is open, an activation has opened. *)
OpenedByActivation ==
  \A r \in Sessions :
    session[r] = "live" => \E p \in Passes : granted[p] = r \/ r \in lost[p]

(* What a scan is about to clear, it has revoked. *)
RevokedBeforeCleared ==
  \A s \in Scanners : \A p \in cur[s] \cup wrote[s] :
    copy[s][p].ref # NoRef => session[copy[s][p].ref] = "cut"

(* A scan holds no pass before its query has returned. *)
NothingHeldYet ==
  \A s \in Scanners :
    pc[s] \in {"idle", "loaded"} => cur[s] = {} /\ wrote[s] = {}

AccessInv ==
  /\ TypeOK
  /\ NothingHeldYet
  /\ GrantedOnce
  /\ RefsAreGranted
  /\ RevokedBeforeCleared
  /\ GrantedStored
  /\ OpenedByActivation

(* No session is granted twice, so ending one pass's ends no other's. *)
GrantsDiffer ==
  \A p, q \in Passes : granted[p] = granted[q] => p = q \/ granted[p] = NoRef

(* Without GET /public/passes/{id}, a scan only holds copies of passes     *)
(* that were ACTIVE when its query returned them; a copy without reference *)
(* then means a pass without access.                                       *)
FreshCopies ==
  \A s \in Scanners :
    /\ pc[s] = "idle" => \A p \in Passes : copy[s][p] = NoRow
    /\ pc[s] # "loaded"
    /\ \A p \in due[s] \cup cur[s] \cup wrote[s] :
         /\ row[p].status \notin {"NONE", "ISSUED"}
         /\ copy[s][p].status = "ACTIVE"
         /\ copy[s][p].ref = NoRef => ~HasAccess(p)

EndedHasNoAccess ==
  \A p \in Passes : row[p].status \in Terminal => ~HasAccess(p)

EndInv == AccessInv /\ FreshCopies /\ EndedHasNoAccess

-----------------------------------------------------------------------------
(* A statement of the repository that the code does not keep. *)

(* admin.py:1013 says that an ending by a manager is told apart from       *)
(* natural expiry so that no later order revives the pass: once BLOCKED or *)
(* CANCELLED, always so.                                                   *)
StaffEndingIsFinal ==
  [][\A p \in Passes :
       row[p].status \in EndedByStaff => row'[p].status = row[p].status]_vars

=============================================================================

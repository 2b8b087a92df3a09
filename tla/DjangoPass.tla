----------------------------- MODULE DjangoPass -----------------------------
(***************************************************************************)
(* The passes of one customer and business day in the Django backend.  An  *)
(* order issues or lengthens a pass and schedules, with the version the    *)
(* pass then has, its expiry, a notice and the revocation of its access;   *)
(* the minutely Celery task expires what is overdue and then runs the      *)
(* scheduled actions that are due.  Staff lengthen, block, unblock and     *)
(* expire passes without scheduling anything.                              *)
(*                                                                         *)
(* Every transaction locks its pass FOR UPDATE, so it is one step.  The    *)
(* task is not one: it lists ids with a clock of its own, without a lock,  *)
(* and handles them one transaction each.  Nothing keeps two runs of the   *)
(* task from overlapping.                                                  *)
(***************************************************************************)
EXTENDS Integers

CONSTANTS Passes,      \* ids, in the order of the primary key
          Sessions,    \* sessions the access point can open
          Tasks,       \* Celery workers that can run the minutely task
          Base,        \* minutes of the day's first order
          Bonus,       \* minutes of a further order, 0 below the lowest tier
          Granted,     \* minutes a manager adds
          Notice,      \* the notice is due that many minutes before the end
          QuietUntil,  \* end of the quiet hours, 0 when they are off
          DayEnd,      \* end of the business day
          MaxTime,     \* bound: the clock stops there
          MaxVersion,  \* bound: no request raises a version beyond it
          MaxFaults,   \* bound on failures
          NoRef        \* network_reference is empty

ASSUME DjangoPassConstants ==
  /\ Passes \subseteq Nat
  /\ Base \in Nat /\ Notice \in Nat /\ QuietUntil \in Nat /\ DayEnd \in Nat
  /\ Bonus \subseteq Nat
  /\ Granted \subseteq Nat \ {0}
  /\ MaxTime \in Nat /\ MaxVersion \in Nat /\ MaxFaults \in Nat
  /\ NoRef \notin Sessions

VARIABLES
  now,       \* the clock, in minutes
  pass,      \* the committed rows
  used,      \* sessions the access point has opened so far
  live,      \* those it has not closed
  pending,   \* scheduled actions whose completed_at is null
  pc,        \* where each task is
  clock,     \* the time the loop over the passes took when it began
  list,      \* what that loop has listed and not handled
  lost,      \* history: sessions whose activation did not commit
  dropped,   \* history: sessions whose reference BLOCK emptied
  stranded,  \* history: expired passes lengthened with access still open
  unblocked, \* history: passes a manager has unblocked
  faults     \* failures so far

taskVars == <<pc, clock, list>>
history == <<lost, dropped, stranded, unblocked>>
vars == <<now, pass, used, live, pending, taskVars, history, faults>>

(* ACTIVATING, EXPIRING_SOON, CANCELLED and FAILED are never written. *)
Statuses == {"NONE", "ISSUED", "ACTIVE", "EXPIRED", "BLOCKED"}
Kinds == {"EXPIRE_PASS", "SEND_EXPIRING_NOTIFICATION", "REVOKE_NETWORK_ACCESS"}

Row == [status : Statuses, expires : Nat, version : Nat,
        ref : Sessions \cup {NoRef}]
Actions == [pass : Passes, kind : Kinds, at : Nat, version : Nat]
Overdue == [pass : Passes, at : Nat]

Later(a, b) == IF a >= b THEN a ELSE b
Least(S) == {p \in S : \A q \in S : p <= q}
First(l) == {x \in l : \A y \in l : x.at <= y.at}

Init ==
  /\ now = 0
  /\ pass = [p \in Passes |-> [status |-> "NONE", expires |-> 0,
                               version |-> 0, ref |-> NoRef]]
  /\ used = {} /\ live = {} /\ pending = {}
  /\ pc = [t \in Tasks |-> "idle"]
  /\ clock = [t \in Tasks |-> 0]
  /\ list = [t \in Tasks |-> {}]
  /\ lost = {} /\ dropped = {} /\ stranded = {} /\ unblocked = {}
  /\ faults = 0

-----------------------------------------------------------------------------
(* Orders *)

(* In the quiet hours a pass lasts at least until they end. *)
Quiet(expires) == IF now < QuietUntil THEN Later(expires, QuietUntil) ELSE expires

Entry(p, kind, at) ==
  [pass |-> p, kind |-> kind, at |-> at, version |-> pass'[p].version]

(* What issue_or_extend_pass schedules for the pass as it leaves it. *)
Scheduled(p) ==
  LET end == pass'[p].expires
  IN  {Entry(p, "EXPIRE_PASS", end), Entry(p, "REVOKE_NETWORK_ACCESS", end)}
        \cup {Entry(p, "SEND_EXPIRING_NOTIFICATION", at) :
                at \in {t \in {end - Notice} : t > now}}

(* The passes an order may lengthen: get_or_create excludes BLOCKED only. *)
Existing == {p \in Passes : pass[p].status \notin {"NONE", "BLOCKED"}}

(* No pass to lengthen: a row with a fresh random key. *)
FirstOrder(p) ==
  /\ Existing = {}
  /\ pass[p].status = "NONE"
  /\ pass' = [pass EXCEPT ![p] = [status |-> "ISSUED", expires |-> Quiet(now + Base),
                                  version |-> 1, ref |-> NoRef]]
  /\ pending' = pending \cup Scheduled(p)
  /\ UNCHANGED <<now, used, live, taskVars, history, faults>>

AdditionalOrder(p, m) ==
  /\ p \in Least(Existing)
  /\ pass[p].version < MaxVersion
  /\ pass' = [pass EXCEPT ![p] =
       [status |-> IF @.status = "EXPIRED" /\ m > 0 THEN "ACTIVE" ELSE @.status,
        expires |-> Quiet(Later(@.expires, now) + m),
        version |-> @.version + 1, ref |-> @.ref]]
  /\ pending' = pending \cup Scheduled(p)
  /\ stranded' = stranded \ {p}
  /\ UNCHANGED <<now, used, live, taskVars, lost, dropped, unblocked, faults>>

-----------------------------------------------------------------------------
(* The portal *)

(* An overdue pass is refused: the EXPIRED it was given is rolled back by  *)
(* the exception that refuses it.                                          *)
ActivatePass(p, s) ==
  /\ pass[p].status = "ISSUED"
  /\ pass[p].expires > now
  /\ s \notin used
  /\ used' = used \cup {s}
  /\ live' = live \cup {s}
  /\ \/ /\ pass' = [pass EXCEPT ![p].status = "ACTIVE", ![p].ref = s]
        /\ UNCHANGED <<lost, faults>>
     \/ /\ faults < MaxFaults       \* the reply or the commit is lost
        /\ faults' = faults + 1
        /\ lost' = lost \cup {s}
        /\ UNCHANGED pass
  /\ UNCHANGED <<now, pending, taskVars, dropped, stranded, unblocked>>

(* Lengthening without a schedule: the status stays, whatever it is. *)
Moved(p, expires) ==
  /\ pass[p].status # "NONE"
  /\ pass[p].version < MaxVersion
  /\ pass' = [pass EXCEPT ![p].expires = expires, ![p].version = @ + 1]
  /\ stranded' = IF pass[p].status = "EXPIRED" /\ pass[p].ref # NoRef
                 THEN stranded \cup {p} ELSE stranded
  /\ UNCHANGED <<now, used, live, pending, taskVars, lost, dropped, unblocked, faults>>

(* choose_benefit takes the first pass of the day, in any status, and the  *)
(* end of the business day replaces its expiry, even a later one.          *)
ApplyDayPass(p) ==
  /\ p \in Least({q \in Passes : pass[q].status # "NONE"})
  /\ Moved(p, DayEnd)

-----------------------------------------------------------------------------
(* Staff *)

ExtendAction(p, m) == Moved(p, Later(pass[p].expires, now) + m)

PassExtend(p, m) ==
  /\ pass[p].status # "NONE"
  /\ pass[p].version < MaxVersion
  /\ pass' = [pass EXCEPT ![p] =
       [status |-> IF @.status = "EXPIRED" THEN "ACTIVE" ELSE @.status,
        expires |-> Later(@.expires, now) + m,
        version |-> @.version + 1, ref |-> @.ref]]
  /\ stranded' = stranded \ {p}
  /\ UNCHANGED <<now, used, live, pending, taskVars, lost, dropped, unblocked, faults>>

(* BLOCK forgets the session without ending it at the access point. *)
Block(p) ==
  /\ pass[p].status # "NONE"
  /\ pass' = [pass EXCEPT ![p].status = "BLOCKED", ![p].ref = NoRef]
  /\ dropped' = dropped \cup ({pass[p].ref} \ {NoRef})
  /\ UNCHANGED <<now, used, live, pending, taskVars, lost, stranded, unblocked, faults>>

(* Any pass with time left becomes ACTIVE, blocked or not. *)
Unblock(p) ==
  /\ pass[p].status # "NONE"
  /\ pass[p].expires > now
  /\ pass' = [pass EXCEPT ![p].status = "ACTIVE"]
  /\ unblocked' = unblocked \cup {p}
  /\ UNCHANGED <<now, used, live, pending, taskVars, lost, dropped, stranded, faults>>

Ended(p) == [pass EXCEPT ![p] = [status |-> "EXPIRED", expires |-> @.expires,
                                 version |-> @.version + 1, ref |-> NoRef]]
Closed(p) == live \ {pass[p].ref}

(* Mutant: the row is ended without the call to the access point. *)
AdminExpireRowOnly(p) ==
  /\ pass[p].status \in {"ISSUED", "ACTIVE"}
  /\ pass[p].version < MaxVersion
  /\ pass' = Ended(p)
  /\ UNCHANGED <<now, used, live, pending, taskVars, history, faults>>

AdminExpire(p) ==
  /\ pass[p].status \in {"ISSUED", "ACTIVE"}
  /\ pass[p].version < MaxVersion
  /\ live' = Closed(p)
  /\ \/ pass' = Ended(p) /\ UNCHANGED faults
     \/ /\ faults < MaxFaults       \* the reply or the commit is lost
        /\ faults' = faults + 1
        /\ UNCHANGED pass
  /\ UNCHANGED <<now, used, pending, taskVars, history>>

-----------------------------------------------------------------------------
(* run_minutely_jobs, task t *)

(* expire_due_passes reads its clock and lists the overdue passes. *)
ListPasses(t) ==
  /\ pc[t] = "idle"
  /\ pc' = [pc EXCEPT ![t] = "passes"]
  /\ clock' = [clock EXCEPT ![t] = now]
  /\ list' = [list EXCEPT ![t] =
       {[pass |-> p, at |-> pass[p].expires] :
          p \in {q \in Passes : pass[q].status = "ACTIVE" /\ pass[q].expires <= now}}]
  /\ UNCHANGED <<now, pass, used, live, pending, history, faults>>

(* Mutant: what was listed is ended without a second look. *)
ExpireListed(t, x) ==
  /\ pc[t] = "passes"
  /\ x \in First(list[t])
  /\ list' = [list EXCEPT ![t] = @ \ {x}]
  /\ live' = Closed(x.pass)
  /\ pass' = Ended(x.pass)
  /\ UNCHANGED <<now, used, pending, pc, clock, history, faults>>

(* _expire_due_pass looks again under the lock, with the loop's clock. *)
ExpirePass(t, x) ==
  LET p == x.pass IN
  /\ pc[t] = "passes"
  /\ x \in First(list[t])
  /\ list' = [list EXCEPT ![t] = @ \ {x}]
  /\ IF pass[p].status = "ACTIVE" /\ pass[p].expires <= clock[t]
     THEN live' = Closed(p) /\ pass' = Ended(p)
     ELSE UNCHANGED <<live, pass>>
  /\ UNCHANGED <<now, used, pending, pc, clock, history, faults>>

(* process_due_actions reads a clock of its own and lists what is due;     *)
(* no listed action can stop being due.                                    *)
ListActions(t) ==
  /\ pc[t] = "passes"
  /\ list[t] = {}
  /\ pc' = [pc EXCEPT ![t] = "actions"]
  /\ clock' = [clock EXCEPT ![t] = 0]
  /\ list' = [list EXCEPT ![t] = {a \in pending : a.at <= now}]
  /\ UNCHANGED <<now, pass, used, live, pending, history, faults>>

(* Mutant: the expiry counts as a new version, as it does in the loop. *)
ExpiredBumping(p) ==
  IF pass[p].status \in {"EXPIRED", "BLOCKED"} THEN pass
  ELSE [pass EXCEPT ![p].status = "EXPIRED", ![p].version = @ + 1]

Expired(p) ==
  IF pass[p].status \in {"EXPIRED", "BLOCKED"} THEN pass
  ELSE [pass EXCEPT ![p].status = "EXPIRED"]

(* What an action of the pass's present version does: EXPIRE_PASS leaves   *)
(* the access open, REVOKE_NETWORK_ACCESS does not look at the status.     *)
Perform(a) ==
  \/ /\ a.kind = "EXPIRE_PASS"
     /\ pass' = Expired(a.pass)
     /\ UNCHANGED live
  \/ /\ a.kind = "SEND_EXPIRING_NOTIFICATION"
     /\ UNCHANGED <<pass, live>>
  \/ /\ a.kind = "REVOKE_NETWORK_ACCESS"
     /\ live' = Closed(a.pass)
     /\ pass' = [pass EXCEPT ![a.pass].ref = NoRef]

(* execute_scheduled_action: nothing for a completed action or one of an   *)
(* older version; the pass is locked with the action.                      *)
Execute(t, a) ==
  /\ pc[t] = "actions"
  /\ a \in First(list[t])
  /\ list' = [list EXCEPT ![t] = @ \ {a}]
  /\ pending' = pending \ {a}
  /\ IF a \in pending /\ a.version = pass[a.pass].version
     THEN Perform(a)
     ELSE UNCHANGED <<pass, live>>
  /\ UNCHANGED <<now, used, pc, clock, history, faults>>

FinishTask(t) ==
  /\ pc[t] = "actions"
  /\ list[t] = {}
  /\ pc' = [pc EXCEPT ![t] = "idle"]
  /\ UNCHANGED <<now, pass, used, live, pending, clock, list, history, faults>>

(* Mutant: the worker is not started again. *)
TaskStaysDown(t) ==
  /\ pc[t] # "idle"
  /\ faults < MaxFaults
  /\ faults' = faults + 1
  /\ pc' = [pc EXCEPT ![t] = "down"]
  /\ clock' = [clock EXCEPT ![t] = 0]
  /\ list' = [list EXCEPT ![t] = {}]
  /\ UNCHANGED <<now, pass, used, live, pending, history>>

(* The worker stops, or the access point fails the call that the head of   *)
(* the list makes, having closed the session or not: nothing catches       *)
(* ProviderError, and what is left of both lists waits for the next run.   *)
TaskFails(t) ==
  /\ pc[t] # "idle"
  /\ faults < MaxFaults
  /\ faults' = faults + 1
  /\ \/ UNCHANGED live
     \/ \E x \in First(list[t]) :
          /\ \/ /\ pc[t] = "passes"
                /\ pass[x.pass].status = "ACTIVE"
                /\ pass[x.pass].expires <= clock[t]
             \/ /\ pc[t] = "actions"
                /\ x \in pending
                /\ x.kind = "REVOKE_NETWORK_ACCESS"
                /\ x.version = pass[x.pass].version
          /\ live' = Closed(x.pass)
  /\ pc' = [pc EXCEPT ![t] = "idle"]
  /\ clock' = [clock EXCEPT ![t] = 0]
  /\ list' = [list EXCEPT ![t] = {}]
  /\ UNCHANGED <<now, pass, used, pending, history>>

Tick ==
  /\ now < MaxTime
  /\ now' = now + 1
  /\ UNCHANGED <<pass, used, live, pending, taskVars, history, faults>>

-----------------------------------------------------------------------------
PassActivate(p) == \E s \in Sessions : ActivatePass(p, s)

AdminPassAction(p) == Block(p) \/ Unblock(p) \/ \E m \in Granted : ExtendAction(p, m)

Request(p) ==
  \/ FirstOrder(p)
  \/ \E m \in Bonus : AdditionalOrder(p, m)
  \/ PassActivate(p) \/ ApplyDayPass(p)
  \/ AdminPassAction(p) \/ AdminExpire(p)
  \/ \E m \in Granted : PassExtend(p, m)

TaskStep(t) ==
  \/ ListPasses(t)
  \/ \E x \in list[t] : ExpirePass(t, x)
  \/ ListActions(t)
  \/ \E a \in list[t] : Execute(t, a)
  \/ FinishTask(t)

Next ==
  \/ \E p \in Passes : Request(p)
  \/ \E t \in Tasks : TaskStep(t) \/ TaskFails(t)
  \/ Tick

Spec == Init /\ [][Next]_vars

(* Beat starts the task again a minute later whatever became of the last   *)
(* run, and a running task goes on.  Requests and the clock owe nothing.   *)
FairSpec == Spec /\ \A t \in Tasks : WF_vars(TaskStep(t))

-----------------------------------------------------------------------------
(* Every variable holds values of its kind, and a task that is idle has    *)
(* nothing listed.                                                         *)
TypeOK ==
  /\ now \in Nat /\ faults \in Nat
  /\ pass \in [Passes -> Row]
  /\ used \subseteq Sessions /\ live \subseteq used
  /\ pending \subseteq Actions
  /\ pc \in [Tasks -> {"idle", "passes", "actions"}]
  /\ clock \in [Tasks -> Nat]
  /\ list \in [Tasks -> SUBSET (Overdue \cup Actions)]
  /\ \A t \in Tasks : /\ pc[t] = "idle" => list[t] = {}
                      /\ pc[t] = "passes" => list[t] \subseteq Overdue
                      /\ pc[t] = "actions" => list[t] \subseteq Actions
  /\ lost \subseteq used /\ dropped \subseteq used
  /\ stranded \subseteq Passes /\ unblocked \subseteq Passes

(* A row refers to a session that was opened, and to one no other row      *)
(* refers to; before its activation it refers to none.                     *)
RefsAreOwn ==
  \A p \in Passes :
    /\ pass[p].ref \in used \cup {NoRef}
    /\ pass[p].status \in {"NONE", "ISSUED"} => pass[p].ref = NoRef
    /\ \A q \in Passes : pass[p].ref = pass[q].ref /\ p # q => pass[p].ref = NoRef

(* An action that is not completed is of a version the pass has had; if it *)
(* is of the present one and ends something, it is due when the pass ends. *)
ActionsFit ==
  /\ \A p \in Passes : pass[p].status = "NONE" => pass[p].version = 0
  /\ \A a \in pending :
       /\ 0 < a.version /\ a.version <= pass[a.pass].version
       /\ (a.version = pass[a.pass].version /\ a.kind # "SEND_EXPIRING_NOTIFICATION")
            => a.at = pass[a.pass].expires

(* A task compares with a time that has come, and lists what is due. *)
ListsAreDue ==
  \A t \in Tasks :
    /\ pc[t] = "passes" => clock[t] <= now
    /\ pc[t] = "actions" => \A a \in list[t] : a.at <= now

(* An open session that no row refers to, which nothing will ever close,   *)
(* was opened by an activation that did not commit or belongs to a pass    *)
(* whose reference BLOCK emptied: no other path loses one.                 *)
OpenSessionsAreFound ==
  live \subseteq {pass[p].ref : p \in Passes} \cup lost \cup dropped

(* A customer's second usable pass of a day comes only of unblocking the   *)
(* first: orders never issue one beside a pass that can be lengthened.     *)
OneUsablePass ==
  \A p, q \in Existing : p # q => p \in unblocked \/ q \in unblocked

PassInv ==
  TypeOK /\ RefsAreOwn /\ ActionsFit /\ ListsAreDue /\ OpenSessionsAreFound /\ OneUsablePass

(* The task takes nothing that was paid for: neither a list made before an *)
(* order lengthened the pass, nor an old clock, nor an action of an        *)
(* earlier version ends a pass with minutes left, or has the access point  *)
(* close its session; only staff's expiry does.                            *)
PaidTimeIsKept ==
  [][\A p \in Passes :
       (\/ pass[p].status \in {"ISSUED", "ACTIVE"} /\ pass'[p].status = "EXPIRED"
        \/ pass[p].ref \in live \ live')
         => pass[p].expires <= now \/ AdminExpire(p)]_vars

(* The Celery task ends every overdue active pass, across failures of the  *)
(* access point and of workers.                                            *)
OverdueIsEnded ==
  \A p \in Passes :
    (pass[p].status = "ACTIVE" /\ pass[p].expires <= now)
      ~> (pass[p].status # "ACTIVE" \/ pass[p].expires > now)

(* The access of a pass that has expired is closed, unless the pass is     *)
(* revived, blocked or stranded first.                                     *)
ExpiredAccessIsClosed ==
  \A p \in Passes : \A s \in Sessions :
    (pass[p].status = "EXPIRED" /\ pass[p].ref = s /\ s \in live /\ pass[p].expires <= now)
      ~> \/ s \notin live
         \/ pass[p].status # "EXPIRED" \/ pass[p].expires > now
         \/ p \in stranded
=============================================================================

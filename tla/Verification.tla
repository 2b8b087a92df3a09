---------------------------- MODULE Verification ----------------------------
(***************************************************************************)
(* How a customer gets from the QR claim of an order to a portal session,  *)
(* in the FastAPI backend: the claim is exchanged for a ticket, the ticket *)
(* has codes sent to the phone, and a code opens the session.              *)
(*                                                                         *)
(* Requests interleave at READ COMMITTED; each is split between what it    *)
(* reads, under which lock, and its commit.  The orders are paid at time   *)
(* 0.  A request that is refused changes nothing and is no step.           *)
(***************************************************************************)
EXTENDS Integers, FiniteSets

CONSTANTS Orders,
          Challenges,   \* ids of otp_challenges
          Workers,      \* server threads: the requests in progress
          ClaimLife,    \* ten minutes from the order
          TicketLife,   \* ten minutes from the exchange
          OtpLife,      \* three minutes from the request
          Window,       \* otp_send_window_seconds
          MaxSends,     \* otp_max_sends_per_window
          MaxAttempts,  \* five
          MaxTime,      \* bound: the clock stops there
          MaxUndone,    \* bound: rolled back after sending or comparing their code
          NoOrder, NoChallenge

ASSUME VerificationAssumption ==
  /\ IsFiniteSet(Challenges) /\ IsFiniteSet(Workers) /\ Workers # {}
  /\ {ClaimLife, TicketLife, OtpLife, Window} \subseteq Nat
  /\ MaxSends \in Nat \ {0}
  /\ MaxAttempts \in Nat \ {0}
  /\ NoOrder \notin Orders
  /\ NoChallenge \notin Challenges

VARIABLES
  now,
  exchanged,  \* orders whose claim has exchanged_at
  ticket,     \* expiry of each ticket a customer received
  otp,        \* otp_challenges: the committed rows
  issued,     \* history: how often a claim was exchanged
  sent,       \* history: for whom, and when, a challenge's code was sent
  lost,       \* history: challenges whose code was sent, but did not commit
  compared,   \* history: how many codes were compared with a challenge's
  undone,     \* history: how many of these comparisons did not commit
  opened,     \* history: how many sessions a challenge opened
  pc, job     \* where each request is, and what it has read

sends == <<sent, lost>>
confirms == <<compared, undone, opened>>
history == <<issued, sends, confirms>>
vars == <<now, exchanged, ticket, otp, history, pc, job>>

Ended == {"VERIFIED", "LOCKED", "EXPIRED"}

OtpChallenge ==
  [status : {"none", "PENDING"} \cup Ended, order : Orders \cup {NoOrder},
   attempts : Nat, created : Nat, expires : Nat]

NoRow == [status |-> "none", order |-> NoOrder, attempts |-> 0, created |-> 0, expires |-> 0]

(* otp: the challenge it inserted or locked; at: the time the request      *)
(* read; created: of the row it inserted; row: the challenge as it read it.*)
Job == [order : Orders \cup {NoOrder}, otp : Challenges \cup {NoChallenge},
        at : Nat, created : Nat, row : OtpChallenge]

Asks(o, t) == [order |-> o, otp |-> NoChallenge, at |-> t, created |-> 0, row |-> NoRow]
Sends(o, c, t, created) == [order |-> o, otp |-> c, at |-> t, created |-> created, row |-> NoRow]
Confirms(c, t) == [order |-> NoOrder, otp |-> c, at |-> t, created |-> 0, row |-> otp[c]]
NoJob == Asks(NoOrder, 0)

(* A code sent: for which order, and when its challenge was created. *)
Sending == [order : Orders \cup {NoOrder}, at : Nat]
NotSent == [order |-> NoOrder, at |-> 0]

Init ==
  /\ now = 0
  /\ exchanged = {}
  /\ ticket = [o \in Orders |-> {}]
  /\ otp = [c \in Challenges |-> NoRow]
  /\ issued = [o \in Orders |-> 0]
  /\ sent = [c \in Challenges |-> NotSent]
  /\ lost = {}
  /\ compared = [c \in Challenges |-> 0]
  /\ undone = [c \in Challenges |-> 0]
  /\ opened = [c \in Challenges |-> 0]
  /\ pc = [w \in Workers |-> "idle"]
  /\ job = [w \in Workers |-> NoJob]

Goes(w, to, j) ==
  /\ pc' = [pc EXCEPT ![w] = to]
  /\ job' = [job EXCEPT ![w] = j]

Ends(w) == Goes(w, "idle", NoJob)

-----------------------------------------------------------------------------
(* Mutant: the claim is read without FOR UPDATE. *)
ClaimNotLocked(o) == FALSE

ClaimLocked(o) == \E w \in Workers : pc[w] = "exchange" /\ job[w].order = o

(* POST /public/order-claims/exchange locks the claim: 409 if it was       *)
(* exchanged, 410 if it is over.                                           *)
ExchangeLocks(w, o) ==
  /\ pc[w] = "idle"
  /\ ~ClaimLocked(o)
  /\ o \notin exchanged
  /\ now < ClaimLife
  /\ Goes(w, "exchange", Asks(o, now))
  /\ UNCHANGED <<now, exchanged, ticket, otp, history>>

(* Mutant: the sign of the lifetime. *)
TicketEndsBefore(t) == t - TicketLife

TicketEnds(t) == t + TicketLife

(* The ticket is in the reply only, and the reply may be lost. *)
ExchangeCommits(w) ==
  LET o == job[w].order IN
  /\ pc[w] = "exchange"
  /\ exchanged' = exchanged \cup {o}
  /\ issued' = [issued EXCEPT ![o] = @ + 1]
  /\ \/ ticket' = [ticket EXCEPT ![o] = @ \cup {TicketEnds(job[w].at)}]
     \/ UNCHANGED ticket
  /\ Ends(w)
  /\ UNCHANGED <<now, otp, sends, confirms>>

-----------------------------------------------------------------------------
(* The challenges of the order that its window still counts. *)
Recent(o) ==
  {c \in Challenges : /\ otp[c].status # "none"
                      /\ otp[c].order = o
                      /\ otp[c].created >= now - Window}

(* Mutant: only challenges that still wait for a code are counted. *)
MaySendPending(o) ==
  Cardinality({c \in Recent(o) : otp[c].status = "PENDING"}) < MaxSends

MaySend(o) == Cardinality(Recent(o)) < MaxSends

(* POST /public/otp/send, with a ticket not yet over, counts the challenges *)
(* of the order without any lock: 429 if there are too many.               *)
SendCounts(w, o) ==
  /\ pc[w] = "idle"
  /\ \E expiry \in ticket[o] : expiry > now
  /\ MaySend(o)
  /\ Goes(w, "send", Asks(o, now))
  /\ UNCHANGED <<now, exchanged, ticket, otp, history>>

(* The INSERT, under an id never used before, gives the row its created_at *)
(* and may wait for the order, to which it refers; then the code is sent   *)
(* to the phone.                                                           *)
SendDelivers(w) ==
  /\ pc[w] = "send"
  /\ \E c \in Challenges :
       /\ sent[c] = NotSent
       /\ sent' = [sent EXCEPT ![c] = [order |-> job[w].order, at |-> now]]
       /\ Goes(w, "sent", Sends(job[w].order, c, job[w].at, now))
  /\ UNCHANGED <<now, exchanged, ticket, otp, issued, lost, confirms>>

NewRow(j) ==
  [status |-> "PENDING", order |-> j.order, attempts |-> 0,
   created |-> j.created, expires |-> j.at + OtpLife]

SendCommits(w) ==
  /\ pc[w] = "sent"
  /\ otp' = [otp EXCEPT ![job[w].otp] = NewRow(job[w])]
  /\ Ends(w)
  /\ UNCHANGED <<now, exchanged, ticket, history>>

-----------------------------------------------------------------------------
(* Mutant: the challenge is read without FOR UPDATE. *)
OtpNotLocked(c) == FALSE

Confirming(w) == pc[w] \in {"confirm", "wrong", "right"}

OtpLocked(c) == \E w \in Workers : Confirming(w) /\ job[w].otp = c

(* POST /public/otp/confirm locks the challenge: 422 unless it is PENDING. *)
ConfirmLocks(w, c) ==
  /\ pc[w] = "idle"
  /\ ~OtpLocked(c)
  /\ otp[c].status = "PENDING"
  /\ Goes(w, "confirm", Confirms(c, now))
  /\ UNCHANGED <<now, exchanged, ticket, otp, history>>

Marked(r, status, attempts) ==
  [status |-> status, order |-> r.order, attempts |-> attempts,
   created |-> r.created, expires |-> r.expires]

(* Mutant: the attempt counted for a wrong code is not kept. *)
AfterWrongUncounted(r) ==
  Marked(r, IF r.attempts + 1 >= MaxAttempts THEN "LOCKED" ELSE "PENDING", r.attempts)

(* A wrong code is counted, and the last one allowed locks. *)
AfterWrong(r) ==
  Marked(r, IF r.attempts + 1 >= MaxAttempts THEN "LOCKED" ELSE "PENDING", r.attempts + 1)

(* A challenge that is over, or has no attempt left, is only marked so. *)
ConfirmRefuses(w) ==
  LET r == job[w].row IN
  /\ pc[w] = "confirm"
  /\ \/ /\ r.expires <= job[w].at
        /\ otp' = [otp EXCEPT ![job[w].otp] = Marked(r, "EXPIRED", r.attempts)]
     \/ /\ r.expires > job[w].at
        /\ r.attempts >= MaxAttempts
        /\ otp' = [otp EXCEPT ![job[w].otp] = Marked(r, "LOCKED", r.attempts)]
  /\ Ends(w)
  /\ UNCHANGED <<now, exchanged, ticket, history>>

(* The code is compared before anything is written. *)
ConfirmCompares(w) ==
  /\ pc[w] = "confirm"
  /\ job[w].row.expires > job[w].at
  /\ job[w].row.attempts < MaxAttempts
  /\ compared' = [compared EXCEPT ![job[w].otp] = @ + 1]
  /\ \E result \in {"wrong", "right"} : Goes(w, result, job[w])
  /\ UNCHANGED <<now, exchanged, ticket, otp, issued, sends, undone, opened>>

(* The row is written from what was read under the lock. *)
ConfirmCommits(w) ==
  LET c == job[w].otp
      r == job[w].row
  IN
  /\ \/ /\ pc[w] = "wrong"
        /\ otp' = [otp EXCEPT ![c] = AfterWrong(r)]
        /\ UNCHANGED opened
     \/ /\ pc[w] = "right"
        /\ otp' = [otp EXCEPT ![c] = Marked(r, "VERIFIED", r.attempts + 1)]
        /\ opened' = [opened EXCEPT ![c] = @ + 1]
  /\ Ends(w)
  /\ UNCHANGED <<now, exchanged, ticket, issued, sends, compared, undone>>

-----------------------------------------------------------------------------
(* The challenges with a send or a comparison that was rolled back. *)
LeftOut == lost \cup {c \in Challenges : undone[c] > 0}

(* The provider refuses, or the process breaks: nothing is committed,      *)
(* though the code may have reached the phone, or been compared.           *)
RolledBack(w) ==
  /\ \/ /\ pc[w] \in {"exchange", "send", "confirm"}
        /\ UNCHANGED <<lost, undone>>
     \/ /\ pc[w] = "sent"
        /\ Cardinality(LeftOut) < MaxUndone
        /\ lost' = lost \cup {job[w].otp}
        /\ UNCHANGED undone
     \/ /\ pc[w] \in {"wrong", "right"}
        /\ Cardinality(LeftOut) < MaxUndone
        /\ undone' = [undone EXCEPT ![job[w].otp] = @ + 1]
        /\ UNCHANGED lost
  /\ Ends(w)
  /\ UNCHANGED <<now, exchanged, ticket, otp, issued, sent, compared, opened>>

Tick ==
  /\ now < MaxTime
  /\ now' = now + 1
  /\ UNCHANGED <<exchanged, ticket, otp, history, pc, job>>

Step(w) ==
  \/ \E o \in Orders : ExchangeLocks(w, o) \/ SendCounts(w, o)
  \/ \E c \in Challenges : ConfirmLocks(w, c)
  \/ ExchangeCommits(w)
  \/ SendDelivers(w)
  \/ SendCommits(w)
  \/ ConfirmRefuses(w)
  \/ ConfirmCompares(w)
  \/ ConfirmCommits(w)
  \/ RolledBack(w)

Next == (\E w \in Workers : Step(w)) \/ Tick

Spec == Init /\ [][Next]_vars

-----------------------------------------------------------------------------
TypeOK ==
  /\ now \in Nat
  /\ exchanged \subseteq Orders
  /\ ticket \in [Orders -> SUBSET Nat]
  /\ issued \in [Orders -> Nat]
  /\ otp \in [Challenges -> OtpChallenge]
  /\ sent \in [Challenges -> Sending]
  /\ lost \subseteq Challenges
  /\ compared \in [Challenges -> Nat]
  /\ undone \in [Challenges -> Nat]
  /\ opened \in [Challenges -> Nat]
  /\ pc \in [Workers -> {"idle", "exchange", "send", "sent", "confirm", "wrong", "right"}]
  /\ job \in [Workers -> Job]

(* A claim is exchanged once, whatever requests for it run at once and     *)
(* whichever of them fail (exchange_claim's FOR UPDATE).                   *)
TicketOnce ==
  \A o \in Orders : issued[o] <= 1 /\ (issued[o] = 1 <=> o \in exchanged)

(* The codes that reached the phone of an order within its window. *)
Delivered(o) == {c \in Challenges : sent[c].order = o /\ sent[c].at >= now - Window}

(* The unlocked count lets more codes through than the limit, but in any   *)
(* window at most one more for each other request that counted with it,    *)
(* codes on their way to the commit included (send_otp delivers before it  *)
(* commits).  A request that is rolled back after the delivery leaves no   *)
(* challenge to count: its code comes on top, and nothing bounds these.    *)
SendsBounded ==
  \A o \in Orders :
    Cardinality(Delivered(o) \ lost) <= MaxSends + Cardinality(Workers) - 1

(* No challenge compares more than MaxAttempts codes although requests for *)
(* it overlap (confirm_otp counts under FOR UPDATE), but for comparisons   *)
(* whose request was rolled back afterwards: each gives its attempt back,  *)
(* once, and no commit undoes the count of another's.                      *)
AttemptsBounded == \A c \in Challenges : compared[c] <= MaxAttempts + undone[c]

(* A challenge opens one session at most, and then it stays VERIFIED: no   *)
(* late wrong code or expiry takes it back, no second code opens another   *)
(* (confirm_otp).                                                          *)
OneSession ==
  \A c \in Challenges : opened[c] <= 1 /\ (opened[c] = 1 <=> otp[c].status = "VERIFIED")

(* What has ended stays as it ended (confirm_otp, status check under lock). *)
EndedStays ==
  [][\A c \in Challenges : otp[c].status \in Ended => otp'[c] = otp[c]]_vars

-----------------------------------------------------------------------------
(* Why this holds: the inductive strengthening of the invariants above.    *)

(* A request that exchanges a claim is the only one, and the first. *)
ClaimsLocked ==
  \A w \in Workers :
    pc[w] = "exchange" =>
      /\ job[w].order \in Orders \ exchanged
      /\ \A v \in Workers : pc[v] = "exchange" /\ job[v].order = job[w].order => v = w

(* A request that confirms is the only one for its challenge, and has read *)
(* it as it is.                                                            *)
OtpsLocked ==
  \A w \in Workers :
    Confirming(w) =>
      /\ job[w].otp \in Challenges
      /\ job[w].row = otp[job[w].otp]
      /\ job[w].row.status = "PENDING"
      /\ \A v \in Workers : Confirming(v) /\ job[v].otp = job[w].otp => v = w

(* The comparison of a request that has not committed yet. *)
Comparing(c) == \E w \in Workers : pc[w] \in {"wrong", "right"} /\ job[w].otp = c

AttemptsCounted ==
  \A c \in Challenges :
    /\ Comparing(c) => compared[c] = otp[c].attempts + undone[c] + 1
    /\ ~Comparing(c) => compared[c] = otp[c].attempts + undone[c]
    /\ otp[c].attempts <= MaxAttempts
    /\ otp[c].status = "none" => otp[c].attempts = 0
    /\ otp[c].status = "PENDING" => otp[c].attempts < MaxAttempts

(* A challenge that was sent is committed, lost or on its way. *)
SendsTracked ==
  /\ \A c \in Challenges :
       /\ otp[c].status # "none" => /\ sent[c] = [order |-> otp[c].order, at |-> otp[c].created]
                                    /\ c \notin lost
       /\ otp[c].status = "none" => \/ sent[c] = NotSent
                                    \/ c \in lost
                                    \/ \E w \in Workers : pc[w] = "sent" /\ job[w].otp = c
       /\ sent[c] = NotSent => otp[c].status = "none" /\ c \notin lost
  /\ \A w \in Workers :
       /\ pc[w] \in {"send", "sent"} => job[w].order \in Orders
       /\ pc[w] = "sent" =>
            /\ job[w].otp \in Challenges \ lost
            /\ sent[job[w].otp] = [order |-> job[w].order, at |-> job[w].created]
            /\ otp[job[w].otp].status = "none"
            /\ \A v \in Workers : pc[v] = "sent" /\ job[v].otp = job[w].otp => v = w

Asking(o) == {w \in Workers : pc[w] \in {"send", "sent"} /\ job[w].order = o}

(* Whoever counted last saw less than the limit, and only requests that    *)
(* were under way then have added to it.                                   *)
SendsAhead ==
  \A o \in Orders :
    Cardinality(Recent(o)) + Cardinality(Asking(o)) <= MaxSends + Cardinality(Workers) - 1

VerificationInv ==
  /\ TypeOK
  /\ ClaimsLocked
  /\ OtpsLocked
  /\ AttemptsCounted
  /\ SendsTracked
  /\ SendsAhead
  /\ TicketOnce
  /\ OneSession

=============================================================================

---------------------------- MODULE PassContract ----------------------------
(***************************************************************************)
(* What the product promises about a Wi-Fi pass, whatever the transactions *)
(* that deliver it: who may change it from which status, that only time    *)
(* ends it by itself, that an ending by staff is final, that an expired    *)
(* pass may be bought back, and that access is opened by activation alone  *)
(* and closed no later than the pass ends.                                 *)
(***************************************************************************)
EXTENDS Integers

CONSTANTS Passes

VARIABLES now,     \* the clock
          pass,    \* [Passes -> [status, expires, version]]
          open     \* passes with an open access-point session

contractVars == <<now, pass, open>>

Init ==
  /\ now = 0
  /\ pass = [p \in Passes |-> [status |-> "NONE", expires |-> 0, version |-> 0]]
  /\ open = {}

(* Sold with the first order, which was made at t. *)
Sell(p, t) ==
  /\ pass[p].status = "NONE"
  /\ pass'[p].status = "ISSUED"
  /\ pass'[p].version = 1
  /\ pass'[p].expires >= t
  /\ open' = open

(* More time, on any pass that staff has not ended. *)
Lengthen(p) ==
  /\ pass[p].status \in {"ISSUED", "ACTIVE", "EXPIRED"}
  /\ pass'[p].status = IF pass[p].status = "EXPIRED" /\ pass'[p].status # "EXPIRED"
                       THEN "ACTIVE" ELSE pass[p].status
  /\ pass'[p].expires >= pass[p].expires
  /\ pass'[p].version = pass[p].version + 1
  /\ open' = open

(* Less time, for a refund made at t; all of it gone ends the pass. *)
Shorten(p, t) ==
  /\ pass[p].status \in {"ISSUED", "ACTIVE"}
  /\ pass'[p].expires >= t
  /\ pass'[p].expires < pass[p].expires
  /\ pass'[p].version = pass[p].version + 1
  /\ IF pass'[p].expires = t
     THEN pass'[p].status = "EXPIRED" /\ open' = open \ {p}
     ELSE pass'[p].status = pass[p].status /\ open' = open

(* Turned on while it has time left. *)
TurnOn(p) ==
  /\ pass[p].status = "ISSUED"
  /\ pass[p].expires > now
  /\ pass' = [pass EXCEPT ![p].status = "ACTIVE"]
  /\ p \notin open
  /\ open' = open \cup {p}

(* Ended by a manager, with time left or not. *)
EndByStaff(p) ==
  /\ pass[p].status \in {"ISSUED", "ACTIVE"}
  /\ pass'[p].status \in {"CANCELLED", "BLOCKED"}
  /\ pass'[p].expires = pass[p].expires
  /\ pass'[p].version = pass[p].version + 1
  /\ open' = open \ {p}

(* Ended because its time is over. *)
RunOut(p) ==
  /\ pass[p].status \in {"ISSUED", "ACTIVE"}
  /\ pass[p].expires <= now
  /\ pass'[p].status = "EXPIRED"
  /\ pass'[p].expires = pass[p].expires
  /\ pass'[p].version \in {pass[p].version, pass[p].version + 1}
  /\ open' = open \ {p}

OnePass(p) ==
  /\ \A q \in Passes \ {p} : pass'[q] = pass[q]
  /\ \/ \E t \in 0 .. now : Sell(p, t) \/ Shorten(p, t)
     \/ Lengthen(p)
     \/ TurnOn(p) \/ EndByStaff(p) \/ RunOut(p)
  /\ now' = now

(* A session may close before the pass that it belongs to ends. *)
LoseAccess(p) ==
  /\ p \in open
  /\ open' = open \ {p}
  /\ UNCHANGED <<now, pass>>

TimePasses == now' = now + 1 /\ UNCHANGED <<pass, open>>

Next ==
  \/ \E p \in Passes : OnePass(p) \/ LoseAccess(p)
  \/ TimePasses

Spec == Init /\ [][Next]_contractVars
=============================================================================

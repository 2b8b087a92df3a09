--------------------------- MODULE SpendContract ---------------------------
(***************************************************************************)
(* What a café promises about one customer's spending on one business day: *)
(* its balance is what the day's orders have paid and not got back; a tier *)
(* is offered when that has reached it, a refund withdraws what it no      *)
(* longer covers in the same step, and a benefit that was used or          *)
(* withdrawn stays so.                                                     *)
(***************************************************************************)
EXTENDS Integers, FiniteSetsExt

CONSTANTS Orders, Price, Tiers, Threshold

VARIABLES spent,    \* [Orders -> Nat]: paid and not refunded, of each order
          balance,  \* of the day
          benefit   \* of each tier

contractVars == <<spent, balance, benefit>>

NetSpend == MapThenSumSet(LAMBDA o : spent[o], Orders)

Init ==
  /\ spent = [o \in Orders |-> 0]
  /\ balance = 0
  /\ benefit = [t \in Tiers |-> "none"]

(* Paid once; of the tiers reached, those the café runs are offered. *)
Pay(o) ==
  /\ spent[o] = 0
  /\ spent' = [spent EXCEPT ![o] = Price[o]]
  /\ balance' = NetSpend'
  /\ \E offered \in SUBSET {t \in Tiers : benefit[t] = "none" /\ Threshold[t] <= NetSpend'} :
       benefit' = [t \in Tiers |-> IF t \in offered THEN "offered" ELSE benefit[t]]

(* A coupon not used yet is withdrawn like an offer; a benefit to be had   *)
(* with the next order, and what was used, is not.                         *)
Refund(o) ==
  /\ spent[o] > 0
  /\ spent'[o] \in 0 .. spent[o] - 1
  /\ spent' = [spent EXCEPT ![o] = spent'[o]]
  /\ balance' = NetSpend'
  /\ benefit' = [t \in Tiers |->
       IF benefit[t] \in {"offered", "coupon"} /\ Threshold[t] > NetSpend'
       THEN "withdrawn" ELSE benefit[t]]

Take(t) ==
  /\ benefit[t] = "offered"
  /\ \E kind \in {"coupon", "immediate", "used"} :
       benefit' = [benefit EXCEPT ![t] = kind]
  /\ UNCHANGED <<spent, balance>>

Use(t) ==
  /\ benefit[t] \in {"coupon", "immediate"}
  /\ benefit' = [benefit EXCEPT ![t] = "used"]
  /\ UNCHANGED <<spent, balance>>

Next ==
  \/ \E o \in Orders : Pay(o) \/ Refund(o)
  \/ \E t \in Tiers : Take(t) \/ Use(t)

Spec == Init /\ [][Next]_contractVars
=============================================================================

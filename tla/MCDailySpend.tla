---------------------------- MODULE MCDailySpend ----------------------------
(* Small instances of DailySpend for TLC. *)
EXTENDS DailySpend, TLC

CONSTANTS e1, e2, e3, t1

(* A small order, and one that reaches the tier by itself. *)
TwoOrders == (e1 :> 1) @@ (e2 :> 2)
OneTier == (t1 :> 2)

(* No reward tier at all. *)
NoTier == [t \in {} |-> 0]

(* Each of three equal orders earns the reward that the others may use. *)
EqualOrders == [e \in {e1, e2, e3} |-> 2]

Symmetric == Permutations(Workers)
SymmetricOrders == Symmetric \cup Permutations({e1, e2, e3})

=============================================================================

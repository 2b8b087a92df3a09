--------------------------- MODULE MCDjangoOrders ---------------------------
(* A small instance of DjangoOrders for TLC. *)
EXTENDS DjangoOrders, TLC

CONSTANTS e1, e2, t1, t2

(* The second order reaches the tier, alone or with the first. *)
TwoOrders == (e1 :> 1) @@ (e2 :> 2)
OneTier == (t1 :> 2)

Symmetric == Permutations(Attempts) \cup Permutations(Keys)
=============================================================================

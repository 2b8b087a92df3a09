--------------------------- MODULE MCVerification ---------------------------
(* A small instance of Verification for TLC. *)
EXTENDS Verification, TLC

Symmetric == Permutations(Workers) \cup Permutations(Challenges) \cup Permutations(Orders)

=============================================================================

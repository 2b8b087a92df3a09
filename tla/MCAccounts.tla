----------------------------- MODULE MCAccounts -----------------------------
(* A small instance of Accounts for TLC. *)
EXTENDS Accounts, TLC

Symmetric == Permutations(Users) \cup Permutations(Sessions) \cup Permutations(Requests)
=============================================================================

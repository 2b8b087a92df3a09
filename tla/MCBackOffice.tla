---------------------------- MODULE MCBackOffice ----------------------------
(* A small instance of BackOffice for TLC. *)
EXTENDS BackOffice

Windows == {<<0, 1>>, <<1, 2>>, <<0, 3>>}

None == [a \in {} |-> 0]
Rising == [a \in {1, 2} |-> a]
Falling == [a \in {1, 2} |-> 3 - a]
Defaults == [first |-> Rising, more |-> Rising]
SomePolicies ==
  {[base |-> 1, first |-> Falling, more |-> Rising],
   [base |-> 2, first |-> None, more |-> Falling]}
=============================================================================

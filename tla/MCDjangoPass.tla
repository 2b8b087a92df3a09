---------------------------- MODULE MCDjangoPass ----------------------------
(* A small instance of DjangoPass for TLC. *)
EXTENDS DjangoPass
=============================================================================

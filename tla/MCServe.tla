------------------------------- MODULE MCServe -------------------------------
(* Instances of Serve for TLC. *)
EXTENDS Serve

CONSTANT t1   \* the token
=============================================================================

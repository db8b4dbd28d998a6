---------------------------- MODULE MCAnswering ----------------------------
(* Answering for TLC: every kind of request there is. *)
EXTENDS Answering
=============================================================================

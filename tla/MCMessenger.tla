---------------------------- MODULE MCMessenger ----------------------------
(* Small instances of Messenger for TLC. *)
EXTENDS Messenger, TLC

CONSTANTS t1, t2, u1, u2, hi, hey

\* The threads of the HTTP server are interchangeable, and so are users: no
\* action and no property tells one from another.
Symmetry == Permutations(Threads) \cup Permutations(UserIds)
=============================================================================

---------------------------- MODULE MCAuthCalls ----------------------------
(* A small instance of AuthCalls for TLC. *)
EXTENDS AuthCalls, TLC

CONSTANTS ann, dan, eve, c1, c2, w1, w2

\* ann and dan have a row each; eve has none.
MCIdOf == (ann :> 1) @@ (dan :> 2)

\* The credentials of dan are longer than a line, and what is left of them is
\* ann's. (Were it nobody's, auth_service would treat dan as it treats eve.)
MCSeenAs == [u \in Users |-> IF u = dan THEN ann ELSE u]
=============================================================================

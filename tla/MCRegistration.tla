--------------------------- MODULE MCRegistration ---------------------------
(* Small instances of Registration for TLC. *)
EXTENDS Registration, TLC

CONSTANTS u1, u2, u3, u4, u5, h1, h2

\* u3 passes the handler's checks and does not fit the columns; u4 fails them;
\* u5 passes them and its message is too long for the Kafka client.
MCShards == 0..1

MCShardOf == [u \in Users |-> IF u = u1 THEN 0 ELSE 1]

\* The threads of the HTTP server are interchangeable.
ThreadSymmetry == Permutations(Handlers)
=============================================================================

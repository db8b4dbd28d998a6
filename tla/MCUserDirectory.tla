-------------------------- MODULE MCUserDirectory --------------------------
(* Small instances of UserDirectory for TLC. *)
EXTENDS UserDirectory, TLC

CONSTANTS ann, bob, t1, t2

\* ann's shard is the last one, so that the loops over the shards pass the
\* others on their way to her.
MCShardOf == [u \in Users |-> IF u = ann THEN MaxShard - 1 ELSE 0]

\* One mask that both profiles match and one that only ann matches.
MCMasks == {Users, {ann}}

ThreadSymmetry == Permutations(Threads)
=============================================================================

----------------------------- MODULE UserTables -----------------------------
(***************************************************************************)
(* The User tables as a reader of them may take them: in every shard, the  *)
(* rows in the order of their ids, without gaps, never changed or deleted; *)
(* a new row is the profile's, at the end, in the shard of its login and    *)
(* password. Module Registration implements this, and UserDirectory reads  *)
(* tables that change in this way only.                                    *)
(***************************************************************************)
EXTENDS Integers, Sequences

CONSTANTS Users, Shards, ShardOf

VARIABLE table   \* table[s]: the profiles in shard s, in the order of their ids

Init == table = [s \in Shards |-> <<>>]

Register(u) == table' = [table EXCEPT ![ShardOf[u]] = Append(@, u)]

Next == \E u \in Users : Register(u)

Spec == Init /\ [][Next]_table
=============================================================================

\* No fault: two users of different shards with the same id.
SPECIFICATION Spec
CONSTANTS
  ann = ann
  bob = bob
  t1 = t1
  t2 = t2
  None = None
  Users = {ann, bob}
  MaxShard = 2
  ShardOf <- MCShardOf
  Masks = {}
  Threads = {t1, t2}
  MaxRows = 1
  MaxFaults = 0
INVARIANT
  IdReadsItsUser

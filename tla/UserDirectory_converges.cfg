\* Three shards, one of them empty, rows of different shards under one id, masks
\* that match one profile or both, and two faults anywhere.
SPECIFICATION FairSpec
CONSTANTS
  ann = ann
  bob = bob
  t1 = t1
  t2 = t2
  None = None
  Users = {ann, bob}
  MaxShard = 3
  ShardOf <- MCShardOf
  Masks <- MCMasks
  Threads = {t1, t2}
  MaxRows = 1
  MaxFaults = 2
INVARIANT
  SearchIsSound
PROPERTY
  CacheConverges

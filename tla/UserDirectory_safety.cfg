\* Two threads, two shards, ids that collide, one fault anywhere.
SPECIFICATION Spec
CONSTANTS
  ann = ann
  bob = bob
  t1 = t1
  t2 = t2
  None = None
  Users = {ann, bob}
  MaxShard = 2
  ShardOf <- MCShardOf
  Masks = {}
  Threads = {t1, t2}
  MaxRows = 2
  MaxFaults = 1
SYMMETRY ThreadSymmetry
INVARIANTS
  TypeOK
  RowsAreReal
  FirstShardAnswers
  AuthFindsRow
  IdentityIsStable

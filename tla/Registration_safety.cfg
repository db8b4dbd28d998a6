\* Two profiles of two shards, two threads, two faults anywhere, one SIGINT.
SPECIFICATION Spec
CONSTANTS
  u1 = u1
  u2 = u2
  u3 = u3
  u4 = u4
  u5 = u5
  h1 = h1
  h2 = h2
  Users = {u1, u2}
  None = None
  Valid = {u1, u2}
  Sendable = {u1, u2}
  Storable = {u1, u2}
  Shards <- MCShards
  ShardOf <- MCShardOf
  Handlers = {h1, h2}
  QueueLimit = 1
  MaxPosts = 2
  MaxFaults = 2
  MaxStops = 1
SYMMETRY ThreadSymmetry
INVARIANTS
  TypeOK
  AtLeastOnce
  DuplicatesBounded
  QuietMeansStored
PROPERTIES
  CommitsOnlyForward
  ImplementsPromise
  ImplementsTables
CHECK_DEADLOCK FALSE

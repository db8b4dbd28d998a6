\* No fault and no stop: only the writer's first start.
SPECIFICATION StartedSpec
CONSTANTS
  u1 = u1
  u2 = u2
  u3 = u3
  u4 = u4
  u5 = u5
  h1 = h1
  h2 = h2
  Users = {u1}
  None = None
  Valid = {u1}
  Sendable = {u1}
  Storable = {u1}
  Shards <- MCShards
  ShardOf <- MCShardOf
  Handlers = {h1}
  QueueLimit = 1
  MaxPosts = 1
  MaxFaults = 0
  MaxStops = 0
PROPERTY
  AcceptedIsStored
CHECK_DEADLOCK FALSE

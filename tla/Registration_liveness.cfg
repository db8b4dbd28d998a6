\* u4 fails the handler's checks; u3 passes them and does not fit the table; u5
\* passes them and is too long for a message.
\* Three accepted posts, a queue of one message, a fault and a SIGINT anywhere.
SPECIFICATION FairSpec
CONSTANTS
  u1 = u1
  u2 = u2
  u3 = u3
  u4 = u4
  u5 = u5
  h1 = h1
  h2 = h2
  Users = {u1, u3, u4, u5}
  None = None
  Valid = {u1, u3, u5}
  Sendable = {u1, u3, u4}
  Storable = {u1, u4}
  Shards <- MCShards
  ShardOf <- MCShardOf
  Handlers = {h1, h2}
  QueueLimit = 1
  MaxPosts = 1
  MaxFaults = 1
  MaxStops = 1
INVARIANTS
  NoHoles
  RowsAreRegistrations
PROPERTIES
  EveryPostAnswered
  WriterProgress
CHECK_DEADLOCK FALSE

\* Two threads of the messenger call twice, a POST may take the only other
\* thread of auth_service, one connection may wait, one fault anywhere.
SPECIFICATION FairSpec
CONSTANTS
  ann = ann
  dan = dan
  eve = eve
  c1 = c1
  c2 = c2
  w1 = w1
  w2 = w2
  None = None
  Outside = Outside
  Callers = {c1, c2}
  Workers = {w1, w2}
  Users = {ann, dan, eve}
  Registered = {ann, dan}
  IdOf <- MCIdOf
  SeenAs <- MCSeenAs
  MaxQueued = 1
  MaxCalls = 2
  MaxPosts = 2
  MaxFaults = 1
INVARIANTS
  TypeOK
  VerdictIsOwn
  RefusedForReason
PROPERTY
  EveryCallEnds

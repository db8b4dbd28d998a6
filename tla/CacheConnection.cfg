\* Three threads get and put under two keys; the stream may fail at any moment.
SPECIFICATION FairSpec
CONSTANTS
  t1 = t1
  t2 = t2
  t3 = t3
  k1 = k1
  k2 = k2
  v1 = v1
  v2 = v2
  None = None
  Threads = {t1, t2, t3}
  Keys = {k1, k2}
  Vals = {v1}
INVARIANTS
  TypeOK
  OnlyMyCommand
PROPERTIES
  ImplementsAtomicCache
  MutexIsFreed

CONSTANTS
  Threads = {t1, t2}
  Keys = {k1, k2}
  Mutexes = {x1, x2, x3}
  NoMutex = NoMutex
  NoThread = NoThread
SPECIFICATION LiveSpec
INVARIANTS
  TypeOK
  MutualExclusion
  ReleasesItsOwn
PROPERTIES
  ImplementsKeyedMutex
  LockReturns

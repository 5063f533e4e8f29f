CONSTANTS
  m1 = m1
  m2 = m2
  nc1 = nc1
  nc2 = nc2
  Machines = {m1, m2}
  NodeClaims = {nc1, nc2}
  CreateBatches = {c1}
  DeleteBatches = {d1}
  NoMachine = NoMachine
  NoBatch = NoBatch
  InitialMachine <- OneBound
  CacheLag = TRUE
  LostReplies = FALSE
  MaxSize = 3
  RepeatDelete = TRUE
  MaxRestarts = 1
SPECIFICATION LiveSpec
INVARIANTS
  ReplicaLedger
  FinishedIsGone
PROPERTIES
  EveryBatchEnds
  EveryRequestAnswered
\* Each execution of an executor is used once, so a behaviour may stop.
CHECK_DEADLOCK FALSE

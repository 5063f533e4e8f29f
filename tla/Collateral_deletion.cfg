CONSTANTS
  m1 = m1
  m2 = m2
  nc1 = nc1
  nc2 = nc2
  Machines = {m1, m2}
  NodeClaims = {nc1, nc2}
  CreateBatches = {c1}
  DeleteBatches = {d1, d2}
  NoMachine = NoMachine
  NoBatch = NoBatch
  InitialMachine <- TwoBound
  CacheLag = FALSE
  LostReplies = FALSE
  MaxSize = 4
  RepeatDelete = TRUE
  MaxRestarts = 0
SPECIFICATION Spec
INVARIANTS
  NoCollateralDeletion
\* Each execution of an executor is used once, so a behaviour may stop.
CHECK_DEADLOCK FALSE

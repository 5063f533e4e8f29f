CONSTANTS
  m1 = m1
  m2 = m2
  nc1 = nc1
  nc2 = nc2
  Machines = {m1, m2}
  NodeClaims = {nc1, nc2}
  CreateBatches = {c1, c2}
  DeleteBatches = {d1}
  NoMachine = NoMachine
  NoBatch = NoBatch
  InitialMachine <- NothingBound
  CacheLag = FALSE
  LostReplies = TRUE
  MaxSize = 2
  RepeatDelete = FALSE
  MaxRestarts = 1
SYMMETRY FullSymmetry
SPECIFICATION AuditedSpec
INVARIANTS
  TypeOK
  LockDiscipline
  NoSelfConflict
  MaxSizeOvershoot
  PairsDistinct
  NoOrphanLabel
  NoOrphanMark
  LaunchedIsAnnotated
  
  OneOwner
  OwnedKeepsLabel
PROPERTIES
  AnnotationStable
  OnlyDeletesLower
  MarkedNotClaimed
  FateFollowsPool
VIEW Relevant
\* Each execution of an executor is used once, so a behaviour may stop.
CHECK_DEADLOCK FALSE

CONSTANTS
  d1 = d1
  d2 = d2
  DNSName <- MCDNSName
  WellKnown <- MCWellKnown
  LowerRank <- MCLowerRank
  Absent = Absent
  Junk = Junk
  Selectors <- BothSelectors
  MaxVersion = 1
  Deployments = {d1, d2}
  Machines = {m1, m2}
  NodeClaims <- OneClaim
  Shapes <- MCShapes
  InitialShape <- MCInitialShape
  MaxEdits = 1
  MaxReplicas <- MCMaxReplicas
  Failures = TRUE
  NoMachine = NoMachine
SPECIFICATION LiveSpec
INVARIANTS
  TypeOK
  AnnotationOverrides
  ReportFromOwner
  NodeSuits
PROPERTIES
  CollectsOnlyLost
  ConditionKept
  BecomesReady
\* A NodeClaim no MachineDeployment suits waits for an edit.
CHECK_DEADLOCK FALSE

CONSTANTS
  d1 = d1
  d2 = d2
  DNSName <- MCDNSName
  WellKnown <- MCWellKnown
  LowerRank <- MCLowerRank
  Absent = Absent
  Junk = Junk
  Selectors <- OneSelector
  MaxVersion = 0
  Deployments = {d1, d2}
  Machines = {m1, m2, m3}
  NodeClaims <- AnyMember
  Shapes <- LabelledShapes
  InitialShape <- LabelledInitialShape
  MaxEdits = 0
  MaxReplicas <- ThreeReplicas
  Failures = FALSE
  NoMachine = NoMachine
SPECIFICATION Spec
PROPERTIES
  RetriesAreCheap
\* With its poll given up for ever the NodeClaim has nothing left to do.
CHECK_DEADLOCK FALSE

CONSTANTS
  Requests = {r1, r2}
  Targets <- MCTargets
  Characters = {"a", "b", "c"}
  Hashes = {0, 1, 2, 3}
  Hash <- MCHash
  NoResult = NoResult
  TooFew = TooFew
  Strangers = TRUE
SPECIFICATION LiveSpec
INVARIANTS
  TypeOK
  NoLostWakeup
  OnePlace
  BatchesHomogeneous
PROPERTIES
  AddReturns
  ImplementsBatchService
\* After a shutdown the callers that are left wait for their contexts to end.
CHECK_DEADLOCK FALSE

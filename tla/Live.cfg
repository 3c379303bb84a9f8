SPECIFICATION MCFairSpec
CONSTANTS
  Findings = {"f1"}
  Sources <- MCNone
  Generations = {g1, g2, g3}
  MaxRevision = 1
  IndexAttempts = 1
  PassesMayDie = TRUE
  Keys <- MCMixedKeys
  Kind <- MCMixedKind
  SelfRegistered <- MCMixedSelf
  MaxAttempts = 2
  BatchSize = 2
  EagerReconcile = FALSE
  CutAfterEffect = FALSE
  RecordMayFail = FALSE
  ActionsMayDie = FALSE
  ExecutorsThrow = FALSE
INVARIANTS
  OneDriver
PROPERTIES
  JobSettles
  GateReopens
CHECK_DEADLOCK FALSE

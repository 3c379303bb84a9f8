SPECIFICATION MCSpec
CONSTANTS
  Findings = {"f1"}
  Sources = {"s1"}
  Generations = {g1, g2}
  MaxRevision = 3
  IndexAttempts = 2
  PassesMayDie = TRUE
  Keys <- MCDeliveryKeys
  Kind <- MCDeliveryKind
  SelfRegistered <- MCDeliverySelf
  MaxAttempts = 3
  BatchSize = 1
  EagerReconcile = FALSE
  CutAfterEffect = FALSE
  RecordMayFail = FALSE
  ActionsMayDie = TRUE
  ExecutorsThrow = TRUE
INVARIANTS
  OneBuildsOneServes
PROPERTIES
  DeliversAtMostOnce
  RetiredGainsNothing
  AnswerIsCurrent
CONSTRAINT MCIndexBound
SYMMETRY MCSymmetry
CHECK_DEADLOCK FALSE

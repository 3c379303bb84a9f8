SPECIFICATION Spec
CONSTANTS
  Keys <- MCDeliveryKeys
  Kind <- MCDeliveryKind
  SelfRegistered <- MCDeliverySelf
  MaxAttempts = 2
  BatchSize = 1
  EagerReconcile = FALSE
  CutAfterEffect = TRUE
  RecordMayFail = FALSE
  ActionsMayDie = FALSE
  ExecutorsThrow = FALSE
INVARIANTS
  AtMostOneEffect
CHECK_DEADLOCK FALSE

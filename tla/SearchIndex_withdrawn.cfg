SPECIFICATION IndexSpec
CONSTANTS
  Findings <- MCFindings
  Sources <- MCSources
  Generations = {g1}
  MaxRevision = 1
  IndexAttempts = 2
  PassesMayDie = FALSE
INVARIANTS
  WithdrawnSourceIsDropped
CHECK_DEADLOCK FALSE

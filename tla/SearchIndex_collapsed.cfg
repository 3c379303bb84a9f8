SPECIFICATION IndexSpec
CONSTANTS
  Findings <- MCFindings
  Sources <- MCSources
  Generations = {g1}
  MaxRevision = 2
  IndexAttempts = 2
  PassesMayDie = FALSE
PROPERTIES
  DrainedRevisionIsServed
CHECK_DEADLOCK FALSE

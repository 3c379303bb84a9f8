SPECIFICATION DeletionSpec
CONSTANTS
  Exports = {x1}
  Sources = {s1}
  BuildAttempts = 1
  Cases = {c1}
  PurgeAttempts = 2
INVARIANT PurgedMediaIsGone
CHECK_DEADLOCK FALSE

SPECIFICATION MCSpec
CONSTANTS
  v1 = v1
  v2 = v2
  ka = ka
  c1 = c1
  Findings = {"f1", "f2"}
  ProjectFindings = {"f1"}
  Messages = {"s1", "s2"}
  Plans = {v1, v2}
  PlanTags = {"known"}
  NoSource = "none"
  Exports = {x1}
  Sources = {v1, v2}
  BuildAttempts = 2
  Cases = {c1}
  PurgeAttempts = 2
  Tasks = {t1}
  Persons = {v1, v2}
  Terms = {1}
  Days = 3
  Epochs = 1
  Unassigned = Unassigned
  Flows = {1, 2}
  Accounts = {v1, v2}
  Calendars = {1, 2}
  Firms = {ka, kb}
  NoFlow = NoFlow
  NoAccount = NoAccount
  NoCalendar = NoCalendar
  NoFirm = NoFirm
  Copies = {c1}
  CopyFirm <- MCCopyFirm
  Versions = {1, 2}
  Runners = {v1, v2}
  EventIds = {1, 2}
  CreateAttempts = 2
  UpdateAttempts = 1
  DeleteAttempts = 1
  FatalReasons <- MCFatalReasons
  NoCopy = NoCopy
  NoEvent = NoEvent
INVARIANTS
  DerivationsAcyclic
  LoneWitnessCounts
  PurgedLeavesNoArchive
  NoStrandedArchive
  PurgedTextIsRedacted
  ReminderIsPending
  SupersededDies
  
PROPERTY CorrectionStands
CONSTRAINT MCBound
SYMMETRY MCSymmetry
CHECK_DEADLOCK FALSE

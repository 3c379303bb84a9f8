SPECIFICATION MCSpec
CONSTANTS
  b1 = b1
  b2 = b2
  x1 = x1
  x2 = x2
  Tasks = {"t1", "t2"}
  Points = {"i1"}
  Events = {"e1"}
  Bosses = {b1, b2}
  Members = {"m1"}
  Dates = {"f1"}
  Grounds = {"s1"}
  Titles = {"a"}
  Reasons = {"r"}
  None = None
  MaxRevision = 3
  Projects = {"p1", "p2"}
  Generated <- MCGenerated
  Chosen = {x1, x2}
  Clients = {"c1"}
  Roles = {"investor"}
  Screens = {"b1"}
  Nothing = Nothing
  MaxStage = 3
  Findings = {"f1"}
  ProjectFindings = {}
  Messages = {"m1", "m2"}
  Plans = {x1}
  PlanTags = {"known"}
  NoSource = "none"
  Question = "m2"
  Cases = {"q1"}
  MaxTurns = 2
  MaxRefreshes = 1
  MaxRaised = 1
  NoAnswer = NoAnswer
  Unanchored = "none"
  LastDraft = 2
  Words = {w0, w1}
  NoWords = w0
  Photos = {ph1}
  Takes = 1
  MaxChunks = 2
  MaxAttachments = 2
  Attempts = 2
  StorageFails = TRUE
  Absent = Absent
  Texts = {t0, t1}
  NoText = t0
  NoRecord = NoRecord
INVARIANTS
  NothingUnseenIsOverwritten
  OneCodenameOneProject
  NothingSentIsLost
  WordsComeBack
PROPERTIES
  KeepsAJournal
  InferencesRestOnKnownFindings
  
CONSTRAINT MCBound
SYMMETRY MCSymmetry
CHECK_DEADLOCK FALSE

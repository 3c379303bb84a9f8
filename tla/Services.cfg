SPECIFICATION MCSpec
CONSTANTS
  s1 = s1
  s2 = s2
  d1 = d1
  d2 = d2
  Persons = {"p1"}
  Nobody = "nobody"
  Sources = {s1, s2}
  Questions = {"q1"}
  About <- MCAbout
  Author <- MCAuthor
  Devices = {d1, d2}
  LegAttempts = 2
  PushAttempts = 2
  PassesDie = TRUE
  w1 = w1
  w2 = w2
  LastDay = 2
  Media = {"k1"}
  Workers = {w1, w2}
  Retention = 2
  Grace = 1
  ContentExpiry = 3
  StoreRefuses = TRUE
  SlotAttempts = 2
  Never = Never
  Troubles = {"x1"}
  Services = {"gateway", "sink"}
  Sink = "sink"
  Cadence <- MCCadence
  Tolerance = 1
  Failures = {"unreachable"}
  ForwardWindow = 1
  ForwardBatch = 1
  KeptFor = 1
  PruneBatch = 1
  TailKept = 1
  Bills = {"b1"}
  Amounts = {1}
  Levels = {"warning", "alert"}
  Threshold <- MCThreshold
  Cooldown = 1
  Months = 2
  Horizon = 0
  MaxClock = 4
  Unset = Unset
  Day = 24
  Zone = 1
  Shift = 1
  Spring = 49
  Fall = 97
  Windows <- MCWindows
  Usual <- MCUsual
  Conversations = {"c1"}
  Changes <- MCChanges
  Start = 40
  End = 104
  NotSet = NotSet
  Omitted = Omitted
INVARIANTS
  NotifiedOnce
  NothingClearedIsPrepared
  FiringIsAnnounced
  
  DeferralEndsWithTheQuiet
PROPERTIES
  KeepsAVault
CONSTRAINT MCBound
SYMMETRY MCSymmetry
CHECK_DEADLOCK FALSE

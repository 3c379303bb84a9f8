SPECIFICATION MCSpec
CONSTANTS
  i2 = i2
  Drafts = {d1}
  Slots = {s1}
  Parts = {1, 2}
  Contents = {x, y}
  Mints = {1, 2}
  Etags = {1, 2, 3}
  MaxRequests = 2
  AcceptanceKeys = {k1}
  Texts = {t0, t1}
  NoWords = t0
  Sources = {1, 2}
  NoKey = NoKey
  NoSource = NoSource
  Images = {i1, i2}
  MaxAttempts = 2
  Drives = {v1, v2}
  NoImage = NoImage
  Segments = {1, 2}
  SegmentAttempts = 1
  JobAttempts = 2
  Runs = {1, 2}
  MaxGroups = 1
  MaxRevision = 1
  MaxRetries = 1
INVARIANTS
  AcceptedMediaStored
  MediaBelongsToOneSource
  
  ReadersFindBytes
  TranscriptIsWhole
  WorkflowIdentityKept
  ClaimsInspected
CONSTRAINT MCBound
SYMMETRY MCSymmetry
CHECK_DEADLOCK FALSE

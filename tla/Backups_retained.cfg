SPECIFICATION BackupsSpec
CONSTANTS
  LastDay = 3
  Media = {"k1"}
  Workers = {"w1"}
  SlotAttempts = 1
  Retention = 2
  Grace = 1
  ContentExpiry = 3
  StoreRefuses = FALSE
  Never = Never
INVARIANTS
  PurgedMediaExpires
CONSTRAINT MCQuietBackups
CHECK_DEADLOCK FALSE

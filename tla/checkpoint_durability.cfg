SPECIFICATION Spec
CONSTANTS
  MaxGen = 3
  MaxWrites = 4
  MaxCrash = 2
  MaxPending = 6
  Ordered = TRUE
  Faults = {"snapshot", "manifest", "manifest_sync", "unlink"}
INVARIANTS
  TypeOK
  AlwaysOpens
  SyncedSurvives
  CrashKeepsPrefix
  NextGenerationIsFresh

SPECIFICATION FairSpec
CONSTANTS
  MaxFile = 3
  Capacity = 2
  MaxWrites = 4
  MaxOsCrash = 1
  MaxCorrupt = 1
  Policies = {"point_in_time", "strict"}
  Faults = {"create", "unlink", "sync", "crash_in_drop", "torn_header"}
INVARIANTS
  TypeOK
  StoredIsHistory
  NoStaleSegment
PROPERTIES
  
  ProcessCrashLosesNothing
  StrictNeverTruncates
  RecoveryEnds

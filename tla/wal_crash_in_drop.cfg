SPECIFICATION Spec
CONSTANTS
  MaxFile = 2
  Capacity = 2
  MaxWrites = 3
  MaxOsCrash = 0
  MaxCorrupt = 1
  Policies = {"point_in_time"}
  Faults = {"crash_in_drop"}
PROPERTIES
  RecoversPrefix

SPECIFICATION Spec
CONSTANTS
  MaxFile = 1
  Capacity = 3
  MaxWrites = 4
  MaxOsCrash = 2
  MaxCorrupt = 0
  Policies = {"point_in_time"}
  Faults = {}
PROPERTIES
  RecoversPrefix

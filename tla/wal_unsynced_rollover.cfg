SPECIFICATION Spec
CONSTANTS
  MaxFile = 2
  Capacity = 2
  MaxWrites = 3
  MaxOsCrash = 1
  MaxCorrupt = 0
  Policies = {"point_in_time"}
  Faults = {}
PROPERTIES
  RecoversPrefix

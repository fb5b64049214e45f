SPECIFICATION Spec
CONSTANTS
  k1 = k1
  k2 = k2
  v1 = v1
  v2 = v2
  big = big
  Missing = Missing
  Key <- MCKey
  Val <- MCSmallVal
  Oversize = {}
  SegmentCapacity = 1
  CheckpointThreshold = 1
  MaxFile = 3
  MaxGen = 3
  SyncModes = {TRUE, FALSE}
  Faults = {"reset"}
INVARIANTS
  IndexResolves

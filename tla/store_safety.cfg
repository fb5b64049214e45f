SPECIFICATION Spec
CONSTANTS
  k1 = k1
  k2 = k2
  v1 = v1
  v2 = v2
  big = big
  Missing = Missing
  Key <- MCKey
  Val <- MCOneVal
  Oversize <- MCOversize
  SegmentCapacity = 1
  CheckpointThreshold = 1
  MaxFile = 3
  MaxGen = 3
  SyncModes = {TRUE, FALSE}
  Faults <- MCSafeFaults
SYMMETRY MCKeySymmetry
INVARIANTS
  TypeOK
  VisibleIsRecoverable
  IndexResolves
  ManifestIsBacked
  Inv
PROPERTIES
  ImplementsKVStore
  CheckpointPreservesContent
  CurrentGenerationKept
  CleanupIsComplete

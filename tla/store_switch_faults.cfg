SPECIFICATION FairSpec
CONSTANTS
  k1 = k1
  k2 = k2
  v1 = v1
  v2 = v2
  big = big
  Missing = Missing
  Key = {k1}
  Val = {v1}
  Oversize = {}
  SegmentCapacity = 2
  CheckpointThreshold = 1
  MaxFile = 3
  MaxGen = 3
  SyncModes = {TRUE, FALSE}
  Faults <- MCSwitchFaults
PROPERTIES
  AcknowledgedIsRecoverable
  OpenServesWhatFilesHold
  Progress
  OldGenerationReclaimed

SPECIFICATION FairSpec
CONSTANTS
  t1 = t1
  t2 = t2
  v1 = v1
  v2 = v2
  Missing = Missing
  NoOne = NoOne
  NoCall = NoCall
  NoAnswer = NoAnswer
  NoValue = NoValue
  Dangling = Dangling
  Changed = Changed
  Thread <- MCThread
  Key <- MCOneKey
  Val <- MCOneVal
  Ranges <- MCOneRange
  SyncModes = {TRUE, FALSE}
  VerifyOnRead = FALSE
  Faults = {"append", "index", "checkpoint", "unmap"}
PROPERTIES
  HoldersReturn

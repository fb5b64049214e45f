SPECIFICATION Spec
CONSTANTS
  t1 = t1
  t2 = t2
  v1 = v1
  v2 = v2
  Missing = Missing
  NoOne = NoOne
  NoCall = NoCall
  NoAnswer = NoAnswer
  NoValue = NoValue
  Dangling = Dangling
  Changed = Changed
  Thread <- MCThread
  Key <- MCKey
  Val <- MCVal
  Ranges <- MCRanges
  SyncModes = {TRUE, FALSE}
  VerifyOnRead = TRUE
  Faults = {"append", "index", "checkpoint", "unmap"}
SYMMETRY MCSymmetry
INVARIANTS
  TypeOK
  PositionsResolve
  
  LockInv
PROPERTIES
  ImplementsCalls

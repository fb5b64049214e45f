SPECIFICATION RecordsSpec
CONSTANTS
  BitsPerByte = 8
  Position <- MCPositions
  MaxNodeReps = 3
  MinNodeReps = 3
  NoPos = NoPos
  NoPage = NoPage
  Dead = Dead
  NoCall = NoCall
INVARIANTS
  EveryPositionResolves
  RecordsOwned

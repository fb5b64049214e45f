SPECIFICATION Spec
CONSTANTS
  BitsPerByte = 8
  Position <- MCPositions
  MaxNodeReps = 4
  MinNodeReps = 4
  NoPos = NoPos
  NoPage = NoPage
INVARIANTS
  TypeOK
  NeverCorrupt
  PagesCanonical
  NoPageLost
  FindsWhatWasPut
  AnswersAgree
  ScansAgree

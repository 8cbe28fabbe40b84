SPECIFICATION Spec
CONSTANTS
  q1 = q1
  q2 = q2
  v0 = v0
  v1 = v1
  r1 = r1
  r2 = r2
  r3 = r3
  NULL = NULL
  Unset = Unset
  Quals <- MCQuals
  Vals <- MCVals
  Rows <- MCRows
  Cell <- MCCell
  ZeroVal = v0
  Opaque = {q2}
  ReScanRewinds = TRUE
  MaxOrphans = 1
INVARIANT
  AnswerCorrect

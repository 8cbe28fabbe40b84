SPECIFICATION Spec
CONSTANTS
  Sources <- MCSources
  Begun = 4
  MaxElements = 6
  PageSize = 2
  All = All
INVARIANTS
  TypeOK
  MissesBounded
  RepeatsBounded

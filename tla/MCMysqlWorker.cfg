SPECIFICATION FairSpec
CONSTANTS
  a1 = a1
  a2 = a2
  Asks <- MCAsks
  N = 2
  MaxWorkers = 2
  MaxWrites = 2
INVARIANTS
  TypeOK
  NothingLost
  WrittenOnce
PROPERTIES
  Implements
  BackendReturns
  WorkersExit

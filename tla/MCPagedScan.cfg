SPECIFICATION FairSpec
CONSTANTS
  all5 = all5
  lim3 = lim3
  off1 = off1
  full4 = full4
  one = one
  empty = empty
  All = All
  Wrappers <- MCWrappers
  Sparse <- MCSparse
  Asks <- MCAsks
  Rows <- MCRows
  Remote <- MCRemote
  Limit <- MCLimit
  Offset <- MCOffset
  PageSize = 2
  MaxPages = 4
  MaxTries <- MCMaxTries
  Asked <- MCAsked
  Restarted <- MCRestarted
  Rescanned <- MCRescanned
INVARIANT
  TypeOK
PROPERTY
  Implements
  CallReturns

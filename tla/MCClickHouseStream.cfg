SPECIFICATION FairStreamSpec
CONSTANTS
  N = 5
  BufferSize = 2
  Bad = {}
INVARIANTS
  StreamTypeOK
  NothingLost
PROPERTIES
  StreamImplements
  RecvReturns
  DropReturns

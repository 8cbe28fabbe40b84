SPECIFICATION FairStreamSpec
CONSTANTS
  N = 4
  BufferSize = 1
  Bad = {1}
PROPERTY
  DropReturns
CHECK_DEADLOCK FALSE

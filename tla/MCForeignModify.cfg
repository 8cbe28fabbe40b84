SPECIFICATION Spec
CONSTANTS
  Null = Null
  TextNull = 99
  BatchSize = 2
  PartitionBufferSize = 3
  RegularFlush = 3
  PageSize = 2
  MaxSends = 2
  Cases <- AllCases
INVARIANTS
  TypeOK
  NothingLeftBehind
  BuffersBounded
  FilesInPartition
  FilesSorted
PROPERTIES
  Implements

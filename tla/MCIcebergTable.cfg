SPECIFICATION Spec
CONSTANTS
  Tables <- MCTables
  Declared <- MCDeclared
  Names = {"a", "b", "c"}
  Added = {"struct"}
  Styles = {"fine", "null", "long", "array"}
  MaxSchemas = 2
  MaxRows = 3
  MaxRestarts = 1
  ReadBatch = 2
  WriteBatch = 2
  None = None
INVARIANTS
  TypeOK
  ReadsBackAsInserted
CHECK_DEADLOCK FALSE

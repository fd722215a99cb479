SPECIFICATION MigrationSpec
CONSTANTS
  MaxDepth = 2
  MaxOps = 2
  MaxTasks = 5
  MaxAccesses = 2
  Program <- MovingProgram
  Cases <- FlowCases
  Backend = "flows"
  MaxMoves = 1
  Migratable <- TouchingUses
INVARIANTS
  MigrationTypeOK
  ExclusiveAccess
  DataInPlace
PROPERTIES
  InProgramOrder
  MovesUnnoticed

SPECIFICATION MigrationSpec
CONSTANTS
  MaxDepth = 1
  MaxOps = 2
  MaxTasks = 3
  MaxAccesses = 0
  Program <- AnyProgram
  Cases <- AllCases
  Backend = "anti_flows"
  MaxMoves = 1
  Migratable <- AnyUses
INVARIANTS
  AliasOnRelease
CHECK_DEADLOCK FALSE

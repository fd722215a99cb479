SPECIFICATION Spec
CONSTANTS
  MaxDepth = 2
  MaxOps = 3
  MaxTasks = 6
  MaxAccesses = 2
  Program <- ReadWriteRead
  Cases <- AllCases
  Backend = "anti_flows"
INVARIANTS
  ExclusiveAccess
CHECK_DEADLOCK FALSE

SPECIFICATION Spec
CONSTANTS
  MaxDepth = 3
  MaxOps = 2
  MaxTasks = 5
  MaxAccesses = 0
  Program <- WriteInConditional
  Cases <- AllCases
  Backend = "anti_flows"
INVARIANTS
  NotStuck
CHECK_DEADLOCK FALSE

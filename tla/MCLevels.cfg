SPECIFICATION FairSpec
CONSTANTS
  MaxDepth = 3
  MaxOps = 3
  MaxTasks = 5
  MaxAccesses = 2
  Program <- LevelsProgram
  Cases <- AntiFlowCases
  Backend = "anti_flows"
INVARIANTS
  ExclusiveAccess
PROPERTIES
  InProgramOrder
  EveryTaskEnds

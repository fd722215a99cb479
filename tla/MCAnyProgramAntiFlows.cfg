SPECIFICATION Spec
CONSTANTS
  MaxDepth = 2
  MaxOps = 2
  MaxTasks = 5
  MaxAccesses = 2
  Program <- AnyProgram
  Cases <- AntiFlowCases
  Backend = "anti_flows"
INVARIANTS
  TypeOK
  ExclusiveAccess
  RightsInherited
  AliasOnRelease
  OneProducer
  ForwardedOnce
PROPERTIES
  InProgramOrder

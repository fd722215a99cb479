SPECIFICATION Spec
CONSTANTS
  x = x
  y = y
  h1 = h1
  h2 = h2
  h3 = h3
  NoVariable = NoVariable
  Variables <- TwoVariables
  Handles <- ThreeHandles
  InitialHolder <- OneHandleEach
  StaticFlags <- NoStaticFlags
  Modifications <- OneHandleReads
  CarefulOnly = FALSE
  MaxTasks = 2
INVARIANTS
  CapturedAsAsked
CHECK_DEADLOCK FALSE

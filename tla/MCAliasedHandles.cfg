SPECIFICATION Spec
CONSTANTS
  x = x
  y = y
  h1 = h1
  h2 = h2
  h3 = h3
  NoVariable = NoVariable
  Variables <- TwoVariables
  Handles <- ThreeHandles
  InitialHolder <- TwoHandlesOfOne
  StaticFlags <- NoStaticFlags
  Modifications <- OneHandleReads
  CarefulOnly = FALSE
  MaxTasks = 1
INVARIANTS
  EveryHandleHasUse
CHECK_DEADLOCK FALSE

SPECIFICATION FairSpec
CONSTANTS
  x = x
  y = y
  Variables <- TwoVariables
  OuterUses <- SchedulableUses
  Programs <- MixedPrograms
  MaxIterations = 2
INVARIANTS
  TypeOK
  CapturedInProgramOrder
  SourcesOutliveCaptures
  RoundsAgree
  NothingKept
PROPERTIES
  ComesToAnEnd
CHECK_DEADLOCK FALSE

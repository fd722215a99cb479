SPECIFICATION Spec
INVARIANTS
  NoDuplicateCase
  FrontEndRequestsAreServed
  ContinuationNeverConflicts
  RightsAreInherited
CHECK_DEADLOCK FALSE

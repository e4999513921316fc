CONSTANTS
  Calls <- Nesting
SPECIFICATION FairSpec
INVARIANTS
  TypeOK
  OnlySelfWaits
  LockOrder
  SomebodyRuns
PROPERTIES
  CleanupGoesOn
  EveryTaskReturns

CONSTANTS
  Sessions = 2
  Corruptions = 1
SPECIFICATION Spec
CHECK_DEADLOCK FALSE
INVARIANTS
  InStep
  FlightIsShared
  DebugMatchesState

  

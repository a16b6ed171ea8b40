CONSTANTS
  MaxEvents = 6
  None = None
SPECIFICATION Spec
CHECK_DEADLOCK FALSE
INVARIANTS
  HandlersRunOnLiveActions
  NoActionIsLost
  CallsInTurnKeepTasks

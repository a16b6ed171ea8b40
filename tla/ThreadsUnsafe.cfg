CONSTANTS
  MaxEvents = 4
  None = None
SPECIFICATION Spec
CHECK_DEADLOCK FALSE
INVARIANTS
  TasksFollowAction

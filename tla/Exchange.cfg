CONSTANTS
  AskerCalls <- MCAskerCalls
  AnswererCalls <- MCAnswererCalls
  Timeout = 1
  MaxCalls = 2
  Losses = 1
  Noises = 1
SPECIFICATION FairSpec
CHECK_DEADLOCK FALSE
INVARIANTS
  AnswersAreOwed
PROPERTIES
  LateByFailures
  GivesUpEmptyHanded
  CallsEnd

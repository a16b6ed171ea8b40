CONSTANTS
  Strings = {"routerName", "routerPassword"}
  MaxRouteSize = 2
  Unset = Unset
  None = None
  Objects = {1, 2}
  Blocks = {1, 2, 3, 4, 5}
  Bytes = {"x", "y"}
  Texts <- MCTexts
  MaxCalls <- MCMaxCalls
SPECIFICATION Spec
CHECK_DEADLOCK FALSE
INVARIANTS
  BlocksAreOwned
  SettingsAreAccepted
PROPERTIES
  CopiesStandAlone
  ArrivesOrIsRefused

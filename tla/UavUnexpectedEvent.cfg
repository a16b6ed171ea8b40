CONSTANTS
  MaxErrors = 3
  Channels = 8
  Burst = 0
SPECIFICATION Spec
PROPERTIES
  UnexpectedEventBreaks

CONSTANTS
  Classes <- MCClasses
  Packets <- MCPackets
  Records <- MCRecords
  ClassOf <- MCClassOf
  Repeats = 3
  ConstraintSize = 3
  PacketSize = 2
  CrcSize = 2
  ControlSize = 4
  AutopilotSize = 3
SPECIFICATION Spec
PROPERTIES
  ResetForgets

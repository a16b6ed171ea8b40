CONSTANTS
  Length = 3
  Short = 2
  Long = 7
  Classes <- MCClasses
  Records <- MCRecords
  ClassOf <- MCClassOf
  Packets <- MCPackets
  Sent = "new"
  SendAttempts = 3
  ReceiveAttempts = 4
  PacketLosses = 2
  AnswerLosses = 1
SPECIFICATION FairSpec
CHECK_DEADLOCK FALSE
INVARIANTS
  ReceptionIsOpen
  OneLossStaysInBuffer
  AcceptedIsSent
  ResendingIsOwed
  OneLossIsRepaired
  NoSecondCopy
PROPERTIES
  ImplementsTransfer
  BothEnd

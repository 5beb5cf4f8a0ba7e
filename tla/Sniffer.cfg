SPECIFICATION FairSpec
CONSTANTS
  NUM_DE = 3
  MaxFrames = 6
  ProtocolWhileRunning = FALSE
INVARIANTS
  TypeOK
  QueueInStep
  NoSilentLoss
  ProtocolByteIsTrue
  StopIsFinal
PROPERTIES
  InOrder
  ReceptionResumes
  QueueDrains
  ImplementsStream

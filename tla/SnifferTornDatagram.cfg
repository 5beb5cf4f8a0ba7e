SPECIFICATION Spec
CONSTANTS
  NUM_DE = 3
  MaxFrames = 5
  ProtocolWhileRunning = TRUE
INVARIANT DatagramsCarryFrames

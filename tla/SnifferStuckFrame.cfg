SPECIFICATION FairSpec
CONSTANTS
  NUM_DE = 3
  MaxFrames = 4
  ProtocolWhileRunning = FALSE
PROPERTY EveryFrameIsFound

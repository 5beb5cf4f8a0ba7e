SPECIFICATION FairSpec
CONSTANTS
  MAX_SOCK_NUM = 3
  Polite = FALSE
  EarlyClients = FALSE
PROPERTY MainLoopComesRound

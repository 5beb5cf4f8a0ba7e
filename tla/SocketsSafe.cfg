SPECIFICATION FairSpec
CONSTANTS
  MAX_SOCK_NUM = 4
  Polite = TRUE
  EarlyClients = FALSE
INVARIANTS
  TypeOK
  OneListener
  NoSocketIsLost
  SocketsAreOwned
PROPERTY ListensAgain

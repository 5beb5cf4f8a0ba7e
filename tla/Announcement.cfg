\* A message is read once.
SPECIFICATION Spec
CONSTANTS
  BUFSIZE = 3
  BonjourName <- OwnName
  DNS_SD_SERVICE <- Services
  TCP <- Tcp
  ServiceNames <- Registered
  QuestionLists <- Asked
INVARIANT
  AnnouncementIsFound
CHECK_DEADLOCK FALSE

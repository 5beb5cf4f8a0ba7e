\* Parts end when an address, a text or a message was read.
SPECIFICATION Spec
CONSTANTS
  QueryFields <- Forms
  INPUT_BUFFER_SIZE = 20
  Stack <- Remains
  MaxRequests = 2
  Octets <- MCOctets
  Groups <- MCGroups
  Streams <- MCStreams
  TargetLists <- MCTargetLists
  Numbers <- MCNumbers
  FlashPages <- HtmlPages
  Values <- KeyValues
  MAXLEN = 3
  MTU_SIZE = 4
  W5500_SSIZE = 6
  SIZE = 6
  POINTERS = 12
  Frames <- SmallFrames
  AccessAddress <- OneByte
  \* seconds of three milliseconds, and a word that is no multiple of them;
  \* calls come within a second or a little late
  SEC = 3
  ULONG = 41
  T1 = 8
  MaxDelay = 4
  WORD = 11
  RESEND <- ResendTimes
  Timeout = 1
  \* buffers of three bytes, so that labels end before, at and after them
  BUFSIZE = 3
  BonjourName <- OwnName
  DNS_SD_SERVICE <- Services
  TCP <- Tcp
  ServiceNames <- Registered
  QuestionLists <- Asked
  MaxGap = 1
  \* a display whose transfer may fail once
  DeviceIp <- OwnIp
  Pending <- InProgress
  TargetIps <- Targets
  Channels = {5, 100}
  Counts = {0, 65535}
  MaxFails = 1
INVARIANTS
  BufferIsLayout
  FieldsAreSet
  TextIsAddress
  PageIsWhole
  DatagramIsWhole
  RenewedOnTime
  FindsFirst
  NumberIsRead
  QuestionsAreAnswered
  ServiceIsFound
  QueriesAreKept
PROPERTY
  ScreenCatchesUp
CHECK_DEADLOCK FALSE

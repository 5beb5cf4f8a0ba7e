\* Two DHCP servers; the record is the local variable of Ethernet_begin_mac.
SPECIFICATION ClientsSpec
CONSTANTS
  Servers = {"A", "B"}
  LeaseTime = 2
  MaxRounds = 2
  MaxMail = 3
  StackTimes = {2}
  SIZE = 6
  POINTERS = 12
  BASE = 4
  Incoming <- Arriving
  Hosts <- HostNames
  Datagrams = {}
  NoHost = 0
  DnsServers = {1, 2}
  PORTS = 1
  MaxLookups = 2
  Services = {"a", "b", "c"}
  Type <- ServiceTypes
  NumMDNSServiceRecords = 2
  MDNS_RESPONSE_TTL = 8
  WORD = 11
  MaxGap = 1
INVARIANTS
  AddressIsGranted
  AnswerIsMine
  StaysKnown
  NoGhosts
PROPERTIES
  SessionsComeRound
  ImplementsBox
  CallsReturn

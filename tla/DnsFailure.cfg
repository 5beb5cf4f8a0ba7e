SPECIFICATION DnsSpec
CONSTANTS
  Hosts <- OneName
  DnsServers = {1}
  PORTS = 1
  MaxLookups = 1
  Datagrams = {}
  NoHost = 0
INVARIANT FailureIsReported

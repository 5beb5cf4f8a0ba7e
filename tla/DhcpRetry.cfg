\* The record is the local variable of Ethernet_begin_mac.
SPECIFICATION FairSpec
CONSTANTS
  Servers = {"A"}
  LeaseTime = 2
  MaxRounds = 1
  MaxMail = 2
  StackTimes = {0, 2}
PROPERTY LostLeaseIsRetried

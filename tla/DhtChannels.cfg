\* As many listen addresses as a channel has room for.
SPECIFICATION FairSpec
CONSTANTS
  Peers = {p1}
  ChannelCap = 2
  MaxAddresses = 2
  MaxReports = 3
INVARIANTS
  TypeOK
PROPERTIES
  NobodyWaitsForEver
CHECK_DEADLOCK FALSE

\* A peer connects, and the node is bootstrapped.
SPECIFICATION FairSpec
CONSTANTS
  Peers = {p1}
  ChannelCap = 2
  MaxAddresses = 2
  MaxReports = 3
PROPERTIES
  NodesLookForEachOther
CHECK_DEADLOCK FALSE

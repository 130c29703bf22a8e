SPECIFICATION FairSpec
CONSTANTS
  a = a
  b = b
  c = c
  Nodes <- MCNodes
  Records <- MCRecords
  Guarded <- MCGuarded
  Amounts = {1}
  Threshold = 1
  MaxReserve = 1
  MaxTotal = 1
INVARIANTS
  TypeOK
  OnlyShortNodesRedirect
  CalledPeersAreRegistered

  
  

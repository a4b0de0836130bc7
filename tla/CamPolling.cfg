\* Liveness on one connection; the second slot finds the connection ids used up.
CONSTANTS
  SlotNum = 2
  MaxConnectionIds = 1
  MaxEmptyData = 2
  MaxFaults = 2
  MaxData = 2
  MaxCallbackWrites = 1
  MaxPmts = 1
SPECIFICATION FairSpec
PROPERTIES
  
  PollingGoesOn

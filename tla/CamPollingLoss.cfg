\* A TPDU that is never answered: one connection, one fault.
CONSTANTS
  SlotNum = 2
  MaxConnectionIds = 1
  MaxEmptyData = 2
  MaxFaults = 1
  MaxData = 2
  MaxCallbackWrites = 1
  MaxPmts = 1
SPECIFICATION FairSpec
PROPERTIES
  PollingSurvivesLoss

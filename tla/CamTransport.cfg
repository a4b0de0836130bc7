\* Two slots, two connections; one fault, one answer out of the ordinary, one PMT.
CONSTANTS
  SlotNum = 2
  MaxConnectionIds = 2
  MaxEmptyData = 1
  MaxFaults = 1
  MaxData = 1
  MaxCallbackWrites = 1
  MaxPmts = 1
SPECIFICATION Spec
INVARIANTS
  TypeOK
  CreditAccounting
  HalfDuplex

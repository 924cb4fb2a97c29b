SPECIFICATION FairSpec
CONSTANTS
  CountModulus = 8
  AddressModulus = 6
  SectorBytes = 2
  CommandBytes = 2
  Ids = {0, 1}
  Loaded = {1}
  Lbas = {0, 1, 2}
  Orders <- OrderList
  MemSize = 6
  MaxSent = 2
  MaxFaults = 1
INVARIANTS
  OrderIsDone
  MemoryIsSafe
PROPERTY
  OnlyOrderedWrites
  OrderEnds
\* The guest may have sent all its commands.
CHECK_DEADLOCK FALSE

SPECIFICATION FairSpec
CONSTANTS
  MaxPending = 3
  MaxInFlight = 3
  InventoryPoll = 3
  ConnectPoll = 7
  TreeVerb = {"Set", "Look", "Incantation"}
  MaxLevel = 2
  MaxTicks = 7
  MaxRituals = 3
INVARIANT TypeOK
INVARIANT LevelKnown
INVARIANT WithinLimit
PROPERTY NeverStuck

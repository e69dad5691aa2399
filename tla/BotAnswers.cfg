SPECIFICATION FairSpec
CONSTANTS
  MaxPending = 3
  MaxInFlight = 3
  InventoryPoll = 3
  ConnectPoll = 7
  TreeVerb = {"Forward", "Set", "Look", "Incantation"}
  MaxLevel = 2
  MaxTicks = 3
  MaxRituals = 1
PROPERTY AnswersTheCommand

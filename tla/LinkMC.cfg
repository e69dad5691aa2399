SPECIFICATION FairLinkSpec
CONSTANTS
  gui = gui
  ai = ai
  Room = 1
  MaxPushed = 3
INVARIANT WriteInterest
INVARIANT SnapshotWhole
PROPERTY KeepsChannel
PROPERTY EventReachesScreen
PROPERTY GuiEnds
CHECK_DEADLOCK FALSE

CONSTANTS
  Width = 2
  Height = 1
  Players = {p1, p2, p3}
  Teams = {A}
  InitSlots = 3
  Resource = {linemate}
  Target <- MCNoTarget
  MaxTarget = 0
  MaxStones = 0
  MaxLevel = 3
  PlayersNeeded <- MCPlayersNeeded
  StonesNeeded <- MCStonesNeeded
  Winners = 2
  InitLife = 1
  MaxEggs = 3
  MaxPending = 1
  Verb = {"eject"}
  Duration <- MCDuration
  MaxLines = 1
  MaxAllLines = 3
SPECIFICATION ServerSpec
SYMMETRY Symmetry
INVARIANT PlayersAreClients
PROPERTY WorldSpec

CONSTANTS
  Width = 2
  Height = 1
  Players = {p1, p2}
  Teams = {A}
  InitSlots = 1
  Resource = {linemate}
  Target <- MCTarget
  MaxTarget = 1
  MaxStones = 1
  MaxLevel = 2
  PlayersNeeded <- MCPlayersNeeded
  StonesNeeded <- MCStonesNeeded
  Winners = 2
  InitLife = 1
  MaxEggs = 3
  Frequency = {1, 2}
  FirstFrequency = 1
  MaxWire = 1
  MaxSteps = 6
SPECIFICATION MCSpec
SYMMETRY Symmetry
INVARIANT PlayersShown
INVARIANT NobodyElseShown
INVARIANT RitualsShown
INVARIANT NothingIgnored
PROPERTY KeepsReplica
CHECK_DEADLOCK FALSE

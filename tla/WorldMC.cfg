CONSTANTS
  Width = 2
  Height = 1
  Players = {p1, p2}
  Teams = {A, B}
  InitSlots = 1
  Resource = {linemate}
  Target <- MCTarget
  MaxTarget = 1
  MaxStones = 1
  MaxLevel = 3
  PlayersNeeded <- MCPlayersNeeded
  StonesNeeded <- MCStonesNeeded
  Winners = 2
  InitLife = 1
  MaxEggs = 3
SPECIFICATION BoundedSpec
SYMMETRY Symmetry
INVARIANT WorldTypeOK
INVARIANT MapConsistent
INVARIANT EggsWithinSlots
PROPERTY RiseTogether
PROPERTY ResourcesConserved
CHECK_DEADLOCK FALSE

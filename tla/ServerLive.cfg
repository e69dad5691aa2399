CONSTANTS
  Width = 2
  Height = 1
  Players = {p1, p2}
  Teams = {A}
  InitSlots = 2
  Resource = {linemate}
  Target <- MCNoTarget
  MaxTarget = 0
  MaxStones = 0
  MaxLevel = 2
  PlayersNeeded <- MCTwoNeeded
  StonesNeeded <- MCNoStones
  Winners = 2
  InitLife = 1
  MaxEggs = 2
  MaxPending = 1
  Verb = {"forward", "left", "right", "incantation"}
  Duration <- MCDuration
  MaxLines = 1
  MaxAllLines = 2
SPECIFICATION FairServerSpec
PROPERTY BegunCommandEnds
PROPERTY QueuedCommandBegins
PROPERTY WorldSpec

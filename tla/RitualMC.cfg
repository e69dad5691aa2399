CONSTANTS
  Width = 2
  Height = 1
  Players = {p1, p2}
  Teams = {A}
  InitSlots = 2
  Resource = {linemate}
  Target <- MCNoTarget
  MaxTarget = 0
  MaxStones = 0
  MaxLevel = 3
  PlayersNeeded <- MCPlayersNeeded
  StonesNeeded <- MCNoStones
  Winners = 2
  InitLife = 1
  MaxEggs = 2
  MaxPending = 1
  Verb = {"forward", "incantation"}
  Duration <- MCDuration
  MaxLines = 1
  MaxAllLines = 2
SPECIFICATION RitualSpec
PROPERTY RitualVerifiedAtStart

CONSTANTS
  Width = 2
  Height = 1
  Players = {p1, p2}
  Teams = {A}
  InitSlots = 1
  Resource = {linemate}
  Target <- MCTarget
  MaxTarget = 1
  MaxStones = 1
  MaxLevel = 3
  PlayersNeeded <- MCPlayersNeeded
  StonesNeeded <- MCStonesNeeded
  Winners = 2
  InitLife = 1
  MaxEggs = 2
  MaxPending = 2
  Verb = {"connect_nbr", "take", "set", "fork", "incantation"}
  Duration <- MCDuration
  MaxLines = 3
  MaxAllLines = 3
SPECIFICATION ServerSpec
SYMMETRY Symmetry
INVARIANT ServerTypeOK
INVARIANT PlayersAreClients
INVARIANT AnswersMatchQueue
PROPERTY WorldSpec

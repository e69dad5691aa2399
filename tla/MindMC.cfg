SPECIFICATION FairSpec
CONSTANTS
  Width = 4
  Height = 3
  Level = 1
  Wanted = {"linemate"}
  Poll = 3
  MaxMeddling = 1
  MaxFood = 2
  MaxStones = 0
  Hatched = {"DOWN"}
  MaxTurns = 8
INVARIANT EveryTurnSends
INVARIANT MapIsTrue
PROPERTY SeenFoodIsTaken
CHECK_DEADLOCK FALSE

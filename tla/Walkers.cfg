CONSTANTS
  Width = 5
  Height = 4
  MaxLevel = 5
SPECIFICATION Spec
INVARIANT SoundLeadsHome
INVARIANT SoundTurnsWithListener
INVARIANT LookSeesWhereOneWalks

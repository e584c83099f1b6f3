SPECIFICATION FairSpec
CONSTANTS
  Kinds <- Both
  Requests <- Retrying
  SendAttempts = 2
  MineAttempts = 2
  MaxResends = 0
  MaxSlots = 2
  MaxHashes = 3
  MaxFaults = 0
INVARIANTS
  MinedIsTrue
  NoLimbo
PROPERTIES
  Settles
CHECK_DEADLOCK FALSE

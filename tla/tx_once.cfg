SPECIFICATION SurvivingSpec
CONSTANTS
  Kinds <- Both
  Requests <- Resending
  SendAttempts = 1
  MineAttempts = 1
  MaxResends = 1
  MaxSlots = 2
  MaxHashes = 2
  MaxFaults = 1
INVARIANTS
  TypeOK
  ExecutedAtMostOnce
  MinedIsTrue
  OutcomeAnnounced
CHECK_DEADLOCK FALSE

SPECIFICATION Spec
CONSTANTS
  Kinds <- EOA
  Requests <- InsertTwice
  SendAttempts = 1
  MineAttempts = 1
  MaxResends = 1
  MaxSlots = 2
  MaxHashes = 2
  MaxFaults = 0
INVARIANTS
  ExecutedAtMostOnce
CHECK_DEADLOCK FALSE

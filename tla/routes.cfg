SPECIFICATION FairSpec
CONSTANTS
  Clients = {c1}
  OptionSets <- SomeOptions
  BatchSize = 2
  MaxTries = 2
  MaxFaults = 2
INVARIANTS
  TypeOK
  KeyedOnce
  RefusedLeavesNothing
  SentAsAsked
PROPERTIES
  AnsweredGetsQueued
CHECK_DEADLOCK FALSE

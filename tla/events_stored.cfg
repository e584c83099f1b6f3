SPECIFICATION FairSpec
CONSTANTS
  s1 = s1
  s2 = s2
  c = c
  u1 = u1
  Subs = {s1, s2}
  Wants <- Wanted
  Contract <- OneContract
  Filter <- Filters
  Url <- OneUrl
  Abi <- KnownNames
  Chains <- WithOrWithout
  Requeries = 1
  LastAttempts = 2
  HookAttempts = 2
  MaxRanges = 2
  MaxHead = 1
  MaxFaults = 1
INVARIANTS
  TypeOK
  ReceivedOnce
PROPERTIES
  ItemsStored
  ItemsAnnounced
CHECK_DEADLOCK FALSE

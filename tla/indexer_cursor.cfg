SPECIFICATION FairSpec
CONSTANTS
  s1 = s1
  s2 = s2
  Subs = {s1, s2}
  Wants <- LogsAndBoth
  Workers = {w1}
  Tasks = {t1, t2}
  None = None
  MaxBlocksToIndex = 1
  ToBlockOffset = 0
  Lag = 1
  OverlappingAdds = FALSE
  MaxHead = 2
  MaxFaults = 1
INVARIANTS
  TypeOK
  NoGap
PROPERTIES
  ImplementsCursor
  CatchesUp
CHECK_DEADLOCK FALSE

SPECIFICATION FairSpec
CONSTANTS
  Txs = {t1, t2}
  MaxNonce = 3
  MaxAttempts = 1
  MaxFaults = 1
  InitCount = 2
  InitLastUsed = 1
  Features = {"cancel", "crash", "resync"}
  Free = Free
  CancelTx = CancelTx
  ExternalTx = ExternalTx
  t1 = t1
  t2 = t2
PROPERTIES
  GapFilled
CHECK_DEADLOCK FALSE

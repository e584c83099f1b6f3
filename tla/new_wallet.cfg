SPECIFICATION Spec
CONSTANTS
  Txs = {t1, t2}
  MaxNonce = 3
  MaxAttempts = 2
  MaxFaults = 1
  InitCount = 0
  InitLastUsed <- KeyAbsent
  Features = {}
  Free = Free
  CancelTx = CancelTx
  ExternalTx = ExternalTx
  t1 = t1
  t2 = t2
SYMMETRY TxSymmetry
INVARIANTS
  NonceExclusive
CHECK_DEADLOCK FALSE

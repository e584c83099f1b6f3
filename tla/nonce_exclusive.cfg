SPECIFICATION Spec
CONSTANTS
  Txs = {t1, t2}
  MaxNonce = 5
  MaxAttempts = 2
  MaxFaults = 2
  InitCount = 2
  InitLastUsed = 1
  Features = {"external", "drop", "crash", "lostReply", "lateThrow", "rpcError", "mineTimeout", "cancel"}
  Free = Free
  CancelTx = CancelTx
  ExternalTx = ExternalTx
  t1 = t1
  t2 = t2
SYMMETRY TxSymmetry
INVARIANTS
  TypeOK
  NonceExclusive
CHECK_DEADLOCK FALSE

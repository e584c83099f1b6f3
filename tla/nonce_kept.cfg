SPECIFICATION Spec
CONSTANTS
  Txs = {t1, t2, t3}
  MaxNonce = 5
  MaxAttempts = 2
  MaxFaults = 1
  InitCount = 2
  InitLastUsed = 1
  Features = {"external", "lostReply", "lateThrow", "rpcError", "cancel"}
  Free = Free
  CancelTx = CancelTx
  ExternalTx = ExternalTx
  t1 = t1
  t2 = t2
  t3 = t3
SYMMETRY TxSymmetry
INVARIANTS
  SentTracked
  NoNonceLost
PROPERTIES
  NeverDisplaced
CHECK_DEADLOCK FALSE

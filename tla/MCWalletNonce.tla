-------------------------- MODULE MCWalletNonce --------------------------
(* Instances of WalletNonce for TLC: small sets of queueIds and nonces.   *)
EXTENDS WalletNonce, TLC

TxSymmetry == Permutations(Txs)

\* A wallet whose `nonce:` key does not exist yet.
KeyAbsent == Unset
=============================================================================

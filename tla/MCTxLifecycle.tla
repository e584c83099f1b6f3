--------------------------- MODULE MCTxLifecycle ---------------------------
(* Instances of TxLifecycle for TLC: the kinds of transactions and the API *)
(* calls each of them makes.                                               *)
EXTENDS TxLifecycle

Insert1     == <<"insert", 1>>
Insert2     == <<"insert", 2>>

EOA         == {FALSE}
Both        == BOOLEAN
InsertOnly  == {Insert1}
InsertTwice == {Insert1, Insert2}
Resending   == {Insert1, Cancel, SyncRetry, Retry}
Retrying    == {Insert1, Cancel, RetryFailed}
=============================================================================

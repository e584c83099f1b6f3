-------------------------- MODULE MCChainIndexer --------------------------
(* Instances of ChainIndexer for TLC: one subscription that processes only *)
(* event logs and one that processes both.                                 *)
EXTENDS ChainIndexer

CONSTANTS s1, s2

LogsAndBoth == [s \in {s1, s2} |-> IF s = s1 THEN {"logs"} ELSE Kinds]
=============================================================================

------------------------- MODULE MCContractEvents -------------------------
(* Instances of ContractEvents for TLC: two subscriptions of one contract  *)
(* with one URL, s1 for the event "A" and the receipts of "f", s2 for the  *)
(* receipts of "g".  Block 1 holds an event and a call of "f", and in the  *)
(* second chain also a call "x" that the ABI does not know.                *)
EXTENDS ContractEvents

CONSTANTS s1, s2, c, u1

OneContract == [s \in Subs |-> c]
OneUrl      == [s \in Subs |-> u1]
Wanted      == [s \in Subs |-> IF s = s1 THEN Kinds ELSE {"receipts"}]
Filters     == [s \in Subs |-> IF s = s1 THEN [logs |-> {"A"}, receipts |-> {"f"}]
                                         ELSE [logs |-> {}, receipts |-> {"g"}]]
KnownNames  == {"A", "f", "g"}

Item(k, n)    == [kind |-> k, contract |-> c, name |-> n, block |-> 1]
LogAndCall    == {Item("logs", "A"), Item("receipts", "f")}
WithOrWithout == {LogAndCall, LogAndCall \cup {Item("receipts", "x")}}
=============================================================================

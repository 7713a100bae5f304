------------------------------ MODULE MCTxnQueue ------------------------------
(* Instances of TxnQueue for TLC. *)
EXTENDS TxnQueue, TLC

\* An ELP write, a packet of a burst, a low and a high priority transaction of
\* the WLAN function (id 2) and, where Func has it, one of another function.
MCFuncOf == [t \in Txn |-> IF t = "other" THEN 1 ELSE 2]
MCPrioOf == [t \in Txn |-> IF t = "high" THEN 0 ELSE 1]
====

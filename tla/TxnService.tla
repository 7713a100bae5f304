------------------------------ MODULE TxnService ------------------------------
(***************************************************************************)
(* What the transaction queue promises its clients, without threads,       *)
(* queues or flags: a transaction handed over is put on the bus at most    *)
(* once and alone, a transaction that was on the bus comes back to its     *)
(* client exactly once, and the only ones that come back without having    *)
(* been on the bus are those of a function that is restarted.              *)
(***************************************************************************)
CONSTANTS Txn,    \* the transactions the promise is about
          FuncOf  \* the function each belongs to

VARIABLE life     \* where each transaction is in its life

Stage == {"client", "accepted", "bus", "finished"}

Init == life = [t \in Txn |-> "client"]

Accept(t) ==
  /\ life[t] = "client"
  /\ life' = [life EXCEPT ![t] = "accepted"]

\* The bus carries one transaction at a time.
Start(t) ==
  /\ life[t] = "accepted"
  /\ \A u \in Txn : life[u] # "bus"
  /\ life' = [life EXCEPT ![t] = "bus"]

Finish(t) ==
  /\ life[t] = "bus"
  /\ life' = [life EXCEPT ![t] = "finished"]

Report(t) ==
  /\ life[t] = "finished"
  /\ life' = [life EXCEPT ![t] = "client"]

\* A restart of function f takes back what has not been started.
Drop(f, D) ==
  /\ \A t \in D : FuncOf[t] = f /\ life[t] = "accepted"
  /\ life' = [t \in Txn |-> IF t \in D THEN "client" ELSE life[t]]

Next ==
  \/ \E t \in Txn : Accept(t) \/ Start(t) \/ Finish(t) \/ Report(t)
  \/ \E f \in {FuncOf[t] : t \in Txn} : \E D \in SUBSET Txn : Drop(f, D)

Spec == Init /\ [][Next]_life
====

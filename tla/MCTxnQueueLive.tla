---------------------------- MODULE MCTxnQueueLive ----------------------------
(***************************************************************************)
(* Liveness of TxnQueue.  A client that never stops calling can keep the   *)
(* scheduler away from a low priority (txnQ_SelectTxn serves the higher    *)
(* ones first), or keep the TxnDone thread inside txnQ_RunScheduler by     *)
(* setting bSchedulerPend for ever, so the clients of this instance make a *)
(* bounded number of calls (MaxCalls).                                     *)
(***************************************************************************)
EXTENDS TxnQueue, TLC

CONSTANT MaxCalls

VARIABLE calls

MCFuncOf == [t \in Txn |-> 2]
MCPrioOf == [t \in Txn |-> IF t = "high" THEN 0 ELSE 1]

LiveInit == Init /\ calls = 0

LiveNext ==
  \/ /\ calls < MaxCalls
     /\ Client
     /\ calls' = calls + 1
  \/ /\ RestartClear \/ TxnDoneCb
        \/ (\E f \in Func : RestartTimeout(f) \/ StopTimer(f))
        \/ (\E c \in Ctx : Scheduler(c))
        \/ (\E t \in Txn : BusDone(t))
     /\ UNCHANGED calls

LiveSpec == LiveInit /\ [][LiveNext]_<<vars, calls>> /\ Fairness
====

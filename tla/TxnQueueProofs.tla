--------------------------- MODULE TxnQueueProofs ---------------------------
(***************************************************************************)
(* Theorems about TxnQueue, for any sets of transactions, functions and    *)
(* priorities.  SchedulerNotReentered and BusCalledWhenIdle are not        *)
(* inductive: that the bus is idle when busDrv_Transact is called follows  *)
(* from what pCurrTxn means while the contexts are elsewhere (IInv).  On   *)
(* top of it come what the bus driver has accumulated (AInv), who will     *)
(* look after work that waits (WInv), and in which one place each          *)
(* transaction is (PInv); the refinement of TxnService rests on the last.  *)
(***************************************************************************)
EXTENDS TxnQueue, TLAPS

\* Who is inside txnQ_Scheduler set bSchedulerBusy, and is alone.
BusyInv ==
  /\ \A c \in Ctx : pc[c] \in SchedPc => bSchedulerBusy
  /\ SchedulerNotReentered

\* A context that completes or sends a transaction has one in hand.
HeldInv ==
  \A c \in Ctx :
    pc[c] \in {"send", "sent", "enqueue", "report"} \cup DonePc => pSelectedTxn[c] \in Txn

\* What pCurrTxn means: it names the transaction on the bus, it stays until
\* txnQ_TxnDoneCb releases it, and it is NULL while the scheduler selects.
CurrInv ==
  /\ bus \subseteq {pCurrTxn}
  /\ pc["TxnDone"] \in DonePc => pCurrTxn # NoTxn /\ bus = {}
  /\ \A c \in Ctx : pc[c] \in {"select", "send", "enqueue"} => pCurrTxn = NoTxn
  /\ \A c \in Ctx : pc[c] = "sent" /\ eStatus[c] # "PENDING" =>
                      bus = {} /\ pc["TxnDone"] \notin DonePc

IInv == TypeOK /\ BusyInv /\ HeldInv /\ CurrInv

\* Transactions wait where txnQ_Transact put them: regular ones in their own
\* queue, ELP writes in the single-step slot.
Homed(que, q) == \A i \in 1 .. Len(que) : que[i] \notin SingleStep /\ QueueOf(que[i]) = q

HomeInv ==
  /\ \A q \in Queue : Homed(aTxnQueues[q], q)
  /\ \A f \in Func : pSingleStep[f] \in SingleStep \cup {NoTxn}

\* pAggregQueue tells the scheduler what the bus driver has accumulated, up to
\* the moment the last packet of the burst is on its way to it.
AccumInv ==
  /\ accum # NoQueue =>
       \/ pAggregQueue = accum
       \/ \E c \in Ctx : pc[c] = "send"
  /\ \A c \in Ctx : pc[c] = "send" =>
       /\ pSelectedTxn[c] \in AggregOn => pAggregQueue = QueueOf(pSelectedTxn[c])
       /\ accum # NoQueue =>
            pSelectedTxn[c] \notin SingleStep /\ QueueOf(pSelectedTxn[c]) = accum

AInv == IInv /\ HomeInv /\ AccumInv

-----------------------------------------------------------------------------
(* Type correctness. *)

\* que_Enqueue yields a queue of transactions.
LEMMA EnqueueType ==
  ASSUME NEW que \in Seq(Txn), NEW t \in Txn
  PROVE  que_Enqueue(que, t) \in Seq(Txn)
BY DEF que_Enqueue

\* A step to another place keeps the type of pc.
LEMMA GoToType ==
  ASSUME pc \in [Ctx -> Pc], NEW c \in Ctx, NEW l \in Pc, GoTo(c, l)
  PROVE  pc' \in [Ctx -> Pc]
BY DEF GoTo

\* txnQ_ClearQueues keeps the types of what it changes.
LEMMA ClearType ==
  ASSUME TypeOK, NEW f \in Func, ClearQueues(f)
  PROVE  /\ eState' \in [Func -> FuncState]
         /\ pSingleStep' \in [Func -> TxnOrNone]
         /\ aTxnQueues' \in [Queue -> Seq(Txn)]
         /\ owner' \in [Txn -> {"client", "txnq"}]
         /\ pAggregQueue' \in Queue \cup {NoQueue}
BY DEF TypeOK, ClearQueues, QueuesOf, StateAfterClear, TxnOrNone, FuncState

\* The functional driver's calls keep the types.
LEMMA ClientType ==
  ASSUME TypeOK, Client \/ RestartClear \/ (\E f \in Func : RestartTimeout(f) \/ StopTimer(f))
  PROVE  TypeOK'
<1> USE TxnAssumption DEF TypeOK, TxnOrNone, Pc, SchedPc, DonePc, Ctx, Status, FuncState,
        flagVars, busVars, callVars, selVars, funcVars
<1>1. ASSUME NEW f \in Func, Open(f) PROVE TypeOK'
  BY <1>1 DEF Open
<1>2. ASSUME NEW f \in Func, Close(f) PROVE TypeOK'
  BY <1>2 DEF Close
<1>3. ASSUME NEW f \in Func, Restart(f) PROVE TypeOK'
  <2>1. CASE RestartPending(f)
    BY <1>3, <2>1 DEF Restart, RestartPending
  <2>2. CASE RestartNow(f)
    BY <1>3, <2>2, GoToType DEF Restart, RestartNow
  <2> QED BY <1>3, <2>1, <2>2 DEF Restart
<1>4. ASSUME NEW f \in Func, Run(f) PROVE TypeOK'
  BY <1>4 DEF Run, CallScheduler, GoTo
<1>5. ASSUME NEW f \in Func, Stop(f) PROVE TypeOK'
  BY <1>5 DEF Stop
<1>6. ASSUME NEW t \in Txn, Transact(t) PROVE TypeOK'
  <2>1. QueueOf(t) \in Queue
    BY DEF QueueOf, Queue
  <2>2. CASE TransactSingleStep(t)
    BY <1>6, <2>2 DEF Transact, TransactSingleStep, CallScheduler, GoTo
  <2>3. CASE TransactRegular(t)
    BY <1>6, <2>1, <2>3, EnqueueType DEF Transact, TransactRegular, CallScheduler, GoTo
  <2> QED BY <1>6, <2>2, <2>3 DEF Transact
<1>7. CASE RestartClear
  BY <1>7, ClearType DEF RestartClear, GoTo
<1>8. ASSUME NEW f \in Func, RestartTimeout(f) PROVE TypeOK'
  BY <1>8, ClearType DEF RestartTimeout
<1>9. ASSUME NEW f \in Func, StopTimer(f) PROVE TypeOK'
  BY <1>9 DEF StopTimer
<1>10. CASE ConnectBus
  BY <1>10 DEF ConnectBus
<1> QED BY <1>1, <1>2, <1>3, <1>4, <1>5, <1>6, <1>7, <1>8, <1>9, <1>10 DEF Client

\* txnQ_RunScheduler and txnQ_Scheduler keep the types.
LEMMA SchedulerType ==
  ASSUME TypeOK, HeldInv, NEW c \in Ctx, Scheduler(c)
  PROVE  TypeOK'
<1> USE TxnAssumption DEF TypeOK, TxnOrNone, Pc, SchedPc, DonePc, Ctx, Status, FuncState,
        flagVars, busVars, callVars, selVars, funcVars, Reentered, BusOccupied, RunAgain
<1>1. CASE EnterScheduler(c)
  <2>1. CASE bSchedulerBusy
    <3>1. bFirst' = [bFirst EXCEPT ![c] = FALSE] /\ bSchedulerPend' = TRUE
      BY <1>1, <2>1 DEF EnterScheduler, Return
    <3>2. bFirst' \in [Ctx -> BOOLEAN] /\ bSchedulerPend' \in BOOLEAN
      BY <3>1, Zenon
    <3> QED BY <1>1, <2>1, <3>2 DEF EnterScheduler, Return, GoTo
  <2>2. CASE ~bSchedulerBusy
    BY <1>1, <2>2 DEF EnterScheduler, GoTo
  <2> QED BY <2>1, <2>2
<1>2. CASE TestBus(c)
  BY <1>2 DEF TestBus, GoTo
<1>3. CASE SelectTxn(c)
  <2>1. ASSUME NEW q \in Queue, aTxnQueues[q] # <<>>, TakeFrom(c, q)
        PROVE  /\ pSelectedTxn' \in [Ctx -> TxnOrNone]
               /\ aTxnQueues' \in [Queue -> Seq(Txn)]
               /\ pAggregQueue' \in Queue \cup {NoQueue}
               /\ UNCHANGED pSingleStep
    BY <2>1 DEF TakeFrom
  <2>2. CASE SelectAggregated(c)
    BY <1>3, <2>1, <2>2 DEF SelectTxn, SelectAggregated, GoTo
  <2>3. CASE SelectSingleStep(c)
    BY <1>3, <2>3 DEF SelectTxn, SelectSingleStep, GoTo
  <2>4. CASE SelectByPriority(c)
    BY <1>3, <2>1, <2>4 DEF SelectTxn, SelectByPriority, Ready, GoTo
  <2>5. CASE ~Sendable /\ GoTo(c, "collect") /\ UNCHANGED <<pSelectedTxn, pSingleStep, aTxnQueues, pAggregQueue>>
    BY <1>3, <2>5 DEF SelectTxn, GoTo
  <2> QED BY <1>3, <2>2, <2>3, <2>4, <2>5 DEF SelectTxn
<1>4. CASE Send(c)
  BY <1>4 DEF Send, BusOutcome, GoTo, HeldInv, QueueOf, Queue
<1>5. CASE Sent(c)
  BY <1>5 DEF Sent, GoTo
<1>6. CASE EnqueueDone(c)
  BY <1>6, EnqueueType DEF EnqueueDone, GoTo, HeldInv
<1>7. CASE Collect(c)
  <2>1. CASE hTxnDoneQueue = <<>>
    BY <1>7, <2>1 DEF Collect, GoTo
  <2>2. CASE hTxnDoneQueue # <<>>
    <3>1. Head(hTxnDoneQueue) \in Txn /\ Tail(hTxnDoneQueue) \in Seq(Txn)
      BY <2>2
    <3>2. /\ hTxnDoneQueue' = Tail(hTxnDoneQueue)
          /\ pSelectedTxn' = [pSelectedTxn EXCEPT ![c] = Head(hTxnDoneQueue)]
          /\ GoTo(c, "report")
      BY <1>7, <2>2, Zenon DEF Collect
    <3>4. pc' \in [Ctx -> Pc]
      BY <3>2, GoToType
    <3>3. UNCHANGED <<funcVars, pCurrTxn, flagVars, busVars, owner, burst, uFuncId, timer, callVars, eStatus>>
      BY <1>7 DEF Collect
    <3> QED BY <3>1, <3>2, <3>3, <3>4
  <2> QED BY <2>1, <2>2
<1>8. CASE Report(c)
  BY <1>8 DEF Report, GiveBack, GoTo
<1>9. CASE ExitScheduler(c)
  <2>1. CASE bSchedulerPend
    <3>1. bFirst' = [bFirst EXCEPT ![c] = FALSE]
      BY <1>9, <2>1 DEF ExitScheduler
    <3>2. bFirst' \in [Ctx -> BOOLEAN]
      BY <3>1, Zenon
    <3>3. bSchedulerPend' = FALSE /\ GoTo(c, "sched")
      BY <1>9, <2>1 DEF ExitScheduler
    <3>5. pc' \in [Ctx -> Pc]
      BY <3>3, GoToType
    <3>4. UNCHANGED <<bSchedulerBusy, owner, param, pInputTxn, funcVars, hTxnDoneQueue, pCurrTxn,
                      bus, accum, burst, uFuncId, timer, rc, selVars>>
      BY <1>9, <2>1 DEF ExitScheduler
    <3> QED BY <3>2, <3>3, <3>4, <3>5
  <2>2. CASE ~bSchedulerPend
    <3>1. owner' \in [Txn -> {"client", "txnq"}] /\ param' \in [Txn -> {"OK", "ERROR"}]
      BY <1>9, <2>2 DEF ExitScheduler, GiveBack
    <3>2. bFirst' = [bFirst EXCEPT ![c] = FALSE]
      BY <1>9, <2>2 DEF ExitScheduler, Return
    <3>3. bFirst' \in [Ctx -> BOOLEAN]
      BY <3>2, Zenon
    <3>4. bSchedulerBusy' = FALSE /\ GoTo(c, "idle") /\ pInputTxn' = [pInputTxn EXCEPT ![c] = NoTxn]
      BY <1>9, <2>2 DEF ExitScheduler, Return
    <3>6. pc' \in [Ctx -> Pc]
      BY <3>4, GoToType
    <3>5. UNCHANGED <<bSchedulerPend, funcVars, hTxnDoneQueue, pCurrTxn, bus, accum, burst, uFuncId, timer, rc, selVars>>
      BY <1>9, <2>2 DEF ExitScheduler
    <3> QED BY <3>1, <3>3, <3>4, <3>5, <3>6
  <2> QED BY <2>1, <2>2
<1> QED BY <1>1, <1>2, <1>3, <1>4, <1>5, <1>6, <1>7, <1>8, <1>9 DEF Scheduler

\* txnQ_TxnDoneCb keeps the types.
LEMMA TxnDoneType ==
  ASSUME TypeOK, HeldInv, TxnDoneCb \/ (\E t \in Txn : BusDone(t))
  PROVE  TypeOK'
<1> USE TxnAssumption DEF TypeOK, TxnOrNone, Pc, SchedPc, DonePc, Ctx, Status, FuncState,
        flagVars, busVars, callVars, selVars, funcVars
<1>1. ASSUME NEW t \in Txn, BusDone(t) PROVE TypeOK'
  BY <1>1 DEF BusDone, GoTo
<1>2. CASE TestRestart
  BY <1>2 DEF TestRestart, GoTo
<1>3. CASE DoneClear
  <2>1. FuncOf[pSelectedTxn["TxnDone"]] \in Func
    BY <1>3 DEF DoneClear, HeldInv
  <2> QED BY <1>3, <2>1, ClearType DEF DoneClear, GoTo
<1>4. CASE DoneRecovery
  BY <1>4 DEF DoneRecovery, GiveBack, GoTo
<1>5. CASE DoneEnqueue
  BY <1>5, EnqueueType DEF DoneEnqueue, GoTo, HeldInv
<1>6. CASE DoneRelease
  BY <1>6 DEF DoneRelease, CallScheduler, GoTo
<1> QED BY <1>1, <1>2, <1>3, <1>4, <1>5, <1>6 DEF TxnDoneCb

-----------------------------------------------------------------------------
(* The rest of the inductive invariant. *)

\* Calls of the functional driver start from idle and leave pCurrTxn alone.
LEMMA ClientInv ==
  ASSUME IInv, Client \/ RestartClear \/ (\E f \in Func : RestartTimeout(f) \/ StopTimer(f))
  PROVE  BusyInv' /\ HeldInv' /\ CurrInv'
<1> DEFINE Aloof == /\ UNCHANGED <<bSchedulerBusy, pCurrTxn, bus, pSelectedTxn, eStatus>>
                    /\ pc' \in [Ctx -> Pc]
                    /\ pc'["TxnDone"] = pc["TxnDone"]
                    /\ pc' = pc \/ pc'["Driver"] \in {"idle", "restart", "run"}
<1>1. Aloof
  <2> USE DEF IInv, TypeOK, Ctx, Pc, flagVars, busVars, callVars, selVars
  <2>1. ASSUME NEW f \in Func, Open(f) \/ Close(f) \/ Stop(f) \/ RestartTimeout(f) \/ StopTimer(f)
        PROVE  Aloof
    BY <2>1 DEF Open, Close, Stop, RestartTimeout, StopTimer
  <2>2. ASSUME NEW f \in Func, Restart(f) PROVE Aloof
    BY <2>2 DEF Restart, RestartPending, RestartNow, GoTo
  <2>3. ASSUME NEW f \in Func, Run(f) PROVE Aloof
    BY <2>3 DEF Run, CallScheduler, GoTo
  <2>4. ASSUME NEW t \in Txn, Transact(t) PROVE Aloof
    BY <2>4 DEF Transact, CallScheduler, GoTo
  <2>5. CASE RestartClear
    BY <2>5 DEF RestartClear, GoTo
  <2>6. CASE ConnectBus
    BY <2>6 DEF ConnectBus
  <2> QED BY <2>1, <2>2, <2>3, <2>4, <2>5, <2>6 DEF Client
<1> QED
  BY <1>1 DEF IInv, BusyInv, HeldInv, CurrInv, SchedulerNotReentered, Ctx, SchedPc, DonePc

\* A context in txnQ_Scheduler is alone there; it sends only with pCurrTxn
\* NULL, so nothing is on the bus and no completion is being handled.
LEMMA SchedulerInv ==
  ASSUME IInv, NEW c \in Ctx, Scheduler(c)
  PROVE  BusyInv' /\ HeldInv' /\ CurrInv'
<1> USE TxnAssumption DEF IInv, TypeOK, TxnOrNone, BusyInv, HeldInv, CurrInv, SchedulerNotReentered,
        Ctx, SchedPc, DonePc, GoTo, funcVars, flagVars, busVars, callVars, selVars,
        Reentered, BusOccupied, RunAgain
<1>1. CASE EnterScheduler(c)
  BY <1>1 DEF EnterScheduler, Return
<1>2. CASE TestBus(c)
  BY <1>2 DEF TestBus
<1>3. CASE SelectTxn(c)
  <2>1. UNCHANGED <<bSchedulerBusy, pCurrTxn, bus, eStatus>>
    BY <1>3 DEF SelectTxn
  <2>2. ASSUME NEW q \in Queue, aTxnQueues[q] # <<>>, TakeFrom(c, q)
        PROVE  /\ pSelectedTxn'[c] \in Txn
               /\ \A d \in Ctx \ {c} : pSelectedTxn'[d] = pSelectedTxn[d]
    BY <2>2 DEF TakeFrom
  <2>3. CASE SelectAggregated(c) \/ SelectSingleStep(c) \/ SelectByPriority(c)
    <3>1. /\ pSelectedTxn'[c] \in Txn
          /\ \A d \in Ctx \ {c} : pSelectedTxn'[d] = pSelectedTxn[d]
      BY <2>2, <2>3 DEF SelectAggregated, SelectSingleStep, SelectByPriority, Ready
    <3>2. pc' = [pc EXCEPT ![c] = "send"] \/ pc' = [pc EXCEPT ![c] = "collect"]
      BY <1>3 DEF SelectTxn
    <3> QED BY <1>3, <2>1, <3>1, <3>2 DEF SelectTxn
  <2>4. CASE GoTo(c, "collect") /\ UNCHANGED pSelectedTxn
    BY <1>3, <2>1, <2>4 DEF SelectTxn
  <2> QED BY <1>3, <2>3, <2>4 DEF SelectTxn
<1>4. CASE Send(c)
  BY <1>4 DEF Send
<1>5. CASE Sent(c)
  BY <1>5 DEF Sent
<1>6. CASE EnqueueDone(c)
  BY <1>6 DEF EnqueueDone
<1>7. CASE Collect(c)
  BY <1>7 DEF Collect
<1>8. CASE Report(c)
  BY <1>8 DEF Report
<1>9. CASE ExitScheduler(c)
  BY <1>9 DEF ExitScheduler, Return
<1> QED BY <1>1, <1>2, <1>3, <1>4, <1>5, <1>6, <1>7, <1>8, <1>9 DEF Scheduler

\* From the completion of a transaction to the release of pCurrTxn nobody
\* selects or sends.
LEMMA TxnDoneInv ==
  ASSUME IInv, TxnDoneCb \/ (\E t \in Txn : BusDone(t))
  PROVE  BusyInv' /\ HeldInv' /\ CurrInv'
<1> USE TxnAssumption DEF IInv, TypeOK, TxnOrNone, BusyInv, HeldInv, CurrInv, SchedulerNotReentered,
        Ctx, SchedPc, DonePc, GoTo, funcVars, flagVars, busVars, callVars, selVars
<1>1. ASSUME NEW t \in Txn, BusDone(t) PROVE BusyInv' /\ HeldInv' /\ CurrInv'
  BY <1>1 DEF BusDone
<1>2. CASE TestRestart
  BY <1>2 DEF TestRestart
<1>3. CASE DoneClear
  BY <1>3 DEF DoneClear
<1>4. CASE DoneRecovery
  BY <1>4 DEF DoneRecovery
<1>5. CASE DoneEnqueue
  BY <1>5 DEF DoneEnqueue
<1>6. CASE DoneRelease
  BY <1>6 DEF DoneRelease, CallScheduler
<1> QED BY <1>1, <1>2, <1>3, <1>4, <1>5, <1>6 DEF TxnDoneCb

-----------------------------------------------------------------------------
\* IInv is an inductive invariant of the transaction queue.
LEMMA InductiveInvariant == Spec => []IInv
<1>1. Init => IInv
  <2> SUFFICES ASSUME Init PROVE IInv
    OBVIOUS
  <2>1. bFirst \in [Ctx -> BOOLEAN] /\ bSchedulerBusy \in BOOLEAN /\ bSchedulerPend \in BOOLEAN
    BY Zenon DEF Init
  <2>2. TypeOK
    BY <2>1, TxnAssumption DEF Init, TypeOK, TxnOrNone, Ctx, Pc, FuncState, Status
  <2>3. BusyInv /\ HeldInv /\ CurrInv
    BY DEF Init, BusyInv, HeldInv, CurrInv, SchedulerNotReentered, Ctx, SchedPc, DonePc
  <2> QED BY <2>2, <2>3 DEF IInv
<1>2. IInv /\ [Next]_vars => IInv'
  <2> SUFFICES ASSUME IInv, [Next]_vars PROVE IInv'
    OBVIOUS
  <2>1. CASE Client \/ RestartClear \/ (\E f \in Func : RestartTimeout(f) \/ StopTimer(f))
    BY <2>1, ClientType, ClientInv DEF IInv
  <2>2. CASE \E c \in Ctx : Scheduler(c)
    BY <2>2, SchedulerType, SchedulerInv DEF IInv
  <2>3. CASE TxnDoneCb \/ (\E t \in Txn : BusDone(t))
    BY <2>3, TxnDoneType, TxnDoneInv DEF IInv
  <2>4. CASE UNCHANGED vars
    BY <2>4 DEF vars, IInv, TypeOK, BusyInv, HeldInv, CurrInv, SchedulerNotReentered
  <2> QED BY <2>1, <2>2, <2>3, <2>4 DEF Next
<1> QED BY <1>1, <1>2, PTL DEF Spec

\* The variables of TTxnQObj keep their types in every interleaving of the two
\* contexts.
THEOREM TypeCorrect == Spec => []TypeOK
BY InductiveInvariant, PTL DEF IInv

\* bSchedulerBusy keeps the driver's context and the TxnDone context from both
\* executing txnQ_Scheduler.
THEOREM MutualExclusion == Spec => []SchedulerNotReentered
BY InductiveInvariant, PTL DEF IInv, BusyInv

\* busDrv_Transact is called only when the bus is idle and the completion of
\* the previous transaction has been handled.
THEOREM BusIdleWhenCalled == Spec => []BusCalledWhenIdle
<1>1. IInv => BusCalledWhenIdle
  BY TxnAssumption DEF IInv, TypeOK, CurrInv, BusCalledWhenIdle, Ctx, DonePc
<1> QED BY <1>1, InductiveInvariant, PTL

-----------------------------------------------------------------------------
(* Aggregations. *)

\* Linking a transaction in its own queue, or not linking it, keeps queues homed.
LEMMA EnqueueHome ==
  ASSUME NEW que \in Seq(Txn), NEW t \in Txn, t \notin SingleStep, Homed(que, QueueOf(t))
  PROVE  Homed(que_Enqueue(que, t), QueueOf(t))
BY DEF que_Enqueue, Homed

\* So does taking the head, which is itself a transaction of that queue.
LEMMA DequeueHome ==
  ASSUME NEW que \in Seq(Txn), NEW q, que # <<>>, Homed(que, q)
  PROVE  Homed(Tail(que), q) /\ Head(que) \notin SingleStep /\ QueueOf(Head(que)) = q
<1>1. Len(que) \in Nat /\ Len(que) >= 1 /\ Head(que) = que[1]
  OBVIOUS
<1>2. \A i \in 1 .. Len(Tail(que)) : Tail(que)[i] = que[i + 1] /\ i + 1 \in 1 .. Len(que)
  BY <1>1
<1> QED BY <1>1, <1>2 DEF Homed

\* txnQ_ClearQueues empties queues and slots.
LEMMA ClearHome ==
  ASSUME TypeOK, HomeInv, NEW f \in Func, ClearQueues(f)
  PROVE  HomeInv'
BY DEF TypeOK, HomeInv, Homed, ClearQueues, QueuesOf, QueueOf

\* The functional driver's calls put transactions where they belong, and touch
\* neither pAggregQueue nor, but for txnQ_ConnectBus, the DMA buffer.
LEMMA ClientAggreg ==
  ASSUME AInv, Client \/ RestartClear \/ (\E f \in Func : RestartTimeout(f) \/ StopTimer(f))
  PROVE  HomeInv' /\ AccumInv'
<1> DEFINE Aloof == /\ UNCHANGED <<pAggregQueue, pSelectedTxn>>
                    /\ accum' \in {accum, NoQueue}
                    /\ \A c \in Ctx : pc'[c] = "send" <=> pc[c] = "send"
<1>1. Aloof /\ HomeInv'
  <2> USE DEF AInv, IInv, TypeOK, Ctx, Pc, funcVars, flagVars, busVars, callVars, selVars
  <2>1. ASSUME NEW f \in Func, Open(f) \/ Close(f) PROVE Aloof /\ HomeInv'
    BY <2>1 DEF Open, Close, HomeInv, Homed, QueueOf
  <2>2. ASSUME NEW f \in Func, Stop(f) \/ StopTimer(f) PROVE Aloof /\ HomeInv'
    BY <2>2 DEF Stop, StopTimer, HomeInv, Homed, QueueOf
  <2>3. ASSUME NEW f \in Func, Restart(f) PROVE Aloof /\ HomeInv'
    BY <2>3 DEF Restart, RestartPending, RestartNow, ClientMayCall, GoTo, HomeInv, Homed, QueueOf
  <2>4. ASSUME NEW f \in Func, Run(f) PROVE Aloof /\ HomeInv'
    BY <2>4 DEF Run, CallScheduler, ClientMayCall, GoTo, HomeInv, Homed, QueueOf
  <2>5. ASSUME NEW t \in Txn, Transact(t) PROVE Aloof /\ HomeInv'
    <3>1. Aloof
      BY <2>5 DEF Transact, CallScheduler, GoTo
    <3>2. CASE TransactSingleStep(t)
      BY <3>1, <3>2, TxnAssumption DEF TransactSingleStep, HomeInv, Homed, QueueOf
    <3>3. CASE TransactRegular(t)
      <4>1. QueueOf(t) \in Queue
        BY TxnAssumption DEF QueueOf, Queue
      <4>2. Homed(que_Enqueue(aTxnQueues[QueueOf(t)], t), QueueOf(t))
        BY <3>3, <4>1, EnqueueHome DEF TransactRegular, HomeInv
      <4>3. /\ aTxnQueues' = [aTxnQueues EXCEPT ![QueueOf(t)] = que_Enqueue(aTxnQueues[QueueOf(t)], t)]
            /\ UNCHANGED pSingleStep
        BY <3>3 DEF TransactRegular
      <4>4. \A q \in Queue : Homed(aTxnQueues'[q], q)
        <5>1. aTxnQueues'[QueueOf(t)] = que_Enqueue(aTxnQueues[QueueOf(t)], t)
              /\ \A q \in Queue \ {QueueOf(t)} : aTxnQueues'[q] = aTxnQueues[q]
          BY <4>1, <4>3
        <5> QED BY <4>2, <5>1 DEF HomeInv
      <4> QED BY <3>1, <4>3, <4>4 DEF HomeInv, Homed, QueueOf
    <3> QED BY <2>5, <3>1, <3>2, <3>3 DEF Transact
  <2>6. CASE RestartClear
    BY <2>6, ClearHome DEF RestartClear, ClearQueues, GoTo
  <2>7. ASSUME NEW f \in Func, RestartTimeout(f) PROVE Aloof /\ HomeInv'
    BY <2>7, ClearHome DEF RestartTimeout, ClearQueues
  <2>8. CASE ConnectBus
    BY <2>8 DEF ConnectBus, HomeInv, Homed, QueueOf
  <2> QED BY <2>1, <2>2, <2>3, <2>4, <2>5, <2>6, <2>7, <2>8 DEF Client
<1> QED BY <1>1 DEF AInv, AccumInv, QueueOf

\* The scheduler serves nothing but pAggregQueue while it is set, and it is set
\* while the DMA buffer is not empty.
LEMMA SchedulerAggreg ==
  ASSUME AInv, NEW c \in Ctx, Scheduler(c)
  PROVE  HomeInv' /\ AccumInv'
<1> USE TxnAssumption DEF AInv, IInv, TypeOK, TxnOrNone, Pc, SchedPc, Ctx, GoTo
<1>1. CASE SelectTxn(c)
  <2>1. /\ UNCHANGED accum
        /\ pc[c] = "select"
        /\ \A d \in Ctx : pc[d] # "send"
        /\ accum # NoQueue => pAggregQueue = accum
    BY <1>1 DEF SelectTxn, busVars, BusyInv, SchedulerNotReentered, AccumInv
  <2>2. ASSUME NEW q \in Queue, aTxnQueues[q] # <<>>, TakeFrom(c, q)
        PROVE  /\ HomeInv'
               /\ pSelectedTxn'[c] \notin SingleStep /\ QueueOf(pSelectedTxn'[c]) = q
               /\ pSelectedTxn'[c] \in AggregOn => pAggregQueue' = q
    <3>1. /\ Homed(Tail(aTxnQueues[q]), q)
          /\ Head(aTxnQueues[q]) \notin SingleStep /\ QueueOf(Head(aTxnQueues[q])) = q
      BY <2>2, DequeueHome DEF HomeInv
    <3> QED BY <2>2, <3>1 DEF TakeFrom, HomeInv, Homed, QueueOf
  <2>3. CASE SelectAggregated(c) /\ GoTo(c, "send")
    BY <2>1, <2>2, <2>3 DEF SelectAggregated, AccumInv, QueueOf
  <2>4. CASE SelectSingleStep(c) /\ GoTo(c, "send")
    <3>1. accum' = NoQueue
      BY <2>1, <2>4 DEF SelectSingleStep
    <3>2. pSelectedTxn'[c] \in SingleStep /\ HomeInv'
      BY <2>4 DEF SelectSingleStep, HomeInv, Homed, QueueOf
    <3> QED BY <2>1, <2>4, <3>1, <3>2 DEF AccumInv
  <2>5. CASE SelectByPriority(c) /\ GoTo(c, "send")
    <3>1. accum' = NoQueue
      BY <2>1, <2>5 DEF SelectByPriority
    <3>2. PICK q \in Queue : aTxnQueues[q] # <<>> /\ TakeFrom(c, q)
      BY <2>5 DEF SelectByPriority, Ready
    <3> QED BY <2>1, <2>2, <2>5, <3>1, <3>2 DEF AccumInv
  <2>6. CASE GoTo(c, "collect") /\ UNCHANGED <<pSelectedTxn, pSingleStep, aTxnQueues, pAggregQueue>>
    BY <2>1, <2>6 DEF AccumInv, HomeInv, Homed, QueueOf
  <2> QED BY <1>1, <2>3, <2>4, <2>5, <2>6 DEF SelectTxn
<1>2. CASE Send(c)
  <2>1. HomeInv'
    BY <1>2 DEF Send, HomeInv, Homed, QueueOf, funcVars
  <2>2. \A d \in Ctx : pc'[d] # "send"
    BY <1>2 DEF Send, BusyInv, SchedulerNotReentered
  <2>3. accum' # NoQueue => pAggregQueue' = accum'
    BY <1>2 DEF Send, AccumInv, funcVars
  <2> QED BY <2>1, <2>2, <2>3 DEF AccumInv
<1>3. CASE Scheduler(c) /\ ~SelectTxn(c) /\ ~Send(c)
  <2>1. /\ UNCHANGED <<aTxnQueues, pSingleStep, pAggregQueue, accum>>
        /\ pc[c] # "send" /\ pc'[c] # "send"
        /\ \A d \in Ctx \ {c} : pc'[d] = pc[d] /\ pSelectedTxn'[d] = pSelectedTxn[d]
    <3> USE <1>3 DEF funcVars, flagVars, busVars, callVars, selVars
    <3>1. CASE EnterScheduler(c)
      BY <3>1 DEF EnterScheduler, Return
    <3>2. CASE TestBus(c) \/ EnqueueDone(c) \/ Report(c)
      BY <3>2 DEF TestBus, EnqueueDone, Report
    <3>3. CASE Sent(c)
      BY <3>3 DEF Sent
    <3>4. CASE Collect(c)
      BY <3>4 DEF Collect
    <3>5. CASE ExitScheduler(c)
      BY <3>5 DEF ExitScheduler, Return
    <3> QED BY <3>1, <3>2, <3>3, <3>4, <3>5 DEF Scheduler
  <2> QED BY <2>1 DEF HomeInv, Homed, AccumInv, QueueOf
<1> QED BY <1>1, <1>2, <1>3

\* txnQ_TxnDoneCb does not select; a restart it completes only empties queues.
LEMMA TxnDoneAggreg ==
  ASSUME AInv, TxnDoneCb \/ (\E t \in Txn : BusDone(t))
  PROVE  HomeInv' /\ AccumInv'
<1> USE TxnAssumption DEF AInv, IInv, TypeOK, Ctx, Pc, GoTo, funcVars, flagVars, busVars,
    callVars, selVars
<1>1. /\ UNCHANGED <<pAggregQueue, accum>>
      /\ pc["TxnDone"] # "send" /\ pc'["TxnDone"] # "send"
      /\ pc'["Driver"] = pc["Driver"] /\ pSelectedTxn'["Driver"] = pSelectedTxn["Driver"]
  <2>1. ASSUME NEW t \in Txn, BusDone(t) PROVE <1>1!:
    BY <2>1 DEF BusDone
  <2>2. CASE TestRestart \/ DoneRecovery \/ DoneEnqueue
    BY <2>2 DEF TestRestart, DoneRecovery, DoneEnqueue
  <2>3. CASE DoneClear
    BY <2>3 DEF DoneClear, ClearQueues
  <2>4. CASE DoneRelease
    BY <2>4 DEF DoneRelease, CallScheduler
  <2> QED BY <2>1, <2>2, <2>3, <2>4 DEF TxnDoneCb
<1>2. HomeInv'
  <2>1. CASE DoneClear
    <3>1. FuncOf[pSelectedTxn["TxnDone"]] \in Func
      BY <2>1 DEF DoneClear, HeldInv, DonePc
    <3> QED BY <2>1, <3>1, ClearHome DEF DoneClear
  <2>2. CASE ~DoneClear
    <3>1. UNCHANGED <<aTxnQueues, pSingleStep>>
      BY <2>2 DEF TxnDoneCb, TestRestart, DoneRecovery, DoneEnqueue, DoneRelease, BusDone
    <3> QED BY <3>1 DEF HomeInv, Homed, QueueOf
  <2> QED BY <2>1, <2>2
<1> QED BY <1>1, <1>2 DEF AccumInv, QueueOf

\* AInv is an inductive invariant of the transaction queue.
LEMMA AggregInvariant == Spec => []AInv
<1>1. Init => HomeInv /\ AccumInv
  BY DEF Init, HomeInv, Homed, AccumInv, Ctx
<1>2. AInv /\ [Next]_vars => (HomeInv /\ AccumInv)'
  <2> SUFFICES ASSUME AInv, [Next]_vars PROVE HomeInv' /\ AccumInv'
    OBVIOUS
  <2>1. CASE UNCHANGED vars
    BY <2>1 DEF vars, AInv, HomeInv, Homed, AccumInv, QueueOf
  <2> QED BY <2>1, ClientAggreg, SchedulerAggreg, TxnDoneAggreg DEF Next
<1> QED BY <1>1, <1>2, InductiveInvariant, PTL DEF Spec, AInv

\* No transaction of another queue and no ELP write gets into the bytes of an
\* aggregated burst, whatever restarts, stops and scheduler calls intervene.
THEOREM AggregationKeptTogether == Spec => []AggregationNotMixed
<1>1. AInv => AggregationNotMixed
  BY DEF AInv, AccumInv, AggregationNotMixed
<1> QED BY <1>1, AggregInvariant, PTL

-----------------------------------------------------------------------------
(* Who looks after the work. *)

\* The flags tell where the contexts are, and pCurrTxn why it is set.
FlagInv ==
  /\ bSchedulerBusy => \E c \in Ctx : pc[c] \in SchedPc
  /\ bSchedulerPend => bSchedulerBusy
  /\ pCurrTxn # NoTxn => \/ bus # {} \/ pc["TxnDone"] \in DonePc
                         \/ \E c \in Ctx : pc[c] = "sent" /\ eStatus[c] # "PENDING"

\* The completion of a transaction will run the scheduler.
Completing == bus # {} \/ pc["TxnDone"] \in DonePc

\* A context is about to select, or will be asked to.
WillSelect(c) ==
  \/ pc[c] \in {"run", "sched", "select", "send", "enqueue"}
  \/ pc[c] = "sent" /\ eStatus[c] # "PENDING"
  \/ pc[c] \in SchedPc /\ bSchedulerPend

WillCollect(c) == WillSelect(c) \/ pc[c] \in {"sent", "collect", "report"}

WorkInv ==
  /\ Sendable => Completing \/ \E c \in Ctx : WillSelect(c)
  /\ hTxnDoneQueue # <<>> => Completing \/ \E c \in Ctx : WillCollect(c)

WInv == IInv /\ FlagInv /\ WorkInv

\* An aggregation, a single step or a ready queue that is there after a step that
\* only stops and empties queues was there before it.
LEMMA QuieterSendable ==
  ASSUME TypeOK, UNCHANGED pAggregQueue,
         \A q \in Queue : aTxnQueues'[q] # <<>> => aTxnQueues[q] # <<>>,
         \A f \in Func : pSingleStep'[f] # NoTxn => pSingleStep[f] # NoTxn,
         \A q \in Queue : Ready(q)' => Ready(q)
  PROVE  Sendable' => Sendable
BY DEF TypeOK, Sendable

\* The functional driver's calls either give the scheduler nothing to do, or
\* call it.
LEMMA ClientWork ==
  ASSUME WInv, Client \/ RestartClear \/ (\E f \in Func : RestartTimeout(f) \/ StopTimer(f))
  PROVE  FlagInv' /\ WorkInv'
<1> USE DEF WInv, IInv
<1> DEFINE Aloof == /\ UNCHANGED <<bSchedulerBusy, bSchedulerPend, pCurrTxn, bus, eStatus, hTxnDoneQueue>>
                    /\ pc'["TxnDone"] = pc["TxnDone"]
                    /\ pc["Driver"] \in {"idle", "restart"}
           Quieter == Aloof /\ pc'["Driver"] \in {"idle", "restart"} /\ (Sendable' => Sendable)
           Calls == Aloof /\ pc'["Driver"] = "run"
<1>1. Quieter \/ Calls
  <2> USE DEF TypeOK, Ctx, funcVars, flagVars, busVars, callVars, selVars, ClientMayCall
  <2>1. ASSUME NEW f \in Func, Open(f) \/ Close(f) PROVE Quieter
    <3>1. \A q \in Queue : aTxnQueues'[q] # <<>> => aTxnQueues[q] # <<>> /\ eState'[q[1]] = eState[q[1]]
      BY <2>1 DEF Open, Close, Queue
    <3>2. Sendable' => Sendable
      BY <2>1, <3>1, QuieterSendable DEF Open, Close, Ready
    <3> QED BY <2>1, <3>2 DEF Open, Close
  <2>2. ASSUME NEW f \in Func, Stop(f) \/ StopTimer(f) PROVE Quieter
    <3>1. \A q \in Queue : Ready(q)' => Ready(q)
      BY <2>2 DEF Stop, StopTimer, Ready, Queue
    <3>2. Sendable' => Sendable
      BY <2>2, <3>1, QuieterSendable DEF Stop, StopTimer
    <3> QED BY <2>2, <3>2 DEF Stop, StopTimer
  <2>3. ASSUME NEW f \in Func, Restart(f) PROVE Quieter
    <3>1. \A q \in Queue : Ready(q)' => Ready(q)
      BY <2>3 DEF Restart, RestartPending, RestartNow, Ready, Queue
    <3>2. Sendable' => Sendable
      BY <2>3, <3>1, QuieterSendable DEF Restart
    <3> QED BY <2>3, <3>2 DEF Restart, RestartPending, RestartNow, GoTo
  <2>4. ASSUME NEW f \in Func, ClearQueues(f) PROVE Sendable' => Sendable
    <3>1. \A q \in Queue : aTxnQueues'[q] # <<>> => aTxnQueues[q] # <<>> /\ eState'[q[1]] = eState[q[1]]
      BY <2>4 DEF ClearQueues, QueuesOf, StateAfterClear, Queue
    <3>2. \A g \in Func : pSingleStep'[g] # NoTxn => pSingleStep[g] # NoTxn
      BY <2>4 DEF ClearQueues
    <3> QED BY <2>4, <3>1, <3>2, QuieterSendable DEF ClearQueues, Ready
  <2>5. CASE RestartClear
    BY <2>4, <2>5 DEF RestartClear, GoTo
  <2>6. ASSUME NEW f \in Func, RestartTimeout(f) PROVE Quieter
    BY <2>4, <2>6 DEF RestartTimeout
  <2>7. CASE ConnectBus
    BY <2>7 DEF ConnectBus, Sendable, Ready
  <2>8. ASSUME NEW f \in Func, Run(f) PROVE Calls
    BY <2>8 DEF Run, CallScheduler, GoTo
  <2>9. ASSUME NEW t \in Txn, Transact(t) PROVE Calls
    BY <2>9 DEF Transact, CallScheduler, GoTo
  <2> QED BY <2>1, <2>2, <2>3, <2>5, <2>6, <2>7, <2>8, <2>9 DEF Client
<1>2. FlagInv'
  BY <1>1 DEF FlagInv, Ctx, SchedPc, DonePc
<1>3. CASE Quieter
  BY <1>2, <1>3 DEF WorkInv, Completing, WillCollect, WillSelect, Ctx, SchedPc
<1>4. CASE Calls
  BY <1>2, <1>4 DEF WorkInv, WillCollect, WillSelect, Ctx
<1> QED BY <1>1, <1>2, <1>3, <1>4

\* A context leaves the scheduler only when there is nothing to select or to
\* collect, when a completion will call it again, or when another context is at
\* its door.
LEMMA SchedulerWork ==
  ASSUME WInv, NEW c \in Ctx, Scheduler(c)
  PROVE  FlagInv' /\ WorkInv'
<1> USE DEF WInv, IInv, GoTo, funcVars, flagVars, busVars, callVars, selVars,
        Reentered, BusOccupied, RunAgain
<1> DEFINE Others == \A d \in Ctx \ {c} : pc'[d] = pc[d] /\ eStatus'[d] = eStatus[d]
<1>0. \A d \in Ctx \ {c} : pc[c] \in SchedPc => pc[d] \notin SchedPc
  BY DEF BusyInv, SchedulerNotReentered, Ctx
<1>1. ASSUME UNCHANGED funcVars PROVE Sendable' <=> Sendable
  BY <1>1 DEF Sendable, Ready
<1>2. CASE EnterScheduler(c)
  <2>1. /\ Others /\ UNCHANGED <<funcVars, hTxnDoneQueue, pCurrTxn, bus, eStatus>> /\ pc[c] = "run"
    BY <1>2 DEF EnterScheduler, Return, TypeOK
  <2>2. CASE bSchedulerBusy
    <3>1. bSchedulerPend' /\ bSchedulerBusy' /\ pc'[c] = "idle"
      BY <1>2, <2>2 DEF EnterScheduler, Return, TypeOK
    <3>2. PICK d \in Ctx \ {c} : pc[d] \in SchedPc
      BY <2>1, <2>2 DEF FlagInv, SchedPc
    <3> QED BY <2>1, <2>2, <3>1, <3>2 DEF FlagInv, WorkInv, WillSelect, WillCollect, DonePc, Ctx
  <2>3. CASE ~bSchedulerBusy
    <3>1. UNCHANGED bSchedulerPend /\ bSchedulerBusy' /\ pc'[c] = "sched"
      BY <1>2, <2>3 DEF EnterScheduler, TypeOK
    <3> QED BY <2>1, <2>3, <3>1 DEF FlagInv, WorkInv, WillSelect, WillCollect, SchedPc, DonePc, Ctx
  <2> QED BY <2>2, <2>3
<1>3. CASE TestBus(c)
  <2>1. /\ Others /\ UNCHANGED <<flagVars, hTxnDoneQueue, pCurrTxn, bus, eStatus>> /\ (Sendable' <=> Sendable)
        /\ pc[c] = "sched" /\ pc'[c] = IF pCurrTxn # NoTxn THEN "exit" ELSE "select"
    BY <1>1, <1>3 DEF TestBus, TypeOK
  <2>2. FlagInv'
    BY <2>1 DEF FlagInv, SchedPc, DonePc, Ctx
  <2>3. CASE pCurrTxn # NoTxn
    <3>1. Completing
      BY <1>0, <2>1, <2>3 DEF FlagInv, Completing, SchedPc
    <3>2. Completing'
      BY <2>1, <3>1 DEF Completing, DonePc, Ctx
    <3> QED BY <2>2, <3>2 DEF WorkInv
  <2>4. CASE pCurrTxn = NoTxn
    BY <2>1, <2>2, <2>4 DEF WorkInv, WillSelect, WillCollect
  <2> QED BY <2>2, <2>3, <2>4
<1>4. CASE SelectTxn(c)
  <2>1. /\ Others /\ UNCHANGED <<flagVars, hTxnDoneQueue, pCurrTxn, bus, eStatus>> /\ pc[c] = "select"
        /\ \/ pc'[c] = "send"
           \/ pc'[c] = "collect" /\ ~Sendable /\ UNCHANGED funcVars
    BY <1>4 DEF SelectTxn, TypeOK
  <2>2. FlagInv'
    BY <2>1 DEF FlagInv, SchedPc, DonePc, Ctx
  <2>3. WorkInv'
    BY <1>1, <2>1 DEF WorkInv, WillSelect, WillCollect
  <2> QED BY <2>2, <2>3
<1>5. CASE Send(c)
  <2>1. /\ Others /\ UNCHANGED <<flagVars, hTxnDoneQueue>> /\ (Sendable' <=> Sendable)
        /\ pc[c] = "send" /\ pc'[c] = "sent" /\ (eStatus'[c] = "PENDING" => bus' # {})
    BY <1>1, <1>5 DEF Send, TypeOK
  <2>2. FlagInv'
    BY <2>1 DEF FlagInv, SchedPc
  <2>3. WorkInv'
    BY <2>1 DEF WorkInv, WillSelect, WillCollect, Completing
  <2> QED BY <2>2, <2>3
<1>6. CASE Sent(c)
  <2>1. /\ \A d \in Ctx \ {c} : pc'[d] = pc[d] /\ eStatus'[d] = eStatus[d]
        /\ UNCHANGED <<flagVars, hTxnDoneQueue, bus>> /\ (Sendable' <=> Sendable)
        /\ pc[c] = "sent"
        /\ \/ eStatus[c] = "PENDING" /\ pc'[c] = "collect" /\ UNCHANGED pCurrTxn
           \/ eStatus[c] # "PENDING" /\ pc'[c] \in {"select", "enqueue"} /\ pCurrTxn' = NoTxn
    BY <1>1, <1>6 DEF Sent, TypeOK
  <2>2. FlagInv'
    BY <1>0, <2>1 DEF FlagInv, SchedPc, DonePc, Ctx
  <2>3. WorkInv'
    BY <2>1 DEF WorkInv, WillSelect, WillCollect, Completing, SchedPc, DonePc, Ctx
  <2> QED BY <2>2, <2>3
<1>7. CASE EnqueueDone(c)
  <2>1. /\ Others /\ UNCHANGED <<flagVars, pCurrTxn, bus, eStatus>> /\ (Sendable' <=> Sendable)
        /\ pc[c] = "enqueue" /\ pc'[c] = "select"
    BY <1>1, <1>7 DEF EnqueueDone, TypeOK
  <2>2. FlagInv'
    BY <2>1 DEF FlagInv, SchedPc, DonePc, Ctx
  <2> QED BY <2>1, <2>2 DEF WorkInv, WillSelect, WillCollect
<1>8. CASE Collect(c)
  <2>1. /\ Others /\ UNCHANGED <<flagVars, pCurrTxn, bus, eStatus>> /\ (Sendable' <=> Sendable)
        /\ pc[c] = "collect"
        /\ \/ pc'[c] = "exit" /\ hTxnDoneQueue' = <<>>
           \/ pc'[c] = "report"
    BY <1>1, <1>8 DEF Collect, TypeOK
  <2>2. FlagInv'
    BY <2>1 DEF FlagInv, SchedPc, DonePc, Ctx
  <2>3. WorkInv'
    BY <2>1 DEF WorkInv, WillSelect, WillCollect, Completing, SchedPc, DonePc, Ctx
  <2> QED BY <2>2, <2>3
<1>9. CASE Report(c)
  <2>1. /\ Others /\ UNCHANGED <<flagVars, pCurrTxn, bus, eStatus, hTxnDoneQueue>> /\ (Sendable' <=> Sendable)
        /\ pc[c] = "report" /\ pc'[c] = "collect"
    BY <1>1, <1>9 DEF Report, TypeOK
  <2>2. FlagInv'
    BY <2>1 DEF FlagInv, SchedPc, DonePc, Ctx
  <2>3. WorkInv'
    BY <2>1 DEF WorkInv, WillSelect, WillCollect, Completing, SchedPc, DonePc, Ctx
  <2> QED BY <2>2, <2>3
<1>10. CASE ExitScheduler(c)
  <2>1. /\ Others /\ UNCHANGED <<pCurrTxn, bus, eStatus, hTxnDoneQueue>> /\ (Sendable' <=> Sendable)
        /\ pc[c] = "exit"
    BY <1>1, <1>10 DEF ExitScheduler, Return, TypeOK
  <2>2. CASE bSchedulerPend
    <3>1. pc'[c] = "sched" /\ bSchedulerPend' = FALSE /\ UNCHANGED bSchedulerBusy
      BY <1>10, <2>2 DEF ExitScheduler, TypeOK
    <3> QED BY <2>1, <3>1 DEF FlagInv, WorkInv, WillSelect, WillCollect, SchedPc, DonePc, Ctx
  <2>3. CASE ~bSchedulerPend
    <3>1. pc'[c] = "idle" /\ UNCHANGED bSchedulerPend /\ bSchedulerBusy' = FALSE
      BY <1>10, <2>3 DEF ExitScheduler, Return, TypeOK
    <3>2. FlagInv'
      BY <2>1, <2>3, <3>1 DEF FlagInv, SchedPc, DonePc, Ctx
    <3>3. WorkInv'
      BY <1>0, <2>1, <2>3, <3>1 DEF WorkInv, WillSelect, WillCollect, Completing, SchedPc,
          DonePc, Ctx
    <3> QED BY <3>2, <3>3
  <2> QED BY <2>2, <2>3
<1> QED BY <1>2, <1>3, <1>4, <1>5, <1>6, <1>7, <1>8, <1>9, <1>10 DEF Scheduler

\* txnQ_TxnDoneCb ends with a call of the scheduler.
LEMMA TxnDoneWork ==
  ASSUME WInv, TxnDoneCb \/ (\E t \in Txn : BusDone(t))
  PROVE  FlagInv' /\ WorkInv'
<1> USE DEF WInv, IInv, TypeOK, Ctx, GoTo, funcVars, flagVars, busVars, callVars, selVars
<1>1. /\ UNCHANGED flagVars /\ pc["TxnDone"] \notin SchedPc
      /\ pc'["Driver"] = pc["Driver"] /\ eStatus'["Driver"] = eStatus["Driver"]
      /\ \/ pc'["TxnDone"] \in DonePc
         \/ pc'["TxnDone"] = "run" /\ pCurrTxn' = NoTxn
  <2> USE DEF DonePc, SchedPc
  <2>1. ASSUME NEW t \in Txn, BusDone(t) PROVE <1>1!:
    BY <2>1 DEF BusDone
  <2>2. CASE TestRestart
    BY <2>2 DEF TestRestart
  <2>3. CASE DoneClear
    BY <2>3 DEF DoneClear
  <2>4. CASE DoneRecovery \/ DoneEnqueue
    BY <2>4 DEF DoneRecovery, DoneEnqueue
  <2>5. CASE DoneRelease
    BY <2>5 DEF DoneRelease, CallScheduler
  <2> QED BY <2>1, <2>2, <2>3, <2>4, <2>5 DEF TxnDoneCb
<1>2. FlagInv'
  BY <1>1 DEF FlagInv, SchedPc, DonePc
<1>3. WorkInv'
  BY <1>1 DEF WorkInv, Completing, WillSelect, WillCollect
<1> QED BY <1>2, <1>3

\* No scheduler call is lost: whenever both contexts are idle and the bus is free,
\* there is nothing to send or to report, and the flags let the next call in.
THEOREM NoCallLost == Spec => []NoWorkLeftBehind
<1>1. Init => FlagInv /\ WorkInv
  <2> SUFFICES ASSUME Init PROVE FlagInv /\ WorkInv
    OBVIOUS
  <2>1. ~Sendable
    BY DEF Init, Sendable, Ready
  <2> QED BY <2>1 DEF Init, FlagInv, WorkInv, Ctx
<1>2. WInv /\ [Next]_vars => (FlagInv /\ WorkInv)'
  <2> SUFFICES ASSUME WInv, [Next]_vars PROVE FlagInv' /\ WorkInv'
    OBVIOUS
  <2>1. CASE UNCHANGED vars
    BY <2>1 DEF vars, WInv, FlagInv, WorkInv, Completing, WillSelect, WillCollect, Sendable, Ready
  <2> QED BY <2>1, ClientWork, SchedulerWork, TxnDoneWork DEF Next
<1>3. WInv => NoWorkLeftBehind
  BY DEF WInv, IInv, FlagInv, WorkInv, Completing, WillSelect, WillCollect, NoWorkLeftBehind,
      AllIdle,
      Ctx, SchedPc, DonePc
<1> QED BY <1>1, <1>2, <1>3, InductiveInvariant, PTL DEF Spec, WInv

-----------------------------------------------------------------------------
(* The places of a transaction. *)

Has(que, t) == \E i \in 1 .. Len(que) : que[i] = t
Distinct(que) == \A i, j \in 1 .. Len(que) : que[i] = que[j] => i = j

InQueue(t) == Has(aTxnQueues[QueueOf(t)], t)
InDone(t) == Has(hTxnDoneQueue, t)

\* A context has the transaction in hand.
Held(c, t) ==
  /\ pSelectedTxn[c] = t
  /\ \/ pc[c] \in {"send", "enqueue", "report", "txndone", "clear", "recovery", "completed"}
     \/ pc[c] = "sent" /\ eStatus[c] # "PENDING"

\* The caller will get it back as the result of its call.
Returning(t) == pInputTxn["Driver"] = t /\ rc["Driver"] # "PENDING"

\* The queue owns a transaction as long as it is somewhere, and that is one place.
Placed(t) ==
  /\ owner[t] = "txnq" <=>
       InQueue(t) \/ InDone(t) \/ t \in bus \/ (\E c \in Ctx : Held(c, t)) \/ Returning(t)
  /\ InQueue(t) => ~InDone(t) /\ t \notin bus /\ ~Returning(t)
  /\ InDone(t) => t \notin bus /\ ~Returning(t)
  /\ t \in bus => ~Returning(t)
  /\ \A c \in Ctx : Held(c, t) =>
       ~InQueue(t) /\ ~InDone(t) /\ t \notin bus /\ ~Returning(t) /\ \A d \in Ctx : Held(d, t) => d = c

PlacedInv == \A t \in Txn \ SingleStep : Placed(t)

\* No queue links a transaction twice, and a function that is not open has none.
DistinctInv ==
  /\ Distinct(hTxnDoneQueue) /\ \A q \in Queue : Distinct(aTxnQueues[q])
  /\ \A q \in Queue : eState[q[1]] = "NONE" => aTxnQueues[q] = <<>>

\* Only the driver's context has an argument, until its call returns, and its
\* result is open until the argument was sent.
InputInv ==
  /\ pInputTxn["TxnDone"] = NoTxn
  /\ pc["Driver"] \in {"idle", "restart"} => pInputTxn["Driver"] = NoTxn
  /\ pc["Driver"] = "run" => rc["Driver"] = "PENDING"
  /\ pc["Driver"] = "sent" /\ pSelectedTxn["Driver"] \notin SingleStep
     /\ pSelectedTxn["Driver"] = pInputTxn["Driver"] => rc["Driver"] = "PENDING"

PInv == IInv /\ HomeInv /\ PlacedInv /\ DistinctInv /\ InputInv

\* The members of an empty queue, of a longer one and of its rest.
LEMMA Emptied == Distinct(<<>>) /\ \A t : ~Has(<<>>, t)
BY DEF Has, Distinct

\* Appending a new member adds just that one, and no duplicate.
LEMMA Appended ==
  ASSUME NEW S, NEW que \in Seq(S), NEW x \in S, Distinct(que), ~Has(que, x)
  PROVE  /\ Distinct(Append(que, x))
         /\ \A t : Has(Append(que, x), t) <=> Has(que, t) \/ t = x
<1> DEFINE a == Append(que, x)
<1>1. Len(a) = Len(que) + 1 /\ a[Len(a)] = x /\ \A i \in 1 .. Len(que) : a[i] = que[i]
  OBVIOUS
<1>2. \A i \in 1 .. Len(a) : i \in 1 .. Len(que) \/ i = Len(a)
  BY <1>1
<1>3. Len(a) \in 1 .. Len(a) /\ 1 .. Len(que) \subseteq 1 .. Len(a)
  BY <1>1
<1> HIDE DEF a
<1>4. ASSUME NEW t PROVE Has(a, t) <=> Has(que, t) \/ t = x
  BY <1>1, <1>2, <1>3 DEF Has
<1>5. Distinct(a)
  BY <1>1, <1>2, <1>3 DEF Has, Distinct
<1> QED BY <1>4, <1>5 DEF a

\* The rest of a queue without duplicates has all members but the head.
LEMMA Headless ==
  ASSUME NEW S, NEW que \in Seq(S), que # <<>>, Distinct(que)
  PROVE  /\ Head(que) \in S /\ Has(que, Head(que)) /\ Distinct(Tail(que))
         /\ \A t : Has(Tail(que), t) <=> Has(que, t) /\ t # Head(que)
<1> DEFINE r == Tail(que)
<1>1. Len(que) \in Nat /\ Len(que) >= 1 /\ Len(r) = Len(que) - 1 /\ Head(que) = que[1]
  OBVIOUS
<1>2. \A i \in 1 .. Len(r) : r[i] = que[i + 1] /\ i + 1 \in 1 .. Len(que)
  BY <1>1
<1>3. Head(que) \in S /\ 1 \in 1 .. Len(que)
  BY <1>1
<1>4. \A i \in 1 .. Len(que) : i = 1 \/ (i - 1 \in 1 .. Len(r) /\ que[i] = r[i - 1])
  BY <1>1, <1>2
<1>5. \A i, j \in 1 .. Len(r) : i + 1 # 1 /\ (i + 1 = j + 1 => i = j)
  BY <1>1
<1> HIDE DEF r
<1>6. Has(que, Head(que))
  BY <1>1, <1>3 DEF Has
<1>7. Distinct(r)
  BY <1>2, <1>5 DEF Distinct
<1>8. ASSUME NEW t, Has(r, t) PROVE Has(que, t) /\ t # Head(que)
  <2>1. PICK i \in 1 .. Len(r) : r[i] = t
    BY <1>8 DEF Has
  <2>2. que[i + 1] = t /\ i + 1 \in 1 .. Len(que) /\ i + 1 # 1
    BY <2>1, <1>2, <1>5
  <2>3. t # que[1]
    BY <2>2, <1>3 DEF Distinct
  <2> QED BY <2>2, <2>3, <1>1 DEF Has
<1>9. ASSUME NEW t, Has(que, t), t # Head(que) PROVE Has(r, t)
  <2>1. PICK i \in 1 .. Len(que) : que[i] = t
    BY <1>9 DEF Has
  <2>2. i # 1
    BY <2>1, <1>9, <1>1
  <2> QED BY <2>1, <2>2, <1>4 DEF Has
<1> QED BY <1>3, <1>6, <1>7, <1>8, <1>9 DEF r

\* A regular transaction that waits nowhere is linked nowhere, so que_Enqueue
\* takes it.
LEMMA Unlinked ==
  ASSUME TypeOK, HomeInv, NEW t \in Txn \ SingleStep, ~InQueue(t), ~InDone(t)
  PROVE  \A que : que_Enqueue(que, t) = Append(que, t)
<1>1. \A q \in Queue : \A i \in 1 .. Len(aTxnQueues[q]) : aTxnQueues[q][i] # t
  BY DEF HomeInv, Homed, InQueue, Has
<1> QED BY <1>1 DEF que_Enqueue, Linked, InDone, Has

\* txnQ_Transact links the transaction, in its own queue and only there.
LEMMA Accepted ==
  ASSUME TypeOK, HomeInv, DistinctInv, NEW t \in Txn \ SingleStep, ~InQueue(t), ~InDone(t),
         aTxnQueues' = [aTxnQueues EXCEPT ![QueueOf(t)] = que_Enqueue(@, t)]
  PROVE  /\ \A u \in Txn : InQueue(u)' <=> InQueue(u) \/ u = t
         /\ \A q \in Queue : Distinct(aTxnQueues'[q])
         /\ \A q \in Queue \ {QueueOf(t)} : aTxnQueues'[q] = aTxnQueues[q]
<1> USE TxnAssumption DEF TypeOK
<1>1. \A u \in Txn : QueueOf(u)' = QueueOf(u) /\ QueueOf(u) \in Queue
  BY DEF QueueOf, Queue
<1>2. aTxnQueues' = [aTxnQueues EXCEPT ![QueueOf(t)] = Append(aTxnQueues[QueueOf(t)], t)]
  BY Unlinked
<1>3. /\ aTxnQueues'[QueueOf(t)] = Append(aTxnQueues[QueueOf(t)], t)
      /\ \A q \in Queue \ {QueueOf(t)} : aTxnQueues'[q] = aTxnQueues[q]
  BY <1>1, <1>2
<1>4. /\ Distinct(aTxnQueues'[QueueOf(t)])
      /\ \A u : Has(aTxnQueues'[QueueOf(t)], u) <=> Has(aTxnQueues[QueueOf(t)], u) \/ u = t
  <2>1. /\ aTxnQueues[QueueOf(t)] \in Seq(Txn) /\ t \in Txn
        /\ Distinct(aTxnQueues[QueueOf(t)]) /\ ~Has(aTxnQueues[QueueOf(t)], t)
    BY <1>1 DEF DistinctInv, InQueue
  <2>2. /\ Distinct(Append(aTxnQueues[QueueOf(t)], t))
        /\ \A u : Has(Append(aTxnQueues[QueueOf(t)], t), u) <=> Has(aTxnQueues[QueueOf(t)], u) \/ u = t
    BY <2>1, Appended
  <2> QED BY <1>3, <2>2
<1>5. ASSUME NEW u \in Txn PROVE InQueue(u)' <=> InQueue(u) \/ u = t
  <2>1. CASE QueueOf(u) = QueueOf(t)
    BY <1>1, <1>4, <2>1 DEF InQueue
  <2>2. CASE QueueOf(u) # QueueOf(t)
    BY <1>1, <1>3, <2>2 DEF InQueue
  <2> QED BY <2>1, <2>2
<1>6. \A q \in Queue : Distinct(aTxnQueues'[q])
  BY <1>3, <1>4 DEF DistinctInv
<1> QED BY <1>3, <1>5, <1>6

\* txnQ_SelectTxn unlinks the head of the queue it selects, and nothing else.
LEMMA Taken ==
  ASSUME TypeOK, HomeInv, DistinctInv, NEW c \in Ctx, NEW q \in Queue, aTxnQueues[q] # <<>>, TakeFrom(c, q)
  PROVE  /\ Head(aTxnQueues[q]) \in Txn /\ InQueue(Head(aTxnQueues[q]))
         /\ \A t \in Txn : InQueue(t)' <=> InQueue(t) /\ t # Head(aTxnQueues[q])
         /\ \A r \in Queue : Distinct(aTxnQueues'[r])
         /\ \A r \in Queue \ {q} : aTxnQueues'[r] = aTxnQueues[r]
<1> USE TxnAssumption DEF TypeOK
<1> DEFINE h == Head(aTxnQueues[q])
<1>1. /\ aTxnQueues'[q] = Tail(aTxnQueues[q])
      /\ \A r \in Queue \ {q} : aTxnQueues'[r] = aTxnQueues[r]
  BY DEF TakeFrom
<1>2. /\ h \in Txn /\ Has(aTxnQueues[q], h) /\ Distinct(aTxnQueues'[q])
      /\ \A t : Has(aTxnQueues'[q], t) <=> Has(aTxnQueues[q], t) /\ t # h
  BY <1>1, Headless DEF DistinctInv
<1>3. QueueOf(h) = q
  BY DequeueHome DEF HomeInv
<1> HIDE DEF h
<1>4. \A t \in Txn : QueueOf(t)' = QueueOf(t) /\ QueueOf(t) \in Queue
  BY DEF QueueOf, Queue
<1>5. ASSUME NEW t \in Txn, QueueOf(t) = q PROVE InQueue(t)' <=> InQueue(t) /\ t # h
  BY <1>2, <1>4, <1>5 DEF InQueue
<1>6. ASSUME NEW t \in Txn, QueueOf(t) # q PROVE (InQueue(t)' <=> InQueue(t)) /\ t # h
  BY <1>1, <1>3, <1>4, <1>6 DEF InQueue
<1>7. \A r \in Queue : Distinct(aTxnQueues'[r])
  BY <1>1, <1>2 DEF DistinctInv
<1> QED BY <1>1, <1>2, <1>3, <1>5, <1>6, <1>7 DEF InQueue, h

\* A transaction whose spot does not change stays placed.
SameSpot(t) ==
  /\ owner'[t] = owner[t]
  /\ InQueue(t)' <=> InQueue(t)
  /\ InDone(t)' <=> InDone(t)
  /\ t \in bus' <=> t \in bus
  /\ \A c \in Ctx : Held(c, t)' <=> Held(c, t)
  /\ Returning(t)' <=> Returning(t)

\* Its placement is then the same after the step.
LEMMA StaysPlaced ==
  ASSUME NEW t, Placed(t), SameSpot(t)
  PROVE  Placed(t)'
BY DEF Placed, SameSpot

\* Every queue stays without duplicates if the queues are only emptied.
LEMMA StaysDistinct ==
  ASSUME DistinctInv, UNCHANGED hTxnDoneQueue,
         \A q \in Queue : aTxnQueues'[q] = aTxnQueues[q] \/ aTxnQueues'[q] = <<>>,
         \A q \in Queue : eState'[q[1]] = "NONE" => aTxnQueues'[q] = <<>>
  PROVE  DistinctInv'
<1>1. \A q \in Queue : Distinct(aTxnQueues'[q])
  BY Emptied DEF DistinctInv
<1>2. Distinct(hTxnDoneQueue')
  BY DEF DistinctInv
<1> QED BY <1>1, <1>2 DEF DistinctInv, Distinct

\* txnQ_ClearQueues gives back what it drops.
LEMMA ClearPlaced ==
  ASSUME PInv, NEW f \in Func, ClearQueues(f), UNCHANGED <<hTxnDoneQueue, bus>>,
         \A t \in Txn : \A c \in Ctx : Held(c, t)' <=> Held(c, t),
         \A t \in Txn : Returning(t)' <=> Returning(t)
  PROVE  PlacedInv' /\ DistinctInv'
<1> USE DEF PInv
<1>1. DistinctInv'
  <2>1. \A q \in Queue : /\ aTxnQueues'[q] = aTxnQueues[q] \/ aTxnQueues'[q] = <<>>
                         /\ eState'[q[1]] = "NONE" => aTxnQueues'[q] = <<>>
    BY DEF ClearQueues, QueuesOf, StateAfterClear, DistinctInv, IInv, TypeOK, Queue
  <2> QED BY <2>1, StaysDistinct
<1>2. ASSUME NEW t \in Txn \ SingleStep PROVE Placed(t)'
  <2>1. Placed(t) /\ QueueOf(t) \in Queue /\ QueueOf(t)[1] = FuncOf[t] /\ t # NoTxn
    BY TxnAssumption DEF PlacedInv, QueueOf, Queue
  <2>2. pSingleStep[f] # t
    BY TxnAssumption DEF HomeInv
  <2>3. InDone(t)' <=> InDone(t)
    BY DEF InDone, Has
  <2>4. CASE InQueue(t) /\ FuncOf[t] = f
    <3>1. aTxnQueues'[QueueOf(t)] = <<>> /\ owner'[t] = "client"
      BY <2>1, <2>4 DEF ClearQueues, QueuesOf, InQueue, Has
    <3>2. ~InQueue(t)'
      BY <3>1, Emptied DEF InQueue, QueueOf
    <3> QED BY <2>1, <2>3, <2>4, <3>1, <3>2 DEF Placed
  <2>5. CASE ~(InQueue(t) /\ FuncOf[t] = f)
    <3>1. owner'[t] = owner[t]
      <4>1. ASSUME NEW q \in QueuesOf(f), NEW i \in 1 .. Len(aTxnQueues[q]), aTxnQueues[q][i] = t
            PROVE  FALSE
        BY <2>1, <2>5, <4>1 DEF QueuesOf, HomeInv, Homed, InQueue, Has
      <4> QED BY <2>2, <4>1 DEF ClearQueues
    <3>2. InQueue(t)' <=> InQueue(t)
      BY <2>1, <2>5, Emptied DEF ClearQueues, QueuesOf, InQueue, Has, QueueOf
    <3> QED BY <2>1, <2>3, <3>1, <3>2, StaysPlaced DEF SameSpot
  <2> QED BY <2>4, <2>5
<1> QED BY <1>1, <1>2 DEF PlacedInv

\* A context puts the transaction in its hand into the done queue.
LEMMA EnqueuePlaced ==
  ASSUME PInv, NEW c \in Ctx, pSelectedTxn[c] \in Txn,
         pc[c] \in {"enqueue", "completed"}, NEW l, l \in {"select", "release"}, GoTo(c, l),
         hTxnDoneQueue' = que_Enqueue(hTxnDoneQueue, pSelectedTxn[c]),
         UNCHANGED <<aTxnQueues, eState, bus, owner, pSelectedTxn, eStatus, pInputTxn, rc>>
  PROVE  PlacedInv' /\ DistinctInv'
<1> USE DEF PInv, IInv, TypeOK, GoTo
<1> DEFINE s == pSelectedTxn[c]
<1>1. \A t \in Txn : /\ Held(c, t) <=> t = s
                     /\ ~Held(c, t)'
                     /\ \A d \in Ctx \ {c} : Held(d, t)' <=> Held(d, t)
  BY DEF Held
<1>2. /\ Distinct(hTxnDoneQueue')
      /\ \A t \in Txn \ {s} : InDone(t)' <=> InDone(t)
      /\ s \notin SingleStep => ~InDone(s) /\ InDone(s)'
  <2>1. CASE s \in Linked
    <3>1. UNCHANGED hTxnDoneQueue
      BY <2>1 DEF que_Enqueue
    <3>2. s \in SingleStep
      <4>1. s \notin SingleStep => ~InQueue(s) /\ ~InDone(s)
        BY <1>1 DEF PlacedInv, Placed
      <4>2. s \notin SingleStep => s \notin Linked
        BY <4>1 DEF Linked, HomeInv, Homed, InQueue, InDone, Has
      <4> QED BY <2>1, <4>2
    <3> QED BY <3>1, <3>2 DEF DistinctInv, InDone, Has, Distinct
  <2>2. CASE s \notin Linked
    <3>1. hTxnDoneQueue' = Append(hTxnDoneQueue, s) /\ ~Has(hTxnDoneQueue, s)
      BY <2>2 DEF que_Enqueue, Linked, Has
    <3>2. /\ Distinct(Append(hTxnDoneQueue, s))
          /\ \A t : Has(Append(hTxnDoneQueue, s), t) <=> Has(hTxnDoneQueue, t) \/ t = s
      BY <3>1, Appended DEF DistinctInv
    <3> QED BY <3>1, <3>2 DEF InDone, Has
  <2> QED BY <2>1, <2>2
<1>3. DistinctInv'
  BY <1>2 DEF DistinctInv, Distinct
<1>4. \A t \in Txn : (InQueue(t)' <=> InQueue(t)) /\ (Returning(t)' <=> Returning(t))
  BY DEF InQueue, Has, QueueOf, Returning
<1>5. ASSUME NEW t \in Txn \ SingleStep PROVE Placed(t)'
  <2>1. CASE t = s
    <3>1. /\ owner[s] = "txnq" /\ ~InQueue(s) /\ ~InDone(s) /\ s \notin bus /\ ~Returning(s)
          /\ \A d \in Ctx \ {c} : ~Held(d, s)
      BY <1>1, <2>1 DEF Placed, PlacedInv
    <3>2. \A d \in Ctx : ~Held(d, s)'
      BY <1>1, <3>1
    <3> QED BY <1>2, <1>4, <2>1, <3>1, <3>2 DEF Placed
  <2>2. CASE t # s
    BY <1>1, <1>2, <1>4, <2>2, StaysPlaced DEF SameSpot, PlacedInv
  <2> QED BY <2>1, <2>2
<1> QED BY <1>3, <1>5 DEF PlacedInv

\* A context gives the transaction in its hand back to the functional driver.
LEMMA GiveBackPlaced ==
  ASSUME PInv, NEW c \in Ctx, pSelectedTxn[c] \in Txn,
         pc[c] \in {"report", "recovery"}, NEW l, l \in {"collect", "release"}, GoTo(c, l),
         GiveBack(pSelectedTxn[c]),
         UNCHANGED <<aTxnQueues, eState, bus, hTxnDoneQueue, pSelectedTxn, eStatus, pInputTxn, rc>>
  PROVE  PlacedInv' /\ DistinctInv'
<1> USE TxnAssumption DEF PInv, IInv, TypeOK, GoTo
<1> DEFINE s == pSelectedTxn[c]
<1>1. \A t \in Txn : /\ Held(c, t) <=> t = s
                     /\ ~Held(c, t)'
                     /\ \A d \in Ctx \ {c} : Held(d, t)' <=> Held(d, t)
  BY DEF Held
<1>2. owner'[s] = "client" /\ \A t \in Txn \ {s} : owner'[t] = owner[t]
  BY DEF GiveBack
<1>3. DistinctInv'
  BY DEF DistinctInv, Distinct
<1>4. \A t \in Txn : /\ InQueue(t)' <=> InQueue(t)
                     /\ InDone(t)' <=> InDone(t)
                     /\ Returning(t)' <=> Returning(t)
  BY DEF InQueue, InDone, Has, QueueOf, Returning
<1>5. ASSUME NEW t \in Txn \ SingleStep PROVE Placed(t)'
  <2>1. CASE t = s
    <3>1. /\ owner[s] = "txnq" /\ ~InQueue(s) /\ ~InDone(s) /\ s \notin bus /\ ~Returning(s)
          /\ \A d \in Ctx \ {c} : ~Held(d, s)
      BY <1>1, <2>1 DEF Placed, PlacedInv
    <3>2. \A d \in Ctx : ~Held(d, s)'
      BY <1>1, <3>1
    <3> QED BY <1>2, <1>4, <2>1, <3>1, <3>2 DEF Placed
  <2>2. CASE t # s
    BY <1>1, <1>2, <1>4, <2>2, StaysPlaced DEF SameSpot, PlacedInv
  <2> QED BY <2>1, <2>2
<1> QED BY <1>3, <1>5 DEF PlacedInv

\* The functional driver's calls: txnQ_Transact puts a transaction in its queue, a
\* restart takes what it drops back, the others move nothing.
LEMMA ClientPlaced ==
  ASSUME PInv, Client \/ RestartClear \/ (\E f \in Func : RestartTimeout(f) \/ StopTimer(f))
  PROVE  PlacedInv' /\ DistinctInv' /\ InputInv'
<1> USE TxnAssumption DEF PInv, IInv, TypeOK, Ctx, GoTo, funcVars, flagVars, busVars, callVars,
    selVars,
        ClientMayCall
<1>1. /\ pc["Driver"] \in {"idle", "restart"} /\ pc'["Driver"] \in {"idle", "restart", "run"}
      /\ pc'["TxnDone"] = pc["TxnDone"]
      /\ UNCHANGED <<pSelectedTxn, eStatus, bus, hTxnDoneQueue>>
      /\ pInputTxn'["TxnDone"] = pInputTxn["TxnDone"]
      /\ \/ pc'["Driver"] # "run" /\ pInputTxn'["Driver"] = pInputTxn["Driver"]
         \/ pc'["Driver"] = "run" /\ rc'["Driver"] = "PENDING"
  <2>1. ASSUME NEW f \in Func, Open(f) \/ Close(f) \/ Stop(f) \/ RestartTimeout(f) \/ StopTimer(f)
        PROVE  <1>1!:
    BY <2>1 DEF Open, Close, Stop, RestartTimeout, StopTimer
  <2>2. ASSUME NEW f \in Func, Restart(f) PROVE <1>1!:
    BY <2>2 DEF Restart, RestartPending, RestartNow
  <2>3. ASSUME NEW f \in Func, Run(f) PROVE <1>1!:
    BY <2>3 DEF Run, CallScheduler
  <2>4. ASSUME NEW t \in Txn, Transact(t) PROVE <1>1!:
    BY <2>4 DEF Transact, CallScheduler
  <2>5. CASE RestartClear
    BY <2>5 DEF RestartClear
  <2>6. CASE ConnectBus
    BY <2>6 DEF ConnectBus
  <2> QED BY <2>1, <2>2, <2>3, <2>4, <2>5, <2>6 DEF Client
<1>2. InputInv'
  BY <1>1 DEF InputInv
<1>3. /\ \A t \in Txn : \A c \in Ctx : Held(c, t)' <=> Held(c, t)
      /\ \A t \in Txn : ~Returning(t) /\ ~Returning(t)'
      /\ \A t : InDone(t)' <=> InDone(t)
  <2>1. pInputTxn["Driver"] = NoTxn
    BY <1>1 DEF InputInv
  <2> QED BY <1>1, <2>1 DEF Held, Returning, InDone, Has
<1>4. ASSUME UNCHANGED owner, \A t \in Txn \ SingleStep : InQueue(t)' <=> InQueue(t) PROVE PlacedInv'
  BY <1>1, <1>3, <1>4, StaysPlaced DEF PlacedInv, SameSpot
<1>5. ASSUME UNCHANGED <<owner, aTxnQueues>> PROVE PlacedInv'
  BY <1>4, <1>5 DEF InQueue, Has, QueueOf
<1>6. ASSUME NEW f \in Func, Open(f) PROVE PlacedInv' /\ DistinctInv'
  <2>1. aTxnQueues' = aTxnQueues
    BY <1>6 DEF Open, DistinctInv, Queue
  <2>2. UNCHANGED owner /\ \A g \in Func : eState'[g] = "NONE" => eState[g] = "NONE"
    BY <1>6 DEF Open
  <2>3. DistinctInv'
    <3>1. \A q \in Queue : eState'[q[1]] = "NONE" => aTxnQueues'[q] = <<>>
      BY <2>1, <2>2 DEF DistinctInv, Queue
    <3> QED BY <1>1, <2>1, <3>1, StaysDistinct
  <2> QED BY <1>5, <2>1, <2>2, <2>3
<1>7. ASSUME NEW f \in Func, Close(f) PROVE PlacedInv' /\ DistinctInv'
  <2>1. /\ UNCHANGED owner /\ Quiet(f)
        /\ \A q \in Queue : aTxnQueues'[q] = IF q[1] = f THEN <<>> ELSE aTxnQueues[q]
        /\ \A g \in Func : eState'[g] = "NONE" => eState[g] = "NONE" \/ g = f
    BY <1>7 DEF Close
  <2>2. ASSUME NEW t \in Txn \ SingleStep PROVE InQueue(t)' <=> InQueue(t)
    <3>1. QueueOf(t) \in Queue /\ QueueOf(t)[1] = FuncOf[t] /\ Placed(t)
      BY DEF QueueOf, Queue, PlacedInv
    <3>2. FuncOf[t] = f => ~InQueue(t)
      BY <2>1, <3>1 DEF Quiet, Placed
    <3> QED BY <2>1, <3>1, <3>2, Emptied DEF InQueue, QueueOf, Has
  <2>3. DistinctInv'
    <3>1. \A q \in Queue : /\ aTxnQueues'[q] = aTxnQueues[q] \/ aTxnQueues'[q] = <<>>
                           /\ eState'[q[1]] = "NONE" => aTxnQueues'[q] = <<>>
      BY <2>1 DEF DistinctInv, Queue
    <3> QED BY <1>1, <3>1, StaysDistinct
  <2> QED BY <1>4, <2>1, <2>2, <2>3
<1>8. ASSUME UNCHANGED <<owner, aTxnQueues>>, \A g \in Func : eState'[g] = "NONE" => eState[g] = "NONE"
      PROVE  PlacedInv' /\ DistinctInv'
  <2>1. PlacedInv'
    BY <1>5, <1>8
  <2>2. \A q \in Queue : eState'[q[1]] = "NONE" => aTxnQueues'[q] = <<>>
    BY <1>8 DEF DistinctInv, Queue
  <2>3. DistinctInv'
    BY <1>1, <1>8, <2>2, StaysDistinct
  <2> QED BY <2>1, <2>3
<1>9. ASSUME NEW f \in Func, Restart(f) \/ Run(f) \/ Stop(f) \/ StopTimer(f)
      PROVE  PlacedInv' /\ DistinctInv'
  <2>1. UNCHANGED <<owner, aTxnQueues>> /\ \A g \in Func : eState'[g] = "NONE" => eState[g] = "NONE"
    BY <1>9 DEF Restart, RestartPending, RestartNow, Run, Stop, StopTimer
  <2> QED BY <1>8, <2>1
<1>10. CASE ConnectBus
  BY <1>2, <1>8, <1>10 DEF ConnectBus
<1>11. ASSUME NEW t \in Txn, Transact(t) PROVE PlacedInv' /\ DistinctInv'
  <2>1. UNCHANGED eState /\ eState[FuncOf[t]] # "NONE"
    BY <1>11 DEF Transact
  <2>2. CASE TransactSingleStep(t)
    BY <1>8, <2>1, <2>2 DEF TransactSingleStep
  <2>3. CASE TransactRegular(t)
    <3>1. /\ t \in Txn \ SingleStep /\ owner[t] = "client" /\ owner' = [owner EXCEPT ![t] = "txnq"]
          /\ QueueOf(t) \in Queue /\ QueueOf(t)[1] = FuncOf[t]
          /\ aTxnQueues' = [aTxnQueues EXCEPT ![QueueOf(t)] = que_Enqueue(@, t)]
      BY <2>3 DEF TransactRegular, MayTransact, QueueOf, Queue
    <3>2. ~InQueue(t) /\ ~InDone(t) /\ t \notin bus /\ (\A c \in Ctx : ~Held(c, t))
      BY <3>1 DEF PlacedInv, Placed
    <3>3. /\ \A u \in Txn : InQueue(u)' <=> InQueue(u) \/ u = t
          /\ \A q \in Queue : Distinct(aTxnQueues'[q])
          /\ \A q \in Queue \ {QueueOf(t)} : aTxnQueues'[q] = aTxnQueues[q]
      BY <3>1, <3>2, Accepted
    <3>6. DistinctInv'
      <4>1. \A q \in Queue : eState'[q[1]] = "NONE" => aTxnQueues'[q] = <<>>
        BY <2>1, <3>1, <3>3 DEF DistinctInv
      <4> QED BY <1>1, <3>3, <4>1 DEF DistinctInv, Distinct
    <3>9. ASSUME NEW u \in Txn \ SingleStep PROVE Placed(u)'
      <4>1. CASE u = t
        BY <1>1, <1>3, <3>1, <3>2, <3>3, <4>1 DEF Placed
      <4>2. CASE u # t
        BY <1>1, <1>3, <3>1, <3>3, <4>2, StaysPlaced DEF SameSpot, PlacedInv
      <4> QED BY <4>1, <4>2
    <3> QED BY <3>6, <3>9 DEF PlacedInv
  <2> QED BY <1>11, <2>2, <2>3 DEF Transact
<1>12. CASE RestartClear
  BY <1>1, <1>2, <1>3, <1>12, ClearPlaced DEF RestartClear
<1>13. ASSUME NEW f \in Func, RestartTimeout(f) PROVE PlacedInv' /\ DistinctInv'
  BY <1>1, <1>3, <1>13, ClearPlaced DEF RestartTimeout
<1> QED BY <1>2, <1>6, <1>7, <1>9, <1>10, <1>11, <1>12, <1>13 DEF Client

\* The scheduler moves a transaction from its queue to the context's hand, to the
\* bus or on, to the done queue and to the functional driver.
LEMMA SchedulerPlaced ==
  ASSUME PInv, NEW c \in Ctx, Scheduler(c)
  PROVE  PlacedInv' /\ DistinctInv' /\ InputInv'
<1> USE TxnAssumption DEF PInv, IInv, TypeOK, TxnOrNone, Ctx, GoTo, funcVars, flagVars, busVars,
        callVars, selVars, Reentered, BusOccupied, RunAgain
<1>0. \A d \in Ctx \ {c} : pc[c] \in SchedPc => pc[d] \notin SchedPc
  BY DEF BusyInv, SchedulerNotReentered
<1>1. ASSUME UNCHANGED <<aTxnQueues, hTxnDoneQueue, eState>> PROVE DistinctInv'
  BY <1>1 DEF DistinctInv, Distinct
<1>2. ASSUME UNCHANGED aTxnQueues PROVE \A t \in Txn : InQueue(t)' <=> InQueue(t)
  BY <1>2 DEF InQueue, Has, QueueOf
<1>3. ASSUME UNCHANGED hTxnDoneQueue PROVE \A t \in Txn : InDone(t)' <=> InDone(t)
  BY <1>3 DEF InDone, Has
<1>4. CASE EnterScheduler(c) \/ TestBus(c)
  <2>1. /\ UNCHANGED <<aTxnQueues, hTxnDoneQueue, eState, bus, owner, pSelectedTxn, eStatus, rc>>
        /\ pc[c] \in {"run", "sched"} /\ pc'[c] \in {"idle", "sched", "exit", "select"}
        /\ \A d \in Ctx \ {c} : pc'[d] = pc[d] /\ pInputTxn'[d] = pInputTxn[d]
        /\ \/ pInputTxn'[c] = pInputTxn[c] /\ pc'[c] # "idle"
           \/ pInputTxn'[c] = NoTxn /\ pc[c] = "run"
    BY <1>4 DEF EnterScheduler, TestBus, Return
  <2>2. InputInv'
    BY <2>1 DEF InputInv
  <2>3. ASSUME NEW t \in Txn \ SingleStep PROVE Placed(t)'
    <3>1. \A d \in Ctx : Held(d, t)' <=> Held(d, t)
      BY <2>1 DEF Held
    <3>2. Returning(t)' <=> Returning(t)
      BY <2>1 DEF Returning, InputInv
    <3> QED BY <1>2, <1>3, <2>1, <3>1, <3>2, StaysPlaced DEF SameSpot, PlacedInv
  <2> QED BY <1>1, <2>1, <2>2, <2>3 DEF PlacedInv
<1>5. CASE SelectTxn(c)
  <2>1. /\ UNCHANGED <<hTxnDoneQueue, eState, bus, owner, pInputTxn, rc, eStatus>>
        /\ pc[c] = "select" /\ pc'[c] \in {"send", "collect"}
        /\ \A d \in Ctx \ {c} : pc'[d] = pc[d]
    BY <1>5 DEF SelectTxn
  <2>2. InputInv' /\ \A t : Returning(t)' <=> Returning(t)
    BY <1>0, <1>5, <2>1 DEF InputInv, Returning, SchedPc
  <2>3. ASSUME NEW q \in Queue, aTxnQueues[q] # <<>>, TakeFrom(c, q), pc'[c] = "send"
        PROVE  PlacedInv' /\ DistinctInv'
    <3> DEFINE h == Head(aTxnQueues[q])
    <3>1. /\ \A d \in Ctx \ {c} : pSelectedTxn'[d] = pSelectedTxn[d]
          /\ pSelectedTxn'[c] = h
      BY <2>3 DEF TakeFrom
    <3>2. /\ h \in Txn /\ InQueue(h)
          /\ \A t \in Txn : InQueue(t)' <=> InQueue(t) /\ t # h
          /\ \A r \in Queue : Distinct(aTxnQueues'[r])
          /\ \A r \in Queue \ {q} : aTxnQueues'[r] = aTxnQueues[r]
      BY <2>3, Taken
    <3> HIDE DEF h
    <3>4. DistinctInv'
      <4>1. \A r \in Queue : eState'[r[1]] = "NONE" => aTxnQueues'[r] = <<>>
        BY <2>1, <2>3, <3>2 DEF DistinctInv
      <4> QED BY <2>1, <3>2, <4>1 DEF DistinctInv, Distinct
    <3>7. \A t \in Txn : /\ Held(c, t)' <=> t = h
                         /\ ~Held(c, t)
                         /\ \A d \in Ctx \ {c} : Held(d, t)' <=> Held(d, t)
      BY <2>1, <2>3, <3>1 DEF Held
    <3>8. ASSUME NEW t \in Txn \ SingleStep PROVE Placed(t)'
      <4>1. CASE t = h
        BY <1>3, <2>1, <2>2, <3>2, <3>7, <4>1 DEF Placed, PlacedInv
      <4>2. CASE t # h
        BY <1>3, <2>1, <2>2, <3>2, <3>7, <4>2, StaysPlaced DEF SameSpot, PlacedInv
      <4> QED BY <4>1, <4>2
    <3> QED BY <3>4, <3>8 DEF PlacedInv
  <2>4. ASSUME UNCHANGED aTxnQueues, \A t \in Txn \ SingleStep : \A d \in Ctx : Held(d, t)' <=> Held(d, t)
        PROVE  PlacedInv' /\ DistinctInv'
    BY <1>1, <1>2, <1>3, <2>1, <2>2, <2>4, StaysPlaced DEF SameSpot, PlacedInv
  <2>5. CASE SelectAggregated(c) /\ GoTo(c, "send")
    BY <2>2, <2>3, <2>5 DEF SelectAggregated
  <2>6. CASE SelectByPriority(c) /\ GoTo(c, "send")
    BY <2>2, <2>3, <2>6 DEF SelectByPriority, Ready
  <2>7. CASE SelectSingleStep(c) /\ GoTo(c, "send")
    <3>1. /\ UNCHANGED aTxnQueues /\ pSelectedTxn'[c] \in SingleStep
          /\ \A d \in Ctx \ {c} : pSelectedTxn'[d] = pSelectedTxn[d]
      BY <2>7 DEF SelectSingleStep, HomeInv
    <3>2. \A t \in Txn \ SingleStep : \A d \in Ctx : Held(d, t)' <=> Held(d, t)
      BY <2>1, <3>1 DEF Held
    <3> QED BY <2>2, <2>4, <3>1, <3>2
  <2>8. CASE GoTo(c, "collect") /\ UNCHANGED <<pSelectedTxn, pSingleStep, aTxnQueues, pAggregQueue>>
    <3>1. \A t \in Txn \ SingleStep : \A d \in Ctx : Held(d, t)' <=> Held(d, t)
      BY <2>1, <2>8 DEF Held
    <3> QED BY <2>2, <2>4, <2>8, <3>1
  <2> QED BY <1>5, <2>5, <2>6, <2>7, <2>8 DEF SelectTxn
<1>6. CASE Send(c)
  <2> DEFINE s == pSelectedTxn[c]
  <2>1. /\ UNCHANGED <<aTxnQueues, hTxnDoneQueue, eState, owner, pSelectedTxn, pInputTxn, rc>>
        /\ s \in Txn /\ pc[c] = "send" /\ pc'[c] = "sent" /\ bus = {}
        /\ bus' = IF eStatus'[c] = "PENDING" THEN {s} ELSE {}
        /\ \A d \in Ctx \ {c} : pc'[d] = pc[d] /\ eStatus'[d] = eStatus[d]
    <3>1. pc[c] = "send" /\ s \in Txn
      BY <1>6 DEF Send, HeldInv
    <3>2. bus = {}
      BY <3>1 DEF CurrInv
    <3>3. PICK o \in BusOutcome(s) : /\ eStatus' = [eStatus EXCEPT ![c] = o]
                                     /\ bus' = IF o = "PENDING" THEN bus \cup {s} ELSE bus
      BY <1>6 DEF Send
    <3>4. bus' = IF eStatus'[c] = "PENDING" THEN {s} ELSE {}
      BY <3>2, <3>3
    <3> QED BY <1>6, <3>1, <3>2, <3>3, <3>4 DEF Send
  <2>2. Held(c, s) /\ \A t \in Txn : Held(c, t) => t = s
    BY <2>1 DEF Held
  <2>3. \A t \in Txn : /\ Held(c, t)' <=> t = s /\ eStatus'[c] # "PENDING"
                       /\ \A d \in Ctx \ {c} : Held(d, t)' <=> Held(d, t)
    BY <2>1 DEF Held
  <2>4. \A t : Returning(t)' <=> Returning(t)
    BY <2>1 DEF Returning
  <2>5. InputInv'
    <3>1. s \in Txn \ SingleStep => ~Returning(s)
      BY <2>2 DEF PlacedInv, Placed
    <3> QED BY <2>1, <3>1 DEF InputInv, Returning
  <2>6. ASSUME NEW t \in Txn \ SingleStep PROVE Placed(t)'
    <3>1. CASE t = s
      BY <1>2, <1>3, <2>1, <2>2, <2>3, <2>4, <3>1 DEF Placed, PlacedInv
    <3>2. CASE t # s
      BY <1>2, <1>3, <2>1, <2>2, <2>3, <2>4, <3>2, StaysPlaced DEF SameSpot, PlacedInv
    <3> QED BY <3>1, <3>2
  <2> QED BY <1>1, <2>1, <2>5, <2>6 DEF PlacedInv
<1>7. CASE Sent(c)
  <2> DEFINE s == pSelectedTxn[c]
  <2>1. /\ UNCHANGED <<aTxnQueues, hTxnDoneQueue, eState, owner, bus, pSelectedTxn, pInputTxn>>
        /\ s \in Txn /\ pc[c] = "sent"
        /\ pc'[c] = IF eStatus[c] = "PENDING" THEN "collect" ELSE IF IsInput(c) THEN "select" ELSE "enqueue"
        /\ rc'[c] = IF IsInput(c) THEN eStatus[c] ELSE rc[c]
        /\ \A d \in Ctx \ {c} : pc'[d] = pc[d] /\ eStatus'[d] = eStatus[d] /\ rc'[d] = rc[d]
    BY <1>7 DEF Sent, HeldInv
  <2>2. InputInv'
    BY <2>1 DEF InputInv
  <2>3. \A t \in Txn : /\ Held(c, t) <=> t = s /\ eStatus[c] # "PENDING"
                       /\ Held(c, t)' <=> t = s /\ eStatus[c] # "PENDING" /\ ~IsInput(c)
                       /\ \A d \in Ctx \ {c} : Held(d, t)' <=> Held(d, t)
    BY <2>1 DEF Held
  <2>4. IsInput(c) => c = "Driver" /\ pInputTxn["Driver"] = s
    BY <2>1 DEF IsInput, InputInv
  <2>5. \A t \in Txn \ SingleStep :
          Returning(t)' <=> Returning(t) \/ (t = s /\ IsInput(c) /\ eStatus[c] # "PENDING")
    BY <2>1, <2>4 DEF Returning, InputInv
  <2>6. ASSUME NEW t \in Txn \ SingleStep PROVE Placed(t)'
    <3>1. CASE t = s /\ IsInput(c) /\ eStatus[c] # "PENDING"
      BY <1>2, <1>3, <2>1, <2>3, <2>5, <3>1 DEF Placed, PlacedInv
    <3>2. CASE ~(t = s /\ IsInput(c) /\ eStatus[c] # "PENDING")
      BY <1>2, <1>3, <2>1, <2>3, <2>5, <3>2, StaysPlaced DEF SameSpot, PlacedInv
    <3> QED BY <3>1, <3>2
  <2> QED BY <1>1, <2>1, <2>2, <2>6 DEF PlacedInv
<1>8. CASE EnqueueDone(c)
  BY <1>8, EnqueuePlaced, <1>0 DEF EnqueueDone, HeldInv, InputInv, SchedPc
<1>9. CASE Collect(c)
  <2>1. /\ UNCHANGED <<aTxnQueues, eState, owner, bus, pInputTxn, rc, eStatus>>
        /\ pc[c] = "collect" /\ pc'[c] \in {"exit", "report"}
        /\ \A d \in Ctx \ {c} : pc'[d] = pc[d] /\ pSelectedTxn'[d] = pSelectedTxn[d]
    BY <1>9 DEF Collect
  <2>2. InputInv' /\ \A t : Returning(t)' <=> Returning(t)
    BY <2>1 DEF InputInv, Returning
  <2>3. CASE hTxnDoneQueue = <<>>
    <3>1. UNCHANGED hTxnDoneQueue /\ pc'[c] = "exit"
      BY <1>9, <2>3 DEF Collect
    <3>2. \A t \in Txn : \A d \in Ctx : Held(d, t)' <=> Held(d, t)
      BY <2>1, <3>1 DEF Held
    <3>3. PlacedInv'
      BY <1>2, <1>3, <2>1, <2>2, <3>1, <3>2, StaysPlaced DEF SameSpot, PlacedInv
    <3> QED BY <1>1, <2>1, <2>2, <3>1, <3>3
  <2>4. CASE hTxnDoneQueue # <<>>
    <3> DEFINE h == Head(hTxnDoneQueue)
    <3>1. hTxnDoneQueue' = Tail(hTxnDoneQueue) /\ pc'[c] = "report" /\ pSelectedTxn'[c] = h
      BY <1>9, <2>4 DEF Collect
    <3>2. /\ h \in Txn /\ Has(hTxnDoneQueue, h) /\ Distinct(hTxnDoneQueue')
          /\ \A t : Has(hTxnDoneQueue', t) <=> Has(hTxnDoneQueue, t) /\ t # h
      BY <2>4, <3>1, Headless DEF DistinctInv
    <3> HIDE DEF h
    <3>3. DistinctInv'
      BY <2>1, <3>2 DEF DistinctInv, Distinct
    <3>4. InDone(h) /\ \A t : InDone(t)' <=> InDone(t) /\ t # h
      BY <3>2 DEF InDone, Has
    <3>5. \A t \in Txn : /\ Held(c, t)' <=> t = h
                         /\ ~Held(c, t)
                         /\ \A d \in Ctx \ {c} : Held(d, t)' <=> Held(d, t)
      BY <2>1, <3>1 DEF Held
    <3>6. ASSUME NEW t \in Txn \ SingleStep PROVE Placed(t)'
      <4>1. CASE t = h
        BY <1>2, <2>1, <2>2, <3>4, <3>5, <4>1 DEF Placed, PlacedInv
      <4>2. CASE t # h
        BY <1>2, <2>1, <2>2, <3>4, <3>5, <4>2, StaysPlaced DEF SameSpot, PlacedInv
      <4> QED BY <4>1, <4>2
    <3> QED BY <2>2, <3>3, <3>6 DEF PlacedInv
  <2> QED BY <2>3, <2>4
<1>10. CASE Report(c)
  BY <1>10, GiveBackPlaced, <1>0 DEF Report, HeldInv, InputInv, SchedPc
<1>11. CASE ExitScheduler(c)
  <2>1. /\ UNCHANGED <<aTxnQueues, hTxnDoneQueue, eState, bus, pSelectedTxn, eStatus, rc>>
        /\ pc[c] = "exit" /\ pc'[c] \in {"sched", "idle"}
        /\ \A d \in Ctx \ {c} : pc'[d] = pc[d] /\ pInputTxn'[d] = pInputTxn[d]
    BY <1>11 DEF ExitScheduler, Return
  <2>2. \A t \in Txn : \A d \in Ctx : Held(d, t)' <=> Held(d, t)
    BY <2>1 DEF Held
  <2>3. CASE bSchedulerPend
    <3>1. UNCHANGED <<owner, pInputTxn>> /\ pc'[c] = "sched"
      BY <1>11, <2>3 DEF ExitScheduler
    <3>2. InputInv' /\ \A t : Returning(t)' <=> Returning(t)
      BY <2>1, <3>1 DEF InputInv, Returning
    <3>3. PlacedInv'
      BY <1>2, <1>3, <2>1, <2>2, <3>1, <3>2, StaysPlaced DEF SameSpot, PlacedInv
    <3> QED BY <1>1, <2>1, <3>2, <3>3
  <2>4. CASE ~bSchedulerPend
    <3>1. pInputTxn'[c] = NoTxn /\ GiveBack(IF rc[c] = "PENDING" THEN NoTxn ELSE pInputTxn[c])
          /\ pc'[c] = "idle"
      BY <1>11, <2>4 DEF ExitScheduler, Return
    <3>2. InputInv'
      BY <2>1, <3>1 DEF InputInv
    <3>3. ASSUME NEW t \in Txn \ SingleStep PROVE Placed(t)'
      <4>1. CASE c = "Driver" /\ Returning(t)
        <5>1. owner'[t] = "client" /\ ~Returning(t)'
          BY <3>1, <4>1 DEF Returning, GiveBack
        <5> QED BY <1>2, <1>3, <2>1, <2>2, <4>1, <5>1 DEF Placed, PlacedInv
      <4>2. CASE ~(c = "Driver" /\ Returning(t))
        <5>1. owner'[t] = owner[t] /\ (Returning(t)' <=> Returning(t))
          BY <2>1, <3>1, <4>2 DEF Returning, GiveBack, InputInv
        <5> QED BY <1>2, <1>3, <2>1, <2>2, <5>1, StaysPlaced DEF SameSpot, PlacedInv
      <4> QED BY <4>1, <4>2
    <3> QED BY <1>1, <2>1, <3>2, <3>3 DEF PlacedInv
  <2> QED BY <2>3, <2>4
<1> QED BY <1>4, <1>5, <1>6, <1>7, <1>8, <1>9, <1>10, <1>11 DEF Scheduler

\* txnQ_TxnDoneCb takes the transaction from the bus to the done queue, or back
\* to the functional driver.
LEMMA TxnDonePlaced ==
  ASSUME PInv, TxnDoneCb \/ (\E t \in Txn : BusDone(t))
  PROVE  PlacedInv' /\ DistinctInv' /\ InputInv'
<1> USE TxnAssumption DEF PInv, IInv, TypeOK, TxnOrNone, Ctx, GoTo, funcVars, flagVars, busVars,
        callVars, selVars
<1>1. ASSUME UNCHANGED <<aTxnQueues, hTxnDoneQueue, eState>>
      PROVE  DistinctInv' /\ \A t \in Txn : (InQueue(t)' <=> InQueue(t)) /\ (InDone(t)' <=> InDone(t))
  BY <1>1 DEF DistinctInv, Distinct, InQueue, InDone, Has, QueueOf
<1>2. InputInv' /\ \A t \in Txn : (Returning(t)' <=> Returning(t)) /\ (Held("Driver", t)' <=> Held("Driver", t))
  <2>1. /\ UNCHANGED pInputTxn \/ pInputTxn' = [pInputTxn EXCEPT !["TxnDone"] = NoTxn]
        /\ rc'["Driver"] = rc["Driver"] /\ pc'["Driver"] = pc["Driver"]
        /\ pSelectedTxn'["Driver"] = pSelectedTxn["Driver"] /\ eStatus'["Driver"] = eStatus["Driver"]
    <3>1. ASSUME NEW t \in Txn, BusDone(t) PROVE <2>1!:
      BY <3>1 DEF BusDone
    <3>2. CASE TestRestart \/ DoneClear \/ DoneRecovery \/ DoneEnqueue
      BY <3>2 DEF TestRestart, DoneClear, DoneRecovery, DoneEnqueue
    <3>3. CASE DoneRelease
      BY <3>3 DEF DoneRelease, CallScheduler
    <3> QED BY <3>1, <3>2, <3>3 DEF TxnDoneCb
  <2> QED BY <2>1 DEF InputInv, Returning, Held
<1>3. ASSUME NEW t \in Txn, BusDone(t) PROVE PlacedInv' /\ DistinctInv'
  <2>1. /\ UNCHANGED <<aTxnQueues, hTxnDoneQueue, eState, owner>> /\ t \in bus /\ bus' = bus \ {t}
        /\ pc["TxnDone"] = "idle" /\ pc'["TxnDone"] = "txndone" /\ pSelectedTxn'["TxnDone"] = t
    BY <1>3 DEF BusDone
  <2>2. \A u \in Txn : ~Held("TxnDone", u) /\ (Held("TxnDone", u)' <=> u = t)
    BY <2>1 DEF Held
  <2>3. ASSUME NEW u \in Txn \ SingleStep PROVE Placed(u)'
    <3>1. CASE u = t
      BY <1>1, <1>2, <2>1, <2>2, <3>1 DEF Placed, PlacedInv
    <3>2. CASE u # t
      <4>1. \A c \in Ctx : Held(c, u)' <=> Held(c, u)
        BY <1>2, <2>2, <3>2
      <4> QED BY <1>1, <1>2, <2>1, <3>2, <4>1, StaysPlaced DEF SameSpot, PlacedInv
    <3> QED BY <3>1, <3>2
  <2> QED BY <1>1, <2>1, <2>3 DEF PlacedInv
<1>4. CASE TestRestart \/ DoneRelease
  <2>1. /\ UNCHANGED <<aTxnQueues, hTxnDoneQueue, eState, owner, bus>>
        /\ \A u \in Txn : Held("TxnDone", u)' <=> Held("TxnDone", u)
    BY <1>4 DEF TestRestart, DoneRelease, CallScheduler, Held
  <2>2. PlacedInv'
    BY <1>1, <1>2, <2>1, StaysPlaced DEF SameSpot, PlacedInv
  <2> QED BY <1>1, <1>2, <2>1, <2>2
<1>5. CASE DoneClear
  <2>1. FuncOf[pSelectedTxn["TxnDone"]] \in Func /\ UNCHANGED <<hTxnDoneQueue, bus>>
    BY <1>5 DEF DoneClear, HeldInv, DonePc
  <2>2. \A t \in Txn : Held("TxnDone", t)' <=> Held("TxnDone", t)
    BY <1>5 DEF DoneClear, Held
  <2>3. \A t \in Txn : \A c \in Ctx : Held(c, t)' <=> Held(c, t)
    BY <1>2, <2>2
  <2>4. ClearQueues(FuncOf[pSelectedTxn["TxnDone"]])
    BY <1>5 DEF DoneClear
  <2> QED BY <1>2, <2>1, <2>3, <2>4, ClearPlaced
<1>6. CASE DoneRecovery
  BY <1>2, <1>6, GiveBackPlaced DEF DoneRecovery, HeldInv, DonePc
<1>7. CASE DoneEnqueue
  BY <1>2, <1>7, EnqueuePlaced DEF DoneEnqueue, HeldInv, DonePc
<1> QED BY <1>2, <1>3, <1>4, <1>5, <1>6, <1>7 DEF TxnDoneCb

\* The invariant of the places is inductive.
LEMMA PlaceInvariant == Spec => []PInv
<1>1. Init => PlacedInv /\ DistinctInv /\ InputInv
  <2> SUFFICES ASSUME Init PROVE PlacedInv /\ DistinctInv /\ InputInv
    OBVIOUS
  <2>1. DistinctInv
    BY Emptied DEF Init, DistinctInv
  <2>2. ASSUME NEW t \in Txn \ SingleStep PROVE Placed(t)
    <3>1. QueueOf(t) \in Queue
      BY TxnAssumption DEF QueueOf, Queue
    <3>2. ~InQueue(t) /\ ~InDone(t)
      BY <3>1, Emptied DEF Init, InQueue, InDone
    <3> QED BY <3>2, TxnAssumption DEF Init, Placed, Held, Returning, Ctx
  <2> QED BY <2>1, <2>2 DEF Init, PlacedInv, InputInv, Ctx
<1>2. PInv /\ [Next]_vars => (PlacedInv /\ DistinctInv /\ InputInv)'
  <2> SUFFICES ASSUME PInv, [Next]_vars PROVE PlacedInv' /\ DistinctInv' /\ InputInv'
    OBVIOUS
  <2>1. CASE UNCHANGED vars
    BY <2>1 DEF vars, PInv, PlacedInv, Placed, InQueue, InDone, Held, Returning, Has, QueueOf,
        DistinctInv, Distinct, InputInv
  <2> QED BY <2>1, ClientPlaced, SchedulerPlaced, TxnDonePlaced DEF Next
<1> QED BY <1>1, <1>2, AggregInvariant, PTL DEF Spec, PInv, AInv

\* Nothing is lost and nothing is duplicated: whatever the two contexts do, a
\* transaction that the queue owns is in exactly one place, and one that the
\* functional driver owns is in none.
THEOREM NothingLost == Spec => []NothingLostOrDuplicated
<1>1. PInv => NothingLostOrDuplicated
  <2> SUFFICES ASSUME PInv, NEW t \in Txn \ SingleStep
               PROVE  IF owner[t] = "client" THEN Places(t) = {}
                      ELSE \E p \in Places(t) : Places(t) = {p}
    BY DEF NothingLostOrDuplicated
  <2> DEFINE Q == {<<"queue", q, i>> :
                     q \in {r \in Queue : \E j \in 1 .. Len(aTxnQueues[r]) : aTxnQueues[r][j] = t},
                     i \in {j \in 1 .. Len(aTxnQueues[QueueOf(t)]) : aTxnQueues[QueueOf(t)][j] = t}}
             D == {<<"done", i>> : i \in {j \in 1 .. Len(hTxnDoneQueue) : hTxnDoneQueue[j] = t}}
             B == {<<"bus">> : b \in {u \in bus : u = t}}
             H == {<<"held", c>> : c \in {d \in Ctx : Held(d, t)}}
             R == {<<"returning", c>> : c \in {d \in Ctx : pInputTxn[d] = t /\ rc[d] # "PENDING"}}
  <2>1. Placed(t) /\ QueueOf(t) \in Queue /\ t # NoTxn /\ owner[t] \in {"client", "txnq"}
    BY TxnAssumption DEF PInv, IInv, TypeOK, PlacedInv, QueueOf, Queue
  <2>2. Places(t) = Q \cup D \cup B \cup H \cup R
    BY DEF Places, Held
  <2>3. /\ ~InQueue(t) => Q = {}
        /\ InQueue(t) => \E p : Q = {p}
    <3>1. ~InQueue(t) => Q = {}
      BY DEF InQueue, Has
    <3>2. ASSUME InQueue(t) PROVE \E p : Q = {p}
      <4>1. PICK k \in 1 .. Len(aTxnQueues[QueueOf(t)]) : aTxnQueues[QueueOf(t)][k] = t
        BY <3>2 DEF InQueue, Has
      <4>2. {j \in 1 .. Len(aTxnQueues[QueueOf(t)]) : aTxnQueues[QueueOf(t)][j] = t} = {k}
        BY <2>1, <4>1 DEF PInv, DistinctInv, Distinct
      <4>3. {r \in Queue : \E j \in 1 .. Len(aTxnQueues[r]) : aTxnQueues[r][j] = t} = {QueueOf(t)}
        BY <2>1, <4>1 DEF PInv, HomeInv, Homed
      <4>4. Q = {<<"queue", q, i>> : q \in {QueueOf(t)}, i \in {k}}
        BY <4>2, <4>3
      <4>5. Q = {<<"queue", QueueOf(t), k>>}
        BY <4>4
      <4> HIDE DEF Q
      <4> QED BY <4>5
    <3> HIDE DEF Q
    <3> QED BY <3>1, <3>2
  <2>4. /\ ~InDone(t) => D = {}
        /\ InDone(t) => \E p : D = {p}
    <3>1. ~InDone(t) => D = {}
      BY DEF InDone, Has
    <3>2. ASSUME InDone(t) PROVE \E p : D = {p}
      <4>1. PICK k \in 1 .. Len(hTxnDoneQueue) : hTxnDoneQueue[k] = t
        BY <3>2 DEF InDone, Has
      <4>2. {j \in 1 .. Len(hTxnDoneQueue) : hTxnDoneQueue[j] = t} = {k}
        BY <4>1 DEF PInv, DistinctInv, Distinct
      <4>3. D = {<<"done", k>>}
        BY <4>2
      <4> QED BY <4>3
    <3> QED BY <3>1, <3>2
  <2>5. /\ t \notin bus => B = {}
        /\ t \in bus => \E p : B = {p}
    OBVIOUS
  <2>6. /\ (\A c \in Ctx : ~Held(c, t)) => H = {}
        /\ \A c \in Ctx : Held(c, t) => \E p : H = {p}
    <3>1. (\A c \in Ctx : ~Held(c, t)) => H = {}
      OBVIOUS
    <3>2. ASSUME NEW c \in Ctx, Held(c, t) PROVE \E p : H = {p}
      <4>1. {d \in Ctx : Held(d, t)} = {c}
        BY <2>1, <3>2 DEF Placed
      <4>2. H = {<<"held", c>>}
        BY <4>1
      <4> QED BY <4>2
    <3> QED BY <3>1, <3>2
  <2>7. /\ ~Returning(t) => R = {}
        /\ Returning(t) => \E p : R = {p}
    <3>1. {d \in Ctx : pInputTxn[d] = t /\ rc[d] # "PENDING"} = IF Returning(t) THEN {"Driver"} ELSE {}
      BY <2>1 DEF PInv, InputInv, Returning, Ctx
    <3>2. Returning(t) => R = {<<"returning", "Driver">>}
      BY <3>1
    <3> QED BY <3>1, <3>2
  <2> HIDE DEF Q, D, B, H, R
  <2>8. ASSUME NEW p, Places(t) = {p} PROVE \E x \in Places(t) : Places(t) = {x}
    BY <2>8
  <2>9. CASE owner[t] = "client"
    <3>1. ~InQueue(t) /\ ~InDone(t) /\ t \notin bus /\ (\A c \in Ctx : ~Held(c, t)) /\ ~Returning(t)
      BY <2>1, <2>9 DEF Placed
    <3> QED BY <2>2, <2>3, <2>4, <2>5, <2>6, <2>7, <2>9, <3>1
  <2>10. CASE owner[t] = "txnq"
    <3>1. CASE InQueue(t)
      <4>1. ~InDone(t) /\ t \notin bus /\ (\A c \in Ctx : ~Held(c, t)) /\ ~Returning(t)
        BY <2>1, <3>1 DEF Placed
      <4> QED BY <2>2, <2>3, <2>4, <2>5, <2>6, <2>7, <2>8, <2>10, <3>1, <4>1
    <3>2. CASE InDone(t)
      <4>1. ~InQueue(t) /\ t \notin bus /\ (\A c \in Ctx : ~Held(c, t)) /\ ~Returning(t)
        BY <2>1, <3>2 DEF Placed
      <4> QED BY <2>2, <2>3, <2>4, <2>5, <2>6, <2>7, <2>8, <2>10, <3>2, <4>1
    <3>3. CASE t \in bus
      <4>1. ~InQueue(t) /\ ~InDone(t) /\ (\A c \in Ctx : ~Held(c, t)) /\ ~Returning(t)
        BY <2>1, <3>3 DEF Placed
      <4> QED BY <2>2, <2>3, <2>4, <2>5, <2>6, <2>7, <2>8, <2>10, <3>3, <4>1
    <3>4. ASSUME NEW c \in Ctx, Held(c, t) PROVE \E p \in Places(t) : Places(t) = {p}
      <4>1. ~InQueue(t) /\ ~InDone(t) /\ t \notin bus /\ ~Returning(t)
        BY <2>1, <3>4 DEF Placed
      <4> QED BY <2>2, <2>3, <2>4, <2>5, <2>6, <2>7, <2>8, <3>4, <4>1
    <3>5. CASE Returning(t)
      <4>1. ~InQueue(t) /\ ~InDone(t) /\ t \notin bus /\ (\A c \in Ctx : ~Held(c, t))
        BY <2>1, <3>5 DEF Placed
      <4> QED BY <2>2, <2>3, <2>4, <2>5, <2>6, <2>7, <2>8, <2>10, <3>5, <4>1
    <3> QED BY <2>1, <2>10, <3>1, <3>2, <3>3, <3>4, <3>5 DEF Placed
  <2> QED BY <2>1, <2>9, <2>10
<1> QED BY <1>1, PlaceInvariant, PTL

-----------------------------------------------------------------------------
(* The queue implements TxnService. *)

Regular == Txn \ SingleStep

\* What the stage of a transaction is made of.
Sends(c, t) == pc[c] = "send" /\ pSelectedTxn[c] = t
Transfers(c, t) == pc[c] = "sent" /\ pSelectedTxn[c] = t /\ eStatus[c] # "PENDING"

OnBus(t) == t \in bus \/ \E c \in Ctx : Transfers(c, t)
Waiting(t) == InQueue(t) \/ \E c \in Ctx : Sends(c, t)

life == [t \in Regular |-> Life(t)]

\* The stage of a transaction, in these terms.
LEMMA Stages ==
  ASSUME NEW t
  PROVE  Life(t) = IF owner[t] = "client" THEN "client"
                   ELSE IF OnBus(t) THEN "bus"
                   ELSE IF Waiting(t) THEN "accepted" ELSE "finished"
BY DEF Life, OnBus, Waiting, Sends, Transfers, InQueue, Has

\* The same after a step.
LEMMA StagesAfter ==
  ASSUME NEW t
  PROVE  Life(t)' = IF owner'[t] = "client" THEN "client"
                    ELSE IF OnBus(t)' THEN "bus"
                    ELSE IF Waiting(t)' THEN "accepted" ELSE "finished"
BY DEF Life, OnBus, Waiting, Sends, Transfers, InQueue, Has

\* A transaction about which nothing changes stays in its stage.
SameStage(t) ==
  /\ owner'[t] = owner[t]
  /\ t \in bus' <=> t \in bus
  /\ InQueue(t)' <=> InQueue(t)
  /\ \A c \in Ctx : (Sends(c, t)' <=> Sends(c, t)) /\ (Transfers(c, t)' <=> Transfers(c, t))

\* Its stage is then the same after the step.
LEMMA StaysInStage ==
  ASSUME NEW t, SameStage(t)
  PROVE  Life(t)' = Life(t)
BY Stages, StagesAfter DEF SameStage, OnBus, Waiting

\* A step that changes no stage changes nothing the service is about.
LEMMA Unserved ==
  ASSUME \A t \in Regular : Life(t)' = Life(t)
  PROVE  UNCHANGED life
BY DEF life, Regular

\* So does a step that changes nothing about any transaction.
LEMMA NothingHappens ==
  ASSUME \A t \in Regular : SameStage(t)
  PROVE  UNCHANGED life
BY StaysInStage, Unserved DEF Regular

\* A step that moves one transaction to its next stage is a step of the service.
LEMMA OneMoves ==
  ASSUME NEW t \in Regular,
         \A u \in Regular \ {t} : SameStage(u),
         \/ Life(t) = "client" /\ Life(t)' = "accepted"
         \/ Life(t) = "accepted" /\ Life(t)' = "bus" /\ \A u \in Regular : Life(u) # "bus"
         \/ Life(t) = "bus" /\ Life(t)' = "finished"
         \/ Life(t) = "finished" /\ Life(t)' = "client"
  PROVE  Service!Next
<1>1. \A u \in Regular \ {t} : Life(u)' = Life(u)
  BY StaysInStage
<1>2. life' = [life EXCEPT ![t] = Life(t)']
  BY <1>1 DEF life, Regular
<1>3. \A u \in Regular : life[u] = Life(u)
  BY DEF life
<1>4. Service!Accept(t) \/ Service!Start(t) \/ Service!Finish(t) \/ Service!Report(t)
  BY <1>2, <1>3 DEF life, Regular, Service!Accept, Service!Start, Service!Finish, Service!Report
<1> QED BY <1>4 DEF Service!Next, Regular

\* txnQ_ClearQueues takes back what the function has waiting.
LEMMA ClearServes ==
  ASSUME PInv, NEW f \in Func, ClearQueues(f), UNCHANGED bus,
         \A t \in Txn : \A c \in Ctx :
           (Sends(c, t)' <=> Sends(c, t)) /\ (Transfers(c, t)' <=> Transfers(c, t))
  PROVE  [Service!Next]_life
<1> USE TxnAssumption DEF PInv
<1> DEFINE D == {t \in Regular : InQueue(t) /\ FuncOf[t] = f}
<1>1. \A t \in Regular : Placed(t) /\ QueueOf(t) \in Queue /\ QueueOf(t)[1] = FuncOf[t] /\ pSingleStep[f] # t
  BY DEF PlacedInv, QueueOf, Queue, HomeInv, Regular
<1>2. ASSUME NEW t \in D PROVE Life(t) = "accepted" /\ Life(t)' = "client"
  <2>1. owner[t] = "txnq" /\ t \notin bus /\ \A c \in Ctx : ~Held(c, t)
    BY <1>1, <1>2 DEF Placed
  <2>2. ~OnBus(t) /\ Waiting(t)
    BY <1>2, <2>1 DEF OnBus, Waiting, Held, Transfers
  <2>3. owner'[t] = "client"
    BY <1>1, <1>2 DEF ClearQueues, QueuesOf, InQueue, Has, Regular
  <2> QED BY <2>1, <2>2, <2>3, Stages, StagesAfter
<1>3. ASSUME NEW t \in Regular \ D PROVE Life(t)' = Life(t)
  <2>1. owner'[t] = owner[t]
    <3>1. ASSUME NEW q \in QueuesOf(f), NEW i \in 1 .. Len(aTxnQueues[q]), aTxnQueues[q][i] = t
          PROVE  FALSE
      BY <1>1, <3>1 DEF QueuesOf, HomeInv, Homed, InQueue, Has
    <3> QED BY <1>1, <3>1 DEF ClearQueues, Regular
  <2>2. InQueue(t)' <=> InQueue(t)
    BY <1>1, Emptied DEF ClearQueues, QueuesOf, InQueue, Has, QueueOf
  <2> QED BY <2>1, <2>2, StaysInStage DEF SameStage, Regular
<1>4. CASE D = {}
  BY <1>3, <1>4, Unserved
<1>5. CASE D # {}
  <2>1. life' = [t \in Regular |-> IF t \in D THEN "client" ELSE life[t]]
    BY <1>2, <1>3 DEF life, Regular
  <2>2. \A t \in D : t \in Regular /\ FuncOf[t] = f /\ life[t] = "accepted"
    BY <1>2 DEF life
  <2>3. D \in SUBSET Regular /\ \E t \in Regular : FuncOf[t] = f
    BY <1>5
  <2> HIDE DEF D
  <2>4. Service!Drop(f, D)
    BY <2>1, <2>2 DEF life, Regular, Service!Drop
  <2> QED BY <2>3, <2>4 DEF Service!Next, Regular
<1> QED BY <1>4, <1>5

\* A context gives the transaction in its hand back.
LEMMA GiveBackServes ==
  ASSUME PInv, NEW c \in Ctx, pSelectedTxn[c] \in Txn,
         pc[c] \in {"report", "recovery"}, NEW l, l \in {"collect", "release"}, GoTo(c, l),
         GiveBack(pSelectedTxn[c]), UNCHANGED <<aTxnQueues, bus, pSelectedTxn, eStatus>>
  PROVE  [Service!Next]_life
<1> USE TxnAssumption DEF PInv, IInv, TypeOK, GoTo
<1> DEFINE s == pSelectedTxn[c]
<1>1. \A t \in Txn : \A d \in Ctx : (Sends(d, t)' <=> Sends(d, t)) /\ (Transfers(d, t)' <=> Transfers(d, t))
  BY DEF Sends, Transfers
<1>2. owner'[s] = "client" /\ \A t \in Txn \ {s} : owner'[t] = owner[t]
  BY DEF GiveBack
<1>3. \A t \in Txn : InQueue(t)' <=> InQueue(t)
  BY DEF InQueue, Has, QueueOf
<1>4. \A t \in Regular \ {s} : SameStage(t)
  BY <1>1, <1>2, <1>3 DEF SameStage, Regular
<1>5. CASE s \in Regular
  <2>1. /\ Held(c, s) /\ owner[s] = "txnq" /\ ~InQueue(s) /\ s \notin bus
        /\ \A d \in Ctx : Held(d, s) => d = c
    BY <1>5 DEF Held, PlacedInv, Placed, Regular
  <2>2. ~OnBus(s) /\ ~Waiting(s)
    BY <2>1 DEF OnBus, Waiting, Held, Sends, Transfers
  <2>3. Life(s) = "finished" /\ Life(s)' = "client"
    BY <1>2, <2>1, <2>2, Stages, StagesAfter
  <2> QED BY <1>4, <1>5, <2>3, OneMoves
<1>6. CASE s \notin Regular
  BY <1>4, <1>6, NothingHappens
<1> QED BY <1>5, <1>6

\* The functional driver's calls accept a transaction, drop those of a function,
\* or do nothing the service is about.
LEMMA ClientServes ==
  ASSUME PInv, Client \/ RestartClear \/ (\E f \in Func : RestartTimeout(f) \/ StopTimer(f))
  PROVE  [Service!Next]_life
<1> USE TxnAssumption DEF PInv, IInv, TypeOK, Ctx, GoTo, funcVars, flagVars, busVars, callVars,
    selVars,
        ClientMayCall
<1>1. /\ pc["Driver"] \in {"idle", "restart"} /\ pc'["Driver"] \in {"idle", "restart", "run"}
      /\ pc'["TxnDone"] = pc["TxnDone"]
      /\ UNCHANGED <<pSelectedTxn, eStatus, bus>>
  <2>1. ASSUME NEW f \in Func, Open(f) \/ Close(f) \/ Stop(f) \/ RestartTimeout(f) \/ StopTimer(f)
        PROVE  <1>1!:
    BY <2>1 DEF Open, Close, Stop, RestartTimeout, StopTimer
  <2>2. ASSUME NEW f \in Func, Restart(f) PROVE <1>1!:
    BY <2>2 DEF Restart, RestartPending, RestartNow
  <2>3. ASSUME NEW f \in Func, Run(f) PROVE <1>1!:
    BY <2>3 DEF Run, CallScheduler
  <2>4. ASSUME NEW t \in Txn, Transact(t) PROVE <1>1!:
    BY <2>4 DEF Transact, CallScheduler
  <2>5. CASE RestartClear
    BY <2>5 DEF RestartClear
  <2>6. CASE ConnectBus
    BY <2>6 DEF ConnectBus
  <2> QED BY <2>1, <2>2, <2>3, <2>4, <2>5, <2>6 DEF Client
<1>2. \A t \in Txn : \A c \in Ctx : (Sends(c, t)' <=> Sends(c, t)) /\ (Transfers(c, t)' <=> Transfers(c, t))
  BY <1>1 DEF Sends, Transfers
<1>3. ASSUME UNCHANGED owner, \A t \in Regular : InQueue(t)' <=> InQueue(t) PROVE UNCHANGED life
  BY <1>1, <1>2, <1>3, NothingHappens DEF SameStage, Regular
<1>4. ASSUME UNCHANGED <<owner, aTxnQueues>> PROVE UNCHANGED life
  BY <1>3, <1>4 DEF InQueue, Has, QueueOf
<1>5. ASSUME NEW f \in Func, Open(f) PROVE UNCHANGED life
  <2>1. aTxnQueues' = aTxnQueues
    BY <1>5 DEF Open, DistinctInv, Queue
  <2> QED BY <1>4, <1>5, <2>1 DEF Open
<1>6. ASSUME NEW f \in Func, Close(f) PROVE UNCHANGED life
  <2>1. /\ UNCHANGED owner /\ Quiet(f)
        /\ \A q \in Queue : aTxnQueues'[q] = IF q[1] = f THEN <<>> ELSE aTxnQueues[q]
    BY <1>6 DEF Close
  <2>2. ASSUME NEW t \in Regular PROVE InQueue(t)' <=> InQueue(t)
    <3>1. QueueOf(t) \in Queue /\ QueueOf(t)[1] = FuncOf[t] /\ Placed(t)
      BY DEF QueueOf, Queue, PlacedInv, Regular
    <3>2. FuncOf[t] = f => ~InQueue(t)
      BY <2>1, <3>1 DEF Quiet, Placed, Regular
    <3> QED BY <2>1, <3>1, <3>2, Emptied DEF InQueue, QueueOf, Has
  <2> QED BY <1>3, <2>1, <2>2
<1>7. ASSUME NEW f \in Func, Restart(f) \/ Run(f) \/ Stop(f) \/ StopTimer(f) PROVE UNCHANGED life
  <2>1. UNCHANGED <<owner, aTxnQueues>>
    BY <1>7 DEF Restart, RestartPending, RestartNow, Run, Stop, StopTimer
  <2> QED BY <1>4, <2>1
<1>8. CASE ConnectBus
  BY <1>4, <1>8 DEF ConnectBus
<1>9. ASSUME NEW t \in Txn, Transact(t) PROVE [Service!Next]_life
  <2>1. CASE TransactSingleStep(t)
    BY <1>4, <2>1 DEF TransactSingleStep
  <2>2. CASE TransactRegular(t)
    <3>1. /\ t \in Regular /\ owner[t] = "client" /\ owner' = [owner EXCEPT ![t] = "txnq"]
          /\ aTxnQueues' = [aTxnQueues EXCEPT ![QueueOf(t)] = que_Enqueue(@, t)]
      BY <2>2 DEF TransactRegular, MayTransact, Regular
    <3>2. ~InQueue(t) /\ ~InDone(t) /\ t \notin bus /\ (\A c \in Ctx : ~Held(c, t))
      BY <3>1 DEF PlacedInv, Placed, Regular
    <3>3. \A u \in Txn : InQueue(u)' <=> InQueue(u) \/ u = t
      BY <3>1, <3>2, Accepted DEF Regular
    <3>4. \A u \in Regular \ {t} : SameStage(u)
      BY <1>1, <1>2, <3>1, <3>3 DEF SameStage, Regular
    <3>5. ~OnBus(t)' /\ Waiting(t)'
      BY <1>1, <1>2, <3>1, <3>2, <3>3 DEF OnBus, Waiting, Held, Transfers, Regular
    <3>6. Life(t) = "client" /\ Life(t)' = "accepted"
      BY <3>1, <3>5, Stages, StagesAfter DEF Regular
    <3> QED BY <3>1, <3>4, <3>6, OneMoves
  <2> QED BY <1>9, <2>1, <2>2 DEF Transact
<1>10. CASE RestartClear
  BY <1>1, <1>2, <1>10, ClearServes DEF RestartClear
<1>11. ASSUME NEW f \in Func, RestartTimeout(f) PROVE [Service!Next]_life
  BY <1>1, <1>2, <1>11, ClearServes DEF RestartTimeout
<1> QED BY <1>5, <1>6, <1>7, <1>8, <1>9, <1>10, <1>11 DEF Client

\* The scheduler starts one transaction at a time, sees the synchronous ones
\* finish, and reports what is done.
LEMMA SchedulerServes ==
  ASSUME PInv, NEW c \in Ctx, Scheduler(c)
  PROVE  [Service!Next]_life
<1> USE TxnAssumption DEF PInv, IInv, TypeOK, TxnOrNone, GoTo, funcVars, flagVars, busVars,
        callVars, selVars, Reentered, BusOccupied, RunAgain
<1>0. \A d \in Ctx \ {c} : pc[c] \in SchedPc => pc[d] \notin SchedPc
  BY DEF BusyInv, SchedulerNotReentered, Ctx
<1>1. \A d \in Ctx \ {c} : pc'[d] = pc[d] /\ pSelectedTxn'[d] = pSelectedTxn[d] /\ eStatus'[d] = eStatus[d]
  BY DEF Scheduler, EnterScheduler, TestBus, SelectTxn, SelectAggregated, SelectSingleStep,
      SelectByPriority,
         TakeFrom, Send, Sent, EnqueueDone, Collect, Report, ExitScheduler, Return
<1>2. \A t \in Txn : \A d \in Ctx \ {c} : (Sends(d, t)' <=> Sends(d, t)) /\ (Transfers(d, t)' <=> Transfers(d, t))
  BY <1>1 DEF Sends, Transfers
<1>3. ASSUME UNCHANGED aTxnQueues PROVE \A t \in Txn : InQueue(t)' <=> InQueue(t)
  BY <1>3 DEF InQueue, Has, QueueOf
<1>4. ASSUME UNCHANGED <<aTxnQueues, bus, owner>>,
             pc[c] \notin {"send", "sent"}, pc'[c] \notin {"send", "sent"}
      PROVE  UNCHANGED life
  <2>1. \A t \in Regular : SameStage(t)
    BY <1>2, <1>3, <1>4 DEF SameStage, Regular, Sends, Transfers
  <2> QED BY <2>1, NothingHappens
<1>5. CASE EnterScheduler(c) \/ TestBus(c) \/ EnqueueDone(c) \/ Collect(c)
  <2>1. /\ UNCHANGED <<aTxnQueues, bus, owner>>
        /\ pc[c] \notin {"send", "sent"} /\ pc'[c] \notin {"send", "sent"}
    BY <1>5 DEF EnterScheduler, TestBus, EnqueueDone, Collect, Return
  <2> QED BY <1>4, <2>1
<1>6. CASE SelectTxn(c)
  <2>1. /\ UNCHANGED <<bus, owner>>
        /\ pc[c] = "select" /\ pc'[c] \in {"send", "collect"}
    BY <1>6 DEF SelectTxn
  <2>2. \A t \in Txn : \A d \in Ctx : Transfers(d, t)' <=> Transfers(d, t)
    BY <1>2, <2>1 DEF Transfers
  <2>3. ASSUME NEW q \in Queue, aTxnQueues[q] # <<>>, TakeFrom(c, q), pc'[c] = "send" PROVE UNCHANGED life
    <3> DEFINE h == Head(aTxnQueues[q])
    <3>1. InQueue(h) /\ \A t \in Txn : InQueue(t)' <=> InQueue(t) /\ t # h
      BY <2>3, Taken
    <3>2. \A t \in Txn : ~Sends(c, t) /\ (Sends(c, t)' <=> t = h)
      BY <2>1, <2>3 DEF Sends, TakeFrom
    <3> HIDE DEF h
    <3>3. \A t \in Regular : /\ owner'[t] = owner[t]
                             /\ OnBus(t)' <=> OnBus(t)
                             /\ Waiting(t)' <=> Waiting(t)
      BY <1>2, <2>1, <2>2, <3>1, <3>2 DEF OnBus, Waiting, Regular
    <3>4. \A t \in Regular : Life(t)' = Life(t)
      BY <3>3, Stages, StagesAfter
    <3> QED BY <3>4, Unserved
  <2>4. ASSUME UNCHANGED aTxnQueues, \A t \in Regular : Sends(c, t)' <=> Sends(c, t) PROVE UNCHANGED life
    BY <1>2, <1>3, <2>1, <2>2, <2>4, NothingHappens DEF SameStage, Regular
  <2>5. CASE SelectAggregated(c) /\ GoTo(c, "send")
    BY <2>3, <2>5 DEF SelectAggregated
  <2>6. CASE SelectByPriority(c) /\ GoTo(c, "send")
    BY <2>3, <2>6 DEF SelectByPriority, Ready
  <2>7. CASE SelectSingleStep(c) /\ GoTo(c, "send")
    <3>1. UNCHANGED aTxnQueues /\ pSelectedTxn'[c] \in SingleStep
      BY <2>7 DEF SelectSingleStep, HomeInv
    <3> QED BY <2>1, <2>4, <3>1 DEF Sends, Regular
  <2>8. CASE GoTo(c, "collect") /\ UNCHANGED <<pSelectedTxn, pSingleStep, aTxnQueues, pAggregQueue>>
    BY <1>4, <2>1, <2>8
  <2> QED BY <1>6, <2>5, <2>6, <2>7, <2>8 DEF SelectTxn
<1>7. CASE Send(c)
  <2> PICK s : s = pSelectedTxn[c]
    OBVIOUS
  <2>1. /\ UNCHANGED <<aTxnQueues, owner, pSelectedTxn>>
        /\ s \in Txn /\ pc[c] = "send" /\ pc'[c] = "sent" /\ bus = {}
        /\ bus' = IF eStatus'[c] = "PENDING" THEN {s} ELSE {}
    <3>1. pc[c] = "send" /\ s \in Txn
      BY <1>7 DEF Send, HeldInv
    <3>2. bus = {}
      BY <3>1 DEF CurrInv
    <3>3. PICK o \in BusOutcome(s) : /\ eStatus' = [eStatus EXCEPT ![c] = o]
                                     /\ bus' = IF o = "PENDING" THEN bus \cup {s} ELSE bus
      BY <1>7 DEF Send
    <3>4. bus' = IF eStatus'[c] = "PENDING" THEN {s} ELSE {}
      BY <3>2, <3>3
    <3> QED BY <1>7, <3>1, <3>2, <3>3, <3>4 DEF Send
  <2>2. \A t \in Txn : /\ Sends(c, t) <=> t = s
                       /\ ~Transfers(c, t)
                       /\ ~Sends(c, t)'
                       /\ Transfers(c, t)' <=> t = s /\ eStatus'[c] # "PENDING"
    BY <2>1 DEF Sends, Transfers
  <2>3. \A d \in Ctx \ {c} : \A t \in Txn : ~Transfers(d, t) /\ ~Sends(d, t)
    BY <1>0, <2>1 DEF Transfers, Sends, SchedPc
  <2>4. \A t \in Regular \ {s} : SameStage(t)
    BY <1>2, <1>3, <2>1, <2>2 DEF SameStage, Regular
  <2>5. CASE s \in Regular
    <3>1. Held(c, s) /\ owner[s] = "txnq" /\ ~InQueue(s)
      BY <2>1, <2>5 DEF Held, PlacedInv, Placed, Regular
    <3>2. \A t \in Txn : ~OnBus(t)
      <4>1. \A t \in Txn : t \notin bus
        BY <2>1
      <4>2. \A t \in Txn : \A d \in Ctx : ~Transfers(d, t)
        <5> SUFFICES ASSUME NEW t \in Txn, NEW d \in Ctx PROVE ~Transfers(d, t)
          OBVIOUS
        <5>1. CASE d = c
          BY <2>2, <5>1
        <5>2. CASE d # c
          BY <2>3, <5>2
        <5> QED BY <5>1, <5>2
      <4> QED BY <4>1, <4>2 DEF OnBus
    <3>3. Waiting(s)
      BY <2>1, <2>2 DEF Waiting
    <3>4. OnBus(s)'
      BY <2>1, <2>2 DEF OnBus
    <3>5. Life(s) = "accepted" /\ Life(s)' = "bus" /\ \A t \in Regular : Life(t) # "bus"
      BY <2>1, <2>5, <3>1, <3>2, <3>3, <3>4, Stages, StagesAfter DEF Regular
    <3> QED BY <2>4, <2>5, <3>5, OneMoves
  <2>6. CASE s \notin Regular
    BY <2>4, <2>6, NothingHappens
  <2> QED BY <2>5, <2>6
<1>8. CASE Sent(c)
  <2> PICK s : s = pSelectedTxn[c]
    OBVIOUS
  <2>1. /\ UNCHANGED <<aTxnQueues, owner, bus, pSelectedTxn>>
        /\ s \in Txn /\ pc[c] = "sent" /\ pc'[c] \notin {"send", "sent"}
    BY <1>8 DEF Sent, HeldInv
  <2>2. \A t \in Txn : /\ ~Sends(c, t) /\ ~Sends(c, t)'
                       /\ Transfers(c, t) <=> t = s /\ eStatus[c] # "PENDING"
                       /\ ~Transfers(c, t)'
    BY <2>1 DEF Sends, Transfers
  <2>3. ASSUME NEW t \in Regular, t # s \/ eStatus[c] = "PENDING" PROVE SameStage(t)
    BY <1>2, <1>3, <2>1, <2>2, <2>3 DEF SameStage, Regular
  <2>4. CASE s \in Regular /\ eStatus[c] # "PENDING"
    <3>1. Held(c, s) /\ owner[s] = "txnq" /\ ~InQueue(s) /\ bus = {}
      BY <2>1, <2>4 DEF Held, PlacedInv, Placed, Regular, CurrInv
    <3>2. OnBus(s)
      BY <2>1, <2>2, <2>4 DEF OnBus
    <3>3. \A d \in Ctx \ {c} : ~Sends(d, s) /\ ~Transfers(d, s)
      BY <1>0, <2>1 DEF Sends, Transfers, SchedPc
    <3>4. ~OnBus(s)' /\ ~Waiting(s)'
      BY <1>2, <1>3, <2>1, <2>2, <3>1, <3>3 DEF OnBus, Waiting
    <3>5. Life(s) = "bus" /\ Life(s)' = "finished"
      BY <2>1, <3>1, <3>2, <3>4, Stages, StagesAfter
    <3> QED BY <2>3, <2>4, <3>5, OneMoves
  <2>5. CASE ~(s \in Regular /\ eStatus[c] # "PENDING")
    BY <2>3, <2>5, NothingHappens
  <2> QED BY <2>4, <2>5
<1>9. CASE Report(c)
  BY <1>9, GiveBackServes DEF Report, HeldInv
<1>10. CASE ExitScheduler(c)
  <2>1. /\ UNCHANGED <<aTxnQueues, bus>>
        /\ pc[c] = "exit" /\ pc'[c] \in {"sched", "idle"}
    BY <1>10 DEF ExitScheduler, Return
  <2>2. CASE UNCHANGED owner
    BY <1>4, <2>1, <2>2
  <2>3. CASE ~UNCHANGED owner
    <3> PICK s : s = pInputTxn[c]
      OBVIOUS
    <3>1. s \in Txn /\ rc[c] # "PENDING" /\ owner' = [owner EXCEPT ![s] = "client"]
      BY <1>10, <2>3 DEF ExitScheduler, GiveBack
    <3>2. c = "Driver" /\ Returning(s)
      BY <3>1 DEF InputInv, Returning, Ctx
    <3>3. \A t \in Txn : \A d \in Ctx :
            (Sends(d, t)' <=> Sends(d, t)) /\ (Transfers(d, t)' <=> Transfers(d, t))
      BY <1>2, <2>1 DEF Sends, Transfers
    <3>4. \A t \in Regular \ {s} : SameStage(t)
      BY <1>3, <2>1, <3>1, <3>3 DEF SameStage, Regular
    <3>5. CASE s \in Regular
      <4>1. owner[s] = "txnq" /\ ~InQueue(s) /\ s \notin bus /\ \A d \in Ctx : ~Held(d, s)
        BY <3>2, <3>5 DEF PlacedInv, Placed, Regular
      <4>2. ~OnBus(s) /\ ~Waiting(s)
        BY <4>1 DEF OnBus, Waiting, Held, Sends, Transfers
      <4>3. owner'[s] = "client"
        BY <3>1
      <4>4. Life(s) = "finished" /\ Life(s)' = "client"
        BY <4>1, <4>2, <4>3, Stages, StagesAfter
      <4> QED BY <3>4, <3>5, <4>4, OneMoves
    <3>6. CASE s \notin Regular
      BY <3>4, <3>6, NothingHappens
    <3> QED BY <3>5, <3>6
  <2> QED BY <2>2, <2>3
<1> QED BY <1>5, <1>6, <1>7, <1>8, <1>9, <1>10 DEF Scheduler

\* The bus finishes a transaction, and txnQ_TxnDoneCb reports it or hands it on.
LEMMA TxnDoneServes ==
  ASSUME PInv, TxnDoneCb \/ (\E t \in Txn : BusDone(t))
  PROVE  [Service!Next]_life
<1> USE TxnAssumption DEF PInv, IInv, TypeOK, GoTo, funcVars, flagVars, busVars, callVars, selVars
<1>1. "TxnDone" \in Ctx /\ \A d \in Ctx : d # "TxnDone" =>
          pc'[d] = pc[d] /\ pSelectedTxn'[d] = pSelectedTxn[d] /\ eStatus'[d] = eStatus[d]
  BY DEF TxnDoneCb, TestRestart, DoneClear, DoneRecovery, DoneEnqueue, DoneRelease,
      CallScheduler, BusDone, Ctx
<1>2. pc["TxnDone"] \notin {"send", "sent"} /\ pc'["TxnDone"] \notin {"send", "sent"}
  BY <1>1 DEF TxnDoneCb, TestRestart, DoneClear, DoneRecovery, DoneEnqueue, DoneRelease,
      CallScheduler, BusDone
<1>3. \A t \in Txn : \A d \in Ctx : (Sends(d, t)' <=> Sends(d, t)) /\ (Transfers(d, t)' <=> Transfers(d, t))
  BY <1>1, <1>2 DEF Sends, Transfers
<1>4. ASSUME UNCHANGED aTxnQueues PROVE \A t \in Txn : InQueue(t)' <=> InQueue(t)
  BY <1>4 DEF InQueue, Has, QueueOf
<1>5. ASSUME NEW t \in Txn, BusDone(t) PROVE [Service!Next]_life
  <2>1. UNCHANGED <<aTxnQueues, owner>> /\ t \in bus /\ bus' = bus \ {t}
    BY <1>5 DEF BusDone
  <2>2. \A u \in Regular \ {t} : SameStage(u)
    BY <1>3, <1>4, <2>1 DEF SameStage, Regular
  <2>3. CASE t \in Regular
    <3>1. owner[t] = "txnq" /\ ~InQueue(t) /\ \A d \in Ctx : ~Held(d, t)
      BY <2>1, <2>3 DEF PlacedInv, Placed, Regular
    <3>2. \A d \in Ctx : ~Sends(d, t) /\ ~Transfers(d, t)
      BY <3>1 DEF Held, Sends, Transfers
    <3>3. OnBus(t) /\ ~OnBus(t)' /\ ~Waiting(t)'
      BY <1>3, <1>4, <2>1, <3>1, <3>2 DEF OnBus, Waiting
    <3>4. Life(t) = "bus" /\ Life(t)' = "finished"
      BY <2>1, <3>1, <3>3, Stages, StagesAfter
    <3> QED BY <2>2, <2>3, <3>4, OneMoves
  <2>4. CASE t \notin Regular
    BY <2>2, <2>4, NothingHappens
  <2> QED BY <2>3, <2>4
<1>6. CASE TestRestart \/ DoneEnqueue \/ DoneRelease
  <2>1. UNCHANGED <<aTxnQueues, owner, bus>>
    BY <1>6 DEF TestRestart, DoneEnqueue, DoneRelease
  <2> QED BY <1>3, <1>4, <2>1, NothingHappens DEF SameStage, Regular
<1>7. CASE DoneClear
  <2>1. FuncOf[pSelectedTxn["TxnDone"]] \in Func
    BY <1>1, <1>7 DEF DoneClear, HeldInv, DonePc
  <2> QED BY <1>3, <1>7, <2>1, ClearServes DEF DoneClear
<1>8. CASE DoneRecovery
  BY <1>1, <1>8, GiveBackServes DEF DoneRecovery, HeldInv, DonePc
<1> QED BY <1>5, <1>6, <1>7, <1>8 DEF TxnDoneCb

\* The queue with its two threads implements TxnService: every step accepts,
\* starts, finishes or reports one transaction, drops those of a function that is
\* restarted, or is invisible to the clients.
THEOREM ServiceImplemented == Spec => ImplementsService
<1>1. Init => Service!Init
  BY DEF Init, Service!Init, Life
<1>2. PInv /\ [Next]_vars => [Service!Next]_life
  <2> SUFFICES ASSUME PInv, [Next]_vars PROVE [Service!Next]_life
    OBVIOUS
  <2>1. CASE UNCHANGED vars
    BY <2>1 DEF vars, life, Life, QueueOf
  <2> QED BY <2>1, ClientServes, SchedulerServes, TxnDoneServes DEF Next
<1>3. PInv /\ [Next]_vars => [Service!Next]_[t \in Txn \ SingleStep |-> Life(t)]
  BY <1>2 DEF life, Regular
<1> QED BY <1>1, <1>3, PlaceInvariant, PTL DEF Spec, ImplementsService, Service!Spec
================================================================================

------------------------------- MODULE TxnQueue -------------------------------
(***************************************************************************)
(* The transaction queue of the wl1271 WLAN driver, Txn/TxnQueue.c.        *)
(*                                                                         *)
(* Functional drivers post transactions; one scheduler sends them, one at  *)
(* a time, to the bus driver.  A transaction ends synchronously, in the    *)
(* call of busDrv_Transact, or asynchronously, in txnQ_TxnDoneCb.          *)
(*                                                                         *)
(* Two kernel threads execute this code: the driver's work queue (the      *)
(* context "Driver") and the SDIO driver's single-threaded work queue (the *)
(* context "TxnDone").  They share the object below, some of it under the  *)
(* context module's spin lock and some of it not.  One action is one       *)
(* critical section, or one access to shared state made outside of one;    *)
(* pc[c] says where context c is.                                          *)
(***************************************************************************)
EXTENDS Naturals, Sequences

CONSTANTS
  Txn,        \* transaction structures
  NoTxn,      \* the NULL transaction
  Func,       \* functional driver ids, 0 .. MAX_FUNCTIONS-1
  Prio,       \* priorities, 0 (high) .. MAX_PRIORITY-1
  FuncOf,     \* TXN_PARAM_GET_FUNC_ID
  PrioOf,     \* TXN_PARAM_GET_PRIORITY
  SingleStep, \* transactions with TXN_PARAM_GET_SINGLE_STEP (ELP writes)
  AggregOn    \* transactions with TXN_AGGREGATE_ON (all but the last of a burst)

ASSUME TxnAssumption ==
  /\ NoTxn \notin Txn
  /\ Func \subseteq Nat /\ Prio \subseteq Nat
  /\ FuncOf \in [Txn -> Func] /\ PrioOf \in [Txn -> Prio]
  /\ SingleStep \subseteq Txn /\ AggregOn \subseteq Txn \ SingleStep

VARIABLES
  eState,       \* aFuncInfo[f].eState
  pSingleStep,  \* aFuncInfo[f].pSingleStep
  aTxnQueues,   \* the queue of each function and priority
  hTxnDoneQueue,\* completed transactions not yet reported
  pCurrTxn,     \* the transaction the bus driver is believed to process
  bSchedulerBusy,
  bSchedulerPend,
  pAggregQueue, \* the queue an aggregation is being sent from
  bus,          \* transactions the bus driver holds asynchronously
  accum,        \* the queue whose packets wait in the bus driver's DMA buffer
  param,        \* the status field of each transaction structure
  owner,        \* who may touch the structure: "client" or "txnq"
  burst,        \* the queue of the client's unfinished aggregation
  pc,           \* per context: next step
  pInputTxn,    \* per context: argument of txnQ_RunScheduler
  bFirst,       \* per context: bFirstIteration
  pSelectedTxn, \* per context: transaction being sent, completed or reported
  eStatus,      \* per context: what busDrv_Transact returned
  rc,           \* per context: the status the caller will get
  uFuncId,      \* the function the driver's context is restarting
  timer         \* functions whose guard timer of a pending restart is running

vars == <<eState, pSingleStep, aTxnQueues, hTxnDoneQueue, pCurrTxn,
          bSchedulerBusy, bSchedulerPend, pAggregQueue, bus, accum, param,
          owner, burst, pc, pInputTxn, bFirst, pSelectedTxn, eStatus, rc, uFuncId, timer>>

funcVars == <<eState, pSingleStep, aTxnQueues, pAggregQueue>>
flagVars == <<bSchedulerBusy, bSchedulerPend>>
busVars  == <<bus, accum, param>>
callVars == <<pInputTxn, bFirst, rc>>
selVars  == <<pSelectedTxn, eStatus>>

Ctx      == {"Driver", "TxnDone"}
Queue    == Func \X Prio
NoQueue  == <<>>
FuncState == {"NONE", "STOPPED", "RUNNING", "RESTART"}
Status    == {"COMPLETE", "PENDING", "ERROR"}

\* Where a context can be.  Idle: not executing TxnQueue code.
SchedPc == {"sched", "select", "send", "sent", "enqueue", "collect", "report", "exit"}
DonePc  == {"txndone", "clear", "recovery", "completed", "release"}
Pc      == {"idle", "restart", "run"} \cup SchedPc \cup DonePc

QueueOf(t) == <<FuncOf[t], PrioOf[t]>>

\* Transactions linked in some queue; que_Enqueue refuses to link one twice.
Linked ==
  {t \in Txn : \/ \E q \in Queue : \E i \in 1 .. Len(aTxnQueues[q]) : aTxnQueues[q][i] = t
               \/ \E i \in 1 .. Len(hTxnDoneQueue) : hTxnDoneQueue[i] = t}

que_Enqueue(que, t) == IF t \in Linked THEN que ELSE Append(que, t)

GoTo(c, l) == pc' = [pc EXCEPT ![c] = l]

-----------------------------------------------------------------------------
\* txnQ_Create / txnQ_Init: nothing registered, nothing queued.
Init ==
  /\ eState = [f \in Func |-> "NONE"]
  /\ pSingleStep = [f \in Func |-> NoTxn]
  /\ aTxnQueues = [q \in Queue |-> <<>>]
  /\ hTxnDoneQueue = <<>>
  /\ pCurrTxn = NoTxn
  /\ bSchedulerBusy = FALSE
  /\ bSchedulerPend = FALSE
  /\ pAggregQueue = NoQueue
  /\ bus = {}
  /\ accum = NoQueue
  /\ param = [t \in Txn |-> "OK"]
  /\ owner = [t \in Txn |-> "client"]
  /\ burst = NoQueue
  /\ pc = [c \in Ctx |-> "idle"]
  /\ pInputTxn = [c \in Ctx |-> NoTxn]
  /\ bFirst = [c \in Ctx |-> FALSE]
  /\ pSelectedTxn = [c \in Ctx |-> NoTxn]
  /\ eStatus = [c \in Ctx |-> "COMPLETE"]
  /\ rc = [c \in Ctx |-> "COMPLETE"]
  /\ uFuncId \in Func
  /\ timer = {}

-----------------------------------------------------------------------------
(* The functional driver's calls, made in the driver's context. *)

\* A functional driver does not interrupt its own transmit burst, but for what
\* twIf_SendTransaction does for each packet: ELP writes and txnQ_Stop.
ClientMayCall == pc["Driver"] = "idle" /\ burst = NoQueue

\* txnQ_ConnectBus, in the driver's initialisation and again after a recovery:
\* the bus driver forgets what it has accumulated.
ConnectBus ==
  /\ ClientMayCall
  /\ accum' = NoQueue
  /\ UNCHANGED <<funcVars, hTxnDoneQueue, pCurrTxn, flagVars, bus, param, owner, burst, pc,
                 uFuncId, timer, callVars, selVars>>

Quiet(f) == \A t \in Txn : FuncOf[t] = f => owner[t] = "client"

Open(f) ==
  /\ ClientMayCall
  /\ eState[f] = "NONE"
  /\ eState' = [eState EXCEPT ![f] = "STOPPED"]
  /\ aTxnQueues' = [q \in Queue |-> IF q[1] = f THEN <<>> ELSE aTxnQueues[q]]
  /\ UNCHANGED <<pSingleStep, hTxnDoneQueue, pCurrTxn, flagVars, pAggregQueue, busVars,
                 owner, burst, pc, uFuncId, timer, callVars, selVars>>

\* A functional driver unregisters at unload, when it has nothing outstanding.
Close(f) ==
  /\ ClientMayCall
  /\ eState[f] # "NONE"
  /\ Quiet(f)
  /\ eState' = [eState EXCEPT ![f] = "NONE"]
  /\ aTxnQueues' = [q \in Queue |-> IF q[1] = f THEN <<>> ELSE aTxnQueues[q]]
  /\ UNCHANGED <<pSingleStep, hTxnDoneQueue, pCurrTxn, flagVars, pAggregQueue, busVars,
                 owner, burst, pc, uFuncId, timer, callVars, selVars>>

\* Mutant: the function id is not looked at.
QueuesOfAny(f) == Queue

\* The queues a restart of function f empties.
QueuesOf(f) == {q \in Queue : q[1] = f}

\* Mutant: the state is not set.
StateNotSet(f) == eState[f]

\* The state it leaves the function in.
StateAfterClear(f) == "RUNNING"

\* What txnQ_ClearQueues does in its critical section: drop, without a
\* callback, whatever the function has waiting, and let its queues run.
ClearQueues(f) ==
  /\ pSingleStep' = [pSingleStep EXCEPT ![f] = NoTxn]
  /\ aTxnQueues' = [q \in Queue |-> IF q \in QueuesOf(f) THEN <<>> ELSE aTxnQueues[q]]
  /\ eState' = [eState EXCEPT ![f] = StateAfterClear(f)]
  /\ owner' = [t \in Txn |->
                 IF \/ pSingleStep[f] = t
                    \/ \E q \in QueuesOf(f) : \E i \in 1 .. Len(aTxnQueues[q]) : aTxnQueues[q][i] = t
                 THEN "client" ELSE owner[t]]
  /\ UNCHANGED pAggregQueue

\* txnQ_Restart while the bus driver has a transaction of f: the restart is
\* left to txnQ_TxnDoneCb, and the client starts a guard timer.
RestartPending(f) ==
  /\ pCurrTxn # NoTxn
  /\ FuncOf[pCurrTxn] = f
  /\ eState' = [eState EXCEPT ![f] = "RESTART"]
  /\ rc' = [rc EXCEPT !["Driver"] = "PENDING"]
  /\ timer' = timer \cup {f}
  /\ UNCHANGED <<pc, uFuncId>>

\* txnQ_Restart otherwise: leave the critical section, then clear.
RestartNow(f) ==
  /\ pCurrTxn # NoTxn => FuncOf[pCurrTxn] # f
  /\ GoTo("Driver", "restart")
  /\ uFuncId' = f
  /\ UNCHANGED <<eState, rc, timer>>

Restart(f) ==
  /\ ClientMayCall
  /\ eState[f] # "NONE"
  /\ RestartPending(f) \/ RestartNow(f)
  /\ UNCHANGED <<pSingleStep, aTxnQueues, hTxnDoneQueue, pCurrTxn, flagVars, pAggregQueue,
                 busVars, owner, burst, pInputTxn, bFirst, selVars>>

RestartClear ==
  /\ pc["Driver"] = "restart"
  /\ ClearQueues(uFuncId)
  /\ rc' = [rc EXCEPT !["Driver"] = "COMPLETE"]
  /\ GoTo("Driver", "idle")
  /\ UNCHANGED <<hTxnDoneQueue, pCurrTxn, flagVars, busVars, burst, uFuncId, timer, pInputTxn, bFirst, selVars>>

\* txnQ_ClearQueues called from outside, when the client's guard timer of a
\* pending restart expires.
RestartTimeout(f) ==
  /\ ClientMayCall
  /\ f \in timer
  /\ timer' = timer \ {f}
  /\ ClearQueues(f)
  /\ UNCHANGED <<hTxnDoneQueue, pCurrTxn, flagVars, busVars, burst, pc, uFuncId, callVars, selVars>>

\* The client stops the timer some time after the restart was completed by
\* txnQ_TxnDoneCb; until then it can still expire.
StopTimer(f) ==
  /\ ClientMayCall
  /\ f \in timer
  /\ eState[f] # "RESTART"
  /\ timer' = timer \ {f}
  /\ UNCHANGED <<funcVars, hTxnDoneQueue, pCurrTxn, flagVars, busVars, owner, burst, pc, uFuncId,
                 callVars, selVars>>

\* Entering txnQ_RunScheduler with the given argument.
CallScheduler(c, t) ==
  /\ GoTo(c, "run")
  /\ pInputTxn' = [pInputTxn EXCEPT ![c] = t]
  /\ bFirst' = [bFirst EXCEPT ![c] = TRUE]
  /\ rc' = [rc EXCEPT ![c] = "PENDING"]

Run(f) ==
  /\ ClientMayCall
  /\ eState[f] # "NONE"
  /\ eState' = [eState EXCEPT ![f] = "RUNNING"]
  /\ CallScheduler("Driver", NoTxn)
  /\ UNCHANGED <<pSingleStep, aTxnQueues, hTxnDoneQueue, pCurrTxn, flagVars, pAggregQueue,
                 busVars, owner, burst, uFuncId, timer, selVars>>

Stop(f) ==
  /\ pc["Driver"] = "idle"
  /\ eState[f] # "NONE"
  /\ eState' = [eState EXCEPT ![f] = "STOPPED"]
  /\ UNCHANGED <<pSingleStep, aTxnQueues, hTxnDoneQueue, pCurrTxn, flagVars, pAggregQueue,
                 busVars, owner, burst, pc, uFuncId, timer, callVars, selVars>>

\* An ELP write: one slot, no lock, and the previous content is overwritten.
\* The two ELP structures are static and re-sent without waiting for them.
TransactSingleStep(t) ==
  /\ t \in SingleStep
  /\ pSingleStep' = [pSingleStep EXCEPT ![FuncOf[t]] = t]
  /\ UNCHANGED <<aTxnQueues, burst, owner>>

\* Transmit bursts (txXfer_SendAggregatedPkts): the client holds all packets of
\* a burst before it sends the first, and sends them to one queue, without
\* another regular transaction in between, up to the one with AGGREGATE_OFF.
MayTransact(t) ==
  /\ owner[t] = "client"
  /\ burst # NoQueue => QueueOf(t) = burst
  /\ t \in AggregOn =>
       \E u \in Txn \ (AggregOn \cup SingleStep) : owner[u] = "client" /\ QueueOf(u) = QueueOf(t)

\* Any other transaction: appended to its queue.
TransactRegular(t) ==
  /\ t \notin SingleStep
  /\ MayTransact(t)
  /\ aTxnQueues' = [aTxnQueues EXCEPT ![QueueOf(t)] = que_Enqueue(@, t)]
  /\ owner' = [owner EXCEPT ![t] = "txnq"]
  /\ burst' = IF t \in AggregOn THEN QueueOf(t) ELSE NoQueue
  /\ UNCHANGED pSingleStep

Transact(t) ==
  /\ pc["Driver"] = "idle"
  /\ eState[FuncOf[t]] # "NONE"
  /\ TransactSingleStep(t) \/ TransactRegular(t)
  /\ CallScheduler("Driver", t)
  /\ UNCHANGED <<eState, hTxnDoneQueue, pCurrTxn, flagVars, pAggregQueue, busVars, uFuncId, timer, selVars>>

-----------------------------------------------------------------------------
(* txnQ_RunScheduler and txnQ_Scheduler, in either context. *)

\* Leaving txnQ_RunScheduler: its argument and flag go out of scope.
Return(c) ==
  /\ GoTo(c, "idle")
  /\ pInputTxn' = [pInputTxn EXCEPT ![c] = NoTxn]
  /\ bFirst' = [bFirst EXCEPT ![c] = FALSE]

\* Mutant: the reentry test is dropped.
NeverReentered == FALSE

\* Another context is in the scheduler.
Reentered == bSchedulerBusy

\* Reentry: leave the work to the context that is already scheduling.
EnterScheduler(c) ==
  /\ pc[c] = "run"
  /\ IF Reentered
       THEN /\ bSchedulerPend' = TRUE
            /\ Return(c)
            /\ UNCHANGED bSchedulerBusy
       ELSE /\ bSchedulerBusy' = TRUE
            /\ GoTo(c, "sched")
            /\ UNCHANGED <<bSchedulerPend, pInputTxn, bFirst>>
  /\ UNCHANGED <<funcVars, hTxnDoneQueue, pCurrTxn, busVars, owner, burst, uFuncId, timer, rc, selVars>>

\* Mutant: the test of pCurrTxn is dropped.
BusNeverOccupied == FALSE

\* The bus driver has a transaction, or its completion is being handled.
BusOccupied == pCurrTxn # NoTxn

\* The unlocked test with which txnQ_Scheduler starts.
TestBus(c) ==
  /\ pc[c] = "sched"
  /\ GoTo(c, IF BusOccupied THEN "exit" ELSE "select")
  /\ UNCHANGED <<funcVars, hTxnDoneQueue, pCurrTxn, flagVars, busVars, owner, burst, uFuncId, timer, callVars, selVars>>

\* Order of the queues in txnQ_SelectTxn: by priority, then by function id.
Before(q, r) == q[2] < r[2] \/ (q[2] = r[2] /\ q[1] <= r[1])

Ready(q) == eState[q[1]] = "RUNNING" /\ aTxnQueues[q] # <<>>

\* Mutant: the head is read but not dequeued.
PeekAt(c, q) ==
  /\ pSelectedTxn' = [pSelectedTxn EXCEPT ![c] = Head(aTxnQueues[q])]
  /\ pAggregQueue' = IF Head(aTxnQueues[q]) \in AggregOn THEN q ELSE NoQueue
  /\ UNCHANGED <<aTxnQueues, pSingleStep>>

\* Take the head of queue q.
TakeFrom(c, q) ==
  /\ pSelectedTxn' = [pSelectedTxn EXCEPT ![c] = Head(aTxnQueues[q])]
  /\ aTxnQueues' = [aTxnQueues EXCEPT ![q] = Tail(@)]
  /\ pAggregQueue' = IF Head(aTxnQueues[q]) \in AggregOn THEN q ELSE NoQueue
  /\ UNCHANGED pSingleStep

\* Within an aggregation only its own queue is served, whatever its state.
SelectAggregated(c) ==
  /\ pAggregQueue # NoQueue
  /\ aTxnQueues[pAggregQueue] # <<>>
  /\ TakeFrom(c, pAggregQueue)

\* Mutant: an aggregation does not hold back an ELP write.
SelectSingleStepAnyTime(c) ==
  /\ \E f \in Func :
       /\ pSingleStep[f] # NoTxn
       /\ pSelectedTxn' = [pSelectedTxn EXCEPT ![c] = pSingleStep[f]]
       /\ pSingleStep' = [pSingleStep EXCEPT ![f] = NoTxn]
  /\ UNCHANGED <<aTxnQueues, pAggregQueue>>

SelectSingleStep(c) ==
  /\ pAggregQueue = NoQueue
  /\ \E f \in Func :
       /\ pSingleStep[f] # NoTxn
       /\ \A g \in Func : pSingleStep[g] # NoTxn => f <= g
       /\ pSelectedTxn' = [pSelectedTxn EXCEPT ![c] = pSingleStep[f]]
       /\ pSingleStep' = [pSingleStep EXCEPT ![f] = NoTxn]
  /\ UNCHANGED <<aTxnQueues, pAggregQueue>>

SelectByPriority(c) ==
  /\ pAggregQueue = NoQueue
  /\ \A f \in Func : pSingleStep[f] = NoTxn
  /\ \E q \in Queue :
       /\ Ready(q)
       /\ \A r \in Queue : Ready(r) => Before(q, r)
       /\ TakeFrom(c, q)

\* txnQ_SelectTxn finds something to send.
Sendable ==
  IF pAggregQueue # NoQueue
    THEN aTxnQueues[pAggregQueue] # <<>>
    ELSE \/ \E f \in Func : pSingleStep[f] # NoTxn
         \/ \E q \in Queue : Ready(q)

SelectTxn(c) ==
  /\ pc[c] = "select"
  /\ \/ /\ SelectAggregated(c) \/ SelectSingleStep(c) \/ SelectByPriority(c)
        /\ GoTo(c, "send")
     \/ /\ ~Sendable
        /\ GoTo(c, "collect")
        /\ UNCHANGED <<pSelectedTxn, pSingleStep, aTxnQueues, pAggregQueue>>
  /\ UNCHANGED <<eState, hTxnDoneQueue, pCurrTxn, flagVars, busVars, owner, burst, uFuncId, timer, callVars, eStatus>>

\* What busDrv_Transact can return: ELP writes are synchronous and an
\* aggregated packet is only copied to the bus driver's buffer.
BusOutcome(t) ==
  IF t \in AggregOn THEN {"COMPLETE"}
  ELSE IF t \in SingleStep THEN {"COMPLETE", "ERROR"}
  ELSE Status

Send(c) ==
  /\ pc[c] = "send"
  /\ pCurrTxn' = pSelectedTxn[c]
  /\ \E s \in BusOutcome(pSelectedTxn[c]) :
       /\ eStatus' = [eStatus EXCEPT ![c] = s]
       /\ bus' = IF s = "PENDING" THEN bus \cup {pSelectedTxn[c]} ELSE bus
       /\ accum' = IF pSelectedTxn[c] \in AggregOn THEN QueueOf(pSelectedTxn[c]) ELSE NoQueue
       /\ param' = [param EXCEPT ![pSelectedTxn[c]] = IF s = "ERROR" THEN "ERROR" ELSE "OK"]
  /\ GoTo(c, "sent")
  /\ UNCHANGED <<funcVars, hTxnDoneQueue, flagVars, owner, burst, uFuncId, timer, callVars, pSelectedTxn>>

\* Mutant: any transaction of the first iteration is taken for the argument.
IsFirst(c) == bFirst[c]

\* The transaction is the call's own argument, to be reported by its result.
IsInput(c) == bFirst[c] /\ pSelectedTxn[c] = pInputTxn[c]

\* busDrv_Transact has returned.
Sent(c) ==
  /\ pc[c] = "sent"
  /\ rc' = IF IsInput(c) THEN [rc EXCEPT ![c] = eStatus[c]] ELSE rc
  /\ eStatus' = [eStatus EXCEPT ![c] = "COMPLETE"]
  /\ IF eStatus[c] = "PENDING"
       THEN GoTo(c, "collect") /\ UNCHANGED pCurrTxn
       ELSE GoTo(c, IF IsInput(c) THEN "select" ELSE "enqueue") /\ pCurrTxn' = NoTxn
  /\ UNCHANGED <<funcVars, hTxnDoneQueue, flagVars, busVars, owner, burst, uFuncId, timer, pInputTxn, bFirst, pSelectedTxn>>

EnqueueDone(c) ==
  /\ pc[c] = "enqueue"
  /\ hTxnDoneQueue' = que_Enqueue(hTxnDoneQueue, pSelectedTxn[c])
  /\ GoTo(c, "select")
  /\ UNCHANGED <<funcVars, pCurrTxn, flagVars, busVars, owner, burst, uFuncId, timer, callVars, selVars>>

\* Dequeue the next completed transaction.
Collect(c) ==
  /\ pc[c] = "collect"
  /\ IF hTxnDoneQueue = <<>>
       THEN /\ pSelectedTxn' = [pSelectedTxn EXCEPT ![c] = NoTxn]
            /\ GoTo(c, "exit")
            /\ UNCHANGED hTxnDoneQueue
       ELSE /\ pSelectedTxn' = [pSelectedTxn EXCEPT ![c] = Head(hTxnDoneQueue)]
            /\ hTxnDoneQueue' = Tail(hTxnDoneQueue)
            /\ GoTo(c, "report")
  /\ UNCHANGED <<funcVars, pCurrTxn, flagVars, busVars, owner, burst, uFuncId, timer, callVars, eStatus>>

\* Mutant: a value of ETxnStatus is written into the status field.
GiveBackWrongEnum(t) ==
  IF t = NoTxn THEN UNCHANGED <<owner, param>>
  ELSE /\ owner' = [owner EXCEPT ![t] = "client"]
       /\ param' = [param EXCEPT ![t] = "COMPLETE"]

\* The structure and the status in it go back to the functional driver.  The
\* field is cleared here, not at the start of the next busDrv_Transact: the
\* queue does not read it in between.
GiveBack(t) ==
  IF t = NoTxn THEN UNCHANGED <<owner, param>>
  ELSE /\ owner' = [owner EXCEPT ![t] = "client"]
       /\ param' = [param EXCEPT ![t] = "OK"]

\* fTxnQueueDoneCb of the functional driver.
Report(c) ==
  /\ pc[c] = "report"
  /\ GiveBack(pSelectedTxn[c])
  /\ GoTo(c, "collect")
  /\ UNCHANGED <<funcVars, hTxnDoneQueue, pCurrTxn, flagVars, bus, accum, burst, uFuncId, timer, callVars, selVars>>

\* Mutant: bSchedulerPend is not looked at.
NeverAgain == FALSE

\* Another context has asked for the scheduler meanwhile.
RunAgain == bSchedulerPend

\* The critical section that ends an iteration of txnQ_RunScheduler.
ExitScheduler(c) ==
  /\ pc[c] = "exit"
  /\ IF RunAgain
       THEN /\ bSchedulerPend' = FALSE
            /\ bFirst' = [bFirst EXCEPT ![c] = FALSE]
            /\ GoTo(c, "sched")
            /\ UNCHANGED <<bSchedulerBusy, owner, param, pInputTxn>>
       ELSE /\ bSchedulerBusy' = FALSE
            /\ GiveBack(IF rc[c] = "PENDING" THEN NoTxn ELSE pInputTxn[c])
            /\ Return(c)
            /\ UNCHANGED bSchedulerPend
  /\ UNCHANGED <<funcVars, hTxnDoneQueue, pCurrTxn, bus, accum, burst, uFuncId, timer, rc, selVars>>

-----------------------------------------------------------------------------
(* txnQ_TxnDoneCb, in the bus driver's context. *)

\* The bus driver finishes t, well or not, and calls back.
BusDone(t) ==
  /\ pc["TxnDone"] = "idle"
  /\ t \in bus
  /\ bus' = bus \ {t}
  /\ \E s \in {"OK", "ERROR"} : param' = [param EXCEPT ![t] = s]
  /\ pSelectedTxn' = [pSelectedTxn EXCEPT !["TxnDone"] = t]
  /\ GoTo("TxnDone", "txndone")
  /\ UNCHANGED <<funcVars, hTxnDoneQueue, pCurrTxn, flagVars, accum, owner, burst, uFuncId, timer, callVars, eStatus>>

\* The unlocked test for a restart that waits for this transaction.
TestRestart ==
  /\ pc["TxnDone"] = "txndone"
  /\ GoTo("TxnDone", IF eState[FuncOf[pSelectedTxn["TxnDone"]]] = "RESTART" THEN "clear" ELSE "completed")
  /\ UNCHANGED <<funcVars, hTxnDoneQueue, pCurrTxn, flagVars, busVars, owner, burst, uFuncId, timer, callVars, selVars>>

DoneClear ==
  /\ pc["TxnDone"] = "clear"
  /\ ClearQueues(FuncOf[pSelectedTxn["TxnDone"]])
  /\ GoTo("TxnDone", "recovery")
  /\ UNCHANGED <<hTxnDoneQueue, pCurrTxn, flagVars, busVars, burst, uFuncId, timer, callVars, selVars>>

\* Only the transaction that was on the bus is reported, with status RECOVERY.
DoneRecovery ==
  /\ pc["TxnDone"] = "recovery"
  /\ GiveBack(pSelectedTxn["TxnDone"])
  /\ GoTo("TxnDone", "release")
  /\ UNCHANGED <<funcVars, hTxnDoneQueue, pCurrTxn, flagVars, bus, accum, burst, uFuncId, timer, callVars, selVars>>

DoneEnqueue ==
  /\ pc["TxnDone"] = "completed"
  /\ hTxnDoneQueue' = que_Enqueue(hTxnDoneQueue, pSelectedTxn["TxnDone"])
  /\ GoTo("TxnDone", "release")
  /\ UNCHANGED <<funcVars, pCurrTxn, flagVars, busVars, owner, burst, uFuncId, timer, callVars, selVars>>

\* pCurrTxn is cleared outside of the critical section, then the scheduler runs.
DoneRelease ==
  /\ pc["TxnDone"] = "release"
  /\ pCurrTxn' = NoTxn
  /\ pSelectedTxn' = [pSelectedTxn EXCEPT !["TxnDone"] = NoTxn]
  /\ CallScheduler("TxnDone", NoTxn)
  /\ UNCHANGED <<funcVars, hTxnDoneQueue, flagVars, busVars, owner, burst, uFuncId, timer, eStatus>>

-----------------------------------------------------------------------------
Client ==
  \/ \E f \in Func : Open(f) \/ Close(f) \/ Restart(f) \/ Run(f) \/ Stop(f)
  \/ \E t \in Txn : Transact(t)
  \/ ConnectBus

Scheduler(c) ==
  \/ EnterScheduler(c) \/ TestBus(c) \/ SelectTxn(c) \/ Send(c) \/ Sent(c)
  \/ EnqueueDone(c) \/ Collect(c) \/ Report(c) \/ ExitScheduler(c)

TxnDoneCb == TestRestart \/ DoneClear \/ DoneRecovery \/ DoneEnqueue \/ DoneRelease

Next ==
  \/ Client
  \/ RestartClear
  \/ \E f \in Func : RestartTimeout(f) \/ StopTimer(f)
  \/ \E c \in Ctx : Scheduler(c)
  \/ \E t \in Txn : BusDone(t)
  \/ TxnDoneCb

Spec == Init /\ [][Next]_vars

\* The threads are scheduled, the bus finishes what it was given and the guard
\* timer of a pending restart expires; clients owe nothing.
Fairness ==
  /\ \A c \in Ctx : WF_vars(Scheduler(c))
  /\ WF_vars(RestartClear)
  /\ WF_vars(TxnDoneCb)
  /\ WF_vars(\E t \in Txn : BusDone(t))
  /\ \A f \in Func : WF_vars(RestartTimeout(f))

-----------------------------------------------------------------------------
(* Properties. *)

TxnOrNone == Txn \cup {NoTxn}

\* Every variable has the type its declaration in TTxnQObj gives it.
TypeOK ==
  /\ eState \in [Func -> FuncState]
  /\ pSingleStep \in [Func -> TxnOrNone]
  /\ aTxnQueues \in [Queue -> Seq(Txn)]
  /\ hTxnDoneQueue \in Seq(Txn)
  /\ pCurrTxn \in TxnOrNone
  /\ bSchedulerBusy \in BOOLEAN
  /\ bSchedulerPend \in BOOLEAN
  /\ pAggregQueue \in Queue \cup {NoQueue}
  /\ bus \subseteq Txn
  /\ accum \in Queue \cup {NoQueue}
  /\ param \in [Txn -> {"OK", "ERROR"}]
  /\ owner \in [Txn -> {"client", "txnq"}]
  /\ burst \in Queue \cup {NoQueue}
  /\ pc \in [Ctx -> Pc]
  /\ pInputTxn \in [Ctx -> TxnOrNone]
  /\ bFirst \in [Ctx -> BOOLEAN]
  /\ pSelectedTxn \in [Ctx -> TxnOrNone]
  /\ eStatus \in [Ctx -> Status]
  /\ rc \in [Ctx -> Status]
  /\ uFuncId \in Func
  /\ timer \subseteq Func

\* txnQ_RunScheduler keeps the scheduler from being reentered: the two
\* contexts are never both inside txnQ_Scheduler.
SchedulerNotReentered ==
  ~ (pc["Driver"] \in SchedPc /\ pc["TxnDone"] \in SchedPc)

\* busDrv_Transact "is called only when idle (i.e. previous Txn is done)":
\* when a context is about to call it, no transaction is on the bus, none is
\* between completion and the release of pCurrTxn, and there is never more
\* than one on the bus.
BusCalledWhenIdle ==
  /\ \A c \in Ctx : pc[c] = "send" => bus = {} /\ pc["TxnDone"] \notin DonePc
  /\ \A t, u \in bus : t = u

\* The bus driver appends to its DMA buffer whatever it is given, and a packet of
\* a burst stays there until the last one: until then, and whoever schedules,
\* txnQ_SelectTxn must hand it nothing but transactions of the same queue.
AggregationNotMixed ==
  \A c \in Ctx : pc[c] = "send" /\ accum # NoQueue =>
    pSelectedTxn[c] \notin SingleStep /\ QueueOf(pSelectedTxn[c]) = accum

\* The places where a regular transaction held by the queue can be.
Places(t) ==
  {<<"queue", q, i>> : q \in {r \in Queue : \E j \in 1 .. Len(aTxnQueues[r]) : aTxnQueues[r][j] = t},
                       i \in {j \in 1 .. Len(aTxnQueues[QueueOf(t)]) : aTxnQueues[QueueOf(t)][j] = t}}
  \cup {<<"done", i>> : i \in {j \in 1 .. Len(hTxnDoneQueue) : hTxnDoneQueue[j] = t}}
  \cup {<<"bus">> : b \in {u \in bus : u = t}}
  \cup {<<"held", c>> : c \in {d \in Ctx :
          /\ pSelectedTxn[d] = t
          /\ \/ pc[d] \in {"send", "enqueue", "report", "txndone", "clear", "recovery", "completed"}
             \/ pc[d] = "sent" /\ eStatus[d] # "PENDING"}}
  \cup {<<"returning", c>> : c \in {d \in Ctx : pInputTxn[d] = t /\ rc[d] # "PENDING"}}

\* Nothing is lost and nothing is duplicated: a regular transaction that was
\* handed over and not given back is in exactly one place, and one that the
\* client owns is in none - through sends, completions in either context,
\* postponed scheduler calls and restarts.
NothingLostOrDuplicated ==
  \A t \in Txn \ SingleStep :
    IF owner[t] = "client" THEN Places(t) = {}
    ELSE \E p \in Places(t) : Places(t) = {p}

AllIdle == bus = {} /\ \A c \in Ctx : pc[c] = "idle"

\* No scheduler call is lost between bSchedulerBusy and bSchedulerPend: when
\* both contexts have left and the bus is free, nothing that may be sent waits,
\* nothing completed is unreported, and the flags allow the next call to run.
NoWorkLeftBehind ==
  AllIdle => /\ ~Sendable
             /\ hTxnDoneQueue = <<>>
             /\ pCurrTxn = NoTxn
             /\ ~bSchedulerBusy /\ ~bSchedulerPend

\* The abstract stage of a regular transaction.
Life(t) ==
  IF owner[t] = "client" THEN "client"
  ELSE IF \/ t \in bus
          \/ \E c \in Ctx : pc[c] = "sent" /\ pSelectedTxn[c] = t /\ eStatus[c] # "PENDING"
       THEN "bus"
  ELSE IF \/ \E i \in 1 .. Len(aTxnQueues[QueueOf(t)]) : aTxnQueues[QueueOf(t)][i] = t
          \/ \E c \in Ctx : pc[c] = "send" /\ pSelectedTxn[c] = t
       THEN "accepted"
  ELSE "finished"

Service == INSTANCE TxnService WITH
             Txn <- Txn \ SingleStep,
             FuncOf <- [t \in Txn \ SingleStep |-> FuncOf[t]],
             life <- [t \in Txn \ SingleStep |-> Life(t)]

\* The queue with its two threads implements TxnService: one transaction on
\* the bus at a time, each sent at most once and reported exactly once, and a
\* restart takes back only what was never sent.
ImplementsService == Service!Spec

\* Restarts end: with its guard timer, a function that waits for the bus to
\* finish its transaction gets out of RESTART.
RestartEnds == \A f \in Func : eState[f] = "RESTART" ~> eState[f] # "RESTART"

\* A transaction handed over while its function runs is given back, unless the
\* function is stopped or restarted meanwhile.
Served ==
  \A t \in Txn \ SingleStep :
    owner[t] = "txnq" ~> owner[t] = "client" \/ eState[FuncOf[t]] # "RUNNING"
================================================================================

--------------------------------- MODULE TwIf ---------------------------------
(***************************************************************************)
(* The bus interface of the WLAN driver (TWD/TwIf/TwIf.c): it counts the   *)
(* transactions under way and the requests to stay awake, wakes the device *)
(* for the former, lets it sleep when there are neither, hands completions *)
(* over from the TxnDone thread to the driver's context, and is restarted  *)
(* by a stop or a recovery.                                                *)
(*                                                                         *)
(* The transaction queue below it is taken at the level of its service     *)
(* (see TxnService): a transaction is served in the call, or queued, put on*)
(* the bus and reported later, on the TxnDone thread.  The ELP register    *)
(* write is served before the queue, also when the function is stopped.    *)
(***************************************************************************)
EXTENDS Integers, Sequences, FiniteSets

CONSTANTS
  Txn, NoTxn,
  WithCb,            \* transactions with a completion callback
  MaxAwake,          \* bound: awake requests held at a time
  MaxRestarts,       \* bound: stops and recoveries
  MaxErrors,         \* bound: transactions that fail
  BusDies,           \* may the bus not call back
  GuardRaces,        \* may the guard timer expire although the bus will call back
  LateReport,        \* may a restart overlap the report of a completion
  StrayInterrupt     \* may an interrupt be served after the driver was stopped

ASSUME TwIfAssumption ==
  /\ NoTxn \notin Txn /\ WithCb \subseteq Txn
  /\ MaxAwake \in Nat /\ MaxRestarts \in Nat /\ MaxErrors \in Nat
  /\ {BusDies, GuardRaces, LateReport, StrayInterrupt} \subseteq BOOLEAN

VARIABLES
  eState, uAwakeReqCount, uPendingTxnCount,
  hTxnDoneQueue, bTxnDoneInRecovery, bPendRestartTimerRunning,
  guard,             \* the guard timer: off, running, expiry queued
  sched,             \* the driver's task will call twIf_HandleTxnDone
  handler,           \* where twIf_HandleTxnDone is
  qState, queue,     \* the transaction queue's function state and queue
  bus, dead,         \* the transaction on the bus; it will never complete
  report, recovered, \* a completion on its way to twIf_TxnDoneCb; its status is RECOVERY
  failed,            \* transactions that ended with an error, later than their call
  elp,               \* the ELP write that waits for the bus
  asleep, irq,       \* the device sleeps; its interrupt waits to be served
  call, callStatus,  \* a twIf_Transact that is about to return from txnQ_Transact
  phase,             \* of the driver
  initDone,          \* a transaction has completed since the device was switched on
  old,               \* transactions issued before the device was switched off
  recover,           \* a bus failure was reported to the health monitor
  stale,             \* history: something happened on the wrong side of a restart's end
  restarts, errors

countVars == <<eState, uAwakeReqCount, uPendingTxnCount>>
doneVars  == <<hTxnDoneQueue, sched, handler>>
recVars   == <<bTxnDoneInRecovery, bPendRestartTimerRunning, guard>>
queueVars == <<qState, queue, bus, dead, report, recovered, failed>>
devVars   == <<elp, asleep, irq>>
callVars  == <<call, callStatus>>
lifeVars  == <<phase, initDone, old, recover, stale>>
boundVars == <<restarts, errors>>
vars == <<countVars, doneVars, recVars, queueVars, devVars, callVars, lifeVars, boundVars>>

TypeOK ==
  /\ eState \in {"AWAKE", "SLEEP", "WAIT_HW"}
  /\ uAwakeReqCount \in Nat /\ uPendingTxnCount \in Nat
  /\ hTxnDoneQueue \in Seq(WithCb) /\ sched \in BOOLEAN
  /\ handler \in {"no", "loop", "cb"}
  /\ bTxnDoneInRecovery \in BOOLEAN /\ bPendRestartTimerRunning \in BOOLEAN
  /\ guard \in {"off", "running", "queued"}
  /\ qState \in {"STOPPED", "RUNNING", "RESTART"} /\ queue \in Seq(Txn)
  /\ bus \in Txn \cup {NoTxn} /\ report \in Txn \cup {NoTxn}
  /\ dead \in BOOLEAN /\ recovered \in BOOLEAN /\ failed \subseteq Txn
  /\ elp \in {"none", "SLEEP", "AWAKE"} /\ asleep \in BOOLEAN /\ irq \in BOOLEAN
  /\ call \in Txn \cup {NoTxn} /\ callStatus \in {"COMPLETE", "PENDING", "ERROR"}
  /\ phase \in {"run", "restart", "stopping", "stopped", "init"}
  /\ initDone \in BOOLEAN /\ old \subseteq Txn
  /\ {recover, stale} \subseteq BOOLEAN
  /\ restarts \in 0 .. MaxRestarts /\ errors \in 0 .. MaxErrors

\* An operational driver with the device asleep.
Init ==
  /\ eState = "SLEEP" /\ uAwakeReqCount = 0 /\ uPendingTxnCount = 0
  /\ hTxnDoneQueue = <<>> /\ sched = FALSE /\ handler = "no"
  /\ bTxnDoneInRecovery = FALSE /\ bPendRestartTimerRunning = FALSE /\ guard = "off"
  /\ qState = "STOPPED" /\ queue = <<>> /\ bus = NoTxn /\ dead = FALSE
  /\ report = NoTxn /\ recovered = FALSE /\ failed = {}
  /\ elp = "none" /\ asleep = TRUE /\ irq = FALSE
  /\ call = NoTxn /\ callStatus = "COMPLETE"
  /\ phase = "run" /\ initDone = TRUE /\ old = {} /\ recover = FALSE
  /\ stale = FALSE
  /\ restarts = 0 /\ errors = 0

------------------------------------------------------------------------------
(* The state machine, twIf_HandleSmEvent.                                  *)

SmSleep ==
  IF eState = "AWAKE"
  THEN eState' = "SLEEP" /\ qState' = "STOPPED" /\ elp' = "SLEEP"
  ELSE UNCHANGED <<eState, qState, elp>>

SmStart ==
  IF eState = "SLEEP"
  THEN eState' = "WAIT_HW" /\ elp' = "AWAKE"
  ELSE UNCHANGED <<eState, elp>>

\* Mutant: a sleeping device is not told to stay awake.
HwAvailableNoElp ==
  /\ eState' = "AWAKE"
  /\ qState' = IF eState = "AWAKE" THEN qState ELSE "RUNNING"
  /\ UNCHANGED elp

SmHwAvailable ==
  /\ eState' = "AWAKE"
  /\ elp' = IF eState = "SLEEP" THEN "AWAKE" ELSE elp
  /\ qState' = IF eState = "AWAKE" THEN qState ELSE "RUNNING"

\* Mutant: transactions without an awake request are forgotten.
NoAwakeRequest(awake, pending) == awake = 0

\* Nobody needs the device.
MaySleep(awake, pending) == awake = 0 /\ pending = 0

\* Mutant: the device is not put to sleep.
CountOnly(awake, pending) ==
  /\ uAwakeReqCount' = awake /\ uPendingTxnCount' = pending
  /\ UNCHANGED <<eState, qState, elp>>

\* The counters get their new values, and the device may sleep if both are 0.
CountAndSleep(awake, pending) ==
  /\ uAwakeReqCount' = awake /\ uPendingTxnCount' = pending
  /\ IF MaySleep(awake, pending) THEN SmSleep ELSE UNCHANGED <<eState, qState, elp>>

\* "in case of callback on recovery after restart".
Less1(n) == IF n > 0 THEN n - 1 ELSE 0

------------------------------------------------------------------------------
(* Calls of the transfer modules, from their own handlers or from the      *)
(* completion callback of a transaction.                                   *)

In(s, t) == \E i \in 1 .. Len(s) : s[i] = t

UnderWay(t) == t \in {bus, report} \/ In(queue, t) \/ In(hTxnDoneQueue, t)

\* The driver's context is free for a call, or for a handler.
MayCall == call = NoTxn /\ handler # "loop" /\ phase # "restart"
ContextFree == call = NoTxn /\ handler = "no" /\ phase # "restart"

\* An interrupt that came before the stop may still be served after it.
Stray == StrayInterrupt /\ phase = "stopping" /\ handler = "no"

\* The modules are active.
Active == phase = "run" \/ (Stray /\ eState = "AWAKE")

Awake ==
  /\ MayCall /\ Active
  /\ uAwakeReqCount < MaxAwake
  /\ uAwakeReqCount' = uAwakeReqCount + 1
  /\ UNCHANGED <<eState, uPendingTxnCount, doneVars, recVars, queueVars, devVars, callVars,
                 lifeVars, boundVars>>

Sleep ==
  /\ MayCall /\ Active
  /\ CountAndSleep(Less1(uAwakeReqCount), uPendingTxnCount)
  /\ UNCHANGED <<doneVars, recVars, queue, bus, dead, report, recovered, failed, asleep, irq,
                 callVars, lifeVars, boundVars>>

\* The queue serves a transaction in the call.
BusFree == qState = "RUNNING" /\ queue = <<>> /\ bus = NoTxn /\ report = NoTxn /\ elp = "none"

\* twIf_SendTransaction up to the return of txnQ_Transact.  The device is
\* initialised by one transaction after the other; an interrupt served after the
\* stop reads its cause with one.
Transact(t) ==
  /\ MayCall
  /\ \/ Active /\ (phase = "stopping" => uPendingTxnCount = 0)
     \/ /\ phase = "init" /\ ~initDone
        /\ t \in WithCb /\ \A u \in Txn : UnderWay(u) => u \in old
  /\ ~UnderWay(t)
  /\ uPendingTxnCount' = uPendingTxnCount + 1
  /\ call' = t
  /\ old' = IF phase = "stopping" THEN old \cup {t} ELSE old
  /\ stale' = (stale \/ phase = "stopping")
  /\ \/ /\ BusFree
        /\ callStatus' = "COMPLETE"
        /\ UNCHANGED <<queue, bus, errors>>
     \/ /\ BusFree
        /\ errors < MaxErrors /\ errors' = errors + 1
        /\ callStatus' = "ERROR"
        /\ UNCHANGED <<queue, bus>>
     \/ /\ BusFree
        /\ callStatus' = "PENDING"
        /\ bus' = t
        /\ UNCHANGED <<queue, errors>>
     \/ /\ ~BusFree
        /\ callStatus' = "PENDING"
        /\ queue' = Append(queue, t)
        /\ UNCHANGED <<bus, errors>>
  /\ UNCHANGED <<eState, uAwakeReqCount, doneVars, recVars, qState, dead, report, recovered, failed,
                 devVars, phase, initDone, recover, restarts>>

\* The rest of twIf_SendTransaction.  Meanwhile the TxnDone thread may have
\* completed a transaction that is reported as pending.
TransactReturns ==
  /\ call # NoTxn
  /\ call' = NoTxn
  /\ \/ /\ callStatus = "PENDING"
        /\ SmStart
        /\ UNCHANGED <<uAwakeReqCount, uPendingTxnCount, qState, initDone, recover>>
     \/ /\ callStatus # "PENDING"
        /\ CountAndSleep(uAwakeReqCount, uPendingTxnCount - 1)
        /\ recover' = (recover \/ callStatus = "ERROR")
        /\ initDone' = TRUE
  /\ UNCHANGED <<doneVars, recVars, queue, bus, dead, report, recovered, failed, asleep, irq,
                 callStatus, phase, old, stale, boundVars>>

\* fwEvent_NewEvent, which keeps the device awake, once, and tells TwIf.
HwAvailable ==
  /\ ContextFree
  /\ irq /\ (phase = "run" \/ Stray)
  /\ uAwakeReqCount <= MaxAwake
  /\ irq' = FALSE
  /\ uAwakeReqCount' = uAwakeReqCount + 1
  /\ SmHwAvailable
  /\ UNCHANGED <<uPendingTxnCount, doneVars, recVars, queue, bus, dead, report, recovered, failed,
                 asleep, callVars, lifeVars, boundVars>>

------------------------------------------------------------------------------
(* The bus, the device and the TxnDone thread.                             *)

\* The ELP register is written; a device that is told to wake up interrupts.
WriteElpReg ==
  /\ elp # "none" /\ bus = NoTxn /\ report = NoTxn
  /\ elp' = "none"
  /\ asleep' = (elp = "SLEEP")
  /\ irq' = (irq \/ elp = "AWAKE")
  /\ UNCHANGED <<countVars, doneVars, recVars, queueVars, callVars, lifeVars, boundVars>>

Interrupt ==
  /\ phase = "run" /\ ~irq
  /\ irq' = TRUE
  /\ UNCHANGED <<countVars, doneVars, recVars, queueVars, elp, asleep, callVars, lifeVars, boundVars>>

BusNext ==
  /\ qState = "RUNNING" /\ queue # <<>> /\ bus = NoTxn /\ report = NoTxn /\ elp = "none"
  /\ bus' = Head(queue) /\ queue' = Tail(queue)
  /\ UNCHANGED <<countVars, doneVars, recVars, qState, dead, report, recovered, failed, devVars,
                 callVars, lifeVars, boundVars>>

\* txnQ_ClearQueues: all but the transaction on the bus is dropped, a waiting ELP
\* write too.
ClearQueues ==
  /\ queue' = <<>> /\ qState' = "RUNNING" /\ elp' = "none"
  /\ old' = {t \in old : t \in {bus, report} \/ In(hTxnDoneQueue, t)}

\* txnQ_TxnDoneCb: a pending restart is carried out, and reported as such.
BusDone ==
  /\ bus # NoTxn /\ ~dead
  /\ LateReport \/ phase # "restart"
  /\ bus' = NoTxn /\ report' = bus
  /\ recovered' = (qState = "RESTART")
  /\ IF qState = "RESTART"
     THEN ClearQueues /\ UNCHANGED <<failed, errors>>
     ELSE /\ \/ failed' = failed \ {bus} /\ UNCHANGED errors
             \/ errors < MaxErrors /\ errors' = errors + 1 /\ failed' = failed \cup {bus}
          /\ UNCHANGED <<queue, qState, elp, old>>
  /\ UNCHANGED <<countVars, doneVars, recVars, dead, asleep, irq, callVars, phase, initDone, recover,
                 stale, restarts>>

BusLost ==
  /\ BusDies /\ bus # NoTxn /\ ~dead
  /\ dead' = TRUE
  /\ UNCHANGED <<countVars, doneVars, recVars, qState, queue, bus, report, recovered, failed, devVars,
                 callVars, lifeVars, boundVars>>

\* Mutant: a transaction without a callback stays counted.
NotCounted(n) == n

\* A transaction that has no callback is counted off at once.
CountOff(n) == Less1(n)

\* twIf_TxnDoneCb.
TxnDoneCb ==
  /\ report # NoTxn
  /\ report' = NoTxn
  /\ sched' = TRUE
  /\ \/ /\ recovered
        /\ bTxnDoneInRecovery' = TRUE
        /\ old' = old \ {report}
        /\ UNCHANGED <<hTxnDoneQueue, uPendingTxnCount, stale>>
     \/ /\ ~recovered /\ report \in WithCb
        /\ hTxnDoneQueue' = Append(hTxnDoneQueue, report)
        /\ UNCHANGED <<bTxnDoneInRecovery, uPendingTxnCount, stale, old>>
     \/ /\ ~recovered /\ report \notin WithCb
        /\ uPendingTxnCount' = CountOff(uPendingTxnCount)
        /\ stale' = (stale \/ report \in old)
        /\ old' = old \ {report}
        /\ UNCHANGED <<bTxnDoneInRecovery, hTxnDoneQueue>>
  /\ UNCHANGED <<eState, uAwakeReqCount, handler, bPendRestartTimerRunning, guard, qState, queue,
                 bus, dead, recovered, failed, devVars, callVars, phase, initDone, recover,
                 boundVars>>

------------------------------------------------------------------------------
(* twIf_HandleTxnDone and the end of a restart.                            *)

\* Mutant: the restart is not continued.
NotContinued == UNCHANGED phase

\* fRecoveryCb, which is TWD_StopComplete.
Continue == phase' = IF phase = "stopping" THEN "stopped" ELSE phase

HandleTxnDone ==
  /\ ContextFree
  /\ sched
  /\ sched' = FALSE
  /\ \/ /\ bTxnDoneInRecovery
        /\ bTxnDoneInRecovery' = FALSE
        /\ bPendRestartTimerRunning' = FALSE
        /\ guard' = IF guard = "running" THEN "off" ELSE guard
        /\ Continue
        /\ UNCHANGED handler
     \/ /\ ~bTxnDoneInRecovery
        /\ handler' = "loop"
        /\ UNCHANGED <<recVars, phase>>
  /\ UNCHANGED <<countVars, hTxnDoneQueue, queueVars, devVars, callVars, initDone, old, recover,
                 stale, boundVars>>

\* A completed transaction is counted off and called back, or reported as a
\* failure; then the rest of the queue is left alone.
HandleOne ==
  /\ handler = "loop" /\ hTxnDoneQueue # <<>>
  /\ LET t == Head(hTxnDoneQueue)
     IN /\ hTxnDoneQueue' = Tail(hTxnDoneQueue)
        /\ uPendingTxnCount' = Less1(uPendingTxnCount)
        /\ old' = old \ {t}
        /\ stale' = (stale \/ t \in old)
        /\ \/ /\ t \in failed
              /\ recover' = TRUE
              /\ handler' = "no"
              /\ UNCHANGED initDone
           \/ /\ t \notin failed
              /\ handler' = "cb"
              /\ initDone' = (initDone \/ t \notin old)
              /\ UNCHANGED recover
  /\ UNCHANGED <<eState, uAwakeReqCount, sched, recVars, queueVars, devVars, callVars, phase, boundVars>>

\* The sleep decision after a callback and after the last transaction.
HandleNext ==
  /\ call = NoTxn
  /\ \/ handler = "cb" /\ handler' = "loop"
     \/ handler = "loop" /\ hTxnDoneQueue = <<>> /\ handler' = "no"
  /\ CountAndSleep(uAwakeReqCount, uPendingTxnCount)
  /\ UNCHANGED <<hTxnDoneQueue, sched, recVars, queue, bus, dead, report, recovered, failed, asleep,
                 irq, callVars, lifeVars, boundVars>>

------------------------------------------------------------------------------
(* Restart, and what the driver does around it.                            *)

\* twIf_Restart up to txnQ_Restart.
Restart ==
  /\ ContextFree
  /\ phase \in {"run", "init"}
  /\ LateReport \/ report = NoTxn
  /\ \/ recover /\ UNCHANGED restarts
     \/ ~recover /\ restarts < MaxRestarts /\ restarts' = restarts + 1
  /\ eState' = "SLEEP" /\ uAwakeReqCount' = 0 /\ uPendingTxnCount' = 0
  /\ hTxnDoneQueue' = <<>>
  /\ old' = {t \in Txn : t \in {bus, report} \/ In(queue, t)}
  /\ recover' = FALSE
  /\ phase' = "restart"
  /\ UNCHANGED <<sched, handler, recVars, queueVars, devVars, callVars, initDone, stale, errors>>

\* txnQ_Restart: the queues are cleared, or will be when the transaction on the
\* bus is done.  A completion that is being reported may count as either.
RestartQueue ==
  /\ phase = "restart"
  /\ \/ /\ bus # NoTxn \/ report # NoTxn
        /\ qState' = "RESTART"
        /\ bPendRestartTimerRunning' = TRUE /\ guard' = "running"
        /\ phase' = "stopping"
        /\ UNCHANGED <<queue, elp, old>>
     \/ /\ bus = NoTxn
        /\ ClearQueues
        /\ phase' = "stopped"
        /\ UNCHANGED <<bPendRestartTimerRunning, guard>>
  /\ UNCHANGED <<countVars, doneVars, bTxnDoneInRecovery, bus, dead, report, recovered, failed,
                 asleep, irq, callVars, initDone, recover, stale,
                 boundVars>>

\* The completion of the pending restart is on its way.
RecoveryComing ==
  \/ bus # NoTxn /\ ~dead /\ qState = "RESTART"
  \/ report # NoTxn /\ recovered
  \/ bTxnDoneInRecovery

GuardExpires ==
  /\ guard = "running"
  /\ GuardRaces \/ ~RecoveryComing
  /\ guard' = "queued"
  /\ UNCHANGED <<countVars, doneVars, bTxnDoneInRecovery, bPendRestartTimerRunning, queueVars,
                 devVars, callVars, lifeVars, boundVars>>

\* twIf_PendRestratTimeout, which continues the restart in the completion's place.
PendRestratTimeout ==
  /\ ContextFree
  /\ guard = "queued"
  /\ guard' = "off" /\ bPendRestartTimerRunning' = FALSE
  /\ ClearQueues
  /\ Continue
  /\ stale' = (stale \/ phase # "stopping")
  /\ UNCHANGED <<countVars, doneVars, bTxnDoneInRecovery, bus, dead, report, recovered, failed,
                 asleep, irq, callVars, initDone, recover, boundVars>>

\* TWD_InitHw, after the device was switched off and on.
InitHw ==
  /\ ContextFree
  /\ phase = "stopped"
  /\ phase' = "init" /\ initDone' = FALSE
  /\ asleep' = FALSE /\ irq' = FALSE
  /\ uAwakeReqCount' = uAwakeReqCount + 1
  /\ SmHwAvailable
  /\ UNCHANGED <<uPendingTxnCount, doneVars, recVars, queue, bus, dead, report, recovered, failed,
                 callVars, old, recover, stale, boundVars>>

\* TWD_EnableExternalEvents, when the device is initialised; then
\* tmr_UpdateDriverState forgets the expiries of timers that were started before.
EnableExternalEvents ==
  /\ ContextFree
  /\ phase = "init" /\ initDone
  /\ \A t \in Txn : UnderWay(t) => t \in old
  /\ phase' = "run"
  /\ CountAndSleep(Less1(uAwakeReqCount), uPendingTxnCount)
  /\ guard' = "off"
  /\ UNCHANGED <<doneVars, bTxnDoneInRecovery, bPendRestartTimerRunning, queue, bus, dead, report,
                 recovered, failed, asleep, irq, callVars, initDone, old, recover, stale, boundVars>>

TxnDoneThread == BusNext \/ BusDone \/ TxnDoneCb \/ WriteElpReg
Handler == HandleTxnDone \/ HandleOne \/ HandleNext \/ TransactReturns

Next ==
  \/ Awake \/ Sleep \/ HwAvailable
  \/ \E t \in Txn : Transact(t)
  \/ Handler
  \/ TxnDoneThread \/ Interrupt \/ BusLost
  \/ Restart \/ RestartQueue \/ GuardExpires \/ PendRestratTimeout
  \/ InitHw \/ EnableExternalEvents

Spec == Init /\ [][Next]_vars

\* The bus and both threads keep working, callbacks return, timers expire, an
\* awake request is taken back at last, and the driver goes on initialising.
Fairness ==
  /\ WF_vars(TxnDoneThread) /\ SF_vars(HandleTxnDone)
  /\ WF_vars(HandleOne) /\ SF_vars(HandleNext) /\ WF_vars(TransactReturns)
  /\ SF_vars(HwAvailable) /\ SF_vars(uAwakeReqCount > 0 /\ Sleep)
  /\ SF_vars(recover /\ Restart) /\ WF_vars(RestartQueue)
  /\ WF_vars(GuardExpires) /\ SF_vars(PendRestratTimeout)
  /\ WF_vars(InitHw) /\ WF_vars(EnableExternalEvents)
  /\ WF_vars(phase = "init" /\ ~initDone /\ \E t \in Txn : Transact(t))

FairSpec == Spec /\ Fairness

------------------------------------------------------------------------------
(* Properties.                                                             *)

\* The transactions that uPendingTxnCount stands for.
Counted == {t \in Txn \ old : UnderWay(t)} \cup
           (IF call # NoTxn /\ callStatus # "PENDING" THEN {call} ELSE {})

\* In an operational driver the counter is the number of transactions under
\* way that no restart has dropped, whichever thread completes them.  Three things
\* put it out of step: a completion that overlaps a restart and is counted off
\* after it, from a counter that was zeroed; an expiry of the guard timer that was
\* queued before the completion stopped the timer and drops newer transactions;
\* and a transaction of an interrupt that is served while the restart waits.
PendingCounted ==
  /\ TypeOK
  /\ phase = "run" /\ ~stale => uPendingTxnCount = Cardinality(Counted)

\* The bus is given transactions only while the device is awake: it was told so
\* after it had last been allowed to sleep.
BusNeedsAwakeDevice == [][bus # bus' /\ bus' # NoTxn => ~asleep]_vars

\* Every transaction that no restart has dropped is completed, in particular a
\* sleeping device is woken for it and an error that ends twIf_HandleTxnDone early
\* does not leave it in the done queue for ever.  Excepted are a dead bus and the
\* mixed up restarts of PendingCounted, whose wrong counter lets the device sleep.
TransactionEnds ==
  \A t \in Txn : UnderWay(t) /\ t \notin old ~> ~UnderWay(t) \/ t \in old \/ dead \/ stale

\* An operational driver that needs the device no more lets it sleep, unless its
\* counter is wrong (see PendingCounted).
IdleSleeps ==
  (phase = "run" /\ ~stale /\ uAwakeReqCount = 0 /\ \A t \in Txn : ~UnderWay(t)) ~>
     (eState = "SLEEP" \/ stale \/ uAwakeReqCount > 0 \/ \E t \in Txn : UnderWay(t) \/ call = t)

\* Unless the bus died: a restart ends, by the completion or by the guard timer,
\* and the driver becomes operational again, although an interrupt served while
\* the restart waits makes txnQ_Run cancel the queue's RESTART state.
RestartEnds == phase # "run" ~> phase = "run" \/ dead
==============================================================================

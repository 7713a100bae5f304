------------------------------ MODULE TwIfProofs ------------------------------
(***************************************************************************)
(* Theorems about TwIf, for any transactions and any number of restarts    *)
(* and errors: the bus is used only while the device is awake, and         *)
(* uPendingTxnCount counts the transactions that are under way.  Neither   *)
(* is inductive.  The first needs what the guard timer, the ELP write and  *)
(* the initialisation mean for a sleeping device; the second needs to know *)
(* in which one place every transaction is, and which of them a restart    *)
(* has already taken off the count.                                        *)
(***************************************************************************)
EXTENDS TwIf, FiniteSetTheorems, TLAPS

------------------------------------------------------------------------------
(* The type invariant in five parts, and the call that is about to return. *)

ModeTypes ==
  /\ eState \in {"AWAKE", "SLEEP", "WAIT_HW"} /\ handler \in {"no", "loop", "cb"}
  /\ guard \in {"off", "running", "queued"} /\ elp \in {"none", "SLEEP", "AWAKE"}
  /\ qState \in {"STOPPED", "RUNNING", "RESTART"}
  /\ callStatus \in {"COMPLETE", "PENDING", "ERROR"}
  /\ phase \in {"run", "restart", "stopping", "stopped", "init"}

FlagTypes ==
  /\ sched \in BOOLEAN /\ bTxnDoneInRecovery \in BOOLEAN /\ bPendRestartTimerRunning \in BOOLEAN
  /\ dead \in BOOLEAN /\ recovered \in BOOLEAN /\ asleep \in BOOLEAN /\ irq \in BOOLEAN
  /\ initDone \in BOOLEAN /\ recover \in BOOLEAN /\ stale \in BOOLEAN

CountTypes ==
  /\ uAwakeReqCount \in Nat /\ uPendingTxnCount \in Nat
  /\ restarts \in 0 .. MaxRestarts /\ errors \in 0 .. MaxErrors

QueueTypes == hTxnDoneQueue \in Seq(WithCb) /\ queue \in Seq(Txn)

TxnTypes ==
  /\ bus \in Txn \cup {NoTxn} /\ report \in Txn \cup {NoTxn} /\ call \in Txn \cup {NoTxn}
  /\ failed \subseteq Txn /\ old \subseteq Txn

Types == ModeTypes /\ FlagTypes /\ CountTypes /\ QueueTypes /\ TxnTypes

\* A transaction that was served in the call is counted until the call returns,
\* and meanwhile nothing else is under way on the bus.
CallInv ==
  call # NoTxn =>
    /\ handler # "loop"
    /\ callStatus # "PENDING" =>
         uPendingTxnCount > 0 /\ queue = <<>> /\ bus = NoTxn /\ report = NoTxn
         /\ ~In(hTxnDoneQueue, call)

------------------------------------------------------------------------------
(* The invariant behind BusNeedsAwakeDevice.                               *)

\* The guard timer's expiry cannot meet an operational driver.
GuardInv == phase = "run" => guard = "off"

\* While the device is initialised the driver holds an awake request.
InitInv == phase = "init" => ~asleep /\ eState = "AWAKE" /\ uAwakeReqCount > 0

\* A device that is told to sleep is not expected to be awake.
ElpInv ==
  /\ elp = "SLEEP" => eState = "SLEEP" /\ qState # "RUNNING"
  /\ eState = "WAIT_HW" /\ elp = "none" /\ phase # "stopped" => ~asleep

\* A sleeping device has nothing on its bus, and the queue runs with it only
\* when the queue is empty and the driver is stopped.
AsleepInv ==
  asleep => /\ bus = NoTxn /\ report = NoTxn
            /\ qState = "RUNNING" /\ elp = "none" => phase = "stopped" /\ queue = <<>>

BusInv == Types /\ CallInv /\ GuardInv /\ InitInv /\ ElpInv /\ AsleepInv

------------------------------------------------------------------------------
(* The invariant behind PendingCounted.                                    *)

Distinct(s) == \A i, j \in 1 .. Len(s) : s[i] = s[j] => i = j

\* A transaction is in one place at a time, and there once.
PlaceInv ==
  /\ Distinct(queue) /\ Distinct(hTxnDoneQueue)
  /\ bus # NoTxn => report = NoTxn /\ ~In(queue, bus) /\ ~In(hTxnDoneQueue, bus)
  /\ report # NoTxn => ~In(queue, report) /\ ~In(hTxnDoneQueue, report)
  /\ \A t \in Txn : ~(In(queue, t) /\ In(hTxnDoneQueue, t))

\* What a restart left behind is still under way.
OldInv == \A t \in old : UnderWay(t)

\* From the restart to the new initialisation everything is left behind, and only
\* then the queue waits to be restarted.
RestartInv ==
  /\ phase \in {"restart", "stopping", "stopped"} =>
       call = NoTxn /\ \A t \in Txn : UnderWay(t) => t \in old
  /\ phase = "restart" => eState = "SLEEP"
  /\ qState = "RESTART" => phase \in {"stopping", "stopped"} /\ eState = "SLEEP"
  /\ report # NoTxn /\ recovered => report \in old

\* The counter.
CounterInv == IsFiniteSet(Counted) /\ uPendingTxnCount = Cardinality(Counted)

CountInv == Types /\ CallInv /\ PlaceInv /\ (~stale => OldInv /\ RestartInv /\ CounterInv)

------------------------------------------------------------------------------
(* The types and the call survive every step.                              *)

USE TwIfAssumption

\* The types and the call survive Awake.
LEMMA AwakeTypes ==
  ASSUME Types, CallInv, Awake
  PROVE  Types' /\ CallInv'
<1> ModeTypes /\ FlagTypes /\ CountTypes /\ QueueTypes /\ TxnTypes
  BY DEF Types
<1>1. ModeTypes'
  BY DEF Awake, doneVars, recVars, queueVars, devVars, callVars, lifeVars, ModeTypes
<1>2. FlagTypes'
  BY DEF Awake, doneVars, recVars, queueVars, devVars, lifeVars, FlagTypes
<1>3. CountTypes'
  BY DEF Awake, boundVars, CountTypes
<1>4. QueueTypes'
  BY DEF Awake, doneVars, queueVars, QueueTypes
<1>5. TxnTypes'
  BY DEF Awake, queueVars, callVars, lifeVars, TxnTypes
<1>6. CallInv'
  BY DEF Awake, doneVars, queueVars, callVars, CallInv
<1> QED
  BY <1>1, <1>2, <1>3, <1>4, <1>5, <1>6 DEF Types

\* The types and the call survive Sleep.
LEMMA SleepTypes ==
  ASSUME Types, CallInv, Sleep
  PROVE  Types' /\ CallInv'
<1> ModeTypes /\ FlagTypes /\ CountTypes /\ QueueTypes /\ TxnTypes
  BY DEF Types
<1>1. ModeTypes'
  BY DEF Sleep, CountAndSleep, doneVars, recVars, callVars, lifeVars, SmSleep, ModeTypes
<1>2. FlagTypes'
  BY DEF Sleep, doneVars, recVars, lifeVars, FlagTypes
<1>3. CountTypes'
  BY DEF Sleep, CountAndSleep, Less1, boundVars, CountTypes
<1>4. QueueTypes'
  BY DEF Sleep, doneVars, QueueTypes
<1>5. TxnTypes'
  BY DEF Sleep, callVars, lifeVars, TxnTypes
<1>6. CallInv'
  BY DEF Sleep, CountAndSleep, doneVars, callVars, CallInv
<1> QED
  BY <1>1, <1>2, <1>3, <1>4, <1>5, <1>6 DEF Types

\* The types and the call survive HwAvailable.
LEMMA HwAvailableTypes ==
  ASSUME Types, CallInv, HwAvailable
  PROVE  Types' /\ CallInv'
<1> ModeTypes /\ FlagTypes /\ CountTypes /\ QueueTypes /\ TxnTypes
  BY DEF Types
<1>1. ModeTypes'
  BY DEF HwAvailable, SmHwAvailable, doneVars, recVars, callVars, lifeVars, ModeTypes
<1>2. FlagTypes'
  BY DEF HwAvailable, ContextFree, Stray, SmHwAvailable, doneVars, recVars, callVars, lifeVars,
      boundVars, FlagTypes
<1>3. CountTypes'
  BY DEF HwAvailable, boundVars, CountTypes
<1>4. QueueTypes'
  BY DEF HwAvailable, doneVars, QueueTypes
<1>5. TxnTypes'
  BY DEF HwAvailable, callVars, lifeVars, TxnTypes
<1>6. CallInv'
  BY DEF HwAvailable, doneVars, callVars, CallInv
<1> QED
  BY <1>1, <1>2, <1>3, <1>4, <1>5, <1>6 DEF Types

\* The types and the call survive Transact.
LEMMA TransactTypes ==
  ASSUME NEW t \in Txn, Types, CallInv, Transact(t)
  PROVE  Types' /\ CallInv'
<1> ModeTypes /\ FlagTypes /\ CountTypes /\ QueueTypes /\ TxnTypes
  BY DEF Types
<1>1. ModeTypes'
  BY DEF Transact, doneVars, recVars, devVars, ModeTypes
<1>2. FlagTypes'
  BY DEF Transact, doneVars, recVars, devVars, FlagTypes
<1>3. CountTypes'
  BY DEF Transact, CountTypes
<1>4. QueueTypes'
  <2>1. queue' \in {queue, Append(queue, t)}
    BY DEF Transact
  <2>2. UNCHANGED hTxnDoneQueue
    BY DEF Transact, doneVars
  <2> QED
    BY <2>1, <2>2 DEF QueueTypes
<1>5. TxnTypes'
  BY DEF Transact, TxnTypes
<1>6. CallInv'
  BY DEF Transact, MayCall, BusFree, doneVars, CallInv, CountTypes, UnderWay
<1> QED
  BY <1>1, <1>2, <1>3, <1>4, <1>5, <1>6 DEF Types

\* The types and the call survive HandleTxnDone.
LEMMA HandleTxnDoneTypes ==
  ASSUME Types, CallInv, HandleTxnDone
  PROVE  Types' /\ CallInv'
<1> ModeTypes /\ FlagTypes /\ CountTypes /\ QueueTypes /\ TxnTypes
  BY DEF Types
<1>1. ModeTypes'
  BY DEF HandleTxnDone, Continue, recVars, countVars, queueVars, devVars, callVars, ModeTypes
<1>2. FlagTypes'
  BY DEF HandleTxnDone, ContextFree, Continue, recVars, countVars, queueVars, devVars, callVars,
      boundVars, FlagTypes
<1>3. CountTypes'
  BY DEF HandleTxnDone, countVars, boundVars, CountTypes
<1>4. QueueTypes'
  BY DEF HandleTxnDone, queueVars, QueueTypes
<1>5. TxnTypes'
  BY DEF HandleTxnDone, queueVars, callVars, TxnTypes
<1>6. CallInv'
  BY DEF HandleTxnDone, ContextFree, callVars, CallInv
<1> QED
  BY <1>1, <1>2, <1>3, <1>4, <1>5, <1>6 DEF Types

\* The types and the call survive HandleOne.
LEMMA HandleOneTypes ==
  ASSUME Types, CallInv, HandleOne
  PROVE  Types' /\ CallInv'
<1> ModeTypes /\ FlagTypes /\ CountTypes /\ QueueTypes /\ TxnTypes
  BY DEF Types
<1>1. ModeTypes'
  BY DEF HandleOne, recVars, queueVars, devVars, callVars, ModeTypes
<1>2. FlagTypes'
  BY DEF HandleOne, Less1, recVars, queueVars, devVars, callVars, boundVars, FlagTypes
<1>3. CountTypes'
  BY DEF HandleOne, Less1, boundVars, CountTypes
<1>4. QueueTypes'
  BY DEF HandleOne, queueVars, QueueTypes
<1>5. TxnTypes'
  BY DEF HandleOne, queueVars, callVars, TxnTypes
<1>6. CallInv'
  BY DEF HandleOne, callVars, CallInv
<1> QED
  BY <1>1, <1>2, <1>3, <1>4, <1>5, <1>6 DEF Types

\* The types and the call survive HandleNext.
LEMMA HandleNextTypes ==
  ASSUME Types, CallInv, HandleNext
  PROVE  Types' /\ CallInv'
<1> ModeTypes /\ FlagTypes /\ CountTypes /\ QueueTypes /\ TxnTypes
  BY DEF Types
<1>1. ModeTypes'
  BY DEF HandleNext, CountAndSleep, recVars, callVars, lifeVars, SmSleep, ModeTypes
<1>2. FlagTypes'
  BY DEF HandleNext, recVars, lifeVars, FlagTypes
<1>3. CountTypes'
  BY DEF HandleNext, CountAndSleep, boundVars, CountTypes
<1>4. QueueTypes'
  BY DEF HandleNext, QueueTypes
<1>5. TxnTypes'
  BY DEF HandleNext, callVars, lifeVars, TxnTypes
<1>6. CallInv'
  BY DEF HandleNext, callVars, CallInv
<1> QED
  BY <1>1, <1>2, <1>3, <1>4, <1>5, <1>6 DEF Types

\* The types and the call survive TransactReturns.
LEMMA TransactReturnsTypes ==
  ASSUME Types, CallInv, TransactReturns
  PROVE  Types' /\ CallInv'
<1> ModeTypes /\ FlagTypes /\ CountTypes /\ QueueTypes /\ TxnTypes
  BY DEF Types
<1>1. ModeTypes'
  BY DEF TransactReturns, SmStart, CountAndSleep, doneVars, recVars, SmSleep, ModeTypes
<1>2. FlagTypes'
  BY DEF TransactReturns, SmStart, CountAndSleep, doneVars, recVars, boundVars, MaySleep,
      SmSleep, FlagTypes
<1>3. CountTypes'
  BY DEF TransactReturns, CountAndSleep, boundVars, CountTypes, CallInv
<1>4. QueueTypes'
  BY DEF TransactReturns, doneVars, QueueTypes
<1>5. TxnTypes'
  BY DEF TransactReturns, TxnTypes
<1>6. CallInv'
  BY DEF TransactReturns, CallInv
<1> QED
  BY <1>1, <1>2, <1>3, <1>4, <1>5, <1>6 DEF Types

\* The types and the call survive BusNext.
LEMMA BusNextTypes ==
  ASSUME Types, CallInv, BusNext
  PROVE  Types' /\ CallInv'
<1> ModeTypes /\ FlagTypes /\ CountTypes /\ QueueTypes /\ TxnTypes
  BY DEF Types
<1>1. ModeTypes'
  BY DEF BusNext, countVars, doneVars, recVars, devVars, callVars, lifeVars, ModeTypes
<1>2. FlagTypes'
  BY DEF BusNext, doneVars, recVars, devVars, lifeVars, FlagTypes
<1>3. CountTypes'
  BY DEF BusNext, countVars, boundVars, CountTypes
<1>4. QueueTypes'
  BY DEF BusNext, doneVars, QueueTypes
<1>5. TxnTypes'
  BY DEF BusNext, callVars, lifeVars, TxnTypes, QueueTypes
<1>6. CallInv'
  BY DEF BusNext, doneVars, callVars, CallInv
<1> QED
  BY <1>1, <1>2, <1>3, <1>4, <1>5, <1>6 DEF Types

\* The types and the call survive BusDone.
LEMMA BusDoneTypes ==
  ASSUME Types, CallInv, BusDone
  PROVE  Types' /\ CallInv'
<1> ModeTypes /\ FlagTypes /\ CountTypes /\ QueueTypes /\ TxnTypes
  BY DEF Types
<1>1. ModeTypes'
  BY DEF BusDone, ClearQueues, countVars, doneVars, recVars, callVars, ModeTypes
<1>2. FlagTypes'
  BY DEF BusDone, doneVars, recVars, FlagTypes
<1>3. CountTypes'
  BY DEF BusDone, countVars, CountTypes
<1>4. QueueTypes'
  <2>1. queue' = queue \/ queue' = <<>>
    BY DEF BusDone, ClearQueues
  <2>2. UNCHANGED hTxnDoneQueue
    BY DEF BusDone, ClearQueues, doneVars
  <2>3. <<>> \in Seq(Txn)
    OBVIOUS
  <2>4. queue' \in Seq(Txn)
    BY <2>1, <2>3, Zenon DEF QueueTypes
  <2> QED
    BY <2>2, <2>4 DEF QueueTypes
<1>5. TxnTypes'
  BY DEF BusDone, ClearQueues, callVars, TxnTypes
<1>6. CallInv'
  BY DEF BusDone, doneVars, callVars, CallInv
<1> QED
  BY <1>1, <1>2, <1>3, <1>4, <1>5, <1>6 DEF Types

\* The types and the call survive TxnDoneCb.
LEMMA TxnDoneCbTypes ==
  ASSUME Types, CallInv, TxnDoneCb
  PROVE  Types' /\ CallInv'
<1> ModeTypes /\ FlagTypes /\ CountTypes /\ QueueTypes /\ TxnTypes
  BY DEF Types
<1>1. ModeTypes'
  BY DEF TxnDoneCb, devVars, callVars, ModeTypes
<1>2. FlagTypes'
  BY DEF TxnDoneCb, CountOff, devVars, callVars, boundVars, Less1, FlagTypes
<1>3. CountTypes'
  BY DEF TxnDoneCb, CountOff, boundVars, Less1, CountTypes
<1>4. QueueTypes'
  BY DEF TxnDoneCb, devVars, QueueTypes
<1>5. TxnTypes'
  BY DEF TxnDoneCb, callVars, TxnTypes
<1>6. CallInv'
  BY DEF TxnDoneCb, callVars, CallInv
<1> QED
  BY <1>1, <1>2, <1>3, <1>4, <1>5, <1>6 DEF Types

\* The types and the call survive WriteElpReg.
LEMMA WriteElpRegTypes ==
  ASSUME Types, CallInv, WriteElpReg
  PROVE  Types' /\ CallInv'
<1> ModeTypes /\ FlagTypes /\ CountTypes /\ QueueTypes /\ TxnTypes
  BY DEF Types
<1>1. ModeTypes'
  BY DEF WriteElpReg, countVars, doneVars, recVars, queueVars, callVars, lifeVars, ModeTypes
<1>2. FlagTypes'
  BY DEF WriteElpReg, doneVars, recVars, queueVars, lifeVars, FlagTypes
<1>3. CountTypes'
  BY DEF WriteElpReg, countVars, boundVars, CountTypes
<1>4. QueueTypes'
  BY DEF WriteElpReg, doneVars, queueVars, QueueTypes
<1>5. TxnTypes'
  BY DEF WriteElpReg, queueVars, callVars, lifeVars, TxnTypes
<1>6. CallInv'
  BY DEF WriteElpReg, countVars, doneVars, queueVars, callVars, CallInv
<1> QED
  BY <1>1, <1>2, <1>3, <1>4, <1>5, <1>6 DEF Types

\* The types and the call survive Interrupt.
LEMMA InterruptTypes ==
  ASSUME Types, CallInv, Interrupt
  PROVE  Types' /\ CallInv'
<1> ModeTypes /\ FlagTypes /\ CountTypes /\ QueueTypes /\ TxnTypes
  BY DEF Types
<1>1. ModeTypes'
  BY DEF Interrupt, countVars, doneVars, recVars, queueVars, callVars, lifeVars, ModeTypes
<1>2. FlagTypes'
  BY DEF Interrupt, doneVars, recVars, queueVars, lifeVars, FlagTypes
<1>3. CountTypes'
  BY DEF Interrupt, countVars, boundVars, CountTypes
<1>4. QueueTypes'
  BY DEF Interrupt, doneVars, queueVars, QueueTypes
<1>5. TxnTypes'
  BY DEF Interrupt, queueVars, callVars, lifeVars, TxnTypes
<1>6. CallInv'
  BY DEF Interrupt, countVars, doneVars, queueVars, callVars, CallInv
<1> QED
  BY <1>1, <1>2, <1>3, <1>4, <1>5, <1>6 DEF Types

\* The types and the call survive BusLost.
LEMMA BusLostTypes ==
  ASSUME Types, CallInv, BusLost
  PROVE  Types' /\ CallInv'
<1> ModeTypes /\ FlagTypes /\ CountTypes /\ QueueTypes /\ TxnTypes
  BY DEF Types
<1>1. ModeTypes'
  BY DEF BusLost, countVars, doneVars, recVars, devVars, callVars, lifeVars, ModeTypes
<1>2. FlagTypes'
  BY DEF BusLost, doneVars, recVars, devVars, lifeVars, FlagTypes
<1>3. CountTypes'
  BY DEF BusLost, countVars, boundVars, CountTypes
<1>4. QueueTypes'
  BY DEF BusLost, doneVars, QueueTypes
<1>5. TxnTypes'
  BY DEF BusLost, callVars, lifeVars, TxnTypes
<1>6. CallInv'
  BY DEF BusLost, doneVars, callVars, CallInv
<1> QED
  BY <1>1, <1>2, <1>3, <1>4, <1>5, <1>6 DEF Types

\* The types and the call survive Restart.
LEMMA RestartTypes ==
  ASSUME Types, CallInv, Restart
  PROVE  Types' /\ CallInv'
<1> ModeTypes /\ FlagTypes /\ CountTypes /\ QueueTypes /\ TxnTypes
  BY DEF Types
<1>1. ModeTypes'
  BY DEF Restart, recVars, queueVars, devVars, callVars, ModeTypes
<1>2. FlagTypes'
  BY DEF Restart, ContextFree, recVars, queueVars, devVars, callVars, FlagTypes
<1>3. CountTypes'
  BY DEF Restart, CountTypes
<1>4. QueueTypes'
  BY DEF Restart, queueVars, QueueTypes
<1>5. TxnTypes'
  BY DEF Restart, queueVars, callVars, TxnTypes
<1>6. CallInv'
  BY DEF Restart, ContextFree, callVars, CallInv
<1> QED
  BY <1>1, <1>2, <1>3, <1>4, <1>5, <1>6 DEF Types

\* The types and the call survive RestartQueue.
LEMMA RestartQueueTypes ==
  ASSUME Types, CallInv, RestartQueue
  PROVE  Types' /\ CallInv'
<1> ModeTypes /\ FlagTypes /\ CountTypes /\ QueueTypes /\ TxnTypes
  BY DEF Types
<1>1. ModeTypes'
  BY DEF RestartQueue, ClearQueues, countVars, doneVars, callVars, ModeTypes
<1>2. FlagTypes'
  BY DEF RestartQueue, ClearQueues, countVars, doneVars, callVars, boundVars, FlagTypes
<1>3. CountTypes'
  BY DEF RestartQueue, countVars, boundVars, CountTypes
<1>4. QueueTypes'
  <2>1. queue' = queue \/ queue' = <<>>
    BY DEF RestartQueue, ClearQueues
  <2>2. UNCHANGED hTxnDoneQueue
    BY DEF RestartQueue, ClearQueues, doneVars
  <2>3. <<>> \in Seq(Txn)
    OBVIOUS
  <2>4. queue' \in Seq(Txn)
    BY <2>1, <2>3, Zenon DEF QueueTypes
  <2> QED
    BY <2>2, <2>4 DEF QueueTypes
<1>5. TxnTypes'
  BY DEF RestartQueue, ClearQueues, callVars, TxnTypes
<1>6. CallInv'
  BY DEF RestartQueue, ClearQueues, countVars, doneVars, callVars, CallInv
<1> QED
  BY <1>1, <1>2, <1>3, <1>4, <1>5, <1>6 DEF Types

\* The types and the call survive GuardExpires.
LEMMA GuardExpiresTypes ==
  ASSUME Types, CallInv, GuardExpires
  PROVE  Types' /\ CallInv'
<1> ModeTypes /\ FlagTypes /\ CountTypes /\ QueueTypes /\ TxnTypes
  BY DEF Types
<1>1. ModeTypes'
  BY DEF GuardExpires, countVars, doneVars, queueVars, devVars, callVars, lifeVars, ModeTypes
<1>2. FlagTypes'
  BY DEF GuardExpires, doneVars, queueVars, devVars, lifeVars, FlagTypes
<1>3. CountTypes'
  BY DEF GuardExpires, countVars, boundVars, CountTypes
<1>4. QueueTypes'
  BY DEF GuardExpires, doneVars, queueVars, QueueTypes
<1>5. TxnTypes'
  BY DEF GuardExpires, queueVars, callVars, lifeVars, TxnTypes
<1>6. CallInv'
  BY DEF GuardExpires, countVars, doneVars, queueVars, callVars, CallInv
<1> QED
  BY <1>1, <1>2, <1>3, <1>4, <1>5, <1>6 DEF Types

\* The types and the call survive PendRestratTimeout.
LEMMA PendRestratTimeoutTypes ==
  ASSUME Types, CallInv, PendRestratTimeout
  PROVE  Types' /\ CallInv'
<1> ModeTypes /\ FlagTypes /\ CountTypes /\ QueueTypes /\ TxnTypes
  BY DEF Types
<1>1. ModeTypes'
  BY DEF PendRestratTimeout, ClearQueues, Continue, countVars, doneVars, callVars, ModeTypes
<1>2. FlagTypes'
  BY DEF PendRestratTimeout, ContextFree, ClearQueues, Continue, countVars, doneVars, callVars,
      boundVars, FlagTypes
<1>3. CountTypes'
  BY DEF PendRestratTimeout, countVars, boundVars, CountTypes
<1>4. QueueTypes'
  BY DEF PendRestratTimeout, ClearQueues, doneVars, QueueTypes
<1>5. TxnTypes'
  BY DEF PendRestratTimeout, ClearQueues, callVars, TxnTypes
<1>6. CallInv'
  BY DEF PendRestratTimeout, ClearQueues, countVars, doneVars, callVars, CallInv
<1> QED
  BY <1>1, <1>2, <1>3, <1>4, <1>5, <1>6 DEF Types

\* The types and the call survive InitHw.
LEMMA InitHwTypes ==
  ASSUME Types, CallInv, InitHw
  PROVE  Types' /\ CallInv'
<1> ModeTypes /\ FlagTypes /\ CountTypes /\ QueueTypes /\ TxnTypes
  BY DEF Types
<1>1. ModeTypes'
  BY DEF InitHw, SmHwAvailable, doneVars, recVars, callVars, ModeTypes
<1>2. FlagTypes'
  BY DEF InitHw, ContextFree, SmHwAvailable, doneVars, recVars, callVars, boundVars, FlagTypes
<1>3. CountTypes'
  BY DEF InitHw, boundVars, CountTypes
<1>4. QueueTypes'
  BY DEF InitHw, doneVars, QueueTypes
<1>5. TxnTypes'
  BY DEF InitHw, callVars, TxnTypes
<1>6. CallInv'
  BY DEF InitHw, doneVars, callVars, CallInv
<1> QED
  BY <1>1, <1>2, <1>3, <1>4, <1>5, <1>6 DEF Types

\* The types and the call survive EnableExternalEvents.
LEMMA EnableExternalEventsTypes ==
  ASSUME Types, CallInv, EnableExternalEvents
  PROVE  Types' /\ CallInv'
<1> ModeTypes /\ FlagTypes /\ CountTypes /\ QueueTypes /\ TxnTypes
  BY DEF Types
<1>1. ModeTypes'
  BY DEF EnableExternalEvents, CountAndSleep, doneVars, callVars, SmSleep, ModeTypes
<1>2. FlagTypes'
  BY DEF EnableExternalEvents, doneVars, FlagTypes
<1>3. CountTypes'
  BY DEF EnableExternalEvents, CountAndSleep, Less1, boundVars, CountTypes
<1>4. QueueTypes'
  BY DEF EnableExternalEvents, doneVars, QueueTypes
<1>5. TxnTypes'
  BY DEF EnableExternalEvents, callVars, TxnTypes
<1>6. CallInv'
  BY DEF EnableExternalEvents, CountAndSleep, doneVars, callVars, CallInv
<1> QED
  BY <1>1, <1>2, <1>3, <1>4, <1>5, <1>6 DEF Types

------------------------------------------------------------------------------
(* The device and its bus.                                                 *)

\* The power state survives Awake.
LEMMA AwakeBus ==
  ASSUME Types, CallInv, GuardInv, InitInv, ElpInv, AsleepInv, Awake
  PROVE  /\ GuardInv' /\ InitInv' /\ ElpInv' /\ AsleepInv'
         /\ bus # bus' /\ bus' # NoTxn => ~asleep
<1> ModeTypes /\ CountTypes
  BY DEF Types
<1>1. GuardInv' /\ InitInv'
  BY DEF Awake, recVars, devVars, lifeVars, CountTypes, GuardInv, InitInv
<1>2. ElpInv'
  BY DEF Awake, queueVars, devVars, lifeVars, ElpInv
<1>3. AsleepInv' /\ (bus # bus' /\ bus' # NoTxn => ~asleep)
  BY DEF Awake, queueVars, devVars, lifeVars, AsleepInv
<1> QED
  BY <1>1, <1>2, <1>3

\* The power state survives Sleep.
LEMMA SleepBus ==
  ASSUME Types, CallInv, GuardInv, InitInv, ElpInv, AsleepInv, Sleep
  PROVE  /\ GuardInv' /\ InitInv' /\ ElpInv' /\ AsleepInv'
         /\ bus # bus' /\ bus' # NoTxn => ~asleep
<1> ModeTypes /\ CountTypes
  BY DEF Types
<1>1. GuardInv' /\ InitInv'
  BY DEF Sleep, Active, recVars, lifeVars, Stray, GuardInv, InitInv
<1>2. ElpInv'
  BY DEF Sleep, CountAndSleep, lifeVars, SmSleep, ElpInv
<1>3. AsleepInv' /\ (bus # bus' /\ bus' # NoTxn => ~asleep)
  BY DEF Sleep, CountAndSleep, lifeVars, SmSleep, AsleepInv
<1> QED
  BY <1>1, <1>2, <1>3

\* The power state survives HwAvailable.
LEMMA HwAvailableBus ==
  ASSUME Types, CallInv, GuardInv, InitInv, ElpInv, AsleepInv, HwAvailable
  PROVE  /\ GuardInv' /\ InitInv' /\ ElpInv' /\ AsleepInv'
         /\ bus # bus' /\ bus' # NoTxn => ~asleep
<1> ModeTypes /\ CountTypes
  BY DEF Types
<1>1. GuardInv' /\ InitInv'
  BY DEF HwAvailable, SmHwAvailable, recVars, lifeVars, CountTypes, GuardInv, InitInv
<1>2. ElpInv'
  BY DEF HwAvailable, SmHwAvailable, ElpInv
<1>3. AsleepInv' /\ (bus # bus' /\ bus' # NoTxn => ~asleep)
  BY DEF HwAvailable, Stray, SmHwAvailable, ModeTypes, AsleepInv, ElpInv
<1> QED
  BY <1>1, <1>2, <1>3

\* The power state survives Transact.
LEMMA TransactBus ==
  ASSUME NEW t \in Txn, Types, CallInv, GuardInv, InitInv, ElpInv, AsleepInv, Transact(t)
  PROVE  /\ GuardInv' /\ InitInv' /\ ElpInv' /\ AsleepInv'
         /\ bus # bus' /\ bus' # NoTxn => ~asleep
<1> ModeTypes /\ CountTypes
  BY DEF Types
<1>1. GuardInv' /\ InitInv'
  BY DEF Transact, recVars, devVars, GuardInv, InitInv
<1>2. ElpInv'
  BY DEF Transact, devVars, ElpInv
<1>3. AsleepInv' /\ (bus # bus' /\ bus' # NoTxn => ~asleep)
  BY DEF Transact, Active, BusFree, devVars, Stray, AsleepInv
<1> QED
  BY <1>1, <1>2, <1>3

\* The power state survives HandleTxnDone.
LEMMA HandleTxnDoneBus ==
  ASSUME Types, CallInv, GuardInv, InitInv, ElpInv, AsleepInv, HandleTxnDone
  PROVE  /\ GuardInv' /\ InitInv' /\ ElpInv' /\ AsleepInv'
         /\ bus # bus' /\ bus' # NoTxn => ~asleep
<1> ModeTypes /\ CountTypes
  BY DEF Types
<1>1. GuardInv' /\ InitInv'
  BY DEF HandleTxnDone, Continue, recVars, countVars, devVars, GuardInv, InitInv
<1>2. ElpInv'
  BY DEF HandleTxnDone, Continue, countVars, queueVars, devVars, ElpInv
<1>3. AsleepInv' /\ (bus # bus' /\ bus' # NoTxn => ~asleep)
  BY DEF HandleTxnDone, Continue, queueVars, devVars, AsleepInv
<1> QED
  BY <1>1, <1>2, <1>3

\* The power state survives HandleOne.
LEMMA HandleOneBus ==
  ASSUME Types, CallInv, GuardInv, InitInv, ElpInv, AsleepInv, HandleOne
  PROVE  /\ GuardInv' /\ InitInv' /\ ElpInv' /\ AsleepInv'
         /\ bus # bus' /\ bus' # NoTxn => ~asleep
<1> ModeTypes /\ CountTypes
  BY DEF Types
<1>1. GuardInv' /\ InitInv'
  BY DEF HandleOne, recVars, devVars, GuardInv, InitInv
<1>2. ElpInv'
  BY DEF HandleOne, queueVars, devVars, ElpInv
<1>3. AsleepInv' /\ (bus # bus' /\ bus' # NoTxn => ~asleep)
  BY DEF HandleOne, queueVars, devVars, AsleepInv
<1> QED
  BY <1>1, <1>2, <1>3

\* The power state survives HandleNext.
LEMMA HandleNextBus ==
  ASSUME Types, CallInv, GuardInv, InitInv, ElpInv, AsleepInv, HandleNext
  PROVE  /\ GuardInv' /\ InitInv' /\ ElpInv' /\ AsleepInv'
         /\ bus # bus' /\ bus' # NoTxn => ~asleep
<1> ModeTypes /\ CountTypes
  BY DEF Types
<1>1. GuardInv' /\ InitInv'
  BY DEF HandleNext, CountAndSleep, recVars, lifeVars, MaySleep, GuardInv, InitInv
<1>2. ElpInv'
  BY DEF HandleNext, CountAndSleep, lifeVars, SmSleep, ElpInv
<1>3. AsleepInv' /\ (bus # bus' /\ bus' # NoTxn => ~asleep)
  BY DEF HandleNext, CountAndSleep, lifeVars, SmSleep, AsleepInv
<1> QED
  BY <1>1, <1>2, <1>3

\* The power state survives TransactReturns.
LEMMA TransactReturnsBus ==
  ASSUME Types, CallInv, GuardInv, InitInv, ElpInv, AsleepInv, TransactReturns
  PROVE  /\ GuardInv' /\ InitInv' /\ ElpInv' /\ AsleepInv'
         /\ bus # bus' /\ bus' # NoTxn => ~asleep
<1> ModeTypes /\ CountTypes
  BY DEF Types
<1>1. GuardInv' /\ InitInv'
  BY DEF TransactReturns, SmStart, CountAndSleep, recVars, MaySleep, GuardInv, InitInv
<1>2. ElpInv'
  BY DEF TransactReturns, SmStart, CountAndSleep, SmSleep, ElpInv
<1>3. AsleepInv' /\ (bus # bus' /\ bus' # NoTxn => ~asleep)
  BY DEF TransactReturns, SmStart, CountAndSleep, SmSleep, AsleepInv
<1> QED
  BY <1>1, <1>2, <1>3

\* The power state survives BusNext.
LEMMA BusNextBus ==
  ASSUME Types, CallInv, GuardInv, InitInv, ElpInv, AsleepInv, BusNext
  PROVE  /\ GuardInv' /\ InitInv' /\ ElpInv' /\ AsleepInv'
         /\ bus # bus' /\ bus' # NoTxn => ~asleep
<1> ModeTypes /\ CountTypes
  BY DEF Types
<1>1. GuardInv' /\ InitInv'
  BY DEF BusNext, countVars, recVars, devVars, lifeVars, GuardInv, InitInv
<1>2. ElpInv'
  BY DEF BusNext, devVars, ElpInv, AsleepInv
<1>3. AsleepInv' /\ (bus # bus' /\ bus' # NoTxn => ~asleep)
  BY DEF BusNext, devVars, AsleepInv
<1> QED
  BY <1>1, <1>2, <1>3

\* The power state survives BusDone.
LEMMA BusDoneBus ==
  ASSUME Types, CallInv, GuardInv, InitInv, ElpInv, AsleepInv, BusDone
  PROVE  /\ GuardInv' /\ InitInv' /\ ElpInv' /\ AsleepInv'
         /\ bus # bus' /\ bus' # NoTxn => ~asleep
<1> ModeTypes /\ CountTypes
  BY DEF Types
<1>1. GuardInv' /\ InitInv'
  BY DEF BusDone, countVars, recVars, GuardInv, InitInv
<1>2. ElpInv'
  BY DEF BusDone, ClearQueues, countVars, ElpInv, AsleepInv
<1>3. AsleepInv' /\ (bus # bus' /\ bus' # NoTxn => ~asleep)
  BY DEF BusDone, AsleepInv
<1> QED
  BY <1>1, <1>2, <1>3

\* The power state survives TxnDoneCb.
LEMMA TxnDoneCbBus ==
  ASSUME Types, CallInv, GuardInv, InitInv, ElpInv, AsleepInv, TxnDoneCb
  PROVE  /\ GuardInv' /\ InitInv' /\ ElpInv' /\ AsleepInv'
         /\ bus # bus' /\ bus' # NoTxn => ~asleep
<1> ModeTypes /\ CountTypes
  BY DEF Types
<1>1. GuardInv' /\ InitInv'
  BY DEF TxnDoneCb, devVars, GuardInv, InitInv
<1>2. ElpInv'
  BY DEF TxnDoneCb, devVars, ElpInv
<1>3. AsleepInv' /\ (bus # bus' /\ bus' # NoTxn => ~asleep)
  BY DEF TxnDoneCb, devVars, AsleepInv
<1> QED
  BY <1>1, <1>2, <1>3

\* The power state survives WriteElpReg.
LEMMA WriteElpRegBus ==
  ASSUME Types, CallInv, GuardInv, InitInv, ElpInv, AsleepInv, WriteElpReg
  PROVE  /\ GuardInv' /\ InitInv' /\ ElpInv' /\ AsleepInv'
         /\ bus # bus' /\ bus' # NoTxn => ~asleep
<1> ModeTypes /\ CountTypes
  BY DEF Types
<1>1. GuardInv' /\ InitInv'
  BY DEF WriteElpReg, countVars, doneVars, recVars, queueVars, callVars, lifeVars, boundVars,
      ModeTypes, CountTypes, GuardInv, InitInv, ElpInv
<1>2. ElpInv'
  BY DEF WriteElpReg, countVars, doneVars, recVars, queueVars, callVars, lifeVars, boundVars,
      ModeTypes, CountTypes, ElpInv, InitInv, GuardInv, AsleepInv
<1>3. AsleepInv' /\ (bus # bus' /\ bus' # NoTxn => ~asleep)
  BY DEF WriteElpReg, countVars, doneVars, recVars, queueVars, callVars, lifeVars, boundVars,
      ModeTypes, CountTypes, AsleepInv, InitInv, ElpInv, GuardInv
<1> QED
  BY <1>1, <1>2, <1>3

\* The power state survives Interrupt.
LEMMA InterruptBus ==
  ASSUME Types, CallInv, GuardInv, InitInv, ElpInv, AsleepInv, Interrupt
  PROVE  /\ GuardInv' /\ InitInv' /\ ElpInv' /\ AsleepInv'
         /\ bus # bus' /\ bus' # NoTxn => ~asleep
<1> ModeTypes /\ CountTypes
  BY DEF Types
<1>1. GuardInv' /\ InitInv'
  BY DEF Interrupt, recVars, lifeVars, GuardInv, InitInv
<1>2. ElpInv'
  BY DEF Interrupt, countVars, queueVars, ElpInv
<1>3. AsleepInv' /\ (bus # bus' /\ bus' # NoTxn => ~asleep)
  BY DEF Interrupt, queueVars, AsleepInv
<1> QED
  BY <1>1, <1>2, <1>3

\* The power state survives BusLost.
LEMMA BusLostBus ==
  ASSUME Types, CallInv, GuardInv, InitInv, ElpInv, AsleepInv, BusLost
  PROVE  /\ GuardInv' /\ InitInv' /\ ElpInv' /\ AsleepInv'
         /\ bus # bus' /\ bus' # NoTxn => ~asleep
<1> ModeTypes /\ CountTypes
  BY DEF Types
<1>1. GuardInv' /\ InitInv'
  BY DEF BusLost, countVars, recVars, devVars, lifeVars, GuardInv, InitInv
<1>2. ElpInv'
  BY DEF BusLost, countVars, devVars, ElpInv, AsleepInv
<1>3. AsleepInv' /\ (bus # bus' /\ bus' # NoTxn => ~asleep)
  BY DEF BusLost, devVars, AsleepInv
<1> QED
  BY <1>1, <1>2, <1>3

\* The power state survives Restart.
LEMMA RestartBus ==
  ASSUME Types, CallInv, GuardInv, InitInv, ElpInv, AsleepInv, Restart
  PROVE  /\ GuardInv' /\ InitInv' /\ ElpInv' /\ AsleepInv'
         /\ bus # bus' /\ bus' # NoTxn => ~asleep
<1> ModeTypes /\ CountTypes
  BY DEF Types
<1>1. GuardInv' /\ InitInv'
  BY DEF Restart, GuardInv, InitInv
<1>2. ElpInv'
  BY DEF Restart, queueVars, devVars, ElpInv
<1>3. AsleepInv' /\ (bus # bus' /\ bus' # NoTxn => ~asleep)
  BY DEF Restart, queueVars, devVars, AsleepInv
<1> QED
  BY <1>1, <1>2, <1>3

\* The power state survives RestartQueue.
LEMMA RestartQueueBus ==
  ASSUME Types, CallInv, GuardInv, InitInv, ElpInv, AsleepInv, RestartQueue
  PROVE  /\ GuardInv' /\ InitInv' /\ ElpInv' /\ AsleepInv'
         /\ bus # bus' /\ bus' # NoTxn => ~asleep
<1> ModeTypes /\ CountTypes
  BY DEF Types
<1>1. GuardInv' /\ InitInv'
  BY DEF RestartQueue, GuardInv, InitInv
<1>2. ElpInv'
  BY DEF RestartQueue, ClearQueues, countVars, ElpInv
<1>3. AsleepInv' /\ (bus # bus' /\ bus' # NoTxn => ~asleep)
  BY DEF RestartQueue, ClearQueues, AsleepInv
<1> QED
  BY <1>1, <1>2, <1>3

\* The power state survives GuardExpires.
LEMMA GuardExpiresBus ==
  ASSUME Types, CallInv, GuardInv, InitInv, ElpInv, AsleepInv, GuardExpires
  PROVE  /\ GuardInv' /\ InitInv' /\ ElpInv' /\ AsleepInv'
         /\ bus # bus' /\ bus' # NoTxn => ~asleep
<1> ModeTypes /\ CountTypes
  BY DEF Types
<1>1. GuardInv' /\ InitInv'
  BY DEF GuardExpires, countVars, devVars, lifeVars, GuardInv, InitInv
<1>2. ElpInv'
  BY DEF GuardExpires, countVars, queueVars, devVars, lifeVars, ElpInv
<1>3. AsleepInv' /\ (bus # bus' /\ bus' # NoTxn => ~asleep)
  BY DEF GuardExpires, queueVars, devVars, lifeVars, AsleepInv
<1> QED
  BY <1>1, <1>2, <1>3

\* The power state survives PendRestratTimeout.
LEMMA PendRestratTimeoutBus ==
  ASSUME Types, CallInv, GuardInv, InitInv, ElpInv, AsleepInv, PendRestratTimeout
  PROVE  /\ GuardInv' /\ InitInv' /\ ElpInv' /\ AsleepInv'
         /\ bus # bus' /\ bus' # NoTxn => ~asleep
<1> ModeTypes /\ CountTypes
  BY DEF Types
<1>1. GuardInv' /\ InitInv'
  BY DEF PendRestratTimeout, Continue, countVars, GuardInv, InitInv
<1>2. ElpInv'
  BY DEF PendRestratTimeout, ContextFree, ClearQueues, Continue, ModeTypes, ElpInv, InitInv,
      GuardInv
<1>3. AsleepInv' /\ (bus # bus' /\ bus' # NoTxn => ~asleep)
  BY DEF PendRestratTimeout, ContextFree, ClearQueues, Continue, ModeTypes, AsleepInv, InitInv,
      GuardInv
<1> QED
  BY <1>1, <1>2, <1>3

\* The power state survives InitHw.
LEMMA InitHwBus ==
  ASSUME Types, CallInv, GuardInv, InitInv, ElpInv, AsleepInv, InitHw
  PROVE  /\ GuardInv' /\ InitInv' /\ ElpInv' /\ AsleepInv'
         /\ bus # bus' /\ bus' # NoTxn => ~asleep
<1> ModeTypes /\ CountTypes
  BY DEF Types
<1>1. GuardInv' /\ InitInv'
  BY DEF InitHw, SmHwAvailable, CountTypes, GuardInv, InitInv
<1>2. ElpInv'
  BY DEF InitHw, SmHwAvailable, ElpInv
<1>3. AsleepInv' /\ (bus # bus' /\ bus' # NoTxn => ~asleep)
  BY DEF InitHw, AsleepInv
<1> QED
  BY <1>1, <1>2, <1>3

\* The power state survives EnableExternalEvents.
LEMMA EnableExternalEventsBus ==
  ASSUME Types, CallInv, GuardInv, InitInv, ElpInv, AsleepInv, EnableExternalEvents
  PROVE  /\ GuardInv' /\ InitInv' /\ ElpInv' /\ AsleepInv'
         /\ bus # bus' /\ bus' # NoTxn => ~asleep
<1> ModeTypes /\ CountTypes
  BY DEF Types
<1>1. GuardInv' /\ InitInv'
  BY DEF EnableExternalEvents, GuardInv, InitInv
<1>2. ElpInv'
  BY DEF EnableExternalEvents, CountAndSleep, SmSleep, ElpInv
<1>3. AsleepInv' /\ (bus # bus' /\ bus' # NoTxn => ~asleep)
  BY DEF EnableExternalEvents, AsleepInv, InitInv
<1> QED
  BY <1>1, <1>2, <1>3

\* A step that changes nothing changes none of it.
LEMMA StutterBus ==
  ASSUME BusInv, UNCHANGED vars
  PROVE  BusInv'
BY DEF BusInv, Types, ModeTypes, FlagTypes, CountTypes, QueueTypes, TxnTypes, CallInv, GuardInv,
    InitInv, ElpInv, AsleepInv, In, vars, countVars, doneVars, recVars, queueVars, devVars,
    callVars, lifeVars, boundVars

\* The invariant holds at first and every step keeps it; a step that puts a
\* transaction on the bus finds the device awake.
LEMMA BusStep ==
  ASSUME BusInv, Next
  PROVE  BusInv' /\ (bus # bus' /\ bus' # NoTxn => ~asleep)
<1> Types /\ CallInv /\ GuardInv /\ InitInv /\ ElpInv /\ AsleepInv
  BY DEF BusInv
<1>1. CASE Awake
  BY <1>1, AwakeTypes, AwakeBus DEF BusInv
<1>2. CASE Sleep
  BY <1>2, SleepTypes, SleepBus DEF BusInv
<1>3. CASE HwAvailable
  BY <1>3, HwAvailableTypes, HwAvailableBus DEF BusInv
<1>4. ASSUME NEW t \in Txn, Transact(t) PROVE BusInv' /\ (bus # bus' /\ bus' # NoTxn => ~asleep)
  BY <1>4, TransactTypes, TransactBus DEF BusInv
<1>5. CASE HandleTxnDone
  BY <1>5, HandleTxnDoneTypes, HandleTxnDoneBus DEF BusInv
<1>6. CASE HandleOne
  BY <1>6, HandleOneTypes, HandleOneBus DEF BusInv
<1>7. CASE HandleNext
  BY <1>7, HandleNextTypes, HandleNextBus DEF BusInv
<1>8. CASE TransactReturns
  BY <1>8, TransactReturnsTypes, TransactReturnsBus DEF BusInv
<1>9. CASE BusNext
  BY <1>9, BusNextTypes, BusNextBus DEF BusInv
<1>10. CASE BusDone
  BY <1>10, BusDoneTypes, BusDoneBus DEF BusInv
<1>11. CASE TxnDoneCb
  BY <1>11, TxnDoneCbTypes, TxnDoneCbBus DEF BusInv
<1>12. CASE WriteElpReg
  BY <1>12, WriteElpRegTypes, WriteElpRegBus DEF BusInv
<1>13. CASE Interrupt
  BY <1>13, InterruptTypes, InterruptBus DEF BusInv
<1>14. CASE BusLost
  BY <1>14, BusLostTypes, BusLostBus DEF BusInv
<1>15. CASE Restart
  BY <1>15, RestartTypes, RestartBus DEF BusInv
<1>16. CASE RestartQueue
  BY <1>16, RestartQueueTypes, RestartQueueBus DEF BusInv
<1>17. CASE GuardExpires
  BY <1>17, GuardExpiresTypes, GuardExpiresBus DEF BusInv
<1>18. CASE PendRestratTimeout
  BY <1>18, PendRestratTimeoutTypes, PendRestratTimeoutBus DEF BusInv
<1>19. CASE InitHw
  BY <1>19, InitHwTypes, InitHwBus DEF BusInv
<1>20. CASE EnableExternalEvents
  BY <1>20, EnableExternalEventsTypes, EnableExternalEventsBus DEF BusInv
<1> QED
  BY <1>1, <1>2, <1>3, <1>4, <1>5, <1>6, <1>7, <1>8, <1>9, <1>10, <1>11, <1>12, <1>13, <1>14,
      <1>15, <1>16, <1>17, <1>18, <1>19, <1>20 DEF Next, TxnDoneThread, Handler

\* The types hold at the start.
LEMMA InitTypes == Init => Types
<1> SUFFICES ASSUME Init PROVE Types
  OBVIOUS
<1>1. ModeTypes /\ CountTypes /\ QueueTypes /\ TxnTypes
  BY DEF Init, ModeTypes, CountTypes, QueueTypes, TxnTypes
<1>2. FlagTypes
  BY Zenon DEF Init, FlagTypes
<1> QED
  BY <1>1, <1>2 DEF Types

\* So does the invariant of the device and its bus.
LEMMA InitBus == Init => BusInv
BY InitTypes DEF Init, BusInv, CallInv, GuardInv, InitInv, ElpInv, AsleepInv

\* The invariant of the device and its bus is inductive.
THEOREM BusInductive == Spec => []BusInv
<1>1. BusInv /\ [Next]_vars => BusInv'
  BY BusStep, StutterBus
<1> QED
  BY InitBus, <1>1, PTL DEF Spec

\* Every variable keeps its type; in particular uPendingTxnCount, an unsigned
\* counter in the code, is never lowered below 0, whatever overlaps a restart.
THEOREM TypesCorrect == Spec => []TypeOK
<1>1. BusInv => TypeOK
  BY DEF BusInv, Types, ModeTypes, FlagTypes, CountTypes, QueueTypes, TxnTypes, TypeOK
<1> QED
  BY BusInductive, <1>1, PTL

\* BusNeedsAwakeDevice: whatever the interrupts, restarts and late completions,
\* the bus is given a transaction only while the device is awake.
THEOREM BusCorrect == Spec => BusNeedsAwakeDevice
<1>1. BusInv /\ [Next]_vars => [bus # bus' /\ bus' # NoTxn => ~asleep]_vars
  BY BusStep
<1> QED
  BY BusInductive, <1>1, PTL DEF Spec, BusNeedsAwakeDevice

------------------------------------------------------------------------------
(* Queues without duplicates.                                              *)

\* The members of an empty queue, of a longer one and of its rest.
LEMMA Emptied == Distinct(<<>>) /\ \A t : ~In(<<>>, t)
BY DEF In, Distinct

\* Appending a new member adds just that one, and no duplicate.
LEMMA Appended ==
  ASSUME NEW S, NEW s \in Seq(S), NEW x \in S, Distinct(s), ~In(s, x)
  PROVE  /\ Distinct(Append(s, x))
         /\ \A t : In(Append(s, x), t) <=> In(s, t) \/ t = x
<1> DEFINE a == Append(s, x)
<1>1. Len(a) = Len(s) + 1 /\ a[Len(a)] = x /\ \A i \in 1 .. Len(s) : a[i] = s[i]
  OBVIOUS
<1>2. \A i \in 1 .. Len(a) : i \in 1 .. Len(s) \/ i = Len(a)
  BY <1>1
<1>3. Len(a) \in 1 .. Len(a) /\ 1 .. Len(s) \subseteq 1 .. Len(a)
  BY <1>1
<1> HIDE DEF a
<1>4. ASSUME NEW t PROVE In(a, t) <=> In(s, t) \/ t = x
  BY <1>1, <1>2, <1>3 DEF In
<1>5. Distinct(a)
  BY <1>1, <1>2, <1>3 DEF In, Distinct
<1> QED
  BY <1>4, <1>5 DEF a

\* The rest of a queue without duplicates has all members but the head.
LEMMA Headless ==
  ASSUME NEW S, NEW s \in Seq(S), s # <<>>, Distinct(s)
  PROVE  /\ Head(s) \in S /\ In(s, Head(s)) /\ Distinct(Tail(s))
         /\ \A t : In(Tail(s), t) <=> In(s, t) /\ t # Head(s)
<1> DEFINE r == Tail(s)
<1>1. Len(s) \in Nat /\ Len(s) >= 1 /\ Len(r) = Len(s) - 1 /\ Head(s) = s[1]
  OBVIOUS
<1>2. \A i \in 1 .. Len(r) : r[i] = s[i + 1] /\ i + 1 \in 1 .. Len(s)
  BY <1>1
<1>3. Head(s) \in S /\ 1 \in 1 .. Len(s) /\ \A i \in 1 .. Len(s) : s[i] \in S
  BY <1>1
<1>4. \A i \in 1 .. Len(s) : i = 1 \/ (i - 1 \in 1 .. Len(r) /\ s[i] = r[i - 1])
  BY <1>1, <1>2
<1>5. \A i \in 1 .. Len(r) : i \in Nat /\ i + 1 # 1
  OBVIOUS
<1> HIDE DEF r
<1>6. In(s, Head(s))
  BY <1>1, <1>3 DEF In
<1>7. Distinct(r)
  <2> SUFFICES ASSUME NEW i \in 1 .. Len(r), NEW j \in 1 .. Len(r), r[i] = r[j] PROVE i = j
    BY DEF Distinct
  <2>1. i + 1 = j + 1
    BY <1>2 DEF Distinct
  <2> QED
    BY <2>1, <1>1
<1>8. ASSUME NEW t PROVE In(r, t) <=> In(s, t) /\ t # Head(s)
  <2>1. ASSUME In(r, t) PROVE In(s, t) /\ t # Head(s)
    <3>1. PICK i \in 1 .. Len(r) : r[i] = t
      BY <2>1 DEF In
    <3>2. s[i + 1] = t /\ i + 1 \in 1 .. Len(s) /\ i + 1 # 1
      BY <3>1, <1>2, <1>5
    <3>3. t # s[1]
      BY <3>2, <1>3 DEF Distinct
    <3> QED
      BY <3>2, <3>3, <1>1 DEF In
  <2>2. ASSUME In(s, t), t # Head(s) PROVE In(r, t)
    <3>1. PICK i \in 1 .. Len(s) : s[i] = t
      BY <2>2 DEF In
    <3>2. i # 1
      BY <3>1, <2>2, <1>1
    <3> QED
      BY <3>1, <3>2, <1>4 DEF In
  <2> QED
    BY <2>1, <2>2
<1> QED
  BY <1>3, <1>6, <1>7, <1>8 DEF r

\* A queue of transactions holds transactions only.
LEMMA Members ==
  ASSUME QueueTypes
  PROVE  /\ \A t : In(queue, t) => t \in Txn
         /\ \A t : In(hTxnDoneQueue, t) => t \in Txn
<1>1. \A i \in 1 .. Len(queue) : queue[i] \in Txn
  BY DEF QueueTypes
<1>2. \A i \in 1 .. Len(hTxnDoneQueue) : hTxnDoneQueue[i] \in Txn
  BY DEF QueueTypes
<1> QED
  BY <1>1, <1>2 DEF In

------------------------------------------------------------------------------
(* The counter.                                                            *)

\* A step that moves no transaction.
LEMMA SamePlaces ==
  ASSUME CountInv,
         UNCHANGED <<bus, report, queue, hTxnDoneQueue, old, call, callStatus, uPendingTxnCount>>
  PROVE  PlaceInv' /\ (~stale => OldInv' /\ CounterInv')
<1>1. PlaceInv'
  BY DEF CountInv, PlaceInv
<1>2. \A t : UnderWay(t)' <=> UnderWay(t)
  BY DEF UnderWay, In
<1>3. Counted' = Counted
  BY <1>2 DEF Counted
<1> QED
  BY <1>1, <1>2, <1>3 DEF CountInv, OldInv, CounterInv

\* One transaction more, or one less, to count.
LEMMA OneMore ==
  ASSUME CounterInv, NEW t, t \notin Counted, Counted' = Counted \cup {t},
         uPendingTxnCount' = uPendingTxnCount + 1
  PROVE  CounterInv'
BY FS_AddElement DEF CounterInv

\* One transaction is counted less.
LEMMA OneLess ==
  ASSUME CounterInv, NEW t \in Counted, Counted' = Counted \ {t},
         uPendingTxnCount' = Less1(uPendingTxnCount) \/ uPendingTxnCount' = uPendingTxnCount - 1
  PROVE  CounterInv'
<1>1. IsFiniteSet(Counted') /\ Cardinality(Counted') = Cardinality(Counted) - 1
  BY FS_RemoveElement DEF CounterInv
<1>2. Cardinality(Counted) \in Nat /\ Cardinality(Counted) # 0
  BY FS_CardinalityType, FS_EmptySet DEF CounterInv
<1> QED
  BY <1>1, <1>2 DEF CounterInv, Less1

\* The counter stays with what it counts.
LEMMA SameCount ==
  ASSUME CounterInv, Counted' = Counted, uPendingTxnCount' = uPendingTxnCount
  PROVE  CounterInv'
BY DEF CounterInv

\* After a reset nothing is counted.
LEMMA NothingCounted ==
  ASSUME Counted' = {}, uPendingTxnCount' = 0
  PROVE  CounterInv'
BY FS_EmptySet DEF CounterInv

\* Awake moves no transaction.
LEMMA AwakeCount ==
  ASSUME CountInv, Awake
  PROVE  CountInv'
<1> Types /\ CallInv /\ PlaceInv /\ (~stale => OldInv /\ RestartInv /\ CounterInv)
  BY DEF CountInv
<1> ModeTypes /\ FlagTypes /\ CountTypes /\ QueueTypes /\ TxnTypes
  BY DEF Types
<1>1. UNCHANGED <<bus, report, queue, hTxnDoneQueue, old, call, callStatus, uPendingTxnCount,
                recovered, stale>>
  BY DEF Awake, doneVars, queueVars, callVars, lifeVars
<1>2. ~stale => RestartInv'
  <2>1. SUFFICES ASSUME ~stale PROVE RestartInv'
    OBVIOUS
  <2>2. \A t : UnderWay(t)' <=> UnderWay(t)
    BY <1>1 DEF UnderWay, In
  <2> QED
    BY <1>1, <2>1, <2>2 DEF Awake, queueVars, lifeVars, RestartInv
<1> QED
  BY <1>1, <1>2, SamePlaces, AwakeTypes DEF CountInv

\* Sleep moves no transaction.
LEMMA SleepCount ==
  ASSUME CountInv, Sleep
  PROVE  CountInv'
<1> Types /\ CallInv /\ PlaceInv /\ (~stale => OldInv /\ RestartInv /\ CounterInv)
  BY DEF CountInv
<1> ModeTypes /\ FlagTypes /\ CountTypes /\ QueueTypes /\ TxnTypes
  BY DEF Types
<1>1. UNCHANGED <<bus, report, queue, hTxnDoneQueue, old, call, callStatus, uPendingTxnCount,
                recovered, stale>>
  BY DEF Sleep, CountAndSleep, doneVars, callVars, lifeVars
<1>2. ~stale => RestartInv'
  <2>1. SUFFICES ASSUME ~stale PROVE RestartInv'
    OBVIOUS
  <2>2. \A t : UnderWay(t)' <=> UnderWay(t)
    BY <1>1 DEF UnderWay, In
  <2> QED
    BY <1>1, <2>1, <2>2 DEF Sleep, CountAndSleep, lifeVars, SmSleep, RestartInv
<1> QED
  BY <1>1, <1>2, SamePlaces, SleepTypes DEF CountInv

\* HwAvailable moves no transaction.
LEMMA HwAvailableCount ==
  ASSUME CountInv, HwAvailable
  PROVE  CountInv'
<1> Types /\ CallInv /\ PlaceInv /\ (~stale => OldInv /\ RestartInv /\ CounterInv)
  BY DEF CountInv
<1> ModeTypes /\ FlagTypes /\ CountTypes /\ QueueTypes /\ TxnTypes
  BY DEF Types
<1>1. UNCHANGED <<bus, report, queue, hTxnDoneQueue, old, call, callStatus, uPendingTxnCount,
                recovered, stale>>
  BY DEF HwAvailable, doneVars, callVars, lifeVars
<1>2. ~stale => RestartInv'
  <2>1. SUFFICES ASSUME ~stale PROVE RestartInv'
    OBVIOUS
  <2>2. \A t : UnderWay(t)' <=> UnderWay(t)
    BY <1>1 DEF UnderWay, In
  <2> QED
    BY <1>1, <2>1, <2>2 DEF HwAvailable, Stray, SmHwAvailable, lifeVars, RestartInv
<1> QED
  BY <1>1, <1>2, SamePlaces, HwAvailableTypes DEF CountInv

\* HandleTxnDone moves no transaction.
LEMMA HandleTxnDoneCount ==
  ASSUME CountInv, HandleTxnDone
  PROVE  CountInv'
<1> Types /\ CallInv /\ PlaceInv /\ (~stale => OldInv /\ RestartInv /\ CounterInv)
  BY DEF CountInv
<1> ModeTypes /\ FlagTypes /\ CountTypes /\ QueueTypes /\ TxnTypes
  BY DEF Types
<1>1. UNCHANGED <<bus, report, queue, hTxnDoneQueue, old, call, callStatus, uPendingTxnCount,
                recovered, stale>>
  BY DEF HandleTxnDone, countVars, queueVars, callVars
<1>2. ~stale => RestartInv'
  <2>1. SUFFICES ASSUME ~stale PROVE RestartInv'
    OBVIOUS
  <2>2. \A t : UnderWay(t)' <=> UnderWay(t)
    BY <1>1 DEF UnderWay, In
  <2> QED
    BY <1>1, <2>1, <2>2 DEF HandleTxnDone, Continue, countVars, queueVars, RestartInv
<1> QED
  BY <1>1, <1>2, SamePlaces, HandleTxnDoneTypes DEF CountInv

\* HandleNext moves no transaction.
LEMMA HandleNextCount ==
  ASSUME CountInv, HandleNext
  PROVE  CountInv'
<1> Types /\ CallInv /\ PlaceInv /\ (~stale => OldInv /\ RestartInv /\ CounterInv)
  BY DEF CountInv
<1> ModeTypes /\ FlagTypes /\ CountTypes /\ QueueTypes /\ TxnTypes
  BY DEF Types
<1>1. UNCHANGED <<bus, report, queue, hTxnDoneQueue, old, call, callStatus, uPendingTxnCount,
                recovered, stale>>
  BY DEF HandleNext, CountAndSleep, callVars, lifeVars
<1>2. ~stale => RestartInv'
  <2>1. SUFFICES ASSUME ~stale PROVE RestartInv'
    OBVIOUS
  <2>2. \A t : UnderWay(t)' <=> UnderWay(t)
    BY <1>1 DEF UnderWay, In
  <2> QED
    BY <1>1, <2>1, <2>2 DEF HandleNext, CountAndSleep, lifeVars, SmSleep, RestartInv
<1> QED
  BY <1>1, <1>2, SamePlaces, HandleNextTypes DEF CountInv

\* WriteElpReg moves no transaction.
LEMMA WriteElpRegCount ==
  ASSUME CountInv, WriteElpReg
  PROVE  CountInv'
<1> Types /\ CallInv /\ PlaceInv /\ (~stale => OldInv /\ RestartInv /\ CounterInv)
  BY DEF CountInv
<1> ModeTypes /\ FlagTypes /\ CountTypes /\ QueueTypes /\ TxnTypes
  BY DEF Types
<1>1. UNCHANGED <<bus, report, queue, hTxnDoneQueue, old, call, callStatus, uPendingTxnCount,
                recovered, stale>>
  BY DEF WriteElpReg, countVars, doneVars, queueVars, callVars, lifeVars
<1>2. ~stale => RestartInv'
  <2>1. SUFFICES ASSUME ~stale PROVE RestartInv'
    OBVIOUS
  <2>2. \A t : UnderWay(t)' <=> UnderWay(t)
    BY <1>1 DEF UnderWay, In
  <2> QED
    BY <1>1, <2>1, <2>2 DEF WriteElpReg, countVars, queueVars, lifeVars, RestartInv
<1> QED
  BY <1>1, <1>2, SamePlaces, WriteElpRegTypes DEF CountInv

\* Interrupt moves no transaction.
LEMMA InterruptCount ==
  ASSUME CountInv, Interrupt
  PROVE  CountInv'
<1> Types /\ CallInv /\ PlaceInv /\ (~stale => OldInv /\ RestartInv /\ CounterInv)
  BY DEF CountInv
<1> ModeTypes /\ FlagTypes /\ CountTypes /\ QueueTypes /\ TxnTypes
  BY DEF Types
<1>1. UNCHANGED <<bus, report, queue, hTxnDoneQueue, old, call, callStatus, uPendingTxnCount,
                recovered, stale>>
  BY DEF Interrupt, countVars, doneVars, queueVars, callVars, lifeVars
<1>2. ~stale => RestartInv'
  <2>1. SUFFICES ASSUME ~stale PROVE RestartInv'
    OBVIOUS
  <2>2. \A t : UnderWay(t)' <=> UnderWay(t)
    BY <1>1 DEF UnderWay, In
  <2> QED
    BY <1>1, <2>1, <2>2 DEF Interrupt, queueVars, lifeVars, RestartInv
<1> QED
  BY <1>1, <1>2, SamePlaces, InterruptTypes DEF CountInv

\* BusLost moves no transaction.
LEMMA BusLostCount ==
  ASSUME CountInv, BusLost
  PROVE  CountInv'
<1> Types /\ CallInv /\ PlaceInv /\ (~stale => OldInv /\ RestartInv /\ CounterInv)
  BY DEF CountInv
<1> ModeTypes /\ FlagTypes /\ CountTypes /\ QueueTypes /\ TxnTypes
  BY DEF Types
<1>1. UNCHANGED <<bus, report, queue, hTxnDoneQueue, old, call, callStatus, uPendingTxnCount,
                recovered, stale>>
  BY DEF BusLost, countVars, doneVars, callVars, lifeVars
<1>2. ~stale => RestartInv'
  <2>1. SUFFICES ASSUME ~stale PROVE RestartInv'
    OBVIOUS
  <2>2. \A t : UnderWay(t)' <=> UnderWay(t)
    BY <1>1 DEF UnderWay, In
  <2> QED
    BY <1>1, <2>1, <2>2 DEF BusLost, countVars, lifeVars, RestartInv
<1> QED
  BY <1>1, <1>2, SamePlaces, BusLostTypes DEF CountInv

\* GuardExpires moves no transaction.
LEMMA GuardExpiresCount ==
  ASSUME CountInv, GuardExpires
  PROVE  CountInv'
<1> Types /\ CallInv /\ PlaceInv /\ (~stale => OldInv /\ RestartInv /\ CounterInv)
  BY DEF CountInv
<1> ModeTypes /\ FlagTypes /\ CountTypes /\ QueueTypes /\ TxnTypes
  BY DEF Types
<1>1. UNCHANGED <<bus, report, queue, hTxnDoneQueue, old, call, callStatus, uPendingTxnCount,
                recovered, stale>>
  BY DEF GuardExpires, countVars, doneVars, queueVars, callVars, lifeVars
<1>2. ~stale => RestartInv'
  <2>1. SUFFICES ASSUME ~stale PROVE RestartInv'
    OBVIOUS
  <2>2. \A t : UnderWay(t)' <=> UnderWay(t)
    BY <1>1 DEF UnderWay, In
  <2> QED
    BY <1>1, <2>1, <2>2 DEF GuardExpires, countVars, queueVars, lifeVars, RestartInv
<1> QED
  BY <1>1, <1>2, SamePlaces, GuardExpiresTypes DEF CountInv

\* InitHw moves no transaction.
LEMMA InitHwCount ==
  ASSUME CountInv, InitHw
  PROVE  CountInv'
<1> Types /\ CallInv /\ PlaceInv /\ (~stale => OldInv /\ RestartInv /\ CounterInv)
  BY DEF CountInv
<1> ModeTypes /\ FlagTypes /\ CountTypes /\ QueueTypes /\ TxnTypes
  BY DEF Types
<1>1. UNCHANGED <<bus, report, queue, hTxnDoneQueue, old, call, callStatus, uPendingTxnCount,
                recovered, stale>>
  BY DEF InitHw, doneVars, callVars
<1>2. ~stale => RestartInv'
  <2>1. SUFFICES ASSUME ~stale PROVE RestartInv'
    OBVIOUS
  <2>2. \A t : UnderWay(t)' <=> UnderWay(t)
    BY <1>1 DEF UnderWay, In
  <2> QED
    BY <1>1, <2>1, <2>2 DEF InitHw, SmHwAvailable, RestartInv
<1> QED
  BY <1>1, <1>2, SamePlaces, InitHwTypes DEF CountInv

\* EnableExternalEvents moves no transaction.
LEMMA EnableExternalEventsCount ==
  ASSUME CountInv, EnableExternalEvents
  PROVE  CountInv'
<1> Types /\ CallInv /\ PlaceInv /\ (~stale => OldInv /\ RestartInv /\ CounterInv)
  BY DEF CountInv
<1> ModeTypes /\ FlagTypes /\ CountTypes /\ QueueTypes /\ TxnTypes
  BY DEF Types
<1>1. UNCHANGED <<bus, report, queue, hTxnDoneQueue, old, call, callStatus, uPendingTxnCount,
                recovered, stale>>
  BY DEF EnableExternalEvents, CountAndSleep, doneVars, callVars
<1>2. ~stale => RestartInv'
  <2>1. SUFFICES ASSUME ~stale PROVE RestartInv'
    OBVIOUS
  <2>2. \A t : UnderWay(t)' <=> UnderWay(t)
    BY <1>1 DEF UnderWay, In
  <2> QED
    BY <1>1, <2>1, <2>2 DEF EnableExternalEvents, CountAndSleep, SmSleep, RestartInv
<1> QED
  BY <1>1, <1>2, SamePlaces, EnableExternalEventsTypes DEF CountInv

\* A transaction leaves the queue for the bus.
LEMMA BusNextCount ==
  ASSUME CountInv, BusNext
  PROVE  CountInv'
<1> Types /\ CallInv /\ PlaceInv /\ (~stale => OldInv /\ RestartInv /\ CounterInv)
  BY DEF CountInv
<1> QueueTypes /\ TxnTypes
  BY DEF Types
<1> DEFINE h == Head(queue)
<1>1. /\ queue # <<>> /\ bus = NoTxn /\ report = NoTxn /\ bus' = h /\ queue' = Tail(queue)
      /\ UNCHANGED <<report, hTxnDoneQueue, old, call, callStatus, uPendingTxnCount, recovered, stale,
                     phase, qState, eState>>
  BY DEF BusNext, countVars, doneVars, callVars, lifeVars
<1>2. /\ h \in Txn /\ In(queue, h) /\ Distinct(queue')
      /\ \A t : In(queue', t) <=> In(queue, t) /\ t # h
  BY <1>1, Headless DEF PlaceInv, QueueTypes
<1> HIDE DEF h
<1>3. PlaceInv'
  BY <1>1, <1>2 DEF PlaceInv
<1>4. \A t \in Txn : UnderWay(t)' <=> UnderWay(t)
  BY <1>1, <1>2 DEF UnderWay
<1>5. Counted' = Counted
  BY <1>1, <1>4 DEF Counted
<1>6. ~stale => OldInv' /\ CounterInv'
  BY <1>1, <1>4, <1>5, SameCount DEF OldInv, TxnTypes
<1>7. ~stale => RestartInv'
  BY <1>1, <1>4 DEF RestartInv
<1> QED
  BY <1>1, <1>3, <1>6, <1>7, BusNextTypes DEF CountInv

\* The transaction on the bus is done, and a pending restart is carried out.
LEMMA BusDoneCount ==
  ASSUME CountInv, BusDone
  PROVE  CountInv'
<1> Types /\ CallInv /\ PlaceInv /\ (~stale => OldInv /\ RestartInv /\ CounterInv)
  BY DEF CountInv
<1> QueueTypes /\ TxnTypes
  BY DEF Types
<1>1. /\ bus \in Txn /\ bus # NoTxn /\ bus' = NoTxn /\ report' = bus
      /\ recovered' = (qState = "RESTART")
      /\ UNCHANGED <<hTxnDoneQueue, call, callStatus, uPendingTxnCount, stale, phase, eState>>
  BY DEF BusDone, TxnTypes, countVars, doneVars, callVars
<1>2. CASE qState # "RESTART"
  <2>1. UNCHANGED <<queue, old, qState>> /\ ~recovered'
    BY <1>1, <1>2 DEF BusDone
  <2>2. PlaceInv'
    BY <1>1, <2>1 DEF PlaceInv
  <2>3. \A t \in Txn : UnderWay(t)' <=> UnderWay(t)
    BY <1>1, <2>1 DEF UnderWay, PlaceInv
  <2>4. Counted' = Counted
    BY <1>1, <2>1, <2>3 DEF Counted
  <2>5. ~stale => OldInv' /\ CounterInv'
    BY <1>1, <2>1, <2>3, <2>4, SameCount DEF OldInv, TxnTypes
  <2>6. ~stale => RestartInv'
    BY <1>1, <2>1, <2>3 DEF RestartInv
  <2> QED
    BY <1>1, <2>2, <2>5, <2>6, BusDoneTypes DEF CountInv
<1>3. CASE qState = "RESTART"
  <2>1. queue' = <<>> /\ qState' = "RUNNING"
        /\ old' = {t \in old : t \in {bus, report} \/ In(hTxnDoneQueue, t)}
    BY <1>3 DEF BusDone, ClearQueues
  <2>2. PlaceInv'
    BY <1>1, <2>1, Emptied DEF PlaceInv
  <2>3. \A t \in Txn : UnderWay(t)' <=> t = bus \/ In(hTxnDoneQueue, t)
    BY <1>1, <2>1, Emptied, <1>3 DEF UnderWay
  <2>4. ASSUME ~stale PROVE OldInv' /\ RestartInv' /\ CounterInv'
    <3>1. /\ phase \in {"stopping", "stopped"} /\ call = NoTxn
          /\ \A t \in Txn : UnderWay(t) => t \in old
      BY <1>3, <2>4 DEF RestartInv
    <3>2. \A t \in Txn : UnderWay(t)' => t \in old'
      BY <2>1, <2>3, <3>1 DEF UnderWay
    <3>3. Counted = {} /\ Counted' = {}
      BY <1>1, <3>1, <3>2 DEF Counted
    <3>4. OldInv'
      BY <1>1, <2>1, <2>3 DEF OldInv, TxnTypes, PlaceInv
    <3>5. RestartInv'
      BY <1>1, <2>1, <3>1, <3>2 DEF RestartInv, UnderWay
    <3> QED
      BY <1>1, <2>4, <3>3, <3>4, <3>5, SameCount
  <2> QED
    BY <1>1, <2>2, <2>4, BusDoneTypes DEF CountInv
<1> QED
  BY <1>2, <1>3

\* A completion is handed over, counted off or dropped.
LEMMA TxnDoneCbCount ==
  ASSUME CountInv, TxnDoneCb
  PROVE  CountInv'
<1> Types /\ CallInv /\ PlaceInv /\ (~stale => OldInv /\ RestartInv /\ CounterInv)
  BY DEF CountInv
<1> QueueTypes /\ TxnTypes
  BY DEF Types
<1>1. /\ report \in Txn /\ report # NoTxn /\ report' = NoTxn
      /\ UNCHANGED <<bus, queue, call, callStatus, recovered, phase, qState, eState>>
  BY DEF TxnDoneCb, TxnTypes, callVars
<1>2. CASE recovered
  <2>1. old' = old \ {report} /\ UNCHANGED <<hTxnDoneQueue, uPendingTxnCount, stale>>
    BY <1>2 DEF TxnDoneCb
  <2>2. PlaceInv'
    BY <1>1, <2>1 DEF PlaceInv
  <2>3. \A t \in Txn : UnderWay(t)' <=> UnderWay(t) /\ t # report
    BY <1>1, <2>1 DEF UnderWay, PlaceInv
  <2>4. ASSUME ~stale PROVE OldInv' /\ RestartInv' /\ CounterInv'
    <3>1. report \in old
      BY <1>1, <1>2, <2>4 DEF RestartInv
    <3>2. Counted' = Counted
      BY <1>1, <2>1, <2>3, <3>1 DEF Counted
    <3>3. OldInv'
      BY <2>1, <2>3, <2>4 DEF OldInv, TxnTypes
    <3>4. RestartInv'
      BY <1>1, <2>1, <2>3, <2>4 DEF RestartInv
    <3> QED
      BY <2>1, <2>4, <3>2, <3>3, <3>4, SameCount
  <2> QED
    BY <2>1, <2>2, <2>4, TxnDoneCbTypes DEF CountInv
<1>3. CASE ~recovered /\ report \in WithCb
  <2>1. hTxnDoneQueue' = Append(hTxnDoneQueue, report) /\ UNCHANGED <<uPendingTxnCount, stale, old>>
    BY <1>3 DEF TxnDoneCb
  <2>2. /\ Distinct(hTxnDoneQueue')
        /\ \A t : In(hTxnDoneQueue', t) <=> In(hTxnDoneQueue, t) \/ t = report
    BY <1>1, <1>3, <2>1, Appended DEF PlaceInv, QueueTypes
  <2>3. PlaceInv'
    BY <1>1, <2>2 DEF PlaceInv
  <2>4. \A t \in Txn : UnderWay(t)' <=> UnderWay(t)
    BY <1>1, <2>2 DEF UnderWay
  <2>5. Counted' = Counted
    BY <1>1, <2>1, <2>4 DEF Counted
  <2>6. ~stale => OldInv' /\ CounterInv'
    BY <1>1, <2>1, <2>4, <2>5, SameCount DEF OldInv, TxnTypes
  <2>7. ~stale => RestartInv'
    BY <1>1, <2>1, <2>4 DEF RestartInv
  <2> QED
    BY <2>1, <2>3, <2>6, <2>7, TxnDoneCbTypes DEF CountInv
<1>4. CASE ~recovered /\ report \notin WithCb
  <2>1. /\ uPendingTxnCount' = Less1(uPendingTxnCount) /\ stale' = (stale \/ report \in old)
        /\ old' = old \ {report} /\ UNCHANGED hTxnDoneQueue
    BY <1>4 DEF TxnDoneCb, CountOff
  <2>2. PlaceInv'
    BY <1>1, <2>1 DEF PlaceInv
  <2>3. \A t \in Txn : UnderWay(t)' <=> UnderWay(t) /\ t # report
    BY <1>1, <2>1 DEF UnderWay, PlaceInv
  <2>4. ASSUME ~stale' PROVE OldInv' /\ RestartInv' /\ CounterInv'
    <3>1. ~stale /\ report \notin old /\ old' = old
      BY <2>1, <2>4
    <3>2. report \in Counted
      BY <1>1, <3>1 DEF Counted, UnderWay
    <3>3. call # NoTxn => callStatus = "PENDING"
      BY <1>1 DEF CallInv
    <3>4. Counted' = Counted \ {report}
      BY <1>1, <2>3, <3>1, <3>3 DEF Counted
    <3>5. OldInv'
      BY <2>3, <3>1 DEF OldInv, TxnTypes
    <3>6. RestartInv'
      BY <1>1, <2>3, <3>1 DEF RestartInv
    <3> QED
      BY <2>1, <3>1, <3>2, <3>4, <3>5, <3>6, OneLess
  <2> QED
    BY <2>2, <2>4, TxnDoneCbTypes DEF CountInv
<1> QED
  BY <1>2, <1>3, <1>4

\* A completion is handled, and counted off.
LEMMA HandleOneCount ==
  ASSUME CountInv, HandleOne
  PROVE  CountInv'
<1> Types /\ CallInv /\ PlaceInv /\ (~stale => OldInv /\ RestartInv /\ CounterInv)
  BY DEF CountInv
<1> QueueTypes /\ TxnTypes
  BY DEF Types
<1> DEFINE h == Head(hTxnDoneQueue)
<1>1. /\ hTxnDoneQueue # <<>> /\ hTxnDoneQueue' = Tail(hTxnDoneQueue)
      /\ uPendingTxnCount' = Less1(uPendingTxnCount)
      /\ old' = old \ {h} /\ stale' = (stale \/ h \in old)
      /\ UNCHANGED <<bus, report, queue, call, callStatus, recovered, phase, qState, eState>>
  BY DEF HandleOne, queueVars, callVars
<1>2. /\ h \in Txn /\ In(hTxnDoneQueue, h) /\ Distinct(hTxnDoneQueue')
      /\ \A t : In(hTxnDoneQueue', t) <=> In(hTxnDoneQueue, t) /\ t # h
  BY <1>1, Headless DEF PlaceInv, QueueTypes
<1> HIDE DEF h
<1>3. handler = "loop"
  BY DEF HandleOne
<1>4. PlaceInv'
  BY <1>1, <1>2 DEF PlaceInv
<1>5. \A t \in Txn : UnderWay(t)' <=> UnderWay(t) /\ t # h
  BY <1>1, <1>2 DEF UnderWay, PlaceInv
<1>6. ASSUME ~stale' PROVE OldInv' /\ RestartInv' /\ CounterInv'
  <2>1. ~stale /\ h \notin old /\ old' = old
    BY <1>1, <1>6
  <2>2. h \in Counted
    BY <1>2, <2>1 DEF Counted, UnderWay
  <2>3. call = NoTxn
    BY <1>3 DEF CallInv
  <2>4. Counted' = Counted \ {h}
    BY <1>1, <1>5, <2>1, <2>3 DEF Counted
  <2>5. OldInv'
    BY <1>5, <2>1 DEF OldInv, TxnTypes
  <2>6. RestartInv'
    BY <1>1, <1>5, <2>1 DEF RestartInv
  <2> QED
    BY <1>1, <2>1, <2>2, <2>4, <2>5, <2>6, OneLess
<1> QED
  BY <1>4, <1>6, HandleOneTypes DEF CountInv

\* A transaction is counted when it is issued.
LEMMA TransactCount ==
  ASSUME NEW t \in Txn, CountInv, Transact(t)
  PROVE  CountInv'
<1> Types /\ CallInv /\ PlaceInv /\ (~stale => OldInv /\ RestartInv /\ CounterInv)
  BY DEF CountInv
<1> QueueTypes /\ TxnTypes
  BY DEF Types
<1>1. /\ call = NoTxn /\ call' = t /\ ~UnderWay(t)
      /\ uPendingTxnCount' = uPendingTxnCount + 1
      /\ old' = IF phase = "stopping" THEN old \cup {t} ELSE old
      /\ stale' = (stale \/ phase = "stopping")
      /\ phase # "restart" /\ phase # "stopped"
      /\ UNCHANGED <<report, hTxnDoneQueue, recovered, phase, qState, eState>>
  BY DEF Transact, MayCall, Active, Stray, doneVars
<1>2. \/ callStatus' # "PENDING" /\ UNCHANGED <<queue, bus>>
      \/ callStatus' = "PENDING" /\ bus = NoTxn /\ report = NoTxn /\ bus' = t /\ UNCHANGED queue
      \/ callStatus' = "PENDING" /\ queue' = Append(queue, t) /\ UNCHANGED bus
  BY DEF Transact, BusFree
<1>3. ~In(queue, t) /\ ~In(hTxnDoneQueue, t) /\ t # bus /\ t # report
  BY <1>1 DEF UnderWay
<1>4. /\ Distinct(Append(queue, t))
      /\ \A u : In(Append(queue, t), u) <=> In(queue, u) \/ u = t
  BY <1>3, Appended DEF PlaceInv, QueueTypes
<1>5. PlaceInv'
  <2>1. CASE UNCHANGED <<queue, bus>>
    BY <1>1, <2>1 DEF PlaceInv
  <2>2. CASE bus = NoTxn /\ report = NoTxn /\ bus' = t /\ UNCHANGED queue
    BY <1>1, <1>3, <2>2 DEF PlaceInv
  <2>3. CASE queue' = Append(queue, t) /\ UNCHANGED bus
    BY <1>1, <1>3, <1>4, <2>3 DEF PlaceInv
  <2> QED
    BY <1>2, <2>1, <2>2, <2>3
<1>6. \A u \in Txn : UnderWay(u)' <=> UnderWay(u) \/ (u = t /\ callStatus' = "PENDING")
  <2>1. CASE callStatus' # "PENDING" /\ UNCHANGED <<queue, bus>>
    BY <1>1, <2>1 DEF UnderWay
  <2>2. CASE callStatus' = "PENDING" /\ bus = NoTxn /\ bus' = t /\ UNCHANGED queue
    BY <1>1, <2>2 DEF UnderWay, TxnTypes
  <2>3. CASE callStatus' = "PENDING" /\ queue' = Append(queue, t) /\ UNCHANGED bus
    BY <1>1, <1>4, <2>3 DEF UnderWay
  <2> QED
    BY <1>2, <2>1, <2>2, <2>3
<1>7. ASSUME ~stale' PROVE OldInv' /\ RestartInv' /\ CounterInv'
  <2>1. ~stale /\ phase # "stopping" /\ old' = old
    BY <1>1, <1>7
  <2>2. t \notin old
    BY <1>1, <2>1 DEF OldInv
  <2>3. t \notin Counted /\ Counted' = Counted \cup {t}
    BY <1>1, <1>6, <2>1, <2>2 DEF Counted
  <2>4. OldInv'
    BY <1>6, <2>1 DEF OldInv, TxnTypes
  <2>5. RestartInv'
    BY <1>1, <2>1 DEF RestartInv
  <2> QED
    BY <1>1, <2>1, <2>3, <2>4, <2>5, OneMore
<1> QED
  BY <1>5, <1>7, TransactTypes DEF CountInv

\* A transaction that was served in the call is counted off at its end.
LEMMA TransactReturnsCount ==
  ASSUME CountInv, TransactReturns
  PROVE  CountInv'
<1> Types /\ CallInv /\ PlaceInv /\ (~stale => OldInv /\ RestartInv /\ CounterInv)
  BY DEF CountInv
<1> QueueTypes /\ TxnTypes
  BY DEF Types
<1>1. /\ call \in Txn /\ call # NoTxn /\ call' = NoTxn
      /\ UNCHANGED <<bus, report, queue, hTxnDoneQueue, callStatus, recovered, phase, old, stale>>
      /\ uPendingTxnCount' = IF callStatus = "PENDING" THEN uPendingTxnCount ELSE uPendingTxnCount - 1
  BY DEF TransactReturns, CountAndSleep, doneVars, TxnTypes
<1>2. PlaceInv'
  BY <1>1 DEF PlaceInv, Distinct, In
<1>3. \A t : UnderWay(t)' <=> UnderWay(t)
  BY <1>1 DEF UnderWay, In
<1>4. ASSUME ~stale PROVE OldInv' /\ RestartInv' /\ CounterInv'
  <2>1. OldInv'
    BY <1>1, <1>3, <1>4 DEF OldInv
  <2>2. qState # "RESTART"
    BY <1>1, <1>4 DEF RestartInv
  <2>3. qState' # "RESTART"
    BY <2>2 DEF TransactReturns, CountAndSleep, SmSleep
  <2>4. RestartInv'
    BY <1>1, <1>3, <1>4, <2>3 DEF RestartInv
  <2>5. CASE callStatus = "PENDING"
    <3>1. Counted' = Counted
      BY <1>1, <1>3, <2>5 DEF Counted
    <3> QED
      BY <1>1, <1>4, <2>1, <2>4, <2>5, <3>1, SameCount
  <2>6. CASE callStatus # "PENDING"
    <3>1. ~UnderWay(call)
      BY <1>1, <2>6, Emptied DEF CallInv, UnderWay
    <3>2. call \in Counted /\ Counted' = Counted \ {call}
      BY <1>1, <1>3, <2>6, <3>1 DEF Counted
    <3> QED
      BY <1>1, <1>4, <2>1, <2>4, <2>6, <3>2, OneLess
  <2> QED
    BY <2>5, <2>6
<1> QED
  BY <1>1, <1>2, <1>4, TransactReturnsTypes DEF CountInv

\* A restart leaves everything behind and counts from 0.
LEMMA RestartCount ==
  ASSUME CountInv, Restart
  PROVE  CountInv'
<1> Types /\ CallInv /\ PlaceInv /\ (~stale => OldInv /\ RestartInv /\ CounterInv)
  BY DEF CountInv
<1> QueueTypes /\ TxnTypes
  BY DEF Types
<1>1. /\ call = NoTxn /\ phase \in {"run", "init"} /\ phase' = "restart"
      /\ uPendingTxnCount' = 0 /\ hTxnDoneQueue' = <<>> /\ eState' = "SLEEP"
      /\ old' = {t \in Txn : t \in {bus, report} \/ In(queue, t)}
      /\ UNCHANGED <<bus, report, queue, call, recovered, qState, stale>>
  BY DEF Restart, ContextFree, queueVars, callVars
<1>2. PlaceInv'
  BY <1>1, Emptied DEF PlaceInv
<1>3. \A t \in Txn : UnderWay(t)' <=> t \in old'
  BY <1>1, Emptied DEF UnderWay
<1>4. ASSUME ~stale PROVE OldInv' /\ RestartInv' /\ CounterInv'
  <2>1. OldInv'
    BY <1>1, <1>3 DEF OldInv
  <2>2. qState # "RESTART"
    BY <1>1, <1>4 DEF RestartInv
  <2>3. RestartInv'
    BY <1>1, <1>3, <2>2 DEF RestartInv, TxnTypes
  <2>4. Counted' = {}
    BY <1>1, <1>3 DEF Counted
  <2> QED
    BY <1>1, <2>1, <2>3, <2>4, NothingCounted
<1> QED
  BY <1>1, <1>2, <1>4, RestartTypes DEF CountInv

\* Clearing the queues while everything is left behind leaves nothing to count.
LEMMA Cleared ==
  ASSUME QueueTypes, TxnTypes, PlaceInv, ClearQueues,
         UNCHANGED <<bus, report, hTxnDoneQueue, call, uPendingTxnCount>>
  PROVE  /\ PlaceInv' /\ OldInv'
         /\ CounterInv /\ call = NoTxn /\ (\A t \in Txn : UnderWay(t) => t \in old) =>
              CounterInv' /\ (\A t \in Txn : UnderWay(t)' => t \in old')
         /\ report \in old => report \in old'
<1>1. queue' = <<>> /\ old' = {t \in old : t \in {bus, report} \/ In(hTxnDoneQueue, t)}
  BY DEF ClearQueues
<1>2. PlaceInv'
  BY <1>1, Emptied DEF PlaceInv
<1>3. \A t \in Txn : UnderWay(t)' <=> t \in {bus, report} \/ In(hTxnDoneQueue, t)
  BY <1>1, Emptied DEF UnderWay
<1>4. OldInv'
  BY <1>1, <1>3 DEF OldInv, TxnTypes
<1>5. ASSUME CounterInv, call = NoTxn, \A t \in Txn : UnderWay(t) => t \in old
      PROVE  CounterInv' /\ (\A t \in Txn : UnderWay(t)' => t \in old')
  <2>1. \A t \in Txn : UnderWay(t)' => t \in old'
    BY <1>1, <1>3, <1>5 DEF UnderWay
  <2>2. Counted = {} /\ Counted' = {}
    BY <1>5, <2>1 DEF Counted
  <2> QED
    BY <1>5, <2>1, <2>2, SameCount
<1> QED
  BY <1>1, <1>2, <1>4, <1>5

\* The queue is restarted, or will be.
LEMMA RestartQueueCount ==
  ASSUME CountInv, RestartQueue
  PROVE  CountInv'
<1> Types /\ CallInv /\ PlaceInv /\ (~stale => OldInv /\ RestartInv /\ CounterInv)
  BY DEF CountInv
<1> QueueTypes /\ TxnTypes
  BY DEF Types
<1>1. /\ phase = "restart" /\ phase' \in {"stopping", "stopped"}
      /\ UNCHANGED <<bus, report, hTxnDoneQueue, call, callStatus, uPendingTxnCount, recovered, stale,
                     eState>>
  BY DEF RestartQueue, countVars, doneVars, callVars
<1>2. CASE qState' = "RESTART" /\ UNCHANGED <<queue, old>>
  <2>1. \A t : UnderWay(t)' <=> UnderWay(t)
    BY <1>1, <1>2 DEF UnderWay, In
  <2>2. ~stale => RestartInv'
    BY <1>1, <1>2, <2>1 DEF RestartInv
  <2> QED
    BY <1>1, <1>2, <2>2, SamePlaces, RestartQueueTypes DEF CountInv
<1>3. CASE ClearQueues
  <2>1. qState' = "RUNNING"
    BY <1>3 DEF ClearQueues
  <2>2. ASSUME ~stale PROVE RestartInv' /\ CounterInv'
    <3>1. call = NoTxn /\ \A t \in Txn : UnderWay(t) => t \in old
      BY <1>1, <2>2 DEF RestartInv
    <3> QED
      BY <1>1, <1>3, <2>1, <2>2, <3>1, Cleared DEF RestartInv
  <2> QED
    BY <1>1, <1>3, <2>2, Cleared, RestartQueueTypes DEF CountInv
<1> QED
  BY <1>2, <1>3 DEF RestartQueue

\* The guard timer ends the restart.
LEMMA PendRestratTimeoutCount ==
  ASSUME CountInv, PendRestratTimeout
  PROVE  CountInv'
<1> Types /\ CallInv /\ PlaceInv /\ (~stale => OldInv /\ RestartInv /\ CounterInv)
  BY DEF CountInv
<1> QueueTypes /\ TxnTypes
  BY DEF Types
<1>1. /\ ClearQueues /\ call = NoTxn /\ qState' = "RUNNING"
      /\ phase' \in {phase, "stopped"} /\ stale' = (stale \/ phase # "stopping")
      /\ UNCHANGED <<bus, report, hTxnDoneQueue, call, callStatus, uPendingTxnCount, recovered, eState>>
  BY DEF PendRestratTimeout, ContextFree, Continue, ClearQueues, countVars, doneVars, callVars
<1>2. ASSUME ~stale' PROVE RestartInv' /\ CounterInv'
  <2>1. ~stale /\ phase = "stopping"
    BY <1>1, <1>2
  <2>2. \A t \in Txn : UnderWay(t) => t \in old
    BY <2>1 DEF RestartInv
  <2> QED
    BY <1>1, <2>1, <2>2, Cleared DEF RestartInv
<1> QED
  BY <1>1, <1>2, Cleared, PendRestratTimeoutTypes DEF CountInv

\* A step that changes nothing.
LEMMA StutterCount ==
  ASSUME CountInv, UNCHANGED vars
  PROVE  CountInv'
<1> Types /\ CallInv /\ PlaceInv /\ (~stale => OldInv /\ RestartInv /\ CounterInv)
  BY DEF CountInv
<1>1. UNCHANGED <<bus, report, queue, hTxnDoneQueue, old, call, callStatus, uPendingTxnCount,
                recovered, stale, phase, qState, eState>>
  BY DEF vars, countVars, doneVars, queueVars, callVars, lifeVars
<1>2. Types' /\ CallInv'
  BY DEF Types, ModeTypes, FlagTypes, CountTypes, QueueTypes, TxnTypes, CallInv,
      In, vars, countVars, doneVars, recVars, queueVars, devVars, callVars, lifeVars, boundVars
<1>3. ~stale => RestartInv'
  BY <1>1 DEF RestartInv, UnderWay, In
<1> QED
  BY <1>1, <1>2, <1>3, SamePlaces DEF CountInv

\* The invariant holds at first and every step keeps it.
LEMMA CountStep ==
  ASSUME CountInv, Next
  PROVE  CountInv'
<1>1. CASE Awake
  BY <1>1, AwakeCount
<1>2. CASE Sleep
  BY <1>2, SleepCount
<1>3. CASE HwAvailable
  BY <1>3, HwAvailableCount
<1>4. ASSUME NEW t \in Txn, Transact(t) PROVE CountInv'
  BY <1>4, TransactCount
<1>5. CASE HandleTxnDone
  BY <1>5, HandleTxnDoneCount
<1>6. CASE HandleOne
  BY <1>6, HandleOneCount
<1>7. CASE HandleNext
  BY <1>7, HandleNextCount
<1>8. CASE TransactReturns
  BY <1>8, TransactReturnsCount
<1>9. CASE BusNext
  BY <1>9, BusNextCount
<1>10. CASE BusDone
  BY <1>10, BusDoneCount
<1>11. CASE TxnDoneCb
  BY <1>11, TxnDoneCbCount
<1>12. CASE WriteElpReg
  BY <1>12, WriteElpRegCount
<1>13. CASE Interrupt
  BY <1>13, InterruptCount
<1>14. CASE BusLost
  BY <1>14, BusLostCount
<1>15. CASE Restart
  BY <1>15, RestartCount
<1>16. CASE RestartQueue
  BY <1>16, RestartQueueCount
<1>17. CASE GuardExpires
  BY <1>17, GuardExpiresCount
<1>18. CASE PendRestratTimeout
  BY <1>18, PendRestratTimeoutCount
<1>19. CASE InitHw
  BY <1>19, InitHwCount
<1>20. CASE EnableExternalEvents
  BY <1>20, EnableExternalEventsCount
<1> QED
  BY <1>1, <1>2, <1>3, <1>4, <1>5, <1>6, <1>7, <1>8, <1>9, <1>10, <1>11, <1>12, <1>13, <1>14,
      <1>15, <1>16, <1>17, <1>18, <1>19, <1>20 DEF Next, TxnDoneThread, Handler

\* The invariant of the counter holds at the start.
LEMMA InitCount == Init => CountInv
<1> SUFFICES ASSUME Init PROVE CountInv
  OBVIOUS
<1>1. \A t \in Txn : ~UnderWay(t)
  BY Emptied DEF Init, UnderWay
<1>2. Counted = {}
  BY <1>1 DEF Init, Counted
<1>3. CounterInv
  BY <1>2, FS_EmptySet DEF Init, CounterInv
<1>4. PlaceInv
  BY Emptied DEF Init, PlaceInv
<1> QED
  BY InitTypes, <1>1, <1>3, <1>4 DEF Init, CountInv, CallInv, OldInv, RestartInv

\* The invariant of the counter is inductive.
THEOREM CountInductive == Spec => []CountInv
<1>1. CountInv /\ [Next]_vars => CountInv'
  BY CountStep, StutterCount
<1> QED
  BY InitCount, <1>1, PTL DEF Spec

\* PendingCounted: as long as no restart was mixed up, the counter of an
\* operational driver, on which the decision to let the device sleep rests, is
\* the number of transactions under way, whichever of the two threads completes
\* them and whether they are served in the call or later.
THEOREM CounterCorrect == Spec => []PendingCounted
<1>1. CountInv => PendingCounted
  BY DEF CountInv, CounterInv, Types, ModeTypes, FlagTypes, CountTypes, QueueTypes, TxnTypes,
      TypeOK, PendingCounted
<1> QED
  BY CountInductive, <1>1, PTL
==============================================================================

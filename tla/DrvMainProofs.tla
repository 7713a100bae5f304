---------------------------- MODULE DrvMainProofs ----------------------------
(***************************************************************************)
(* Proofs about DrvMain: whatever fails and in whatever order users,       *)
(* processes and recoveries come, the device's power follows the state     *)
(* machine, completions come only where they are expected, and no user     *)
(* action meets a state that cannot take it.                               *)
(***************************************************************************)
EXTENDS DrvMain, TLAPS

------------------------------------------------------------------------------
(* The inductive invariant.                                                *)

\* The states of an initialisation, in which the user's last action is START.
Starting == {"WAIT_INI_FILE", "WAIT_NVS_FILE", "HW_INIT", "DOWNLOAD_FW_FILE", "WAIT_FW_FILE",
             "FW_INIT", "FW_CONFIG"}

\* Event ev is being handled.
Pending(ev) == uPendingEventsCount > 0 /\ ePendingEvent = ev

\* Two events are pending only after a download that failed in its call, and then
\* until the retry of the recovery has handled one of them.
CountInv ==
  uPendingEventsCount = 2 =>
    \/ eSmState = "STOPPING_ON_FAIL"
    \/ eSmState = "STOPPING" /\ ePendingEvent = "STOP_COMPLETE" /\ ~bRecovery

\* What the transitional states are told, and the chunks that are left for them.
EventInv ==
  /\ eSmState = "IDLE" =>
       /\ uPendingEventsCount > 0 => eLastAction = ePendingEvent
       /\ hFailTimer = "off" /\ ~bRecovery
  /\ eSmState = "WAIT_INI_FILE" => Pending("INI_FILE_READY")
  /\ eSmState \in {"DOWNLOAD_FW_FILE", "WAIT_FW_FILE"} => uChunksLeft > 0

\* The device is switched on before its bus is connected.
NvsInv == eSmState = "WAIT_NVS_FILE" => power

\* A completion that is being handled is outstanding no more.
ProcessInv ==
  /\ "hwInit" \in outstanding => eSmState = "HW_INIT" /\ ~Pending("HW_INIT_COMPLETE")
  /\ "fwInit" \in outstanding =>
       eSmState \in {"WAIT_FW_FILE", "FW_INIT"} /\ ~Pending("FW_INIT_COMPLETE")
  /\ "config" \in outstanding => eSmState = "FW_CONFIG" /\ ~Pending("FW_CONFIG_COMPLETE")

\* While the SME disconnects, only a recovery can come in between, and nothing but
\* the SME's answer comes after it.
SmeInv ==
  "smeStop" \in outstanding =>
    /\ ~bEnabled
    /\ \/ eSmState = "DISCONNECTING"
       \/ eSmState = "STOPPING_ON_FAIL" /\ hFailTimer = "off"
    /\ uPendingEventsCount > 0 =>
         eSmState = "DISCONNECTING" /\ ePendingEvent = "RECOVERY" /\ hFailTimer = "off"

\* Actions are served only where they fit, or after an action that failed before
\* anything was started.
EnabledInv ==
  bEnabled => \/ eSmState \in {"IDLE", "OPERATIONAL", "STOPPED"}
              \/ Failing /\ ~bRecovery /\ hFailTimer = "off"

\* A driver that is started, or recovers, was last told to start.
ActionInv ==
  /\ eSmState \in Starting => eLastAction = "START"
  /\ eSmState = "OPERATIONAL" =>
       /\ uPendingEventsCount > 0 => ePendingEvent \in {"STOP", "RECOVERY"}
       /\ ~Pending("STOP") => eLastAction = "START"
  /\ eSmState \in {"OPERATIONAL", "DISCONNECTING"} /\ ~Pending("RECOVERY") => ~bRecovery
  /\ eSmState = "STOPPING" /\ bRecovery /\ ~Pending("RECOVERY") => eLastAction = "START"
  /\ eSmState = "STOPPED" /\ Pending("START") => eLastAction = "START"

\* Each recovery attempt has its failure report.
FaultInv ==
  /\ hFailTimer # "off" => failureEvent
  /\ uNumOfRecoveryAttempts + (IF hFailTimer = "off" THEN 0 ELSE 1) <= faults

\* The type invariant in four parts, and the rest of PowerFollowsState.
StateTypes ==
  /\ eSmState \in SmState
  /\ ePendingEvent \in SmEventId /\ uPendingEventsCount \in 0 .. 2
  /\ eDriverState \in {"IDLE", "RUNNING", "STOPING", "STOPPED", "FAILED"}
  /\ hFailTimer \in {"off", "running", "operQueue", "initQueue"}
CountTypes ==
  /\ uNumOfRecoveryAttempts \in 0 .. MaxFaults /\ faults \in 0 .. MaxFaults
  /\ uChunksLeft \in 0 .. Chunks
  /\ outstanding \subseteq Process
FlagTypes ==
  /\ bRecovery \in BOOLEAN /\ bEnabled \in BOOLEAN /\ bPending \in BOOLEAN
  /\ power \in BOOLEAN /\ connected \in BOOLEAN
  /\ failureEvent \in BOOLEAN /\ bOperWhenStarted \in BOOLEAN /\ bOperState \in BOOLEAN
ActionTypes ==
  /\ eLastAction \in {"NONE", "START", "STOP"}
  /\ pCurrAction \in Action \cup {NoAction}
  /\ hActionQueue \in Seq(Action)
  /\ eAction \in [Action -> {"START", "STOP"}]
  /\ hSignal \in [Action -> {"free", "wait", "set"}]
PowerInv ==
  /\ eSmState \in {"IDLE", "WAIT_INI_FILE", "STOPPED", "FAILED"} => ~power /\ ~connected
  /\ eSmState \in {"HW_INIT", "DOWNLOAD_FW_FILE", "WAIT_FW_FILE", "FW_INIT", "FW_CONFIG",
                    "OPERATIONAL", "DISCONNECTING"} => power /\ connected

IInv == /\ StateTypes /\ CountTypes /\ FlagTypes /\ ActionTypes /\ PowerInv
        /\ CountInv /\ EventInv /\ NvsInv /\ ProcessInv /\ SmeInv
        /\ EnabledInv /\ ActionInv /\ FaultInv

------------------------------------------------------------------------------
(* drvMain_Sm keeps it, state by state.                                    *)

USE DrvMainAssumption

\* What drvMain_SmEvent leaves of the events that a transition raises.
LEMMA Raised ==
  ASSUME uPendingEventsCount \in Nat
  PROVE  /\ Raise(<<>>) <=> /\ uPendingEventsCount' = uPendingEventsCount - 1
                            /\ ePendingEvent' = ePendingEvent
         /\ \A ev : Raise(<<ev>>) <=> /\ uPendingEventsCount' = uPendingEventsCount
                                       /\ ePendingEvent' = ev
         /\ \A ev, ew : Raise(<<ev, ew>>) <=> /\ uPendingEventsCount' = uPendingEventsCount + 1
                                              /\ ePendingEvent' = ew
BY DEF Raise

\* The first start asks for the ini file; a stop before any start fails.
LEMMA SmIdleKeeps ==
  ASSUME IInv, SmIdle
  PROVE  IInv'
<1> /\ StateTypes /\ CountTypes /\ FlagTypes /\ ActionTypes /\ PowerInv
    /\ CountInv /\ EventInv /\ NvsInv /\ ProcessInv /\ SmeInv
    /\ EnabledInv /\ ActionInv /\ FaultInv
  BY DEF IInv
<1> USE Raised DEF SmIdle, In, recVars, actionVars, deviceVars, failVars, Succeed, FileReady,
    DisableClient, Unexpected, Fail, TwdStop
<1>1. StateTypes'
  BY DEF StateTypes, SmState, SmEventId
<1>2. CountTypes'
  BY DEF StateTypes, CountTypes, Process, FaultInv, EventInv, Pending
<1>3. FlagTypes'
  BY DEF FlagTypes
<1>4. ActionTypes'
  BY DEF ActionTypes
<1>5. PowerInv'
  BY DEF PowerInv
<1>6. (CountInv /\ EventInv /\ NvsInv /\ ProcessInv)'
  BY DEF StateTypes, CountInv, EventInv, NvsInv, ProcessInv, Pending
<1>7. (SmeInv /\ EnabledInv)'
  BY DEF EventInv, SmeInv, EnabledInv, Failing
<1>8. (ActionInv /\ FaultInv)'
  BY DEF EventInv, ActionInv, FaultInv, Starting
<1> QED
  BY <1>1, <1>2, <1>3, <1>4, <1>5, <1>6, <1>7, <1>8 DEF IInv

\* The ini file switches the device on.
LEMMA SmWaitIniFileKeeps ==
  ASSUME IInv, SmWaitIniFile
  PROVE  IInv'
<1> /\ StateTypes /\ CountTypes /\ FlagTypes /\ ActionTypes /\ PowerInv
    /\ CountInv /\ EventInv /\ NvsInv /\ ProcessInv /\ SmeInv
    /\ EnabledInv /\ ActionInv /\ FaultInv
  BY DEF IInv
<1> USE Raised DEF SmWaitIniFile, In, recVars, actionVars, deviceVars, failVars, Succeed, FileReady
<1>1. StateTypes'
  BY DEF StateTypes, SmState, SmEventId
<1>2. CountTypes'
  BY DEF CountTypes
<1>3. FlagTypes'
  BY DEF FlagTypes
<1>4. ActionTypes'
  BY DEF ActionTypes
<1>5. PowerInv'
  BY DEF PowerInv
<1>6. (CountInv /\ EventInv /\ NvsInv /\ ProcessInv)'
  BY DEF StateTypes, CountInv, EventInv, NvsInv, ProcessInv
<1>7. (SmeInv /\ EnabledInv)'
  BY DEF SmeInv, EnabledInv, Failing
<1>8. (ActionInv /\ FaultInv)'
  BY DEF ActionInv, FaultInv, Starting
<1> QED
  BY <1>1, <1>2, <1>3, <1>4, <1>5, <1>6, <1>7, <1>8 DEF IInv

\* The NVS file connects the bus and boots, in the call or later.
LEMMA SmWaitNvsFileKeeps ==
  ASSUME IInv, SmWaitNvsFile
  PROVE  IInv'
<1> /\ StateTypes /\ CountTypes /\ FlagTypes /\ ActionTypes /\ PowerInv
    /\ CountInv /\ EventInv /\ NvsInv /\ ProcessInv /\ SmeInv
    /\ EnabledInv /\ ActionInv /\ FaultInv
  BY DEF IInv
<1> USE Raised DEF SmWaitNvsFile, In, recVars, actionVars, deviceVars, failVars, Succeed,
    FileReady, Fail, TwdStop
<1>1. StateTypes'
  BY DEF StateTypes, SmState, SmEventId
<1>2. CountTypes'
  BY DEF StateTypes, CountTypes, Process, FaultInv, EventInv, Pending
<1>3. FlagTypes'
  BY DEF FlagTypes
<1>4. ActionTypes'
  BY DEF ActionTypes
<1>5. PowerInv'
  BY DEF PowerInv, NvsInv
<1>6. (CountInv /\ EventInv /\ NvsInv /\ ProcessInv)'
  BY DEF StateTypes, CountInv, EventInv, NvsInv, ProcessInv, Pending
<1>7. (SmeInv /\ EnabledInv)'
  BY DEF SmeInv, EnabledInv, Failing
<1>8. (ActionInv /\ FaultInv)'
  BY DEF ActionInv, FaultInv, Starting
<1> QED
  BY <1>1, <1>2, <1>3, <1>4, <1>5, <1>6, <1>7, <1>8 DEF IInv

\* A booted device asks for its firmware.
LEMMA SmHwInitKeeps ==
  ASSUME IInv, SmHwInit
  PROVE  IInv'
<1> /\ StateTypes /\ CountTypes /\ FlagTypes /\ ActionTypes /\ PowerInv
    /\ CountInv /\ EventInv /\ NvsInv /\ ProcessInv /\ SmeInv
    /\ EnabledInv /\ ActionInv /\ FaultInv
  BY DEF IInv
<1> USE Raised DEF SmHwInit, In, recVars, actionVars, deviceVars, failVars, Succeed, FileReady,
    Unexpected, Fail, TwdStop
<1>1. StateTypes'
  BY DEF StateTypes, SmState, SmEventId
<1>2. CountTypes'
  <2>1. (uNumOfRecoveryAttempts \in 0 .. MaxFaults /\ faults \in 0 .. MaxFaults)'
    BY DEF StateTypes, CountTypes, FaultInv, FlagTypes
  <2>2. (uChunksLeft \in 0 .. Chunks)'
    BY DEF StateTypes, CountTypes, EventInv, Pending
  <2>3. (outstanding \subseteq Process)'
    BY DEF StateTypes, CountTypes, Process
  <2> QED
    BY <2>1, <2>2, <2>3 DEF CountTypes
<1>3. FlagTypes'
  BY DEF FlagTypes
<1>4. ActionTypes'
  BY DEF ActionTypes
<1>5. PowerInv'
  BY DEF PowerInv, NvsInv, FlagTypes, StateTypes, SmState
<1>6. (CountInv /\ EventInv /\ NvsInv /\ ProcessInv)'
  BY DEF StateTypes, CountInv, EventInv, NvsInv, ProcessInv, Pending
<1>7. (SmeInv /\ EnabledInv)'
  BY DEF SmeInv, EnabledInv, Failing
<1>8. (ActionInv /\ FaultInv)'
  BY DEF ActionInv, FaultInv, Starting
<1> QED
  BY <1>1, <1>2, <1>3, <1>4, <1>5, <1>6, <1>7, <1>8 DEF IInv

\* One portion of the firmware; a failing one reports itself twice.
LEMMA SmDownloadFwFileKeeps ==
  ASSUME IInv, SmDownloadFwFile
  PROVE  IInv'
<1> /\ StateTypes /\ CountTypes /\ FlagTypes /\ ActionTypes /\ PowerInv
    /\ CountInv /\ EventInv /\ NvsInv /\ ProcessInv /\ SmeInv
    /\ EnabledInv /\ ActionInv /\ FaultInv
  BY DEF IInv
<1> USE Raised DEF SmDownloadFwFile, In, recVars, actionVars, deviceVars, failVars, Succeed,
    Fail, TwdStop
<1>1. StateTypes'
  BY DEF StateTypes, SmState, SmEventId, CountInv
<1>2. CountTypes'
  <2>1. (uNumOfRecoveryAttempts \in 0 .. MaxFaults /\ faults \in 0 .. MaxFaults)'
    BY DEF StateTypes, CountTypes, FaultInv, FlagTypes
  <2>2. (uChunksLeft \in 0 .. Chunks)'
    BY DEF StateTypes, CountTypes, EventInv, Pending
  <2>3. (outstanding \subseteq Process)'
    BY DEF StateTypes, CountTypes, Process
  <2> QED
    BY <2>1, <2>2, <2>3 DEF CountTypes
<1>3. FlagTypes'
  BY DEF FlagTypes
<1>4. ActionTypes'
  BY DEF ActionTypes
<1>5. PowerInv'
  BY DEF PowerInv
<1>6. (CountInv /\ EventInv /\ NvsInv /\ ProcessInv)'
  BY DEF StateTypes, CountTypes, CountInv, EventInv, NvsInv, ProcessInv, Pending
<1>7. (SmeInv /\ EnabledInv)'
  BY DEF SmeInv, EnabledInv, Failing
<1>8. (ActionInv /\ FaultInv)'
  BY DEF ActionInv, FaultInv, Starting
<1> QED
  BY <1>1, <1>2, <1>3, <1>4, <1>5, <1>6, <1>7, <1>8 DEF IInv

\* The next portion is asked for.
LEMMA SmWaitFwFileKeeps ==
  ASSUME IInv, SmWaitFwFile
  PROVE  IInv'
<1> /\ StateTypes /\ CountTypes /\ FlagTypes /\ ActionTypes /\ PowerInv
    /\ CountInv /\ EventInv /\ NvsInv /\ ProcessInv /\ SmeInv
    /\ EnabledInv /\ ActionInv /\ FaultInv
  BY DEF IInv
<1> USE Raised DEF SmWaitFwFile, In, recVars, actionVars, deviceVars, failVars, Succeed,
    FileReady, Unexpected, Fail, TwdStop
<1>1. StateTypes'
  BY DEF StateTypes, SmState, SmEventId
<1>2. CountTypes'
  BY DEF StateTypes, CountTypes, Process, FaultInv, EventInv, Pending
<1>3. FlagTypes'
  BY DEF FlagTypes
<1>4. ActionTypes'
  BY DEF ActionTypes
<1>5. PowerInv'
  BY DEF PowerInv, NvsInv, FlagTypes, StateTypes, SmState
<1>6. (CountInv /\ EventInv /\ NvsInv /\ ProcessInv)'
  BY DEF StateTypes, CountInv, EventInv, NvsInv, ProcessInv, Pending
<1>7. (SmeInv /\ EnabledInv)'
  BY DEF SmeInv, EnabledInv, Failing
<1>8. (ActionInv /\ FaultInv)'
  BY DEF ActionInv, FaultInv, Starting
<1> QED
  BY <1>1, <1>2, <1>3, <1>4, <1>5, <1>6, <1>7, <1>8 DEF IInv

\* The firmware runs: the user of START is released, the configuration begins.
LEMMA SmFwInitKeeps ==
  ASSUME IInv, SmFwInit
  PROVE  IInv'
<1> /\ StateTypes /\ CountTypes /\ FlagTypes /\ ActionTypes /\ PowerInv
    /\ CountInv /\ EventInv /\ NvsInv /\ ProcessInv /\ SmeInv
    /\ EnabledInv /\ ActionInv /\ FaultInv
  BY DEF IInv
<1> USE Raised DEF SmFwInit, In, recVars, actionVars, deviceVars, failVars, SignalCurrent,
    Unexpected, Fail, TwdStop
<1>1. StateTypes'
  BY DEF StateTypes, SmState
<1>2. CountTypes'
  BY DEF StateTypes, CountTypes, Process, FaultInv, EventInv, Pending
<1>3. FlagTypes'
  BY DEF FlagTypes
<1>4. ActionTypes'
  BY DEF ActionTypes
<1>5. PowerInv'
  BY DEF PowerInv, NvsInv, FlagTypes, StateTypes, SmState
<1>6. (CountInv /\ EventInv /\ NvsInv /\ ProcessInv)'
  BY DEF StateTypes, CountInv, EventInv, NvsInv, ProcessInv, Pending
<1>7. (SmeInv /\ EnabledInv)'
  BY DEF SmeInv, EnabledInv, Failing
<1>8. (ActionInv /\ FaultInv)'
  BY DEF ActionInv, FaultInv, Starting
<1> QED
  BY <1>1, <1>2, <1>3, <1>4, <1>5, <1>6, <1>7, <1>8 DEF IInv

\* The driver becomes operational, and a recovery is over.
LEMMA SmFwConfigKeeps ==
  ASSUME IInv, SmFwConfig
  PROVE  IInv'
<1> /\ StateTypes /\ CountTypes /\ FlagTypes /\ ActionTypes /\ PowerInv
    /\ CountInv /\ EventInv /\ NvsInv /\ ProcessInv /\ SmeInv
    /\ EnabledInv /\ ActionInv /\ FaultInv
  BY DEF IInv
<1> USE Raised DEF SmFwConfig, In, recVars, actionVars, deviceVars, failVars, Succeed,
    RecoveryDone, Unexpected, Fail, TwdStop
<1>1. StateTypes'
  BY DEF StateTypes, SmState
<1>2. CountTypes'
  <2>1. (uNumOfRecoveryAttempts \in 0 .. MaxFaults /\ faults \in 0 .. MaxFaults)'
    BY DEF StateTypes, CountTypes, FaultInv, FlagTypes
  <2>2. (uChunksLeft \in 0 .. Chunks)'
    BY DEF StateTypes, CountTypes, EventInv, Pending
  <2>3. (outstanding \subseteq Process)'
    BY DEF StateTypes, CountTypes, Process
  <2> QED
    BY <2>1, <2>2, <2>3 DEF CountTypes
<1>3. FlagTypes'
  BY DEF FlagTypes
<1>4. ActionTypes'
  BY DEF ActionTypes
<1>5. PowerInv'
  BY DEF PowerInv, NvsInv, FlagTypes, StateTypes, SmState
<1>6. (CountInv /\ EventInv /\ NvsInv /\ ProcessInv)'
  BY DEF StateTypes, CountInv, EventInv, NvsInv, ProcessInv, Pending
<1>7. (SmeInv /\ EnabledInv)'
  BY DEF SmeInv, EnabledInv, Failing
<1>8. (ActionInv /\ FaultInv)'
  BY DEF StateTypes, CountTypes, CountInv, ActionInv, FaultInv, Starting
<1> QED
  BY <1>1, <1>2, <1>3, <1>4, <1>5, <1>6, <1>7, <1>8 DEF IInv

\* A stop disconnects first, a recovery stops at once.
LEMMA SmOperationalKeeps ==
  ASSUME IInv, SmOperational
  PROVE  IInv'
<1> /\ StateTypes /\ CountTypes /\ FlagTypes /\ ActionTypes /\ PowerInv
    /\ CountInv /\ EventInv /\ NvsInv /\ ProcessInv /\ SmeInv
    /\ EnabledInv /\ ActionInv /\ FaultInv
  BY DEF IInv
<1> USE Raised DEF SmOperational, In, recVars, actionVars, deviceVars, failVars, DisableClient,
    StopActivities, StopCbEvents, TwdStop
<1>1. StateTypes'
  BY DEF StateTypes, SmState, SmEventId
<1>2. CountTypes'
  BY DEF StateTypes, CountTypes, Process, FaultInv, EventInv, Pending
<1>3. FlagTypes'
  BY DEF FlagTypes
<1>4. ActionTypes'
  BY DEF ActionTypes
<1>5. PowerInv'
  BY DEF PowerInv, NvsInv, FlagTypes, StateTypes, SmState
<1>6. (CountInv /\ EventInv /\ NvsInv /\ ProcessInv)'
  BY DEF StateTypes, CountInv, EventInv, NvsInv, ProcessInv
<1>7. (SmeInv /\ EnabledInv)'
  BY DEF StateTypes, CountInv, SmeInv, EnabledInv
<1>8. (ActionInv /\ FaultInv)'
  BY DEF ActionInv, FaultInv, Pending, Starting
<1> QED
  BY <1>1, <1>2, <1>3, <1>4, <1>5, <1>6, <1>7, <1>8 DEF IInv

\* The SME's answer stops the device; a recovery in between fails.
LEMMA SmDisconnectingKeeps ==
  ASSUME IInv, SmDisconnecting
  PROVE  IInv'
<1> /\ StateTypes /\ CountTypes /\ FlagTypes /\ ActionTypes /\ PowerInv
    /\ CountInv /\ EventInv /\ NvsInv /\ ProcessInv /\ SmeInv
    /\ EnabledInv /\ ActionInv /\ FaultInv
  BY DEF IInv
<1> USE Raised DEF SmDisconnecting, In, recVars, actionVars, deviceVars, failVars,
    StopActivities, StopCbEvents, Unexpected, Fail, TwdStop
<1>1. StateTypes'
  BY DEF StateTypes, SmState, SmEventId
<1>2. CountTypes'
  BY DEF CountTypes, Process
<1>3. FlagTypes'
  BY DEF FlagTypes
<1>4. ActionTypes'
  BY DEF ActionTypes
<1>5. PowerInv'
  BY DEF PowerInv, NvsInv, FlagTypes, StateTypes, SmState
<1>6. (CountInv /\ EventInv /\ NvsInv /\ ProcessInv)'
  BY DEF StateTypes, CountInv, EventInv, NvsInv, ProcessInv
<1>7. (SmeInv /\ EnabledInv)'
  BY DEF StateTypes, CountInv, SmeInv, EnabledInv, Failing
<1>8. (ActionInv /\ FaultInv)'
  BY DEF ActionInv, FaultInv, Pending, Starting
<1> QED
  BY <1>1, <1>2, <1>3, <1>4, <1>5, <1>6, <1>7, <1>8 DEF IInv

\* A stopped device is switched off, or booted again for a recovery.
LEMMA SmStoppingKeeps ==
  ASSUME IInv, SmStopping
  PROVE  IInv'
<1> /\ StateTypes /\ CountTypes /\ FlagTypes /\ ActionTypes /\ PowerInv
    /\ CountInv /\ EventInv /\ NvsInv /\ ProcessInv /\ SmeInv
    /\ EnabledInv /\ ActionInv /\ FaultInv
  BY DEF IInv
<1> USE Raised DEF SmStopping, In, recVars, actionVars, deviceVars, failVars, Succeed, FileReady,
    PowerDown, SignalCurrent, Unexpected, Fail, TwdStop
<1>1. StateTypes'
  BY DEF StateTypes, SmState, SmEventId
<1>2. CountTypes'
  BY DEF StateTypes, CountTypes, Process, FaultInv, EventInv, Pending
<1>3. FlagTypes'
  BY DEF FlagTypes
<1>4. ActionTypes'
  BY DEF ActionTypes
<1>5. PowerInv'
  BY DEF PowerInv
<1>6. (CountInv /\ EventInv /\ NvsInv /\ ProcessInv)'
  BY DEF StateTypes, CountInv, EventInv, NvsInv, ProcessInv
<1>7. (SmeInv /\ EnabledInv)'
  BY DEF SmeInv, EnabledInv, Failing
<1>8. (ActionInv /\ FaultInv)'
  BY DEF StateTypes, CountTypes, ActionInv, FaultInv, Pending, Starting
<1> QED
  BY <1>1, <1>2, <1>3, <1>4, <1>5, <1>6, <1>7, <1>8 DEF IInv

\* A later start needs no ini file.
LEMMA SmStoppedKeeps ==
  ASSUME IInv, SmStopped
  PROVE  IInv'
<1> /\ StateTypes /\ CountTypes /\ FlagTypes /\ ActionTypes /\ PowerInv
    /\ CountInv /\ EventInv /\ NvsInv /\ ProcessInv /\ SmeInv
    /\ EnabledInv /\ ActionInv /\ FaultInv
  BY DEF IInv
<1> USE Raised DEF SmStopped, In, recVars, actionVars, deviceVars, failVars, Succeed, FileReady,
    DisableClient, Unexpected, Fail, TwdStop
<1>1. StateTypes'
  BY DEF StateTypes, SmState, SmEventId
<1>2. CountTypes'
  BY DEF StateTypes, CountTypes, Process, FaultInv, EventInv, Pending
<1>3. FlagTypes'
  BY DEF FlagTypes
<1>4. ActionTypes'
  BY DEF ActionTypes
<1>5. PowerInv'
  BY DEF PowerInv
<1>6. (CountInv /\ EventInv /\ NvsInv /\ ProcessInv)'
  BY DEF StateTypes, CountInv, EventInv, NvsInv, ProcessInv
<1>7. (SmeInv /\ EnabledInv)'
  BY DEF SmeInv, EnabledInv
<1>8. (ActionInv /\ FaultInv)'
  BY DEF ActionInv, FaultInv, Pending, Starting
<1> QED
  BY <1>1, <1>2, <1>3, <1>4, <1>5, <1>6, <1>7, <1>8 DEF IInv

\* A failed recovery may be tried again; anything else ends in FAILED.
LEMMA SmStoppingOnFailKeeps ==
  ASSUME IInv, SmStoppingOnFail
  PROVE  IInv'
<1> /\ StateTypes /\ CountTypes /\ FlagTypes /\ ActionTypes /\ PowerInv
    /\ CountInv /\ EventInv /\ NvsInv /\ ProcessInv /\ SmeInv
    /\ EnabledInv /\ ActionInv /\ FaultInv
  BY DEF IInv
<1> USE Raised DEF SmStoppingOnFail, In, recVars, actionVars, deviceVars, failVars, PowerDown,
    RetryRecovery, SignalCurrent, StopActivities, StopCbEvents, TwdStop
<1>1. StateTypes'
  BY DEF StateTypes, SmState, SmEventId
<1>2. CountTypes'
  BY DEF StateTypes, CountTypes, Process, FaultInv, EventInv, Pending
<1>3. FlagTypes'
  BY DEF FlagTypes
<1>4. ActionTypes'
  BY DEF ActionTypes
<1>5. PowerInv'
  BY DEF PowerInv
<1>6. (CountInv /\ EventInv /\ NvsInv /\ ProcessInv)'
  BY DEF StateTypes, CountInv, EventInv, NvsInv, ProcessInv
<1>7. (SmeInv /\ EnabledInv)'
  BY DEF SmeInv, EnabledInv, Failing
<1>8. (ActionInv /\ FaultInv)'
  BY DEF ActionInv, FaultInv, Starting
<1> QED
  BY <1>1, <1>2, <1>3, <1>4, <1>5, <1>6, <1>7, <1>8 DEF IInv

\* A driver that failed takes no event.
LEMMA SmFailedKeeps ==
  ASSUME IInv, SmFailed
  PROVE  IInv'
<1> /\ StateTypes /\ CountTypes /\ FlagTypes /\ ActionTypes /\ PowerInv
    /\ CountInv /\ EventInv /\ NvsInv /\ ProcessInv /\ SmeInv
    /\ EnabledInv /\ ActionInv /\ FaultInv
  BY DEF IInv
<1> USE Raised DEF SmFailed, In, recVars, actionVars, deviceVars, failVars
<1>1. StateTypes'
  BY DEF StateTypes
<1>2. CountTypes'
  BY DEF CountTypes
<1>3. FlagTypes'
  BY DEF FlagTypes
<1>4. ActionTypes'
  BY DEF ActionTypes
<1>5. PowerInv'
  BY DEF PowerInv
<1>6. (CountInv /\ EventInv /\ NvsInv /\ ProcessInv)'
  BY DEF StateTypes, CountInv, EventInv, NvsInv, ProcessInv
<1>7. (SmeInv /\ EnabledInv)'
  BY DEF SmeInv, EnabledInv, Failing
<1>8. (ActionInv /\ FaultInv)'
  BY DEF ActionInv, FaultInv
<1> QED
  BY <1>1, <1>2, <1>3, <1>4, <1>5, <1>6, <1>7, <1>8 DEF IInv

------------------------------------------------------------------------------
(* So do the other handlers, the health monitor and the OS threads.        *)

\* A process reports its completion.
LEMMA ProcessCompletesKeeps ==
  ASSUME NEW p \in Process, IInv, ProcessCompletes(p)
  PROVE  IInv'
<1> /\ StateTypes /\ CountTypes /\ FlagTypes /\ ActionTypes /\ PowerInv
    /\ CountInv /\ EventInv /\ NvsInv /\ ProcessInv /\ SmeInv
    /\ EnabledInv /\ ActionInv /\ FaultInv
  BY DEF IInv
<1> USE DEF ProcessCompletes, ContextFree, smVars, recVars, actionVars, deviceVars, failVars,
    SmEvent, CompletionOf
<1>1. StateTypes'
  BY DEF StateTypes, SmEventId, Process
<1>2. CountTypes'
  BY DEF CountTypes
<1>3. FlagTypes'
  BY DEF FlagTypes
<1>4. ActionTypes'
  BY DEF ActionTypes
<1>5. PowerInv'
  BY DEF PowerInv
<1>6. (CountInv /\ EventInv /\ NvsInv /\ ProcessInv)'
  BY DEF Process, CountInv, EventInv, NvsInv, ProcessInv, SmeInv
<1>7. (SmeInv /\ EnabledInv)'
  BY DEF Process, ProcessInv, SmeInv, EnabledInv, Failing
<1>8. (ActionInv /\ FaultInv)'
  BY DEF Process, ProcessInv, ActionInv, SmeInv, FaultInv, Pending
<1> QED
  BY <1>1, <1>2, <1>3, <1>4, <1>5, <1>6, <1>7, <1>8 DEF IInv

\* A process reports its failure.
LEMMA InitFailsKeeps ==
  ASSUME NEW p \in Process, IInv, InitFails(p)
  PROVE  IInv'
<1> /\ StateTypes /\ CountTypes /\ FlagTypes /\ ActionTypes /\ PowerInv
    /\ CountInv /\ EventInv /\ NvsInv /\ ProcessInv /\ SmeInv
    /\ EnabledInv /\ ActionInv /\ FaultInv
  BY DEF IInv
<1> USE DEF InitFails, ContextFree, smVars, recVars, actionVars, deviceVars, failVars, SmEvent
<1>1. StateTypes'
  BY DEF StateTypes, SmEventId
<1>2. CountTypes'
  BY DEF CountTypes
<1>3. FlagTypes'
  BY DEF FlagTypes
<1>4. ActionTypes'
  BY DEF ActionTypes
<1>5. PowerInv'
  BY DEF PowerInv
<1>6. (CountInv /\ EventInv /\ NvsInv /\ ProcessInv)'
  BY DEF CountInv, EventInv, NvsInv, ProcessInv
<1>7. (SmeInv /\ EnabledInv)'
  BY DEF ProcessInv, SmeInv, EnabledInv, Failing
<1>8. (ActionInv /\ FaultInv)'
  BY DEF ProcessInv, ActionInv, FaultInv
<1> QED
  BY <1>1, <1>2, <1>3, <1>4, <1>5, <1>6, <1>7, <1>8 DEF IInv

\* TWD_Stop reports, and only STOPPING listens.
LEMMA TwdStopCompletesKeeps ==
  ASSUME IInv, TwdStopCompletes
  PROVE  IInv'
<1> /\ StateTypes /\ CountTypes /\ FlagTypes /\ ActionTypes /\ PowerInv
    /\ CountInv /\ EventInv /\ NvsInv /\ ProcessInv /\ SmeInv
    /\ EnabledInv /\ ActionInv /\ FaultInv
  BY DEF IInv
<1> USE DEF TwdStopCompletes, ContextFree, smVars, recVars, actionVars, deviceVars, failVars,
    SmEvent, StopCbEvents
<1>1. StateTypes'
  BY DEF StateTypes, SmEventId
<1>2. CountTypes'
  BY DEF CountTypes
<1>3. FlagTypes'
  BY DEF FlagTypes
<1>4. ActionTypes'
  BY DEF ActionTypes
<1>5. PowerInv'
  BY DEF PowerInv
<1>6. (CountInv /\ EventInv /\ NvsInv /\ ProcessInv)'
  BY DEF CountInv, EventInv, NvsInv, ProcessInv, Pending
<1>7. (SmeInv /\ EnabledInv)'
  BY DEF SmeInv, EnabledInv, Failing
<1>8. (ActionInv /\ FaultInv)'
  BY DEF ActionInv, FaultInv, Pending
<1> QED
  BY <1>1, <1>2, <1>3, <1>4, <1>5, <1>6, <1>7, <1>8 DEF IInv

\* A start or stop is taken off the queue.
LEMMA InvokeActionKeeps ==
  ASSUME IInv, InvokeAction
  PROVE  IInv'
<1> /\ StateTypes /\ CountTypes /\ FlagTypes /\ ActionTypes /\ PowerInv
    /\ CountInv /\ EventInv /\ NvsInv /\ ProcessInv /\ SmeInv
    /\ EnabledInv /\ ActionInv /\ FaultInv
  BY DEF IInv
<1> USE DEF InvokeAction, ContextFree, smVars, recVars, actionVars, deviceVars, failVars, SmEvent
<1>0. hActionQueue # <<>> => eAction[Head(hActionQueue)] \in {"START", "STOP"}
  BY DEF ActionTypes
<1>1. StateTypes'
  BY <1>0 DEF StateTypes, SmEventId
<1>2. CountTypes'
  BY DEF CountTypes
<1>3. FlagTypes'
  BY DEF FlagTypes
<1>4. ActionTypes'
  BY DEF ActionTypes
<1>5. PowerInv'
  BY DEF PowerInv
<1>6. (CountInv /\ EventInv /\ NvsInv /\ ProcessInv)'
  BY DEF CountInv, EventInv, NvsInv, ProcessInv, EnabledInv, Failing
<1>7. (SmeInv /\ EnabledInv)'
  BY DEF SmeInv, EnabledInv, Failing
<1>8. (ActionInv /\ FaultInv)'
  BY DEF ActionTypes, ActionInv, EnabledInv, FaultInv, Pending, Failing, Starting
<1> QED
  BY <1>1, <1>2, <1>3, <1>4, <1>5, <1>6, <1>7, <1>8 DEF IInv

\* A failure is reported: it pays for a recovery attempt.
LEMMA SendFailureEventKeeps ==
  ASSUME IInv, sendFailureEvent
  PROVE  IInv'
<1> /\ StateTypes /\ CountTypes /\ FlagTypes /\ ActionTypes /\ PowerInv
    /\ CountInv /\ EventInv /\ NvsInv /\ ProcessInv /\ SmeInv
    /\ EnabledInv /\ ActionInv /\ FaultInv
  BY DEF IInv
<1> USE DEF sendFailureEvent, ContextFree, smVars, recVars, actionVars, deviceVars, failVars, InUse
<1>1. StateTypes'
  BY DEF StateTypes
<1>2. CountTypes'
  BY DEF CountTypes
<1>3. FlagTypes'
  BY DEF FlagTypes
<1>4. ActionTypes'
  BY DEF ActionTypes
<1>5. PowerInv'
  BY DEF PowerInv
<1>6. (CountInv /\ EventInv /\ NvsInv /\ ProcessInv)'
  BY DEF CountInv, EventInv, NvsInv, ProcessInv, Pending
<1>7. (SmeInv /\ EnabledInv)'
  BY DEF SmeInv, EnabledInv, Failing
<1>8. (ActionInv /\ FaultInv)'
  BY DEF CountTypes, ActionInv, FaultInv, Pending
<1> QED
  BY <1>1, <1>2, <1>3, <1>4, <1>5, <1>6, <1>7, <1>8 DEF IInv

\* The failure timer expires, and may be forgotten.
LEMMA FailTimerExpiresKeeps ==
  ASSUME IInv, FailTimerExpires
  PROVE  IInv'
<1> /\ StateTypes /\ CountTypes /\ FlagTypes /\ ActionTypes /\ PowerInv
    /\ CountInv /\ EventInv /\ NvsInv /\ ProcessInv /\ SmeInv
    /\ EnabledInv /\ ActionInv /\ FaultInv
  BY DEF IInv
<1> USE DEF FailTimerExpires, ContextFree, smVars, recVars, actionVars, deviceVars, failVars
<1>1. StateTypes'
  BY DEF StateTypes
<1>2. CountTypes'
  BY DEF CountTypes
<1>3. FlagTypes'
  BY DEF FlagTypes
<1>4. ActionTypes'
  BY DEF ActionTypes
<1>5. PowerInv'
  BY DEF PowerInv
<1>6. (CountInv /\ EventInv /\ NvsInv /\ ProcessInv)'
  BY DEF CountInv, EventInv, NvsInv, ProcessInv, Pending
<1>7. (SmeInv /\ EnabledInv)'
  BY DEF SmeInv, EnabledInv
<1>8. (ActionInv /\ FaultInv)'
  BY DEF CountTypes, ActionInv, FaultInv, Pending
<1> QED
  BY <1>1, <1>2, <1>3, <1>4, <1>5, <1>6, <1>7, <1>8 DEF IInv

\* The recovery that the report asked for begins.
LEMMA ProccessFailureEventKeeps ==
  ASSUME IInv, proccessFailureEvent
  PROVE  IInv'
<1> /\ StateTypes /\ CountTypes /\ FlagTypes /\ ActionTypes /\ PowerInv
    /\ CountInv /\ EventInv /\ NvsInv /\ ProcessInv /\ SmeInv
    /\ EnabledInv /\ ActionInv /\ FaultInv
  BY DEF IInv
<1> USE DEF proccessFailureEvent, ContextFree, smVars, recVars, actionVars, deviceVars, failVars,
    SmEvent
<1>1. StateTypes'
  BY DEF StateTypes, SmEventId
<1>2. CountTypes'
  BY DEF CountTypes, FaultInv
<1>3. FlagTypes'
  BY DEF FlagTypes
<1>4. ActionTypes'
  BY DEF ActionTypes
<1>5. PowerInv'
  BY DEF PowerInv
<1>6. (CountInv /\ EventInv /\ NvsInv /\ ProcessInv)'
  <2>1. CountInv' /\ NvsInv'
    BY DEF CountInv, NvsInv
  <2>2. EventInv'
    BY DEF EventInv, StateTypes, Pending
  <2>3. ProcessInv'
    BY DEF ProcessInv, Pending
  <2> QED
    BY <2>1, <2>2, <2>3
<1>7. (SmeInv /\ EnabledInv)'
  BY DEF SmeInv, EnabledInv
<1>8. (ActionInv /\ FaultInv)'
  BY DEF ActionInv, FaultInv, Pending
<1> QED
  BY <1>1, <1>2, <1>3, <1>4, <1>5, <1>6, <1>7, <1>8 DEF IInv

\* A released thread frees its action.
LEMMA ActionReturnsKeeps ==
  ASSUME NEW a \in Action, IInv, ActionReturns(a)
  PROVE  IInv'
<1> /\ StateTypes /\ CountTypes /\ FlagTypes /\ ActionTypes /\ PowerInv
    /\ CountInv /\ EventInv /\ NvsInv /\ ProcessInv /\ SmeInv
    /\ EnabledInv /\ ActionInv /\ FaultInv
  BY DEF IInv
<1> USE DEF ActionReturns, ContextFree, smVars, recVars, actionVars, deviceVars, failVars
<1>1. StateTypes'
  BY DEF StateTypes
<1>2. CountTypes'
  BY DEF CountTypes
<1>3. FlagTypes'
  BY DEF FlagTypes
<1>4. ActionTypes'
  BY DEF ActionTypes
<1>5. PowerInv'
  BY DEF PowerInv
<1>6. (CountInv /\ EventInv /\ NvsInv /\ ProcessInv)'
  BY DEF CountInv, EventInv, NvsInv, ProcessInv, Pending
<1>7. (SmeInv /\ EnabledInv)'
  BY DEF SmeInv, EnabledInv, Failing
<1>8. (ActionInv /\ FaultInv)'
  BY DEF ActionInv, FaultInv, Pending
<1> QED
  BY <1>1, <1>2, <1>3, <1>4, <1>5, <1>6, <1>7, <1>8 DEF IInv

\* A thread gives up, and its action stays queued.
LEMMA WaitTimesOutKeeps ==
  ASSUME NEW a \in Action, IInv, WaitTimesOut(a)
  PROVE  IInv'
<1> /\ StateTypes /\ CountTypes /\ FlagTypes /\ ActionTypes /\ PowerInv
    /\ CountInv /\ EventInv /\ NvsInv /\ ProcessInv /\ SmeInv
    /\ EnabledInv /\ ActionInv /\ FaultInv
  BY DEF IInv
<1> USE DEF WaitTimesOut, ContextFree, smVars, recVars, actionVars, deviceVars, failVars
<1>1. StateTypes'
  BY DEF StateTypes
<1>2. CountTypes'
  BY DEF CountTypes
<1>3. FlagTypes'
  BY DEF FlagTypes
<1>4. ActionTypes'
  BY DEF ActionTypes
<1>5. PowerInv'
  BY DEF PowerInv
<1>6. (CountInv /\ EventInv /\ NvsInv /\ ProcessInv)'
  BY DEF CountInv, EventInv, NvsInv, ProcessInv, Pending
<1>7. (SmeInv /\ EnabledInv)'
  BY DEF SmeInv, EnabledInv, Failing
<1>8. (ActionInv /\ FaultInv)'
  BY DEF ActionInv, FaultInv, Pending
<1> QED
  BY <1>1, <1>2, <1>3, <1>4, <1>5, <1>6, <1>7, <1>8 DEF IInv

\* A thread queues an action.
LEMMA InsertActionKeeps ==
  ASSUME NEW a \in Action, NEW kind \in {"START", "STOP"}, IInv, InsertAction(a, kind)
  PROVE  IInv'
<1> /\ StateTypes /\ CountTypes /\ FlagTypes /\ ActionTypes /\ PowerInv
    /\ CountInv /\ EventInv /\ NvsInv /\ ProcessInv /\ SmeInv
    /\ EnabledInv /\ ActionInv /\ FaultInv
  BY DEF IInv
<1> USE DEF InsertAction, ContextFree, smVars, recVars, actionVars, deviceVars, failVars
<1>1. StateTypes'
  BY DEF StateTypes
<1>2. CountTypes'
  BY DEF CountTypes
<1>3. FlagTypes'
  BY DEF FlagTypes
<1>4. ActionTypes'
  BY DEF ActionTypes
<1>5. PowerInv'
  BY DEF PowerInv
<1>6. (CountInv /\ EventInv /\ NvsInv /\ ProcessInv)'
  BY DEF CountInv, EventInv, NvsInv, ProcessInv, Pending
<1>7. (SmeInv /\ EnabledInv)'
  BY DEF SmeInv, EnabledInv, Failing
<1>8. (ActionInv /\ FaultInv)'
  BY DEF ActionInv, FaultInv, Pending
<1> QED
  BY <1>1, <1>2, <1>3, <1>4, <1>5, <1>6, <1>7, <1>8 DEF IInv

------------------------------------------------------------------------------
(* The theorems.                                                           *)

\* A driver that nobody has started satisfies the invariant.
LEMMA InitIInv == Init => IInv
<1> SUFFICES ASSUME Init PROVE IInv
  OBVIOUS
<1> USE DEF Init
<1>1. StateTypes /\ CountTypes
  BY DEF StateTypes, CountTypes, SmState, SmEventId
<1>2. FlagTypes
  BY Zenon DEF FlagTypes
<1>3. ActionTypes
  BY DEF ActionTypes
<1>4. PowerInv /\ CountInv /\ EventInv /\ NvsInv /\ ProcessInv /\ SmeInv
  BY DEF PowerInv, CountInv, EventInv, NvsInv, ProcessInv, SmeInv
<1>5. EnabledInv /\ ActionInv /\ FaultInv
  BY DEF EnabledInv, ActionInv, FaultInv, Starting
<1> QED
  BY <1>1, <1>2, <1>3, <1>4, <1>5 DEF IInv

\* A step that leaves every variable alone keeps the invariant.
LEMMA StutterKeeps ==
  ASSUME IInv, UNCHANGED vars
  PROVE  IInv'
<1> USE DEF vars, smVars, recVars, actionVars, deviceVars, failVars
<1>1. (StateTypes /\ CountTypes)'
  BY DEF IInv, StateTypes, CountTypes
<1>2. (FlagTypes /\ ActionTypes)'
  BY DEF IInv, FlagTypes, ActionTypes
<1>3. (PowerInv /\ CountInv /\ EventInv /\ NvsInv /\ ProcessInv /\ SmeInv)'
  BY DEF IInv, PowerInv, CountInv, EventInv, NvsInv, ProcessInv, SmeInv, Pending
<1>4. (EnabledInv /\ ActionInv /\ FaultInv)'
  BY DEF IInv, EnabledInv, ActionInv, FaultInv, Pending, Failing
<1> QED
  BY <1>1, <1>2, <1>3, <1>4 DEF IInv

\* Every step keeps the invariant.
LEMMA NextKeeps == IInv /\ [Next]_vars => IInv'
BY SmIdleKeeps, SmWaitIniFileKeeps, SmWaitNvsFileKeeps, SmHwInitKeeps, SmDownloadFwFileKeeps,
   SmWaitFwFileKeeps, SmFwInitKeeps, SmFwConfigKeeps, SmOperationalKeeps, SmDisconnectingKeeps,
   SmStoppingKeeps, SmStoppedKeeps, SmStoppingOnFailKeeps, SmFailedKeeps,
   ProcessCompletesKeeps, InitFailsKeeps, TwdStopCompletesKeeps, InvokeActionKeeps,
   SendFailureEventKeeps, FailTimerExpiresKeeps, ProccessFailureEventKeeps,
   ActionReturnsKeeps, WaitTimesOutKeeps, InsertActionKeeps, StutterKeeps
   DEF Next, drvMain_Sm

\* The inductive invariant holds in every reachable state.
THEOREM Inductive == Spec => []IInv
<1> QED
  BY InitIInv, NextKeeps, PTL DEF Spec

\* Whatever fails on the way, a stopped or failed driver has its device switched
\* off and disconnected, and a driver that talks to the device has both.
THEOREM PowerCorrect == Spec => []PowerFollowsState
<1>1. IInv => PowerFollowsState
  BY DEF IInv, PowerFollowsState, TypeOK, StateTypes, CountTypes, FlagTypes, ActionTypes, PowerInv
<1> QED
  BY <1>1, Inductive, PTL

\* No completion of a process comes in a state that does not wait for it, and an
\* operational driver is told nothing but to stop or to recover.
THEOREM CompletionsCorrect == Spec => []CompletionsExpected
<1>1. IInv => CompletionsExpected
  BY DEF IInv, CompletionsExpected, ProcessInv, SmeInv, ActionInv, In
<1> QED
  BY <1>1, Inductive, PTL

\* Only drvMain_InvokeAction changes the user's last action.
LEMMA OnlyInvokeActs ==
  ASSUME Next, eLastAction' # eLastAction
  PROVE  InvokeAction
BY DEF Next, drvMain_Sm, SmIdle, SmWaitIniFile, SmWaitNvsFile, SmHwInit, SmDownloadFwFile,
   SmWaitFwFile, SmFwInit, SmFwConfig, SmOperational, SmDisconnecting, SmStopping, SmStopped,
   SmStoppingOnFail, SmFailed, ProcessCompletes, InitFails, TwdStopCompletes, sendFailureEvent,
   FailTimerExpires, proccessFailureEvent, ActionReturns, WaitTimesOut, InsertAction,
   Unexpected, actionVars

\* A start or stop that the driver takes never meets an initialisation, a stop or a
\* recovery under way, and a start never meets an operational driver.
THEOREM UserActionsFit == Spec => UserActionFits
<1>1. ASSUME IInv, InvokeAction, eLastAction' # eLastAction
      PROVE  \/ Failing
             \/ eSmState \in {"IDLE", "STOPPED"}
             \/ eSmState = "OPERATIONAL" /\ eLastAction' = "STOP"
  <2>1. hActionQueue # <<>> /\ eLastAction' = eAction[Head(hActionQueue)]
    BY <1>1 DEF InvokeAction, actionVars
  <2>2. eLastAction' \in {"START", "STOP"}
    BY <1>1, <2>1 DEF IInv, ActionTypes
  <2>3. bEnabled /\ uPendingEventsCount = 0
    BY <1>1 DEF InvokeAction, ContextFree
  <2> QED
    BY <1>1, <2>2, <2>3 DEF IInv, EnabledInv, ActionInv, Pending
<1>2. IInv /\ [Next]_vars =>
        [eLastAction' # eLastAction =>
           \/ Failing
           \/ eSmState \in {"IDLE", "STOPPED"}
           \/ eSmState = "OPERATIONAL" /\ eLastAction' = "STOP"]_vars
  BY <1>1, OnlyInvokeActs
<1> QED
  BY <1>2, Inductive, PTL DEF Spec, UserActionFits

==============================================================================

-------------------------------- MODULE DrvMain --------------------------------
(***************************************************************************)
(* Driver start, stop and recovery: the state machine of                   *)
(* stad/src/Ctrl_Interface/DrvMain.c, the start/stop actions that OS       *)
(* threads insert and wait for, and the health monitor that turns a        *)
(* failure report into a recovery by way of a one-millisecond timer        *)
(* (stad/src/Sta_Management/healthMonitor.c, utils/timer.c).               *)
(*                                                                         *)
(* Everything but drvMain_InsertAction and the OS timer's interrupt runs   *)
(* in the driver's context.  drvMain_SmEvent does not nest: an event       *)
(* raised while drvMain_Sm runs is handled by the loop of the outermost    *)
(* call.  So drvMain_Sm is one step, and the other handlers of the         *)
(* driver's context run only when no event is pending.                     *)
(***************************************************************************)
EXTENDS Naturals, Sequences, FiniteSets

CONSTANTS
  Action,            \* action objects (TActionObject) an OS thread can allocate
  NoAction,
  MaxRecoveries,     \* MAX_NUM_OF_RECOVERY_TRIGGERS
  Chunks,            \* portions of the firmware image
  MaxFaults          \* bound: failure reports in one behaviour

ASSUME DrvMainAssumption ==
  /\ NoAction \notin Action
  /\ MaxRecoveries \in Nat /\ Chunks \in Nat \ {0} /\ MaxFaults \in Nat

VARIABLES
  eSmState,
  ePendingEvent, uPendingEventsCount,
  bRecovery, uNumOfRecoveryAttempts,
  eLastAction, pCurrAction, hActionQueue,
  eAction, hSignal,      \* per action object: its kind and its signal object
  bEnabled, bPending,    \* the ACTION client of the context engine
  eDriverState,          \* what the OS layer was told
  power, connected,      \* the device's power, the bus connection
  outstanding,           \* asynchronous processes that will call back
  uChunksLeft,
  failureEvent,          \* health monitor: a failure is being handled
  hFailTimer, bOperWhenStarted, \* its timer, and the driver state it was started in
  bOperState,            \* timer module: the driver is operational
  faults

smVars     == <<eSmState, ePendingEvent, uPendingEventsCount>>
recVars    == <<bRecovery, uNumOfRecoveryAttempts>>
actionVars == <<eLastAction, pCurrAction, hActionQueue, eAction>>
deviceVars == <<power, connected, uChunksLeft>>
failVars   == <<failureEvent, hFailTimer, bOperWhenStarted, faults>>
vars == <<smVars, recVars, actionVars, hSignal, bEnabled, bPending, eDriverState,
          deviceVars, outstanding, failVars, bOperState>>

SmState == {"IDLE", "WAIT_INI_FILE", "WAIT_NVS_FILE", "HW_INIT", "DOWNLOAD_FW_FILE",
            "WAIT_FW_FILE", "FW_INIT", "FW_CONFIG", "OPERATIONAL", "DISCONNECTING",
            "STOPPING", "STOPPED", "STOPPING_ON_FAIL", "FAILED"}
SmEventId == {"START", "INI_FILE_READY", "NVS_FILE_READY", "HW_INIT_COMPLETE",
            "FW_FILE_READY", "FW_INIT_COMPLETE", "FW_CONFIG_COMPLETE", "STOP",
            "RECOVERY", "DISCONNECTED", "STOP_COMPLETE", "FAILURE"}
Process == {"hwInit", "fwInit", "config", "smeStop", "twdStop"}

TypeOK ==
  /\ eSmState \in SmState
  /\ ePendingEvent \in SmEventId /\ uPendingEventsCount \in 0 .. 2
  /\ bRecovery \in BOOLEAN /\ uNumOfRecoveryAttempts \in 0 .. MaxFaults
  /\ eLastAction \in {"NONE", "START", "STOP"}
  /\ pCurrAction \in Action \cup {NoAction}
  /\ hActionQueue \in Seq(Action)
  /\ eAction \in [Action -> {"START", "STOP"}]
  /\ hSignal \in [Action -> {"free", "wait", "set"}]
  /\ bEnabled \in BOOLEAN /\ bPending \in BOOLEAN
  /\ eDriverState \in {"IDLE", "RUNNING", "STOPING", "STOPPED", "FAILED"}
  /\ power \in BOOLEAN /\ connected \in BOOLEAN
  /\ outstanding \subseteq Process
  /\ uChunksLeft \in 0 .. Chunks
  /\ failureEvent \in BOOLEAN
  /\ hFailTimer \in {"off", "running", "operQueue", "initQueue"}
  /\ bOperWhenStarted \in BOOLEAN /\ bOperState \in BOOLEAN
  /\ faults \in 0 .. MaxFaults

Init ==
  /\ eSmState = "IDLE"
  /\ ePendingEvent = "START" /\ uPendingEventsCount = 0
  /\ bRecovery = FALSE /\ uNumOfRecoveryAttempts = 0
  /\ eLastAction = "NONE" /\ pCurrAction = NoAction /\ hActionQueue = <<>>
  /\ eAction = [a \in Action |-> "START"]
  /\ hSignal = [a \in Action |-> "free"]
  /\ bEnabled = TRUE /\ bPending = FALSE
  /\ eDriverState = "IDLE"
  /\ power = FALSE /\ connected = FALSE
  /\ outstanding = {} /\ uChunksLeft = 0
  /\ failureEvent = FALSE /\ hFailTimer = "off" /\ bOperWhenStarted = FALSE
  /\ bOperState = FALSE
  /\ faults = 0

------------------------------------------------------------------------------
(* The parts a transition of drvMain_Sm is made of.                        *)

\* drvMain_SmEvent from inside drvMain_Sm: only the counter and the last
\* event are kept.  The loop then counts the handled event off.
Raise(events) ==
  /\ uPendingEventsCount' = uPendingEventsCount + Len(events) - 1
  /\ ePendingEvent' = IF events = <<>> THEN ePendingEvent ELSE events[Len(events)]

\* wlanDrvIf_GetFile calls drvMain_GetFileCb before it returns.
FileReady(event) == <<event>>

\* Mutant: nobody is released.
NoSignal == UNCHANGED hSignal

\* os_SignalObjectSet (pCurrAction->pSignalObject), whoever waits there now.
SignalCurrent == hSignal' = [hSignal EXCEPT ![pCurrAction] = IF @ = "wait" THEN "set" ELSE @]

\* Mutant: the client keeps being served.
LeaveClientEnabled == UNCHANGED bEnabled

\* context_DisableClient: start and stop actions have to wait.
DisableClient == bEnabled' = FALSE

\* Mutant: the init processes survive.
TwdStopForgetsInit(atOnce) ==
  outstanding' = outstanding \cup (IF atOnce THEN {} ELSE {"twdStop"})

\* What TWD_Stop leaves behind when twIf_Restart could finish at once, and when
\* it has to wait for the bus: the init processes lose their transactions, the
\* SME's disconnection and the callback of an earlier stop do not.
TwdStop(atOnce) ==
  outstanding' = (outstanding \cap {"smeStop", "twdStop"})
                   \cup (IF atOnce THEN {} ELSE {"twdStop"})

\* Mutant: the wrong state listens to drvMain_TwdStopCb.
StopCbWhenFailing(state) == IF state = "STOPPING_ON_FAIL" THEN <<"STOP_COMPLETE">> ELSE <<>>

\* drvMain_TwdStopCb: only SM_STATE_STOPPING listens to it.
StopCbEvents(state) == IF state = "STOPPING" THEN <<"STOP_COMPLETE">> ELSE <<>>

\* drvMain_StopActivities in the given state.
StopActivities(state) ==
  \E atOnce \in BOOLEAN :
    /\ TwdStop(atOnce)
    /\ Raise(IF atOnce THEN StopCbEvents(state) ELSE <<>>)

\* A transition that ends with TI_OK.
Succeed(state, events) ==
  /\ eSmState' = state
  /\ Raise(events)
  /\ UNCHANGED eDriverState

\* A transition that ends with TI_NOK after raising events: whatever state it
\* had set, the tail of drvMain_Sm stops all activities.
Fail(events) ==
  /\ eSmState' = "STOPPING_ON_FAIL"
  /\ eDriverState' = "FAILED"
  /\ \E atOnce \in BOOLEAN : TwdStop(atOnce)
  /\ Raise(events)

\* Handling of the pending event in the given state.
In(state) == uPendingEventsCount > 0 /\ eSmState = state

\* An event that the state does not expect.
Unexpected ==
  /\ Fail(<<>>)
  /\ UNCHANGED <<recVars, actionVars, hSignal, bPending, deviceVars, failVars>>

------------------------------------------------------------------------------
(* drvMain_Sm, state by state.                                             *)

SmIdle ==
  /\ In("IDLE")
  /\ \/ /\ ePendingEvent = "START"
        /\ Succeed("WAIT_INI_FILE", FileReady("INI_FILE_READY"))
        /\ DisableClient
        /\ UNCHANGED <<recVars, actionVars, hSignal, bPending, deviceVars, outstanding, failVars, bOperState>>
     \/ /\ ePendingEvent # "START"
        /\ Unexpected
        /\ UNCHANGED <<bEnabled, bOperState>>

SmWaitIniFile ==
  /\ In("WAIT_INI_FILE")
  /\ ePendingEvent = "INI_FILE_READY"
  /\ Succeed("WAIT_NVS_FILE", FileReady("NVS_FILE_READY"))
  /\ power' = TRUE
  /\ UNCHANGED <<recVars, actionVars, hSignal, bEnabled, bPending, connected, uChunksLeft,
                 outstanding, failVars, bOperState>>

\* hwInit_Boot returns its download status, which is still "pending" when the
\* boot sequence has already reported a failure.
SmWaitNvsFile ==
  /\ In("WAIT_NVS_FILE")
  /\ ePendingEvent = "NVS_FILE_READY"
  /\ \/ /\ connected' = TRUE
        /\ \/ Succeed("HW_INIT", <<>>) /\ outstanding' = outstanding \cup {"hwInit"}
           \/ Succeed("HW_INIT", <<"HW_INIT_COMPLETE">>) /\ UNCHANGED outstanding
           \/ Succeed("HW_INIT", <<"FAILURE">>) /\ UNCHANGED outstanding
     \/ Fail(<<>>) /\ UNCHANGED connected
  /\ UNCHANGED <<recVars, actionVars, hSignal, bEnabled, bPending, power, uChunksLeft,
                 failVars, bOperState>>

\* wlanDrvIf_GetFile rejects an image whose chunk count is not valid.
SmHwInit ==
  /\ In("HW_INIT")
  /\ \/ /\ ePendingEvent = "HW_INIT_COMPLETE"
        /\ \/ /\ Succeed("DOWNLOAD_FW_FILE", FileReady("FW_FILE_READY"))
              /\ uChunksLeft' = Chunks
              /\ UNCHANGED outstanding
           \/ Fail(<<>>) /\ UNCHANGED uChunksLeft
        /\ UNCHANGED <<recVars, actionVars, hSignal, bPending, power, connected, failVars>>
     \/ /\ ePendingEvent # "HW_INIT_COMPLETE"
        /\ Unexpected
  /\ UNCHANGED <<bEnabled, bOperState>>

\* A failing download reports itself twice, from the load state machine and
\* from hwInit_LoadFw, and returns an error too.
SmDownloadFwFile ==
  /\ In("DOWNLOAD_FW_FILE")
  /\ ePendingEvent = "FW_FILE_READY"
  /\ uChunksLeft' = uChunksLeft - 1
  /\ LET next == IF uChunksLeft = 1 THEN "FW_INIT" ELSE "WAIT_FW_FILE"
     IN \/ Succeed(next, <<"FW_INIT_COMPLETE">>) /\ UNCHANGED outstanding
        \/ Succeed(next, <<>>) /\ outstanding' = outstanding \cup {"fwInit"}
        \/ Fail(<<"FAILURE", "FAILURE">>)
  /\ UNCHANGED <<recVars, actionVars, hSignal, bEnabled, bPending, power, connected,
                 failVars, bOperState>>

SmWaitFwFile ==
  /\ In("WAIT_FW_FILE")
  /\ \/ /\ ePendingEvent = "FW_INIT_COMPLETE"
        /\ Succeed("DOWNLOAD_FW_FILE", FileReady("FW_FILE_READY"))
        /\ UNCHANGED <<recVars, actionVars, hSignal, bPending, deviceVars, outstanding, failVars>>
     \/ /\ ePendingEvent # "FW_INIT_COMPLETE"
        /\ Unexpected
  /\ UNCHANGED <<bEnabled, bOperState>>

\* The user of a START action is released here, before the configuration.
SmFwInit ==
  /\ In("FW_INIT")
  /\ \/ /\ ePendingEvent = "FW_INIT_COMPLETE"
        /\ eSmState' = "FW_CONFIG"
        /\ Raise(<<>>)
        /\ IF bRecovery THEN UNCHANGED <<eDriverState, hSignal>>
                        ELSE eDriverState' = "RUNNING" /\ SignalCurrent
        /\ outstanding' = outstanding \cup {"config"}
        /\ UNCHANGED <<recVars, actionVars, bPending, deviceVars, failVars>>
     \/ /\ ePendingEvent # "FW_INIT_COMPLETE"
        /\ Unexpected
  /\ UNCHANGED <<bEnabled, bOperState>>

\* The driver is operational again.
RecoveryDone ==
  /\ bRecovery' = FALSE
  /\ uNumOfRecoveryAttempts' = IF bRecovery THEN 0 ELSE uNumOfRecoveryAttempts

\* tmr_UpdateDriverState (TRUE) empties the queue of the init phase's timers.
SmFwConfig ==
  /\ In("FW_CONFIG")
  /\ \/ /\ ePendingEvent = "FW_CONFIG_COMPLETE"
        /\ Succeed("OPERATIONAL", <<>>)
        /\ RecoveryDone
        /\ bOperState' = TRUE
        /\ hFailTimer' = IF hFailTimer = "initQueue" THEN "off" ELSE hFailTimer
        /\ bEnabled' = TRUE
        /\ UNCHANGED <<actionVars, hSignal, bPending, deviceVars, outstanding, failureEvent,
                       bOperWhenStarted, faults>>
     \/ /\ ePendingEvent # "FW_CONFIG_COMPLETE"
        /\ Unexpected
        /\ UNCHANGED <<bEnabled, bOperState>>

\* smeSm_Stop calls back at once when the SME is not running.
SmOperational ==
  /\ In("OPERATIONAL")
  /\ DisableClient
  /\ bOperState' = FALSE
  /\ \/ /\ ePendingEvent = "STOP"
        /\ eSmState' = "DISCONNECTING"
        /\ eDriverState' = "STOPING"
        /\ \/ Raise(<<"DISCONNECTED">>) /\ UNCHANGED outstanding
           \/ Raise(<<>>) /\ outstanding' = outstanding \cup {"smeStop"}
        /\ UNCHANGED <<recVars, actionVars, hSignal, bPending, deviceVars, failVars>>
     \/ /\ ePendingEvent = "RECOVERY"
        /\ eSmState' = "STOPPING"
        /\ StopActivities("STOPPING")
        /\ UNCHANGED <<recVars, actionVars, hSignal, bPending, eDriverState, deviceVars, failVars>>

SmDisconnecting ==
  /\ In("DISCONNECTING")
  /\ \/ /\ ePendingEvent = "DISCONNECTED"
        /\ eSmState' = "STOPPING"
        /\ StopActivities("STOPPING")
        /\ UNCHANGED <<recVars, actionVars, hSignal, bPending, eDriverState, deviceVars, failVars>>
     \/ /\ ePendingEvent # "DISCONNECTED"
        /\ Unexpected
  /\ UNCHANGED <<bEnabled, bOperState>>

\* Mutant: the device stays on.
DisconnectOnly == connected' = FALSE /\ UNCHANGED power

\* txnQ_DisconnectBus and hPlatform_DevicePowerOff.
PowerDown == power' = FALSE /\ connected' = FALSE

SmStopping ==
  /\ In("STOPPING")
  /\ \/ /\ ePendingEvent = "STOP_COMPLETE" /\ bRecovery
        /\ connected' = FALSE /\ power' = TRUE
        /\ Succeed("WAIT_NVS_FILE", FileReady("NVS_FILE_READY"))
        /\ UNCHANGED <<recVars, actionVars, hSignal, bEnabled, bPending, uChunksLeft,
                       outstanding, failVars>>
     \/ /\ ePendingEvent = "STOP_COMPLETE" /\ ~bRecovery
        /\ PowerDown
        /\ eSmState' = "STOPPED" /\ Raise(<<>>)
        /\ hFailTimer' = IF hFailTimer = "operQueue" THEN "off" ELSE hFailTimer
        /\ eDriverState' = "STOPPED"
        /\ bEnabled' = TRUE
        /\ SignalCurrent
        /\ UNCHANGED <<recVars, actionVars, bPending, uChunksLeft, outstanding,
                       failureEvent, bOperWhenStarted, faults>>
     \/ /\ ePendingEvent # "STOP_COMPLETE"
        /\ Unexpected
        /\ UNCHANGED bEnabled
  /\ UNCHANGED bOperState

SmStopped ==
  /\ In("STOPPED")
  /\ DisableClient
  /\ \/ /\ ePendingEvent = "START"
        /\ power' = TRUE
        /\ Succeed("WAIT_NVS_FILE", FileReady("NVS_FILE_READY"))
        /\ UNCHANGED <<recVars, actionVars, hSignal, bPending, connected, uChunksLeft,
                       outstanding, failVars>>
     \/ /\ ePendingEvent # "START"
        /\ Unexpected
  /\ UNCHANGED bOperState

\* Another try, when a recovery failed and tries are left.
RetryRecovery == bRecovery /\ uNumOfRecoveryAttempts < MaxRecoveries

SmStoppingOnFail ==
  /\ In("STOPPING_ON_FAIL")
  /\ PowerDown
  /\ bRecovery' = FALSE
  /\ \/ /\ ~RetryRecovery
        /\ eSmState' = "FAILED" /\ Raise(<<>>)
        /\ IF bRecovery THEN UNCHANGED hSignal ELSE SignalCurrent
        /\ UNCHANGED outstanding
     \/ /\ RetryRecovery
        /\ eSmState' = "STOPPING"
        /\ StopActivities("STOPPING")
        /\ UNCHANGED hSignal
  /\ UNCHANGED <<uNumOfRecoveryAttempts, actionVars, bEnabled, bPending, eDriverState,
                 uChunksLeft, failVars, bOperState>>

SmFailed ==
  /\ In("FAILED")
  /\ Raise(<<>>)
  /\ UNCHANGED <<eSmState, recVars, actionVars, hSignal, bEnabled, bPending, eDriverState,
                 deviceVars, outstanding, failVars, bOperState>>

drvMain_Sm ==
  \/ SmIdle \/ SmWaitIniFile \/ SmWaitNvsFile \/ SmHwInit \/ SmDownloadFwFile
  \/ SmWaitFwFile \/ SmFwInit \/ SmFwConfig \/ SmOperational \/ SmDisconnecting
  \/ SmStopping \/ SmStopped \/ SmStoppingOnFail \/ SmFailed

------------------------------------------------------------------------------
(* Handlers of the driver's context that raise an event.                   *)

\* drvMain_SmEvent from outside drvMain_Sm.
SmEvent(event) ==
  /\ uPendingEventsCount' = 1
  /\ ePendingEvent' = event
  /\ UNCHANGED eSmState

\* The driver's context is free for another handler.
ContextFree == uPendingEventsCount = 0

CompletionOf(p) == CASE p = "hwInit" -> "HW_INIT_COMPLETE"
                     [] p = "fwInit" -> "FW_INIT_COMPLETE"
                     [] p = "config" -> "FW_CONFIG_COMPLETE"
                     [] p = "smeStop" -> "DISCONNECTED"

\* drvMain_InitHwCb, drvMain_InitFwCb, drvMain_ConfigFwCb and drvMain_SmeStop.
ProcessCompletes(p) ==
  /\ ContextFree
  /\ p \in outstanding \ {"twdStop"}
  /\ outstanding' = outstanding \ {p}
  /\ SmEvent(CompletionOf(p))
  /\ UNCHANGED <<recVars, actionVars, hSignal, bEnabled, bPending, eDriverState, deviceVars,
                 failVars, bOperState>>

\* drvMain_InitFailCb: a step of the boot or download sequence failed later.
InitFails(p) ==
  /\ ContextFree
  /\ p \in outstanding \cap {"hwInit", "fwInit"}
  /\ outstanding' = outstanding \ {p}
  /\ SmEvent("FAILURE")
  /\ UNCHANGED <<recVars, actionVars, hSignal, bEnabled, bPending, eDriverState, deviceVars,
                 failVars, bOperState>>

\* drvMain_TwdStopCb, called when the bus has finished its last transaction.
TwdStopCompletes ==
  /\ ContextFree
  /\ "twdStop" \in outstanding
  /\ outstanding' = outstanding \ {"twdStop"}
  /\ IF StopCbEvents(eSmState) # <<>> THEN SmEvent("STOP_COMPLETE") ELSE UNCHANGED smVars
  /\ UNCHANGED <<recVars, actionVars, hSignal, bEnabled, bPending, eDriverState, deviceVars,
                 failVars, bOperState>>

\* drvMain_InvokeAction: takes one action of the queue per call.
InvokeAction ==
  /\ ContextFree
  /\ bEnabled /\ bPending
  /\ bPending' = FALSE
  /\ IF hActionQueue = <<>>
     THEN UNCHANGED <<smVars, actionVars, hSignal>>
     ELSE LET a == Head(hActionQueue)
          IN /\ hActionQueue' = Tail(hActionQueue)
             /\ IF eAction[a] = eLastAction
                THEN /\ hSignal' = [hSignal EXCEPT ![a] = IF @ = "wait" THEN "set" ELSE @]
                     /\ UNCHANGED <<smVars, eLastAction, pCurrAction>>
                ELSE /\ eLastAction' = eAction[a]
                     /\ pCurrAction' = a
                     /\ SmEvent(eAction[a])
                     /\ UNCHANGED hSignal
             /\ UNCHANGED eAction
  /\ UNCHANGED <<recVars, bEnabled, eDriverState, deviceVars, outstanding, failVars, bOperState>>

------------------------------------------------------------------------------
(* The health monitor and its timer.                                       *)

\* The states in which the bus or the firmware is in use.
InUse == {"HW_INIT", "WAIT_FW_FILE", "FW_INIT", "FW_CONFIG", "OPERATIONAL", "DISCONNECTING"}

\* healthMonitor_sendFailureEvent, called by the modules that notice a failure.
sendFailureEvent ==
  /\ ContextFree
  /\ eSmState \in InUse
  /\ faults < MaxFaults
  /\ faults' = faults + 1
  /\ IF failureEvent
     THEN UNCHANGED <<failureEvent, hFailTimer, bOperWhenStarted>>
     ELSE failureEvent' = TRUE /\ hFailTimer' = "running" /\ bOperWhenStarted' = bOperState
  /\ UNCHANGED <<smVars, recVars, actionVars, hSignal, bEnabled, bPending, eDriverState,
                 deviceVars, outstanding, bOperState>>

\* tmr_GetExpiry, in the OS timer's context: a timer of the init phase is
\* forgotten when the driver has become operational.
FailTimerExpires ==
  /\ hFailTimer = "running"
  /\ hFailTimer' = IF bOperWhenStarted THEN "operQueue"
                   ELSE IF ~bOperState THEN "initQueue" ELSE "off"
  /\ UNCHANGED <<smVars, recVars, actionVars, hSignal, bEnabled, bPending, eDriverState,
                 deviceVars, outstanding, failureEvent, bOperWhenStarted, faults, bOperState>>

\* tmr_HandleExpiry calling healthMonitor_proccessFailureEvent and
\* drvMain_Recovery: the queue that matches the driver's state is served.
proccessFailureEvent ==
  /\ ContextFree
  /\ hFailTimer = (IF bOperState THEN "operQueue" ELSE "initQueue")
  /\ hFailTimer' = "off"
  /\ failureEvent' = FALSE
  /\ uNumOfRecoveryAttempts' = uNumOfRecoveryAttempts + 1
  /\ bRecovery' = TRUE
  /\ SmEvent("RECOVERY")
  /\ UNCHANGED <<actionVars, hSignal, bEnabled, bPending, eDriverState, deviceVars,
                 outstanding, bOperWhenStarted, faults, bOperState>>

------------------------------------------------------------------------------
(* OS threads.                                                             *)

\* Action a is queued.
IsQueued(a) == \E i \in 1 .. Len(hActionQueue) : hActionQueue[i] = a

\* wlanDrvIf_Start and wlanDrvIf_Stop up to the wait in drvMain_InsertAction.
\* Memory that is still linked in the queue is not allocated again: what the
\* corrupted queue would do is not modelled.
InsertAction(a, kind) ==
  /\ hSignal[a] = "free" /\ ~IsQueued(a)
  /\ eDriverState # "FAILED"
  /\ hSignal' = [hSignal EXCEPT ![a] = "wait"]
  /\ eAction' = [eAction EXCEPT ![a] = kind]
  /\ hActionQueue' = Append(hActionQueue, a)
  /\ bPending' = TRUE
  /\ UNCHANGED <<smVars, recVars, eLastAction, pCurrAction, bEnabled, eDriverState, deviceVars,
                 outstanding, failVars, bOperState>>

\* The rest of drvMain_InsertAction: the action object is freed.
ActionReturns(a) ==
  /\ hSignal[a] = "set"
  /\ hSignal' = [hSignal EXCEPT ![a] = "free"]
  /\ UNCHANGED <<smVars, recVars, actionVars, bEnabled, bPending, eDriverState, deviceVars,
                 outstanding, failVars, bOperState>>

\* os_SignalObjectWait gives up after ten seconds; drvMain_InsertAction frees
\* the action as if it had been carried out.
WaitTimesOut(a) ==
  /\ hSignal[a] = "wait"
  /\ hSignal' = [hSignal EXCEPT ![a] = "free"]
  /\ UNCHANGED <<smVars, recVars, actionVars, bEnabled, bPending, eDriverState, deviceVars,
                 outstanding, failVars, bOperState>>

Next ==
  \/ drvMain_Sm
  \/ \E p \in Process : ProcessCompletes(p) \/ InitFails(p)
  \/ TwdStopCompletes
  \/ InvokeAction
  \/ sendFailureEvent \/ FailTimerExpires \/ proccessFailureEvent
  \/ \E a \in Action : ActionReturns(a) \/ WaitTimesOut(a) \/ \E kind \in {"START", "STOP"} : InsertAction(a, kind)

Spec == Init /\ [][Next]_vars

\* The driver's context keeps running, the asynchronous processes end, the OS
\* timer expires and signalled threads wake up.
Fairness ==
  /\ WF_vars(drvMain_Sm)
  /\ \A p \in Process : WF_vars(ProcessCompletes(p))
  /\ WF_vars(TwdStopCompletes)
  /\ WF_vars(InvokeAction)
  /\ WF_vars(FailTimerExpires) /\ WF_vars(proccessFailureEvent)
  /\ \A a \in Action : WF_vars(ActionReturns(a))

FairSpec == Spec /\ Fairness

------------------------------------------------------------------------------
(* Properties.                                                             *)

\* A driver that is stopped or has failed has its device switched off and its
\* bus disconnected, and a driver that talks to the device has both: whatever
\* fails on the way, no path through drvMain_Sm forgets the device.
PowerFollowsState ==
  /\ TypeOK
  /\ eSmState \in {"IDLE", "WAIT_INI_FILE", "STOPPED", "FAILED"} => ~power /\ ~connected
  /\ eSmState \in {"HW_INIT", "DOWNLOAD_FW_FILE", "WAIT_FW_FILE", "FW_INIT", "FW_CONFIG",
                    "OPERATIONAL", "DISCONNECTING"} => power /\ connected

\* The completion of a process comes only in a state that waits for it, TWD_Stop
\* leaving no init process behind, and an operational driver is told nothing but
\* to stop or to recover.
CompletionsExpected ==
  /\ "hwInit" \in outstanding => eSmState = "HW_INIT"
  /\ "fwInit" \in outstanding => eSmState \in {"WAIT_FW_FILE", "FW_INIT"}
  /\ "config" \in outstanding => eSmState = "FW_CONFIG"
  /\ "smeStop" \in outstanding =>
        eSmState \in {"DISCONNECTING", "STOPPING_ON_FAIL", "STOPPING", "STOPPED", "FAILED"}
  /\ In("OPERATIONAL") => ePendingEvent \in {"STOP", "RECOVERY"}

\* The failure path.  drvMain_Sm may stay in STOPPING_ON_FAIL for ever: a TWD_Stop
\* that could not finish at once reports to drvMain_TwdStopCb, which raises an event
\* only in STOPPING.
Failing == eSmState \in {"STOPPING_ON_FAIL", "FAILED"}

\* A start or stop that drvMain_InvokeAction takes never finds the driver in the
\* middle of an initialisation, a stop or a recovery, although these begin and end
\* at any time and the action may have been queued long before: the ACTION client
\* is disabled in every such state.  A start finds a driver that is not running.
UserActionFits ==
  [][eLastAction' # eLastAction =>
       \/ Failing
       \/ eSmState \in {"IDLE", "STOPPED"}
       \/ eSmState = "OPERATIONAL" /\ eLastAction' = "STOP"]_vars

\* A thread whose action was taken off the queue is released, unless the driver
\* fails: nobody else's action takes its place as pCurrAction before.
ActionAnswered ==
  \A a \in Action : hSignal[a] = "wait" /\ ~IsQueued(a) ~> hSignal[a] # "wait" \/ Failing

\* A recovery ends, with an operational driver or a failure, although it passes
\* through the whole stop and initialisation and may be requested again meanwhile.
RecoveryEnds == bRecovery ~> ~bRecovery \/ Failing
==============================================================================

------------------------------- MODULE CmdQueue -------------------------------
(***************************************************************************)
(* The queue of firmware commands (TWD/Ctrl/CmdQueue.c) over the command   *)
(* mailbox (TWD/FW_Transfer/CmdMBox.c): one command at a time is written   *)
(* to the device, its result is read back when the firmware has interrupted*)
(* and the originator is called back.  A mailbox timeout or a bus error    *)
(* leads to a recovery, which restarts the queue (TWD_Stop) and calls the  *)
(* commands it found there back when the firmware is configured again.     *)
(*                                                                         *)
(* All of it runs in the driver's context, except the OS timer's expiry.   *)
(* A callback may send commands: the handler that calls it is split there  *)
(* and cb names the command whose callback runs.                           *)
(***************************************************************************)
EXTENDS Integers, Sequences, FiniteSets

CONSTANTS
  Cmd, NoCmd,
  Callback,        \* the commands that are sent with a callback
  Config,          \* the last command of cmdBld_ConfigSeq, sent by the driver itself
  Depth,           \* CMDQUEUE_QUEUE_DEPTH
  MaxFaults,       \* bound: firmware hangs, early timer expiries and bus errors
  MaxStops         \* bound: stops and recoveries that other modules cause

\* Waiting for a START, stopping for a recovery or loading, being configured,
\* operational, stopping for the user, stopping because one of these failed, given up.
Phase == {"stopped", "down", "config", "run", "disconnecting", "failing", "failed"}

ASSUME CmdQueueAssumption ==
  /\ NoCmd \notin Cmd
  /\ Callback \subseteq Cmd /\ Config \in Callback
  /\ Depth \in Nat \ {0}
  /\ MaxFaults \in Nat /\ MaxStops \in Nat

VARIABLES
  aCmdQueue, head, tail, uNumberOfCommandInQueue,
  state, bAwake, bErrorFlag, bMboxEnabled,
  aRecoveryQueue,      \* callbacks saved by cmdQueue_Restart
  bCmdInProgress, mbox,\* the mailbox is in use, by this command
  read,                \* the transaction that reads the result
  osTimer, expiry,     \* the mailbox timer, and its expiry when queued
  awakeReq,            \* awake requests that TwIf counts for this module
  fw,                  \* what the firmware does with the mailbox
  phase,
  cb, cbIndex,         \* the running callback, the next saved callback to call
  recover,             \* a failure was reported to the health monitor
  owed,                \* clients' commands that were accepted and wait for their callback
  faults, stops

ringVars  == <<aCmdQueue, head, tail, uNumberOfCommandInQueue>>
mboxVars  == <<bCmdInProgress, mbox, osTimer, fw>>
smVars    == <<state, bAwake, awakeReq>>
cbVars    == <<cb, cbIndex>>
boundVars == <<faults, stops>>
vars == <<ringVars, smVars, bErrorFlag, bMboxEnabled, aRecoveryQueue, mboxVars, read, expiry,
          phase, cbVars, recover, owed, boundVars>>

Slot == 0 .. Depth - 1

TypeOK ==
  /\ aCmdQueue \in [Slot -> Cmd \cup {NoCmd}]
  /\ head \in Slot /\ tail \in Slot /\ uNumberOfCommandInQueue \in Nat
  /\ state \in {"IDLE", "WAIT_FOR_COMPLETION"}
  /\ bAwake \in BOOLEAN /\ bErrorFlag \in BOOLEAN /\ bMboxEnabled \in BOOLEAN
  /\ aRecoveryQueue \in Seq(Callback)
  /\ bCmdInProgress \in BOOLEAN /\ mbox \in Cmd \cup {NoCmd}
  /\ read \in {"none", "pending", "late"}
  /\ osTimer \in BOOLEAN /\ expiry \in {"none", "init", "oper"}
  /\ awakeReq \in Nat
  /\ fw \in {"idle", "busy", "done", "hung"}
  /\ phase \in Phase
  /\ cb \in Cmd \cup {NoCmd} /\ cbIndex \in Nat
  /\ recover \in BOOLEAN
  /\ owed \subseteq Callback \ {Config}
  /\ faults \in 0 .. MaxFaults /\ stops \in 0 .. MaxStops

Init ==
  /\ aCmdQueue = [s \in Slot |-> NoCmd]
  /\ head = 0 /\ tail = 0 /\ uNumberOfCommandInQueue = 0
  /\ state = "IDLE" /\ bAwake = FALSE /\ awakeReq = 0
  /\ bErrorFlag = FALSE /\ bMboxEnabled = FALSE
  /\ aRecoveryQueue = <<>>
  /\ bCmdInProgress = FALSE /\ mbox = NoCmd /\ osTimer = FALSE /\ fw = "idle"
  /\ read = "none" /\ expiry = "none"
  /\ phase = "stopped"
  /\ cb = NoCmd /\ cbIndex = 0
  /\ recover = FALSE
  /\ owed = {}
  /\ faults = 0 /\ stops = 0

------------------------------------------------------------------------------
(* The ring.                                                               *)

NextSlot(s) == IF s + 1 >= Depth THEN 0 ELSE s + 1

\* The slot of the i-th command after the head.
SlotAt(i) == IF head + i >= Depth THEN head + i - Depth ELSE head + i

Queued(i) == i \in 0 .. uNumberOfCommandInQueue - 1

InRing(c) == \E i \in Slot : Queued(i) /\ aCmdQueue[SlotAt(i)] = c

IsSaved(c) == \E i \in 1 .. Len(aRecoveryQueue) : aRecoveryQueue[i] = c

\* Mutant: the oldest command is overwritten.
NeverFull == FALSE

IsFull == uNumberOfCommandInQueue = Depth

------------------------------------------------------------------------------
(* Sending.                                                                *)

\* Mutant: asks again for every command.
AwakeEachTime == awakeReq' = awakeReq + 1 /\ bAwake' = TRUE

\* TwIf is asked once to keep the device awake for a row of commands.
KeepAwake == bAwake' = TRUE /\ awakeReq' = IF bAwake THEN awakeReq ELSE awakeReq + 1

\* CMDQUEUE_EVENT_RUN in the IDLE state: cmdMbox_SendCommand, which refuses a
\* command while another one is in progress.
Run(c) ==
  /\ state' = "WAIT_FOR_COMPLETION"
  /\ KeepAwake
  /\ bCmdInProgress' = TRUE
  /\ mbox' = IF bCmdInProgress THEN mbox ELSE c
  /\ osTimer' = (bCmdInProgress => osTimer)
  /\ fw' = IF bCmdInProgress THEN fw ELSE "busy"

\* cmdQueue_Push runs the state machine for the first command only, and the
\* state machine does nothing for it while a command waits for completion.
RunNow == uNumberOfCommandInQueue = 0 /\ state = "IDLE"

\* cmdQueue_Push with the mailbox enabled and room in the queue.
Push(c) ==
  /\ aCmdQueue' = [aCmdQueue EXCEPT ![tail] = c]
  /\ tail' = NextSlot(tail)
  /\ uNumberOfCommandInQueue' = uNumberOfCommandInQueue + 1
  /\ owed' = IF c \in Callback \ {Config} THEN owed \cup {c} ELSE owed
  /\ IF RunNow THEN Run(c) ELSE UNCHANGED <<smVars, mboxVars>>
  /\ UNCHANGED head

\* cmdQueue_SendCommand: refused after an error, swallowed while the mailbox is
\* disabled, refused when the queue is full.
Accepts == ~bErrorFlag /\ bMboxEnabled /\ ~IsFull

\* A client of the driver sends a command, from its own handler or from a callback.
SendCommand(c) ==
  /\ c # Config /\ ~InRing(c) /\ ~IsSaved(c) /\ c \notin owed
  /\ Accepts
  /\ Push(c)
  /\ UNCHANGED <<bErrorFlag, bMboxEnabled, aRecoveryQueue, read, expiry, phase, cbVars, recover,
                 boundVars>>

------------------------------------------------------------------------------
(* The firmware, the mailbox timer and the result.                         *)

FaultAllowed == faults < MaxFaults

FwCompletes ==
  /\ fw = "busy"
  /\ fw' = "done"
  /\ UNCHANGED <<ringVars, smVars, bErrorFlag, bMboxEnabled, aRecoveryQueue, bCmdInProgress, mbox,
                 osTimer, read, expiry, phase, cbVars, recover, owed, boundVars>>

FwHangs ==
  /\ fw = "busy" /\ FaultAllowed
  /\ fw' = "hung" /\ faults' = faults + 1
  /\ UNCHANGED <<ringVars, smVars, bErrorFlag, bMboxEnabled, aRecoveryQueue, bCmdInProgress, mbox,
                 osTimer, read, expiry, phase, cbVars, recover, owed, stops>>

\* The queue that tmr_GetExpiry uses: that of the operational driver, if it was
\* operational when the timer was started.
ExpiryQueue == CASE phase = "run" -> {"oper"}
                 [] phase = "disconnecting" -> {"oper", "init"}
                 [] OTHER -> {"init"}

\* tmr_GetExpiry in the OS timer's context; early, unless the firmware hangs.
TimerExpires ==
  /\ osTimer
  /\ \/ fw = "hung" /\ UNCHANGED faults
     \/ fw # "hung" /\ FaultAllowed /\ faults' = faults + 1
  /\ osTimer' = FALSE
  /\ expiry' \in ExpiryQueue
  /\ UNCHANGED <<ringVars, smVars, bErrorFlag, bMboxEnabled, aRecoveryQueue, bCmdInProgress, mbox,
                 fw, read, phase, cbVars, recover, owed, stops>>

\* The driver's context is free for another handler.
ContextFree == cb = NoCmd

\* cmdMbox_TimeOut and cmdQueue_Error: whatever the mailbox does by now, the
\* health monitor is told.
TimeOut ==
  /\ ContextFree
  /\ expiry = (IF phase = "run" THEN "oper" ELSE "init")
  /\ expiry' = "none"
  /\ recover' = TRUE
  /\ UNCHANGED <<ringVars, smVars, bErrorFlag, bMboxEnabled, aRecoveryQueue, mboxVars, read,
                 phase, cbVars, owed, boundVars>>

\* cmdMbox_TransferComplete and CMDQUEUE_EVENT_COMPLETE up to the callback: the
\* command leaves the queue before its originator is called.
Complete ==
  /\ bCmdInProgress' = FALSE
  /\ head' = NextSlot(head)
  /\ uNumberOfCommandInQueue' = uNumberOfCommandInQueue - 1
  /\ bErrorFlag' \in BOOLEAN         \* the status that the firmware answers with
  /\ cb' = aCmdQueue[head]
  /\ owed' = owed \ {aCmdQueue[head]}
  /\ UNCHANGED <<aCmdQueue, tail, smVars, bMboxEnabled, aRecoveryQueue, mbox, expiry, phase,
                 cbIndex, stops>>

\* cmdMbox_CommandComplete, called by FwEvent: the result is read at once, later,
\* or not at all.
CommandComplete ==
  /\ ContextFree
  /\ fw = "done"
  /\ fw' = "idle"
  /\ osTimer' = FALSE
  /\ \/ Complete /\ UNCHANGED <<read, recover, faults>>
     \/ /\ read' = "pending"
        /\ UNCHANGED <<ringVars, smVars, bErrorFlag, bMboxEnabled, aRecoveryQueue, bCmdInProgress,
                       mbox, expiry, phase, cbVars, recover, owed, boundVars>>
     \/ /\ FaultAllowed /\ faults' = faults + 1
        /\ recover' = TRUE
        /\ UNCHANGED <<ringVars, smVars, bErrorFlag, bMboxEnabled, aRecoveryQueue, bCmdInProgress,
                       mbox, read, expiry, phase, cbVars, owed, stops>>

\* cmdMbox_TransferComplete as the callback of the read.
TransferComplete ==
  /\ ContextFree
  /\ read = "pending"
  /\ read' = "none"
  /\ Complete
  /\ UNCHANGED <<osTimer, fw, recover, faults>>

\* The read's completion was queued while twIf_Restart cleared the done queue:
\* the command queue is idle and refuses the event.
LateTransferComplete ==
  /\ ContextFree
  /\ read = "late"
  /\ read' = "none"
  /\ bCmdInProgress' = FALSE
  /\ UNCHANGED <<ringVars, smVars, bErrorFlag, bMboxEnabled, aRecoveryQueue, mbox, osTimer, fw,
                 expiry, phase, cbVars, recover, owed, boundVars>>

MoreWaiting == uNumberOfCommandInQueue > 0

\* Mutant: uNumberOfRecoveryNodes is not reset.
KeepSaved == aRecoveryQueue

\* cmdQueue_EndReconfig has called the saved callbacks.
ForgetSaved == <<>>

\* The callback returns into cmdQueue_SM: the next command is sent, or the
\* device may sleep.
CbReturns ==
  /\ cb # NoCmd /\ (cb = Config => cbIndex > Len(aRecoveryQueue))
  /\ cb' = NoCmd /\ cbIndex' = 0
  /\ IF cb = Config
     THEN phase' = "run" /\ aRecoveryQueue' = ForgetSaved /\ expiry' = (IF expiry = "init" THEN "none" ELSE expiry)
     ELSE UNCHANGED <<phase, aRecoveryQueue, expiry>>
  /\ IF MoreWaiting
     THEN Run(aCmdQueue[head])
     ELSE /\ state' = "IDLE" /\ bAwake' = FALSE /\ awakeReq' = awakeReq - 1
          /\ UNCHANGED mboxVars
  /\ UNCHANGED <<ringVars, bErrorFlag, bMboxEnabled, read, recover, owed, boundVars>>

------------------------------------------------------------------------------
(* Restart and reconfiguration.                                            *)

\* cmdQueue_EndReconfig, called from the callback of the configuration's last
\* command: the saved callbacks are called with CMD_STATUS_FW_RESET.
EndReconfig ==
  /\ cb = Config
  /\ cbIndex <= Len(aRecoveryQueue)
  /\ cbIndex' = cbIndex + 1
  /\ owed' = IF cbIndex = 0 THEN owed ELSE owed \ {aRecoveryQueue[cbIndex]}
  /\ UNCHANGED <<ringVars, smVars, bErrorFlag, bMboxEnabled, aRecoveryQueue, mboxVars, read,
                 expiry, phase, cb, recover, boundVars>>

\* Mutant: the command in the mailbox is not saved.
KeptButFirst == {i \in Slot \ {0} : Queued(i) /\ aCmdQueue[SlotAt(i)] \in Callback}

\* The queued commands that have a callback.
Kept == {i \in Slot : Queued(i) /\ aCmdQueue[SlotAt(i)] \in Callback}

\* Their callbacks are saved in the order of the queue.
SaveCallbacks ==
  \E pos \in [1 .. Cardinality(Kept) -> Kept] :
     /\ \A i, j \in DOMAIN pos : i < j => pos[i] < pos[j]
     /\ aRecoveryQueue' = [i \in DOMAIN pos |-> aCmdQueue[SlotAt(pos[i])]]

\* Mutant: the state machine still waits for the command that is gone.
StateKept == state

StateAfterRestart == "IDLE"

\* TWD_Stop, as far as commands are concerned: cmdMbox_Restart,
\* cmdQueue_Restart, cmdQueue_DisableMbox and twIf_Restart.  It runs from the
\* top of the driver's context.
Restart ==
  /\ ContextFree
  /\ osTimer' = FALSE /\ bCmdInProgress' = FALSE
  /\ state' = StateAfterRestart /\ bAwake' = FALSE
  /\ SaveCallbacks
  /\ head' = 0 /\ tail' = 0 /\ uNumberOfCommandInQueue' = 0
  /\ bMboxEnabled' = FALSE
  /\ awakeReq' = 0
  /\ read' \in IF read = "pending" THEN {"none", "late"} ELSE {read}
  /\ fw' = "idle"
  /\ recover' = FALSE
  /\ UNCHANGED <<aCmdQueue, bErrorFlag, mbox, cbVars, owed>>

\* drvMain_Sm stops an operational driver in order to recover it.
Recovery ==
  /\ phase = "run"
  /\ \/ recover /\ UNCHANGED stops
     \/ stops < MaxStops /\ stops' = stops + 1     \* for another reason
  /\ phase' = "down"
  /\ Restart
  /\ UNCHANGED <<expiry, faults>>

\* The user stops the operational driver: the SME disconnects first.
Disconnect ==
  /\ ContextFree
  /\ phase = "run"
  /\ stops < MaxStops /\ stops' = stops + 1
  /\ phase' = "disconnecting"
  /\ UNCHANGED <<ringVars, smVars, bErrorFlag, bMboxEnabled, aRecoveryQueue, mboxVars, read,
                 expiry, cbVars, recover, owed, faults>>

\* The expiries that drvMain_ClearQueuedEvents leaves when a driver is stopped.
ExpiryWhenStopped == IF expiry = "oper" THEN "none" ELSE expiry

\* The SME has disconnected: drvMain_Sm stops the driver.
Stop ==
  /\ phase = "disconnecting"
  /\ phase' = "stopped"
  /\ Restart
  /\ expiry' = ExpiryWhenStopped
  /\ UNCHANGED boundVars

\* The user, if anyone does, starts the driver.
Start ==
  /\ ContextFree
  /\ phase = "stopped"
  /\ phase' = "down"
  /\ UNCHANGED <<ringVars, smVars, bErrorFlag, bMboxEnabled, aRecoveryQueue, mboxVars, read,
                 expiry, cbVars, recover, owed, boundVars>>

\* The failure tail of drvMain_Sm: the firmware could not be loaded, or a
\* recovery was requested while the driver was not operational.
InitFails ==
  /\ \/ phase = "down" /\ FaultAllowed /\ faults' = faults + 1
     \/ phase \in {"stopped", "down", "config", "disconnecting"} /\ recover /\ UNCHANGED faults
  /\ phase' = "failing"
  /\ Restart
  /\ UNCHANGED <<expiry, stops>>

\* SM_STATE_STOPPING_ON_FAIL takes any event for the end of the stop, but never
\* sees the end of the stop itself: the driver has failed for good, or, if it was
\* a recovery that failed, is stopped once more and waits for the user.
StopAfterFail ==
  /\ phase = "failing"
  /\ \/ /\ ContextFree
        /\ phase' = "failed"
        /\ UNCHANGED <<ringVars, smVars, bErrorFlag, bMboxEnabled, aRecoveryQueue, mboxVars,
                       read, expiry, cbVars, recover, owed>>
     \/ /\ phase' = "stopped"
        /\ Restart
        /\ expiry' = ExpiryWhenStopped
  /\ UNCHANGED boundVars

\* drvMain_ConfigFw: TWD_ExitFromInitMode enables the mailbox and
\* cmdBld_ConfigSeq sends the configuration.  Its result is not looked at.
ConfigFw ==
  /\ ContextFree
  /\ phase = "down" /\ read # "late"
  /\ phase' = "config"
  /\ bMboxEnabled' = TRUE
  /\ IF bErrorFlag THEN UNCHANGED <<ringVars, smVars, mboxVars, owed>> ELSE Push(Config)
  /\ UNCHANGED <<bErrorFlag, aRecoveryQueue, read, expiry, cbVars, recover, boundVars>>

Next ==
  \/ \E c \in Cmd : SendCommand(c)
  \/ FwCompletes \/ FwHangs \/ TimerExpires
  \/ TimeOut \/ CommandComplete \/ TransferComplete \/ LateTransferComplete
  \/ CbReturns \/ EndReconfig
  \/ Recovery \/ Disconnect \/ Stop \/ Start \/ InitFails \/ StopAfterFail \/ ConfigFw

Spec == Init /\ [][Next]_vars

\* The firmware answers or its timer expires, and the driver's context serves
\* what is queued for it.  The timer that starts a recovery is served between
\* any two handlers, so it is not held off for ever by them.  What drvMain_Sm has
\* begun by itself, the loading after a START or for a recovery, it ends.
\* Nothing is promised of the user (Disconnect, Start), of the SME (Stop), nor of the
\* end of a stop that follows a failure (StopAfterFail).
Fairness ==
  /\ WF_vars(FwCompletes) /\ WF_vars(TimerExpires)
  /\ SF_vars(TimeOut) /\ SF_vars(CommandComplete) /\ SF_vars(TransferComplete)
  /\ WF_vars(LateTransferComplete)
  /\ WF_vars(CbReturns) /\ WF_vars(EndReconfig)
  /\ SF_vars(recover /\ (Recovery \/ InitFails)) /\ WF_vars(ConfigFw)

FairSpec == Spec /\ Fairness

------------------------------------------------------------------------------
(* Properties.                                                             *)

\* The ring: head, tail and count agree, so that no command is overwritten or
\* skipped, and no command is there or among the saved ones twice.
RingConsistent ==
  /\ uNumberOfCommandInQueue <= Depth
  /\ tail = SlotAt(uNumberOfCommandInQueue)
  /\ \A i, j \in Slot : Queued(i) /\ Queued(j) /\ i # j =>
        aCmdQueue[SlotAt(i)] # aCmdQueue[SlotAt(j)]
  /\ \A i \in Slot : Queued(i) => aCmdQueue[SlotAt(i)] # NoCmd

\* The result that is read belongs to the command at the head of the queue, and
\* a queue that is not empty is being served: pushes from callbacks, timeouts
\* and restarts never leave the mailbox and the queue with different commands.
MailboxServesHead ==
  /\ bCmdInProgress => /\ uNumberOfCommandInQueue > 0 /\ mbox = aCmdQueue[head]
                       /\ state = "WAIT_FOR_COMPLETION" /\ cb = NoCmd
  /\ uNumberOfCommandInQueue > 0 /\ cb = NoCmd => bCmdInProgress
  /\ fw # "idle" \/ read = "pending" \/ osTimer => bCmdInProgress

\* The queue and the mailbox agree in every state of both (see the parts).
QueueConsistent == TypeOK /\ RingConsistent /\ MailboxServesHead

\* TwIf counts one awake request of this module while commands are under way and
\* none when the queue is idle, so that commands never find the device asleep
\* and never keep it awake.
AwakeBalanced ==
  /\ awakeReq = IF bAwake THEN 1 ELSE 0
  /\ bAwake <=> uNumberOfCommandInQueue > 0 \/ cb # NoCmd

\* No originator is called back twice, nor for a command that the queue still holds.
\* The configuration's own callback, which calls the saved ones, is not among them: a
\* configuration that is interrupted by a recovery is stopped twice, or for good.
CalledBackOnce ==
  /\ cb = Config => ~IsSaved(Config)
  /\ \A i, j \in 1 .. Len(aRecoveryQueue) : i # j => aRecoveryQueue[i] # aRecoveryQueue[j]
  /\ \A i \in 1 .. Len(aRecoveryQueue) :
        i >= cbIndex /\ aRecoveryQueue[i] # Config => aRecoveryQueue[i] \in owed
  /\ \A c \in Callback \ {Config} : InRing(c) => c \in owed /\ ~IsSaved(c)

\* What the driver does not go on from by itself: a user's stop, until a START
\* that nobody has to give, and a failure.
NotGoingOn == phase \in {"disconnecting", "stopped", "failing", "failed"}

\* Every command that was accepted with a callback is answered, with the
\* firmware's status or after a recovery, also when the recovery comes after a
\* user's stop and start.  Excepted are an error status of any command, after which
\* nothing is sent any more, and a driver that does not go on; once it was started
\* again, a command that is still queued or saved is answered.
CommandAnswered ==
  \A c \in Callback :
     c \in owed /\ (InRing(c) \/ IsSaved(c)) ~> c \notin owed \/ bErrorFlag \/ NotGoingOn

\* A start or a recovery, once begun, does not hang in its configuration,
\* whatever commands, answers and expiries the stop has left behind: the driver is
\* operational ("recover back all the way to OPERATIONAL state", drvMain_Sm) or
\* has failed.  Excepted is an error status of a command, which no restart clears.
ReconfigEnds ==
  phase \in {"down", "config"} ~> phase \in {"run", "failing"} \/ bErrorFlag
=============================================================================

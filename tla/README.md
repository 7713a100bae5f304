# wl1271 WLAN driver: verification of its transport, data paths and recovery

This directory holds TLA+ models of the wl1271 WLAN driver in
`src/hardware/ti/wlan/wl1271` (paths below are relative to it), TLC
configurations that check them on small instances, and TLAPS proofs of the
main safety properties. `PROJECT.json` lists components, runs, mutants,
hazards, findings and theorems, and maps each definition to its source lines.

The repository is the GPL source release of a device: a build system,
vendored packages, media libraries, an HDMI transmitter module and the WLAN
driver. The WLAN driver is the program in it with its own concurrent core: a
transport that everything else relies on, the command, transmit and receive
paths over it, and the state machine that starts, stops and recovers them.

## The system

Two kernel threads matter for the transport:

- the driver's work queue `tiwlan_wq`, single-threaded, on which all driver
  modules run ("Driver" in the models);
- the work queue of the SDIO driver, single-threaded, on which the completion
  of an asynchronous transfer is reported ("TxnDone").

Other threads (interrupt handler, network stack, ioctls, timers) ask the context
engine for a callback in the driver's thread; before that, the network stack
puts its packets in the transmit queues and ioctls put actions in DrvMain's. Critical sections are
`spin_lock_irqsave` sections (`platforms/os/linux/src/osapi.c`).

| Component | State | Operations | Interacts with |
|---|---|---|---|
| Transaction queue `Txn/TxnQueue.c` | queues per function and priority, single-step slot, function states, done queue, `pCurrTxn`, `bSchedulerBusy`, `bSchedulerPend`, `pAggregQueue` | Open, Close, Restart, ClearQueues, Run, Stop, Transact, ConnectBus, scheduler, TxnDoneCb | called by TwIf, calls the bus driver, called back by it on TxnDone |
| SDIO bus driver `Txn/SdioBusDrv.c` and adapter `platforms/hw/host_platform_zoom2/linux/SdioAdapter.c` | current transaction, table of parts, two part counters, shared status field, accumulated length | Transact, PrepareTxnParts, SendTxnParts, TxnDoneCb, ConnectBus | the SDIO controller driver |
| Context engine `utils/context.c` with `os_RequestSchedule`, `os_wake_lock`, `os_wake_unlock` | client table with enabled and pending flags, work item, wake lock count | RegisterClient, RequestSchedule, EnableClient, DisableClient, DriverTask, suspend, resume | every module, any thread |
| TwIf `TWD/TwIf/TwIf.c` | AWAKE/SLEEP/WAIT_HW, awake and pending counters, done queue, guard timer | Transact, Awake, Sleep, HwAvailable, Restart, TxnDone | sits on TxnQueue and the context engine |
| CmdQueue, CmdMBox | ring of commands, saved callbacks, error flag, mailbox state, timer | push, send, result, timeout, restart, end of recovery | TwIf, FwEvent; started and restarted by DrvMain |
| DrvMain, healthMonitor, timer | start/stop/recovery state machine, action queue, failure latch | user actions, completions, failures, recovery | all |
| RxXfer `TWD/FW_Transfer/RxXfer.c` | two packet counters, table of read structures | RxEvent, Handle, TxnDone, buffers, restart | TwIf, FwEvent, RxQueue |
| RxQueue `TWD/Data_Service/RxQueue.c` | reorder window and stored packets per TID, one timer | data frame, BAR, ADDBA, DELBA, close, time-out | RxXfer, upper layer |
| txHwQueue `TWD/Data_Service/txHwQueue.c` | blocks and descriptors used, reserved and free; busy queues | allocate, update from the firmware's counters, restart | FwEvent, txCtrl |
| txDataQueue, txMgmtQueue, txPort, txCtrl (`stad/src/Data_link`) | packet queues, busy maps, port, state machine of the management queues | insert, schedule, backpressure, connection state, recovery | network stack's thread, txHwQueue |
| FwEvent, eventMbox; txXfer, txResult, txCtrlBlk | interrupt state machine, masks; aggregation, result ring, free list | interrupt, status read, handlers; send, results | TwIf |
| Scan, measurement, power, connection modules | state machines above the transport | | CmdQueue |

What is hard here: the transaction queue is executed by two threads, part of
its state under a spin lock and part not (`pCurrTxn`, the single-step slot, the
test for a pending restart); a completion may arrive before the call that
started it has returned; a restart meets a transaction on the bus, a burst in
the middle, or a completion half handled; the context engine uses no lock at
all and relies on the order in which flags are written and read; suspend meets
a wake lock that is taken. Above that, most code runs in one thread but is
called back in the middle of its own handlers, is stopped by a recovery at any
point, hears of time-outs that were queued before the timer was stopped, and
works with numbers that wrap and with statuses read some time ago. The hazards
are listed with their lines in `PROJECT.json`.

Properties that make the parts correct: one scheduler and one bus transaction
at a time; every transaction handed over comes back once; bursts are not
interleaved with anything; no scheduler call and no context request is lost;
restarts end; what `busDrv_Transact` returns agrees with whether a callback
follows; success means that all bytes were moved; the wake lock is held exactly
while there is work; the device is awake when the bus is used and asleep when
nobody needs it; commands are answered once; a recovery ends and leaves power
and bus as the state machine assumes; received packets are neither forgotten
nor passed up out of order; the driver never gives the firmware more packets
than it has room for, and never leaves one waiting for room that is there.

## Modules

**TxnQueue** models `TxnQueue.c` completely. Each action is one critical
section, or one access to shared state made outside of one; `pc[c]` says where
context `c` is in `txnQ_RunScheduler`, `txnQ_Scheduler` or `txnQ_TxnDoneCb`:

| Step | Code |
|---|---|
| `EnterScheduler`, `ExitScheduler` | the two critical sections of `txnQ_RunScheduler` |
| `TestBus` | the unlocked test of `pCurrTxn` |
| `SelectTxn` | `txnQ_SelectTxn`: aggregation, then single step, then priority and function |
| `Send`, `Sent` | `busDrv_Transact` and what is done with its result; a completion may come between the two |
| `EnqueueDone`, `Collect`, `Report` | the done queue and `fTxnQueueDoneCb` |
| `BusDone`, `TestRestart`, `DoneClear`, `DoneRecovery`, `DoneEnqueue`, `DoneRelease` | `txnQ_TxnDoneCb`, with its unlocked test and its unlocked release of `pCurrTxn` |
| `Restart`, `RestartClear`, `RestartTimeout`, `StopTimer` | `txnQ_Restart`, `txnQ_ClearQueues` and TwIf's guard timer |

Transactions are model values with a function, a priority and two flags;
`owner` records who may touch the structure, `bus` what the bus driver holds,
`accum` whose packets wait in its DMA buffer (`uTxnLength > 0`). The client is
constrained to what `txXfer_SendAggregatedPkts` and TwIf do: it holds all
packets of a burst before it starts one, sends no other regular transaction in
between (ELP writes and `txnQ_Stop` may come between), reuses a structure only
when it has it back (ELP structures are static and are reused at any time), and
closes a function only when it has nothing outstanding. The model includes
`pAggregQueue`, which exists in builds with `TI_DBG`, as this one.

**TxnService** is the promise in terms of one variable, the life of each
transaction; `TxnQueue!ImplementsService` is the refinement.

**SdioBusDrv** models a transaction's parts: lengths are split at the block size
into a byte-mode remainder and a block-mode rest, short transfers end in the
call, longer ones on the TxnDone thread, which goes on with the next part.
`eCurrTxnStatus` is shared. Data is a count of bytes. **BusDrv** is the contract
TxnQueue relies on; `SdioBusDrv!ImplementsBusDrv` is the refinement, up to one
step that it names: the controller may refuse any part (`SubmitOutcome`), and a
part refused on the TxnDone thread before the call has read the status makes the
call return ERROR for a transaction that is called back as well
(`RefusalReturned`). The two assumptions SdioBusDrv makes of its caller,
`BusIdle` and that no ELP write falls within an aggregation, are what TxnQueue
proves as `BusCalledWhenIdle` and `AggregationNotMixed`.

**Context** models `context.c` in the configuration the driver uses
(`CONTEXT_SWITCH_REQUIRED_DEF` is `TI_TRUE`), with one action per access to a
flag, the kernel's `queue_work` (which refuses an item that is queued and takes
it off before it runs), the counted wake lock and suspend/resume. `unserved` is
a history variable: the clients asked for since their callback was last called.

**TwIf** models the bus interface over the service of the transaction queue:
serving in the call or later, the three states with the counters, the ELP
write, completion on the TxnDone thread and in `twIf_HandleTxnDone`, restart
with its guard timer, the interrupt, and the phases of the driver that uses it.
`stale` is a history variable: a restart and a completion were mixed up (see
"Disagreements").

**CmdQueue** models `CmdQueue.c` and `CmdMBox.c`: one action per handler, split
where a callback runs (`cb`), because the callback may push commands. `fw` is
what the firmware does with the mailbox, `owed` (history) who is still to be
called back. `phase` is what DrvMain does with the queue:

| `phase` | State of `drvMain_Sm` | Left by |
|---|---|---|
| stopped | IDLE, STOPPED, and the stop that leads there | `Start`, when a user wants it, `InitFails` |
| down | loading the firmware, also in a recovery | `ConfigFw`, `InitFails` |
| config | FW_CONFIG | the configuration's callback (`CbReturns`), `InitFails` |
| run | OPERATIONAL | `Recovery`, `Disconnect` |
| disconnecting | DISCONNECTING | `Stop`, `InitFails` |
| failing | STOPPING_ON_FAIL | `StopAfterFail`, if an event comes that ends it |
| failed | FAILED | nothing |

**DrvMain** models the state machine of `DrvMain.c` state by state (`SmIdle` ...
`SmFailed`), the action queue and the waiting threads, the callbacks of the
firmware processes, and the health monitor's latch with its timer. Event loop
and nesting are as in `drvMain_SmEvent`: an event raised within the machine is
kept in `ePendingEvent` for the outermost call.

**RxXfer** models `RxXfer.c`: packets are numbers as the firmware counts them,
a structure has its packets, its callback and what `aBuf[0]` points to. The
handler `rxXfer_Handle` is a loop of steps, one per packet or read.

**RxQueue** models `RxQueue.c` with a smaller modulus (`SnMod`) and array. The
sender keeps to its block-ack window; frames are lost, repeated and reordered
within it (`SendersWindow`, which is the whole array when an ADDBA asked for a
window of 0). `odd` (history) records per session which of the code's own
disturbances it has met.

**TxHwQueue** models `txHwQueue.c`; the firmware's counters wrap (`BlkMod`,
`CtrMod`), are read (`ReadStatus`) and handled (`UpdateFreeResources`) at
different times. **TxPath** extends it by the queues, schedulers, the state
machine of the management queues, port and backpressure. Packets of the network
are put in by another thread (`InsertPacket`, `XmitEapol`) at any time; the
driver's thread handles one event at a time, and `todo` holds the calls of that
event that are still to be made, the innermost first, so that the other thread
gets in between exactly where it can.

How they compose: TxnQueue is proved to refine TxnService and SdioBusDrv to
refine BusDrv, the contract that TxnQueue assumes, but for `RefusalReturned`,
which TxnQueue does not model; TwIf takes TxnQueue at the level of TxnService;
CmdQueue and RxXfer take TwIf as a bus that serves in the call or reports later;
the phases in TwIf, CmdQueue and TxPath are the stages of DrvMain's stop and
recovery; TxPath contains TxHwQueue and is proved to refine it.

**TxnQueueProofs**, **SdioBusDrvProofs**, **ContextProofs**, **TwIfProofs**,
**CmdQueueProofs**, **DrvMainProofs**, **TxPathProofs** (also about TxHwQueue)
and **RxProofs** (about RxXfer and RxQueue) hold the theorems, each about the
module of its name. The `MC*` modules hold constant values; `MCTxnQueueLive` and
`MCTxPath` also bound the number of calls.

## Runs

| Run | Checks | Shows |
|---|---|---|
| `txnq` | TypeOK, SchedulerNotReentered, BusCalledWhenIdle, AggregationNotMixed, NothingLostOrDuplicated, NoWorkLeftBehind, ImplementsService | the queue is correct in every interleaving of its two threads (409k states) |
| `txnq_liveness` | Served, RestartEnds | transactions are served and restarts end (184k states) |
| `sdio` | TypeOK, ImplementsBusDrv, OkMeansTransferred, EveryCallEnds | the bus driver keeps its contract but for the step that `ImplementsBusDrv` names, success means that all bytes were moved, every call ends, with parts refused on either thread (5.1k states) |
| `context` | NoLostRequest, WakeLockBalanced, RequestServed | no request is lost, with suspend and resume; wake lock accounting (524k states) |
| `drvmain` | PowerFollowsState, CompletionsExpected, UserActionFits, ActionAnswered, RecoveryEnds | start, stop and recovery with failures at every step (322k states) |
| `cmdqueue` | QueueConsistent, AwakeBalanced, CalledBackOnce, CommandAnswered, ReconfigEnds | the command queue with hanging firmware, late time-outs, recoveries, user stops and failures for good (50k states) |
| `twif` | PendingCounted, BusNeedsAwakeDevice | counters and sleep under restarts, errors, a dead bus and stray interrupts (2.4M states) |
| `twif_liveness` | TransactionEnds, IdleSleeps, RestartEnds | transactions and recoveries end, an idle device sleeps (38k states) |
| `rxxfer` | NoPacketForgotten, NoPacketLeft, ForwardedInOrder | every received packet is accounted for (6.3M states) |
| `rxqueue` | StoreConsistent, DeliveredInOrder, TimerGuardsStored | reordering at the wrap of the sequence numbers, two sessions, windows of 0 (251k states) |
| `txpath` | ResourcesAccounted, StoppedForAReason, NoPacketStranded | the transmit path from the network to the firmware's memory (2.1M states) |
| `txpath_access` | AccessReturned, **violated** | a late request closes the data queues for empty management queues (finding below) |

Each property of a passing run has a mutant in `PROJECT.json`: a change of the
model, as a slip in the code would make it, that TLC shows to violate it.

**Bounds.** `txnq` has one transaction of each kind that the code tells apart:
an ELP write, a packet with AGGREGATE_ON, the packet that ends a burst and a
transaction of another priority. Since the bus takes one transaction, the
scheduler has one busy flag and there are two contexts, a conflict involves the
transaction on the bus, the caller's own and one waiting; the instance has four.
`txnq_liveness` bounds client calls by `MaxCalls = 7`: open, run, two
transactions, a stop or restart, and two more. `sdio` has a length for each
shape of the parts table (short remainder, long remainder, blocks only, either
remainder with blocks) with blocks of 4 bytes and a synchronous threshold of 3,
and bursts of up to 6 accumulated bytes (`MaxAggregLen`). `context` has two
clients, so that one can be passed by the scan while the other is not, and two
requesters besides the driver's thread.
`drvmain`: two action objects (one waits while the other is handled), two chunks
of firmware, two failure reports (`MaxFaults`), so that a second failure meets
the recovery from the first, and `MaxRecoveries = 2`.
`cmdqueue`: a ring of two, three commands of the clients (one without a
callback) and the configuration, two faults and two stops: the ring is full, a
stop meets a full ring, and a recovery meets another.
`twif`: two transactions with a callback and one without, one awake request, one
restart and one error, with every irregularity switched on; `twif_liveness` has
two transactions and a recovery after an error. It has the stray interrupt, but
neither a dead bus nor an expiry of the guard timer or a late report that races
the completion: with these the code does not keep its promises ("Disagreements").
`rxxfer`: a ring of 3 descriptors, 7 packets (the counters wrap twice), reads of
up to 2 packets, one error. `NumTxn = 6` keeps the code's proportion in which
structures outnumber descriptors (16 to 8): a failed read keeps its structure
until the restart.
`rxqueue`: modulus 18, arrays of 3, four packets across the wrap in one session,
with a window of 2, which is kept, or of 0, two packets in the other, with a window
that must be cut (9). Four packets are the fewest with which a packet beyond the
window moves it by more than a slot past stored packets; one that also finds a run
of stored packets behind the moved window needs a window of 3 and a fifth packet, and
is left to the proof.
`txpath`: 6 blocks with 3 guaranteed to voice, 2 descriptors, counters modulo 9
and 3 (the smallest the assumption allows is 7 and 3), three packets, which is
more than the firmware takes, and three events (the link opens, then two of:
closing, admission change, recovery).

**Fairness.** The kernel schedules both threads (weak fairness of the
scheduler and TxnDone steps and of the context engine's steps); the SDIO
controller ends every transfer, well or not (`BusDone`, `TxnDoneOk`,
`TxnDoneError`); timers expire unless stopped; client callbacks return. Clients
owe nothing. Liveness of the queue needs a bounded client: one that never stops
calling can starve a low priority or keep the other thread in the scheduler
through `bSchedulerPend`. It is also stated without bursts, because a restart
within a burst can block the other queues. Suspension is not fair: the system
may suspend or not.
In `DrvMain` the state machine, the processes it starts, the timer and the
waiting threads are weakly fair; users need not insert anything. In `CmdQueue`
and `TwIf` handlers of the driver's context that are disabled while another
handler runs are strongly fair: the context engine keeps the request and comes
back to it (`RequestServed`), so that a handler that is wanted again and again
is called. A firmware that hangs is allowed; then the mailbox timer is what is
fair. In `CmdQueue` a recovery that was asked for is begun, and firmware that is
being loaded is configured (`ConfigFw`) unless that fails; but nobody has to start
a driver that is stopped (`Start`), an SME need not disconnect (`Stop`) and the
end of a stop that follows a failure, which the code filters out, need not come
(`StopAfterFail`): none of these is fair, and the properties say where that ends
their promise. Awake requests that are held are given back (`Sleep`).

**Deadlock** is checked in `txnq`, `sdio` and `context`. In the others the
bounds on calls, faults or packets let the system come to rest, which is right
there; that nothing is left undone then is what `NoPacketLeft`,
`NoPacketStranded` and the liveness properties say.

## Disagreements between code and comments

One is kept as a run that fails, `txpath_access`: `txMgmtQueue.c:49` says that
the access to the transmit path is returned to the data queues when the
management queues are empty. An EAPOL packet that the network's thread puts in
while the driver's thread runs the management scheduler is sent at once, and its
own request is served afterwards: `QUEUES_NOT_EMPTY` takes the access for empty
queues, `runSchedulerNotFromSm` (`:777`) finds nothing and does not say
`QUEUES_EMPTY`. In OPEN_MGMT further requests are ignored (`:713`).

The others below were met while modelling. Except for the last two, which were
found by reading, TLC gives a counterexample when the property is stated
without its exception. The models keep the code's behaviour, and the properties
name the exceptions where they matter. Lines are of the code.

*Transaction queue.* A restart requested between the TxnDone thread's test of
FUNC_STATE_RESTART (`TxnQueue.c:501`) and its release of `pCurrTxn` (`:528`)
returns PENDING with no completion to come; `TwIf.c:360` says it "is done upon
TxnDone", in fact the guard timer ends it. `txnQ_ClearQueues` drops transactions
(`:838`) although its comment (`:811`) promises their callback. It does not reset
`pAggregQueue` (`:819`), so that after a restart within a burst only that queue is
served.

*SDIO bus driver.* `busDrv_Transact` returns the shared `eCurrTxnStatus`
(`SdioBusDrv.c:340`): if the controller refuses the second part on the TxnDone
thread (`:545`) before the field is read, the call returns ERROR for a
transaction whose callback has been called, or will be. Both report an error.
`ImplementsBusDrv` has this step as its exception (`RefusalReturned`).

*Context.* `os_wake_unlock` (`osapi.c:765`) does not count while wake locks are
disabled, so a lock taken before a suspend and released in it stays held.

*DrvMain.* After a failure `drvMain_TwdStopCb` (`DrvMain.c:1009`) ignores the end
of the stop, as it passes it on in STOPPING only; the driver stays in
STOPPING_ON_FAIL although `:1866` says it is passed to FAILED. A failed recovery
that is tried again resets `bRecovery` after starting the next stop (`:1843`),
so that STOPPING takes the branch of a user's stop and signals an action
answered long ago. `drvMain_InvokeAction` (`:1037`) takes one action per request
of the context, so of two actions inserted at once the second waits. A firmware
download that fails in its call raises two events within the machine, where one
is expected (`:1497`). A failure timer started just before the driver becomes
operational is dropped by `tmr_GetExpiry` (`timer.c:533`) and the latch
`failureEvent` (`healthMonitor.c:333`) then refuses every later failure.
`os_SignalObjectWait` gives up after ten seconds, and `drvMain_InsertAction`
(`:1372`) frees an action that may still be queued.

*CmdQueue.* `bErrorFlag` (`CmdQueue.c:330`) survives a restart and makes the
recovery's own configuration be refused. A second restart forgets the callbacks
that the first one saved (`:590`). Commands of a driver that fails for good are
not answered: STOPPING_ON_FAIL never sees its completion and FAILED configures
nothing (`DrvMain.c:1009`, `:1845`); nor are those of a driver that was stopped,
until it is started (`NotGoingOn`). `cmdMbox_TimeOut` (`CmdMBox.c:337`) does not
look whether a command is in progress, so an expiry queued before the answer
recovers a healthy firmware.

*TwIf.* A completion that overlaps a restart is queued after the done queue was
cleared (`TwIf.c:896`), its callback is called and it is counted off a counter
that was zeroed. A guard timer expiry that is already queued when the completion
stops the timer continues the restart a second time (`:1072`) and drops newer
transactions. With a bus that never calls back, `pCurrTxn` stays set and the
initialisation that follows the guard timer (`:1075`) never ends. Errors of
asynchronous transactions without a callback are dropped (`:903`). After a
restart the state is SLEEP with a running queue, unlike `:90`.

*RxXfer.* A drop that is served in the call leaves the drop's callback in the
structure (`RxXfer.c:614`): the next packet read asynchronously in it is
swallowed. A restart may give the static buffer of an earlier drop to the upper
layer (`:784`). A read served in the call overtakes completions that wait.

*RxQueue.* The end of the window is compared without the mask (`RxQueue.c:587`),
so at the wrap a frame at the end of the window is taken for one beyond it. An
ADDBA that asks for a window of 0 gets it, as only what is above 8 is cut (`:933`);
the host's window is then 0 while the sender has one, an out-of-order frame is
taken for one beyond the window, moves it past itself (`:636`) and is stored before
its start. A BAR releases packets beyond its number but sets the expected number back to it
(`:884`), and index and number part. Closing a session stops the timer that
guards another one's packets (`:291`). The time-out searches a TID that has
nothing stored while another has (`:1040`) and does not end.

*Transmit path.* A stop of the network stack's flow (`txDataQueue.c:391`) is
decided outside of the critical section in which the queue was found full, and
can cross the restart of the flow. Where a refused management packet is put back
(`txMgmtQueue.c:841`), the result of `que_Requeue` is not looked at: if the
network has filled the queue meanwhile, the packet is lost; a data packet is
dropped there and counted (`txDataQueue.c:744`). If it had been moved to another
category, the other packets of the full queue wait for that category too, though
their own has room: the queue was marked as busy for the lost one, and is not
looked at until a release. `WaitsForRoom` allows for it, and says so.

## Proofs

All theorems hold for any value of the constants that satisfies the assumption
of the module (`TxnAssumption`, `BusDrvAssumption`, `ContextAssumption`,
`TwIfAssumption`, `CmdQueueAssumption`, `DrvMainAssumption`,
`TxHwQueueAssumption`, `TxPathAssumption`, `RxXferAssumption`,
`RxQueueAssumption`): any sets of transactions, functions
and priorities; any number of parts and of bytes; any number of clients and any
finite set of threads; any size of the command ring and any limits of failures;
any number of blocks, descriptors and guaranteed blocks, and counters wide
enough for them.

*TxnQueueProofs.* `SchedulerNotReentered` and `BusCalledWhenIdle` are not
inductive. `IInv` is the conjunction of

- `TypeOK`;
- `BusyInv`: who is inside the scheduler has set `bSchedulerBusy`, and is alone;
- `HeldInv`: a context that sends or completes has a transaction in hand;
- `CurrInv`: `pCurrTxn` names the transaction on the bus, is not NULL from its
  completion to the release at the end of `txnQ_TxnDoneCb`, and is NULL while
  the scheduler selects or sends. This is why it may be accessed without the
  lock: only the context that is alone in the scheduler sets it, and only
  while no completion can be under way.

Theorems: `TypeCorrect`, `MutualExclusion`, `BusIdleWhenCalled`.
`AggregationKeptTogether` needs two more parts: `HomeInv` (transactions wait in
their own queue and ELP writes in the slot) and `AccumInv` (if bytes are
accumulated, `pAggregQueue` is their queue, unless the packet that ends the
burst is just being sent). It uses mutual exclusion: nobody else selects
between the two.

Three results rest on further parts. `NoCallLost` (`NoWorkLeftBehind`) uses
`FlagInv` (who has set which of the scheduler's two flags, and what the
context that is inside will still test) and `WorkInv`: if a transaction could
be sent, or has ended and is not yet reported, then a completion is to come or
a context is at a place from which it will select or collect it.
`NothingLost` (`NothingLostOrDuplicated`) uses `PlacedInv` (the queue owns a
transaction exactly if it is in one of the places: a queue, the ELP slot, in
hand, on the bus, among the done), `DistinctInv` (no queue holds one twice) and
`InputInv` (only the driver's context has an argument, and its result is open
until it was sent). `ServiceImplemented` is the refinement
`Spec => Service!Spec`: every step accepts, starts, finishes or reports one
transaction, drops those of one function that wait, or stutters.

*SdioBusDrvProofs.* `TypesCorrect` (`TypeOK`), `TransfersCorrect`
(`OkMeansTransferred`) and `ContractKept`, the refinement of BusDrv. The parts
of the invariant follow the life of a call: only one context is in a call
(`CallInv`); the parts make up the transaction, and a second one is long enough
for the controller to be waited for (`PartsInv`); a call that is still sending
has left nothing behind (`SyncInv`); parts are continued on completion only of
the transaction on the bus (`ContInv`, `BusInv`); what is returned or reported
(`ReturnInv`, `ResultInv`); and the bytes moved are those of the parts that
ended (`MovedInv`). `ContractKept` has no hypothesis: the controller may refuse
any part, and every step of the code is a step of the contract, a stutter or
`RefusalReturned`. That step is only possible while a transaction is deferred to
the TxnDone thread and reported as failed by both, so that no transaction is
given back as complete that is not, and none is reported by nobody.

*TwIfProofs.* `BusCorrect` proves `BusNeedsAwakeDevice`, an action property,
from `BusInv`: what a call that was served at once leaves (`CallInv`), when the
guard timer is off (`GuardInv`), what an initialisation has reset (`InitInv`),
what an ELP write that is still to be made means for the state (`ElpInv`), and
that while the device sleeps nothing is on the bus or to be reported, and a
queue that runs has the wake-up write before it or is empty after a stop
(`AsleepInv`). `CounterCorrect` proves `PendingCounted`: a transaction is in at
most one place (`PlaceInv`), those of before a restart are told apart (`OldInv`,
`RestartInv`), and the counter is the number of those that count (`CounterInv`),
the last three while `stale` is false. That their set is finite is part of the
invariant, so that `Txn` need not be finite.

*CmdQueueProofs.* The three invariants `QueueConsistent` (its parts
`RingConsistent` and `MailboxServesHead`), `AwakeBalanced` and `CalledBackOnce`
are inductive only together, with the types and `PhaseInv` (which phase of the
driver allows a configuration command where), `ReadInv` (a result that is being
read belongs to idle firmware without a time-out, one that comes late to a
mailbox that was stopped), `StateInv` (the state says whether the device is
kept awake) and `IndexInv`. A recovery saves the callbacks of the waiting
commands in order; the proof gives the saved ones as the image of the ring
under an order-preserving injection over `Kept`. Theorems: `QueueCorrect`,
`AwakeCorrect`, `CallbacksCorrect`.

*DrvMainProofs.* `PowerCorrect` (`PowerFollowsState`), `CompletionsCorrect`
(`CompletionsExpected`) and `UserActionsFit` (`UserActionFits`) follow from one
`Inductive` invariant. It says when two events are pending (`CountInv`), which
event a state waits for (`EventInv`, `NvsInv`), in which states a firmware
process or the stop of the SME is under way (`ProcessInv`, `SmeInv`), when user
actions are enabled (`EnabledInv`) and which was the last (`ActionInv`), that
the failure timer runs only after a failure and recoveries are counted
(`FaultInv`), and in which states power and bus are on (`PowerInv`). It has so
many parts because every state expects one particular completion, and an
unexpected one would be answered by the machine all the same.

*ContextProofs.* `RequestsAreKept` proves `NoLostRequest` from `TypeOK` and
`IndexInv` (the loop index stays within the registered clients); the three
together are inductive, since `NoLostRequest` already says which task will test
a waiting client. `WakeLockIsBalanced` is about the time until the first
suspension that meets a lock (`disabledOnce`; afterwards it is false, see
"Disagreements") and uses `LockInv` and the cardinality of the set of
requesters.

*TxPathProofs, TxHwQueue.* `ResourcesAccounted` is inductive, but only as the
conjunction of its four parts: `TypeOK`; `BlksConserved` (free and used blocks
add up to those of the firmware); `ThreshGuaranteed` (each queue has reserved
what it lacks up to its threshold, and there are free blocks for all of it);
`NeverOverbooked` (what the driver takes to be in use covers what the firmware
still holds, by any status that may yet be handled). The subtractions modulo 2^32 and 2^8 are exact because what
is outstanding is smaller than the modulus (`TxHwQueueAssumption`); the lemmas
about `Minus` and `Plus` say so, and also why an old status does no harm: it
reports less than has come back, never more than was given. `SpecStopped`
rests on it. `BlksSuffice` shows that the number of blocks computed by a shift
by 8 with a correction is enough for the packet with its headers although a
block holds 252 bytes.

*TxPathProofs, TxPath.* `PathImplements` is the refinement `PathSpec => Spec` of
TxHwQueue, with the identity as mapping: the invariant `PathOK` (types of the
queues and of the pending calls: what a scheduler is about to send is a packet
of a known length) makes each step of the path one allocation, one update, one
restart, or a stutter of TxHwQueue. `PathAccounted` and `PathStopped` follow:
the accounts stay right under the whole transmit path, for any queue limits,
pacing thresholds, lengths and admissions.

`PathNotStranded` proves `NoPacketStranded`. The property speaks of an idle
driver, so its invariant has to say for every point of the nested calls who will
look at a queue again. `ShapeInv` gives the shape of the calls: at most two are
pending, a burst of the data queues and the update of the management queues'
marks, or a burst of the management queues and the test whether they are empty.
`PortInv` ties the two gates of the port to the state machine and the recovery;
`BusyInv` says that a mark stands for a stopped category or is about to be
replaced, except between the reload of the firmware and `txCtrl_NotifyFwReset`;
`RefusedInv` that a refused packet waits for the category it was moved to, which
needs that the admission table is idempotent (`AdmittedTwice`). On these rest
`DataInv` and `MgmtInv` (a queue that may send and has a packet is served: by a
request, the timer, a missing room, or a scheduler that has not passed it yet;
`Passed` is the set of queues that the round-robin has passed in vain) and
`AccessInv` (where the access to the port does not fit the management queues, a
request or an event that changes it is pending). The proof found two flaws of
the model: `WaitsForRoom` lacked the lost packet's category, and two alternatives
of `SmAction` overlapped.

*RxProofs, RxXfer.* `NothingForgotten` (`NoPacketForgotten`), `NothingLeft`
(`NoPacketLeft`) and `OrderKept` (`ForwardedInOrder`) follow from one invariant
`IndInv` about windows of packets. The code never looks whether the structure it
fills is free: it counts free ones, when `rxXfer_Handle` is entered. What keeps
a structure from being filled twice is the firmware's window: it announces at
most `FwWindow` packets ahead of the counter it was written (`CountersOK`), and a
completion that waits is overtaken by one status at most, since the context
engine serves TwIf and FwEvent in turn, so the reads under way span two windows
at most (`Ahead`). `SlotsOK` says so for every structure under way (`Sound`: its
packets are at least as many packets back as the structure is structures back),
`BusOK` and `DoneOK` that reads are in order and that packets on the bus are ones
that the firmware still counts; `CountOK` is the count of free structures,
`AccountOK` where each packet is, and `LeftOK` that `rxXfer_Handle` only stops
for want of a buffer. The assumption is `2 * FwWindow < NumTxn`: the code has
16 structures (`RxXfer.c:62`) and 8 descriptors (`public_host_int.h:108`), so a
window of 7. `AlwaysTxnAvailable` is about the comment at `RxXfer.c:458`, "If no Txn
structures available exit!! (fatal error - not expected to happen)": it does not
happen until a read fails, for failed reads do not give their structure back.
That needs the type of `uAvailableTxn` to allow for a count that wraps around,
which no bounded run reaches.

*RxProofs, RxQueue.* `RxQueueConsistent` (`StoreConsistent`), `RxQueueGuarded`
(`TimerGuardsStored`) and `RxQueueInOrder` (`DeliveredInOrder`, an action
property) follow from one invariant `RxQueueInv`. For every identifier
`SessionOK` says:

- `Bounded`: the packets are those of the identifier, and nothing is kept
  without a session;
- `Windowed`: no packet is stored where the expected one goes, nor outside the
  window. Without the comparison at `RxQueue.c:587` this would hold always; it
  is what a copy of the window's last packet breaks, and any out-of-order packet
  when the window is 0;
- `Placed`: a stored packet's number is the expected one plus its slot's distance
  from the start of the array. A BAR frame can break it too;
- `Ordered`: as long as at most the end of another session has disturbed this one
  (or, with a window of 0, nothing out of order has come: `InStep`, since such a
  session stores nothing that a BAR frame or the timer could disturb), there is a packet `e` that the receiver expects (`Expecting`): its number is
  `aTidExpectedSn`, the sender is not behind it and at most a quarter of the
  numbers ahead, what was passed up is before it, and slot `k` holds packet
  `e + k` or nothing.

`e` is not in the code, which only has numbers that wrap around: it is what makes
`BA_SESSION_IS_A_BIGGER_THAN_B` a comparison of packets (`ArrivalDist`,
`WindowDist`, `NearFacts`), so that each of the five parts of
`RxQueue_ReceivePacket` moves `e` forward and passes up what is before it. Part 3
is the hardest case (`BeyondOK`): it skips a slot, moves the window, then passes
up a run behind it, and a window that was passed as a whole is settled where the
new packet is the last. With a window of 0 this is where the session is disturbed
(`ZeroWindowDist`): it had stored nothing before. `StoredCountOK` relates the one counter to the slots in
use of all identifiers, and never to fewer; `TimerOK` adds that a timer that is
noted as started runs or has expired. `SearchOK` adds to it, for the part
`SearchedForOthers` of `StoreConsistent`, that an endless search is one of an empty
array while packets are counted, and that nothing is received any more. The operators' lemmas (what `Skip`,
`Release`, `Save`, `Packets` and `RunLength` do to the slots as seen from the
start, `View`, and to the number of slots in use, `Cells`) hold for any array;
the arithmetic rests on `ModValue`.

`RxQueueAssumption` asks for `2 * ArraySize < SnMod \div 2 - 2`: the code has 8
slots and 4096 numbers. The windows that an ADDBA asks for are any numbers. The environment's part is `MayArrive` and `NearExpected`: the
sender keeps to its window, and gives up packets within a quarter of the numbers
of what is expected; without that no receiver could tell an old number from a
new one. The proof found that the type invariant was too narrow: `aPacketsStored`
was bounded by the number of slots, which the run never exceeds, while a copy
stored over a packet is counted for good, so that it has no bound.

The strengthenings were checked with TLC as invariants before they were proved.

Every safety property that a passing run checks is proved as well. Only
model-checked is liveness, which is out of the prover's reach (`Served`,
`EveryCallEnds`, `RequestServed`, `ActionAnswered`, `RecoveryEnds`,
`CommandAnswered`, `ReconfigEnds`, `TransactionEnds`, `IdleSleeps`, both
`RestartEnds`). For RxQueue no liveness is stated: that a stored packet is passed
up at last is what `TimerGuardsStored` leaves to the timer's expiry, with the
same two exceptions.

## Not modelled

- Data: addresses, buffers and DMA copies (byte counts only), frame contents,
  names, traces; the life of memory.
- FwEvent and eventMbox, txXfer, txResult and txCtrlBlk: planned (below). The
  models take from them that a status is read before it is handled, that the
  interrupt wakes TwIf, the shape of a burst, and that an error of a transmit
  transaction is handled as its success.
- `bContextSwitchRequired = FALSE`, `context_Destroy`; the timed wake lock
  `wl_rxwake`, which has no counter; what `wlanDrvIf_Suspend` does besides
  disabling the wake locks.
- In SdioBusDrv, connection and disconnection of the bus; in TwIf, creation,
  `twIf_SetPartition` and the address translation.
- DrvMain assumes that the recovery triggers are enabled in the ini file, as
  they are by default; the stall timer of the hardware initialisation that
  survives `TWD_Stop`, creation, destruction and configuration of modules are
  left out. The health monitor is its latch and timer, not its statistics.
- RxQueue: frames that are not data pass by the queue and are left out.
- TxPath: classification, headers and rates, credit and medium time, end of
  burst, the network stack's flow control and the clearing of the queues at a
  user's stop. The connection opens from EAPOL only and EAPOL follows CLOSE or
  MGMT, as `connInfra.c` and `connIbss.c` do it; an admission is the result of
  the calls of `txCtrlParams_setAcAdmissionStatus`, one step.
- Scan, measurement and power services, SCR, connection, roaming, security:
  table-driven state machines above the transport, not begun.
- WSPI bus driver, controller driver, CUDK, HDMI module, vendored code: not in
  this build, hardware access, user interface or third-party.

The models cover a small part of the repository's lines. Most of these are the
HDMI transmitter's vendor library in several versions, the configuration
utility, headers of firmware structures, registry parsing and vendored
packages, which have no protocol to check; and the station management above the
transport, which has, and comes after the transport in the plan.

## Plan

Done: TxnQueue with TxnService, SdioBusDrv with BusDrv, Context, TwIf, CmdQueue
with CmdMBox, DrvMain with the health monitor, TxHwQueue, TxPath, RxXfer and
RxQueue, all with their proofs.

1. `FwEvent` and `eventMbox`: no interrupt lost between masking, status read and
   handling; composition with TwIf.
2. `txResult` with its ring of results, `txXfer` at its aggregation limits,
   `txCtrlBlk`.
3. The channel's owners: `scr`, the scan concentrator, scan and measurement
   services, with aborts.

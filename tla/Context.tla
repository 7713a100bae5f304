-------------------------------- MODULE Context --------------------------------
(***************************************************************************)
(* The context engine of the wl1271 driver, utils/context.c, with the      *)
(* Linux work item and wake lock it is built on (os_RequestSchedule,       *)
(* os_wake_lock and os_wake_unlock of osapi.c, wlanDrvIf_DriverTask).      *)
(*                                                                         *)
(* Any thread asks for a client's callback to be called in the driver's    *)
(* context: it sets the client's pending flag, takes the wake lock and     *)
(* queues the driver's work item.  None of the flags is protected by a     *)
(* lock; one action is one access to shared state.                         *)
(***************************************************************************)
EXTENDS Naturals, FiniteSets

CONSTANTS
  Ext,         \* threads other than the driver's that make requests
  Driver,      \* the driver's work queue thread
  MAX_CLIENTS

ASSUME ContextAssumption ==
  /\ Driver \notin Ext
  /\ IsFiniteSet(Ext)
  /\ MAX_CLIENTS \in Nat \ {0}

VARIABLES
  uNumClients,
  aClientEnabled,
  aClientPending,
  tWork,         \* the driver's work item is queued
  drv,           \* where the driver's thread is in wlanDrvIf_DriverTask
  i,             \* the loop index of context_DriverTask
  step,          \* per thread: where it is in a request
  target,        \* the client the driver's thread is enabling
  wl_count,      \* holders of the wake lock wl_wifi, which is held if not 0
  wake_locks_enabled,
  pm,            \* the system's suspend state
  unserved,      \* clients asked for since their callback was last called
  disabledOnce   \* history: the wake locks were disabled before

vars == <<uNumClients, aClientEnabled, aClientPending, tWork, drv, i, step, target,
          wl_count, wake_locks_enabled, pm, unserved, disabledOnce>>

clientVars == <<uNumClients, aClientEnabled, aClientPending, unserved>>
taskVars   == <<drv, i>>
pmVars     == <<wake_locks_enabled, pm, disabledOnce>>
lockVars   == <<wl_count, pmVars>>

Client == 0 .. MAX_CLIENTS - 1
Thread == Ext \cup {Driver}
Registered == 0 .. uNumClients - 1

\* context_Create, context_Init and context_SetDefaults.
Init ==
  /\ uNumClients = 0
  /\ aClientEnabled = [c \in Client |-> FALSE]
  /\ aClientPending = [c \in Client |-> FALSE]
  /\ tWork = FALSE
  /\ drv = "idle"
  /\ i = 0
  /\ step = [t \in Thread |-> "none"]
  /\ target = 0
  /\ wl_count = 0
  /\ wake_locks_enabled = TRUE
  /\ pm = "awake"
  /\ unserved = {}
  /\ disabledOnce = FALSE

\* The client table has a free entry.
HasRoom == uNumClients < MAX_CLIENTS

\* A module registers; beyond MAX_CLIENTS the call changes nothing.
RegisterClient(bEnable) ==
  /\ HasRoom
  /\ aClientEnabled' = [aClientEnabled EXCEPT ![uNumClients] = bEnable]
  /\ aClientPending' = [aClientPending EXCEPT ![uNumClients] = FALSE]
  /\ uNumClients' = uNumClients + 1
  /\ UNCHANGED <<tWork, taskVars, step, target, lockVars, unserved>>

\* A client's callback makes one call of this module, or none.
MayCall(t) ==
  /\ step[t] = "none"
  /\ t = Driver => drv = "callback"

\* The driver's thread leaves the callback once its call is over.
Called(t) == drv' = IF t = Driver THEN "return" ELSE drv

\* context_RequestSchedule: first the pending flag ...
RequestSchedule(t, c) ==
  /\ MayCall(t)
  /\ c \in Registered
  /\ aClientPending' = [aClientPending EXCEPT ![c] = TRUE]
  /\ unserved' = unserved \cup {c}
  /\ step' = [step EXCEPT ![t] = "lock"]
  /\ Called(t)
  /\ UNCHANGED <<uNumClients, aClientEnabled, tWork, i, target, lockVars>>

\* ... then the wake lock ...
os_wake_lock(t) ==
  /\ step[t] = "lock"
  /\ wl_count' = IF wake_locks_enabled THEN wl_count + 1 ELSE wl_count
  /\ step' = [step EXCEPT ![t] = "queue"]
  /\ UNCHANGED <<clientVars, tWork, taskVars, target, pmVars>>

\* Mutant: the failure of os_RequestSchedule is ignored.
FailureIgnored == "none"

\* A requester whose work item was not queued releases the wake lock.
AfterQueue == IF tWork THEN "unlock" ELSE "none"

\* ... then queue_work, which fails if the work item is queued already.
os_RequestSchedule(t) ==
  /\ step[t] = "queue"
  /\ tWork' = TRUE
  /\ step' = [step EXCEPT ![t] = AfterQueue]
  /\ UNCHANGED <<clientVars, taskVars, target, lockVars>>

Unlocked == IF wake_locks_enabled /\ wl_count > 0 THEN wl_count - 1 ELSE wl_count

os_wake_unlock(t) ==
  /\ step[t] = "unlock"
  /\ wl_count' = Unlocked
  /\ step' = [step EXCEPT ![t] = "none"]
  /\ UNCHANGED <<clientVars, tWork, taskVars, target, pmVars>>

\* context_EnableClient: the flag is set, then the pending flag is tested.
EnableClient(c) ==
  /\ MayCall(Driver)
  /\ c \in Registered
  /\ ~aClientEnabled[c]
  /\ aClientEnabled' = [aClientEnabled EXCEPT ![c] = TRUE]
  /\ target' = c
  /\ step' = [step EXCEPT ![Driver] = "enabled"]
  /\ Called(Driver)
  /\ UNCHANGED <<uNumClients, aClientPending, tWork, i, lockVars, unserved>>

\* Mutant: enabling a client does not schedule the task.
EnabledOnly == "none"

\* Enabling a pending client schedules the task.
AfterEnable == IF aClientPending[target] THEN "lock" ELSE "none"

EnableTestPending ==
  /\ step[Driver] = "enabled"
  /\ step' = [step EXCEPT ![Driver] = AfterEnable]
  /\ UNCHANGED <<clientVars, tWork, taskVars, target, lockVars>>

DisableClient(c) ==
  /\ MayCall(Driver)
  /\ c \in Registered
  /\ aClientEnabled[c]
  /\ aClientEnabled' = [aClientEnabled EXCEPT ![c] = FALSE]
  /\ Called(Driver)
  /\ UNCHANGED <<uNumClients, aClientPending, tWork, i, step, target, lockVars, unserved>>

-----------------------------------------------------------------------------
(* wlanDrvIf_DriverTask and context_DriverTask, on the driver's thread. *)

\* Mutant: off by one.
SecondClient == 1

FirstClient == 0

\* The work queue takes the item off before it calls the task.
StartTask ==
  /\ drv = "idle" /\ tWork
  /\ tWork' = FALSE
  /\ drv' = "test"
  /\ i' = FirstClient
  /\ UNCHANGED <<clientVars, step, target, lockVars>>

TestClient ==
  /\ drv = "test" /\ i < uNumClients
  /\ IF aClientPending[i] /\ aClientEnabled[i]
       THEN drv' = "clear" /\ UNCHANGED i
       ELSE i' = i + 1 /\ UNCHANGED drv
  /\ UNCHANGED <<clientVars, tWork, step, target, lockVars>>

ClearPending ==
  /\ drv = "clear"
  /\ aClientPending' = [aClientPending EXCEPT ![i] = FALSE]
  /\ drv' = "call"
  /\ UNCHANGED <<uNumClients, aClientEnabled, unserved, tWork, i, step, target, lockVars>>

\* fCbFunc starts: whatever was asked for until now is served.
CallClient ==
  /\ drv = "call"
  /\ unserved' = unserved \ {i}
  /\ drv' = "callback"
  /\ UNCHANGED <<uNumClients, aClientEnabled, aClientPending, tWork, i, step, target, lockVars>>

ClientReturns ==
  /\ drv \in {"callback", "return"} /\ step[Driver] = "none"
  /\ drv' = "test"
  /\ i' = i + 1
  /\ UNCHANGED <<clientVars, tWork, step, target, lockVars>>

EndTask ==
  /\ drv = "test" /\ i = uNumClients
  /\ drv' = "unlock"
  /\ UNCHANGED <<clientVars, tWork, i, step, target, lockVars>>

TaskUnlock ==
  /\ drv = "unlock"
  /\ wl_count' = Unlocked
  /\ drv' = "idle"
  /\ UNCHANGED <<clientVars, tWork, i, step, target, pmVars>>

-----------------------------------------------------------------------------
(* Suspend and resume (wlanDrvIf_Suspend, wlanDrvIf_Resume). *)

\* The kernel starts to suspend only while no wake lock is held ...
SuspendStart ==
  /\ pm = "awake" /\ wl_count = 0
  /\ pm' = "suspending"
  /\ UNCHANGED <<clientVars, tWork, taskVars, step, target, wl_count, wake_locks_enabled, disabledOnce>>

\* ... and reaches the driver's callback, os_disable_wake_locks, some time later.
Suspend ==
  /\ pm = "suspending"
  /\ pm' = "suspended"
  /\ wake_locks_enabled' = FALSE
  /\ disabledOnce' = TRUE
  /\ UNCHANGED <<clientVars, tWork, taskVars, step, target, wl_count>>

Resume ==
  /\ pm = "suspended"
  /\ pm' = "awake"
  /\ wake_locks_enabled' = TRUE
  /\ UNCHANGED <<clientVars, tWork, taskVars, step, target, wl_count, disabledOnce>>

-----------------------------------------------------------------------------
\* The rest of a call that thread t has begun.
Continue(t) ==
  os_wake_lock(t) \/ os_RequestSchedule(t) \/ os_wake_unlock(t)

Task ==
  StartTask \/ TestClient \/ ClearPending \/ CallClient \/ ClientReturns \/ EndTask \/ TaskUnlock

Call ==
  \/ \E bEnable \in BOOLEAN : RegisterClient(bEnable)
  \/ \E t \in Thread, c \in Client : RequestSchedule(t, c)
  \/ \E c \in Client : EnableClient(c) \/ DisableClient(c)

Next ==
  \/ Call
  \/ \E t \in Thread : Continue(t)
  \/ EnableTestPending
  \/ Task
  \/ SuspendStart \/ Suspend \/ Resume

\* Threads are scheduled, callbacks return and the work queue runs its item.
Spec ==
  /\ Init /\ [][Next]_vars
  /\ \A t \in Thread : WF_vars(Continue(t))
  /\ WF_vars(EnableTestPending)
  /\ WF_vars(Task)

-----------------------------------------------------------------------------
(* Properties. *)

\* Every variable has the type its declaration in TContext gives it, and the
\* client table is not overrun.
TypeOK ==
  /\ uNumClients \in 0 .. MAX_CLIENTS
  /\ aClientEnabled \in [Client -> BOOLEAN]
  /\ aClientPending \in [Client -> BOOLEAN]
  /\ tWork \in BOOLEAN
  /\ drv \in {"idle", "test", "clear", "call", "callback", "return", "unlock"}
  /\ i \in 0 .. MAX_CLIENTS
  /\ step \in [Thread -> {"none", "lock", "queue", "unlock", "enabled"}]
  /\ target \in Client
  /\ wl_count \in Nat
  /\ wake_locks_enabled \in BOOLEAN
  /\ pm \in {"awake", "suspending", "suspended"}
  /\ unserved \subseteq Client
  /\ disabledOnce \in BOOLEAN

\* A run of the driver task that will test client c is under way or certain.
TaskWillTest(c) ==
  \/ tWork
  \/ \E t \in Thread : step[t] \in {"lock", "queue"}
  \/ step[Driver] = "enabled" /\ target = c
  \/ drv \in {"test", "clear"} /\ i <= c
  \/ drv \in {"call", "callback", "return"} /\ i < c

\* No request is lost, although nothing protects the flags: until a client's
\* callback is called, its pending flag is set, even across the gap in which
\* the task tests and clears it, and once it is enabled a task is certain to
\* test it, even if queue_work refused the item or the task has begun its scan.
NoLostRequest ==
  \A c \in unserved :
    \/ drv = "call" /\ i = c
    \/ aClientPending[c] /\ (aClientEnabled[c] => TaskWillTest(c))

\* Requesters that have taken the wake lock and neither queued the work item
\* nor released the lock.
Requesters == {t \in Thread : step[t] \in {"queue", "unlock"}}

\* What holds the wake lock: these requesters, the queued item, the running task.
Holders ==
  Cardinality(Requesters)
    + (IF tWork THEN 1 ELSE 0) + (IF drv # "idle" THEN 1 ELSE 0)

Balanced == wl_count = Holders

\* Each queued or running task, and each requester, holds the wake lock once:
\* it is neither released while there is work to do ("Prevent system from
\* going to sleep") nor kept when there is none.  This ends with the first
\* suspension that meets a request or a task: locks that are taken or released
\* while they are disabled are not counted.
WakeLockBalanced == disabledOnce \/ Balanced

\* Every requested client is called back, unless it is disabled meanwhile.
RequestServed ==
  \A c \in Client : c \in unserved ~> c \notin unserved \/ ~aClientEnabled[c]
================================================================================

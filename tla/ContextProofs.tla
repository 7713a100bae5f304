---------------------------- MODULE ContextProofs ----------------------------
(***************************************************************************)
(* Theorems about Context, for any number of clients and any finite set of *)
(* requesting threads.                                                     *)
(***************************************************************************)
EXTENDS Context, FiniteSetTheorems, TLAPS

\* The loop of context_DriverTask stays within the registered clients, and
\* only they are asked for.
IndexInv ==
  /\ unserved \subseteq Registered
  /\ drv = "test" => i <= uNumClients
  /\ drv \in {"clear", "call", "callback", "return"} => i < uNumClients

IInv == TypeOK /\ IndexInv /\ NoLostRequest

-----------------------------------------------------------------------------
\* Every step keeps the types and the loop index in its range.
LEMMA TypeAndIndex ==
  ASSUME TypeOK, IndexInv, [Next]_vars
  PROVE  TypeOK' /\ IndexInv'
<1> USE ContextAssumption DEF TypeOK, IndexInv, Registered, Client, Thread,
        clientVars, taskVars, lockVars, pmVars
<1>0. Unlocked \in Nat
  BY DEF Unlocked
<1>1. ASSUME NEW b \in BOOLEAN, RegisterClient(b) PROVE TypeOK' /\ IndexInv'
  BY <1>1 DEF RegisterClient, HasRoom
<1>2. ASSUME NEW t \in Thread, NEW c \in Client, RequestSchedule(t, c) PROVE TypeOK' /\ IndexInv'
  BY <1>2 DEF RequestSchedule, MayCall, Called
<1>3. ASSUME NEW c \in Client, EnableClient(c) PROVE TypeOK' /\ IndexInv'
  BY <1>3 DEF EnableClient, MayCall, Called
<1>4. ASSUME NEW c \in Client, DisableClient(c) PROVE TypeOK' /\ IndexInv'
  BY <1>4 DEF DisableClient, MayCall, Called
<1>5. ASSUME NEW t \in Thread, Continue(t) PROVE TypeOK' /\ IndexInv'
  <2>1. CASE os_wake_lock(t)
    BY <2>1 DEF os_wake_lock
  <2>2. CASE os_RequestSchedule(t)
    <3>1. tWork' \in BOOLEAN
      BY <2>2, Zenon DEF os_RequestSchedule, AfterQueue
    <3> QED BY <2>2, <3>1 DEF os_RequestSchedule, AfterQueue
  <2>3. CASE os_wake_unlock(t)
    BY <1>0, <2>3 DEF os_wake_unlock
  <2> QED BY <1>5, <2>1, <2>2, <2>3 DEF Continue
<1>6. CASE EnableTestPending
  BY <1>6 DEF EnableTestPending, AfterEnable
<1>7. CASE StartTask
  <2>1. tWork' \in BOOLEAN
    BY <1>7, Zenon DEF StartTask, FirstClient
  <2> QED BY <1>7, <2>1 DEF StartTask, FirstClient
<1>8. CASE TestClient
  BY <1>8 DEF TestClient
<1>9. CASE ClearPending
  BY <1>9 DEF ClearPending
<1>10. CASE CallClient
  BY <1>10 DEF CallClient
<1>11. CASE ClientReturns
  BY <1>11 DEF ClientReturns
<1>12. CASE EndTask \/ TaskUnlock
  <2>1. CASE EndTask
    BY <2>1 DEF EndTask
  <2>2. CASE TaskUnlock
    BY <1>0, <2>2 DEF TaskUnlock
  <2> QED BY <1>12, <2>1, <2>2
<1>13. CASE SuspendStart \/ Suspend \/ Resume
  BY <1>13 DEF SuspendStart, Suspend, Resume
<1>14. CASE UNCHANGED vars
  BY <1>14 DEF vars
<1> QED
  BY <1>1, <1>2, <1>3, <1>4, <1>5, <1>6, <1>7, <1>8, <1>9, <1>10, <1>11, <1>12, <1>13, <1>14
  DEF Next, Call, Task

\* No step loses a request.
LEMMA KeepsRequests ==
  ASSUME IInv, [Next]_vars
  PROVE  NoLostRequest'
<1> USE ContextAssumption DEF IInv, TypeOK, IndexInv, NoLostRequest, TaskWillTest,
        Registered, Client, Thread, clientVars, taskVars, lockVars, pmVars
<1>1. ASSUME NEW b \in BOOLEAN, RegisterClient(b) PROVE NoLostRequest'
  BY <1>1 DEF RegisterClient, HasRoom
<1>2. ASSUME NEW t \in Thread, NEW c \in Client, RequestSchedule(t, c) PROVE NoLostRequest'
  BY <1>2 DEF RequestSchedule, MayCall, Called
<1>3. ASSUME NEW c \in Client, EnableClient(c) PROVE NoLostRequest'
  BY <1>3 DEF EnableClient, MayCall, Called
<1>4. ASSUME NEW c \in Client, DisableClient(c) PROVE NoLostRequest'
  BY <1>4 DEF DisableClient, MayCall, Called
<1>5. ASSUME NEW t \in Thread, Continue(t) PROVE NoLostRequest'
  <2>1. CASE os_wake_lock(t)
    BY <2>1 DEF os_wake_lock
  <2>2. CASE os_RequestSchedule(t)
    BY <2>2 DEF os_RequestSchedule, AfterQueue
  <2>3. CASE os_wake_unlock(t)
    BY <2>3 DEF os_wake_unlock
  <2> QED BY <1>5, <2>1, <2>2, <2>3 DEF Continue
<1>6. CASE EnableTestPending
  BY <1>6 DEF EnableTestPending, AfterEnable
<1>7. CASE StartTask
  BY <1>7 DEF StartTask, FirstClient
<1>8. CASE TestClient
  BY <1>8 DEF TestClient
<1>9. CASE ClearPending
  BY <1>9 DEF ClearPending
<1>10. CASE CallClient
  BY <1>10 DEF CallClient
<1>11. CASE ClientReturns
  BY <1>11 DEF ClientReturns
<1>12. CASE EndTask \/ TaskUnlock
  <2>1. CASE EndTask
    BY <2>1 DEF EndTask
  <2>2. CASE TaskUnlock
    BY <2>2 DEF TaskUnlock
  <2> QED BY <1>12, <2>1, <2>2
<1>13. CASE SuspendStart \/ Suspend \/ Resume
  BY <1>13 DEF SuspendStart, Suspend, Resume
<1>14. CASE UNCHANGED vars
  BY <1>14 DEF vars
<1> QED
  BY <1>1, <1>2, <1>3, <1>4, <1>5, <1>6, <1>7, <1>8, <1>9, <1>10, <1>11, <1>12, <1>13, <1>14
  DEF Next, Call, Task

LEMMA InductiveInvariant == Spec => []IInv
<1>1. Init => IInv
  <2> SUFFICES ASSUME Init PROVE IInv
    OBVIOUS
  <2>1. /\ aClientEnabled \in [Client -> BOOLEAN] /\ aClientPending \in [Client -> BOOLEAN]
        /\ tWork \in BOOLEAN /\ wake_locks_enabled \in BOOLEAN /\ disabledOnce \in BOOLEAN
    BY Zenon DEF Init
  <2>2. TypeOK /\ IndexInv
    BY <2>1, ContextAssumption DEF Init, TypeOK, IndexInv, Client
  <2>3. NoLostRequest
    BY DEF Init, NoLostRequest
  <2> QED BY <2>2, <2>3 DEF IInv
<1>2. IInv /\ [Next]_vars => IInv'
  BY TypeAndIndex, KeepsRequests DEF IInv
<1> QED BY <1>1, <1>2, PTL DEF Spec

\* The context engine never loses a request, whatever the threads that make
\* requests, the clients' enable flags and suspensions do meanwhile.
THEOREM RequestsAreKept == Spec => []NoLostRequest
BY InductiveInvariant, PTL DEF IInv

-----------------------------------------------------------------------------
(* The wake lock, until the system suspends. *)

LockInv == disabledOnce \/ (Balanced /\ wake_locks_enabled = TRUE)

\* The set of requesters is finite, and so are those it becomes when a thread
\* joins or leaves; its size changes by one.
LEMMA RequestersSize ==
  ASSUME NEW t \in Thread
  PROVE  /\ Cardinality(Requesters) \in Nat
         /\ t \notin Requesters => Cardinality(Requesters \cup {t}) = Cardinality(Requesters) + 1
         /\ t \in Requesters =>
              /\ Cardinality(Requesters \ {t}) = Cardinality(Requesters) - 1
              /\ Cardinality(Requesters) > 0
<1>1. IsFiniteSet(Thread)
  BY ContextAssumption, FS_AddElement DEF Thread
<1>2. IsFiniteSet(Requesters)
  BY <1>1, FS_Subset DEF Requesters
<1>3. IsFiniteSet(Requesters \ {t})
  BY <1>2, FS_RemoveElement
<1>4. Cardinality(Requesters) \in Nat /\ Cardinality(Requesters \ {t}) \in Nat
  BY <1>2, <1>3, FS_CardinalityType
<1>5. t \notin Requesters => Cardinality(Requesters \cup {t}) = Cardinality(Requesters) + 1
  BY <1>2, FS_AddElement
<1>6. t \in Requesters => Cardinality(Requesters \ {t}) = Cardinality(Requesters) - 1
  BY <1>2, FS_RemoveElement
<1> QED BY <1>4, <1>5, <1>6

\* A thread's request takes the wake lock, and hands it to the work item or
\* releases it.
LEMMA RequestBalanced ==
  ASSUME TypeOK, Balanced, wake_locks_enabled = TRUE, NEW t \in Thread, Continue(t)
  PROVE  Balanced'
<1> USE DEF TypeOK, Balanced, Holders, taskVars
<1>1. CASE os_wake_lock(t)
  <2>1. Requesters' = Requesters \cup {t} /\ t \notin Requesters
    BY <1>1 DEF os_wake_lock, Requesters
  <2>2. wl_count' = wl_count + 1 /\ UNCHANGED <<tWork, drv>>
    BY <1>1 DEF os_wake_lock
  <2> QED BY <2>1, <2>2, RequestersSize
<1>2. CASE os_RequestSchedule(t)
  <2>1. wl_count' = wl_count /\ drv' = drv /\ tWork' = TRUE /\ t \in Requesters
    BY <1>2 DEF os_RequestSchedule, AfterQueue, Requesters, lockVars, pmVars
  <2>2. CASE tWork
    <3>1. Requesters' = Requesters
      BY <1>2, <2>2 DEF os_RequestSchedule, AfterQueue, Requesters
    <3> QED BY <2>1, <2>2, <3>1, RequestersSize
  <2>3. CASE ~tWork
    <3>1. Requesters' = Requesters \ {t}
      BY <1>2, <2>3 DEF os_RequestSchedule, AfterQueue, Requesters
    <3> QED BY <2>1, <2>3, <3>1, RequestersSize
  <2> QED BY <2>2, <2>3
<1>3. CASE os_wake_unlock(t)
  <2>1. Requesters' = Requesters \ {t} /\ t \in Requesters
    BY <1>3 DEF os_wake_unlock, Requesters
  <2>2. UNCHANGED <<tWork, drv>> /\ wl_count' = Unlocked
    BY <1>3 DEF os_wake_unlock
  <2>3. wl_count > 0
    <3>1. Cardinality(Requesters) \in Nat /\ Cardinality(Requesters) > 0
      BY <2>1, RequestersSize
    <3> QED BY <3>1
  <2>4. wl_count' = wl_count - 1
    BY <2>2, <2>3 DEF Unlocked
  <2> QED BY <2>1, <2>2, <2>4, RequestersSize
<1> QED BY <1>1, <1>2, <1>3 DEF Continue

\* Starting and ending the task pass the wake lock on, and release it.
LEMMA TaskBalanced ==
  ASSUME TypeOK, Balanced, wake_locks_enabled = TRUE, StartTask \/ TaskUnlock
  PROVE  Balanced'
<1> USE DEF TypeOK, Balanced, Holders
<1>1. Cardinality(Requesters) \in Nat /\ Requesters' = Requesters
  BY RequestersSize, ContextAssumption DEF StartTask, TaskUnlock, Requesters, Thread
<1>2. CASE StartTask
  BY <1>1, <1>2 DEF StartTask, lockVars
<1>3. CASE TaskUnlock
  <2>1. wl_count > 0 /\ wl_count' = Unlocked /\ tWork' = tWork /\ drv # "idle" /\ drv' = "idle"
    BY <1>1, <1>3 DEF TaskUnlock
  <2>2. wl_count' = wl_count - 1
    BY <2>1 DEF Unlocked
  <2> QED BY <1>1, <2>1, <2>2
<1> QED BY <1>2, <1>3

\* No other step changes who holds the wake lock.
LEMMA OthersBalanced ==
  ASSUME TypeOK, Balanced,
         Call \/ EnableTestPending \/ TestClient \/ ClearPending \/ CallClient \/ ClientReturns
           \/ EndTask \/ SuspendStart \/ Suspend \/ Resume \/ UNCHANGED vars
  PROVE  Balanced'
<1>1. ASSUME Requesters' = Requesters, UNCHANGED <<tWork, wl_count>>, (drv' = "idle") <=> (drv = "idle")
      PROVE  Balanced'
  BY <1>1 DEF Balanced, Holders
<1>2. CASE Call
  <2>1. Requesters' = Requesters
    BY <1>2 DEF Call, RegisterClient, RequestSchedule, EnableClient, DisableClient, MayCall,
       Requesters, Thread, TypeOK
  <2>2. UNCHANGED <<tWork, wl_count>> /\ ((drv' = "idle") <=> (drv = "idle"))
    BY <1>2 DEF Call, RegisterClient, RequestSchedule, EnableClient, DisableClient, MayCall, Called,
       taskVars, lockVars
  <2> QED BY <1>1, <2>1, <2>2
<1>3. CASE EnableTestPending
  <2>1. Requesters' = Requesters
    BY <1>3 DEF EnableTestPending, AfterEnable, Requesters, TypeOK
  <2> QED BY <1>1, <1>3, <2>1 DEF EnableTestPending, taskVars, lockVars
<1>4. CASE TestClient \/ ClearPending \/ CallClient \/ ClientReturns \/ EndTask
  <2>1. Requesters' = Requesters /\ UNCHANGED <<tWork, wl_count>>
    BY <1>4 DEF TestClient, ClearPending, CallClient, ClientReturns, EndTask, Requesters, lockVars
  <2>2. (drv' = "idle") <=> (drv = "idle")
    BY <1>4 DEF TestClient, ClearPending, CallClient, ClientReturns, EndTask
  <2> QED BY <1>1, <2>1, <2>2
<1>5. CASE SuspendStart \/ Suspend \/ Resume \/ UNCHANGED vars
  <2>1. Requesters' = Requesters /\ UNCHANGED <<tWork, wl_count, drv>>
    BY <1>5 DEF SuspendStart, Suspend, Resume, vars, Requesters, taskVars
  <2> QED BY <1>1, <2>1
<1> QED BY <1>2, <1>3, <1>4, <1>5

\* As long as the wake locks were never disabled, they are enabled.
LEMMA StaysEnabled ==
  ASSUME LockInv, [Next]_vars, ~disabledOnce'
  PROVE  ~disabledOnce /\ wake_locks_enabled' = TRUE
<1>1. CASE SuspendStart \/ Suspend \/ Resume
  BY <1>1 DEF SuspendStart, Suspend, Resume, LockInv
<1>2. CASE ~(SuspendStart \/ Suspend \/ Resume)
  <2>1. UNCHANGED <<disabledOnce, wake_locks_enabled>>
    BY <1>2 DEF Next, vars, Call, Continue, Task, RegisterClient, RequestSchedule, EnableClient,
       DisableClient, os_wake_lock, os_RequestSchedule, os_wake_unlock, EnableTestPending, StartTask,
       TestClient, ClearPending, CallClient, ClientReturns, EndTask, TaskUnlock, lockVars, pmVars
  <2> QED BY <2>1 DEF LockInv
<1> QED BY <1>1, <1>2

\* Until the system suspends for the first time, the wake lock is held exactly as
\* often as there are requesters, a queued work item and a running task to hold it.
THEOREM WakeLockIsBalanced == Spec => []WakeLockBalanced
<1>1. Init => LockInv
  <2> SUFFICES ASSUME Init PROVE LockInv
    OBVIOUS
  <2>1. Requesters = {}
    BY DEF Init, Requesters
  <2> QED BY <2>1, FS_EmptySet DEF Init, LockInv, Balanced, Holders
<1>2. TypeOK /\ LockInv /\ [Next]_vars => LockInv'
  <2> SUFFICES ASSUME TypeOK, LockInv, [Next]_vars, ~disabledOnce' PROVE LockInv'
    BY DEF LockInv
  <2>1. Balanced /\ wake_locks_enabled = TRUE /\ wake_locks_enabled' = TRUE
    BY StaysEnabled DEF LockInv
  <2>2. CASE \E t \in Thread : Continue(t)
    BY <2>1, <2>2, RequestBalanced DEF LockInv
  <2>3. CASE StartTask \/ TaskUnlock
    BY <2>1, <2>3, TaskBalanced DEF LockInv
  <2>4. CASE Call \/ EnableTestPending \/ TestClient \/ ClearPending \/ CallClient \/ ClientReturns
               \/ EndTask \/ SuspendStart \/ Suspend \/ Resume \/ UNCHANGED vars
    BY <2>1, <2>4, OthersBalanced DEF LockInv
  <2> QED BY <2>2, <2>3, <2>4 DEF Next, Task
<1>3. IInv => TypeOK
  BY DEF IInv
<1>4. LockInv => WakeLockBalanced
  BY DEF LockInv, WakeLockBalanced
<1> QED BY <1>1, <1>2, <1>3, <1>4, InductiveInvariant, PTL DEF Spec
====

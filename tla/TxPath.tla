-------------------------------- MODULE TxPath --------------------------------
(***************************************************************************)
(* The transmit path above the firmware's queues: the data queues          *)
(* (txDataQueue.c), the management and EAPOL queues with their state       *)
(* machine (txMgmtQueue.c), the port that lets one group through at a time *)
(* (txPort.c) and the backpressure between them and TxHwQueue (txCtrl.c).  *)
(*                                                                         *)
(* Packets of the network come from a thread of the system and meet the    *)
(* driver's own thread only in the queues; the driver's thread handles one *)
(* event at a time.  The calls that the event leads to, and that are not   *)
(* made yet, are in todo: the innermost one first.                         *)
(***************************************************************************)
EXTENDS TxHwQueue, Sequences

CONSTANTS
  Lens,        \* lengths of packets
  QueueMax,    \* aQueueMaxSize and MGMT_QUEUES_DEPTH, per queue
  PaceThresh,  \* aTxSendPaceThresh, per data queue
  Sources,     \* the queues that packets are put in
  Admissions,  \* [required, admitted]: what the access point asks for and grants
  FwFrees      \* numbers of blocks that the firmware frees at a time (external)

MgmtQs == {"MGMT", "EAPOL"}
Queues == AC \union MgmtQs

ASSUME TxPathAssumption ==
  /\ Lens \subseteq Nat
  /\ QueueMax \in [Queues -> Nat \ {0}] /\ PaceThresh \in [AC -> Nat \ {0}]
  /\ Sources \subseteq Queues
  /\ Admissions \subseteq [required : SUBSET AC, admitted : SUBSET AC]
  /\ FwFrees \subseteq Nat \ {0}

VARIABLES
  aQueues, aQueueBusy,                  \* of txDataQueue and of txMgmtQueue
  bDataPortEnable, uLastQueId,          \* txDataQueue (and dataQueueEnabled of txPort)
  bMgmtPortEnable, aQueueEnabledBySM, eSmState,  \* txMgmtQueue (and mgmtQueueEnabled)
  queuesMuxState, txSuspended,          \* txPort
  busyAcBitmap, highestAdmittedAc,      \* txCtrl
  dataRequest, mgmtRequest, paceTimer,  \* requests of the context, the pacing timer
  todo,       \* the calls of the driver's thread
  phase,      \* of DrvMain: "up", or the stages of a recovery
  missed      \* history: QUEUES_NOT_EMPTY came with nothing in the queues, or came in
              \* OPEN_MGMT, since the management scheduler was run

portVars == <<bDataPortEnable, bMgmtPortEnable, queuesMuxState, txSuspended>>
smVars == <<eSmState, aQueueEnabledBySM>>
ctrlVars == <<busyAcBitmap, highestAdmittedAc>>
requestVars == <<dataRequest, mgmtRequest, paceTimer>>
pathVars == <<aQueues, aQueueBusy, uLastQueId, portVars, smVars, ctrlVars,
              requestVars, todo, phase, missed>>
vars == <<hwVars, pathVars>>

------------------------------------------------------------------------------
(* Calls of the driver's thread.                                           *)

Call(name) == [call |-> name]
RunScheduler(idle) == [call |-> "RunScheduler", idle |-> idle]
RunMgmtScheduler(q) == [call |-> "runScheduler", q |-> q]
MgmtQueuesSM(event) == [call |-> "mgmtQueuesSM", event |-> event]
UpdateMgmtBusyMap(busy) == [call |-> "txMgmtQ_UpdateBusyMap", busy |-> busy]
Handling(name, q, pkt, idle) == [call |-> name, q |-> q, pkt |-> pkt, idle |-> idle]

Idle == todo = <<>>
Start(calls) == Idle /\ todo' = calls

Calling(name) == todo # <<>> /\ Head(todo).call = name
Current == Head(todo)
Return(calls) == todo' = calls \o Tail(todo)

------------------------------------------------------------------------------
(* The packets' queues.                                                    *)

\* Packets of the management queues always have the highest TID (MGMT_QUEUES_TID).
AcOf(q) == IF q \in AC THEN q ELSE "VO"

Put(q, pkt) ==
  aQueues' = [aQueues EXCEPT ![q] = IF Len(@) < QueueMax[q] THEN Append(@, pkt) ELSE @]

\* A packet that does not fit is dropped by the data queues, and lost by the other ones.
PutBack(q, pkt) ==
  aQueues' = [aQueues EXCEPT ![q] = IF Len(@) < QueueMax[q] THEN <<pkt>> \o @ ELSE @]

\* txDataQ_InsertPacket, in the network's thread.
InsertPacket(q, len) ==
  /\ Put(q, [ac |-> q, len |-> len])
  /\ LET size == Len(aQueues'[q])
     IN IF aQueueBusy[q] \/ size > PaceThresh[q] THEN UNCHANGED <<dataRequest, paceTimer>>
        ELSE /\ dataRequest' = (dataRequest \/ size = PaceThresh[q])
             /\ paceTimer' = (size < PaceThresh[q])
  /\ UNCHANGED <<hwVars, aQueueBusy, uLastQueId, portVars, smVars, ctrlVars,
                 mgmtRequest, todo, phase, missed>>

\* txMgmtQ_Xmit of an EAPOL packet, in the network's thread.
XmitEapol(len) ==
  /\ Put("EAPOL", [ac |-> "VO", len |-> len])
  /\ mgmtRequest' = (mgmtRequest \/ aQueues["EAPOL"] = <<>>)
  /\ UNCHANGED <<hwVars, aQueueBusy, uLastQueId, portVars, smVars, ctrlVars,
                 dataRequest, paceTimer, todo, phase, missed>>

\* txMgmtQ_Xmit of a packet that the driver made, in the driver's thread.
XmitMgmt(len) ==
  /\ Put("MGMT", [ac |-> "VO", len |-> len])
  /\ Start(IF aQueues["MGMT"] = <<>> THEN <<MgmtQueuesSM("QUEUES_NOT_EMPTY")>> ELSE <<>>)
  /\ UNCHANGED <<hwVars, aQueueBusy, uLastQueId, portVars, smVars, ctrlVars,
                 requestVars, phase, missed>>

------------------------------------------------------------------------------
(* txDataQ_RunScheduler.                                                   *)

Following == [BE |-> "BK", BK |-> "VI", VI |-> "VO", VO |-> "BE"]

\* End of the burst: the port is closed or no queue has a packet to send.
SchedulerEnds ==
  /\ Calling("RunScheduler")
  /\ ~bDataPortEnable \/ Current.idle >= 4
  /\ Return(<<>>)
  /\ UNCHANGED <<hwVars, aQueues, aQueueBusy, uLastQueId, portVars, smVars, ctrlVars,
                 requestVars, phase, missed>>

\* The next queue: passed over if it is busy or empty, or else its first packet is
\* taken, in a critical section.
SchedulerTurns ==
  /\ Calling("RunScheduler")
  /\ bDataPortEnable /\ Current.idle < 4
  /\ uLastQueId' = Following[uLastQueId]
  /\ LET q == uLastQueId'
     IN IF aQueueBusy[q] \/ aQueues[q] = <<>>
        THEN Return(<<RunScheduler(Current.idle + 1)>>) /\ UNCHANGED aQueues
        ELSE /\ aQueues' = [aQueues EXCEPT ![q] = Tail(@)]
             /\ Return(<<Handling("Xmit", q, Head(aQueues[q]), Current.idle + 1)>>)
  /\ UNCHANGED <<hwVars, aQueueBusy, portVars, smVars, ctrlVars, requestVars, phase, missed>>

------------------------------------------------------------------------------
(* runScheduler of txMgmtQueue: MGMT first, and again after each packet.   *)

NextMgmt(q) == IF q = "MGMT" THEN <<RunMgmtScheduler("EAPOL")>> ELSE <<>>

MgmtSchedulerTurns ==
  /\ Calling("runScheduler")
  /\ LET q == Current.q
     IN IF ~bMgmtPortEnable THEN Return(<<>>) /\ UNCHANGED aQueues
        ELSE IF aQueueBusy[q] \/ ~aQueueEnabledBySM[q] \/ aQueues[q] = <<>>
        THEN Return(NextMgmt(q)) /\ UNCHANGED aQueues
        ELSE /\ aQueues' = [aQueues EXCEPT ![q] = Tail(@)]
             /\ Return(<<Handling("Xmit", q, Head(aQueues[q]), 0)>>)
  /\ UNCHANGED <<hwVars, aQueueBusy, uLastQueId, portVars, smVars, ctrlVars,
                 requestVars, phase, missed>>

\* runSchedulerNotFromSm; the queues' emptiness is looked at without a lock.
MgmtEmpty == \A q \in MgmtQs : aQueues[q] = <<>>

RunSchedulerNotFromSm ==
  /\ Calling("runSchedulerNotFromSm")
  /\ Return(IF MgmtEmpty THEN <<>> ELSE <<RunMgmtScheduler("MGMT"), Call("ifEmpty")>>)
  /\ missed' = (missed /\ MgmtEmpty)
  /\ UNCHANGED <<hwVars, aQueues, aQueueBusy, uLastQueId, portVars, smVars, ctrlVars,
                 requestVars, phase>>

IfEmpty ==
  /\ Calling("ifEmpty")
  /\ Return(IF MgmtEmpty THEN <<MgmtQueuesSM("QUEUES_EMPTY")>> ELSE <<>>)
  /\ UNCHANGED <<hwVars, aQueues, aQueueBusy, uLastQueId, portVars, smVars, ctrlVars,
                 requestVars, phase, missed>>

------------------------------------------------------------------------------
(* txCtrl_XmitData and txCtrl_XmitMgmt.                                    *)

\* The queues of the packet's module.
Siblings(q) == IF q \in AC THEN AC ELSE MgmtQs

\* What is sent through one of acs is busy.
BusyFor(q, acs) == highestAdmittedAc[AcOf(q)] \in acs

\* updateQueuesBusyMap and txDataQ_UpdateQueuesBusyState: the whole map is replaced.
SetBusy(qs, acs) ==
  aQueueBusy' = [q \in Queues |-> IF q \in qs THEN BusyFor(q, acs) ELSE aQueueBusy[q]]

\* SELECT_AC_FOR_TID: a packet whose category is not admitted keeps the one it got.
Selected(pkt) == [pkt EXCEPT !.ac = highestAdmittedAc[@]]

\* The packet is gone: a new round of the data scheduler, or the first management queue.
\* (TWD_txXfer_SendPacket failing frees the packet and is no different here: the blocks
\* stay accounted for.)
Sent(q) == IF q \in AC THEN <<RunScheduler(0)>> ELSE <<RunMgmtScheduler("MGMT")>>

Xmit ==
  /\ Calling("Xmit")
  /\ LET q == Current.q
         pkt == Selected(Current.pkt)
         n == NumBlksToAlloc(pkt.len)
     IN \/ /\ StopCurrent(pkt.ac, n)
           /\ SetBusy(Siblings(q), {pkt.ac})
           /\ Return(<<Handling("Requeue", q, pkt, Current.idle)>>)
           /\ UNCHANGED busyAcBitmap
        \/ /\ StopNext(pkt.ac, n)
           /\ SetBusy(Siblings(q), {pkt.ac})
           /\ busyAcBitmap' = busyAcBitmap \union {pkt.ac}
           /\ Return(Sent(q))
        \/ /\ Success(pkt.ac, n)
           /\ Return(Sent(q))
           /\ UNCHANGED <<aQueueBusy, busyAcBitmap>>
  /\ UNCHANGED <<aQueues, uLastQueId, portVars, smVars, highestAdmittedAc, requestVars,
                 phase, missed>>

\* The packet that was refused goes back, if the network has left room for it.
Requeue ==
  /\ Calling("Requeue")
  /\ PutBack(Current.q, Current.pkt)
  /\ Return(IF Current.q \in AC THEN <<RunScheduler(Current.idle)>> ELSE NextMgmt(Current.q))
  /\ UNCHANGED <<hwVars, aQueueBusy, uLastQueId, portVars, smVars, ctrlVars,
                 requestVars, phase, missed>>

------------------------------------------------------------------------------
(* txCtrl_UpdateBackpressure and what calls it.                            *)

\* Mutant: the data queues are marked as free and not served.
BackpressureNoRun(freed) ==
  /\ busyAcBitmap' = busyAcBitmap \ freed
  /\ SetBusy(AC, busyAcBitmap')
  /\ Start(<<UpdateMgmtBusyMap(BusyFor("MGMT", busyAcBitmap'))>>)

\* txDataQ_UpdateBusyMap comes first; the map for txMgmtQ_UpdateBusyMap is made before.
UpdateBackpressure(freed) ==
  /\ busyAcBitmap' = busyAcBitmap \ freed
  /\ SetBusy(AC, busyAcBitmap')
  /\ Start(<<RunScheduler(0), UpdateMgmtBusyMap(BusyFor("MGMT", busyAcBitmap'))>>)

MgmtUpdateBusyMap ==
  /\ Calling("txMgmtQ_UpdateBusyMap")
  /\ aQueueBusy' = [q \in Queues |-> IF q \in MgmtQs THEN Current.busy ELSE aQueueBusy[q]]
  /\ Return(<<Call("runSchedulerNotFromSm")>>)
  /\ UNCHANGED <<hwVars, aQueues, uLastQueId, portVars, smVars, ctrlVars,
                 requestVars, phase, missed>>

\* The status of the firmware is handled (txHwQueue_UpdateFreeResources).
HandleStatus ==
  /\ phase = "up" /\ Idle /\ ~StatusHandled
  /\ UpdateFreeResources
  /\ IF Released = {} THEN UNCHANGED <<busyAcBitmap, aQueueBusy, todo>>
     ELSE UpdateBackpressure(Released)
  /\ UNCHANGED <<aQueues, uLastQueId, portVars, smVars, highestAdmittedAc,
                 requestVars, phase, missed>>

\* txCtrl_UpdateHighestAdmittedAcTable: the category itself, or the next lower one that
\* needs no admission.
Below(ac) == CASE ac = "BK" -> <<"BK">>
               [] ac = "BE" -> <<"BE", "BK">>
               [] ac = "VI" -> <<"VI", "BE", "BK">>
               [] ac = "VO" -> <<"VO", "VI", "BE", "BK">>

Admitted(ac, a) ==
  LET open == {i \in DOMAIN Below(ac) : Below(ac)[i] \notin a.required}
  IN IF ac \in a.admitted THEN ac
     ELSE IF open = {} THEN "BE"
     ELSE Below(ac)[CHOOSE i \in open : \A j \in open : i <= j]

\* txCtrlParams_setAcAdmissionStatus, txCtrlParams_setAdmissionCtrlParams.
UpdateQueuesMapping(a) ==
  /\ highestAdmittedAc' = [ac \in AC |-> Admitted(ac, a)]
  /\ LET busy(q) == highestAdmittedAc'[AcOf(q)] \in busyAcBitmap
     IN /\ aQueueBusy' = [q \in Queues |-> IF q \in AC THEN busy(q) ELSE aQueueBusy[q]]
        /\ Start(<<RunScheduler(0), UpdateMgmtBusyMap(busy("MGMT"))>>)
  /\ UNCHANGED <<hwVars, aQueues, uLastQueId, portVars, smVars, busyAcBitmap,
                 requestVars, phase, missed>>

------------------------------------------------------------------------------
(* txPort.                                                                 *)

\* updateQueuesStates: stop first, then wake; a group that is woken is served.
UpdateQueuesStates(mux, suspended) ==
  /\ queuesMuxState' = mux /\ txSuspended' = suspended
  /\ bMgmtPortEnable' = (~suspended /\ mux = "mgmt")
  /\ bDataPortEnable' = (~suspended /\ mux = "data")

Woken ==
  IF bMgmtPortEnable' /\ ~bMgmtPortEnable THEN <<Call("runSchedulerNotFromSm")>>
  ELSE IF bDataPortEnable' /\ ~bDataPortEnable THEN <<RunScheduler(0)>> ELSE <<>>

------------------------------------------------------------------------------
(* mgmtQueuesSM.                                                           *)

NextState(event) ==
  CASE event = "CLOSE" -> "CLOSE"
    [] event = "MGMT" -> "MGMT"
    [] event = "EAPOL" -> "EAPOL"
    [] event = "OPEN" -> IF MgmtEmpty THEN "OPEN_DATA" ELSE "OPEN_MGMT"
    [] event = "QUEUES_EMPTY" -> IF eSmState = "OPEN_MGMT" THEN "OPEN_DATA" ELSE eSmState
    [] event = "QUEUES_NOT_EMPTY" -> IF eSmState = "OPEN_DATA" THEN "OPEN_MGMT" ELSE eSmState

\* The queues that a new state lets send; OPEN_MGMT keeps what EAPOL has let.
Lets(state) ==
  CASE state \in {"CLOSE", "OPEN_DATA"} -> {}
    [] state = "MGMT" -> {"MGMT"}
    [] state \in {"EAPOL", "OPEN_MGMT"} -> MgmtQs

\* eSmAction.
SmAction(event) ==
  CASE NextState(event) = "OPEN_DATA" /\ eSmState # "OPEN_DATA" -> "ENABLE_DATA"
    [] eSmState = "OPEN_DATA" /\ event \in {"CLOSE", "MGMT", "QUEUES_NOT_EMPTY"} -> "ENABLE_MGMT"
    [] event = "EAPOL" \/ (event = "MGMT" /\ eSmState # "OPEN_DATA") -> "RUN_SCHEDULER"
    [] event = "QUEUES_NOT_EMPTY" /\ eSmState \in {"MGMT", "EAPOL"} -> "RUN_SCHEDULER"
    [] OTHER -> "NULL"

MgmtQueuesSMHandled ==
  /\ Calling("mgmtQueuesSM")
  /\ LET event == Current.event
     IN /\ eSmState' = NextState(event)
        /\ aQueueEnabledBySM' = [q \in MgmtQs |-> q \in Lets(eSmState')]
        /\ CASE SmAction(event) = "ENABLE_DATA" ->
                  UpdateQueuesStates("data", txSuspended) /\ Return(Woken)
             [] SmAction(event) = "ENABLE_MGMT" ->
                  UpdateQueuesStates("mgmt", txSuspended) /\ Return(Woken)
             [] SmAction(event) = "RUN_SCHEDULER" ->
                  Return(<<RunMgmtScheduler("MGMT")>>) /\ UNCHANGED portVars
             [] OTHER -> Return(<<>>) /\ UNCHANGED portVars
        /\ missed' = \/ missed /\ SmAction(event) # "RUN_SCHEDULER"
                     \/ event = "QUEUES_NOT_EMPTY" /\ (eSmState = "OPEN_MGMT" \/ MgmtEmpty)
  /\ UNCHANGED <<hwVars, aQueues, aQueueBusy, uLastQueId, ctrlVars, requestVars, phase>>

\* txMgmtQ_SetConnState; the connection's state machines open a link that is in EAPOL.
SetConnState(state) ==
  /\ state = "EAPOL" => eSmState \in {"CLOSE", "MGMT"}
  /\ state = "OPEN" => eSmState = "EAPOL"
  /\ Start(<<MgmtQueuesSM(state)>>)
  /\ UNCHANGED <<hwVars, aQueues, aQueueBusy, uLastQueId, portVars, smVars, ctrlVars,
                 requestVars, phase, missed>>

------------------------------------------------------------------------------
(* Requests of the context, and DrvMain's recovery.                        *)

ServeData ==
  /\ dataRequest /\ dataRequest' = FALSE
  /\ Start(<<RunScheduler(0)>>)
  /\ UNCHANGED <<hwVars, aQueues, aQueueBusy, uLastQueId, portVars, smVars, ctrlVars,
                 mgmtRequest, paceTimer, phase, missed>>

PaceTimeout ==
  /\ paceTimer /\ paceTimer' = FALSE
  /\ Start(<<RunScheduler(0)>>)
  /\ UNCHANGED <<hwVars, aQueues, aQueueBusy, uLastQueId, portVars, smVars, ctrlVars,
                 mgmtRequest, dataRequest, phase, missed>>

ServeMgmt ==
  /\ mgmtRequest /\ mgmtRequest' = FALSE
  /\ Start(<<MgmtQueuesSM("QUEUES_NOT_EMPTY")>>)
  /\ UNCHANGED <<hwVars, aQueues, aQueueBusy, uLastQueId, portVars, smVars, ctrlVars,
                 dataRequest, paceTimer, phase, missed>>

\* drvMain_StopActivities.
StopActivities ==
  /\ phase = "up" /\ phase' = "stopped"
  /\ Start(<<>>)
  /\ UpdateQueuesStates(queuesMuxState, TRUE)
  /\ UNCHANGED <<hwVars, aQueues, aQueueBusy, uLastQueId, smVars, ctrlVars, requestVars, missed>>

\* The firmware was loaded again (txHwQueue_SetHwInfo).
FwReloaded ==
  /\ phase = "stopped" /\ phase' = "loaded"
  /\ Idle /\ Restart
  /\ UNCHANGED <<aQueues, aQueueBusy, uLastQueId, portVars, smVars, ctrlVars,
                 requestVars, todo, missed>>

\* txCtrl_NotifyFwReset.
NotifyFwReset ==
  /\ phase = "loaded" /\ phase' = "notified"
  /\ UpdateBackpressure(AC)
  /\ UNCHANGED <<hwVars, aQueues, uLastQueId, portVars, smVars, highestAdmittedAc,
                 requestVars, missed>>

\* drvMain_EnableActivities.
EnableActivities ==
  /\ phase = "notified" /\ phase' = "up"
  /\ UpdateQueuesStates(queuesMuxState, FALSE)
  /\ Start(Woken)
  /\ UNCHANGED <<hwVars, aQueues, aQueueBusy, uLastQueId, smVars, ctrlVars, requestVars, missed>>

------------------------------------------------------------------------------

PathInit ==
  /\ Init
  /\ aQueues = [q \in Queues |-> <<>>] /\ aQueueBusy = [q \in Queues |-> FALSE]
  /\ bDataPortEnable = FALSE /\ bMgmtPortEnable = TRUE /\ uLastQueId = "BE"
  /\ aQueueEnabledBySM = [q \in MgmtQs |-> FALSE] /\ eSmState = "CLOSE"
  /\ queuesMuxState = "mgmt" /\ txSuspended = FALSE
  /\ busyAcBitmap = {} /\ highestAdmittedAc = [ac \in AC |-> ac]
  /\ dataRequest = FALSE /\ mgmtRequest = FALSE /\ paceTimer = FALSE
  /\ todo = <<>> /\ phase = "up" /\ missed = FALSE

\* Packets come, from the network at any time.
Packet ==
  \/ \E q \in Sources \intersect AC, len \in Lens : InsertPacket(q, len)
  \/ "EAPOL" \in Sources /\ \E len \in Lens : XmitEapol(len)
  \/ "MGMT" \in Sources /\ \E len \in Lens : XmitMgmt(len)

\* The rest of the driver changes the connection or starts a recovery.
Event ==
  \/ \E state \in {"CLOSE", "MGMT", "EAPOL", "OPEN"} : SetConnState(state)
  \/ \E a \in Admissions : UpdateQueuesMapping(a)
  \/ StopActivities

Firmware ==
  /\ phase = "up"
  /\ \/ \E q \in AC, n \in FwFrees : FwFreesBlks(q, n)
     \/ FwReportsResult \/ ReadStatus
  /\ UNCHANGED pathVars

Driver ==
  \/ SchedulerEnds \/ SchedulerTurns \/ MgmtSchedulerTurns
  \/ RunSchedulerNotFromSm \/ IfEmpty
  \/ Xmit \/ Requeue
  \/ MgmtUpdateBusyMap \/ MgmtQueuesSMHandled
  \/ HandleStatus
  \/ ServeData \/ ServeMgmt \/ PaceTimeout
  \/ FwReloaded \/ NotifyFwReset \/ EnableActivities

PathNext == Packet \/ Event \/ Firmware \/ Driver

PathSpec == PathInit /\ [][PathNext]_vars

------------------------------------------------------------------------------
(* Properties.                                                             *)

\* The firmware owes the queue's packets room: the category they are, or the one that
\* their first packet was moved to, is stopped; or the queue is full, and the packet that
\* was refused may have been lost, and the other ones still wait for its category.
WaitsForRoom(q) ==
  \/ bQueueBusy[highestAdmittedAc[AcOf(q)]]
  \/ bQueueBusy[highestAdmittedAc[Head(aQueues[q]).ac]]
  \/ Len(aQueues[q]) >= QueueMax[q] /\ \E ac \in AC : bQueueBusy[ac]

\* Whatever the two threads, the backpressure, the connection and the recoveries do in
\* whatever order, no packet that may be sent is forgotten: when the driver has nothing
\* left to do, it waits for room in the firmware (and StoppedForAReason says that the
\* room is missing), for the pacing timer, or, a data packet, for management packets.
\* Left out is the one case in which the code does forget packets, a request of the
\* network that comes late: see AccessReturned.
NoPacketStranded ==
  Idle /\ ~dataRequest /\ ~mgmtRequest /\ phase = "up" /\ ~missed =>
    /\ \A q \in MgmtQs : aQueues[q] # <<>> =>
         \/ q \notin Lets(eSmState) /\ eSmState # "OPEN_DATA"
         \/ WaitsForRoom(q)
    /\ eSmState \in {"OPEN_DATA", "OPEN_MGMT"} =>
         \A q \in AC : aQueues[q] # <<>> => paceTimer \/ ~MgmtEmpty \/ WaitsForRoom(q)

\* "Gain access to the Tx path when the management queues are not empty, and return the
\* access to the data queues when the management queues are empty" (txMgmtQueue.c:49).
\* It does not hold: the packet of a request can be sent, and the access returned, before
\* the request is served; QUEUES_NOT_EMPTY then takes the access for empty queues, and
\* runSchedulerNotFromSm, which finds them empty, never says QUEUES_EMPTY.
AccessReturned ==
  Idle /\ ~mgmtRequest /\ phase = "up" /\ MgmtEmpty /\ eSmState \in {"OPEN_DATA", "OPEN_MGMT"}
    => bDataPortEnable
==============================================================================

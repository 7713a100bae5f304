-------------------------------- MODULE RxXfer --------------------------------
(***************************************************************************)
(* Receive transfer (TWD/FW_Transfer/RxXfer.c): packets that the firmware  *)
(* announces in its status are read, several in one transaction, into host *)
(* buffers and forwarded to the receive queue.                             *)
(*                                                                         *)
(* Packets are numbered as the firmware counts them.  The firmware, the    *)
(* bus and the order in which the context engine serves TwIf and FwEvent   *)
(* are the environment; a transaction is served in the call or reported to *)
(* twIf_HandleTxnDone, and the driver's counter reaches the firmware with  *)
(* the read it follows.                                                    *)
(***************************************************************************)
EXTENDS Integers, Sequences, FiniteSets

CONSTANTS
  NumDesc,        \* NUM_RX_PKT_DESC: short descriptors in the firmware's status
  NumTxn,         \* MAX_CONSECUTIVE_READ_TXN: transaction structures
  MaxAggregPkts,  \* uMaxAggregPkts: packets read by one transaction
  FwWindow,       \* packets that the firmware announces ahead of the driver's counter
  MaxPkts,        \* bound: packets since the last restart
  MaxErrors,      \* bound: reads that fail
  MaxRestarts     \* bound: restarts without a failure

ASSUME RxXferAssumption ==
  /\ NumDesc \in Nat \ {0} /\ NumTxn \in Nat \ {0} /\ MaxAggregPkts \in Nat \ {0}
  /\ FwWindow \in 1 .. NumDesc - 1 /\ 2 * FwWindow < NumTxn
  /\ MaxPkts \in Nat /\ MaxErrors \in Nat /\ MaxRestarts \in Nat

Index == 0 .. NumTxn - 1
Packet == 0 .. MaxPkts - 1

\* The completion of the firmware's status read, among those of the packet reads.
Status == NumTxn

\* The status read: not under way, or on the bus (otherwise done, with a counter).
NoStatus == -2
OnBus == -1

VARIABLES
  uFwRxCntr, uDrvRxCntr, uCurrTxnIndex, uAvailableTxn, bPendingBuffer,
  aTxnStruct,     \* per structure: packets, callback, and what aBuf[0] points to
  pc, aggreg,     \* rxXfer_Handle: whether it runs, the packets aggregated so far
  turn,           \* the context client to be served next
  bus, done,      \* reads on the bus; completions that wait for twIf_HandleTxnDone
  fwCntr, fwDrv,  \* the firmware's counter, and the driver's as the firmware knows it
  irq,            \* the firmware's interrupt waits to be served
  stat,           \* the status read: NoStatus, OnBus, or done with this counter
  recover,        \* a failure was reported to the health monitor
  forwarded, dropped, failed, swallowed, \* what became of the packets
  errors, restarts

modVars  == <<uFwRxCntr, uDrvRxCntr, uCurrTxnIndex, uAvailableTxn, bPendingBuffer, aTxnStruct>>
runVars  == <<pc, aggreg>>
busVars  == <<turn, bus, done>>
fwVars   == <<fwCntr, fwDrv, irq, stat>>
pktVars  == <<forwarded, dropped, failed, swallowed>>
lifeVars == <<recover, errors, restarts>>
vars == <<modVars, runVars, busVars, fwVars, pktVars, lifeVars>>

\* uAvailableTxn, unsigned in the code, is only compared with 0: a negative number
\* stands for one that wrapped around, which takes a failed read (AlwaysTxnAvailable).
TypeOK ==
  /\ uFwRxCntr \in 0 .. MaxPkts /\ uDrvRxCntr \in 0 .. MaxPkts
  /\ uCurrTxnIndex \in Index /\ uAvailableTxn \in Int /\ bPendingBuffer \in BOOLEAN
  /\ aTxnStruct \in [Index -> [pkts : Seq(Packet), cb : {"TxnDone", "PktDrop"},
                               buf : {"none", "host", "dummy"}]]
  /\ pc \in {"idle", "loop"} /\ aggreg \in Seq(Packet)
  /\ turn \in {"TwIf", "FwEvent"}
  /\ bus \in Seq(Index) /\ done \in Seq(Index \cup {Status})
  /\ fwCntr \in 0 .. MaxPkts /\ fwDrv \in 0 .. MaxPkts /\ irq \in BOOLEAN
  /\ stat \in {NoStatus, OnBus} \cup 0 .. MaxPkts
  /\ forwarded \subseteq Packet
  /\ dropped \subseteq Packet /\ failed \subseteq Packet
  /\ swallowed \subseteq Packet /\ recover \in BOOLEAN
  /\ errors \in 0 .. MaxErrors /\ restarts \in 0 .. MaxRestarts

Fresh == [pkts |-> <<>>, cb |-> "TxnDone", buf |-> "none"]

Init ==
  /\ uFwRxCntr = 0 /\ uDrvRxCntr = 0 /\ uCurrTxnIndex = 0 /\ uAvailableTxn = NumTxn - 1
  /\ bPendingBuffer = FALSE /\ aTxnStruct = [i \in Index |-> Fresh]
  /\ pc = "idle" /\ aggreg = <<>> /\ turn = "TwIf" /\ bus = <<>> /\ done = <<>>
  /\ fwCntr = 0 /\ fwDrv = 0 /\ irq = FALSE /\ stat = NoStatus
  /\ forwarded = {} /\ dropped = {} /\ failed = {}
  /\ swallowed = {} /\ recover = FALSE /\ errors = 0 /\ restarts = 0

Elems(s) == {s[i] : i \in 1 .. Len(s)}

LastOf(s) == s[Len(s)]

\* A transaction can be served in the call.
ServedAtOnce == bus = <<>> /\ stat # OnBus

------------------------------------------------------------------------------
(* The firmware and the bus.                                               *)

FwRxPacket ==
  /\ fwCntr < MaxPkts /\ fwCntr < fwDrv + FwWindow
  /\ fwCntr' = fwCntr + 1 /\ irq' = TRUE
  /\ UNCHANGED <<modVars, runVars, busVars, fwDrv, stat, pktVars, lifeVars>>

\* A read is carried out, with the write of the driver's counter behind it.  A
\* read that fails is reported as a failure and not called back.
BusDone ==
  /\ bus # <<>>
  /\ bus' = Tail(bus)
  /\ \/ /\ done' = Append(done, Head(bus))
        /\ UNCHANGED <<failed, recover, errors>>
     \/ /\ errors < MaxErrors /\ errors' = errors + 1
        /\ failed' = failed \cup Elems(aTxnStruct[Head(bus)].pkts)
        /\ recover' = TRUE
        /\ UNCHANGED done
  /\ fwDrv' = LastOf(aTxnStruct[Head(bus)].pkts) + 1
  /\ UNCHANGED <<modVars, runVars, turn, fwCntr, irq, stat, forwarded, dropped,
                 swallowed, restarts>>

\* The status is read before the packets that wait for the bus.
BusStatus ==
  /\ stat = OnBus
  /\ stat' = fwCntr /\ done' = Append(done, Status)
  /\ UNCHANGED <<modVars, runVars, turn, bus, fwCntr, fwDrv, irq, pktVars, lifeVars>>

------------------------------------------------------------------------------
(* Forwarding.                                                             *)

\* Mutant: only the first of the aggregated buffers is forwarded.
ForwardFirst(t) == forwarded' = forwarded \cup {t.pkts[1]}

\* rxXfer_ForwardPacket: the packets go to the receive queue, aBuf[0] is reset.
\* What a structure held is forgotten when nobody reads it any more.
Forward(t) == forwarded' = forwarded \cup Elems(t.pkts)

Forwarded(t) == [t EXCEPT !.buf = "none", !.pkts = <<>>]

NotForwarded == UNCHANGED forwarded

------------------------------------------------------------------------------
(* rxXfer_Handle.                                                          *)

\* Mutant: nothing is handled while a read is under way.
EnterIfUnused(available) == pc' = IF available < NumTxn - 1 THEN "idle" ELSE "loop"

\* Entry: without a free structure it gives up.
EnterHandle(available) == pc' = IF available = 0 THEN "idle" ELSE "loop"

NextIndex(i) == (i + 1) % NumTxn

OneLess(n) == n - 1

\* Mutant: a read goes ahead of those that wait for the bus.
AheadOnBus(i) == bus' = <<i>> \o bus

OntoBus(i) == bus' = Append(bus, i)

\* rxXfer_IssueTxn for structure t, which holds packets for the host.
IssueTxn(t) ==
  /\ \/ /\ ServedAtOnce
        /\ aTxnStruct' = [aTxnStruct EXCEPT ![uCurrTxnIndex] = Forwarded(t)]
        /\ Forward(t)
        /\ fwDrv' = uDrvRxCntr'
        /\ UNCHANGED <<bus, uAvailableTxn, failed, recover, errors>>
     \/ /\ aTxnStruct' = [aTxnStruct EXCEPT ![uCurrTxnIndex] = t]
        /\ OntoBus(uCurrTxnIndex)
        /\ uAvailableTxn' = OneLess(uAvailableTxn)
        /\ NotForwarded
        /\ UNCHANGED <<fwDrv, failed, recover, errors>>
     \/ /\ ServedAtOnce
        /\ errors < MaxErrors /\ errors' = errors + 1
        /\ aTxnStruct' = [aTxnStruct EXCEPT ![uCurrTxnIndex] = t]
        /\ failed' = failed \cup Elems(t.pkts) /\ recover' = TRUE
        /\ NotForwarded
        /\ UNCHANGED <<bus, fwDrv, uAvailableTxn>>
  /\ uCurrTxnIndex' = NextIndex(uCurrTxnIndex)

\* The aggregated packets in the next structure, whose callback is left alone.
Filled(pkts) == [aTxnStruct[uCurrTxnIndex] EXCEPT !.pkts = pkts, !.buf = "host"]

NoIssue == UNCHANGED <<aTxnStruct, uCurrTxnIndex, uAvailableTxn, bus, fwDrv, forwarded, failed, recover, errors>>

IssueIfAny == IF aggreg = <<>> THEN NoIssue ELSE IssueTxn(Filled(aggreg))

MorePackets == uDrvRxCntr % NumDesc # uFwRxCntr % NumDesc

Looping == pc = "loop"

\* The next packet gets a buffer; a full transaction is issued.
HandlePacket ==
  /\ Looping /\ MorePackets
  /\ uDrvRxCntr' = uDrvRxCntr + 1
  /\ IF Len(aggreg) + 1 = MaxAggregPkts
     THEN aggreg' = <<>> /\ IssueTxn(Filled(Append(aggreg, uDrvRxCntr)))
     ELSE aggreg' = Append(aggreg, uDrvRxCntr) /\ NoIssue
  /\ UNCHANGED <<uFwRxCntr, bPendingBuffer, pc, turn, done, fwCntr, irq, stat, dropped, swallowed,
                 restarts>>

\* The next packet would make the transaction too long, and waits for another.
HandleTooLong ==
  /\ Looping /\ MorePackets
  /\ aggreg # <<>> /\ aggreg' = <<>>
  /\ UNCHANGED uDrvRxCntr
  /\ IssueTxn(Filled(aggreg))
  /\ UNCHANGED <<uFwRxCntr, bPendingBuffer, pc, turn, done, fwCntr, irq, stat, dropped, swallowed,
                 restarts>>

\* No buffer yet.
HandlePending ==
  /\ Looping /\ MorePackets
  /\ bPendingBuffer' = TRUE
  /\ pc' = "idle" /\ aggreg' = <<>>
  /\ UNCHANGED uDrvRxCntr
  /\ IssueIfAny
  /\ UNCHANGED <<uFwRxCntr, turn, done, fwCntr, irq, stat, dropped, swallowed, restarts>>

\* A structure that reads into the dummy buffer.
Dummy(pkts) == [pkts |-> pkts, cb |-> "PktDrop", buf |-> "dummy"]

\* No buffer at all: what is aggregated is issued, in a step of its own, and the
\* packet is read into the dummy buffer.
HandleDrop ==
  /\ Looping /\ MorePackets
  /\ aggreg = <<>>
  /\ uDrvRxCntr' = uDrvRxCntr + 1
  /\ dropped' = dropped \cup {uDrvRxCntr}
  /\ uCurrTxnIndex' = NextIndex(uCurrTxnIndex)
  /\ \/ /\ ServedAtOnce
        /\ aTxnStruct' = [aTxnStruct EXCEPT ![uCurrTxnIndex] = Dummy(<<>>)]
        /\ fwDrv' = uDrvRxCntr'
        /\ UNCHANGED <<bus, uAvailableTxn, failed, recover, errors>>
     \/ /\ OntoBus(uCurrTxnIndex)
        /\ aTxnStruct' = [aTxnStruct EXCEPT ![uCurrTxnIndex] = Dummy(<<uDrvRxCntr>>)]
        /\ uAvailableTxn' = OneLess(uAvailableTxn)
        /\ UNCHANGED <<fwDrv, failed, recover, errors>>
     \/ /\ ServedAtOnce
        /\ errors < MaxErrors /\ errors' = errors + 1
        /\ aTxnStruct' = [aTxnStruct EXCEPT ![uCurrTxnIndex] = Dummy(<<uDrvRxCntr>>)]
        /\ failed' = failed \cup {uDrvRxCntr} /\ recover' = TRUE
        /\ UNCHANGED <<bus, fwDrv, uAvailableTxn>>
  /\ UNCHANGED <<uFwRxCntr, bPendingBuffer, pc, aggreg, turn, done, fwCntr, irq, stat, forwarded,
                 swallowed, restarts>>

HandleNoMore ==
  /\ Looping /\ ~MorePackets
  /\ pc' = "idle" /\ aggreg' = <<>>
  /\ UNCHANGED uDrvRxCntr
  /\ IssueIfAny
  /\ UNCHANGED <<uFwRxCntr, bPendingBuffer, turn, done, fwCntr, irq, stat, dropped, swallowed,
                 restarts>>

Handle == HandlePacket \/ HandleTooLong \/ HandlePending \/ HandleDrop \/ HandleNoMore

------------------------------------------------------------------------------
(* The handlers that the context engine calls.                             *)

\* rxXfer_RxEvent with the firmware's counter c.
RxEvent(c) ==
  IF c % NumDesc = uFwRxCntr % NumDesc
  THEN UNCHANGED <<uFwRxCntr, pc>>
  ELSE uFwRxCntr' = c /\ EnterHandle(uAvailableTxn)

\* The interrupt is served: the status is read, and its packets handled, at once
\* or later.
FwEvent ==
  /\ pc = "idle" /\ turn = "FwEvent"
  /\ turn' = "TwIf"
  /\ \/ /\ irq /\ stat = NoStatus /\ ServedAtOnce
        /\ irq' = FALSE
        /\ RxEvent(fwCntr)
        /\ UNCHANGED stat
     \/ /\ irq /\ stat = NoStatus
        /\ irq' = FALSE /\ stat' = OnBus
        /\ UNCHANGED <<uFwRxCntr, pc>>
     \/ /\ ~irq \/ stat # NoStatus
        /\ done # <<>>
        /\ UNCHANGED <<irq, stat, uFwRxCntr, pc>>
  /\ UNCHANGED <<uDrvRxCntr, uCurrTxnIndex, uAvailableTxn, bPendingBuffer, aTxnStruct, aggreg, bus, done,
                 fwCntr, fwDrv, pktVars, lifeVars>>

\* rxXfer_TxnDoneCb and, after a drop, rxXfer_PktDropTxnDoneCb.
TxnDoneCb(i) ==
  LET t == aTxnStruct[i]
  IN /\ uAvailableTxn' = uAvailableTxn + 1
     /\ \/ /\ t.cb = "TxnDone"
           /\ aTxnStruct' = [aTxnStruct EXCEPT ![i] = Forwarded(t)]
           /\ Forward(t)
           /\ bPendingBuffer' = FALSE
           /\ IF bPendingBuffer THEN EnterHandle(uAvailableTxn + 1) ELSE UNCHANGED pc
           /\ UNCHANGED swallowed
        \/ /\ t.cb = "PktDrop"
           /\ aTxnStruct' = [aTxnStruct EXCEPT ![i].cb = "TxnDone", ![i].pkts = <<>>]
           /\ NotForwarded
           /\ swallowed' = IF t.buf = "host" THEN swallowed \cup Elems(t.pkts) ELSE swallowed
           /\ UNCHANGED <<bPendingBuffer, pc>>
     /\ UNCHANGED <<uFwRxCntr, stat>>

\* twIf_HandleTxnDone takes the next completion.
HandleTxnDone ==
  /\ pc = "idle" /\ turn = "TwIf"
  /\ done # <<>>
  /\ done' = Tail(done)
  /\ \/ /\ Head(done) = Status
        /\ stat' = NoStatus
        /\ RxEvent(stat)
        /\ NotForwarded
        /\ UNCHANGED <<uAvailableTxn, aTxnStruct, bPendingBuffer, swallowed>>
     \/ /\ Head(done) # Status
        /\ TxnDoneCb(Head(done))
  /\ UNCHANGED <<uDrvRxCntr, uCurrTxnIndex, aggreg, turn, bus, fwCntr, fwDrv, irq, dropped, failed,
                 lifeVars>>

TxnDoneHandled ==
  /\ pc = "idle" /\ turn = "TwIf"
  /\ done = <<>>
  /\ turn' = "FwEvent"
  /\ UNCHANGED <<modVars, runVars, bus, done, fwVars, pktVars, lifeVars>>

------------------------------------------------------------------------------
(* Restart.                                                                *)

\* The structures whose buffers rxXfer_Restart frees by forwarding them.
Released == {i \in Index : aTxnStruct[i].buf # "none" /\ aTxnStruct[i].cb = "TxnDone"}

\* Recovery: TwIf drops the transactions, and rxXfer_Restart follows when the
\* firmware has been configured again.
Restart ==
  /\ pc = "idle"
  /\ recover \/ restarts < MaxRestarts
  /\ restarts' = IF recover THEN restarts ELSE restarts + 1
  /\ recover' = FALSE
  /\ bus' = <<>> /\ done' = <<>>
  /\ uFwRxCntr' = 0 /\ uDrvRxCntr' = 0 /\ uCurrTxnIndex' = 0 /\ uAvailableTxn' = NumTxn - 1
  /\ aTxnStruct' = [i \in Index |->
                      [aTxnStruct[i] EXCEPT !.cb = "TxnDone", !.pkts = <<>>,
                                            !.buf = IF i \in Released THEN "none" ELSE @]]
  /\ fwCntr' = 0 /\ fwDrv' = 0 /\ irq' = FALSE /\ stat' = NoStatus
  /\ forwarded' = {} /\ dropped' = {} /\ failed' = {} /\ swallowed' = {}
  /\ UNCHANGED <<bPendingBuffer, runVars, turn, errors>>

Next ==
  \/ FwRxPacket \/ BusDone \/ BusStatus
  \/ Handle \/ FwEvent \/ HandleTxnDone \/ TxnDoneHandled
  \/ Restart

Spec == Init /\ [][Next]_vars

------------------------------------------------------------------------------
(* Properties.                                                             *)

Pending == Elems(bus) \cup (Elems(done) \ {Status})

\* The packets that the driver has taken and not yet passed on.
Held == Elems(aggreg) \cup UNION {Elems(aTxnStruct[i].pkts) : i \in Pending}

\* Every packet that the driver has counted as taken was forwarded, was dropped
\* for want of a buffer, belongs to a failed read, or is still under way: none is
\* forgotten in a structure that is filled again while its read is under way, although
\* uAvailableTxn is only looked at when rxXfer_Handle is entered.  Excepted are the
\* packets of a structure whose last read was a drop that was served in the call:
\* it still has the callback of that drop, which swallows them.
NoPacketForgotten ==
  /\ TypeOK
  /\ 0 .. uDrvRxCntr - 1 = forwarded \cup dropped \cup failed \cup swallowed \cup Held

\* No packet is forwarded while an older one waits for the bus: packets come in the
\* order of the firmware, but that a read served in the call overtakes those whose
\* completion still waits for twIf_HandleTxnDone (rxXfer_Handle, rxXfer_TxnDoneCb).
ForwardedInOrder ==
  [][\A p \in forwarded' \ forwarded : \A i \in Elems(bus') :
        \A q \in Elems(aTxnStruct'[i].pkts) : p < q]_vars

\* When nothing is under way any more, the driver has taken every packet that the
\* firmware announced: none waits for an interrupt that will not come, although
\* rxXfer_Handle gives up without a free structure and rxXfer_RxEvent compares
\* counters modulo NumDesc.  Excepted is a packet whose buffer was promised for the
\* time when another one is freed.
NoPacketLeft ==
  pc = "idle" /\ ~irq /\ stat = NoStatus /\ Pending = {} /\ ~recover =>
    uDrvRxCntr = fwCntr \/ bPendingBuffer
==============================================================================

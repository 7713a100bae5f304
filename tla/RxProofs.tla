------------------------------- MODULE RxProofs -------------------------------
(***************************************************************************)
(* Proofs about the receive path, in two parts.                            *)
(*                                                                         *)
(* The receive transfer (RxXfer): no packet that the driver has taken is   *)
(* forgotten, none that was announced is left, and none overtakes one that *)
(* waits for the bus, whatever the number of packets and of failures.  The *)
(* argument is about windows of packets.  The firmware announces at most   *)
(* FwWindow packets ahead of the driver's counter, and the completions     *)
(* that wait when the firmware's status is served are of reads that were   *)
(* issued before it: the packets under way span at most two windows, and   *)
(* there are more structures than that.                                    *)
(*                                                                         *)
(* The reordering of block-ack sessions (RxQueue): stored packets are      *)
(* where they are looked for and are counted, the timer guards them, and   *)
(* an undisturbed session delivers in order, for any number of identifiers *)
(* and any array.  The argument is about the distance between the packet   *)
(* that the receiver expects and the sender's window: while nothing has    *)
(* disturbed the session it stays within a quarter of the sequence         *)
(* numbers, so that comparing numbers that wrap around compares packets,   *)
(* and a stored packet is as far from the expected one as its slot is from *)
(* the start of the array.                                                 *)
(***************************************************************************)
EXTENDS RxXfer, RxQueue, FiniteSetTheorems, WellFoundedInduction, TLAPS

------------------------------------------------------------------------------
(* The inductive invariant.                                                *)

\* The packets of every structure.
Pkts == [i \in Index |-> aTxnStruct[i].pkts]

\* Packets whose reads have been issued; those that follow are being aggregated.
Issued == uDrvRxCntr - Len(aggreg)

\* How many structures were used since this one was, it included.
Behind == [i \in Index |-> IF i < uCurrTxnIndex THEN uCurrTxnIndex - i
                                                ELSE uCurrTxnIndex - i + NumTxn]

CountersOK ==
  /\ fwDrv <= Issued /\ uDrvRxCntr <= uFwRxCntr
  /\ uFwRxCntr <= fwCntr /\ fwCntr <= fwDrv + FwWindow

AggregOK ==
  /\ pc = "idle" => aggreg = <<>>
  /\ \A k \in 1 .. Len(aggreg) : aggreg[k] = Issued + k - 1

StatusOK ==
  /\ stat = NoStatus /\ ~irq => uFwRxCntr = fwCntr
  /\ stat \in Nat => /\ uFwRxCntr <= stat /\ stat <= fwCntr /\ (~irq => stat = fwCntr)
                     /\ \E a \in 1 .. Len(done) : done[a] = Status
  /\ \A a \in 1 .. Len(done) : done[a] = Status => stat \in Nat
  /\ \A a, b \in 1 .. Len(done) : done[a] = Status /\ done[b] = Status => a = b

\* How far the firmware's counter, as the driver knows it, may be ahead of a packet
\* under way: a second window once the status of this round has been served.
Ahead == IF turn = "FwEvent" \/ stat # NoStatus THEN FwWindow ELSE 2 * FwWindow

\* The structures that are as those of reads under way should be: their packets were
\* issued as long ago as the structure was used.
Sound ==
  {i \in Index :
     /\ Pkts[i] # <<>>
     /\ \A k \in 1 .. Len(Pkts[i]) :
          /\ Pkts[i][k] <= Pkts[i][Len(Pkts[i])]
          /\ Pkts[i][k] + Behind[i] <= Issued
          /\ uFwRxCntr <= Pkts[i][k] + Ahead
     /\ \/ aTxnStruct[i].buf = "host"
        \/ /\ aTxnStruct[i].cb = "PktDrop"
           /\ \A k \in 1 .. Len(Pkts[i]) : Pkts[i][k] \in dropped}

SlotsOK ==
  /\ \A a \in 1 .. Len(bus) : bus[a] \in Sound
  /\ \A a \in 1 .. Len(done) : done[a] # Status => done[a] \in Sound

\* The pairs of structures whose packets come one before the other.
Before ==
  {ij \in Index \X Index :
     \A k \in 1 .. Len(Pkts[ij[1]]), m \in 1 .. Len(Pkts[ij[2]]) : Pkts[ij[1]][k] < Pkts[ij[2]][m]}

BusOK ==
  /\ \A a \in 1 .. Len(bus) : \A k \in 1 .. Len(Pkts[bus[a]]) :
       fwDrv <= Pkts[bus[a]][k] /\ Pkts[bus[a]][k] + Len(bus) - a < Issued
  /\ \A a, b \in 1 .. Len(bus) : a < b => <<bus[a], bus[b]>> \in Before

\* The completions that the status is behind.
Leading == {a \in 1 .. Len(done) : \E b \in 1 .. Len(done) : a < b /\ done[b] = Status}

DoneOK ==
  /\ \A a \in 1 .. Len(done) : done[a] # Status => \A k \in 1 .. Len(Pkts[done[a]]) :
       /\ Pkts[done[a]][k] < fwDrv
       /\ Pkts[done[a]][k] + Len(done) - a + Len(bus) + (IF a \in Leading THEN 0 ELSE 1) <= Issued
  /\ \A a, b \in 1 .. Len(done) : a < b /\ done[a] # Status /\ done[b] # Status =>
       <<done[a], done[b]>> \in Before

CountOK ==
  ~recover => uAvailableTxn + Len(bus) + Len(done) = NumTxn - (IF stat \in Nat THEN 0 ELSE 1)

LeftOK == ~recover /\ pc = "idle" => uDrvRxCntr = uFwRxCntr \/ bPendingBuffer

PassedOn == forwarded \cup dropped \cup failed \cup swallowed

UnderWay ==
  {p \in Packet :
     \/ \E k \in 1 .. Len(aggreg) : aggreg[k] = p
     \/ \E a \in 1 .. Len(bus) : \E k \in 1 .. Len(Pkts[bus[a]]) : Pkts[bus[a]][k] = p
     \/ \E a \in 1 .. Len(done) : /\ done[a] # Status
                                  /\ \E k \in 1 .. Len(Pkts[done[a]]) : Pkts[done[a]][k] = p}

AccountOK == \A p \in Packet : p < uDrvRxCntr <=> p \in PassedOn \/ p \in UnderWay

IndInv ==
  /\ TypeOK /\ CountersOK /\ AggregOK /\ StatusOK
  /\ SlotsOK /\ BusOK /\ DoneOK /\ CountOK /\ LeftOK /\ AccountOK

------------------------------------------------------------------------------
(* Lemmas.                                                                 *)

LEMMA AppendFacts ==
  ASSUME NEW S, NEW s \in Seq(S), NEW e \in S
  PROVE  /\ Append(s, e) \in Seq(S) /\ Len(Append(s, e)) = Len(s) + 1 /\ Len(s) \in Nat
         /\ \A a \in 1 .. Len(s) : Append(s, e)[a] = s[a]
         /\ Append(s, e)[Len(s) + 1] = e
OBVIOUS

LEMMA TailFacts ==
  ASSUME NEW S, NEW s \in Seq(S), s # <<>>
  PROVE  /\ Len(s) \in Nat /\ Len(s) >= 1 /\ Head(s) = s[1] /\ Head(s) \in S
         /\ Tail(s) \in Seq(S) /\ Len(Tail(s)) = Len(s) - 1
         /\ \A a \in 1 .. Len(s) - 1 : Tail(s)[a] = s[a + 1]
OBVIOUS

LEMMA Typed ==
  ASSUME TypeOK
  PROVE  /\ bus \in Seq(Index) /\ done \in Seq(Index \cup {Status}) /\ aggreg \in Seq(Packet)
         /\ Len(bus) \in Nat /\ Len(done) \in Nat /\ Len(aggreg) \in Nat /\ Issued \in Int
         /\ \A a \in 1 .. Len(bus) : bus[a] \in Index
         /\ \A a \in 1 .. Len(done) : done[a] # Status => done[a] \in Index
         /\ \A i \in Index : /\ Pkts[i] \in Seq(Packet) /\ Len(Pkts[i]) \in Nat
                             /\ \A k \in 1 .. Len(Pkts[i]) : Pkts[i][k] \in Packet /\ Pkts[i][k] \in Nat
         /\ \A k \in 1 .. Len(aggreg) : aggreg[k] \in Packet
         /\ fwDrv \in Nat /\ fwCntr \in Nat /\ uFwRxCntr \in Nat /\ uDrvRxCntr \in Nat
         /\ Packet \subseteq Nat /\ Index \subseteq Nat /\ Status \in Nat /\ Status \notin Index
<1> USE RxXferAssumption DEF TypeOK
<1>1. /\ Packet \subseteq Nat /\ Index \subseteq Nat /\ Status \in Nat /\ Status \notin Index
  BY DEF Packet, Index, Status
<1>2. Len(bus) \in Nat /\ Len(done) \in Nat /\ Len(aggreg) \in Nat
  OBVIOUS
<1>7. bus \in Seq(Index) /\ done \in Seq(Index \cup {Status}) /\ aggreg \in Seq(Packet)
  OBVIOUS
<1>3. Issued \in Int
  BY <1>2 DEF Issued
<1>4. /\ \A a \in 1 .. Len(bus) : bus[a] \in Index
      /\ \A a \in 1 .. Len(done) : done[a] # Status => done[a] \in Index
      /\ \A k \in 1 .. Len(aggreg) : aggreg[k] \in Packet
  OBVIOUS
<1>5. \A i \in Index : /\ Pkts[i] \in Seq(Packet) /\ Len(Pkts[i]) \in Nat
                       /\ \A k \in 1 .. Len(Pkts[i]) : Pkts[i][k] \in Packet
  <2> TAKE i \in Index
  <2>1. Pkts[i] \in Seq(Packet)
    BY DEF Pkts
  <2> QED BY <2>1
<1>6. fwDrv \in Nat /\ fwCntr \in Nat /\ uFwRxCntr \in Nat /\ uDrvRxCntr \in Nat
  OBVIOUS
<1> HIDE DEF TypeOK
<1> QED BY <1>1, <1>2, <1>3, <1>4, <1>5, <1>6, <1>7

\* What a transaction structure may be.
Struct == [pkts : Seq(Packet), cb : {"TxnDone", "PktDrop"}, buf : {"none", "host", "dummy"}]

LEMMA StructKept ==
  ASSUME NEW t \in Struct, NEW q \in Seq(Packet), NEW c \in {"TxnDone", "PktDrop"},
         NEW b \in {"none", "host", "dummy"}
  PROVE  /\ [t EXCEPT !.cb = c, !.pkts = q, !.buf = b] \in Struct
         /\ [t EXCEPT !.cb = c, !.pkts = q] \in Struct
         /\ [t EXCEPT !.buf = b, !.pkts = q] \in Struct
         /\ [t EXCEPT !.pkts = q, !.buf = b] \in Struct
         /\ [pkts |-> q, cb |-> c, buf |-> b] \in Struct
<1> DEFINE S == Seq(Packet)
           R == [pkts : S, cb : {"TxnDone", "PktDrop"}, buf : {"none", "host", "dummy"}]
<1>1. Struct = R /\ q \in S /\ t \in R
  BY DEF Struct
<1> HIDE DEF S
<1>2. /\ [t EXCEPT !.cb = c, !.pkts = q, !.buf = b] \in R
      /\ [t EXCEPT !.cb = c, !.pkts = q] \in R
      /\ [t EXCEPT !.buf = b, !.pkts = q] \in R
      /\ [t EXCEPT !.pkts = q, !.buf = b] \in R
      /\ [pkts |-> q, cb |-> c, buf |-> b] \in R
  BY <1>1
<1> HIDE DEF R
<1> QED BY <1>1, <1>2

\* What the properties call held is what is under way.
LEMMA HeldIsUnderWay ==
  ASSUME TypeOK
  PROVE  Held = UnderWay
<1>1. \A i : i \in Pending <=> \/ \E a \in 1 .. Len(bus) : i = bus[a]
                               \/ \E a \in 1 .. Len(done) : i = done[a] /\ done[a] # Status
  BY DEF Pending, Elems
<1>2. \A i \in Pending : i \in Index
  <2>1. /\ \A a \in 1 .. Len(bus) : bus[a] \in Index
        /\ \A a \in 1 .. Len(done) : done[a] # Status => done[a] \in Index
    BY Typed
  <2> TAKE i \in Pending
  <2> QED BY <1>1, <2>1
<1>3. \A i \in Index : Elems(aTxnStruct[i].pkts) = {Pkts[i][k] : k \in 1 .. Len(Pkts[i])}
  BY DEF Elems, Pkts
<1>4. \A p : p \in Held <=> \/ \E k \in 1 .. Len(aggreg) : p = aggreg[k]
                            \/ \E i \in Pending : p \in Elems(aTxnStruct[i].pkts)
  BY DEF Held, Elems
<1>5. \A p : p \in Held <=> \/ \E k \in 1 .. Len(aggreg) : p = aggreg[k]
                            \/ \E i \in Pending : \E k \in 1 .. Len(Pkts[i]) : p = Pkts[i][k]
  <2>1. \A i \in Pending : \A p : p \in Elems(aTxnStruct[i].pkts) <=>
                                  \E k \in 1 .. Len(Pkts[i]) : p = Pkts[i][k]
    BY <1>2, <1>3, Zenon
  <2> TAKE p
  <2>2. (\E i \in Pending : p \in Elems(aTxnStruct[i].pkts)) <=>
        (\E i \in Pending : \E k \in 1 .. Len(Pkts[i]) : p = Pkts[i][k])
    <3>1. ASSUME NEW i \in Pending
          PROVE  p \in Elems(aTxnStruct[i].pkts) <=> \E k \in 1 .. Len(Pkts[i]) : p = Pkts[i][k]
      BY <2>1
    <3> QED BY <3>1
  <2> QED BY <2>2, <1>4
<1>6. \A p : p \in Held => p \in Packet
  <2>1. /\ \A k \in 1 .. Len(aggreg) : aggreg[k] \in Packet
        /\ \A i \in Index : \A k \in 1 .. Len(Pkts[i]) : Pkts[i][k] \in Packet
    BY Typed
  <2> SUFFICES ASSUME NEW p \in Held PROVE p \in Packet
    OBVIOUS
  <2>2. CASE \E k \in 1 .. Len(aggreg) : p = aggreg[k]
    BY <2>1, <2>2
  <2>3. CASE \E i \in Pending : \E k \in 1 .. Len(Pkts[i]) : p = Pkts[i][k]
    BY <1>2, <2>1, <2>3
  <2> QED BY <1>5, <2>2, <2>3
<1>7. \A p : (\E i \in Pending : \E k \in 1 .. Len(Pkts[i]) : p = Pkts[i][k]) <=>
            \/ \E a \in 1 .. Len(bus) : \E k \in 1 .. Len(Pkts[bus[a]]) : Pkts[bus[a]][k] = p
            \/ \E a \in 1 .. Len(done) : /\ done[a] # Status
                                         /\ \E k \in 1 .. Len(Pkts[done[a]]) : Pkts[done[a]][k] = p
  <2> TAKE p
  <2>1. ASSUME NEW i \in Pending, \E k \in 1 .. Len(Pkts[i]) : p = Pkts[i][k]
        PROVE  \/ \E a \in 1 .. Len(bus) : \E k \in 1 .. Len(Pkts[bus[a]]) : Pkts[bus[a]][k] = p
               \/ \E a \in 1 .. Len(done) : /\ done[a] # Status
                                            /\ \E k \in 1 .. Len(Pkts[done[a]]) : Pkts[done[a]][k] = p
    <3>1. \/ \E a \in 1 .. Len(bus) : i = bus[a]
          \/ \E a \in 1 .. Len(done) : i = done[a] /\ done[a] # Status
      BY <1>1
    <3> QED BY <2>1, <3>1
  <2>2. ASSUME NEW a \in 1 .. Len(bus), \E k \in 1 .. Len(Pkts[bus[a]]) : Pkts[bus[a]][k] = p
        PROVE  \E i \in Pending : \E k \in 1 .. Len(Pkts[i]) : p = Pkts[i][k]
    <3>1. bus[a] \in Pending
      BY <1>1
    <3> QED BY <2>2, <3>1
  <2>3. ASSUME NEW a \in 1 .. Len(done), done[a] # Status,
               \E k \in 1 .. Len(Pkts[done[a]]) : Pkts[done[a]][k] = p
        PROVE  \E i \in Pending : \E k \in 1 .. Len(Pkts[i]) : p = Pkts[i][k]
    <3>1. done[a] \in Pending
      BY <1>1, <2>3
    <3> QED BY <2>3, <3>1
  <2> QED BY <2>1, <2>2, <2>3
<1>8. \A p : p \in UnderWay <=> p \in Held
  BY <1>5, <1>6, <1>7 DEF UnderWay
<1> QED BY <1>8

LEMMA NextIndexValue ==
  ASSUME NEW i \in Index
  PROVE  NextIndex(i) = IF i = NumTxn - 1 THEN 0 ELSE i + 1
<1>1. CASE i = NumTxn - 1
  BY <1>1, RxXferAssumption DEF NextIndex, Index
<1>2. CASE i # NumTxn - 1
  BY <1>2, RxXferAssumption DEF NextIndex, Index
<1> QED BY <1>1, <1>2

LEMMA DivMod ==
  ASSUME NEW n \in Nat \ {0}, NEW a \in Int
  PROVE  a % n \in 0 .. n - 1 /\ a \div n \in Int /\ a = n * (a \div n) + (a % n)
OBVIOUS

\* Counters less than a cycle apart are equal when they are equal modulo the cycle.
LEMMA ModEqual ==
  ASSUME NEW n \in Nat \ {0}, NEW a \in Int, NEW b \in Int, a <= b, b < a + n, a % n = b % n
  PROVE  a = b
<1> DEFINE x == a \div n
           y == b \div n
           r == a % n
<1>1. a = n * x + r /\ x \in Int /\ r \in 0 .. n - 1
  BY DivMod
<1>2. b = n * y + r /\ y \in Int
  BY DivMod
<1> HIDE DEF x, y, r
<1>3. n * x <= n * y /\ n * y < n * x + n
  BY <1>1, <1>2
<1>4. ~ (x < y)
  <2> SUFFICES ASSUME x < y PROVE FALSE
    OBVIOUS
  <2>1. n * y >= n * (x + 1)
    BY <1>1, <1>2
  <2> QED BY <2>1, <1>3, <1>1, <1>2
<1>5. ~ (y < x)
  <2> SUFFICES ASSUME y < x PROVE FALSE
    OBVIOUS
  <2>1. n * x >= n * (y + 1)
    BY <1>1, <1>2
  <2> QED BY <2>1, <1>3, <1>1, <1>2
<1> QED BY <1>1, <1>2, <1>4, <1>5

\* A structure stays as it should when nothing that concerns it changes.
LEMMA SoundKept ==
  ASSUME NEW i \in Sound, aTxnStruct'[i] = aTxnStruct[i], dropped \subseteq dropped',
         \A k \in 1 .. Len(Pkts[i]) : Pkts[i][k] + Behind'[i] <= Issued',
         \A k \in 1 .. Len(Pkts[i]) : uFwRxCntr' <= Pkts[i][k] + Ahead'
  PROVE  i \in Sound' /\ Pkts'[i] = Pkts[i]
<1>1. i \in Index /\ Pkts'[i] = Pkts[i]
  BY DEF Sound, Pkts
<1> QED BY <1>1 DEF Sound

LEMMA PktsKept ==
  ASSUME aTxnStruct' = aTxnStruct
  PROVE  Pkts' = Pkts /\ Before' = Before
BY DEF Pkts, Before

LEMMA AllSoundKept ==
  ASSUME UNCHANGED <<aTxnStruct, uCurrTxnIndex, uDrvRxCntr, aggreg, uFwRxCntr, dropped>>,
         Ahead' = Ahead
  PROVE  Sound' = Sound
<1>1. Pkts' = Pkts /\ Behind' = Behind /\ Issued' = Issued
  BY DEF Pkts, Behind, Issued
<1> QED BY <1>1 DEF Sound

LEMMA UnderWayKept ==
  ASSUME UNCHANGED <<aTxnStruct, aggreg, bus, done>>
  PROVE  UnderWay' = UnderWay
<1>1. Pkts' = Pkts
  BY DEF Pkts
<1> QED BY <1>1 DEF UnderWay

LEMMA InitInv == Init => IndInv
<1> SUFFICES ASSUME Init PROVE IndInv
  OBVIOUS
<1> USE RxXferAssumption DEF Init
<1>1. TypeOK
  <2>1. Fresh \in [pkts : Seq(Packet), cb : {"TxnDone", "PktDrop"}, buf : {"none", "host", "dummy"}]
    BY DEF Fresh
  <2>2. aTxnStruct \in [Index -> [pkts : Seq(Packet), cb : {"TxnDone", "PktDrop"},
                                  buf : {"none", "host", "dummy"}]]
    BY <2>1
  <2>3. bus \in Seq(Index) /\ done \in Seq(Index \cup {Status}) /\ aggreg \in Seq(Packet)
    OBVIOUS
  <2>4. uCurrTxnIndex \in Index /\ uAvailableTxn \in Int
    BY DEF Index
  <2>5. stat \in {NoStatus, OnBus} \cup 0 .. MaxPkts
    OBVIOUS
  <2>6. /\ uFwRxCntr \in 0 .. MaxPkts /\ uDrvRxCntr \in 0 .. MaxPkts /\ fwCntr \in 0 .. MaxPkts
        /\ fwDrv \in 0 .. MaxPkts /\ errors \in 0 .. MaxErrors /\ restarts \in 0 .. MaxRestarts
    OBVIOUS
  <2> QED BY <2>2, <2>3, <2>4, <2>5, <2>6 DEF TypeOK
<1>2. bus = <<>> /\ done = <<>> /\ aggreg = <<>> /\ Len(bus) = 0 /\ Len(done) = 0 /\ Len(aggreg) = 0
  OBVIOUS
<1>3. CountersOK /\ AggregOK /\ StatusOK
  BY <1>2 DEF CountersOK, AggregOK, StatusOK, Issued, NoStatus
<1>4. SlotsOK /\ BusOK /\ DoneOK
  BY <1>2 DEF SlotsOK, BusOK, DoneOK
<1>5. CountOK /\ LeftOK
  BY <1>2 DEF CountOK, LeftOK, NoStatus
<1>6. AccountOK
  BY <1>2 DEF AccountOK, UnderWay, PassedOn, Packet
<1> QED BY <1>1, <1>3, <1>4, <1>5, <1>6 DEF IndInv

------------------------------------------------------------------------------
(* The firmware and the bus.                                               *)

LEMMA FwRxPacketStep ==
  ASSUME IndInv, FwRxPacket
  PROVE  IndInv'
<1> USE RxXferAssumption DEF FwRxPacket, modVars, runVars, busVars, pktVars, lifeVars
<1>0. TypeOK /\ CountersOK /\ StatusOK
  BY DEF IndInv
<1>1. TypeOK'
  BY <1>0 DEF TypeOK
<1>2. CountersOK'
  BY <1>0, Typed DEF CountersOK, Issued, TypeOK
<1>3. AggregOK'
  BY DEF IndInv, AggregOK, Issued
<1>4. StatusOK'
  BY <1>0 DEF StatusOK, TypeOK, NoStatus, OnBus
<1>5. SlotsOK'
  <2>1. Sound' = Sound
    BY AllSoundKept DEF Ahead
  <2> QED BY <2>1 DEF IndInv, SlotsOK
<1>6. BusOK' /\ DoneOK'
  <2>1. Pkts' = Pkts /\ Before' = Before /\ Leading' = Leading /\ Issued' = Issued
    BY PktsKept DEF Leading, Issued
  <2> QED BY <2>1 DEF IndInv, BusOK, DoneOK
<1>7. CountOK' /\ LeftOK'
  BY DEF IndInv, CountOK, LeftOK
<1>8. AccountOK'
  BY UnderWayKept DEF IndInv, AccountOK, PassedOn
<1> QED BY <1>1, <1>2, <1>3, <1>4, <1>5, <1>6, <1>7, <1>8 DEF IndInv

LEMMA BusStatusStep ==
  ASSUME IndInv, BusStatus
  PROVE  IndInv'
<1> USE RxXferAssumption DEF BusStatus, modVars, runVars, pktVars, lifeVars
<1>0. TypeOK /\ CountersOK /\ StatusOK
  BY DEF IndInv
<1>a. /\ done' \in Seq(Index \cup {Status}) /\ Len(done') = Len(done) + 1 /\ Len(done) \in Nat
      /\ \A a \in 1 .. Len(done) : done'[a] = done[a]
      /\ done'[Len(done) + 1] = Status
  BY <1>0, AppendFacts DEF TypeOK
<1>b. stat = OnBus /\ stat' = fwCntr /\ stat \notin Nat /\ stat' \in Nat /\ stat # NoStatus
  BY <1>0 DEF TypeOK, NoStatus, OnBus
<1>c. \A a \in 1 .. Len(done) : done[a] # Status
  BY <1>0, <1>b DEF StatusOK
<1>d. Issued' = Issued /\ Pkts' = Pkts /\ Before' = Before
  BY PktsKept DEF Issued
<1>1. TypeOK'
  BY <1>0, <1>a DEF TypeOK
<1>2. CountersOK' /\ AggregOK'
  BY DEF IndInv, CountersOK, AggregOK, Issued
<1>4. StatusOK'
  BY <1>0, <1>a, <1>b, <1>c DEF StatusOK, CountersOK, TypeOK, NoStatus, OnBus
<1>5. SlotsOK'
  <2>1. Sound' = Sound
    <3>1. Ahead' = Ahead
      BY <1>b DEF Ahead, NoStatus
    <3> QED BY <3>1, AllSoundKept
  <2> QED BY <2>1, <1>a DEF IndInv, SlotsOK
<1>6. BusOK'
  BY <1>d DEF IndInv, BusOK
<1>7. DoneOK'
  <2>1. \A a \in 1 .. Len(done) : a \notin Leading /\ a \in Leading'
    BY <1>a, <1>c DEF Leading
  <2>2. \A a \in 1 .. Len(done') : done'[a] # Status => a \in 1 .. Len(done) /\ done'[a] = done[a]
    BY <1>a
  <2>3. \A a \in 1 .. Len(done) : Len(done') - a + Len(bus') + 0 = Len(done) - a + Len(bus) + 1
    BY <1>a, <1>0, Typed
  <2>4. \A a \in 1 .. Len(done') : done'[a] # Status => \A k \in 1 .. Len(Pkts'[done'[a]]) :
           /\ Pkts'[done'[a]][k] < fwDrv'
           /\ Pkts'[done'[a]][k] + Len(done') - a + Len(bus') + (IF a \in Leading' THEN 0 ELSE 1) <= Issued'
    <3> SUFFICES ASSUME NEW a \in 1 .. Len(done'), done'[a] # Status,
                        NEW k \in 1 .. Len(Pkts'[done'[a]])
                 PROVE  /\ Pkts'[done'[a]][k] < fwDrv'
                        /\ Pkts'[done'[a]][k] + Len(done') - a + Len(bus')
                           + (IF a \in Leading' THEN 0 ELSE 1) <= Issued'
      OBVIOUS
    <3>1. a \in 1 .. Len(done) /\ done'[a] = done[a] /\ done[a] \in Index
      BY <2>2, <1>0, Typed
    <3>2. Pkts[done[a]][k] \in Nat
      BY <3>1, <1>d, <1>0, Typed
    <3>3. /\ Pkts[done[a]][k] < fwDrv
          /\ Pkts[done[a]][k] + Len(done) - a + Len(bus) + (IF a \in Leading THEN 0 ELSE 1) <= Issued
      BY <3>1, <1>d DEF IndInv, DoneOK
    <3>4. Pkts'[done'[a]][k] = Pkts[done[a]][k]
      BY <3>1, <1>d
    <3>5. Len(bus) \in Nat /\ Len(done) \in Nat /\ a \in Nat /\ Issued \in Int /\ fwDrv \in Nat
      BY <1>0, <3>1, Typed DEF TypeOK
    <3>6. a \notin Leading /\ a \in Leading'
      BY <3>1, <2>1
    <3> DEFINE x == Pkts[done[a]][k]
    <3>7. x < fwDrv /\ x + Len(done) - a + Len(bus) + 1 <= Issued /\ x \in Nat
      BY <3>2, <3>3, <3>6
    <3> HIDE DEF x
    <3>8. x + Len(done') - a + Len(bus) + 0 <= Issued
      BY <3>5, <3>7, <1>a
    <3>9. Pkts'[done'[a]][k] = x
      BY <3>4 DEF x
    <3>10. bus' = bus /\ fwDrv' = fwDrv
      OBVIOUS
    <3> QED BY <3>6, <3>7, <3>8, <3>9, <3>10, <1>d
  <2> QED BY <2>2, <2>4, <1>a, <1>d DEF IndInv, DoneOK
<1>8. CountOK' /\ LeftOK'
  <2>1. uAvailableTxn \in Int /\ NumTxn \in Nat /\ Len(bus) \in Nat
    BY <1>0, Typed DEF TypeOK
  <2>2. CountOK /\ LeftOK
    BY DEF IndInv
  <2>3. CountOK'
    BY <1>a, <1>b, <2>1, <2>2 DEF CountOK
  <2>4. LeftOK'
    BY <2>2 DEF LeftOK
  <2> QED BY <2>3, <2>4
<1>9. AccountOK'
  <2>1. \A p \in Packet : p \in UnderWay' <=> p \in UnderWay
    <3>1. \A a \in 1 .. Len(done') : done'[a] # Status => a \in 1 .. Len(done) /\ done'[a] = done[a]
      BY <1>a
    <3>2. \A a \in 1 .. Len(done) : a \in 1 .. Len(done') /\ done'[a] = done[a]
      BY <1>a
    <3>3. UNCHANGED <<aggreg, bus, Pkts>>
      BY <1>d
    <3> QED BY <3>1, <3>2, <3>3 DEF UnderWay
  <2> QED BY <2>1 DEF IndInv, AccountOK, PassedOn
<1> QED BY <1>1, <1>2, <1>4, <1>5, <1>6, <1>7, <1>8, <1>9 DEF IndInv

LEMMA BehindPositive ==
  ASSUME TypeOK, NEW i \in Index
  PROVE  Behind[i] \in 1 .. NumTxn
BY RxXferAssumption DEF Behind, TypeOK, Index

LEMMA BusDoneStep ==
  ASSUME IndInv, BusDone
  PROVE  IndInv'
<1> DEFINE h == bus[1]
           final == Pkts[h][Len(Pkts[h])]
<1>0. TypeOK /\ CountersOK /\ StatusOK /\ SlotsOK /\ BusOK /\ DoneOK /\ CountOK
  BY DEF IndInv
<1>n. /\ Len(bus) \in Nat /\ Len(done) \in Nat /\ Issued \in Int
      /\ fwDrv \in Nat /\ fwCntr \in Nat /\ uFwRxCntr \in Nat /\ uDrvRxCntr \in Nat
  BY <1>0, Typed
<1>s. /\ bus \in Seq(Index) /\ done \in Seq(Index \cup {Status})
      /\ \A a \in 1 .. Len(bus) : bus[a] \in Index
      /\ \A a \in 1 .. Len(done) : done[a] # Status => done[a] \in Index
      /\ Status \notin Index
  BY <1>0, Typed
<1>p. \A i \in Index : /\ Pkts[i] \in Seq(Packet) /\ Len(Pkts[i]) \in Nat
                       /\ \A k \in 1 .. Len(Pkts[i]) : Pkts[i][k] \in Packet /\ Pkts[i][k] \in Nat
  BY <1>0, Typed
<1>b. /\ bus # <<>> /\ Len(bus) >= 1 /\ h \in Index /\ Head(bus) = h
      /\ bus' \in Seq(Index) /\ Len(bus') = Len(bus) - 1
      /\ \A a \in 1 .. Len(bus) - 1 : bus'[a] = bus[a + 1]
  BY <1>n, <1>s, <1>p, TailFacts DEF BusDone
<1>u. UNCHANGED <<modVars, runVars, turn, fwCntr, irq, stat, forwarded, dropped, swallowed, restarts>>
  BY DEF BusDone
<1>d. Issued' = Issued /\ Pkts' = Pkts /\ Before' = Before /\ Sound' = Sound
  <2>1. Ahead' = Ahead
    BY <1>u DEF Ahead
  <2> QED BY <1>u, <2>1, PktsKept, AllSoundKept DEF Issued, modVars, runVars
<1>h. /\ Len(Pkts[h]) \in Nat /\ Len(Pkts[h]) >= 1 /\ final \in Packet /\ final \in Nat
      /\ \A k \in 1 .. Len(Pkts[h]) : Pkts[h][k] <= final /\ fwDrv <= Pkts[h][k]
      /\ final < Issued
  <2>1. h \in Sound
    BY <1>0, <1>b, <1>n, <1>s, <1>p DEF SlotsOK
  <2>2. Pkts[h] \in Seq(Packet) /\ Pkts[h] # <<>> /\ Len(Pkts[h]) \in Nat
    BY <1>0, <1>b, <2>1, Typed DEF Sound
  <2>3. Len(Pkts[h]) >= 1
    BY <2>2
  <2>4. final \in Packet /\ final \in Nat
    BY <2>2, <2>3, <1>b, <1>p
  <2>5. \A k \in 1 .. Len(Pkts[h]) : Pkts[h][k] <= final /\ Pkts[h][k] + Behind[h] <= Issued
    BY <2>1 DEF Sound
  <2>6. final + Behind[h] <= Issued
    BY <2>3, <2>5
  <2>7. Behind[h] \in Nat /\ Behind[h] >= 1
    BY <1>0, <1>b, BehindPositive, RxXferAssumption
  <2>8. \A k \in 1 .. Len(Pkts[h]) : fwDrv <= Pkts[h][k]
    BY <1>0, <1>b, <1>n, <1>s, <1>p DEF BusOK
  <2>9. final < Issued
    BY <2>4, <2>6, <2>7, <1>n
  <2> QED BY <2>2, <2>3, <2>4, <2>5, <2>8, <2>9
<1>f. fwDrv' = final + 1
  BY <1>b DEF BusDone, LastOf, Pkts
<1> HIDE DEF final
<1>i. fwDrv' \in Nat /\ fwDrv <= fwDrv' /\ fwDrv' <= Issued /\ fwDrv <= final + 1
  <2>1. 1 \in 1 .. Len(Pkts[h])
    BY <1>h
  <2>2. fwDrv <= Pkts[h][1] /\ Pkts[h][1] <= final /\ Pkts[h][1] \in Nat
    BY <2>1, <1>h, <1>n, <1>s, <1>p, <1>b
  <2> QED BY <2>2, <1>h, <1>n, <1>s, <1>p, <1>f
<1>c. \/ /\ done' = Append(done, h)
         /\ UNCHANGED <<failed, recover, errors>>
      \/ /\ errors' \in 0 .. MaxErrors
         /\ failed' = failed \cup Elems(aTxnStruct[h].pkts)
         /\ recover' = TRUE
         /\ UNCHANGED done
  BY <1>b, <1>0, RxXferAssumption DEF BusDone, TypeOK
<1>e. Elems(aTxnStruct[h].pkts) = {Pkts[h][k] : k \in 1 .. Len(Pkts[h])}
  BY <1>b DEF Elems, Pkts
<1>g. /\ Len(done') + Len(bus') <= Len(done) + Len(bus) /\ Len(done') \in Nat
      /\ recover' \/ (Len(done') = Len(done) + 1 /\ recover' = recover)
      /\ Len(done) <= Len(done') /\ \A a \in 1 .. Len(done) : done'[a] = done[a]
      /\ \A a \in Len(done) + 1 .. Len(done') : a = Len(done) + 1 /\ done'[a] = h /\ Len(done') = a
      /\ done' \in Seq(Index \cup {Status})
  <2>1. CASE done' = Append(done, h)
    <3>1. h \in Index \cup {Status}
      BY <1>b
    <3>2. /\ done' \in Seq(Index \cup {Status}) /\ Len(done') = Len(done) + 1
          /\ \A a \in 1 .. Len(done) : done'[a] = done[a]
          /\ done'[Len(done) + 1] = h
      BY <2>1, <3>1, <1>n, <1>s, <1>p, AppendFacts
    <3> QED BY <3>2, <1>n, <1>s, <1>p, <1>b, <1>c
  <2>2. CASE UNCHANGED done /\ recover'
    BY <2>2, <1>n, <1>s, <1>p, <1>b
  <2> QED BY <1>c, <2>1, <2>2
<1>1. TypeOK'
  <2>0. Elems(aTxnStruct[h].pkts) \subseteq Packet
    BY <1>e, <1>n, <1>s, <1>p, <1>b
  <2>1. failed' \in SUBSET Packet /\ recover' \in BOOLEAN /\ errors' \in 0 .. MaxErrors
    BY <1>0, <1>c, <2>0 DEF TypeOK
  <2>2. fwDrv' \in 0 .. MaxPkts
    BY <1>f, <1>h, RxXferAssumption DEF Packet
  <2> QED BY <1>0, <1>b, <1>g, <1>u, <2>1, <2>2 DEF TypeOK, modVars, runVars
<1>2. CountersOK' /\ AggregOK'
  <2>1. CountersOK'
    <3>1. FwWindow \in Nat
      BY RxXferAssumption
    <3>2. UNCHANGED <<uFwRxCntr, uDrvRxCntr, fwCntr>>
      BY <1>u DEF modVars
    <3>3. uDrvRxCntr <= uFwRxCntr /\ uFwRxCntr <= fwCntr /\ fwCntr <= fwDrv + FwWindow
      BY <1>0 DEF CountersOK
    <3>4. fwCntr <= fwDrv' + FwWindow
      BY <3>1, <3>3, <1>i, <1>f, <1>h, <1>n
    <3> QED BY <1>d, <1>i, <3>2, <3>3, <3>4 DEF CountersOK
  <2>2. AggregOK'
    BY <1>d, <1>u DEF IndInv, AggregOK, runVars
  <2> QED BY <2>1, <2>2
<1>3. StatusOK'
  <2>1. UNCHANGED <<uFwRxCntr, fwCntr, stat, irq>>
    BY <1>u DEF modVars
  <2>2. \A a \in 1 .. Len(done') : done'[a] = Status => a \in 1 .. Len(done) /\ done[a] = Status
    BY <1>g, <1>n, <1>b, <1>s
  <2>3. 1 .. Len(done) \subseteq 1 .. Len(done')
    BY <1>g, <1>n
  <2> QED BY <1>0, <1>g, <2>1, <2>2, <2>3 DEF StatusOK
<1>4. SlotsOK'
  <2>1. \A a \in 1 .. Len(bus') : bus'[a] \in Sound
    <3>1. \A a \in 1 .. Len(bus') : a + 1 \in 1 .. Len(bus) /\ bus'[a] = bus[a + 1]
      BY <1>b, <1>n
    <3>2. \A a \in 1 .. Len(bus) : bus[a] \in Sound
      BY <1>0 DEF SlotsOK
    <3> QED BY <3>1, <3>2
  <2>2. \A a \in 1 .. Len(done') : done'[a] # Status => done'[a] \in Sound
    <3>1. h \in Sound /\ \A a \in 1 .. Len(done) : done[a] # Status => done[a] \in Sound
      BY <1>0, <1>b, <1>n DEF SlotsOK
    <3>2. \A a \in 1 .. Len(done') : a \in 1 .. Len(done) \/ a \in Len(done) + 1 .. Len(done')
      BY <1>g, <1>n
    <3> QED BY <3>1, <3>2, <1>g
  <2> QED BY <2>1, <2>2, <1>d DEF SlotsOK
<1>5. BusOK'
  <2>1. ASSUME NEW a \in 1 .. Len(bus'), NEW k \in 1 .. Len(Pkts[bus'[a]])
        PROVE  fwDrv' <= Pkts[bus'[a]][k] /\ Pkts[bus'[a]][k] + Len(bus') - a < Issued
    <3>1. a + 1 \in 1 .. Len(bus) /\ 1 \in 1 .. Len(bus) /\ 1 < a + 1 /\ bus'[a] = bus[a + 1] /\ a \in Nat
      BY <1>b, <1>n, <1>s, <1>p
    <3>2. Pkts[bus[a + 1]][k] + Len(bus) - (a + 1) < Issued /\ Pkts[bus[a + 1]][k] \in Nat
      BY <3>1, <1>0, <1>n, <1>s, <1>p DEF BusOK
    <3>3. <<h, bus[a + 1]>> \in Before
      BY <3>1, <1>0 DEF BusOK
    <3>4. final < Pkts[bus[a + 1]][k]
      <4>1. Len(Pkts[h]) \in 1 .. Len(Pkts[h]) /\ bus[a + 1] \in Index
        BY <1>h, <3>1, <1>s
      <4>2. \A x \in 1 .. Len(Pkts[h]), y \in 1 .. Len(Pkts[bus[a + 1]]) : Pkts[h][x] < Pkts[bus[a + 1]][y]
        BY <3>3 DEF Before
      <4> QED BY <4>1, <4>2, <3>1 DEF final
    <3> DEFINE x == Pkts[bus[a + 1]][k]
    <3>5. x \in Nat /\ x + Len(bus) - (a + 1) < Issued /\ final < x /\ final \in Nat /\ Pkts[bus'[a]][k] = x
      BY <3>1, <3>2, <3>4, <1>h
    <3> HIDE DEF x
    <3>6. final + 1 <= x /\ x + Len(bus') - a < Issued
      <4>1. final + 1 <= x
        BY <3>5
      <4>2. Len(bus') = Len(bus) - 1 /\ a \in Nat
        BY <3>1, <1>b
      <4>3. x + (Len(bus) - 1) - a < Issued
        BY <3>5, <4>2, <1>n
      <4> QED BY <4>1, <4>2, <4>3
    <3> QED BY <3>5, <3>6, <1>f
  <2>2. \A a, b \in 1 .. Len(bus') : a < b => <<bus'[a], bus'[b]>> \in Before
    <3> SUFFICES ASSUME NEW a \in 1 .. Len(bus'), NEW b \in 1 .. Len(bus'), a < b
                 PROVE  <<bus'[a], bus'[b]>> \in Before
      OBVIOUS
    <3>1. /\ a + 1 \in 1 .. Len(bus) /\ bus'[a] = bus[a + 1]
          /\ b + 1 \in 1 .. Len(bus) /\ bus'[b] = bus[b + 1] /\ a + 1 < b + 1
      BY <1>b, <1>n
    <3> QED BY <3>1, <1>0 DEF BusOK
  <2> QED BY <2>1, <2>2, <1>d DEF BusOK
<1>6. DoneOK'
  <2>1. ASSUME NEW a \in 1 .. Len(done'), done'[a] # Status, NEW k \in 1 .. Len(Pkts[done'[a]])
        PROVE  /\ Pkts[done'[a]][k] < fwDrv'
               /\ Pkts[done'[a]][k] + Len(done') - a + Len(bus')
                  + (IF a \in Leading' THEN 0 ELSE 1) <= Issued
    <3>1. CASE a \in 1 .. Len(done)
      <4>1. done'[a] = done[a] /\ done[a] \in Index
        BY <3>1, <2>1, <1>g, <1>n, <1>s, <1>p
      <4>2. a \in Leading' <=> a \in Leading
        <5>1. \A b \in 1 .. Len(done') : done'[b] = Status => b \in 1 .. Len(done) /\ done[b] = Status
          <6>1. h # Status
            BY <1>b, <1>s
          <6>2. \A b \in 1 .. Len(done') : b \in 1 .. Len(done) \/ b \in Len(done) + 1 .. Len(done')
            BY <1>g, <1>n
          <6> QED BY <6>1, <6>2, <1>g
        <5>2. 1 .. Len(done) \subseteq 1 .. Len(done')
          BY <1>g, <1>n
        <5> QED BY <3>1, <5>1, <5>2, <1>g DEF Leading
      <4>3. /\ Pkts[done[a]][k] < fwDrv /\ Pkts[done[a]][k] \in Nat
            /\ Pkts[done[a]][k] + Len(done) - a + Len(bus) + (IF a \in Leading THEN 0 ELSE 1) <= Issued
        BY <3>1, <4>1, <2>1, <1>0, <1>n, <1>s, <1>p DEF DoneOK
      <4>4. Len(done') + Len(bus') <= Len(done) + Len(bus) /\ Len(done') \in Nat /\ Len(bus') \in Nat /\ a \in Nat
        BY <1>g, <1>b, <1>n
      <4>5. (IF a \in Leading' THEN 0 ELSE 1) = (IF a \in Leading THEN 0 ELSE 1)
        BY <4>2
      <4> DEFINE x == Pkts[done[a]][k]
                 e == IF a \in Leading THEN 0 ELSE 1
      <4>6. e \in Nat
        OBVIOUS
      <4> HIDE DEF x, e
      <4>7. x < fwDrv /\ x \in Nat /\ x + Len(done) - a + Len(bus) + e <= Issued
        BY <4>3 DEF x, e
      <4>8. x < fwDrv' /\ x + Len(done') - a + Len(bus') + e <= Issued
        BY <4>4, <4>6, <4>7, <1>i, <1>n
      <4> QED BY <4>1, <4>5, <4>8 DEF x, e
    <3>2. CASE a \notin 1 .. Len(done)
      <4>1. a = Len(done) + 1 /\ done'[a] = h /\ Len(done') = a
        BY <3>2, <1>g, <1>n, <1>s, <1>p
      <4>2. a \notin Leading'
        BY <4>1, <1>n, <1>s, <1>p DEF Leading
      <4>3. Pkts[h][k] <= final /\ Pkts[h][k] \in Nat /\ Pkts[h][k] + Len(bus) - 1 < Issued
        <5>1. 1 \in 1 .. Len(bus) /\ k \in 1 .. Len(Pkts[h])
          BY <4>1, <2>1, <1>b, <1>n
        <5>2. Pkts[h][k] + Len(bus) - 1 < Issued
          BY <5>1, <1>0 DEF BusOK
        <5> QED BY <5>1, <5>2, <1>h, <1>b, <1>p
      <4> DEFINE x == Pkts[h][k]
      <4>4. x <= final /\ x \in Nat /\ x + Len(bus) - 1 < Issued /\ final \in Nat
        BY <4>3, <1>h
      <4> HIDE DEF x
      <4>5. x < final + 1 /\ x + Len(done') - a + Len(bus') + 1 <= Issued
        BY <4>1, <4>4, <1>b, <1>n
      <4> QED BY <4>1, <4>2, <4>5, <1>f DEF x
    <3> QED BY <3>1, <3>2
  <2>2. ASSUME NEW a \in 1 .. Len(done'), NEW b \in 1 .. Len(done'), a < b,
               done'[a] # Status, done'[b] # Status
        PROVE  <<done'[a], done'[b]>> \in Before
    <3>1. a \in 1 .. Len(done) /\ done'[a] = done[a]
      BY <2>2, <1>g, <1>n, <1>s, <1>p
    <3>2. CASE b \in 1 .. Len(done)
      BY <3>1, <3>2, <2>2, <1>g, <1>0 DEF DoneOK
    <3>3. CASE b \notin 1 .. Len(done)
      <4>1. done'[b] = h /\ done[a] \in Index
        BY <3>1, <3>3, <2>2, <1>g, <1>n, <1>s, <1>p
      <4>2. \A k \in 1 .. Len(Pkts[done[a]]) : Pkts[done[a]][k] < fwDrv /\ Pkts[done[a]][k] \in Nat
        BY <3>1, <4>1, <2>2, <1>0, <1>n, <1>s, <1>p DEF DoneOK
      <4>3. \A k \in 1 .. Len(Pkts[done[a]]), m \in 1 .. Len(Pkts[h]) : Pkts[done[a]][k] < Pkts[h][m]
        <5>1. \A m \in 1 .. Len(Pkts[h]) : fwDrv <= Pkts[h][m] /\ Pkts[h][m] \in Nat
          BY <1>h, <1>b, <1>p
        <5> TAKE k \in 1 .. Len(Pkts[done[a]]), m \in 1 .. Len(Pkts[h])
        <5>2. Pkts[done[a]][k] < fwDrv /\ Pkts[done[a]][k] \in Nat /\ fwDrv <= Pkts[h][m] /\ Pkts[h][m] \in Nat
          BY <4>2, <5>1
        <5>3. \A x, y, z \in Nat : x < y /\ y <= z => x < z
          OBVIOUS
        <5>4. fwDrv \in Nat
          BY <1>n
        <5> QED BY <5>2, <5>3, <5>4
      <4> QED BY <3>1, <4>1, <4>3, <1>b DEF Before
    <3> QED BY <3>2, <3>3
  <2> QED BY <2>1, <2>2, <1>d DEF DoneOK
<1>7. CountOK' /\ LeftOK'
  <2>1. CountOK'
    <3>1. UNCHANGED <<uAvailableTxn, stat>> /\ uAvailableTxn \in Int /\ NumTxn \in Nat
      BY <1>u, <1>0, RxXferAssumption DEF modVars, TypeOK
    <3>2. CASE recover'
      BY <3>2 DEF CountOK
    <3>3. CASE ~recover'
      <4>1. Len(done') = Len(done) + 1 /\ recover' = recover /\ Len(bus') = Len(bus) - 1
        BY <3>3, <1>g, <1>b
      <4> QED BY <4>1, <3>1, <1>0, <1>n DEF CountOK
    <3> QED BY <3>2, <3>3
  <2>2. LeftOK'
    BY <1>g, <1>u DEF IndInv, LeftOK, modVars, runVars
  <2> QED BY <2>1, <2>2
<1>8. AccountOK'
  <2>1. ASSUME NEW p \in Packet PROVE p \in PassedOn' \/ p \in UnderWay' <=> p \in PassedOn \/ p \in UnderWay
    <3>1. ASSUME p \in UnderWay PROVE p \in UnderWay' \/ p \in failed'
      <4>1. CASE \E k \in 1 .. Len(aggreg) : aggreg[k] = p
        BY <4>1, <1>u DEF UnderWay, runVars
      <4>2. CASE \E a \in 1 .. Len(bus) : \E k \in 1 .. Len(Pkts[bus[a]]) : Pkts[bus[a]][k] = p
        <5> PICK a \in 1 .. Len(bus) : \E k \in 1 .. Len(Pkts[bus[a]]) : Pkts[bus[a]][k] = p
          BY <4>2
        <5>1. CASE a = 1
          <6>1. CASE done' = Append(done, h)
            <7>1. h \in Index \cup {Status}
              BY <1>b
            <7>2. Len(done) + 1 \in 1 .. Len(done') /\ done'[Len(done) + 1] = h /\ h # Status
              BY <6>1, <7>1, <1>n, <1>s, <1>p, <1>b, AppendFacts
            <7> QED BY <7>2, <5>1, <1>d DEF UnderWay
          <6>2. CASE failed' = failed \cup Elems(aTxnStruct[h].pkts)
            BY <6>2, <5>1, <1>e
          <6> QED BY <6>1, <6>2, <1>c
        <5>2. CASE a # 1
          <6>1. a - 1 \in 1 .. Len(bus') /\ bus'[a - 1] = bus[a]
            BY <5>2, <1>b, <1>n, <1>s, <1>p
          <6> QED BY <6>1, <1>d DEF UnderWay
        <5> QED BY <5>1, <5>2
      <4>3. CASE \E a \in 1 .. Len(done) : /\ done[a] # Status
                                           /\ \E k \in 1 .. Len(Pkts[done[a]]) : Pkts[done[a]][k] = p
        <5>1. 1 .. Len(done) \subseteq 1 .. Len(done')
          BY <1>g, <1>n
        <5> QED BY <4>3, <5>1, <1>g, <1>d DEF UnderWay
      <4> QED BY <3>1, <4>1, <4>2, <4>3 DEF UnderWay
    <3>2. ASSUME p \in UnderWay' PROVE p \in UnderWay
      <4>1. CASE \E k \in 1 .. Len(aggreg') : aggreg'[k] = p
        BY <4>1, <1>u DEF UnderWay, runVars
      <4>2. CASE \E a \in 1 .. Len(bus') : \E k \in 1 .. Len(Pkts[bus'[a]]) : Pkts[bus'[a]][k] = p
        <5>1. \A a \in 1 .. Len(bus') : a + 1 \in 1 .. Len(bus) /\ bus'[a] = bus[a + 1]
          BY <1>b, <1>n
        <5> QED BY <4>2, <5>1 DEF UnderWay
      <4>3. CASE \E a \in 1 .. Len(done') : /\ done'[a] # Status
                                            /\ \E k \in 1 .. Len(Pkts[done'[a]]) : Pkts[done'[a]][k] = p
        <5> PICK a \in 1 .. Len(done') : /\ done'[a] # Status
                                         /\ \E k \in 1 .. Len(Pkts[done'[a]]) : Pkts[done'[a]][k] = p
          BY <4>3
        <5>1. CASE a \in 1 .. Len(done)
          BY <5>1, <1>g DEF UnderWay
        <5>2. CASE a \notin 1 .. Len(done)
          <6>1. done'[a] = h /\ 1 \in 1 .. Len(bus)
            BY <5>2, <1>g, <1>b, <1>n
          <6> QED BY <6>1 DEF UnderWay
        <5> QED BY <5>1, <5>2
      <4> QED BY <3>2, <4>1, <4>2, <4>3, <1>d DEF UnderWay
    <3>3. ASSUME p \in failed' PROVE p \in failed \/ p \in UnderWay
      <4>1. CASE p \in {Pkts[h][k] : k \in 1 .. Len(Pkts[h])}
        <5>1. 1 \in 1 .. Len(bus)
          BY <1>b, <1>n
        <5> QED BY <4>1, <5>1 DEF UnderWay
      <4> QED BY <3>3, <4>1, <1>c, <1>e
    <3>4. failed \subseteq failed'
      BY <1>c
    <3> QED BY <3>1, <3>2, <3>3, <3>4, <1>u DEF PassedOn
  <2> QED BY <2>1, <1>u DEF IndInv, AccountOK, modVars
<1> QED BY <1>1, <1>2, <1>3, <1>4, <1>5, <1>6, <1>7, <1>8 DEF IndInv

------------------------------------------------------------------------------
(* The context engine's handlers.                                          *)

\* The reads under way are no more than the packets from the oldest of them on.
LEMMA FewUnderWay ==
  ASSUME IndInv,
         NEW n \in Int, n = Len(bus) + Len(done) - (IF stat \in Nat THEN 1 ELSE 0)
  PROVE  n <= 0 \/ \E p \in Nat : n + p <= Issued /\ uFwRxCntr <= p + Ahead
<1>0. TypeOK /\ StatusOK /\ SlotsOK /\ BusOK /\ DoneOK
  BY DEF IndInv
<1>n. Len(bus) \in Nat /\ Len(done) \in Nat /\ Issued \in Int
  BY <1>0, Typed
<1>p. ASSUME NEW i \in Sound
      PROVE  /\ 1 \in 1 .. Len(Pkts[i]) /\ Pkts[i][1] \in Nat /\ uFwRxCntr <= Pkts[i][1] + Ahead
  <2>1. i \in Index /\ Pkts[i] # <<>>
    BY DEF Sound
  <2>2. Pkts[i] \in Seq(Packet)
    BY <2>1, <1>0, Typed
  <2>3. 1 \in 1 .. Len(Pkts[i])
    BY <2>1, <2>2
  <2> QED BY <2>1, <2>3, <1>0, Typed DEF Sound
<1>1. ASSUME NEW a \in 1 .. Len(done), done[a] # Status,
             n <= Len(done) - a + Len(bus) + (IF a \in Leading THEN 0 ELSE 1)
      PROVE  \E p \in Nat : n + p <= Issued /\ uFwRxCntr <= p + Ahead
  <2>1. done[a] \in Sound
    BY <1>1, <1>0 DEF SlotsOK
  <2>2. 1 \in 1 .. Len(Pkts[done[a]]) /\ Pkts[done[a]][1] \in Nat /\ uFwRxCntr <= Pkts[done[a]][1] + Ahead
    BY <2>1, <1>p
  <2>3. Pkts[done[a]][1] + Len(done) - a + Len(bus) + (IF a \in Leading THEN 0 ELSE 1) <= Issued
    BY <2>2, <1>1, <1>0 DEF DoneOK
  <2>4. n + Pkts[done[a]][1] <= Issued
    <3> DEFINE e == IF a \in Leading THEN 0 ELSE 1
               p == Pkts[done[a]][1]
    <3>1. e \in Nat /\ a \in Nat /\ p \in Nat /\ p + Len(done) - a + Len(bus) + e <= Issued
      BY <2>2, <2>3, <1>n
    <3>2. n <= Len(done) - a + Len(bus) + e
      BY <1>1
    <3> HIDE DEF e, p
    <3>3. n + p <= Issued
      BY <3>1, <3>2, <1>n
    <3> QED BY <3>3 DEF p
  <2> QED BY <2>2, <2>4
<1>2. CASE done # <<>> /\ done[1] # Status
  <2>1. 1 \in 1 .. Len(done)
    BY <1>2, <1>0, Typed
  <2>2. stat \in Nat => 1 \in Leading
    <3> SUFFICES ASSUME stat \in Nat PROVE 1 \in Leading
      OBVIOUS
    <3> PICK b \in 1 .. Len(done) : done[b] = Status
      BY <1>0 DEF StatusOK
    <3> QED BY <1>2, <2>1, <1>n DEF Leading
  <2>3. n <= Len(done) - 1 + Len(bus) + (IF 1 \in Leading THEN 0 ELSE 1)
    <3>1. CASE stat \in Nat
      BY <3>1, <2>2, <1>n
    <3>2. CASE stat \notin Nat
      <4>1. 1 \notin Leading
        BY <3>2, <1>0 DEF Leading, StatusOK
      <4> QED BY <3>2, <4>1, <1>n
    <3> QED BY <3>1, <3>2
  <2> QED BY <2>1, <2>3, <1>1, <1>2
<1>3. CASE done # <<>> /\ done[1] = Status /\ Len(done) >= 2
  <2>1. 1 \in 1 .. Len(done) /\ 2 \in 1 .. Len(done)
    BY <1>3, <1>n
  <2>2. done[2] # Status /\ 2 \notin Leading /\ stat \in Nat
    BY <2>1, <1>3, <1>0 DEF StatusOK, Leading
  <2>3. n <= Len(done) - 2 + Len(bus) + (IF 2 \in Leading THEN 0 ELSE 1)
    BY <2>2, <1>n
  <2> QED BY <2>1, <2>2, <2>3, <1>1
<1>4. CASE done = <<>> \/ (done[1] = Status /\ Len(done) = 1)
  <2>1. n = Len(bus)
    <3>1. CASE done = <<>>
      <4>1. Len(done) = 0
        BY <3>1
      <4>2. stat \notin Nat
        BY <4>1, <1>0 DEF StatusOK
      <4> QED BY <4>1, <4>2, <1>n
    <3>2. CASE done[1] = Status /\ Len(done) = 1
      <4>1. stat \in Nat
        BY <3>2, <1>0 DEF StatusOK
      <4> QED BY <4>1, <3>2, <1>n
    <3> QED BY <1>4, <3>1, <3>2
  <2>2. CASE Len(bus) >= 1
    <3>1. 1 \in 1 .. Len(bus)
      BY <2>2, <1>n
    <3>2. bus[1] \in Sound
      BY <3>1, <1>0 DEF SlotsOK
    <3>3. 1 \in 1 .. Len(Pkts[bus[1]]) /\ Pkts[bus[1]][1] \in Nat /\ uFwRxCntr <= Pkts[bus[1]][1] + Ahead
      BY <3>2, <1>p
    <3>4. Pkts[bus[1]][1] + Len(bus) - 1 < Issued
      BY <3>1, <3>3, <1>0 DEF BusOK
    <3>5. n + Pkts[bus[1]][1] <= Issued
      BY <3>3, <3>4, <2>1, <1>n
    <3> QED BY <3>3, <3>5
  <2> QED BY <2>1, <2>2, <1>n
<1>5. done # <<>> => Len(done) >= 1
  BY <1>0, Typed
<1>6. done = <<>> \/ Len(done) = 1 \/ Len(done) >= 2
  <2>1. \A x \in Nat : x >= 1 => x = 1 \/ x >= 2
    OBVIOUS
  <2>2. Len(done) >= 1 => Len(done) = 1 \/ Len(done) >= 2
    BY <2>1, <1>n
  <2> QED BY <1>5, <2>2
<1> QED BY <1>2, <1>3, <1>4, <1>6

\* Unless a read has failed, rxXfer_Handle finds a free structure when the firmware's
\* status is served.
LEMMA FreeAtEvent ==
  ASSUME IndInv, ~recover, turn = "FwEvent" \/ stat # NoStatus
  PROVE  uAvailableTxn > 0
<1>0. TypeOK /\ CountersOK /\ CountOK
  BY DEF IndInv
<1>n. Len(bus) \in Nat /\ Len(done) \in Nat /\ Len(aggreg) \in Nat /\ uAvailableTxn \in Int
  BY <1>0, Typed DEF TypeOK
<1>a. Ahead = FwWindow /\ FwWindow \in Nat /\ FwWindow >= 1 /\ NumTxn \in Nat /\ 2 * FwWindow < NumTxn
  BY RxXferAssumption DEF Ahead
<1> DEFINE n == Len(bus) + Len(done) - (IF stat \in Nat THEN 1 ELSE 0)
<1>1. n \in Int /\ uAvailableTxn + n = NumTxn - 1
  BY <1>0, <1>n, <1>a DEF CountOK
<1>2. n <= 0 \/ \E p \in Nat : n + p <= Issued /\ uFwRxCntr <= p + Ahead
  BY <1>1, FewUnderWay
<1> HIDE DEF n
<1>3. Issued <= uFwRxCntr /\ Issued \in Int /\ uFwRxCntr \in Nat
  BY <1>0, <1>n, Typed DEF CountersOK, Issued
<1>4. n <= FwWindow
  BY <1>1, <1>2, <1>3, <1>a
<1> QED BY <1>1, <1>4, <1>a, <1>n

\* ... and when a completion is served.
LEMMA FreeAtCompletion ==
  ASSUME IndInv, ~recover
  PROVE  uAvailableTxn >= 0
<1>0. TypeOK /\ CountersOK /\ CountOK
  BY DEF IndInv
<1>n. Len(bus) \in Nat /\ Len(done) \in Nat /\ Len(aggreg) \in Nat /\ uAvailableTxn \in Int
  BY <1>0, Typed DEF TypeOK
<1>a. /\ Ahead \in Nat /\ Ahead <= 2 * FwWindow /\ FwWindow \in Nat /\ NumTxn \in Nat
      /\ 2 * FwWindow < NumTxn
  BY RxXferAssumption DEF Ahead
<1> DEFINE n == Len(bus) + Len(done) - (IF stat \in Nat THEN 1 ELSE 0)
<1>1. n \in Int /\ uAvailableTxn + n = NumTxn - 1
  BY <1>0, <1>n, <1>a DEF CountOK
<1>2. n <= 0 \/ \E p \in Nat : n + p <= Issued /\ uFwRxCntr <= p + Ahead
  BY <1>1, FewUnderWay
<1> HIDE DEF n
<1>3. Issued <= uFwRxCntr /\ Issued \in Int /\ uFwRxCntr \in Nat
  BY <1>0, <1>n, Typed DEF CountersOK, Issued
<1>4. n <= Ahead
  BY <1>1, <1>2, <1>3, <1>a
<1> QED BY <1>1, <1>4, <1>a, <1>n

\* A counter that rxXfer_RxEvent ignores is the one it knows: the firmware's window is
\* smaller than the array of descriptors.
LEMMA RxEventFacts ==
  ASSUME IndInv, NEW c \in Nat, uFwRxCntr <= c, c <= fwCntr, RxEvent(c)
  PROVE  /\ uFwRxCntr' = c /\ c <= uFwRxCntr + FwWindow
         /\ pc' \in {pc, "idle", "loop"}
         /\ uAvailableTxn > 0 => (c = uFwRxCntr /\ pc' = pc) \/ pc' = "loop"
<1>0. TypeOK /\ CountersOK
  BY DEF IndInv
<1>n. /\ fwDrv \in Nat /\ fwCntr \in Nat /\ uFwRxCntr \in Nat /\ uDrvRxCntr \in Nat
      /\ Len(aggreg) \in Nat /\ Issued \in Int
  BY <1>0, Typed
<1>a. FwWindow \in Nat /\ FwWindow < NumDesc /\ NumDesc \in Nat \ {0}
  BY RxXferAssumption
<1>1. fwDrv <= uFwRxCntr
  BY <1>0, <1>n DEF CountersOK, Issued
<1>2. c <= uFwRxCntr + FwWindow
  BY <1>0, <1>1, <1>n, <1>a DEF CountersOK
<1>3. CASE c % NumDesc = uFwRxCntr % NumDesc
  <2>1. c < uFwRxCntr + NumDesc
    BY <1>2, <1>n, <1>a
  <2>2. uFwRxCntr = c
    <3>1. uFwRxCntr \in Int /\ c \in Int /\ uFwRxCntr % NumDesc = c % NumDesc
      BY <1>3, <1>n
    <3> QED BY <3>1, <2>1, <1>a, ModEqual
  <2> QED BY <2>2, <1>2, <1>3 DEF RxEvent
<1>4. CASE c % NumDesc # uFwRxCntr % NumDesc
  <2>1. uFwRxCntr' = c /\ pc' = IF uAvailableTxn = 0 THEN "idle" ELSE "loop"
    BY <1>4 DEF RxEvent, EnterHandle
  <2>2. uAvailableTxn > 0 => uAvailableTxn # 0
    BY <1>0 DEF TypeOK
  <2> QED BY <2>1, <2>2, <1>2
<1> QED BY <1>3, <1>4

LEMMA TxnDoneHandledStep ==
  ASSUME IndInv, TxnDoneHandled
  PROVE  IndInv'
<1>0. TypeOK /\ CountersOK /\ SlotsOK /\ BusOK
  BY DEF IndInv
<1>u. UNCHANGED <<modVars, runVars, bus, done, fwVars, pktVars, lifeVars>> /\ turn' = "FwEvent" /\ done = <<>>
  BY DEF TxnDoneHandled
<1>d. /\ Issued' = Issued /\ Pkts' = Pkts /\ Before' = Before /\ Behind' = Behind
      /\ Leading' = Leading /\ UnderWay' = UnderWay
  BY <1>u, PktsKept, UnderWayKept DEF Issued, Behind, Leading, modVars, runVars
<1>1. TypeOK'
  BY <1>0, <1>u DEF TypeOK, modVars, runVars, fwVars, pktVars, lifeVars
<1>2. CountersOK' /\ AggregOK' /\ StatusOK'
  BY <1>d, <1>u DEF IndInv, CountersOK, AggregOK, StatusOK, modVars, runVars, fwVars
<1>3. SlotsOK'
  <2>1. ASSUME NEW a \in 1 .. Len(bus) PROVE bus[a] \in Sound'
    <3>1. bus[a] \in Sound /\ bus[a] \in Index
      BY <1>0, Typed DEF SlotsOK
    <3>2. Ahead' = FwWindow /\ FwWindow \in Nat
      BY <1>u, RxXferAssumption DEF Ahead
    <3>3. \A k \in 1 .. Len(Pkts[bus[a]]) : Pkts[bus[a]][k] + Behind'[bus[a]] <= Issued'
      BY <3>1, <1>d DEF Sound
    <3>4. uFwRxCntr' <= fwDrv + FwWindow
      <4>1. uFwRxCntr <= fwDrv + FwWindow
        BY <1>0, <3>2, Typed DEF CountersOK
      <4> QED BY <4>1, <1>u DEF modVars
    <3>5. ASSUME NEW k \in 1 .. Len(Pkts[bus[a]]) PROVE uFwRxCntr' <= Pkts[bus[a]][k] + Ahead'
      <4>1. fwDrv <= Pkts[bus[a]][k] /\ Pkts[bus[a]][k] \in Nat /\ uFwRxCntr \in Nat /\ fwDrv \in Nat
        BY <1>0, <3>1, Typed DEF BusOK
      <4>2. uFwRxCntr' = uFwRxCntr
        BY <1>u DEF modVars
      <4> QED BY <4>1, <4>2, <3>2, <3>4
    <3>6. aTxnStruct'[bus[a]] = aTxnStruct[bus[a]] /\ dropped' = dropped
      BY <1>u DEF modVars, pktVars
    <3> QED BY <3>1, <3>3, <3>5, <3>6, SoundKept
  <2>2. Len(done) = 0 /\ bus' = bus /\ done' = done
    BY <1>u
  <2> QED BY <2>1, <2>2 DEF SlotsOK
<1>4. BusOK' /\ DoneOK'
  <2>1. bus' = bus /\ done' = done /\ fwDrv' = fwDrv /\ Len(done) = 0
    BY <1>u DEF fwVars
  <2>2. DoneOK'
    BY <2>1 DEF DoneOK
  <2> QED BY <2>1, <2>2, <1>d DEF IndInv, BusOK
<1>5. CountOK' /\ LeftOK'
  BY <1>u DEF IndInv, CountOK, LeftOK, modVars, runVars, fwVars, lifeVars
<1>6. AccountOK'
  BY <1>d, <1>u DEF IndInv, AccountOK, PassedOn, modVars, pktVars
<1> QED BY <1>1, <1>2, <1>3, <1>4, <1>5, <1>6 DEF IndInv

LEMMA FwEventStep ==
  ASSUME IndInv, FwEvent
  PROVE  IndInv'
<1>0. TypeOK /\ CountersOK /\ AggregOK /\ StatusOK /\ SlotsOK /\ LeftOK
  BY DEF IndInv
<1>n. /\ fwDrv \in Nat /\ fwCntr \in Nat /\ uFwRxCntr \in Nat /\ uDrvRxCntr \in Nat
      /\ Len(aggreg) \in Nat /\ Issued \in Int /\ FwWindow \in Nat
  BY <1>0, Typed, RxXferAssumption
<1>u. /\ UNCHANGED <<uDrvRxCntr, uCurrTxnIndex, uAvailableTxn, bPendingBuffer, aTxnStruct, aggreg, bus, done,
                     fwCntr, fwDrv, pktVars, lifeVars>>
      /\ turn = "FwEvent" /\ turn' = "TwIf" /\ pc = "idle"
  BY DEF FwEvent
<1>d. /\ Issued' = Issued /\ Pkts' = Pkts /\ Before' = Before /\ Behind' = Behind
      /\ Leading' = Leading /\ UnderWay' = UnderWay
  BY <1>u, PktsKept, UnderWayKept DEF Issued, Behind, Leading
<1>c. \/ /\ irq /\ stat = NoStatus /\ irq' = FALSE /\ stat' = stat
         /\ uFwRxCntr' = fwCntr /\ fwCntr <= uFwRxCntr + FwWindow
         /\ pc' \in {"idle", "loop"}
         /\ ~recover => (fwCntr = uFwRxCntr /\ pc' = pc) \/ pc' = "loop"
      \/ /\ irq /\ stat = NoStatus /\ irq' = FALSE /\ stat' = OnBus /\ UNCHANGED <<uFwRxCntr, pc>>
      \/ UNCHANGED <<irq, stat, uFwRxCntr, pc>>
  <2>1. ASSUME irq, stat = NoStatus, irq' = FALSE, RxEvent(fwCntr), stat' = stat
        PROVE  /\ uFwRxCntr' = fwCntr /\ fwCntr <= uFwRxCntr + FwWindow
               /\ pc' \in {"idle", "loop"}
               /\ ~recover => (fwCntr = uFwRxCntr /\ pc' = pc) \/ pc' = "loop"
    <3>1. uFwRxCntr <= fwCntr /\ fwCntr <= fwCntr
      BY <1>0, <1>n DEF CountersOK
    <3>2. ~recover => uAvailableTxn > 0
      BY <1>u, FreeAtEvent
    <3> QED BY <3>1, <3>2, <2>1, <1>n, <1>u, RxEventFacts
  <2> QED BY <2>1 DEF FwEvent
<1>f. uFwRxCntr' \in Nat /\ uFwRxCntr' <= uFwRxCntr + FwWindow /\ uFwRxCntr' <= fwCntr /\ uFwRxCntr <= uFwRxCntr'
  BY <1>c, <1>n, <1>0 DEF CountersOK
<1>1. TypeOK'
  <2>1. uFwRxCntr' \in 0 .. MaxPkts /\ pc' \in {"idle", "loop"} /\ irq' \in BOOLEAN
        /\ stat' \in {NoStatus, OnBus} \cup 0 .. MaxPkts
    BY <1>c, <1>0 DEF TypeOK
  <2> QED BY <2>1, <1>0, <1>u DEF TypeOK, pktVars, lifeVars
<1>2. CountersOK'
  <2>1. uDrvRxCntr <= uFwRxCntr'
    BY <1>c, <1>n, <1>0 DEF CountersOK
  <2> QED BY <2>1, <1>f, <1>d, <1>u, <1>0 DEF CountersOK
<1>3. AggregOK'
  BY <1>0, <1>d, <1>u DEF AggregOK
<1>4. StatusOK'
  BY <1>0, <1>c, <1>u DEF StatusOK, NoStatus, OnBus
<1>5. SlotsOK'
  <2>1. ASSUME NEW i \in Sound PROVE i \in Sound'
    <3>1. i \in Index /\ aTxnStruct'[i] = aTxnStruct[i] /\ dropped' = dropped
      BY <1>u DEF Sound, pktVars
    <3>2. \A k \in 1 .. Len(Pkts[i]) : Pkts[i][k] + Behind'[i] <= Issued'
      BY <3>1, <1>d DEF Sound
    <3>3. ASSUME NEW k \in 1 .. Len(Pkts[i]) PROVE uFwRxCntr' <= Pkts[i][k] + Ahead'
      <4>1. Ahead = FwWindow
        BY <1>u DEF Ahead
      <4>2. uFwRxCntr <= Pkts[i][k] + FwWindow /\ Pkts[i][k] \in Nat
        BY <4>1, <3>1, <1>0, Typed DEF Sound
      <4>3. CASE stat' = NoStatus
        <5>1. Ahead' = 2 * FwWindow
          BY <4>3, <1>u DEF Ahead
        <5>2. fwCntr <= uFwRxCntr + FwWindow => fwCntr <= Pkts[i][k] + 2 * FwWindow
          BY <4>2, <1>n
        <5>3. uFwRxCntr <= Pkts[i][k] + 2 * FwWindow
          BY <4>2, <1>n
        <5> QED BY <5>1, <5>2, <5>3, <1>c
      <4>4. CASE stat' # NoStatus
        <5>1. Ahead' = FwWindow
          BY <4>4 DEF Ahead
        <5>2. uFwRxCntr' = uFwRxCntr
          BY <4>4, <1>c
        <5> QED BY <5>1, <5>2, <4>2
      <4> QED BY <4>3, <4>4
    <3> QED BY <3>1, <3>2, <3>3, SoundKept
  <2> QED BY <2>1, <1>0, <1>u DEF SlotsOK
<1>6. BusOK' /\ DoneOK'
  BY <1>d, <1>u DEF IndInv, BusOK, DoneOK
<1>7. CountOK'
  <2>1. stat' \in Nat <=> stat \in Nat
    BY <1>c DEF NoStatus, OnBus
  <2> QED BY <2>1, <1>u DEF IndInv, CountOK, lifeVars
<1>8. LeftOK'
  BY <1>0, <1>c, <1>u DEF LeftOK, lifeVars
<1>9. AccountOK'
  BY <1>d, <1>u DEF IndInv, AccountOK, PassedOn, pktVars
<1> QED BY <1>1, <1>2, <1>3, <1>4, <1>5, <1>6, <1>7, <1>8, <1>9 DEF IndInv

\* twIf_HandleTxnDone calls the firmware's status back.
LEMMA StatusDoneStep ==
  ASSUME IndInv, HandleTxnDone, Head(done) = Status
  PROVE  IndInv'
<1>0. TypeOK /\ CountersOK /\ AggregOK /\ StatusOK /\ SlotsOK /\ BusOK /\ DoneOK /\ CountOK /\ LeftOK
  BY DEF IndInv
<1>n. /\ fwDrv \in Nat /\ fwCntr \in Nat /\ uFwRxCntr \in Nat /\ uDrvRxCntr \in Nat
      /\ Len(bus) \in Nat /\ Len(done) \in Nat /\ Len(aggreg) \in Nat /\ Issued \in Int /\ FwWindow \in Nat
  BY <1>0, Typed, RxXferAssumption
<1>s. /\ done \in Seq(Index \cup {Status}) /\ Status \notin Index
      /\ \A a \in 1 .. Len(done) : done[a] # Status => done[a] \in Index
  BY <1>0, Typed
<1>b. /\ done # <<>> /\ Len(done) >= 1 /\ done[1] = Status
      /\ done' \in Seq(Index \cup {Status}) /\ Len(done') = Len(done) - 1
      /\ \A a \in 1 .. Len(done) - 1 : done'[a] = done[a + 1]
  BY <1>s, TailFacts DEF HandleTxnDone
<1>i. \A a \in 1 .. Len(done') : a + 1 \in 1 .. Len(done) /\ done'[a] = done[a + 1]
  BY <1>b, <1>n
<1>u. /\ UNCHANGED <<uDrvRxCntr, uCurrTxnIndex, aggreg, turn, bus, fwCntr, fwDrv, irq, dropped, failed, lifeVars>>
      /\ UNCHANGED <<uAvailableTxn, aTxnStruct, bPendingBuffer, swallowed, forwarded>>
      /\ pc = "idle" /\ turn = "TwIf" /\ stat' = NoStatus /\ RxEvent(stat)
  <2>1. ~ (Head(done) # Status)
    OBVIOUS
  <2> QED BY <2>1 DEF HandleTxnDone, NotForwarded
<1>d. Issued' = Issued /\ Pkts' = Pkts /\ Before' = Before /\ Behind' = Behind
  BY <1>u, PktsKept DEF Issued, Behind
<1>e. stat \in Nat /\ uFwRxCntr <= stat /\ stat <= fwCntr /\ (~irq => stat = fwCntr)
  <2>1. 1 \in 1 .. Len(done)
    BY <1>b, <1>n
  <2> QED BY <1>b, <2>1, <1>0 DEF StatusOK
<1>g. \A a \in 1 .. Len(done') : done'[a] # Status
  <2> TAKE a \in 1 .. Len(done')
  <2>1. a + 1 \in 1 .. Len(done) /\ 1 \in 1 .. Len(done) /\ a + 1 # 1
    BY <1>b, <1>i, <1>n
  <2> QED BY <2>1, <1>b, <1>i, <1>0 DEF StatusOK
<1>c. /\ uFwRxCntr' = stat /\ stat <= uFwRxCntr + FwWindow
      /\ pc' \in {"idle", "loop"}
      /\ ~recover => (stat = uFwRxCntr /\ pc' = pc) \/ pc' = "loop"
  <2>1. stat # NoStatus
    BY <1>e DEF NoStatus
  <2>2. ~recover => uAvailableTxn > 0
    BY <2>1, FreeAtEvent
  <2> QED BY <2>2, <1>e, <1>u, RxEventFacts
<1>1. TypeOK'
  <2>1. uFwRxCntr' \in 0 .. MaxPkts /\ stat' \in {NoStatus, OnBus} \cup 0 .. MaxPkts
    <3>1. fwCntr \in 0 .. MaxPkts /\ MaxPkts \in Nat
      BY <1>0, RxXferAssumption DEF TypeOK
    <3>2. stat \in 0 .. MaxPkts
      BY <3>1, <1>e
    <3> QED BY <3>2, <1>c, <1>u
  <2> QED BY <2>1, <1>0, <1>b, <1>c, <1>u DEF TypeOK, lifeVars
<1>2. CountersOK'
  <2>1. uDrvRxCntr <= stat
    BY <1>e, <1>n, <1>0 DEF CountersOK
  <2> QED BY <2>1, <1>c, <1>d, <1>e, <1>u, <1>0 DEF CountersOK
<1>3. AggregOK'
  BY <1>0, <1>d, <1>u DEF AggregOK
<1>4. StatusOK'
  BY <1>c, <1>e, <1>g, <1>u DEF StatusOK, NoStatus
<1>5. SlotsOK'
  <2>1. ASSUME NEW i \in Sound PROVE i \in Sound'
    <3>1. i \in Index /\ aTxnStruct'[i] = aTxnStruct[i] /\ dropped' = dropped
      BY <1>u DEF Sound
    <3>2. \A k \in 1 .. Len(Pkts[i]) : Pkts[i][k] + Behind'[i] <= Issued'
      BY <3>1, <1>d DEF Sound
    <3>3. ASSUME NEW k \in 1 .. Len(Pkts[i]) PROVE uFwRxCntr' <= Pkts[i][k] + Ahead'
      <4>1. Ahead = FwWindow /\ Ahead' = 2 * FwWindow
        BY <1>e, <1>u DEF Ahead, NoStatus
      <4>2. uFwRxCntr <= Pkts[i][k] + FwWindow /\ Pkts[i][k] \in Nat
        BY <4>1, <3>1, <1>0, Typed DEF Sound
      <4>3. stat <= Pkts[i][k] + 2 * FwWindow
        <5> DEFINE x == Pkts[i][k]
        <5>1. uFwRxCntr <= x + FwWindow /\ x \in Nat
          BY <4>2
        <5> HIDE DEF x
        <5>2. stat <= x + 2 * FwWindow
          BY <5>1, <1>c, <1>e, <1>n
        <5> QED BY <5>2 DEF x
      <4> QED BY <4>1, <4>3, <1>c
    <3> QED BY <3>1, <3>2, <3>3, SoundKept
  <2> QED BY <2>1, <1>0, <1>i, <1>g, <1>u DEF SlotsOK
<1>6. BusOK'
  BY <1>0, <1>d, <1>u DEF BusOK
<1>7. DoneOK'
  <2>1. ASSUME NEW a \in 1 .. Len(done'), NEW k \in 1 .. Len(Pkts[done'[a]])
        PROVE  /\ Pkts[done'[a]][k] < fwDrv
               /\ Pkts[done'[a]][k] + Len(done') - a + Len(bus) + (IF a \in Leading' THEN 0 ELSE 1) <= Issued
    <3>1. a + 1 \in 1 .. Len(done) /\ done'[a] = done[a + 1] /\ done[a + 1] # Status /\ a \in Nat
      BY <1>i, <1>g, <1>n
    <3>2. a \notin Leading'
      BY <1>g DEF Leading
    <3>3. a + 1 \notin Leading
      <4> SUFFICES ASSUME NEW b \in 1 .. Len(done), a + 1 < b, done[b] = Status PROVE FALSE
        BY DEF Leading
      <4>1. 1 \in 1 .. Len(done)
        BY <1>b, <1>n
      <4>2. b = 1
        BY <4>1, <1>b, <1>0 DEF StatusOK
      <4> QED BY <4>2, <3>1
    <3>4. /\ Pkts[done[a + 1]][k] < fwDrv /\ Pkts[done[a + 1]][k] \in Nat
          /\ Pkts[done[a + 1]][k] + Len(done) - (a + 1) + Len(bus) + (IF a + 1 \in Leading THEN 0 ELSE 1) <= Issued
      <4>1. done[a + 1] \in Index /\ k \in 1 .. Len(Pkts[done[a + 1]])
        BY <3>1, <1>s
      <4> QED BY <3>1, <4>1, <1>0, Typed DEF DoneOK
    <3>5. Pkts[done[a + 1]][k] + Len(done) - (a + 1) + Len(bus) + 1 <= Issued
      BY <3>3, <3>4
    <3>6. Pkts[done[a + 1]][k] + Len(done') - a + Len(bus) + 1 <= Issued
      BY <3>1, <3>4, <3>5, <1>b, <1>n
    <3> QED BY <3>1, <3>2, <3>4, <3>6
  <2>2. ASSUME NEW a \in 1 .. Len(done'), NEW b \in 1 .. Len(done'), a < b
        PROVE  <<done'[a], done'[b]>> \in Before
    <3>1. /\ a + 1 \in 1 .. Len(done) /\ done'[a] = done[a + 1]
          /\ b + 1 \in 1 .. Len(done) /\ done'[b] = done[b + 1] /\ a + 1 < b + 1
          /\ done[a + 1] # Status /\ done[b + 1] # Status
      BY <2>2, <1>i, <1>g, <1>b, <1>n
    <3> QED BY <3>1, <1>0 DEF DoneOK
  <2> QED BY <2>1, <2>2, <1>d, <1>u DEF DoneOK
<1>8. CountOK'
  <2>1. stat' \notin Nat
    BY <1>u DEF NoStatus
  <2>2. uAvailableTxn \in Int /\ NumTxn \in Nat
    BY <1>0, RxXferAssumption DEF TypeOK
  <2> QED BY <2>1, <2>2, <1>b, <1>e, <1>u, <1>n, <1>0 DEF CountOK, lifeVars
<1>9. LeftOK'
  BY <1>0, <1>c, <1>u DEF LeftOK, lifeVars
<1>10. AccountOK'
  <2>1. ASSUME NEW p \in Packet PROVE p \in UnderWay' <=> p \in UnderWay
    <3>1. (\E a \in 1 .. Len(done) : done[a] # Status /\ \E k \in 1 .. Len(Pkts[done[a]]) : Pkts[done[a]][k] = p)
          => \E a \in 1 .. Len(done') : done'[a] # Status /\ \E k \in 1 .. Len(Pkts[done'[a]]) : Pkts[done'[a]][k] = p
      <4> SUFFICES ASSUME NEW a \in 1 .. Len(done), done[a] # Status,
                          NEW k \in 1 .. Len(Pkts[done[a]]), Pkts[done[a]][k] = p
                   PROVE  \E b \in 1 .. Len(done') : done'[b] # Status
                             /\ \E m \in 1 .. Len(Pkts[done'[b]]) : Pkts[done'[b]][m] = p
        OBVIOUS
      <4>1. a # 1
        BY <1>b
      <4>2. a - 1 \in 1 .. Len(done') /\ done'[a - 1] = done[a]
        BY <4>1, <1>b, <1>n
      <4> QED BY <4>2
    <3>2. (\E a \in 1 .. Len(done') : done'[a] # Status /\ \E k \in 1 .. Len(Pkts[done'[a]]) : Pkts[done'[a]][k] = p)
          => \E a \in 1 .. Len(done) : done[a] # Status /\ \E k \in 1 .. Len(Pkts[done[a]]) : Pkts[done[a]][k] = p
      BY <1>i
    <3> QED BY <3>1, <3>2, <1>d, <1>u DEF UnderWay
  <2> QED BY <2>1, <1>u DEF IndInv, AccountOK, PassedOn
<1> QED BY <1>1, <1>2, <1>3, <1>4, <1>5, <1>6, <1>7, <1>8, <1>9, <1>10 DEF IndInv

\* twIf_HandleTxnDone calls a read back.
LEMMA PacketDoneStep ==
  ASSUME IndInv, HandleTxnDone, Head(done) # Status
  PROVE  IndInv'
<1> DEFINE h == done[1]
<1>0. TypeOK /\ CountersOK /\ AggregOK /\ StatusOK /\ SlotsOK /\ BusOK /\ DoneOK /\ CountOK /\ LeftOK
  BY DEF IndInv
<1>n. /\ fwDrv \in Nat /\ uDrvRxCntr \in Nat /\ Len(bus) \in Nat /\ Len(done) \in Nat
      /\ Len(aggreg) \in Nat /\ Issued \in Int
  BY <1>0, Typed
<1>s. /\ done \in Seq(Index \cup {Status}) /\ Status \notin Index
      /\ \A a \in 1 .. Len(done) : done[a] # Status => done[a] \in Index
      /\ \A a \in 1 .. Len(bus) : bus[a] \in Index
  BY <1>0, Typed
<1>p. \A i \in Index : /\ Pkts[i] \in Seq(Packet) /\ Len(Pkts[i]) \in Nat
                       /\ \A k \in 1 .. Len(Pkts[i]) : Pkts[i][k] \in Packet /\ Pkts[i][k] \in Nat
  BY <1>0, Typed
<1>b. /\ done # <<>> /\ Len(done) >= 1 /\ h = Head(done) /\ h # Status /\ 1 \in 1 .. Len(done)
      /\ done' \in Seq(Index \cup {Status}) /\ Len(done') = Len(done) - 1
      /\ \A a \in 1 .. Len(done) - 1 : done'[a] = done[a + 1]
  BY <1>s, TailFacts DEF HandleTxnDone
<1>i. \A a \in 1 .. Len(done') : a + 1 \in 1 .. Len(done) /\ done'[a] = done[a + 1] /\ 1 < a + 1
  BY <1>b, <1>n
<1>h. h \in Index /\ h \in Sound /\ 1 \in 1 .. Len(Pkts[h])
  <2>1. h \in Index /\ h \in Sound
    BY <1>b, <1>s, <1>0 DEF SlotsOK
  <2>2. Pkts[h] # <<>>
    BY <2>1 DEF Sound
  <2> QED BY <2>1, <2>2, <1>p
<1>u. /\ UNCHANGED <<uDrvRxCntr, uCurrTxnIndex, aggreg, turn, bus, fwCntr, fwDrv, irq, dropped, failed, lifeVars>>
      /\ UNCHANGED <<uFwRxCntr, stat>>
      /\ pc = "idle" /\ turn = "TwIf" /\ uAvailableTxn' = uAvailableTxn + 1
  BY <1>b DEF HandleTxnDone, TxnDoneCb
<1>c. \/ /\ aTxnStruct[h].cb = "TxnDone"
         /\ aTxnStruct' = [aTxnStruct EXCEPT ![h] = Forwarded(aTxnStruct[h])]
         /\ forwarded' = forwarded \cup Elems(aTxnStruct[h].pkts)
         /\ bPendingBuffer' = FALSE
         /\ IF bPendingBuffer THEN pc' = (IF uAvailableTxn + 1 = 0 THEN "idle" ELSE "loop") ELSE pc' = pc
         /\ swallowed' = swallowed
      \/ /\ aTxnStruct[h].cb = "PktDrop"
         /\ aTxnStruct' = [aTxnStruct EXCEPT ![h].cb = "TxnDone", ![h].pkts = <<>>]
         /\ forwarded' = forwarded
         /\ swallowed' = IF aTxnStruct[h].buf = "host" THEN swallowed \cup Elems(aTxnStruct[h].pkts) ELSE swallowed
         /\ UNCHANGED <<bPendingBuffer, pc>>
  <2>1. TxnDoneCb(h)
    BY <1>b DEF HandleTxnDone
  <2> QED BY <2>1 DEF TxnDoneCb, Forward, NotForwarded, EnterHandle
<1>e. Elems(aTxnStruct[h].pkts) = {Pkts[h][k] : k \in 1 .. Len(Pkts[h])}
  BY <1>h DEF Elems, Pkts
<1>d. Issued' = Issued /\ Behind' = Behind /\ Ahead' = Ahead
  BY <1>u DEF Issued, Behind, Ahead
<1>j. \A i \in Index : i # h => aTxnStruct'[i] = aTxnStruct[i] /\ Pkts'[i] = Pkts[i]
  BY <1>c, <1>h, <1>0 DEF TypeOK, Pkts
<1>k. \A a \in 1 .. Len(bus) : bus[a] \in Index /\ bus[a] # h
  <2> SUFFICES ASSUME NEW a \in 1 .. Len(bus), bus[a] = h PROVE FALSE
    BY <1>s
  <2>1. Pkts[h][1] < fwDrv /\ Pkts[h][1] \in Nat
    BY <1>b, <1>h, <1>p, <1>0 DEF DoneOK
  <2>2. fwDrv <= Pkts[h][1]
    BY <1>h, <1>0 DEF BusOK
  <2> QED BY <2>1, <2>2, <1>n
<1>l. \A a \in 1 .. Len(done') : done'[a] # Status => done'[a] \in Index /\ done'[a] # h
  <2> SUFFICES ASSUME NEW a \in 1 .. Len(done'), done'[a] # Status
               PROVE  done'[a] \in Index /\ done'[a] # h
    OBVIOUS
  <2>1. a + 1 \in 1 .. Len(done) /\ done'[a] = done[a + 1] /\ 1 < a + 1
    BY <1>i
  <2>2. <<h, done[a + 1]>> \in Before
    BY <2>1, <1>b, <1>0 DEF DoneOK
  <2>3. done[a + 1] = h => Pkts[h][1] < Pkts[h][1] /\ Pkts[h][1] \in Nat
    BY <2>2, <1>h, <1>p DEF Before
  <2> QED BY <2>1, <2>3, <1>s
<1>1. TypeOK'
  <2>e. <<>> \in Seq(Packet)
    OBVIOUS
  <2>1. aTxnStruct \in [Index -> Struct] /\ aTxnStruct[h] \in Struct
    BY <1>0, <1>h DEF TypeOK, Struct
  <2>2. Forwarded(aTxnStruct[h]) \in Struct
    <3>1. ASSUME NEW t \in Struct PROVE [t EXCEPT !.buf = "none", !.pkts = <<>>] \in Struct
      BY <2>e, StructKept
    <3> QED BY <2>1, <3>1 DEF Forwarded
  <2>3. aTxnStruct' \in [Index -> Struct]
    <3>1. CASE aTxnStruct' = [aTxnStruct EXCEPT ![h] = Forwarded(aTxnStruct[h])]
      BY <3>1, <2>1, <2>2, <1>h
    <3>2. CASE aTxnStruct' = [aTxnStruct EXCEPT ![h].cb = "TxnDone", ![h].pkts = <<>>]
      <4>1. ASSUME NEW t \in Struct PROVE [t EXCEPT !.cb = "TxnDone", !.pkts = <<>>] \in Struct
        BY <2>e, StructKept
      <4>2. aTxnStruct' = [aTxnStruct EXCEPT ![h] = [aTxnStruct[h] EXCEPT !.cb = "TxnDone", !.pkts = <<>>]]
        BY <3>2, <2>1, <1>h
      <4> QED BY <4>1, <4>2, <2>1, <1>h
    <3> QED BY <3>1, <3>2, <1>c
  <2>4. Elems(aTxnStruct[h].pkts) \subseteq Packet
    BY <1>e, <1>h, <1>p
  <2>5. forwarded' \subseteq Packet /\ swallowed' \subseteq Packet
    BY <2>4, <1>c, <1>0 DEF TypeOK
  <2>6. bPendingBuffer' \in BOOLEAN /\ pc' \in {"idle", "loop"}
    BY <1>c, <1>0 DEF TypeOK
  <2>7. uAvailableTxn' \in Int
    BY <1>u, <1>0 DEF TypeOK
  <2> QED BY <2>3, <2>5, <2>6, <2>7, <1>b, <1>u, <1>0 DEF TypeOK, Struct, lifeVars
<1>2. CountersOK'
  BY <1>d, <1>u, <1>0 DEF CountersOK
<1>3. AggregOK'
  BY <1>0, <1>d, <1>u DEF AggregOK
<1>4. StatusOK'
  <2>1. ASSUME NEW a \in 1 .. Len(done), done[a] = Status PROVE \E b \in 1 .. Len(done') : done'[b] = Status
    <3>1. a # 1
      BY <1>b, <2>1
    <3>2. a - 1 \in 1 .. Len(done') /\ done'[a - 1] = done[a]
      BY <3>1, <1>b, <1>n
    <3> QED BY <3>2, <2>1
  <2>2. ASSUME NEW a \in 1 .. Len(done'), NEW b \in 1 .. Len(done'), done'[a] = Status, done'[b] = Status
        PROVE  stat \in Nat /\ a = b
    <3>1. /\ a + 1 \in 1 .. Len(done) /\ done[a + 1] = Status
          /\ b + 1 \in 1 .. Len(done) /\ done[b + 1] = Status
      BY <1>i, <2>2
    <3>2. stat \in Nat /\ a + 1 = b + 1
      BY <3>1, <1>0 DEF StatusOK
    <3> QED BY <3>2
  <2> QED BY <2>1, <2>2, <1>u, <1>0 DEF StatusOK
<1>5. SlotsOK'
  <2>1. ASSUME NEW i \in Sound, i # h PROVE i \in Sound'
    <3>1. i \in Index /\ aTxnStruct'[i] = aTxnStruct[i] /\ dropped' = dropped
      BY <2>1, <1>u, <1>j DEF Sound
    <3>2. \A k \in 1 .. Len(Pkts[i]) : Pkts[i][k] + Behind'[i] <= Issued'
      BY <3>1, <1>d DEF Sound
    <3>3. \A k \in 1 .. Len(Pkts[i]) : uFwRxCntr' <= Pkts[i][k] + Ahead'
      BY <3>1, <1>d, <1>u DEF Sound
    <3> QED BY <3>1, <3>2, <3>3, SoundKept
  <2>2. \A a \in 1 .. Len(bus') : bus'[a] \in Sound'
    BY <2>1, <1>k, <1>u, <1>0 DEF SlotsOK
  <2>3. \A a \in 1 .. Len(done') : done'[a] # Status => done'[a] \in Sound'
    BY <2>1, <1>l, <1>i, <1>0 DEF SlotsOK
  <2> QED BY <2>2, <2>3 DEF SlotsOK
<1>q. ASSUME NEW i \in Index, NEW j \in Index, i # h, j # h, <<i, j>> \in Before PROVE <<i, j>> \in Before'
  <2>1. Pkts'[i] = Pkts[i] /\ Pkts'[j] = Pkts[j]
    BY <1>q, <1>j
  <2>2. \A k \in 1 .. Len(Pkts[i]), m \in 1 .. Len(Pkts[j]) : Pkts[i][k] < Pkts[j][m]
    BY <1>q DEF Before
  <2> QED BY <2>1, <2>2 DEF Before
<1>6. BusOK'
  <2>1. \A a \in 1 .. Len(bus) : Pkts'[bus[a]] = Pkts[bus[a]]
    BY <1>k, <1>j
  <2>2. \A a, b \in 1 .. Len(bus) : a < b => <<bus[a], bus[b]>> \in Before'
    BY <1>q, <1>k, <1>0 DEF BusOK
  <2> QED BY <2>1, <2>2, <1>d, <1>u, <1>0 DEF BusOK
<1>7. DoneOK'
  <2>1. ASSUME NEW a \in 1 .. Len(done'), done'[a] # Status, NEW k \in 1 .. Len(Pkts'[done'[a]])
        PROVE  /\ Pkts'[done'[a]][k] < fwDrv
               /\ Pkts'[done'[a]][k] + Len(done') - a + Len(bus) + (IF a \in Leading' THEN 0 ELSE 1) <= Issued
    <3>1. a + 1 \in 1 .. Len(done) /\ done'[a] = done[a + 1] /\ done[a + 1] # Status /\ a \in Nat
      BY <2>1, <1>i, <1>n
    <3>2. Pkts'[done'[a]] = Pkts[done[a + 1]] /\ done[a + 1] \in Index
      BY <3>1, <2>1, <1>l, <1>j
    <3>3. a \in Leading' <=> a + 1 \in Leading
      <4>1. ASSUME a \in Leading' PROVE a + 1 \in Leading
        <5> PICK b \in 1 .. Len(done') : a < b /\ done'[b] = Status
          BY <4>1 DEF Leading
        <5>1. b + 1 \in 1 .. Len(done) /\ done[b + 1] = Status /\ a + 1 < b + 1
          BY <1>i, <3>1
        <5> QED BY <5>1, <3>1 DEF Leading
      <4>2. ASSUME a + 1 \in Leading PROVE a \in Leading'
        <5> PICK b \in 1 .. Len(done) : a + 1 < b /\ done[b] = Status
          BY <4>2 DEF Leading
        <5>1. b - 1 \in 1 .. Len(done') /\ done'[b - 1] = Status /\ a < b - 1
          BY <1>b, <3>1, <1>n
        <5> QED BY <5>1 DEF Leading
      <4> QED BY <4>1, <4>2
    <3> DEFINE x == Pkts[done[a + 1]][k]
               e == IF a + 1 \in Leading THEN 0 ELSE 1
    <3>4. x < fwDrv /\ x \in Nat /\ x + Len(done) - (a + 1) + Len(bus) + e <= Issued
      <4>1. k \in 1 .. Len(Pkts[done[a + 1]])
        BY <2>1, <3>2
      <4> QED BY <3>1, <3>2, <4>1, <1>0, <1>p DEF DoneOK
    <3>5. e \in Nat /\ (IF a \in Leading' THEN 0 ELSE 1) = e /\ Pkts'[done'[a]][k] = x
      BY <3>2, <3>3
    <3> HIDE DEF x, e
    <3>6. x + Len(done') - a + Len(bus) + e <= Issued
      BY <3>1, <3>4, <3>5, <1>b, <1>n
    <3> QED BY <3>4, <3>5, <3>6
  <2>2. ASSUME NEW a \in 1 .. Len(done'), NEW b \in 1 .. Len(done'), a < b,
               done'[a] # Status, done'[b] # Status
        PROVE  <<done'[a], done'[b]>> \in Before'
    <3>1. /\ a + 1 \in 1 .. Len(done) /\ done'[a] = done[a + 1]
          /\ b + 1 \in 1 .. Len(done) /\ done'[b] = done[b + 1] /\ a + 1 < b + 1
      BY <2>2, <1>i, <1>b, <1>n
    <3>2. <<done'[a], done'[b]>> \in Before
      BY <3>1, <2>2, <1>0 DEF DoneOK
    <3> QED BY <3>2, <2>2, <1>l, <1>q
  <2> QED BY <2>1, <2>2, <1>d, <1>u DEF DoneOK
<1>8. CountOK'
  <2>1. uAvailableTxn \in Int /\ NumTxn \in Nat
    BY <1>0, RxXferAssumption DEF TypeOK
  <2>2. Len(done') = Len(done) - 1 /\ Len(bus') = Len(bus) /\ recover' = recover /\ stat' = stat
        /\ uAvailableTxn' = uAvailableTxn + 1
    BY <1>b, <1>u DEF lifeVars
  <2> QED BY <2>1, <2>2, <1>n, <1>0 DEF CountOK
<1>9. LeftOK'
  <2> SUFFICES ASSUME ~recover', pc' = "idle" PROVE uDrvRxCntr = uFwRxCntr \/ bPendingBuffer'
    BY <1>u DEF LeftOK
  <2>1. ~recover /\ uAvailableTxn >= 0 /\ uAvailableTxn \in Int
    BY <1>u, <1>0, FreeAtCompletion DEF lifeVars, TypeOK
  <2>2. uAvailableTxn + 1 # 0
    BY <2>1
  <2> QED BY <2>1, <2>2, <1>c, <1>u, <1>0 DEF LeftOK
<1>10. AccountOK'
  <2>1. ASSUME NEW p \in Packet PROVE p \in PassedOn' \/ p \in UnderWay' <=> p \in PassedOn \/ p \in UnderWay
    <3>1. ASSUME p \in UnderWay PROVE p \in UnderWay' \/ p \in PassedOn'
      <4>1. CASE \E k \in 1 .. Len(aggreg) : aggreg[k] = p
        BY <4>1, <1>u DEF UnderWay
      <4>2. CASE \E a \in 1 .. Len(bus) : \E k \in 1 .. Len(Pkts[bus[a]]) : Pkts[bus[a]][k] = p
        <5>1. \A a \in 1 .. Len(bus') : Pkts'[bus'[a]] = Pkts[bus[a]]
          BY <1>k, <1>j, <1>u
        <5> QED BY <4>2, <5>1, <1>u DEF UnderWay
      <4>3. CASE \E a \in 1 .. Len(done) : /\ done[a] # Status
                                           /\ \E k \in 1 .. Len(Pkts[done[a]]) : Pkts[done[a]][k] = p
        <5> PICK a \in 1 .. Len(done) : /\ done[a] # Status
                                        /\ \E k \in 1 .. Len(Pkts[done[a]]) : Pkts[done[a]][k] = p
          BY <4>3
        <5>1. CASE a = 1
          <6>1. p \in Elems(aTxnStruct[h].pkts)
            BY <5>1, <1>e
          <6>2. aTxnStruct[h].buf = "host" \/ p \in dropped
            BY <5>1, <1>h DEF Sound
          <6> QED BY <6>1, <6>2, <1>c, <1>u DEF PassedOn
        <5>2. CASE a # 1
          <6>1. a - 1 \in 1 .. Len(done') /\ done'[a - 1] = done[a]
            BY <5>2, <1>b, <1>n
          <6>2. Pkts'[done'[a - 1]] = Pkts[done[a]] /\ done'[a - 1] # Status
            BY <6>1, <1>l, <1>j
          <6> QED BY <6>1, <6>2 DEF UnderWay
        <5> QED BY <5>1, <5>2
      <4> QED BY <3>1, <4>1, <4>2, <4>3 DEF UnderWay
    <3>2. ASSUME p \in UnderWay' PROVE p \in UnderWay
      <4>1. CASE \E k \in 1 .. Len(aggreg') : aggreg'[k] = p
        BY <4>1, <1>u DEF UnderWay
      <4>2. CASE \E a \in 1 .. Len(bus') : \E k \in 1 .. Len(Pkts'[bus'[a]]) : Pkts'[bus'[a]][k] = p
        <5>1. \A a \in 1 .. Len(bus') : Pkts'[bus'[a]] = Pkts[bus[a]]
          BY <1>k, <1>j, <1>u
        <5> QED BY <4>2, <5>1, <1>u DEF UnderWay
      <4>3. CASE \E a \in 1 .. Len(done') : /\ done'[a] # Status
                                            /\ \E k \in 1 .. Len(Pkts'[done'[a]]) : Pkts'[done'[a]][k] = p
        <5>1. \A a \in 1 .. Len(done') : done'[a] # Status => Pkts'[done'[a]] = Pkts[done[a + 1]]
          BY <1>i, <1>l, <1>j
        <5> QED BY <4>3, <5>1, <1>i DEF UnderWay
      <4> QED BY <3>2, <4>1, <4>2, <4>3 DEF UnderWay
    <3>3. ASSUME p \in Elems(aTxnStruct[h].pkts) PROVE p \in UnderWay
      BY <3>3, <1>e, <1>b DEF UnderWay
    <3> QED BY <3>1, <3>2, <3>3, <1>c, <1>u DEF PassedOn
  <2> QED BY <2>1, <1>u DEF IndInv, AccountOK
<1> QED BY <1>1, <1>2, <1>3, <1>4, <1>5, <1>6, <1>7, <1>8, <1>9, <1>10 DEF IndInv

LEMMA RestartStep ==
  ASSUME IndInv, Restart
  PROVE  IndInv'
<1>0. TypeOK /\ AggregOK
  BY DEF IndInv
<1>u. /\ bus' = <<>> /\ done' = <<>> /\ uFwRxCntr' = 0 /\ uDrvRxCntr' = 0 /\ uCurrTxnIndex' = 0
      /\ uAvailableTxn' = NumTxn - 1 /\ fwCntr' = 0 /\ fwDrv' = 0 /\ irq' = FALSE /\ stat' = NoStatus
      /\ forwarded' = {} /\ dropped' = {} /\ failed' = {} /\ swallowed' = {} /\ recover' = FALSE
      /\ UNCHANGED <<bPendingBuffer, runVars, turn, errors>> /\ pc = "idle"
  BY DEF Restart
<1>a. aggreg' = <<>> /\ Len(bus') = 0 /\ Len(done') = 0 /\ Len(aggreg') = 0
  BY <1>u, <1>0 DEF AggregOK, runVars
<1>1. TypeOK'
  <2>e. <<>> \in Seq(Packet)
    OBVIOUS
  <2>1. aTxnStruct \in [Index -> Struct]
    BY <1>0 DEF TypeOK, Struct
  <2>2. aTxnStruct' \in [Index -> Struct]
    <3>1. ASSUME NEW t \in Struct, NEW b \in {"none", "host", "dummy"}
          PROVE  [t EXCEPT !.cb = "TxnDone", !.pkts = <<>>, !.buf = b] \in Struct
      BY <2>e, StructKept
    <3>2. ASSUME NEW i \in Index
          PROVE  [aTxnStruct[i] EXCEPT !.cb = "TxnDone", !.pkts = <<>>,
                                       !.buf = IF i \in Released THEN "none" ELSE @] \in Struct
      <4>1. aTxnStruct[i] \in Struct /\ aTxnStruct[i].buf \in {"none", "host", "dummy"}
        BY <2>1 DEF Struct
      <4>2. CASE i \in Released
        BY <3>1, <4>1, <4>2
      <4>3. CASE i \notin Released
        BY <3>1, <4>1, <4>3
      <4> QED BY <4>2, <4>3
    <3> QED BY <3>2 DEF Restart
  <2>3. bus' \in Seq(Index) /\ done' \in Seq(Index \cup {Status}) /\ aggreg' \in Seq(Packet)
    BY <1>u, <1>a
  <2>4. restarts' \in 0 .. MaxRestarts
    <3>1. restarts \in 0 .. MaxRestarts /\ MaxRestarts \in Nat
      BY <1>0, RxXferAssumption DEF TypeOK
    <3>2. CASE recover
      BY <3>1, <3>2 DEF Restart
    <3>3. CASE ~recover
      <4>1. restarts < MaxRestarts /\ restarts' = restarts + 1
        BY <3>3 DEF Restart
      <4> QED BY <3>1, <4>1
    <3> QED BY <3>2, <3>3
  <2>5. uCurrTxnIndex' \in Index /\ uAvailableTxn' \in Int
    BY <1>u, RxXferAssumption DEF Index
  <2>6. uFwRxCntr' \in 0 .. MaxPkts /\ uDrvRxCntr' \in 0 .. MaxPkts /\ fwCntr' \in 0 .. MaxPkts /\ fwDrv' \in 0 .. MaxPkts
    BY <1>u, RxXferAssumption
  <2> QED BY <2>2, <2>3, <2>4, <2>5, <2>6, <1>u, <1>0 DEF TypeOK, Struct, runVars
<1>2. CountersOK'
  BY <1>u, <1>a, RxXferAssumption DEF CountersOK, Issued
<1>3. AggregOK' /\ StatusOK'
  BY <1>u, <1>a DEF AggregOK, StatusOK, NoStatus
<1>4. SlotsOK' /\ BusOK' /\ DoneOK'
  BY <1>a DEF SlotsOK, BusOK, DoneOK
<1>5. CountOK' /\ LeftOK'
  BY <1>u, <1>a, RxXferAssumption DEF CountOK, LeftOK, NoStatus
<1>6. AccountOK'
  BY <1>u, <1>a DEF AccountOK, PassedOn, UnderWay, Packet
<1> QED BY <1>1, <1>2, <1>3, <1>4, <1>5, <1>6 DEF IndInv

------------------------------------------------------------------------------
(* rxXfer_Handle.                                                          *)

\* The next structure is free: one under way would have been used NumTxn reads ago,
\* and its packets would lie more than two windows back.
LEMMA FreeSlot ==
  ASSUME IndInv
  PROVE  uCurrTxnIndex \notin Sound
<1> SUFFICES ASSUME uCurrTxnIndex \in Sound PROVE FALSE
  OBVIOUS
<1> DEFINE u == uCurrTxnIndex
           x == Pkts[u][1]
<1>0. TypeOK /\ CountersOK
  BY DEF IndInv
<1>a. /\ Ahead \in Nat /\ Ahead <= 2 * FwWindow /\ FwWindow \in Nat /\ NumTxn \in Nat
      /\ 2 * FwWindow < NumTxn
  BY RxXferAssumption DEF Ahead
<1>1. u \in Index /\ Pkts[u] # <<>> /\ Behind[u] = NumTxn
  BY <1>0, <1>a DEF Sound, Behind, Index
<1>2. Pkts[u] \in Seq(Packet)
  BY <1>0, <1>1, Typed
<1>3. 1 \in 1 .. Len(Pkts[u])
  BY <1>1, <1>2
<1>4. x \in Nat
  BY <1>0, <1>1, <1>3, Typed
<1>5. x + NumTxn <= Issued /\ uFwRxCntr <= x + Ahead
  BY <1>1, <1>3 DEF Sound
<1>6. Issued <= uFwRxCntr /\ Issued \in Int /\ uFwRxCntr \in Nat
  BY <1>0, Typed DEF CountersOK, Issued
<1> HIDE DEF x
<1> QED BY <1>4, <1>5, <1>6, <1>a

\* A read of the packets that follow the last ones issued, with structure t.
Reads(seq, t) ==
  /\ seq \in Seq(Packet) /\ Len(seq) >= 1
  /\ \A k \in 1 .. Len(seq) : seq[k] = Issued + k - 1
  /\ aggreg' = <<>> /\ uDrvRxCntr' = Issued + Len(seq)
  /\ uDrvRxCntr <= Issued + Len(seq) /\ Issued + Len(seq) <= uFwRxCntr
  /\ t \in Struct /\ aTxnStruct' = [aTxnStruct EXCEPT ![uCurrTxnIndex] = t]
  /\ uCurrTxnIndex' = NextIndex(uCurrTxnIndex)
  /\ dropped \subseteq dropped'
  /\ UNCHANGED <<uFwRxCntr, turn, done, fwCntr, irq, stat>>

\* The structures under way stay as they should.
LEMMA ReadFrame ==
  ASSUME IndInv, NEW seq, NEW t, Reads(seq, t)
  PROVE  /\ \A i \in Sound : i \in Sound' /\ i \in Index /\ i # uCurrTxnIndex
         /\ \A i \in Index : i # uCurrTxnIndex => Pkts'[i] = Pkts[i]
         /\ Pkts'[uCurrTxnIndex] = t.pkts /\ Behind'[uCurrTxnIndex] = 1
         /\ uCurrTxnIndex \in Index /\ aTxnStruct'[uCurrTxnIndex] = t
         /\ uCurrTxnIndex' \in Index /\ aTxnStruct' \in [Index -> Struct]
         /\ Issued' = Issued + Len(seq) /\ Issued \in Int /\ Len(seq) \in Nat /\ Len(seq) >= 1
         /\ Len(aggreg') = 0 /\ aggreg' \in Seq(Packet)
         /\ Ahead' = Ahead /\ Leading' = Leading
<1> DEFINE u == uCurrTxnIndex
<1>0. TypeOK /\ CountersOK
  BY DEF IndInv
<1>1. u \in Index /\ NumTxn \in Nat \ {0}
  BY <1>0, RxXferAssumption DEF TypeOK
<1>2. u' = (IF u = NumTxn - 1 THEN 0 ELSE u + 1) /\ u' \in Index
  <2>1. u' = (IF u = NumTxn - 1 THEN 0 ELSE u + 1)
    BY <1>1, NextIndexValue DEF Reads
  <2> QED BY <1>1, <2>1 DEF Index
<1>3. aTxnStruct \in [Index -> Struct]
  BY <1>0 DEF TypeOK, Struct
<1>4. aTxnStruct'[u] = t /\ aTxnStruct' \in [Index -> Struct]
  BY <1>1, <1>3 DEF Reads
<1>5. \A i \in Index : i # u => aTxnStruct'[i] = aTxnStruct[i] /\ Pkts'[i] = Pkts[i]
  BY <1>1, <1>3 DEF Reads, Pkts
<1>6. Pkts'[u] = t.pkts
  BY <1>1, <1>4 DEF Pkts
<1>7. Behind'[u] = 1
  BY <1>1, <1>2 DEF Behind, Index
<1>8. \A i \in Index : i # u => Behind'[i] = Behind[i] + 1
  BY <1>1, <1>2 DEF Behind, Index
<1>9. Issued' = Issued + Len(seq) /\ Issued \in Int /\ Len(seq) \in Nat /\ Len(seq) >= 1
  <2>1. Issued \in Int /\ Len(seq) \in Nat /\ Len(seq) >= 1 /\ uDrvRxCntr' = Issued + Len(seq)
    BY <1>0, Typed DEF Reads
  <2>2. Len(aggreg') = 0
    BY DEF Reads
  <2>3. Issued' = uDrvRxCntr' - Len(aggreg')
    BY DEF Issued
  <2> QED BY <2>1, <2>2, <2>3
<1>10. Ahead' = Ahead /\ Leading' = Leading
  BY DEF Reads, Ahead, Leading
<1>11. ASSUME NEW i \in Sound PROVE i \in Sound' /\ i \in Index /\ i # u
  <2>1. i \in Index /\ i # u
    BY FreeSlot DEF Sound
  <2>2. \A k \in 1 .. Len(Pkts[i]) : Pkts[i][k] + Behind'[i] <= Issued'
    <3> TAKE k \in 1 .. Len(Pkts[i])
    <3>1. Pkts[i][k] + Behind[i] <= Issued
      BY DEF Sound
    <3>2. Pkts[i][k] \in Nat
      BY <2>1, <1>0, Typed
    <3>3. Behind[i] \in Nat
      BY <2>1, <1>0, <1>1, BehindPositive
    <3>4. Behind'[i] = Behind[i] + 1
      BY <1>8, <2>1
    <3> QED BY <3>1, <3>2, <3>3, <3>4, <1>9
  <2>3. \A k \in 1 .. Len(Pkts[i]) : uFwRxCntr' <= Pkts[i][k] + Ahead'
    BY <1>10 DEF Sound, Reads
  <2>4. aTxnStruct'[i] = aTxnStruct[i] /\ dropped \subseteq dropped'
    BY <1>5, <2>1 DEF Reads
  <2>5. i \in Sound'
    BY <2>2, <2>3, <2>4, SoundKept
  <2> QED BY <2>1, <2>5
<1>12. Len(aggreg') = 0 /\ aggreg' \in Seq(Packet)
  BY DEF Reads
<1> QED BY <1>1, <1>2, <1>4, <1>5, <1>6, <1>7, <1>9, <1>10, <1>11, <1>12

LEMMA ReadBefore ==
  ASSUME IndInv, NEW seq, NEW t, Reads(seq, t), NEW i \in Sound, NEW j \in Sound, <<i, j>> \in Before
  PROVE  <<i, j>> \in Before'
<1>1. i \in Index /\ j \in Index /\ Pkts'[i] = Pkts[i] /\ Pkts'[j] = Pkts[j]
  BY ReadFrame
<1>2. \A k \in 1 .. Len(Pkts[i]), m \in 1 .. Len(Pkts[j]) : Pkts[i][k] < Pkts[j][m]
  BY DEF Before
<1> QED BY <1>1, <1>2 DEF Before

\* What holds however the read is answered.
LEMMA ReadKeeps ==
  ASSUME IndInv, NEW seq, NEW t, Reads(seq, t),
         Len(bus') = Len(bus) \/ Len(bus') = Len(bus) + 1,
         fwDrv' = fwDrv \/ fwDrv' = Issued + Len(seq)
  PROVE  /\ CountersOK' /\ AggregOK' /\ StatusOK' /\ DoneOK'
         /\ \A a \in 1 .. Len(done') : done'[a] # Status => done'[a] \in Sound'
<1>0. TypeOK /\ CountersOK /\ AggregOK /\ StatusOK /\ SlotsOK /\ DoneOK
  BY DEF IndInv
<1>n. /\ Len(bus) \in Nat /\ Len(done) \in Nat /\ Issued \in Int /\ Len(seq) \in Nat /\ Len(seq) >= 1
      /\ fwDrv \in Nat /\ fwCntr \in Nat /\ uFwRxCntr \in Nat /\ uDrvRxCntr \in Nat
  BY <1>0, Typed, ReadFrame
<1>i. Issued' = Issued + Len(seq)
  BY ReadFrame
<1>u. UNCHANGED <<uFwRxCntr, turn, done, fwCntr, irq, stat>>
  BY DEF Reads
<1>1. CountersOK'
  <2>1. fwDrv <= Issued /\ uFwRxCntr <= fwCntr /\ fwCntr <= fwDrv + FwWindow /\ FwWindow \in Nat
    BY <1>0, RxXferAssumption DEF CountersOK
  <2>2. uDrvRxCntr' = Issued + Len(seq) /\ Issued + Len(seq) <= uFwRxCntr
    BY DEF Reads
  <2>3. CASE fwDrv' = fwDrv
    BY <2>1, <2>2, <2>3, <1>n, <1>i, <1>u DEF CountersOK
  <2>4. CASE fwDrv' = Issued + Len(seq)
    <3>1. fwCntr <= Issued + Len(seq) + FwWindow
      BY <2>1, <1>n
    <3> QED BY <2>1, <2>2, <2>4, <3>1, <1>n, <1>i, <1>u DEF CountersOK
  <2> QED BY <2>3, <2>4
<1>2. AggregOK'
  <2>1. aggreg' = <<>> /\ Len(aggreg') = 0
    BY ReadFrame DEF Reads
  <2> QED BY <2>1 DEF AggregOK
<1>3. StatusOK'
  BY <1>0, <1>u DEF StatusOK
<1>4. ASSUME NEW a \in 1 .. Len(done), done[a] # Status
      PROVE  /\ done[a] \in Sound /\ done[a] \in Sound' /\ done[a] \in Index
             /\ Pkts'[done[a]] = Pkts[done[a]]
  <2>1. done[a] \in Sound
    BY <1>4, <1>0 DEF SlotsOK
  <2> QED BY <2>1, ReadFrame
<1>5. DoneOK'
  <2>1. ASSUME NEW a \in 1 .. Len(done), done[a] # Status, NEW k \in 1 .. Len(Pkts'[done[a]])
        PROVE  /\ Pkts'[done[a]][k] < fwDrv'
               /\ Pkts'[done[a]][k] + Len(done) - a + Len(bus') + (IF a \in Leading' THEN 0 ELSE 1) <= Issued'
    <3> DEFINE x == Pkts[done[a]][k]
               e == IF a \in Leading THEN 0 ELSE 1
    <3>1. Pkts'[done[a]] = Pkts[done[a]] /\ done[a] \in Index
      BY <2>1, <1>4
    <3>2. k \in 1 .. Len(Pkts[done[a]])
      BY <2>1, <3>1
    <3>3. x < fwDrv /\ x + Len(done) - a + Len(bus) + e <= Issued
      BY <2>1, <3>2, <1>0 DEF DoneOK
    <3>4. x \in Nat /\ e \in Nat /\ a \in Nat
      <4>1. \A i \in Index : \A m \in 1 .. Len(Pkts[i]) : Pkts[i][m] \in Nat
        BY <1>0, Typed
      <4> QED BY <4>1, <3>1, <3>2, <1>n
    <3>5. Pkts'[done[a]][k] = x /\ (IF a \in Leading' THEN 0 ELSE 1) = e
      BY <3>1, ReadFrame
    <3> HIDE DEF x, e
    <3>6. x < fwDrv'
      <4>1. fwDrv <= Issued
        BY <1>0 DEF CountersOK
      <4>2. x < Issued + Len(seq)
        BY <4>1, <3>3, <3>4, <1>n
      <4> QED BY <4>2, <3>3
    <3>7. x + Len(done) - a + Len(bus') + e <= Issued'
      BY <3>3, <3>4, <1>n, <1>i
    <3> QED BY <3>5, <3>6, <3>7
  <2>2. ASSUME NEW a \in 1 .. Len(done), NEW b \in 1 .. Len(done), a < b,
               done[a] # Status, done[b] # Status
        PROVE  <<done[a], done[b]>> \in Before'
    <3>1. done[a] \in Sound /\ done[b] \in Sound
      BY <2>2, <1>4
    <3>2. <<done[a], done[b]>> \in Before
      BY <2>2, <1>0 DEF DoneOK
    <3> QED BY <3>1, <3>2, ReadBefore
  <2> QED BY <2>1, <2>2, <1>u DEF DoneOK
<1>6. \A a \in 1 .. Len(done') : done'[a] # Status => done'[a] \in Sound'
  BY <1>4, <1>u
<1> QED BY <1>1, <1>2, <1>3, <1>5, <1>6

\* The packets in the structures under way.
InStructs ==
  {p \in Packet :
     \/ \E a \in 1 .. Len(bus) : \E k \in 1 .. Len(Pkts[bus[a]]) : Pkts[bus[a]][k] = p
     \/ \E a \in 1 .. Len(done) : /\ done[a] # Status
                                  /\ \E k \in 1 .. Len(Pkts[done[a]]) : Pkts[done[a]][k] = p}

\* Those that are read were, or will be, aggregated: they are accounted for when they
\* reach a structure or have been passed on.
LEMMA ReadAccount ==
  ASSUME IndInv, NEW seq, NEW t, Reads(seq, t),
         \A p \in Packet : (p \in PassedOn' \/ p \in InStructs') <=>
                           (p \in PassedOn \/ p \in InStructs \/ p \in Elems(seq))
  PROVE  AccountOK'
<1>0. TypeOK /\ AggregOK /\ AccountOK
  BY DEF IndInv
<1>n. /\ Issued \in Int /\ Len(seq) \in Nat /\ Len(seq) >= 1 /\ Len(aggreg) \in Nat
      /\ uDrvRxCntr \in Nat /\ Packet \subseteq Nat
  BY <1>0, Typed, ReadFrame
<1>r. /\ uDrvRxCntr' = Issued + Len(seq) /\ uDrvRxCntr <= Issued + Len(seq)
      /\ \A k \in 1 .. Len(seq) : seq[k] = Issued + k - 1
  BY DEF Reads
<1> SUFFICES ASSUME NEW p \in Packet
             PROVE  p < uDrvRxCntr' <=> p \in PassedOn' \/ p \in UnderWay'
  BY DEF AccountOK
<1>1. p \in UnderWay' <=> p \in InStructs'
  <2>1. Len(aggreg') = 0
    BY ReadFrame
  <2>2. ~ \E k \in 1 .. Len(aggreg') : aggreg'[k] = p
    BY <2>1
  <2> QED BY <2>2, Zenon DEF UnderWay, InStructs
<1>2. p \in UnderWay <=> p \in InStructs \/ \E k \in 1 .. Len(aggreg) : aggreg[k] = p
  BY DEF UnderWay, InStructs
<1>3. \A k \in 1 .. Len(aggreg) : aggreg[k] >= Issued
  <2> TAKE k \in 1 .. Len(aggreg)
  <2>1. aggreg[k] = Issued + k - 1
    BY <1>0 DEF AggregOK
  <2> QED BY <2>1, <1>n
<1>4. p \in Elems(seq) <=> Issued <= p /\ p < Issued + Len(seq)
  <2>1. p \in Elems(seq) <=> \E k \in 1 .. Len(seq) : p = seq[k]
    BY DEF Elems
  <2>2. ASSUME NEW k \in 1 .. Len(seq), p = seq[k] PROVE Issued <= p /\ p < Issued + Len(seq)
    BY <2>2, <1>r, <1>n
  <2>3. ASSUME Issued <= p, p < Issued + Len(seq) PROVE \E k \in 1 .. Len(seq) : p = seq[k]
    <3> DEFINE k == p - Issued + 1
    <3>1. k \in 1 .. Len(seq) /\ p = Issued + k - 1
      BY <2>3, <1>n
    <3> HIDE DEF k
    <3>2. seq[k] = Issued + k - 1
      BY <3>1, <1>r
    <3> QED BY <3>1, <3>2
  <2> QED BY <2>1, <2>2, <2>3
<1>5. p < uDrvRxCntr <=> p \in PassedOn \/ p \in UnderWay
  BY <1>0 DEF AccountOK
<1>6. p \in Nat
  BY <1>n
<1>7. p \in PassedOn \/ p \in InStructs => p < Issued + Len(seq)
  BY <1>5, <1>2, <1>6, <1>r, <1>n
<1>8. p < Issued => p \in PassedOn \/ p \in InStructs
  <2> SUFFICES ASSUME p < Issued PROVE p \in PassedOn \/ p \in InStructs
    OBVIOUS
  <2>1. p < uDrvRxCntr
    BY <1>n, <1>6 DEF Issued
  <2>2. ~ \E k \in 1 .. Len(aggreg) : aggreg[k] = p
    <3> SUFFICES ASSUME NEW k \in 1 .. Len(aggreg), aggreg[k] = p PROVE FALSE
      OBVIOUS
    <3> QED BY <1>3, <1>6, <1>n
  <2> QED BY <2>1, <2>2, <1>2, <1>5
<1>9. p < Issued + Len(seq) <=> p \in PassedOn \/ p \in InStructs \/ p \in Elems(seq)
  BY <1>4, <1>7, <1>8, <1>6, <1>n
<1> QED BY <1>1, <1>9, <1>r

LEMMA ReadType ==
  ASSUME IndInv, NEW seq, NEW t, Reads(seq, t)
  PROVE  uDrvRxCntr' \in 0 .. MaxPkts
<1>1. /\ Issued \in Int /\ Len(seq) \in Nat /\ uDrvRxCntr \in Nat /\ uFwRxCntr \in Nat
      /\ MaxPkts \in Nat /\ uFwRxCntr <= MaxPkts
  <2>1. TypeOK
    BY DEF IndInv
  <2> QED BY <2>1, Typed, ReadFrame, RxXferAssumption DEF TypeOK
<1>2. /\ uDrvRxCntr' = Issued + Len(seq) /\ uDrvRxCntr <= Issued + Len(seq)
      /\ Issued + Len(seq) <= uFwRxCntr
  BY DEF Reads
<1> QED BY <1>1, <1>2

\* The read is served in the call, well or not: no other one is on the bus.
LEMMA ReadServed ==
  ASSUME IndInv, NEW seq, NEW t, Reads(seq, t), bus = <<>>, bus' = bus,
         fwDrv' = fwDrv \/ fwDrv' = Issued + Len(seq),
         uAvailableTxn' = uAvailableTxn, recover' = recover \/ recover',
         PassedOn' = PassedOn \cup Elems(seq)
  PROVE  CountersOK' /\ AggregOK' /\ StatusOK' /\ SlotsOK' /\ BusOK' /\ DoneOK' /\ CountOK' /\ AccountOK'
<1>0. TypeOK /\ SlotsOK /\ CountOK
  BY DEF IndInv
<1>1. Len(bus) = 0 /\ Len(bus') = 0
  OBVIOUS
<1>2. /\ CountersOK' /\ AggregOK' /\ StatusOK' /\ DoneOK'
      /\ \A a \in 1 .. Len(done') : done'[a] # Status => done'[a] \in Sound'
  BY <1>1, ReadKeeps
<1>3. SlotsOK' /\ BusOK'
  BY <1>1, <1>2 DEF SlotsOK, BusOK
<1>4. CountOK'
  <2>1. UNCHANGED <<done, stat, bus, uAvailableTxn>>
    BY DEF Reads
  <2> QED BY <2>1, <1>0 DEF CountOK
<1>5. AccountOK'
  <2>1. ASSUME NEW a \in 1 .. Len(done), done[a] # Status PROVE Pkts'[done[a]] = Pkts[done[a]]
    <3>1. done[a] \in Sound
      BY <2>1, <1>0 DEF SlotsOK
    <3> QED BY <3>1, ReadFrame
  <2>2. done' = done
    BY DEF Reads
  <2>3. InStructs' = InStructs
    BY <2>1, <2>2, <1>1 DEF InStructs
  <2> QED BY <2>3, ReadAccount
<1> QED BY <1>2, <1>3, <1>4, <1>5

\* The read waits for the bus, behind the others.
LEMMA ReadWaits ==
  ASSUME IndInv, NEW seq, NEW t, Reads(seq, t), bus' = Append(bus, uCurrTxnIndex), t.pkts = seq,
         t.buf = "host" \/ (t.cb = "PktDrop" /\ \A k \in 1 .. Len(seq) : seq[k] \in dropped'),
         fwDrv' = fwDrv, uAvailableTxn' = uAvailableTxn - 1, recover' = recover,
         PassedOn \subseteq PassedOn', PassedOn' \subseteq PassedOn \cup Elems(seq)
  PROVE  /\ CountersOK' /\ AggregOK' /\ StatusOK' /\ SlotsOK' /\ BusOK' /\ DoneOK' /\ CountOK'
         /\ AccountOK' /\ bus' \in Seq(Index)
<1> DEFINE u == uCurrTxnIndex
           n == Len(seq)
<1>0. TypeOK /\ CountersOK /\ SlotsOK /\ BusOK /\ CountOK
  BY DEF IndInv
<1>n. /\ Len(bus) \in Nat /\ Len(done) \in Nat /\ Issued \in Int /\ n \in Nat /\ n >= 1
      /\ fwDrv \in Nat /\ fwCntr \in Nat /\ uFwRxCntr \in Nat /\ uDrvRxCntr \in Nat
  BY <1>0, Typed, ReadFrame
<1>f. /\ u \in Index /\ Pkts'[u] = seq /\ Behind'[u] = 1 /\ aTxnStruct'[u] = t
      /\ Issued' = Issued + n /\ Ahead' = Ahead
  BY ReadFrame
<1>r. /\ \A k \in 1 .. n : seq[k] = Issued + k - 1
      /\ Issued + n <= uFwRxCntr /\ UNCHANGED <<uFwRxCntr, done, stat>>
  BY DEF Reads
<1>b. /\ bus' \in Seq(Index) /\ Len(bus') = Len(bus) + 1
      /\ \A a \in 1 .. Len(bus) : bus'[a] = bus[a]
      /\ bus'[Len(bus) + 1] = u
  BY <1>0, <1>f, AppendFacts DEF TypeOK
<1>1. /\ CountersOK' /\ AggregOK' /\ StatusOK' /\ DoneOK'
      /\ \A a \in 1 .. Len(done') : done'[a] # Status => done'[a] \in Sound'
  BY <1>b, ReadKeeps
<1>o. ASSUME NEW a \in 1 .. Len(bus)
      PROVE  /\ bus[a] \in Sound /\ bus[a] \in Sound' /\ bus[a] \in Index
             /\ Pkts'[bus[a]] = Pkts[bus[a]]
  <2>1. bus[a] \in Sound
    BY <1>0 DEF SlotsOK
  <2> QED BY <2>1, ReadFrame
<1>p. \A i \in Index : \A k \in 1 .. Len(Pkts[i]) : Pkts[i][k] \in Nat
  BY <1>0, Typed
<1>k. ASSUME NEW k \in 1 .. n
      PROVE  seq[k] \in Nat /\ Issued <= seq[k] /\ seq[k] < Issued + n
  <2>1. seq[k] = Issued + k - 1
    BY <1>r
  <2>2. fwDrv <= Issued
    BY <1>0 DEF CountersOK
  <2> QED BY <2>1, <2>2, <1>n
<1>2. u \in Sound'
  <2>1. Pkts'[u] # <<>>
    <3>1. Len(<<>>) = 0
      OBVIOUS
    <3> QED BY <3>1, <1>f, <1>n
  <2>2. ASSUME NEW k \in 1 .. n
        PROVE  /\ seq[k] <= seq[n] /\ seq[k] + 1 <= Issued + n /\ uFwRxCntr <= seq[k] + Ahead
    <3>1. seq[k] = Issued + k - 1 /\ seq[n] = Issued + n - 1
      BY <1>r, <1>n
    <3>2. uFwRxCntr <= Issued + FwWindow
      <4>1. uFwRxCntr <= fwCntr /\ fwCntr <= fwDrv + FwWindow /\ fwDrv <= Issued /\ FwWindow \in Nat
        BY <1>0, RxXferAssumption DEF CountersOK
      <4> QED BY <4>1, <1>n
    <3>3. Ahead \in Nat /\ FwWindow <= Ahead /\ FwWindow \in Nat
      BY RxXferAssumption DEF Ahead
    <3>4. seq[k] <= seq[n] /\ seq[k] + 1 <= Issued + n
      BY <3>1, <1>n
    <3>5. Issued <= seq[k] /\ seq[k] \in Nat
      BY <1>k
    <3>6. uFwRxCntr <= seq[k] + Ahead
      BY <3>2, <3>3, <3>5, <1>n
    <3> QED BY <3>4, <3>6
  <2>3. /\ Pkts'[u] = seq /\ Behind'[u] = 1 /\ aTxnStruct'[u] = t /\ Issued' = Issued + n
        /\ Ahead' = Ahead /\ uFwRxCntr' = uFwRxCntr /\ u \in Index
    BY <1>f, <1>r
  <2> QED BY <2>1, <2>2, <2>3 DEF Sound
<1>3. SlotsOK'
  <2>1. ASSUME NEW a \in 1 .. Len(bus') PROVE bus'[a] \in Sound'
    <3>1. a \in 1 .. Len(bus) \/ a = Len(bus) + 1
      BY <1>b, <1>n
    <3> QED BY <3>1, <1>b, <1>o, <1>2
  <2> QED BY <2>1, <1>1 DEF SlotsOK
<1>4. BusOK'
  <2>1. ASSUME NEW a \in 1 .. Len(bus'), NEW k \in 1 .. Len(Pkts'[bus'[a]])
        PROVE  fwDrv <= Pkts'[bus'[a]][k] /\ Pkts'[bus'[a]][k] + Len(bus') - a < Issued'
    <3>1. CASE a \in 1 .. Len(bus)
      <4> DEFINE x == Pkts[bus[a]][k]
      <4>1. bus'[a] = bus[a] /\ Pkts'[bus[a]] = Pkts[bus[a]] /\ bus[a] \in Index
        BY <3>1, <1>b, <1>o
      <4>2. k \in 1 .. Len(Pkts[bus[a]])
        BY <4>1
      <4>3. fwDrv <= x /\ x + Len(bus) - a < Issued
        BY <3>1, <4>2, <1>0 DEF BusOK
      <4>4. x \in Nat /\ a \in Nat /\ Pkts'[bus'[a]][k] = x
        <5>1. x \in Nat
          BY <4>1, <4>2, <1>p
        <5> QED BY <5>1, <4>1
      <4> HIDE DEF x
      <4>5. x + Len(bus') - a < Issued'
        BY <4>3, <4>4, <1>b, <1>n, <1>f
      <4> QED BY <4>3, <4>4, <4>5
    <3>2. CASE a = Len(bus) + 1
      <4>1. Pkts'[bus'[a]] = seq /\ k \in 1 .. n /\ Len(bus') - a = 0 /\ Len(bus') = a
        BY <3>2, <1>b, <1>f, <1>n
      <4>2. fwDrv <= Issued
        BY <1>0 DEF CountersOK
      <4>3. seq[k] \in Nat /\ Issued <= seq[k] /\ seq[k] < Issued + n
        BY <4>1, <1>k
      <4>4. fwDrv <= seq[k] /\ seq[k] + Len(bus') - a < Issued + n
        BY <4>1, <4>2, <4>3, <1>n, <3>2
      <4> QED BY <4>1, <4>4, <1>f
    <3> QED BY <3>1, <3>2, <1>b, <1>n
  <2>2. ASSUME NEW a \in 1 .. Len(bus'), NEW b \in 1 .. Len(bus'), a < b
        PROVE  <<bus'[a], bus'[b]>> \in Before'
    <3>1. a \in 1 .. Len(bus) /\ bus'[a] = bus[a]
      BY <2>2, <1>b, <1>n
    <3>2. CASE b \in 1 .. Len(bus)
      <4>1. bus'[b] = bus[b] /\ <<bus[a], bus[b]>> \in Before
        BY <3>1, <3>2, <2>2, <1>b, <1>0 DEF BusOK
      <4> QED BY <4>1, <3>1, <3>2, <1>o, ReadBefore
    <3>3. CASE b = Len(bus) + 1
      <4>1. bus'[b] = u /\ Pkts'[u] = seq /\ Pkts'[bus[a]] = Pkts[bus[a]] /\ bus[a] \in Index
        BY <3>1, <3>3, <1>b, <1>f, <1>o
      <4>2. ASSUME NEW k \in 1 .. Len(Pkts[bus[a]]), NEW m \in 1 .. n PROVE Pkts[bus[a]][k] < seq[m]
        <5> DEFINE x == Pkts[bus[a]][k]
        <5>1. x + Len(bus) - a < Issued /\ x \in Nat /\ a \in Nat /\ a <= Len(bus)
          <6>1. x \in Nat
            BY <4>1, <1>p
          <6>2. x + Len(bus) - a < Issued
            BY <3>1, <1>0 DEF BusOK
          <6> QED BY <6>1, <6>2, <3>1, <1>n
        <5>2. Issued <= seq[m] /\ seq[m] \in Nat
          BY <1>k
        <5> HIDE DEF x
        <5>3. x < seq[m]
          BY <5>1, <5>2, <1>n
        <5> QED BY <5>3 DEF x
      <4>3. \A k \in 1 .. Len(Pkts'[bus[a]]), m \in 1 .. Len(Pkts'[u]) : Pkts'[bus[a]][k] < Pkts'[u][m]
        BY <4>1, <4>2
      <4>4. <<bus[a], u>> \in Before'
        BY <4>1, <4>3, <1>f DEF Before
      <4> QED BY <4>1, <4>4, <3>1
    <3>4. b \in 1 .. Len(bus) \/ b = Len(bus) + 1
      BY <1>b, <1>n
    <3> QED BY <3>2, <3>3, <3>4
  <2> QED BY <2>1, <2>2 DEF BusOK
<1>5. CountOK'
  <2>1. uAvailableTxn \in Int /\ NumTxn \in Nat
    BY <1>0, RxXferAssumption DEF TypeOK
  <2>2. Len(done') = Len(done) /\ stat' = stat
    BY <1>r
  <2>3. Len(bus') = Len(bus) + 1
    BY <1>b
  <2> QED BY <2>1, <2>2, <2>3, <1>n, <1>0 DEF CountOK
<1>6. AccountOK'
  <2>1. ASSUME NEW a \in 1 .. Len(done), done[a] # Status PROVE Pkts'[done[a]] = Pkts[done[a]]
    <3>1. done[a] \in Sound
      BY <2>1, <1>0 DEF SlotsOK
    <3> QED BY <3>1, ReadFrame
  <2>2. ASSUME NEW p \in Packet PROVE p \in InStructs' <=> p \in InStructs \/ p \in Elems(seq)
    <3>1. p \in Elems(seq) <=> \E k \in 1 .. n : seq[k] = p
      BY DEF Elems
    <3>2. ASSUME NEW a \in 1 .. Len(bus')
          PROVE  (a \in 1 .. Len(bus) /\ Pkts'[bus'[a]] = Pkts[bus[a]]) \/ Pkts'[bus'[a]] = seq
      <4>1. a \in 1 .. Len(bus) \/ a = Len(bus) + 1
        BY <1>b, <1>n
      <4> QED BY <4>1, <1>b, <1>o, <1>f
    <3>3. ASSUME p \in Elems(seq) PROVE p \in InStructs'
      <4>1. Len(bus) + 1 \in 1 .. Len(bus') /\ Pkts'[bus'[Len(bus) + 1]] = seq
        BY <1>b, <1>n, <1>f
      <4> QED BY <3>1, <3>3, <4>1 DEF InStructs
    <3>4. ASSUME NEW a \in 1 .. Len(bus)
          PROVE  a \in 1 .. Len(bus') /\ Pkts'[bus'[a]] = Pkts[bus[a]]
      BY <1>b, <1>n, <1>o
    <3>5. ASSUME p \in InStructs PROVE p \in InStructs'
      <4>1. CASE \E a \in 1 .. Len(bus) : \E k \in 1 .. Len(Pkts[bus[a]]) : Pkts[bus[a]][k] = p
        <5> PICK a \in 1 .. Len(bus) : \E k \in 1 .. Len(Pkts[bus[a]]) : Pkts[bus[a]][k] = p
          BY <4>1
        <5>1. a \in 1 .. Len(bus') /\ Pkts'[bus'[a]] = Pkts[bus[a]]
          BY <3>4
        <5> QED BY <5>1 DEF InStructs
      <4>2. CASE \E a \in 1 .. Len(done) : /\ done[a] # Status
                                           /\ \E k \in 1 .. Len(Pkts[done[a]]) : Pkts[done[a]][k] = p
        <5>1. done' = done
          BY <1>r
        <5> QED BY <4>2, <5>1, <2>1 DEF InStructs
      <4> QED BY <3>5, <4>1, <4>2 DEF InStructs
    <3>6. ASSUME p \in InStructs' PROVE p \in InStructs \/ p \in Elems(seq)
      <4>1. CASE \E a \in 1 .. Len(bus') : \E k \in 1 .. Len(Pkts'[bus'[a]]) : Pkts'[bus'[a]][k] = p
        <5> PICK a \in 1 .. Len(bus') : \E k \in 1 .. Len(Pkts'[bus'[a]]) : Pkts'[bus'[a]][k] = p
          BY <4>1
        <5>1. CASE a \in 1 .. Len(bus) /\ Pkts'[bus'[a]] = Pkts[bus[a]]
          BY <5>1 DEF InStructs
        <5>2. CASE Pkts'[bus'[a]] = seq
          BY <5>2, <3>1
        <5> QED BY <5>1, <5>2, <3>2
      <4>2. CASE \E a \in 1 .. Len(done') : /\ done'[a] # Status
                                            /\ \E k \in 1 .. Len(Pkts'[done'[a]]) : Pkts'[done'[a]][k] = p
        <5>1. done' = done
          BY <1>r
        <5> QED BY <4>2, <5>1, <2>1 DEF InStructs
      <4> QED BY <3>6, <4>1, <4>2 DEF InStructs
    <3> QED BY <3>3, <3>5, <3>6
  <2>3. \A p \in Packet : (p \in PassedOn' \/ p \in InStructs') <=>
                          (p \in PassedOn \/ p \in InStructs \/ p \in Elems(seq))
    BY <2>2
  <2> QED BY <2>3, ReadAccount
<1> QED BY <1>1, <1>3, <1>4, <1>5, <1>6, <1>b

\* rxXfer_IssueTxn: the read is served in the call, waits for the bus, or fails.
LEMMA IssueKeeps ==
  ASSUME IndInv, NEW seq \in Seq(Packet), IssueTxn(Filled(seq)), Len(seq) >= 1,
         \A k \in 1 .. Len(seq) : seq[k] = Issued + k - 1,
         aggreg' = <<>>, uDrvRxCntr' = Issued + Len(seq),
         uDrvRxCntr <= Issued + Len(seq), Issued + Len(seq) <= uFwRxCntr,
         UNCHANGED <<uFwRxCntr, turn, done, fwCntr, irq, stat, dropped, swallowed, restarts>>,
         pc' \in {"idle", "loop"}, bPendingBuffer' \in BOOLEAN
  PROVE  /\ TypeOK' /\ CountersOK' /\ AggregOK' /\ StatusOK' /\ SlotsOK' /\ BusOK' /\ DoneOK'
         /\ CountOK' /\ AccountOK'
         /\ recover => recover'
         /\ bus' = <<>> \/ forwarded' = forwarded
<1> DEFINE u == uCurrTxnIndex
           full == Filled(seq)
           empty == Forwarded(full)
<1>0. TypeOK
  BY DEF IndInv
<1>1. aTxnStruct[u] \in Struct
  BY <1>0 DEF TypeOK, Struct
<1>2. full \in Struct /\ full.pkts = seq /\ full.buf = "host"
  <2>1. full \in Struct
    BY <1>1, StructKept DEF Filled
  <2>2. full.pkts = seq /\ full.buf = "host"
    BY <1>1 DEF Filled, Struct
  <2> QED BY <2>1, <2>2
<1>3. empty \in Struct
  <2>1. <<>> \in Seq(Packet)
    OBVIOUS
  <2> QED BY <1>2, <2>1, StructKept DEF Forwarded
<1>i. IssueTxn(full)
  OBVIOUS
<1> HIDE DEF full, empty
<1>e. Elems(seq) \subseteq Packet
  BY DEF Elems
<1>5. /\ aTxnStruct' \in [Index -> Struct]
      /\ uCurrTxnIndex' \in Index /\ uDrvRxCntr' \in 0 .. MaxPkts /\ fwDrv' \in 0 .. MaxPkts
      /\ bus' \in Seq(Index) /\ forwarded' \subseteq Packet /\ failed' \subseteq Packet
      /\ recover' \in BOOLEAN /\ errors' \in 0 .. MaxErrors /\ uAvailableTxn' \in Int
      /\ CountersOK' /\ AggregOK' /\ StatusOK' /\ SlotsOK' /\ BusOK' /\ DoneOK'
      /\ CountOK' /\ AccountOK'
      /\ recover => recover'
      /\ bus' = <<>> \/ forwarded' = forwarded
  <2>0. uCurrTxnIndex' = NextIndex(uCurrTxnIndex)
    BY <1>i DEF IssueTxn
  <2>1. CASE /\ bus = <<>> /\ aTxnStruct' = [aTxnStruct EXCEPT ![u] = empty]
             /\ forwarded' = forwarded \cup Elems(seq)
             /\ fwDrv' = uDrvRxCntr'
             /\ UNCHANGED <<bus, uAvailableTxn, failed, recover, errors>>
    <3>1. Reads(seq, empty)
      BY <2>0, <2>1, <1>3 DEF Reads
    <3>2. PassedOn' = PassedOn \cup Elems(seq)
      BY <2>1 DEF PassedOn
    <3>3. /\ CountersOK' /\ AggregOK' /\ StatusOK' /\ SlotsOK' /\ BusOK' /\ DoneOK' /\ CountOK'
          /\ AccountOK'
      BY <2>1, <3>1, <3>2, ReadServed
    <3>4. aTxnStruct' \in [Index -> Struct] /\ uCurrTxnIndex' \in Index /\ uDrvRxCntr' \in 0 .. MaxPkts
      BY <3>1, ReadFrame, ReadType
    <3> QED BY <2>1, <3>3, <3>4, <1>0, <1>e DEF TypeOK
  <2>2. CASE /\ aTxnStruct' = [aTxnStruct EXCEPT ![u] = full]
             /\ bus' = Append(bus, u) /\ uAvailableTxn' = uAvailableTxn - 1
             /\ forwarded' = forwarded
             /\ UNCHANGED <<fwDrv, failed, recover, errors>>
    <3>1. Reads(seq, full)
      BY <2>0, <2>2, <1>2 DEF Reads
    <3>2. PassedOn \subseteq PassedOn' /\ PassedOn' \subseteq PassedOn \cup Elems(seq)
      BY <2>2 DEF PassedOn
    <3>3. /\ CountersOK' /\ AggregOK' /\ StatusOK' /\ SlotsOK' /\ BusOK' /\ DoneOK' /\ CountOK'
          /\ AccountOK' /\ bus' \in Seq(Index)
      BY <2>2, <3>1, <3>2, <1>2, ReadWaits
    <3>4. aTxnStruct' \in [Index -> Struct] /\ uCurrTxnIndex' \in Index /\ uDrvRxCntr' \in 0 .. MaxPkts
      BY <3>1, ReadFrame, ReadType
    <3>5. /\ fwDrv' \in 0 .. MaxPkts /\ forwarded' \subseteq Packet /\ failed' \subseteq Packet
          /\ recover' \in BOOLEAN /\ errors' \in 0 .. MaxErrors /\ uAvailableTxn' \in Int
      BY <2>2, <1>0 DEF TypeOK
    <3> QED BY <2>2, <3>3, <3>4, <3>5, Zenon
  <2>3. CASE /\ bus = <<>> /\ errors < MaxErrors /\ errors' = errors + 1
             /\ aTxnStruct' = [aTxnStruct EXCEPT ![u] = full]
             /\ failed' = failed \cup Elems(seq) /\ recover' = TRUE
             /\ forwarded' = forwarded
             /\ UNCHANGED <<bus, fwDrv, uAvailableTxn>>
    <3>1. Reads(seq, full)
      BY <2>0, <2>3, <1>2 DEF Reads
    <3>2. PassedOn' = PassedOn \cup Elems(seq)
      BY <2>3 DEF PassedOn
    <3>3. /\ CountersOK' /\ AggregOK' /\ StatusOK' /\ SlotsOK' /\ BusOK' /\ DoneOK' /\ CountOK'
          /\ AccountOK'
      BY <2>3, <3>1, <3>2, ReadServed
    <3>4. aTxnStruct' \in [Index -> Struct] /\ uCurrTxnIndex' \in Index /\ uDrvRxCntr' \in 0 .. MaxPkts
      BY <3>1, ReadFrame, ReadType
    <3>5. errors' \in 0 .. MaxErrors
      BY <2>3, <1>0, RxXferAssumption DEF TypeOK
    <3> QED BY <2>3, <3>3, <3>4, <3>5, <1>0, <1>e DEF TypeOK
  <2> QED BY <2>1, <2>2, <2>3, <1>i, <1>2 DEF IssueTxn, ServedAtOnce, Forward, NotForwarded, OntoBus, OneLess, empty
<1>6. TypeOK'
  <2>1. aggreg' \in Seq(Packet)
    OBVIOUS
  <2> QED BY <1>5, <2>1, <1>0 DEF TypeOK, Struct
<1> QED BY <1>5, <1>6

\* What rxXfer_Handle knows of the counters: it compares them modulo the number of
\* descriptors, and the firmware's window is smaller than that.
LEMMA MorePacketsFacts ==
  ASSUME IndInv
  PROVE  /\ Issued \in Int /\ Issued = uDrvRxCntr - Len(aggreg) /\ Len(aggreg) \in Nat
         /\ uDrvRxCntr \in Nat /\ uFwRxCntr \in Nat /\ uDrvRxCntr <= uFwRxCntr
         /\ MorePackets => uDrvRxCntr + 1 <= uFwRxCntr /\ uDrvRxCntr \in Packet
         /\ ~MorePackets => uDrvRxCntr = uFwRxCntr
<1>0. TypeOK /\ CountersOK
  BY DEF IndInv
<1>n. /\ fwDrv \in Nat /\ fwCntr \in Nat /\ uFwRxCntr \in Nat /\ uDrvRxCntr \in Nat
      /\ Len(aggreg) \in Nat /\ Issued \in Int /\ Issued = uDrvRxCntr - Len(aggreg)
      /\ uFwRxCntr <= MaxPkts /\ MaxPkts \in Nat
  BY <1>0, Typed, RxXferAssumption DEF Issued, TypeOK
<1>c. /\ fwDrv <= Issued /\ uDrvRxCntr <= uFwRxCntr
      /\ uFwRxCntr <= fwCntr /\ fwCntr <= fwDrv + FwWindow
  BY <1>0 DEF CountersOK
<1>a. FwWindow \in Nat /\ FwWindow < NumDesc /\ NumDesc \in Nat \ {0}
  BY RxXferAssumption
<1>1. MorePackets => uDrvRxCntr + 1 <= uFwRxCntr /\ uDrvRxCntr \in Packet
  <2> SUFFICES ASSUME MorePackets PROVE uDrvRxCntr + 1 <= uFwRxCntr /\ uDrvRxCntr \in Packet
    OBVIOUS
  <2>1. uDrvRxCntr # uFwRxCntr
    BY DEF MorePackets
  <2> QED BY <2>1, <1>n, <1>c DEF Packet
<1>2. ~MorePackets => uDrvRxCntr = uFwRxCntr
  <2> SUFFICES ASSUME ~MorePackets PROVE uDrvRxCntr = uFwRxCntr
    OBVIOUS
  <2>1. uDrvRxCntr % NumDesc = uFwRxCntr % NumDesc
    BY DEF MorePackets
  <2>2. uFwRxCntr < uDrvRxCntr + NumDesc
    BY <1>n, <1>c, <1>a
  <2>3. uDrvRxCntr \in Int /\ uFwRxCntr \in Int /\ uDrvRxCntr <= uFwRxCntr
    BY <1>n, <1>c
  <2> QED BY <2>1, <2>2, <2>3, <1>a, ModEqual
<1> QED BY <1>1, <1>2, <1>n, <1>c

\* What was aggregated is issued, if anything was.
LEMMA RestIssued ==
  ASSUME IndInv, IssueIfAny \/ (aggreg # <<>> /\ IssueTxn(Filled(aggreg))),
         aggreg' = <<>>, UNCHANGED uDrvRxCntr,
         UNCHANGED <<uFwRxCntr, turn, done, fwCntr, irq, stat, dropped, swallowed, restarts>>,
         pc' \in {"idle", "loop"}, bPendingBuffer' \in BOOLEAN
  PROVE  /\ TypeOK' /\ CountersOK' /\ AggregOK' /\ StatusOK' /\ SlotsOK' /\ BusOK' /\ DoneOK'
         /\ CountOK' /\ AccountOK'
         /\ recover => recover'
         /\ bus' = <<>> \/ forwarded' = forwarded
<1>0. TypeOK /\ AggregOK
  BY DEF IndInv
<1>1. CASE aggreg # <<>>
  <2>1. aggreg \in Seq(Packet) /\ Len(aggreg) \in Nat
    BY <1>0, Typed
  <2>2. Len(aggreg) >= 1
    BY <1>1, <2>1
  <2>3. \A k \in 1 .. Len(aggreg) : aggreg[k] = Issued + k - 1
    BY <1>0 DEF AggregOK
  <2>4. Issued + Len(aggreg) = uDrvRxCntr /\ uDrvRxCntr <= uFwRxCntr /\ uDrvRxCntr <= uDrvRxCntr
    BY MorePacketsFacts
  <2>5. IssueTxn(Filled(aggreg))
    BY <1>1 DEF IssueIfAny
  <2>6. /\ uDrvRxCntr' = Issued + Len(aggreg) /\ uDrvRxCntr <= Issued + Len(aggreg)
        /\ Issued + Len(aggreg) <= uFwRxCntr
    BY <2>4
  <2> QED BY <2>1, <2>2, <2>3, <2>5, <2>6, IssueKeeps
<1>2. CASE aggreg = <<>>
  <2>1. UNCHANGED <<aTxnStruct, uCurrTxnIndex, uAvailableTxn, bus, fwDrv, forwarded, failed, recover, errors, aggreg>>
    BY <1>2 DEF IssueIfAny, NoIssue
  <2>2. Issued' = Issued /\ Pkts' = Pkts /\ Before' = Before /\ Leading' = Leading
    BY <2>1, PktsKept DEF Issued, Leading
  <2>3. Sound' = Sound
    <3>1. Ahead' = Ahead
      BY DEF Ahead
    <3> QED BY <2>1, <3>1, AllSoundKept
  <2>4. TypeOK'
    BY <2>1, <1>0 DEF TypeOK
  <2>5. CountersOK' /\ StatusOK' /\ CountOK'
    BY <2>1, <2>2 DEF IndInv, CountersOK, StatusOK, CountOK
  <2>6. AggregOK'
    BY <2>1, <1>2, <1>0, <2>2 DEF AggregOK
  <2>7. SlotsOK' /\ BusOK' /\ DoneOK'
    BY <2>1, <2>2, <2>3 DEF IndInv, SlotsOK, BusOK, DoneOK
  <2>8. AccountOK'
    BY <2>1, UnderWayKept DEF IndInv, AccountOK, PassedOn
  <2> QED BY <2>1, <2>4, <2>5, <2>6, <2>7, <2>8
<1> QED BY <1>1, <1>2

LEMMA HandleTooLongStep ==
  ASSUME IndInv, HandleTooLong
  PROVE  IndInv' /\ (bus' = <<>> \/ forwarded' = forwarded)
<1>0. TypeOK
  BY DEF IndInv
<1>1. pc = "loop" /\ pc' = "loop" /\ bPendingBuffer' \in BOOLEAN
  BY <1>0 DEF HandleTooLong, Looping, TypeOK
<1>2. LeftOK'
  BY <1>1 DEF LeftOK
<1> QED BY <1>1, <1>2, RestIssued DEF HandleTooLong, IndInv

LEMMA HandlePendingStep ==
  ASSUME IndInv, HandlePending
  PROVE  IndInv' /\ (bus' = <<>> \/ forwarded' = forwarded)
<1>1. pc' = "idle" /\ bPendingBuffer' = TRUE
  BY DEF HandlePending
<1>2. LeftOK'
  BY <1>1 DEF LeftOK
<1> QED BY <1>1, <1>2, RestIssued DEF HandlePending, IndInv

LEMMA HandleNoMoreStep ==
  ASSUME IndInv, HandleNoMore
  PROVE  IndInv' /\ (bus' = <<>> \/ forwarded' = forwarded)
<1>0. TypeOK
  BY DEF IndInv
<1>1. pc' = "idle" /\ bPendingBuffer' \in BOOLEAN
  BY <1>0 DEF HandleNoMore, TypeOK
<1>2. LeftOK'
  <2>1. uDrvRxCntr = uFwRxCntr
    BY MorePacketsFacts DEF HandleNoMore
  <2> QED BY <2>1 DEF LeftOK, HandleNoMore
<1> QED BY <1>1, <1>2, RestIssued DEF HandleNoMore, IndInv

\* A packet is aggregated, and nothing is issued yet.
LEMMA AggregateStep ==
  ASSUME IndInv, HandlePacket, aggreg' = Append(aggreg, uDrvRxCntr), NoIssue
  PROVE  IndInv' /\ forwarded' = forwarded
<1> DEFINE n == Len(aggreg)
<1>0. TypeOK /\ CountersOK /\ AggregOK /\ AccountOK
  BY DEF IndInv
<1>m. /\ Issued \in Int /\ Issued = uDrvRxCntr - n /\ n \in Nat /\ uDrvRxCntr \in Nat
      /\ uFwRxCntr \in Nat /\ uDrvRxCntr + 1 <= uFwRxCntr /\ uDrvRxCntr \in Packet
  BY MorePacketsFacts DEF HandlePacket
<1>u. /\ UNCHANGED <<aTxnStruct, uCurrTxnIndex, uAvailableTxn, bus, fwDrv, forwarded, failed, recover, errors>>
      /\ UNCHANGED <<uFwRxCntr, bPendingBuffer, pc, turn, done, fwCntr, irq, stat, dropped, swallowed, restarts>>
      /\ uDrvRxCntr' = uDrvRxCntr + 1 /\ pc = "loop"
  BY DEF NoIssue, HandlePacket, Looping
<1>a. /\ aggreg' \in Seq(Packet) /\ Len(aggreg') = n + 1
      /\ \A k \in 1 .. n : aggreg'[k] = aggreg[k]
      /\ aggreg'[n + 1] = uDrvRxCntr
  <2>1. aggreg \in Seq(Packet)
    BY <1>0, Typed
  <2> QED BY <2>1, <1>m, AppendFacts
<1>i. Issued' = Issued
  BY <1>a, <1>u, <1>m DEF Issued
<1>d. Pkts' = Pkts /\ Before' = Before /\ Leading' = Leading
  BY <1>u, PktsKept DEF Leading
<1>1. TypeOK'
  <2>1. uDrvRxCntr' \in 0 .. MaxPkts
    <3>1. uFwRxCntr <= MaxPkts /\ MaxPkts \in Nat
      BY <1>0, RxXferAssumption DEF TypeOK
    <3> QED BY <3>1, <1>u, <1>m
  <2> QED BY <2>1, <1>u, <1>a, <1>0 DEF TypeOK
<1>2. CountersOK'
  BY <1>u, <1>i, <1>m, <1>0 DEF CountersOK
<1>3. AggregOK'
  <2>1. ASSUME NEW k \in 1 .. n + 1 PROVE aggreg'[k] = Issued + k - 1
    <3>1. CASE k \in 1 .. n
      BY <3>1, <1>a, <1>0 DEF AggregOK
    <3>2. CASE k = n + 1
      BY <3>2, <1>a, <1>m
    <3> QED BY <3>1, <3>2, <1>m
  <2> QED BY <2>1, <1>a, <1>i, <1>u DEF AggregOK
<1>4. StatusOK' /\ CountOK' /\ LeftOK'
  BY <1>u DEF IndInv, StatusOK, CountOK, LeftOK
<1>5. SlotsOK' /\ BusOK' /\ DoneOK'
  <2>1. Sound' = Sound
    <3>1. Ahead' = Ahead /\ Behind' = Behind
      BY <1>u DEF Ahead, Behind
    <3> QED BY <3>1, <1>d, <1>i, <1>u DEF Sound
  <2> QED BY <2>1, <1>u, <1>d, <1>i DEF IndInv, SlotsOK, BusOK, DoneOK
<1>6. AccountOK'
  <2> SUFFICES ASSUME NEW p \in Packet PROVE p < uDrvRxCntr' <=> p \in PassedOn' \/ p \in UnderWay'
    BY DEF AccountOK
  <2>1. p < uDrvRxCntr <=> p \in PassedOn \/ p \in UnderWay
    BY <1>0 DEF AccountOK
  <2>2. (\E k \in 1 .. Len(aggreg') : aggreg'[k] = p) <=> (\E k \in 1 .. n : aggreg[k] = p) \/ p = uDrvRxCntr
    BY <1>a, <1>m
  <2>3. p \in UnderWay' <=> p \in UnderWay \/ p = uDrvRxCntr
    <3>1. UNCHANGED <<bus, done, Pkts>>
      BY <1>u, <1>d
    <3> QED BY <2>2, <3>1 DEF UnderWay
  <2>4. PassedOn' = PassedOn
    BY <1>u DEF PassedOn
  <2>5. p \in Nat
    BY <1>0, Typed
  <2>6. p < uDrvRxCntr + 1 <=> p < uDrvRxCntr \/ p = uDrvRxCntr
    BY <2>5, <1>m
  <2> QED BY <2>1, <2>3, <2>4, <2>6, <1>u
<1> QED BY <1>1, <1>2, <1>3, <1>4, <1>5, <1>6, <1>u DEF IndInv

LEMMA HandlePacketStep ==
  ASSUME IndInv, HandlePacket
  PROVE  IndInv' /\ (bus' = <<>> \/ forwarded' = forwarded)
<1>1. CASE aggreg' = Append(aggreg, uDrvRxCntr) /\ NoIssue
  BY <1>1, AggregateStep
<1>2. CASE aggreg' = <<>> /\ IssueTxn(Filled(Append(aggreg, uDrvRxCntr)))
  <2> DEFINE seq == Append(aggreg, uDrvRxCntr)
             n == Len(aggreg)
  <2>0. TypeOK /\ AggregOK
    BY DEF IndInv
  <2>m. /\ Issued \in Int /\ Issued = uDrvRxCntr - n /\ n \in Nat /\ uDrvRxCntr \in Nat
        /\ uFwRxCntr \in Nat /\ uDrvRxCntr + 1 <= uFwRxCntr /\ uDrvRxCntr \in Packet
    BY MorePacketsFacts DEF HandlePacket
  <2>a. /\ seq \in Seq(Packet) /\ Len(seq) = n + 1
        /\ \A k \in 1 .. n : seq[k] = aggreg[k]
        /\ seq[n + 1] = uDrvRxCntr
    <3>1. aggreg \in Seq(Packet)
      BY <2>0, Typed
    <3> QED BY <3>1, <2>m, AppendFacts
  <2>i. IssueTxn(Filled(seq)) /\ aggreg' = <<>>
    BY <1>2
  <2> HIDE DEF seq
  <2>1. \A k \in 1 .. Len(seq) : seq[k] = Issued + k - 1
    <3> TAKE k \in 1 .. Len(seq)
    <3>1. CASE k \in 1 .. n
      BY <3>1, <2>a, <2>0 DEF AggregOK
    <3>2. CASE k = n + 1
      BY <3>2, <2>a, <2>m
    <3> QED BY <3>1, <3>2, <2>a, <2>m
  <2>2. /\ uDrvRxCntr' = Issued + Len(seq) /\ uDrvRxCntr <= Issued + Len(seq)
        /\ Issued + Len(seq) <= uFwRxCntr /\ Len(seq) >= 1
    <3>1. uDrvRxCntr' = uDrvRxCntr + 1
      BY DEF HandlePacket
    <3> QED BY <3>1, <2>a, <2>m
  <2>3. /\ UNCHANGED <<uFwRxCntr, turn, done, fwCntr, irq, stat, dropped, swallowed, restarts>>
        /\ pc' = "loop" /\ bPendingBuffer' \in BOOLEAN
    BY <2>0 DEF HandlePacket, Looping, TypeOK
  <2>4. LeftOK'
    BY <2>3 DEF LeftOK
  <2> QED BY <2>a, <2>i, <2>1, <2>2, <2>3, <2>4, IssueKeeps DEF IndInv
<1> QED BY <1>1, <1>2 DEF HandlePacket

\* A packet that is read into the dummy buffer.
LEMMA HandleDropStep ==
  ASSUME IndInv, HandleDrop
  PROVE  IndInv' /\ forwarded' = forwarded
<1> DEFINE seq == <<uDrvRxCntr>>
           full == Dummy(seq)
           empty == Dummy(<<>>)
<1>0. TypeOK
  BY DEF IndInv
<1>m. /\ Issued \in Int /\ Issued = uDrvRxCntr - Len(aggreg) /\ Len(aggreg) \in Nat /\ uDrvRxCntr \in Nat
      /\ uFwRxCntr \in Nat /\ uDrvRxCntr + 1 <= uFwRxCntr /\ uDrvRxCntr \in Packet
  BY MorePacketsFacts DEF HandleDrop
<1>u. /\ aggreg = <<>> /\ uDrvRxCntr' = uDrvRxCntr + 1 /\ dropped' = dropped \cup {uDrvRxCntr}
      /\ uCurrTxnIndex' = NextIndex(uCurrTxnIndex)
      /\ UNCHANGED <<uFwRxCntr, bPendingBuffer, pc, aggreg, turn, done, fwCntr, irq, stat, forwarded,
                     swallowed, restarts>>
      /\ pc = "loop"
  BY DEF HandleDrop, Looping
<1>i. Issued = uDrvRxCntr
  <2>1. Len(aggreg) = 0
    BY <1>u
  <2> QED BY <2>1, <1>m
<1>s. /\ seq \in Seq(Packet) /\ Len(seq) = 1 /\ Elems(seq) = {uDrvRxCntr} /\ seq[1] = uDrvRxCntr
      /\ \A k \in 1 .. Len(seq) : k = 1 /\ seq[k] = Issued + k - 1 /\ seq[k] \in dropped'
  <2>1. seq \in Seq(Packet) /\ Len(seq) = 1 /\ seq[1] = uDrvRxCntr
    BY <1>m
  <2>2. Elems(seq) = {uDrvRxCntr}
    BY <2>1 DEF Elems
  <2>3. \A k \in 1 .. Len(seq) : k = 1
    BY <2>1
  <2>4. seq[1] = Issued + 1 - 1 /\ seq[1] \in dropped'
    BY <2>1, <1>i, <1>u, <1>m
  <2> QED BY <2>1, <2>2, <2>3, <2>4
<1>t. full \in Struct /\ empty \in Struct /\ full.pkts = seq /\ full.cb = "PktDrop"
  <2>1. <<>> \in Seq(Packet) /\ Fresh \in Struct
    BY DEF Fresh, Struct
  <2>2. full \in Struct /\ empty \in Struct
    BY <2>1, <1>s, StructKept DEF Dummy
  <2> QED BY <2>2 DEF Dummy
<1> HIDE DEF full, empty, seq
<1>r. ASSUME NEW t \in Struct, aTxnStruct' = [aTxnStruct EXCEPT ![uCurrTxnIndex] = t] PROVE Reads(seq, t)
  <2>1. /\ uDrvRxCntr' = Issued + Len(seq) /\ uDrvRxCntr <= Issued + Len(seq)
        /\ Issued + Len(seq) <= uFwRxCntr /\ Len(seq) >= 1
    BY <1>u, <1>i, <1>s, <1>m
  <2> QED BY <1>r, <2>1, <1>u, <1>s DEF Reads
<1>p. ASSUME failed' = failed \/ failed' = failed \cup {uDrvRxCntr}
      PROVE  PassedOn' = PassedOn \cup Elems(seq)
  BY <1>p, <1>u, <1>s DEF PassedOn
<1>1. /\ CountersOK' /\ AggregOK' /\ StatusOK' /\ SlotsOK' /\ BusOK' /\ DoneOK' /\ CountOK'
      /\ AccountOK' /\ bus' \in Seq(Index) /\ aTxnStruct' \in [Index -> Struct]
      /\ uCurrTxnIndex' \in Index /\ uDrvRxCntr' \in 0 .. MaxPkts
      /\ uAvailableTxn' \in Int /\ fwDrv' \in 0 .. MaxPkts
      /\ failed' \subseteq Packet /\ recover' \in BOOLEAN /\ errors' \in 0 .. MaxErrors
      /\ recover => recover'
  <2>1. CASE /\ bus = <<>> /\ aTxnStruct' = [aTxnStruct EXCEPT ![uCurrTxnIndex] = empty]
             /\ fwDrv' = uDrvRxCntr' /\ UNCHANGED <<bus, uAvailableTxn, failed, recover, errors>>
    <3>1. Reads(seq, empty)
      BY <2>1, <1>r, <1>t
    <3>2. fwDrv' = Issued + Len(seq) /\ recover' = recover
      BY <2>1, <3>1, <1>u DEF Reads
    <3>3. /\ CountersOK' /\ AggregOK' /\ StatusOK' /\ SlotsOK' /\ BusOK' /\ DoneOK' /\ CountOK'
          /\ AccountOK'
      BY <2>1, <3>1, <3>2, <1>p, ReadServed
    <3>4. aTxnStruct' \in [Index -> Struct] /\ uCurrTxnIndex' \in Index /\ uDrvRxCntr' \in 0 .. MaxPkts
      BY <3>1, ReadFrame, ReadType
    <3> QED BY <2>1, <3>3, <3>4, <1>0 DEF TypeOK
  <2>2. CASE /\ bus' = Append(bus, uCurrTxnIndex)
             /\ aTxnStruct' = [aTxnStruct EXCEPT ![uCurrTxnIndex] = full]
             /\ uAvailableTxn' = uAvailableTxn - 1
             /\ UNCHANGED <<fwDrv, failed, recover, errors>>
    <3>1. Reads(seq, full)
      BY <2>2, <1>r, <1>t
    <3>2. recover' = recover /\ (full.cb = "PktDrop" /\ \A k \in 1 .. Len(seq) : seq[k] \in dropped')
      BY <2>2, <1>u, <1>s, <1>t
    <3>3. /\ CountersOK' /\ AggregOK' /\ StatusOK' /\ SlotsOK' /\ BusOK' /\ DoneOK' /\ CountOK'
          /\ AccountOK' /\ bus' \in Seq(Index)
      BY <2>2, <3>1, <3>2, <1>p, <1>t, ReadWaits
    <3>4. aTxnStruct' \in [Index -> Struct] /\ uCurrTxnIndex' \in Index /\ uDrvRxCntr' \in 0 .. MaxPkts
      BY <3>1, ReadFrame, ReadType
    <3> QED BY <2>2, <3>3, <3>4, <1>0 DEF TypeOK
  <2>3. CASE /\ bus = <<>> /\ errors < MaxErrors /\ errors' = errors + 1
             /\ aTxnStruct' = [aTxnStruct EXCEPT ![uCurrTxnIndex] = full]
             /\ failed' = failed \cup {uDrvRxCntr} /\ recover' = TRUE
             /\ UNCHANGED <<bus, fwDrv, uAvailableTxn>>
    <3>1. Reads(seq, full)
      BY <2>3, <1>r, <1>t
    <3>2. PassedOn' = PassedOn \cup Elems(seq)
      BY <2>3, <1>p
    <3>3. /\ CountersOK' /\ AggregOK' /\ StatusOK' /\ SlotsOK' /\ BusOK' /\ DoneOK' /\ CountOK'
          /\ AccountOK'
      BY <2>3, <3>1, <3>2, ReadServed
    <3>4. aTxnStruct' \in [Index -> Struct] /\ uCurrTxnIndex' \in Index /\ uDrvRxCntr' \in 0 .. MaxPkts
      BY <3>1, ReadFrame, ReadType
    <3>5. errors' \in 0 .. MaxErrors /\ failed' \subseteq Packet
      BY <2>3, <1>m, <1>0, RxXferAssumption DEF TypeOK
    <3> QED BY <2>3, <3>3, <3>4, <3>5, <1>0 DEF TypeOK
  <2> QED BY <2>1, <2>2, <2>3 DEF HandleDrop, ServedAtOnce, OntoBus, OneLess, full, empty, seq
<1>2. TypeOK'
  <2>1. dropped' \subseteq Packet
    BY <1>u, <1>m, <1>0 DEF TypeOK
  <2> QED BY <1>1, <2>1, <1>u, <1>0 DEF TypeOK, Struct
<1>3. LeftOK'
  BY <1>u DEF LeftOK
<1> QED BY <1>1, <1>2, <1>3, <1>u DEF IndInv

------------------------------------------------------------------------------
(* The theorems.                                                           *)

LEMMA HandleStep ==
  ASSUME IndInv, Handle
  PROVE  IndInv' /\ (bus' = <<>> \/ forwarded' = forwarded)
BY HandlePacketStep, HandleTooLongStep, HandlePendingStep, HandleDropStep, HandleNoMoreStep DEF Handle

LEMMA NextInv == IndInv /\ [Next]_vars => IndInv'
<1> SUFFICES ASSUME IndInv, [Next]_vars PROVE IndInv'
  OBVIOUS
<1>1. CASE HandleTxnDone
  <2>1. CASE Head(done) = Status
    BY <1>1, <2>1, StatusDoneStep
  <2>2. CASE Head(done) # Status
    BY <1>1, <2>2, PacketDoneStep
  <2> QED BY <2>1, <2>2
<1>2. CASE UNCHANGED vars
  <2>u. UNCHANGED <<modVars, runVars, busVars, fwVars, pktVars, lifeVars>>
    BY <1>2 DEF vars
  <2>1. Issued' = Issued /\ Pkts' = Pkts /\ Before' = Before /\ Leading' = Leading /\ UnderWay' = UnderWay
    BY <2>u, PktsKept, UnderWayKept DEF Issued, Leading, modVars, runVars, busVars
  <2>2. Sound' = Sound
    <3>1. Ahead' = Ahead
      BY <2>u DEF Ahead, busVars, fwVars
    <3> QED BY <2>u, <3>1, AllSoundKept DEF modVars, runVars, pktVars
  <2>3. TypeOK'
    BY <2>u DEF IndInv, TypeOK, modVars, runVars, busVars, fwVars, pktVars, lifeVars
  <2>4. CountersOK' /\ AggregOK' /\ StatusOK'
    BY <2>u, <2>1 DEF IndInv, CountersOK, AggregOK, StatusOK, modVars, runVars, busVars, fwVars
  <2>5. SlotsOK' /\ BusOK' /\ DoneOK'
    BY <2>u, <2>1, <2>2 DEF IndInv, SlotsOK, BusOK, DoneOK, busVars, fwVars
  <2>6. CountOK' /\ LeftOK'
    BY <2>u DEF IndInv, CountOK, LeftOK, modVars, runVars, busVars, fwVars, lifeVars
  <2>7. AccountOK'
    BY <2>u, <2>1 DEF IndInv, AccountOK, PassedOn, modVars, pktVars
  <2> QED BY <2>3, <2>4, <2>5, <2>6, <2>7 DEF IndInv
<1> QED BY <1>1, <1>2, FwRxPacketStep, BusDoneStep, BusStatusStep, HandleStep, FwEventStep,
           TxnDoneHandledStep, RestartStep DEF Next

\* The invariant that the others follow from.
LEMMA Invariance == Spec => []IndInv
BY InitInv, NextInv, PTL DEF Spec

\* The state of the receive transfer has its type: the driver's counters never pass
\* the firmware's range, and a structure's index stays in the array.
THEOREM TypeCorrect == Spec => []TypeOK
<1>1. IndInv => TypeOK
  BY DEF IndInv
<1> QED BY <1>1, Invariance, PTL

\* No packet that the driver has counted as taken is forgotten: a structure is never
\* filled again while its read is under way, although rxXfer_IssueTxn goes round the
\* array without looking (whatever the number of packets, failures and restarts).
THEOREM NothingForgotten == Spec => []NoPacketForgotten
<1>1. IndInv => NoPacketForgotten
  <2> SUFFICES ASSUME IndInv PROVE NoPacketForgotten
    OBVIOUS
  <2>0. TypeOK /\ AccountOK
    BY DEF IndInv
  <2>1. Held = UnderWay
    BY <2>0, HeldIsUnderWay
  <2>2. forwarded \subseteq Packet /\ dropped \subseteq Packet /\ failed \subseteq Packet /\ swallowed \subseteq Packet
    BY <2>0 DEF TypeOK
  <2>3. UnderWay \subseteq Packet
    BY DEF UnderWay
  <2>4. \A p \in Packet : p < uDrvRxCntr <=> p \in PassedOn \/ p \in UnderWay
    BY <2>0 DEF AccountOK
  <2>5. \A p : p \in 0 .. uDrvRxCntr - 1 <=> p \in Packet /\ p < uDrvRxCntr
    BY <2>0, RxXferAssumption DEF TypeOK, Packet
  <2>6. PassedOn \subseteq Packet
    BY <2>2 DEF PassedOn
  <2>7. 0 .. uDrvRxCntr - 1 = PassedOn \cup UnderWay
    BY <2>3, <2>4, <2>5, <2>6
  <2> QED BY <2>0, <2>1, <2>7 DEF NoPacketForgotten, PassedOn
<1> QED BY <1>1, Invariance, PTL

\* When nothing is under way any more, the driver has taken every packet that the
\* firmware announced, or waits for a buffer: rxXfer_Handle never finds the structures
\* used up while a packet waits, and the comparison modulo NumDesc in rxXfer_RxEvent
\* never takes a new counter for the one it knows.
THEOREM NothingLeft == Spec => []NoPacketLeft
<1>1. IndInv => NoPacketLeft
  <2> SUFFICES ASSUME IndInv, pc = "idle", ~irq, stat = NoStatus, ~recover
               PROVE  uDrvRxCntr = fwCntr \/ bPendingBuffer
    BY DEF NoPacketLeft
  <2>1. uFwRxCntr = fwCntr
    BY DEF IndInv, StatusOK
  <2>2. uDrvRxCntr = uFwRxCntr \/ bPendingBuffer
    BY DEF IndInv, LeftOK
  <2> QED BY <2>1, <2>2
<1> QED BY <1>1, Invariance, PTL

\* Unless a read has failed, rxXfer_Handle finds a free structure when the firmware's
\* status is served: the error that it reports as not expected to happen
\* (no available transaction) does not.
TxnAvailable == ~recover /\ (turn = "FwEvent" \/ stat # NoStatus) => uAvailableTxn > 0

\* TxnAvailable holds of every state, as does that the count is never negative.
THEOREM AlwaysTxnAvailable == Spec => [](TxnAvailable /\ (~recover => uAvailableTxn >= 0))
<1>1. IndInv => TxnAvailable /\ (~recover => uAvailableTxn >= 0)
  BY FreeAtEvent, FreeAtCompletion DEF TxnAvailable
<1> QED BY <1>1, Invariance, PTL

\* A completion forwards packets that the firmware has let go of; those on the bus
\* are behind.
LEMMA CompletionInOrder ==
  ASSUME IndInv, HandleTxnDone, NEW p \in forwarded' \ forwarded, NEW a \in 1 .. Len(bus'),
         NEW q \in Elems(aTxnStruct'[bus'[a]].pkts)
  PROVE  p < q
<1> DEFINE h == done[1]
<1>0. TypeOK /\ SlotsOK /\ BusOK /\ DoneOK
  BY DEF IndInv
<1>1. done # <<>> /\ done \in Seq(Index \cup {Status}) /\ Head(done) = h /\ bus' = bus
  BY <1>0, Typed DEF HandleTxnDone
<1>2. 1 \in 1 .. Len(done)
  BY <1>1
<1>3. /\ h # Status /\ forwarded' = forwarded \cup Elems(aTxnStruct[h].pkts)
      /\ aTxnStruct' = [aTxnStruct EXCEPT ![h] = Forwarded(aTxnStruct[h])]
  BY <1>1 DEF HandleTxnDone, TxnDoneCb, Forward, NotForwarded
<1>4. h \in Sound /\ h \in Index /\ bus[a] \in Index /\ a \in 1 .. Len(bus)
  BY <1>0, <1>1, <1>2, <1>3, Typed DEF SlotsOK
<1>5. PICK k \in 1 .. Len(Pkts[h]) : p = Pkts[h][k]
  BY <1>3, <1>4 DEF Elems, Pkts
<1>6. p < fwDrv /\ p \in Nat /\ fwDrv \in Nat
  <2>1. Pkts[h][k] < fwDrv
    BY <1>2, <1>3, <1>0 DEF DoneOK
  <2>2. Pkts[h][k] \in Nat /\ fwDrv \in Nat
    BY <1>4, <1>0, Typed
  <2> QED BY <2>1, <2>2, <1>5
<1>7. \A m \in 1 .. Len(Pkts[bus[a]]) : fwDrv <= Pkts[bus[a]][m] /\ Pkts[bus[a]][m] \in Nat
  <2>1. \A m \in 1 .. Len(Pkts[bus[a]]) : Pkts[bus[a]][m] \in Nat
    BY <1>4, <1>0, Typed
  <2> QED BY <2>1, <1>4, <1>0 DEF BusOK
<1>8. bus[a] # h
  <2> SUFFICES ASSUME bus[a] = h PROVE FALSE
    OBVIOUS
  <2>1. fwDrv <= Pkts[h][k]
    BY <1>7
  <2> QED BY <2>1, <1>5, <1>6
<1>9. aTxnStruct'[bus[a]] = aTxnStruct[bus[a]]
  BY <1>3, <1>4, <1>8, <1>0 DEF TypeOK
<1>10. PICK m \in 1 .. Len(Pkts[bus[a]]) : q = Pkts[bus[a]][m]
  BY <1>1, <1>4, <1>9 DEF Elems, Pkts
<1> QED BY <1>6, <1>7, <1>10

\* No packet is forwarded while an older one waits for the bus, whether a read is
\* served in the call (rxXfer_IssueTxn) or its completion is (rxXfer_TxnDoneCb).
THEOREM OrderKept == Spec => ForwardedInOrder
<1> DEFINE A == \A p \in forwarded' \ forwarded : \A i \in Elems(bus') :
                  \A q \in Elems(aTxnStruct'[i].pkts) : p < q
<1>1. IndInv /\ [Next]_vars => [A]_vars
  <2> SUFFICES ASSUME IndInv, Next PROVE A
    OBVIOUS
  <2>1. CASE bus' = <<>> \/ forwarded' \subseteq forwarded
    <3>1. Len(<<>>) = 0
      OBVIOUS
    <3> QED BY <2>1, <3>1 DEF Elems
  <2>2. CASE Handle
    BY <2>1, <2>2, HandleStep
  <2>3. CASE HandleTxnDone
    <3> SUFFICES ASSUME NEW p \in forwarded' \ forwarded, NEW i \in Elems(bus'),
                        NEW q \in Elems(aTxnStruct'[i].pkts)
                 PROVE  p < q
      OBVIOUS
    <3>1. PICK a \in 1 .. Len(bus') : i = bus'[a]
      BY DEF Elems
    <3> QED BY <2>3, <3>1, CompletionInOrder
  <2>4. CASE FwRxPacket \/ BusDone \/ BusStatus \/ FwEvent \/ TxnDoneHandled \/ Restart
    BY <2>1, <2>4 DEF FwRxPacket, BusDone, BusStatus, FwEvent, TxnDoneHandled, Restart, pktVars
  <2> QED BY <2>2, <2>3, <2>4 DEF Next
<1> QED BY <1>1, Invariance, PTL DEF Spec, ForwardedInOrder

------------------------------------------------------------------------------
(* The receive queue: sequence numbers and the packet array.               *)

\* A remainder is the only one.
LEMMA RemainderUnique ==
  ASSUME NEW n \in Nat \ {0}, NEW a \in Int, NEW q \in Int, NEW s \in 0 .. n - 1, a = n * q + s
  PROVE  a % n = s
<1> DEFINE x == a \div n
           r == a % n
<1>1. a = n * x + r /\ x \in Int /\ r \in 0 .. n - 1
  BY DivMod
<1> HIDE DEF x, r
<1>2. ~ (x < q)
  <2> SUFFICES ASSUME x < q PROVE FALSE
    OBVIOUS
  <2>1. n * q >= n * (x + 1)
    BY <1>1
  <2> QED BY <2>1, <1>1
<1>3. ~ (q < x)
  <2> SUFFICES ASSUME q < x PROVE FALSE
    OBVIOUS
  <2>1. n * x >= n * (q + 1)
    BY <1>1
  <2> QED BY <2>1, <1>1
<1>4. x = q
  BY <1>1, <1>2, <1>3
<1>5. r = s
  BY <1>1, <1>4
<1> QED BY <1>5 DEF r

\* What a remainder is near zero.
LEMMA ModValue ==
  ASSUME NEW n \in Nat \ {0}, NEW a \in Int
  PROVE  /\ a % n \in 0 .. n - 1
         /\ 0 <= a /\ a < n => a % n = a
         /\ n <= a /\ a < 2 * n => a % n = a - n
         /\ 2 * n <= a /\ a < 3 * n => a % n = a - 2 * n
         /\ - n <= a /\ a < 0 => a % n = a + n
<1>1. a % n \in 0 .. n - 1
  BY DivMod
<1>2. ASSUME 0 <= a, a < n PROVE a % n = a
  BY <1>2, RemainderUnique, a = n * 0 + a
<1>3. ASSUME n <= a, a < 2 * n PROVE a % n = a - n
  <2>1. a = n * 1 + (a - n) /\ a - n \in 0 .. n - 1
    BY <1>3
  <2> QED BY <2>1, RemainderUnique
<1>4. ASSUME 2 * n <= a, a < 3 * n PROVE a % n = a - 2 * n
  <2>1. a = n * 2 + (a - 2 * n) /\ a - 2 * n \in 0 .. n - 1
    BY <1>4
  <2> QED BY <2>1, RemainderUnique
<1>5. ASSUME - n <= a, a < 0 PROVE a % n = a + n
  <2>1. a = n * (-1) + (a + n) /\ a + n \in 0 .. n - 1
    BY <1>5
  <2> QED BY <2>1, RemainderUnique
<1> QED BY <1>1, <1>2, <1>3, <1>4, <1>5

\* A remainder may be taken before adding.
LEMMA ModAdd ==
  ASSUME NEW n \in Nat \ {0}, NEW a \in Int, NEW b \in Int
  PROVE  ((a % n) + b) % n = (a + b) % n
<1> DEFINE x == a \div n
           r == a % n
           y == (r + b) \div n
           s == (r + b) % n
<1>1. a = n * x + r /\ x \in Int /\ r \in 0 .. n - 1
  BY DivMod
<1> HIDE DEF x, r
<1>2. r + b = n * y + s /\ y \in Int /\ s \in 0 .. n - 1
  <2>1. r + b \in Int
    BY <1>1
  <2> QED BY DivMod, <2>1
<1> HIDE DEF y, s
<1>3. a + b = n * (x + y) + s
  BY <1>1, <1>2
<1>4. (a + b) % n = s
  <2> DEFINE z == x + y
             c == a + b
  <2>1. z \in Int /\ c \in Int /\ c = n * z + s /\ s \in 0 .. n - 1
    BY <1>1, <1>2, <1>3
  <2> HIDE DEF z, c
  <2>2. c % n = s
    BY <2>1, RemainderUnique
  <2> QED BY <2>2 DEF c
<1>5. s = ((a % n) + b) % n
  BY DEF s, r
<1> QED BY <1>4, <1>5

------------------------------------------------------------------------------
\* A nonempty set of numbers has a least one.
LEMMA MinFacts ==
  ASSUME NEW S \in SUBSET Nat, S # {}
  PROVE  /\ Min(S) \in S
         /\ \A x \in S : Min(S) <= x
<1>1. PICK m \in S : \A y \in S : ~ (<<y, m>> \in OpToRel(<, Nat))
  BY NatLessThanWellFounded, WFMin
<1>2. \A y \in S : m <= y
  <2> SUFFICES ASSUME NEW y \in S PROVE m <= y
    OBVIOUS
  <2>1. y \in Nat /\ m \in Nat
    OBVIOUS
  <2>2. ~ (y < m)
    <3> SUFFICES ASSUME y < m PROVE <<y, m>> \in OpToRel(<, Nat)
      BY <1>1
    <3> QED BY <2>1 DEF OpToRel
  <2> QED BY <2>1, <2>2
<1> QED BY <1>2 DEF Min

\* A nonempty bounded set of integers has a greatest one.
LEMMA MaxFacts ==
  ASSUME NEW S \in SUBSET Int, S # {}, NEW b \in Int, \A x \in S : x <= b
  PROVE  /\ Max(S) \in S
         /\ \A x \in S : x <= Max(S)
<1> DEFINE U == {b - x : x \in S}
<1>1. U \in SUBSET Nat /\ U # {}
  <2>1. \A x \in S : x \in Int /\ b - x \in Nat
    OBVIOUS
  <2> QED BY <2>1
<1>2. Min(U) \in U /\ \A y \in U : Min(U) <= y
  BY <1>1, MinFacts
<1>3. PICK m \in S : Min(U) = b - m
  BY <1>2
<1>4. \A x \in S : b - m <= b - x
  BY <1>2, <1>3
<1>5. \A x \in S : m >= x
  BY <1>4
<1>6. \E m1 \in S : \A x \in S : m1 >= x
  BY <1>5
<1>7. Max(S) \in S /\ \A x \in S : Max(S) >= x
  BY <1>6 DEF Max
<1> QED BY <1>7

------------------------------------------------------------------------------
(* Sequence numbers.                                                       *)

LEMMA SizeFacts ==
  /\ SnMod \in Nat \ {0} /\ ArraySize \in Nat \ {0}
  /\ SnMod \div 2 \in Nat /\ SnMod \div 4 \in Nat
  /\ 2 * ArraySize < SnMod \div 2 - 2 /\ 2 * (SnMod \div 2) <= SnMod
  /\ 4 * (SnMod \div 4) <= SnMod
  /\ ArraySize <= SnMod \div 4 /\ SnMod \div 4 + ArraySize < SnMod \div 2 - 1
  /\ 0 \in Slot /\ FirstSn \in 0 .. SnMod - 1
<1>1. /\ SnMod \in Nat \ {0} /\ ArraySize \in Nat \ {0} /\ 2 * ArraySize < SnMod \div 2 - 2
      /\ FirstSn \in 0 .. SnMod - 1
  BY RxQueueAssumption
<1>2. 0 \in Slot
  BY <1>1 DEF Slot
<1> QED BY <1>1, <1>2

\* How far a number is ahead of another.
LEMMA DistFacts ==
  ASSUME NEW a \in Sn, NEW b \in Sn
  PROVE  /\ Dist(a, b) \in Sn
         /\ a >= b => Dist(a, b) = a - b
         /\ a < b => Dist(a, b) = a - b + SnMod
         /\ (b + Dist(a, b)) % SnMod = a
         /\ Dist(a, b) = 0 <=> a = b
<1>1. /\ a \in Nat /\ b \in Nat /\ a < SnMod /\ b < SnMod /\ SnMod \in Nat \ {0}
      /\ a - b \in Int
  BY SizeFacts DEF Sn
<1>2. /\ Dist(a, b) \in Sn
      /\ a >= b => Dist(a, b) = a - b
      /\ a < b => Dist(a, b) = a - b + SnMod
  <2> DEFINE c == a - b
             d == c % SnMod
  <2>1. c \in Int /\ - SnMod <= c /\ c < SnMod /\ SnMod \in Nat \ {0}
    BY <1>1
  <2> HIDE DEF c
  <2>2. d \in 0 .. SnMod - 1 /\ (0 <= c => d = c) /\ (c < 0 => d = c + SnMod)
    BY <2>1, ModValue
  <2>3. Dist(a, b) = d
    BY DEF Dist, c
  <2> HIDE DEF d
  <2> QED BY <2>2, <2>3, <1>1 DEF c, Sn
<1>3. (b + Dist(a, b)) % SnMod = a
  <2>1. CASE a >= b
    <3>1. b + Dist(a, b) = a
      BY <2>1, <1>1, <1>2
    <3> QED BY <3>1, <1>1, ModValue
  <2>2. CASE a < b
    <3> DEFINE c == b + Dist(a, b)
    <3>1. c = a + SnMod
      BY <2>2, <1>1, <1>2
    <3> HIDE DEF c
    <3>2. c \in Int /\ SnMod <= c /\ c < 2 * SnMod /\ c - SnMod = a
      BY <3>1, <1>1
    <3>3. c % SnMod = a
      BY <3>2, <1>1, ModValue
    <3> QED BY <3>3 DEF c
  <2> QED BY <2>1, <2>2, <1>1
<1>4. Dist(a, b) = 0 <=> a = b
  BY <1>1, <1>2
<1> QED BY <1>2, <1>3, <1>4

\* The sequence number of a packet that follows another.
LEMMA SnOfFacts ==
  ASSUME NEW e \in Nat
  PROVE  /\ SnOf(e) \in Sn
         /\ \A j \in Nat : SnOf(e + j) = (SnOf(e) + j) % SnMod
         /\ \A j \in 0 .. SnMod - 1 : Dist(SnOf(e + j), SnOf(e)) = j
<1>1. FirstSn + e \in Int /\ SnMod \in Nat \ {0}
  BY SizeFacts
<1>2. SnOf(e) \in Sn
  BY <1>1, ModValue DEF SnOf, Sn
<1>3. ASSUME NEW j \in Nat PROVE SnOf(e + j) = (SnOf(e) + j) % SnMod
  <2>1. FirstSn + (e + j) = FirstSn + e + j
    BY <1>1, SizeFacts
  <2> DEFINE c == FirstSn + e
  <2>2. c \in Int /\ j \in Int /\ SnMod \in Nat \ {0}
    BY <1>1
  <2> HIDE DEF c
  <2>3. ((c % SnMod) + j) % SnMod = (c + j) % SnMod
    BY <2>2, ModAdd
  <2>4. c + j = FirstSn + (e + j)
    BY <2>1 DEF c
  <2>5. SnOf(e) = c % SnMod /\ SnOf(e + j) = (c + j) % SnMod
    BY <2>4 DEF SnOf, c
  <2> QED BY <2>3, <2>5
<1>4. ASSUME NEW j \in 0 .. SnMod - 1 PROVE Dist(SnOf(e + j), SnOf(e)) = j
  <2> DEFINE s == SnOf(e)
             u == SnOf(e + j)
  <2> DEFINE v == s + j
  <2>1. s \in 0 .. SnMod - 1 /\ u = v % SnMod
    BY <1>1, <1>2, <1>3 DEF Sn
  <2> HIDE DEF s, u
  <2>10. v = s + j /\ v \in Int
    BY <2>1, <1>1
  <2> HIDE DEF v
  <2>2. CASE v < SnMod
    <3>1. u = s + j
      <4>1. 0 <= v
        BY <2>1, <2>10
      <4>2. v % SnMod = v
        BY <4>1, <2>10, <2>2, <1>1, ModValue
      <4> QED BY <4>2, <2>1, <2>10
    <3>2. u \in Sn /\ s \in Sn /\ u >= s /\ u - s = j
      BY <3>1, <2>1, <2>10, <2>2, <1>1 DEF Sn
    <3>3. Dist(u, s) = j
      BY <3>2, DistFacts
    <3> QED BY <3>3 DEF u, s
  <2>3. CASE v >= SnMod
    <3>1. u = s + j - SnMod
      <4>1. SnMod <= v /\ v < 2 * SnMod
        BY <2>1, <2>10, <2>3, <1>1
      <4>2. v % SnMod = v - SnMod
        BY <4>1, <2>10, <1>1, ModValue
      <4>3. u = v - SnMod
        BY <4>2, <2>1
      <4> QED BY <4>3, <2>10, <2>1, <1>1
    <3>2. u \in Sn /\ s \in Sn /\ u < s /\ u - s + SnMod = j
      BY <3>1, <2>1, <2>10, <2>3, <1>1 DEF Sn
    <3>3. Dist(u, s) = j
      BY <3>2, DistFacts
    <3> QED BY <3>3 DEF u, s
  <2> QED BY <2>10, <2>2, <2>3, <1>1
<1> QED BY <1>2, <1>3, <1>4

------------------------------------------------------------------------------
(* The packet array, seen from the start of the window.                    *)

Session == [est : BOOLEAN, win : 0 .. ArraySize, start : Slot, expected : Sn,
            queue : [Slot -> Frame \cup {NoPacket}]]

\* What is k behind the start of the window.
View(r, k) == r.queue[SlotAt(r, k)]

\* A slot counted from the start of the window, without the remainder.
LEMMA SlotAtFacts ==
  ASSUME NEW r \in Session
  PROVE  /\ \A k \in Nat : SlotAt(r, k) \in Slot
         /\ \A k \in Slot : SlotAt(r, k) = IF r.start + k < ArraySize THEN r.start + k
                                           ELSE r.start + k - ArraySize
         /\ SlotAt(r, 0) = r.start
         /\ SlotAt(r, ArraySize) = r.start
<1>1. r.start \in Nat /\ r.start < ArraySize /\ ArraySize \in Nat \ {0}
  BY SizeFacts DEF Session, Slot
<1>2. ASSUME NEW k \in Nat PROVE SlotAt(r, k) \in Slot
  <2> DEFINE c == r.start + k
  <2>1. c \in Int
    BY <1>1
  <2> HIDE DEF c
  <2>2. c % ArraySize \in 0 .. ArraySize - 1
    BY <2>1, <1>1, ModValue
  <2> QED BY <2>2 DEF c, SlotAt, Slot
<1>3. ASSUME NEW k \in 0 .. ArraySize
      PROVE  SlotAt(r, k) = IF r.start + k < ArraySize THEN r.start + k
                            ELSE r.start + k - ArraySize
  <2> DEFINE c == r.start + k
             d == c % ArraySize
  <2>1. c \in Int /\ 0 <= c /\ c < 2 * ArraySize
    BY <1>1
  <2> HIDE DEF c
  <2>2. (c < ArraySize => d = c) /\ (ArraySize <= c => d = c - ArraySize)
    BY <2>1, <1>1, ModValue
  <2>3. SlotAt(r, k) = d
    BY DEF SlotAt, c
  <2> HIDE DEF d
  <2> QED BY <2>1, <2>2, <2>3, <1>1 DEF c
<1>4. 0 \in 0 .. ArraySize /\ ArraySize \in 0 .. ArraySize /\ Slot \subseteq 0 .. ArraySize
  BY <1>1 DEF Slot
<1>5. SlotAt(r, 0) = r.start /\ SlotAt(r, ArraySize) = r.start
  BY <1>1, <1>3, <1>4
<1> QED BY <1>2, <1>3, <1>4, <1>5

\* Each slot is at one distance from the start.
LEMMA SlotAtInjective ==
  ASSUME NEW r \in Session, NEW j \in Slot, NEW k \in Slot, SlotAt(r, j) = SlotAt(r, k)
  PROVE  j = k
<1> DEFINE s == r.start
           n == ArraySize
           x == SlotAt(r, j)
           y == SlotAt(r, k)
<1>1. s \in 0 .. n - 1 /\ n \in Nat \ {0} /\ j \in 0 .. n - 1 /\ k \in 0 .. n - 1
  BY SizeFacts DEF Session, Slot
<1>2. x = IF s + j < n THEN s + j ELSE s + j - n
  BY SlotAtFacts
<1>3. y = IF s + k < n THEN s + k ELSE s + k - n
  BY SlotAtFacts
<1>4. x = y
  OBVIOUS
<1> HIDE DEF s, n, x, y
<1> QED BY <1>1, <1>2, <1>3, <1>4

\* ... and every slot is reached.
LEMMA SlotAtOnto ==
  ASSUME NEW r \in Session, NEW i \in Slot
  PROVE  \E k \in Slot : SlotAt(r, k) = i
<1>1. r.start \in Nat /\ r.start < ArraySize /\ ArraySize \in Nat \ {0} /\ i \in 0 .. ArraySize - 1
  BY SizeFacts DEF Session, Slot
<1>2. CASE i >= r.start
  <2>1. i - r.start \in Slot /\ r.start + (i - r.start) = i /\ i < ArraySize
    BY <1>1, <1>2 DEF Slot
  <2>2. SlotAt(r, i - r.start) = i
    BY <2>1, SlotAtFacts
  <2> QED BY <2>1, <2>2
<1>3. CASE i < r.start
  <2> DEFINE k == i - r.start + ArraySize
  <2>1. k \in Slot /\ ~ (r.start + k < ArraySize) /\ r.start + k - ArraySize = i
    BY <1>1, <1>3 DEF Slot
  <2> HIDE DEF k
  <2>2. SlotAt(r, k) = i
    BY <2>1, SlotAtFacts
  <2> QED BY <2>1, <2>2
<1> QED BY <1>1, <1>2, <1>3

\* Leaving slots behind moves the view.
LEMMA SkipFacts ==
  ASSUME NEW r \in Session, NEW k \in 0 .. ArraySize
  PROVE  /\ Skip(r, k) \in Session
         /\ Skip(r, k).est = r.est /\ Skip(r, k).win = r.win /\ Skip(r, k).queue = r.queue
         /\ Skip(r, k).expected = (r.expected + k) % SnMod
         /\ \A j \in Slot : SlotAt(Skip(r, k), j) =
              IF j + k < ArraySize THEN SlotAt(r, j + k) ELSE SlotAt(r, j + k - ArraySize)
<1> DEFINE q == Skip(r, k)
<1>1. SlotAt(r, k) \in Slot
  BY SlotAtFacts
<1>2. (r.expected + k) % SnMod \in Sn
  <2> DEFINE c == r.expected + k
  <2>1. c \in Int /\ SnMod \in Nat \ {0}
    BY SizeFacts DEF Session, Sn
  <2> HIDE DEF c
  <2>2. c % SnMod \in Sn
    BY <2>1, ModValue DEF Sn
  <2> QED BY <2>2 DEF c
<1>3. q = [r EXCEPT !.start = SlotAt(r, k), !.expected = (r.expected + k) % SnMod]
  BY DEF Skip
<1>4. /\ q \in Session /\ q.est = r.est /\ q.win = r.win /\ q.queue = r.queue
      /\ q.expected = (r.expected + k) % SnMod /\ q.start = SlotAt(r, k)
  BY <1>1, <1>2, <1>3 DEF Session
<1> HIDE DEF q
<1>5. ASSUME NEW j \in Slot
      PROVE  SlotAt(q, j) =
               IF j + k < ArraySize THEN SlotAt(r, j + k) ELSE SlotAt(r, j + k - ArraySize)
  <2> DEFINE n == ArraySize
             s == r.start
             u == q.start
  <2>1. n \in Nat \ {0} /\ s \in 0 .. n - 1 /\ j \in 0 .. n - 1 /\ k \in 0 .. n
    BY SizeFacts DEF Session, Slot
  <2>2. u = IF s + k < n THEN s + k ELSE s + k - n
    <3>1. CASE k = n
      BY <3>1, <2>1, <1>4, SlotAtFacts
    <3>2. CASE k # n
      <4>1. k \in Slot
        BY <3>2, <2>1 DEF Slot
      <4> QED BY <4>1, <1>4, SlotAtFacts
    <3> QED BY <3>1, <3>2
  <2>3. SlotAt(q, j) = IF u + j < n THEN u + j ELSE u + j - n
    BY <1>4, SlotAtFacts
  <2> DEFINE m == IF j + k < n THEN j + k ELSE j + k - n
  <2>4. m \in 0 .. n - 1
    BY <2>1
  <2>5. SlotAt(r, m) = IF s + m < n THEN s + m ELSE s + m - n
    <3>1. m \in Slot
      BY <2>4 DEF Slot
    <3> HIDE DEF m
    <3> QED BY <3>1, SlotAtFacts
  <2>6. (IF j + k < ArraySize THEN SlotAt(r, j + k) ELSE SlotAt(r, j + k - ArraySize)) = SlotAt(r, m)
    OBVIOUS
  <2>7. m = IF j + k < n THEN j + k ELSE j + k - n
    OBVIOUS
  <2> DEFINE x == SlotAt(q, j)
             y == SlotAt(r, m)
  <2> HIDE DEF n, s, u, m, x, y
  <2>8. u + j = s + k + j \/ u + j = s + k + j - n
    BY <2>1, <2>2
  <2>9. x = y
    <3>1. x = IF u + j < n THEN u + j ELSE u + j - n
      BY <2>3 DEF x
    <3>2. y = IF s + m < n THEN s + m ELSE s + m - n
      BY <2>5 DEF y
    <3> QED BY <3>1, <3>2, <2>1, <2>2, <2>7
  <2> QED BY <2>9, <2>6 DEF x, y
<1>6. Skip(r, k) = q
  BY DEF q
<1> QED BY <1>4, <1>5, <1>6

\* Releasing k slots empties them and moves the rest towards the start.
LEMMA ReleaseFacts ==
  ASSUME NEW r \in Session, NEW k \in 0 .. ArraySize
  PROVE  /\ Release(r, k) \in Session
         /\ Release(r, k).est = r.est /\ Release(r, k).win = r.win
         /\ Release(r, k).expected = (r.expected + k) % SnMod
         /\ \A i \in Slot : Release(r, k).queue[i] =
              IF \E j \in 0 .. k - 1 : i = SlotAt(r, j) THEN NoPacket ELSE r.queue[i]
         /\ \A j \in Slot : View(Release(r, k), j) =
              IF j + k < ArraySize THEN View(r, j + k) ELSE NoPacket
<1> DEFINE q == Release(r, k)
           z == Skip(r, k)
           f == [i \in Slot |-> IF \E j \in 0 .. k - 1 : i = SlotAt(r, j) THEN NoPacket ELSE r.queue[i]]
<1>1. z \in Session /\ z.est = r.est /\ z.win = r.win /\ z.expected = (r.expected + k) % SnMod
  BY SkipFacts
<1>2. \A j \in Slot : SlotAt(z, j) =
        IF j + k < ArraySize THEN SlotAt(r, j + k) ELSE SlotAt(r, j + k - ArraySize)
  BY SkipFacts
<1>3. q = [z EXCEPT !.queue = f]
  BY DEF Release
<1>4. f \in [Slot -> Frame \cup {NoPacket}]
  BY DEF Session
<1>5. \A i \in Slot : f[i] = IF \E j \in 0 .. k - 1 : i = SlotAt(r, j) THEN NoPacket ELSE r.queue[i]
  OBVIOUS
<1> HIDE DEF f, z
<1>6. /\ q \in Session /\ q.est = z.est /\ q.win = z.win /\ q.expected = z.expected
      /\ q.queue = f /\ q.start = z.start
  BY <1>1, <1>3, <1>4 DEF Session
<1> HIDE DEF q
<1>7. \A j \in Slot : SlotAt(q, j) = SlotAt(z, j)
  BY <1>6 DEF SlotAt
<1>8. ASSUME NEW j \in Slot
      PROVE  View(q, j) = IF j + k < ArraySize THEN View(r, j + k) ELSE NoPacket
  <2>1. j \in Nat /\ j < ArraySize /\ k \in Nat /\ k <= ArraySize /\ ArraySize \in Nat
    BY SizeFacts DEF Slot
  <2>2. CASE j + k < ArraySize
    <3>1. j + k \in Slot /\ SlotAt(q, j) = SlotAt(r, j + k) /\ SlotAt(r, j + k) \in Slot
      BY <2>1, <2>2, <1>2, <1>7, SlotAtFacts DEF Slot
    <3>2. ~ \E m \in 0 .. k - 1 : SlotAt(r, j + k) = SlotAt(r, m)
      <4> SUFFICES ASSUME NEW m \in 0 .. k - 1, SlotAt(r, j + k) = SlotAt(r, m) PROVE FALSE
        OBVIOUS
      <4>1. m \in Slot
        BY <2>1 DEF Slot
      <4>2. j + k = m
        BY <3>1, <4>1, SlotAtInjective
      <4> QED BY <4>2, <2>1
    <3>3. f[SlotAt(r, j + k)] = r.queue[SlotAt(r, j + k)]
      BY <3>1, <3>2, <1>5
    <3> QED BY <3>1, <3>3, <2>2, <1>6 DEF View
  <2>3. CASE ~ (j + k < ArraySize)
    <3> DEFINE m == j + k - ArraySize
    <3>1. m \in 0 .. k - 1 /\ m \in Slot
      BY <2>1, <2>3 DEF Slot
    <3>2. SlotAt(q, j) = SlotAt(r, m)
      BY <2>3, <1>2, <1>7
    <3> HIDE DEF m
    <3>3. SlotAt(r, m) \in Slot
      BY <3>1, SlotAtFacts, <2>1
    <3>4. f[SlotAt(r, m)] = NoPacket
      BY <3>1, <3>3, <1>5
    <3> QED BY <3>2, <3>4, <2>3, <1>6 DEF View
  <2> QED BY <2>2, <2>3
<1>9. Release(r, k) = q
  BY DEF q
<1> QED BY <1>1, <1>5, <1>6, <1>8, <1>9

\* The numbers of a set in ascending order.
LEMMA NthFacts ==
  ASSUME NEW n \in Nat, NEW S \in SUBSET (0 .. n - 1)
  PROVE  /\ IsFiniteSet(S) /\ Cardinality(S) \in Nat
         /\ \A i \in 1 .. Cardinality(S) : Nth(S, i) \in S
         /\ \A i, j \in 1 .. Cardinality(S) : i < j => Nth(S, i) < Nth(S, j)
<1> DEFINE Up(m) == {x \in S : x <= m}
<1>0. \A x \in S : x \in Int /\ 0 <= x /\ x <= n - 1
  OBVIOUS
<1>1. IsFiniteSet(S) /\ Cardinality(S) \in Nat
  <2>1. IsFiniteSet(0 .. n - 1)
    BY FS_Interval
  <2> QED BY <2>1, FS_Subset, FS_CardinalityType
<1>2. \A m : Up(m) \in SUBSET S /\ IsFiniteSet(Up(m)) /\ Cardinality(Up(m)) \in Nat
  <2> SUFFICES ASSUME NEW m
               PROVE  Up(m) \in SUBSET S /\ IsFiniteSet(Up(m)) /\ Cardinality(Up(m)) \in Nat
    OBVIOUS
  <2>1. Up(m) \in SUBSET S
    OBVIOUS
  <2> HIDE DEF Up
  <2> QED BY <2>1, <1>1, FS_Subset, FS_CardinalityType
<1>3. ASSUME NEW i \in 1 .. Cardinality(S) PROVE \E m \in S : Cardinality(Up(m)) = i
  <2> DEFINE T == {m \in 0 .. n - 1 : Cardinality(Up(m)) >= i}
  <2>1. S # {}
    BY FS_EmptySet, <1>1
  <2>2. n \in Nat \ {0} /\ n - 1 \in 0 .. n - 1 /\ i \in Nat /\ i >= 1
    <3>1. PICK x \in S : TRUE
      BY <2>1
    <3>2. 0 <= n - 1
      BY <3>1, <1>0
    <3> QED BY <3>2, <1>1
  <2>3. Up(n - 1) = S
    BY <1>0
  <2>4. n - 1 \in T
    BY <2>2, <2>3, <1>1
  <2>5. T \in SUBSET Nat /\ T # {}
    <3>1. 0 .. n - 1 \in SUBSET Nat
      OBVIOUS
    <3> QED BY <2>4, <3>1
  <2>6. PICK m \in T : \A x \in T : m <= x
    BY <2>5, MinFacts
  <2>7. m \in 0 .. n - 1 /\ Cardinality(Up(m)) >= i
    BY <2>6
  <2>8. m = 0 \/ Cardinality(Up(m - 1)) < i
    <3> SUFFICES ASSUME m # 0, ~ (Cardinality(Up(m - 1)) < i) PROVE FALSE
      OBVIOUS
    <3> HIDE DEF Up
    <3>1. m - 1 \in 0 .. n - 1 /\ Cardinality(Up(m - 1)) \in Nat
      BY <2>7, <1>2, <2>2
    <3>2. m - 1 \in T
      BY <3>1, <2>2
    <3> QED BY <3>2, <2>6, <2>7
  <2>9. m = 0 => Up(m - 1) = {}
    <3> SUFFICES ASSUME m = 0, NEW x \in Up(m - 1) PROVE FALSE
      OBVIOUS
    <3>1. x \in S /\ x <= -1
      OBVIOUS
    <3> QED BY <3>1, <1>0
  <2>10. Cardinality(Up(m - 1)) < i /\ Cardinality(Up(m - 1)) \in Nat
    <3> HIDE DEF Up
    <3>1. Cardinality({}) = 0
      BY FS_EmptySet
    <3>2. Cardinality(Up(m - 1)) \in Nat
      BY <1>2
    <3>3. CASE m = 0
      BY <3>3, <2>9, <3>1, <3>2, <2>2
    <3>4. CASE m # 0
      BY <3>4, <2>8, <3>2
    <3> QED BY <3>3, <3>4
  <2>11. CASE m \notin S
    <3>1. Up(m) = Up(m - 1)
      <4>1. \A x \in S : x <= m <=> x <= m - 1
        BY <2>11, <2>7, <1>0
      <4> QED BY <4>1
    <3> HIDE DEF Up
    <3> QED BY <3>1, <2>10, <2>7, <2>2
  <2>12. CASE m \in S
    <3>1. Up(m) = Up(m - 1) \cup {m} /\ m \notin Up(m - 1)
      <4>1. \A x \in S : x <= m <=> x <= m - 1 \/ x = m
        BY <2>7, <1>0
      <4>2. m <= m /\ ~ (m <= m - 1)
        BY <2>7
      <4> QED BY <4>1, <4>2, <2>12
    <3> HIDE DEF Up
    <3>2. Cardinality(Up(m)) = Cardinality(Up(m - 1)) + 1
      BY <3>1, <1>2, FS_AddElement
    <3>3. Cardinality(Up(m)) = i
      BY <3>2, <2>10, <2>7, <2>2
    <3> QED BY <3>3, <2>12
  <2> QED BY <2>11, <2>12
<1>4. \A i \in 1 .. Cardinality(S) : Nth(S, i) \in S /\ Cardinality(Up(Nth(S, i))) = i
  <2> SUFFICES ASSUME NEW i \in 1 .. Cardinality(S)
               PROVE  Nth(S, i) \in S /\ Cardinality(Up(Nth(S, i))) = i
    OBVIOUS
  <2>1. \E m \in S : Cardinality({x \in S : x <= m}) = i
    BY <1>3
  <2> QED BY <2>1 DEF Nth
<1>5. ASSUME NEW i \in 1 .. Cardinality(S), NEW j \in 1 .. Cardinality(S), i < j
      PROVE  Nth(S, i) < Nth(S, j)
  <2> DEFINE a == Nth(S, i)
             b == Nth(S, j)
  <2>1. a \in S /\ b \in S /\ Cardinality(Up(a)) = i /\ Cardinality(Up(b)) = j
    BY <1>4
  <2> HIDE DEF a, b
  <2>2. a \in Int /\ b \in Int
    BY <2>1
  <2>3. ~ (b <= a)
    <3> SUFFICES ASSUME b <= a PROVE FALSE
      OBVIOUS
    <3>1. Up(b) \in SUBSET Up(a)
      <4>1. \A x \in S : x <= b => x <= a
        BY <1>0, <2>2
      <4> QED BY <4>1
    <3> HIDE DEF Up
    <3>2. Cardinality(Up(b)) <= Cardinality(Up(a))
      BY <3>1, <1>2, FS_Subset
    <3> QED BY <3>2, <2>1, <1>5, <1>1
  <2>4. a < b
    BY <2>2, <2>3
  <2> QED BY <2>4 DEF a, b
<1> QED BY <1>1, <1>4, <1>5

\* The packets of the first k slots, slot by slot.
LEMMA PacketsFacts ==
  ASSUME NEW r \in Session, NEW k \in 0 .. ArraySize
  PROVE  /\ IsFiniteSet(StoredSlots(r, k)) /\ Cardinality(StoredSlots(r, k)) \in Nat
         /\ Packets(r, k) \in Seq(Frame)
         /\ Len(Packets(r, k)) = Cardinality(StoredSlots(r, k))
         /\ \A i \in 1 .. Len(Packets(r, k)) :
              /\ Nth(StoredSlots(r, k), i) \in StoredSlots(r, k)
              /\ Packets(r, k)[i] = View(r, Nth(StoredSlots(r, k), i))
         /\ \A i, j \in 1 .. Len(Packets(r, k)) :
              i < j => Nth(StoredSlots(r, k), i) < Nth(StoredSlots(r, k), j)
<1> DEFINE S == StoredSlots(r, k)
           c == Cardinality(S)
<1>1. S \in SUBSET (0 .. k - 1) /\ k \in Nat
  BY SizeFacts DEF StoredSlots
<1>2. /\ IsFiniteSet(S) /\ c \in Nat
      /\ \A i \in 1 .. c : Nth(S, i) \in S
      /\ \A i, j \in 1 .. c : i < j => Nth(S, i) < Nth(S, j)
  BY <1>1, NthFacts
<1>3. \A m \in S : View(r, m) \in Frame
  <2> SUFFICES ASSUME NEW m \in S PROVE View(r, m) \in Frame
    OBVIOUS
  <2>1. m \in Nat /\ r.queue[SlotAt(r, m)] # NoPacket
    BY <1>1 DEF StoredSlots, Stored
  <2>2. SlotAt(r, m) \in Slot
    BY <2>1, SlotAtFacts
  <2> QED BY <2>1, <2>2 DEF View, Session
<1>4. Packets(r, k) = [i \in 1 .. c |-> View(r, Nth(S, i))]
  BY DEF Packets, View
<1> HIDE DEF S, c
<1>5. Packets(r, k) \in Seq(Frame) /\ Len(Packets(r, k)) = c
  BY <1>2, <1>3, <1>4
<1>6. \A i \in 1 .. c : Packets(r, k)[i] = View(r, Nth(S, i))
  BY <1>4
<1> QED BY <1>2, <1>5, <1>6 DEF S, c

\* The run ends at the first free slot.
LEMMA RunLengthFacts ==
  ASSUME NEW r \in Session
  PROVE  /\ RunLength(r) \in 0 .. ArraySize
         /\ \A j \in 0 .. RunLength(r) - 1 : Stored(r, j)
         /\ RunLength(r) < ArraySize => ~ Stored(r, RunLength(r))
<1> DEFINE S == {k \in 0 .. ArraySize : k = ArraySize \/ ~Stored(r, k)}
<1>1. S \in SUBSET Nat /\ S # {}
  <2>1. ArraySize \in S
    BY SizeFacts
  <2> QED BY <2>1
<1>2. Min(S) \in S /\ \A k \in S : Min(S) <= k
  BY <1>1, MinFacts
<1>3. RunLength(r) = Min(S)
  BY DEF RunLength
<1>4. RunLength(r) \in S
  BY <1>2, <1>3
<1>5. ASSUME NEW j \in 0 .. RunLength(r) - 1 PROVE Stored(r, j)
  <2>1. j \in 0 .. ArraySize /\ ~ (RunLength(r) <= j)
    BY <1>4, SizeFacts
  <2>2. j \notin S
    BY <2>1, <1>2, <1>3
  <2> QED BY <2>1, <2>2
<1> QED BY <1>4, <1>5, SizeFacts

\* A saved packet is in the slot that its number gives it; the others are untouched.
LEMMA SaveFacts ==
  ASSUME NEW r \in Session, NEW sn \in Sn, NEW p \in Frame
  PROVE  /\ Save(r, sn, p) \in Session
         /\ Save(r, sn, p).est = r.est /\ Save(r, sn, p).win = r.win
         /\ Save(r, sn, p).expected = r.expected
         /\ SlotAt(r, Dist(sn, r.expected)) \in Slot
         /\ Save(r, sn, p).queue = [r.queue EXCEPT ![SlotAt(r, Dist(sn, r.expected))] = p]
         /\ Dist(sn, r.expected) \in Slot => \A j \in Slot :
              View(Save(r, sn, p), j) = IF j = Dist(sn, r.expected) THEN p ELSE View(r, j)
<1> DEFINE d == Dist(sn, r.expected)
           i == SlotAt(r, d)
           q == Save(r, sn, p)
<1>1. d \in Nat
  <2>1. r.expected \in Sn
    BY DEF Session
  <2>2. d \in Sn
    BY <2>1, DistFacts
  <2> QED BY <2>2, SizeFacts DEF Sn
<1>2. i \in Slot
  BY <1>1, SlotAtFacts
<1>3. q = [r EXCEPT !.queue = [@ EXCEPT ![i] = p]]
  BY DEF Save
<1>4. /\ q \in Session /\ q.est = r.est /\ q.win = r.win /\ q.expected = r.expected
      /\ q.queue = [r.queue EXCEPT ![i] = p] /\ q.start = r.start
  <2> HIDE DEF i, q
  <2>1. [r.queue EXCEPT ![i] = p] \in [Slot -> Frame \cup {NoPacket}]
    BY <1>2 DEF Session
  <2> QED BY <1>3, <2>1 DEF Session
<1>5. ASSUME d \in Slot, NEW j \in Slot PROVE View(q, j) = IF j = d THEN p ELSE View(r, j)
  <2>1. SlotAt(q, j) = SlotAt(r, j) /\ SlotAt(r, j) \in Slot
    <3>1. j \in Nat
      BY SizeFacts DEF Slot
    <3> QED BY <1>4, <3>1, SlotAtFacts DEF SlotAt
  <2>2. SlotAt(r, j) = i <=> j = d
    BY <1>5, SlotAtInjective
  <2>3. r.queue \in [Slot -> Frame \cup {NoPacket}]
    BY DEF Session
  <2> HIDE DEF d, i, q
  <2> QED BY <2>1, <2>2, <2>3, <1>2, <1>4 DEF View
<1> QED BY <1>2, <1>4, <1>5

\* The stored packets are those in the view.
LEMMA ViewStored ==
  ASSUME NEW r \in Session
  PROVE  /\ \A k : Stored(r, k) <=> View(r, k) # NoPacket
         /\ (\A k \in Slot : ~ Stored(r, k)) => r.queue = [i \in Slot |-> NoPacket]
         /\ r.queue = [i \in Slot |-> NoPacket] => \A k \in Slot : ~ Stored(r, k)
<1>1. \A k : Stored(r, k) <=> View(r, k) # NoPacket
  BY DEF Stored, View
<1>2. r.queue \in [Slot -> Frame \cup {NoPacket}]
  BY DEF Session
<1>3. ASSUME \A k \in Slot : ~ Stored(r, k) PROVE r.queue = [i \in Slot |-> NoPacket]
  <2>1. ASSUME NEW i \in Slot PROVE r.queue[i] = NoPacket
    <3>1. PICK k \in Slot : SlotAt(r, k) = i
      BY SlotAtOnto
    <3> QED BY <3>1, <1>3 DEF Stored
  <2> QED BY <2>1, <1>2
<1>4. ASSUME r.queue = [i \in Slot |-> NoPacket], NEW k \in Slot PROVE ~ Stored(r, k)
  <2>1. SlotAt(r, k) \in Slot
    <3>1. k \in Nat
      BY SizeFacts DEF Slot
    <3> QED BY <3>1, SlotAtFacts
  <2> QED BY <1>4, <2>1 DEF Stored
<1> QED BY <1>1, <1>3, <1>4

------------------------------------------------------------------------------
(* Counting the stored packets.                                            *)

\* The slots in use, of all the identifiers of data base s.
Cells(s) == {c \in Tid \X Slot : s[c[1]].queue[c[2]] # NoPacket}

LEMMA CellsFinite ==
  ASSUME NEW s
  PROVE  IsFiniteSet(Cells(s)) /\ Cardinality(Cells(s)) \in Nat
<1>1. IsFiniteSet(Tid) /\ IsFiniteSet(Slot)
  <2>1. 0 \in Int /\ ArraySize - 1 \in Int
    BY SizeFacts
  <2> QED BY <2>1, RxQueueAssumption, FS_Interval DEF Slot
<1>2. IsFiniteSet(Tid \X Slot)
  BY <1>1, FS_Product
<1>3. Cells(s) \in SUBSET (Tid \X Slot)
  BY DEF Cells
<1> QED BY <1>2, <1>3, FS_Subset, FS_CardinalityType

LEMMA CellsSame ==
  ASSUME NEW s \in [Tid -> Session], NEW t \in Tid, NEW q \in Session, q.queue = s[t].queue
  PROVE  Cells([s EXCEPT ![t] = q]) = Cells(s)
BY DEF Cells

\* Slot i of identifier t is taken in z, and the others are as in s.
LEMMA CellsSaved ==
  ASSUME NEW s, NEW z, NEW t \in Tid, NEW i \in Slot, z[t].queue[i] # NoPacket,
         \A u \in Tid, j \in Slot : u # t \/ j # i =>
           (z[u].queue[j] # NoPacket <=> s[u].queue[j] # NoPacket)
  PROVE  /\ s[t].queue[i] = NoPacket => Cardinality(Cells(z)) = Cardinality(Cells(s)) + 1
         /\ s[t].queue[i] # NoPacket => Cardinality(Cells(z)) = Cardinality(Cells(s))
<1>1. Cells(z) = Cells(s) \cup {<<t, i>>}
  BY DEF Cells
<1>2. <<t, i>> \in Cells(s) <=> s[t].queue[i] # NoPacket
  BY DEF Cells
<1>3. Cardinality(Cells(z)) = IF <<t, i>> \in Cells(s) THEN Cardinality(Cells(s))
                              ELSE Cardinality(Cells(s)) + 1
  BY <1>1, CellsFinite, FS_AddElement
<1> QED BY <1>2, <1>3

\* As many cells are emptied as packets are passed up.
LEMMA CellsReleased ==
  ASSUME NEW s \in [Tid -> Session], NEW t \in Tid, NEW r \in Session, r.queue = s[t].queue,
         NEW k \in 0 .. ArraySize
  PROVE  /\ Cardinality(Cells([s EXCEPT ![t] = Release(r, k)])) =
              Cardinality(Cells(s)) - Len(Packets(r, k))
         /\ Len(Packets(r, k)) <= Cardinality(Cells(s))
<1> DEFINE q == Release(r, k)
           z == [s EXCEPT ![t] = q]
           S == StoredSlots(r, k)
           D == {<<t, SlotAt(r, j)>> : j \in S}
           f == [j \in S |-> <<t, SlotAt(r, j)>>]
<1>1. IsFiniteSet(S) /\ Len(Packets(r, k)) = Cardinality(S)
  BY PacketsFacts
<1>2. S \in SUBSET Slot /\ k \in Nat
  BY SizeFacts DEF StoredSlots, Slot
<1>3. f \in Injection(S, D)
  <2>1. f \in [S -> D]
    OBVIOUS
  <2>2. ASSUME NEW a \in S, NEW b \in S, f[a] = f[b] PROVE a = b
    <3>1. SlotAt(r, a) = SlotAt(r, b)
      BY <2>2
    <3> QED BY <3>1, <1>2, SlotAtInjective
  <2> HIDE DEF f, D, S
  <2> QED BY <2>1, <2>2 DEF Injection, IsInjective
<1>4. f \in Surjection(S, D)
  <2>1. f \in [S -> D] /\ \A d \in D : \E a \in S : f[a] = d
    OBVIOUS
  <2> HIDE DEF f, D, S
  <2> QED BY <2>1 DEF Surjection
<1>5. IsFiniteSet(D) /\ Cardinality(D) = Cardinality(S)
  <2> HIDE DEF f, D, S
  <2> QED BY <1>1, <1>3, <1>4, FS_Surjection
<1>6. ASSUME NEW u \in Tid, NEW i \in Slot
      PROVE  /\ <<u, i>> \in D <=> u = t /\ r.queue[i] # NoPacket /\ \E j \in 0 .. k - 1 : i = SlotAt(r, j)
  BY DEF StoredSlots, Stored
<1>7. \A i \in Slot : q.queue[i] = IF \E j \in 0 .. k - 1 : i = SlotAt(r, j) THEN NoPacket ELSE r.queue[i]
  BY ReleaseFacts
<1>8. D \in SUBSET (Tid \X Slot)
  <2>1. \A j \in S : SlotAt(r, j) \in Slot
    <3>1. \A j \in S : j \in Nat
      BY <1>2, SizeFacts DEF Slot
    <3> QED BY <3>1, SlotAtFacts
  <2> QED BY <2>1
<1> HIDE DEF q, D, S, f
<1>9. ASSUME NEW u \in Tid, NEW i \in Slot
      PROVE  <<u, i>> \in Cells(z) <=> <<u, i>> \in Cells(s) /\ <<u, i>> \notin D
  <2>1. CASE u = t
    <3>1. z[u].queue[i] = q.queue[i] /\ s[u].queue[i] = r.queue[i]
      BY <2>1
    <3> QED BY <3>1, <1>6, <1>7, <2>1 DEF Cells
  <2>2. CASE u # t
    <3>1. z[u] = s[u]
      BY <2>2
    <3> QED BY <3>1, <1>6, <2>2 DEF Cells
  <2> QED BY <2>1, <2>2
<1>10. ASSUME NEW u \in Tid, NEW i \in Slot, <<u, i>> \in D PROVE <<u, i>> \in Cells(s)
  BY <1>6, <1>10 DEF Cells
<1>11. Cells(z) = Cells(s) \ D /\ Cells(s) \cap D = D
  <2>1. Cells(z) \in SUBSET (Tid \X Slot) /\ Cells(s) \in SUBSET (Tid \X Slot)
    BY DEF Cells
  <2>2. ASSUME NEW c \in Tid \X Slot
        PROVE  /\ c \in Cells(z) <=> c \in Cells(s) /\ c \notin D
               /\ c \in D => c \in Cells(s)
    <3>1. PICK u \in Tid, i \in Slot : c = <<u, i>>
      OBVIOUS
    <3> QED BY <3>1, <1>9, <1>10
  <2> HIDE DEF z
  <2> QED BY <1>8, <2>1, <2>2
<1>12. Cardinality(Cells(z)) = Cardinality(Cells(s)) - Cardinality(D)
  BY <1>11, CellsFinite, FS_Difference
<1>13. Cardinality(D) <= Cardinality(Cells(s))
  <2>1. D \in SUBSET Cells(s)
    BY <1>11
  <2> QED BY <2>1, CellsFinite, FS_Subset
<1> QED BY <1>1, <1>5, <1>12, <1>13 DEF z, q

------------------------------------------------------------------------------
(* The inductive invariant, one identifier at a time: r is its session, s  *)
(* its sender, l the highest packet passed up and o what disturbed it.     *)

Sender == [base : Nat, rcvd : SUBSET Frame]

LEMMA SendersWindowFacts ==
  ASSUME NEW r \in Session
  PROVE  /\ SendersWindow(r) \in Nat /\ 1 <= SendersWindow(r) /\ SendersWindow(r) <= ArraySize
         /\ r.win \in Nat /\ r.win <= SendersWindow(r)
<1>1. r.win \in Nat /\ r.win <= ArraySize /\ ArraySize \in Nat /\ 1 <= ArraySize
  BY SizeFacts DEF Session
<1> QED BY <1>1 DEF SendersWindow

LEMMA SendersWindowSame ==
  ASSUME NEW r, NEW q, q.win = r.win
  PROVE  SendersWindow(q) = SendersWindow(r)
BY DEF SendersWindow

Highest == {-1} \cup Frame

Oddities == SUBSET {"timeout", "window", "bar", "close"}

\* The packets are those of the identifier, and nothing is kept without a session.
Bounded(t, r, s, l) ==
  /\ \A i \in Slot : r.queue[i] < MaxSeq[t]
  /\ l < MaxSeq[t]
  /\ s.rcvd \subseteq 0 .. MaxSeq[t] - 1
  /\ \A n \in s.rcvd : s.base < n
  /\ r.est \/ (r.queue = Closed.queue /\ s.rcvd = {})

\* Packets wait within the window, and not where the expected packet goes.
Windowed(r, o) ==
  "window" \notin o => \A k \in Slot : Stored(r, k) => 1 <= k /\ k < r.win

Placed(r, o) ==
  o \cap {"window", "bar"} = {} =>
    \A k \in Slot : Stored(r, k) => SnOf(View(r, k)) = (r.expected + k) % SnMod

Gap == SnMod \div 4

\* The receiver expects packet e: the sender is not behind it and not far ahead, what
\* was passed up is before it, and what is stored are the packets after it.
Expecting(r, s, l, e) ==
  /\ SnOf(e) = r.expected
  /\ e <= s.base /\ s.base <= e + Gap
  /\ l < e
  /\ \A n \in s.rcvd : n < e + SendersWindow(r)
  /\ \A k \in Slot : Stored(r, k) => /\ View(r, k) = e + k
                                     /\ e + k < s.base \/ e + k \in s.rcvd

\* The receiver is in step with the sender: nothing disturbs the session, or nothing is
\* stored in it that a BAR frame could disturb.
InStep(r, o) == o \subseteq {"close"} \/ (r.win = 0 /\ "window" \notin o)

Ordered(r, s, l, o) ==
  r.est /\ InStep(r, o) => \E e \in Nat : Expecting(r, s, l, e)

SessionOK(t, r, s, l, o) ==
  /\ Bounded(t, r, s, l) /\ Windowed(r, o) /\ Placed(r, o) /\ Ordered(r, s, l, o)

SessionsOK == \A t \in Tid : SessionOK(t, tid[t], sender[t], last[t], odd[t])

StoredCountOK == Cardinality(Cells(tid)) <= aPacketsStored /\ StoredCounted

TimerOK == (bPacketMiss => timerOn \/ expiry) /\ TimerGuardsStored

RxQueueInv == RxQueueTypeOK /\ SessionsOK /\ StoredCountOK /\ TimerOK

------------------------------------------------------------------------------
(* Windows that move.                                                      *)

\* q is r with the window k further on.
Shifted(r, q, k) ==
  /\ q.est = r.est /\ q.win = r.win
  /\ q.expected = (r.expected + k) % SnMod
  /\ \A j \in Slot : View(q, j) = IF j + k < ArraySize THEN View(r, j + k) ELSE NoPacket

\* A remainder may be taken between two additions.
LEMMA ExpectedTwice ==
  ASSUME NEW e \in Int, NEW k \in Int, NEW m \in Int
  PROVE  (((e + k) % SnMod) + m) % SnMod = (e + (k + m)) % SnMod
<1> DEFINE c == e + k
<1>1. c \in Int /\ SnMod \in Nat \ {0}
  BY SizeFacts
<1>2. c + m = e + (k + m)
  BY <1>1
<1> HIDE DEF c
<1>3. ((c % SnMod) + m) % SnMod = (c + m) % SnMod
  BY <1>1, ModAdd
<1> QED BY <1>2, <1>3 DEF c

LEMMA ReleaseShifted ==
  ASSUME NEW r \in Session, NEW k \in 0 .. ArraySize
  PROVE  Shifted(r, Release(r, k), k)
BY ReleaseFacts DEF Shifted

LEMMA SkipShifted ==
  ASSUME NEW r \in Session, NEW k \in 0 .. ArraySize, \A j \in 0 .. k - 1 : ~ Stored(r, j)
  PROVE  Shifted(r, Skip(r, k), k)
<1> DEFINE q == Skip(r, k)
<1>1. /\ q.est = r.est /\ q.win = r.win /\ q.queue = r.queue
      /\ q.expected = (r.expected + k) % SnMod
      /\ \A j \in Slot : SlotAt(q, j) =
           IF j + k < ArraySize THEN SlotAt(r, j + k) ELSE SlotAt(r, j + k - ArraySize)
  BY SkipFacts
<1> HIDE DEF q
<1>2. ASSUME NEW j \in Slot
      PROVE  View(q, j) = IF j + k < ArraySize THEN View(r, j + k) ELSE NoPacket
  <2>1. CASE j + k < ArraySize
    BY <2>1, <1>1 DEF View
  <2>2. CASE ~ (j + k < ArraySize)
    <3> DEFINE m == j + k - ArraySize
    <3>1. m \in 0 .. k - 1
      BY <2>2, SizeFacts DEF Slot
    <3>2. View(q, j) = View(r, m)
      BY <2>2, <1>1 DEF View
    <3> HIDE DEF m
    <3>3. View(r, m) = NoPacket
      BY <3>1 DEF Stored, View
    <3> QED BY <3>2, <3>3, <2>2
  <2> QED BY <2>1, <2>2
<1> QED BY <1>1, <1>2 DEF Shifted, q

LEMMA ShiftedTwice ==
  ASSUME NEW r \in Session, NEW q, NEW p, NEW k \in Nat, NEW m \in Nat,
         Shifted(r, q, k), Shifted(q, p, m)
  PROVE  Shifted(r, p, k + m)
<1>1. p.est = r.est /\ p.win = r.win
  BY DEF Shifted
<1>2. p.expected = (r.expected + (k + m)) % SnMod
  <2>1. r.expected \in Int
    BY SizeFacts DEF Session, Sn
  <2>2. p.expected = (((r.expected + k) % SnMod) + m) % SnMod
    BY DEF Shifted
  <2> QED BY <2>1, <2>2, ExpectedTwice
<1>3. ASSUME NEW j \in Slot
      PROVE  View(p, j) = IF j + (k + m) < ArraySize THEN View(r, j + (k + m)) ELSE NoPacket
  <2>1. j \in Nat /\ j < ArraySize /\ ArraySize \in Nat
    BY SizeFacts DEF Slot
  <2>2. View(p, j) = IF j + m < ArraySize THEN View(q, j + m) ELSE NoPacket
    BY DEF Shifted
  <2>3. CASE j + m < ArraySize
    <3> DEFINE i == j + m
    <3>1. i \in Slot
      BY <2>1, <2>3 DEF Slot
    <3>2. View(p, j) = View(q, i)
      BY <2>2, <2>3
    <3>3. i + k = j + (k + m)
      BY <2>1
    <3> HIDE DEF i
    <3>4. View(q, i) = IF i + k < ArraySize THEN View(r, i + k) ELSE NoPacket
      BY <3>1 DEF Shifted
    <3> QED BY <3>2, <3>3, <3>4
  <2>4. CASE ~ (j + m < ArraySize)
    <3>1. ~ (j + (k + m) < ArraySize)
      BY <2>1, <2>4
    <3> QED BY <2>2, <2>4, <3>1
  <2> QED BY <2>3, <2>4
<1> QED BY <1>1, <1>2, <1>3 DEF Shifted

LEMMA ShiftedStored ==
  ASSUME NEW r, NEW q, NEW k \in Nat, Shifted(r, q, k), NEW j \in Slot, Stored(q, j)
  PROVE  /\ j + k \in Slot /\ Stored(r, j + k) /\ View(q, j) = View(r, j + k)
<1>1. View(q, j) # NoPacket
  BY DEF Stored, View
<1>2. j + k < ArraySize /\ View(q, j) = View(r, j + k)
  BY <1>1 DEF Shifted
<1>3. j + k \in Slot
  BY <1>2, SizeFacts DEF Slot
<1> QED BY <1>1, <1>2, <1>3 DEF Stored, View

\* A window that moves stays as it should, unless the next packet is already there.
LEMMA ShiftedWindowed ==
  ASSUME NEW r \in Session, NEW q, NEW o, NEW k \in Nat, Shifted(r, q, k), Windowed(r, o),
         ~ Stored(q, 0)
  PROVE  Windowed(q, o)
<1> SUFFICES ASSUME "window" \notin o, NEW j \in Slot, Stored(q, j)
             PROVE  1 <= j /\ j < q.win
  BY DEF Windowed
<1>1. j + k \in Slot /\ Stored(r, j + k)
  BY ShiftedStored
<1>2. j + k < r.win
  BY <1>1 DEF Windowed
<1>3. j # 0
  OBVIOUS
<1>4. j \in Nat /\ r.win \in Nat /\ q.win = r.win
  BY SizeFacts DEF Slot, Session, Shifted
<1> QED BY <1>2, <1>3, <1>4

\* ... and what is in it keeps its place.
LEMMA ShiftedPlaced ==
  ASSUME NEW r \in Session, NEW q, NEW o, NEW k \in Nat, Shifted(r, q, k), Placed(r, o)
  PROVE  Placed(q, o)
<1> SUFFICES ASSUME o \cap {"window", "bar"} = {}, NEW j \in Slot, Stored(q, j)
             PROVE  SnOf(View(q, j)) = (q.expected + j) % SnMod
  BY DEF Placed
<1>1. j + k \in Slot /\ Stored(r, j + k) /\ View(q, j) = View(r, j + k)
  BY ShiftedStored
<1>2. SnOf(View(q, j)) = (r.expected + (j + k)) % SnMod
  BY <1>1 DEF Placed
<1>3. r.expected \in Int /\ j \in Int /\ k \in Int /\ k + j = j + k
  BY SizeFacts DEF Session, Sn, Slot
<1>4. (q.expected + j) % SnMod = (r.expected + (k + j)) % SnMod
  <2>1. q.expected = (r.expected + k) % SnMod
    BY DEF Shifted
  <2> QED BY <2>1, <1>3, ExpectedTwice
<1> QED BY <1>2, <1>3, <1>4

\* The distance of two numbers that are counted from the same one.
LEMMA DistCounted ==
  ASSUME NEW a \in Sn, NEW x \in Nat, NEW y \in Nat, y <= x, x - y < SnMod
  PROVE  Dist((a + x) % SnMod, (a + y) % SnMod) = x - y
<1> DEFINE c == a + y
           s == c % SnMod
           d == x - y
           v == s + d
           u == v % SnMod
<1>1. a \in Int /\ SnMod \in Nat \ {0} /\ d \in 0 .. SnMod - 1 /\ c \in Int
  BY SizeFacts DEF Sn
<1>2. s \in Sn /\ s \in 0 .. SnMod - 1
  <2> HIDE DEF c
  <2> QED BY <1>1, ModValue DEF Sn
<1>3. (a + x) % SnMod = u
  <2>1. (((a + y) % SnMod) + d) % SnMod = (a + (y + d)) % SnMod
    <3>1. a \in Int /\ y \in Int /\ d \in Int
      BY <1>1
    <3> HIDE DEF d
    <3> QED BY <3>1, ExpectedTwice
  <2>2. y + d = x
    OBVIOUS
  <2> QED BY <2>1, <2>2
<1> HIDE DEF s, d
<1>4. v \in Int /\ 0 <= v /\ v < 2 * SnMod
  BY <1>1, <1>2
<1>5. v = s + d
  OBVIOUS
<1> HIDE DEF v
<1>6. u \in Sn /\ (v < SnMod => u = v) /\ (SnMod <= v => u = v - SnMod)
  BY <1>1, <1>4, ModValue DEF Sn
<1> HIDE DEF u
<1>7. u >= s => Dist(u, s) = u - s
  BY <1>2, <1>6, DistFacts
<1>8. u < s => Dist(u, s) = u - s + SnMod
  BY <1>2, <1>6, DistFacts
<1>9. Dist(u, s) = d
  <2>1. CASE v < SnMod
    BY <2>1, <1>1, <1>2, <1>5, <1>6, <1>7
  <2>2. CASE SnMod <= v
    <3>1. u = v - SnMod
      BY <2>2, <1>6
    <3>2. u < s /\ u - s + SnMod = d
      BY <3>1, <1>1, <1>2, <1>5
    <3> QED BY <3>2, <1>8
  <2> QED BY <2>1, <2>2, <1>1, <1>4
<1> QED BY <1>3, <1>9 DEF s, d

------------------------------------------------------------------------------
(* The sender, and what is passed up.                                      *)

\* The sender once packets R are done with, from b on.
Moved(b, R) == [base |-> NewBase(b, R), rcvd |-> {n \in R : n > NewBase(b, R)}]

LEMMA MovedFacts ==
  ASSUME NEW b \in Nat, NEW m \in Int, NEW R, R \subseteq 0 .. m - 1
  PROVE  /\ Moved(b, R).base \in Nat /\ b <= Moved(b, R).base
         /\ Moved(b, R).rcvd \subseteq R
         /\ \A n \in Moved(b, R).rcvd : Moved(b, R).base < n
         /\ \A n \in R : n < Moved(b, R).base \/ n \in Moved(b, R).rcvd
         /\ Moved(b, R).base \notin R
         /\ Moved(b, R).base = b \/ Moved(b, R).base - 1 \in R
<1> DEFINE c == Cardinality(R)
           S == {n \in b .. b + c : n \notin R}
           base == NewBase(b, R)
<1>1. IsFiniteSet(R) /\ c \in Nat
  <2>1. IsFiniteSet(0 .. m - 1)
    BY FS_Interval
  <2> QED BY <2>1, FS_Subset, FS_CardinalityType
<1>2. S # {}
  <2> SUFFICES ASSUME S = {} PROVE FALSE
    OBVIOUS
  <2>1. b .. b + c \in SUBSET R
    OBVIOUS
  <2>2. Cardinality(b .. b + c) = c + 1
    <3> DEFINE u == b + c
    <3>1. b \in Int /\ u \in Int /\ ~ (b > u) /\ u - b + 1 = c + 1
      <4> HIDE DEF c
      <4> QED BY <1>1
    <3> HIDE DEF c, u
    <3>2. Cardinality(b .. u) = IF b > u THEN 0 ELSE u - b + 1
      BY <3>1, FS_Interval
    <3>3. Cardinality(b .. u) = c + 1
      BY <3>1, <3>2
    <3> QED BY <3>3 DEF u
  <2>3. Cardinality(b .. b + c) <= c
    BY <2>1, <1>1, FS_Subset
  <2> QED BY <2>2, <2>3, <1>1
<1>3. S \in SUBSET Nat
  <2>1. \A n \in b .. b + c : n \in Nat
    <3> HIDE DEF c
    <3> QED BY <1>1
  <2> QED BY <2>1
<1>4. base = Min(S)
  BY DEF NewBase
<1>5. base \in S /\ \A n \in S : base <= n
  BY <1>2, <1>3, <1>4, MinFacts
<1>6. base \in Nat /\ b <= base /\ base <= b + c /\ base \notin R
  <2> HIDE DEF c, base
  <2> QED BY <1>1, <1>5
<1>7. base = b \/ base - 1 \in R
  <2> SUFFICES ASSUME base # b, base - 1 \notin R PROVE FALSE
    OBVIOUS
  <2> HIDE DEF c, base
  <2>1. base - 1 \in b .. b + c
    BY <1>1, <1>6
  <2>2. base <= base - 1
    BY <2>1, <1>5
  <2> QED BY <2>2, <1>6
<1>8. Moved(b, R).base = base /\ Moved(b, R).rcvd = {n \in R : n > base}
  BY DEF Moved
<1>9. \A n \in R : n \in Int
  OBVIOUS
<1> HIDE DEF c, S, base
<1>10. \A n \in R : n < base \/ n > base
  BY <1>6, <1>9
<1>11. \A n \in R : n > base => base < n
  BY <1>6, <1>9
<1> QED BY <1>6, <1>7, <1>8, <1>10, <1>11

\* The highest packet passed up, once pkts are passed up as well.
After(l, pkts) == IF pkts = <<>> THEN l ELSE Max({l} \cup Range(pkts))

\* The highest packet passed up is before m if all of them are.
LEMMA AfterFacts ==
  ASSUME NEW l \in Highest, NEW pkts \in Seq(Frame), NEW m \in Int,
         l < m, \A i \in 1 .. Len(pkts) : pkts[i] < m
  PROVE  After(l, pkts) \in Highest /\ After(l, pkts) < m
<1> DEFINE S == {l} \cup Range(pkts)
<1>1. Range(pkts) = {pkts[i] : i \in 1 .. Len(pkts)}
  BY DEF Range
<1>2. \A i \in 1 .. Len(pkts) : pkts[i] \in Frame
  OBVIOUS
<1>3. Frame \in SUBSET Nat
  BY RxQueueAssumption DEF Frame
<1>4. S \in SUBSET Highest /\ \A x \in S : x < m
  BY <1>1, <1>2 DEF Highest
<1>5. Highest \in SUBSET Int
  BY <1>3 DEF Highest
<1>6. S \in SUBSET Int /\ S # {} /\ \A x \in S : x <= m
  <2> HIDE DEF S
  <2>1. S \in SUBSET Int /\ \A x \in S : x <= m
    BY <1>4, <1>5
  <2> QED BY <2>1 DEF S
<1>7. Max(S) \in S
  <2> HIDE DEF S
  <2> QED BY <1>6, MaxFacts
<1>8. Max(S) \in Highest /\ Max(S) < m
  BY <1>4, <1>7
<1> QED BY <1>8 DEF After

\* Packets in order, the first of them above l.
Ascending(l, pkts) == \A i \in 1 .. Len(pkts) : pkts[i] > l /\ (i > 1 => pkts[i] > pkts[i - 1])

\* Packets of the first k slots: those of the view, in its order.
LEMMA PacketsOrdered ==
  ASSUME NEW r \in Session, NEW k \in 0 .. ArraySize, NEW e \in Int,
         \A j \in Slot : Stored(r, j) => View(r, j) = e + j
  PROVE  /\ \A i \in 1 .. Len(Packets(r, k)) : e <= Packets(r, k)[i] /\ Packets(r, k)[i] < e + k
         /\ \A i \in 1 .. Len(Packets(r, k)) : i > 1 => Packets(r, k)[i] > Packets(r, k)[i - 1]
<1> DEFINE S == StoredSlots(r, k)
           P == Packets(r, k)
           c == Len(P)
<1>1. /\ c \in Nat
      /\ \A i \in 1 .. c : Nth(S, i) \in S /\ P[i] = View(r, Nth(S, i))
      /\ \A i, j \in 1 .. c : i < j => Nth(S, i) < Nth(S, j)
  BY PacketsFacts
<1>2. \A j \in S : j \in 0 .. k - 1 /\ j \in Slot /\ View(r, j) = e + j
  <2>1. \A j \in 0 .. k - 1 : j \in Slot
    BY SizeFacts DEF Slot
  <2> QED BY <2>1 DEF StoredSlots
<1> HIDE DEF S, P, c
<1>3. \A i \in 1 .. c : Nth(S, i) \in 0 .. k - 1 /\ P[i] = e + Nth(S, i)
  BY <1>1, <1>2
<1>4. k \in Nat
  BY SizeFacts
<1>5. \A i \in 1 .. c : e <= P[i] /\ P[i] < e + k
  BY <1>3, <1>4
<1>6. ASSUME NEW i \in 1 .. c, i > 1 PROVE P[i] > P[i - 1]
  <2>1. i - 1 \in 1 .. c /\ i - 1 < i
    BY <1>1, <1>6
  <2>2. Nth(S, i - 1) < Nth(S, i)
    BY <2>1, <1>1
  <2>3. P[i] = e + Nth(S, i) /\ P[i - 1] = e + Nth(S, i - 1)
    BY <2>1, <1>3
  <2>4. Nth(S, i) \in Int /\ Nth(S, i - 1) \in Int
    BY <2>1, <1>3
  <2> QED BY <2>2, <2>3, <2>4
<1> QED BY <1>5, <1>6 DEF P, c

LEMMA PacketsBounded ==
  ASSUME NEW r \in Session, NEW k \in 0 .. ArraySize, NEW m \in Int,
         \A i \in Slot : r.queue[i] < m
  PROVE  \A i \in 1 .. Len(Packets(r, k)) : Packets(r, k)[i] < m
<1> SUFFICES ASSUME NEW i \in 1 .. Len(Packets(r, k)) PROVE Packets(r, k)[i] < m
  OBVIOUS
<1> DEFINE j == Nth(StoredSlots(r, k), i)
<1>1. j \in StoredSlots(r, k) /\ Packets(r, k)[i] = View(r, j)
  BY PacketsFacts
<1> HIDE DEF j
<1>2. j \in Nat
  BY <1>1 DEF StoredSlots
<1>3. SlotAt(r, j) \in Slot
  BY <1>2, SlotAtFacts
<1> QED BY <1>1, <1>3 DEF View

LEMMA ConsFacts ==
  ASSUME NEW S, NEW x \in S, NEW p \in Seq(S)
  PROVE  /\ <<x>> \o p \in Seq(S) /\ Len(p) \in Nat /\ Len(<<x>> \o p) = Len(p) + 1
         /\ (<<x>> \o p)[1] = x
         /\ \A i \in 2 .. Len(p) + 1 : (<<x>> \o p)[i] = p[i - 1]
OBVIOUS

\* One batch of packets after another.
LEMMA AscendingConcat ==
  ASSUME NEW l \in Int, NEW a \in Seq(Nat), NEW b \in Seq(Nat), NEW m \in Int,
         Ascending(l, a), Ascending(m, b), l <= m, \A i \in 1 .. Len(a) : a[i] <= m
  PROVE  Ascending(l, a \o b)
<1> DEFINE x == Len(a)
           y == Len(b)
           c == a \o b
<1>1. /\ x \in Nat /\ y \in Nat /\ Len(c) = x + y
      /\ \A i \in 1 .. x : c[i] = a[i] /\ a[i] \in Nat
      /\ \A i \in 1 .. y : b[i] \in Nat
      /\ \A i \in x + 1 .. x + y : c[i] = b[i - x]
  OBVIOUS
<1>2. \A i \in 1 .. x : a[i] > l /\ a[i] <= m /\ (i > 1 => a[i] > a[i - 1])
  BY DEF Ascending
<1>3. \A i \in 1 .. y : b[i] > m /\ (i > 1 => b[i] > b[i - 1])
  BY DEF Ascending
<1> HIDE DEF x, y, c
<1> SUFFICES ASSUME NEW i \in 1 .. x + y PROVE c[i] > l /\ (i > 1 => c[i] > c[i - 1])
  BY <1>1 DEF Ascending, c
<1>4. CASE i <= x
  <2>1. i \in 1 .. x /\ (i > 1 => i - 1 \in 1 .. x)
    BY <1>1, <1>4
  <2> QED BY <2>1, <1>1, <1>2
<1>5. CASE i = x + 1
  <2>1. i - x = 1 /\ 1 \in 1 .. y /\ i \in x + 1 .. x + y
    BY <1>1, <1>5
  <2>2. c[i] = b[1] /\ b[1] > m /\ b[1] \in Nat
    BY <2>1, <1>1, <1>3
  <2>3. i > 1 => c[i - 1] <= m /\ c[i - 1] \in Nat
    <3> SUFFICES ASSUME i > 1 PROVE c[i - 1] <= m /\ c[i - 1] \in Nat
      OBVIOUS
    <3>1. i - 1 \in 1 .. x
      BY <1>1, <1>5
    <3> QED BY <3>1, <1>1, <1>2
  <2> QED BY <2>2, <2>3
<1>6. CASE i > x + 1
  <2> DEFINE j == i - x
  <2>1. j \in 1 .. y /\ j - 1 \in 1 .. y /\ j > 1 /\ i \in x + 1 .. x + y /\ i - 1 \in x + 1 .. x + y
    BY <1>1, <1>6
  <2>2. i - 1 - x = j - 1
    BY <1>1
  <2> HIDE DEF j
  <2>3. c[i] = b[j] /\ c[i - 1] = b[j - 1]
    <3>1. c[i] = b[j]
      BY <2>1, <1>1 DEF j
    <3>2. c[i - 1] = b[j - 1]
      BY <2>1, <2>2, <1>1
    <3> QED BY <3>1, <3>2
  <2>4. b[j] > m /\ b[j] > b[j - 1] /\ b[j] \in Nat
    BY <2>1, <1>1, <1>3
  <2> QED BY <2>3, <2>4
<1> QED BY <1>1, <1>4, <1>5, <1>6

------------------------------------------------------------------------------
(* What every operation of a session shares.                               *)

\* The packets of one identifier are packets.
LEMMA BoundFacts ==
  ASSUME NEW t \in Tid
  PROVE  /\ MaxSeq[t] \in Nat
         /\ \A n \in 0 .. MaxSeq[t] - 1 : n \in Frame /\ n \in Nat
         /\ Frame \subseteq Nat
         /\ Highest \subseteq Int
<1>1. MaxSeq[t] \in Nat /\ \A u \in Tid : MaxSeq[u] \in Nat
  BY RxQueueAssumption
<1> QED BY <1>1 DEF Frame, Highest

\* The window is moved past the packets passed up: it starts with a gap.
LEMMA RunReleased ==
  ASSUME NEW r \in Session
  PROVE  ~ Stored(Release(r, RunLength(r)), 0)
<1> DEFINE k == RunLength(r)
           q == Release(r, k)
<1>1. k \in 0 .. ArraySize /\ (k < ArraySize => ~ Stored(r, k))
  BY RunLengthFacts
<1> HIDE DEF k
<1>2. 0 \in Slot /\ View(q, 0) = IF 0 + k < ArraySize THEN View(r, 0 + k) ELSE NoPacket
  BY <1>1, ReleaseFacts, SizeFacts
<1>3. 0 + k = k
  BY <1>1
<1>4. View(q, 0) = NoPacket
  BY <1>1, <1>2, <1>3 DEF Stored, View
<1> QED BY <1>4 DEF Stored, View, k

LEMMA ReleaseBounded ==
  ASSUME NEW r \in Session, NEW k \in 0 .. ArraySize, NEW m \in Nat,
         \A i \in Slot : r.queue[i] < m
  PROVE  \A i \in Slot : Release(r, k).queue[i] < m
<1>1. NoPacket < m
  BY DEF NoPacket
<1> QED BY <1>1, ReleaseFacts

\* The first slot of an undisturbed window is free, so that skipping it moves the window.
LEMMA SkipFirst ==
  ASSUME NEW r \in Session, NEW o, Windowed(r, o), "window" \notin o
  PROVE  Shifted(r, Skip(r, 1), 1)
<1>1. 0 \in Slot /\ 1 \in 0 .. ArraySize
  BY SizeFacts
<1>2. ~ Stored(r, 0)
  BY <1>1 DEF Windowed
<1>3. \A j \in 0 .. 1 - 1 : ~ Stored(r, j)
  BY <1>2
<1> QED BY <1>1, <1>3, SkipShifted

\* The sender moves, and the receiver with it.
LEMMA ExpectingMoved ==
  ASSUME NEW q \in Session, NEW b \in Nat, NEW c \in Nat, c <= b, NEW m \in Int,
         NEW R, R \subseteq 0 .. m - 1,
         NEW e \in Nat, NEW l, SnOf(e) = q.expected, l < e,
         \A n \in R : n < e + SendersWindow(q),
         b <= e + Gap, e <= Moved(b, R).base,
         \A k \in Slot : Stored(q, k) => View(q, k) = e + k /\ (e + k < c \/ e + k \in R)
  PROVE  Expecting(q, Moved(b, R), l, e)
<1> DEFINE s == Moved(b, R)
<1>1. /\ s.base \in Nat /\ b <= s.base
      /\ s.rcvd \subseteq R
      /\ \A n \in R : n < s.base \/ n \in s.rcvd
      /\ s.base = b \/ s.base - 1 \in R
  BY MovedFacts
<1> HIDE DEF s
<1>2. SendersWindow(q) \in Nat /\ SendersWindow(q) <= Gap /\ Gap \in Nat
  BY SendersWindowFacts, SizeFacts DEF Gap
<1>3. s.base <= e + Gap
  <2>1. CASE s.base - 1 \in R
    <3>1. s.base - 1 < e + SendersWindow(q)
      BY <2>1
    <3> QED BY <3>1, <1>1, <1>2
  <2> QED BY <2>1, <1>1
<1>4. ASSUME NEW k \in Slot, Stored(q, k) PROVE e + k < s.base \/ e + k \in s.rcvd
  <2>1. e + k \in Nat
    BY SizeFacts DEF Slot
  <2> QED BY <2>1, <1>1, <1>4
<1>5. e <= s.base
  BY DEF s
<1>6. \A n \in s.rcvd : n < e + SendersWindow(q)
  BY <1>1
<1> QED BY <1>3, <1>4, <1>5, <1>6 DEF Expecting, s

\* What the sender's move leaves outstanding is after the new start of its window.
LEMMA MovedSender ==
  ASSUME NEW t \in Tid, NEW b \in Nat, NEW R, R \subseteq 0 .. MaxSeq[t] - 1
  PROVE  /\ Moved(b, R) \in Sender
         /\ Moved(b, R).rcvd \subseteq 0 .. MaxSeq[t] - 1
         /\ \A n \in Moved(b, R).rcvd : Moved(b, R).base < n
<1>1. MaxSeq[t] \in Int
  BY BoundFacts
<1>2. /\ Moved(b, R).base \in Nat
      /\ Moved(b, R).rcvd \subseteq R
      /\ \A n \in Moved(b, R).rcvd : Moved(b, R).base < n
  BY <1>1, MovedFacts
<1>3. R \in SUBSET Frame
  BY BoundFacts
<1>4. Moved(b, R) = [base |-> Moved(b, R).base, rcvd |-> Moved(b, R).rcvd]
  BY DEF Moved
<1> QED BY <1>2, <1>3, <1>4 DEF Sender

\* A packet that arrives in an undisturbed session is not before the expected one, and
\* its number says how far after it.
LEMMA ArrivalDist ==
  ASSUME NEW r \in Session, NEW s \in Sender, NEW l, NEW e \in Nat, Expecting(r, s, l, e),
         NEW n \in Nat, s.base <= n, n <= s.base + SendersWindow(r) - 1
  PROVE  /\ e <= n /\ n - e < SnMod \div 2 - 2
         /\ Dist(SnOf(n), r.expected) = n - e
<1>1. /\ SendersWindow(r) \in Nat /\ SendersWindow(r) <= ArraySize /\ s.base \in Nat
      /\ e <= s.base /\ s.base <= e + Gap /\ Gap \in Nat /\ SnOf(e) = r.expected
  BY SendersWindowFacts, SizeFacts DEF Sender, Expecting, Gap
<1> DEFINE j == n - e
<1>2. e <= n /\ j < SnMod \div 2 - 2 /\ j \in 0 .. SnMod - 1 /\ e + j = n
  <2>1. Gap + ArraySize < SnMod \div 2 - 1 /\ SnMod \div 2 <= SnMod /\ SnMod \div 2 \in Nat /\ ArraySize \in Nat
    BY SizeFacts DEF Gap
  <2> DEFINE h == SnMod \div 2
  <2>2. Gap + ArraySize < h - 1 /\ h <= SnMod /\ h \in Nat /\ SnMod \in Nat
    BY <2>1, SizeFacts
  <2> HIDE DEF h
  <2>3. e <= n /\ j < h - 2 /\ j \in 0 .. SnMod - 1 /\ e + j = n
    BY <1>1, <2>2, <2>1
  <2> QED BY <2>3 DEF h
<1> HIDE DEF j
<1>3. Dist(SnOf(e + j), SnOf(e)) = j
  BY <1>2, SnOfFacts
<1> QED BY <1>1, <1>2, <1>3 DEF j

------------------------------------------------------------------------------
(* Each operation on a session.                                            *)

\* Part 1: e moves past the run that the expected packet completes.
LEMMA ExpectedOK ==
  ASSUME NEW t \in Tid, NEW r \in Session, NEW s \in Sender, NEW l \in Highest, NEW o,
         SessionOK(t, r, s, l, o), r.est,
         NEW n \in 0 .. MaxSeq[t] - 1, s.base <= n, n <= s.base + SendersWindow(r) - 1, SnOf(n) = r.expected,
         NEW z, z = Skip(r, 1), NEW k, k = RunLength(z), NEW q, q = Release(z, k),
         NEW pkts, pkts = <<n>> \o Packets(z, k)
  PROVE  /\ q \in Session /\ pkts \in Seq(Frame) /\ After(l, pkts) \in Highest
         /\ SessionOK(t, q, Moved(s.base, s.rcvd \cup {n}), After(l, pkts), o)
         /\ o \subseteq {"close"} => Ascending(l, pkts)
<1> DEFINE R == s.rcvd \cup {n}
           P == Packets(z, k)
<1>1. z \in Session /\ z.queue = r.queue /\ z.est = r.est /\ z.win = r.win
  <2>1. 1 \in 0 .. ArraySize
    BY SizeFacts
  <2> QED BY <2>1, SkipFacts
<1>2. k \in 0 .. ArraySize /\ k \in Nat /\ \A j \in 0 .. k - 1 : Stored(z, j)
  BY <1>1, RunLengthFacts, SizeFacts
<1>3. q \in Session /\ q.est = r.est /\ q.win = r.win
  BY <1>1, <1>2, ReleaseFacts
<1>4. P \in Seq(Frame)
  BY <1>1, <1>2, PacketsFacts
<1>5. n \in Frame /\ n \in Nat /\ MaxSeq[t] \in Nat
  BY BoundFacts
<1>6. /\ pkts \in Seq(Frame) /\ Len(pkts) = Len(P) + 1 /\ Len(P) \in Nat
      /\ pkts[1] = n /\ \A i \in 2 .. Len(P) + 1 : pkts[i] = P[i - 1]
  <2> HIDE DEF P
  <2>1. pkts = <<n>> \o P
    BY DEF P
  <2>2. /\ <<n>> \o P \in Seq(Frame) /\ Len(P) \in Nat /\ Len(<<n>> \o P) = Len(P) + 1
        /\ (<<n>> \o P)[1] = n
        /\ \A i \in 2 .. Len(P) + 1 : (<<n>> \o P)[i] = P[i - 1]
    BY <1>4, <1>5, ConsFacts
  <2> QED BY <2>1, <2>2
<1>7. /\ \A i \in Slot : r.queue[i] < MaxSeq[t]
      /\ l < MaxSeq[t] /\ s.rcvd \subseteq 0 .. MaxSeq[t] - 1
      /\ Windowed(r, o) /\ Placed(r, o) /\ Ordered(r, s, l, o)
  BY DEF SessionOK, Bounded
<1>8. R \subseteq 0 .. MaxSeq[t] - 1 /\ s.base \in Nat
  BY <1>7 DEF Sender
<1>9. \A i \in 1 .. Len(P) : P[i] < MaxSeq[t]
  <2>1. MaxSeq[t] \in Int /\ \A i \in Slot : z.queue[i] < MaxSeq[t]
    BY <1>1, <1>5, <1>7
  <2> QED BY <2>1, <1>1, <1>2, PacketsBounded
<1>10. \A i \in 1 .. Len(pkts) : pkts[i] < MaxSeq[t]
  <2> SUFFICES ASSUME NEW i \in 1 .. Len(P) + 1 PROVE pkts[i] < MaxSeq[t]
    BY <1>6
  <2> HIDE DEF P
  <2>1. CASE i = 1
    BY <2>1, <1>6, <1>5
  <2>2. CASE i # 1
    <3>1. i \in 2 .. Len(P) + 1 /\ i - 1 \in 1 .. Len(P)
      BY <2>2, <1>6
    <3> QED BY <3>1, <1>6, <1>9
  <2> QED BY <2>1, <2>2
<1>11. After(l, pkts) \in Highest /\ After(l, pkts) < MaxSeq[t]
  <2>1. MaxSeq[t] \in Int
    BY <1>5
  <2> QED BY <2>1, <1>6, <1>7, <1>10, AfterFacts
<1>12. Bounded(t, q, Moved(s.base, R), After(l, pkts))
  <2>1. \A i \in Slot : q.queue[i] < MaxSeq[t]
    BY <1>1, <1>2, <1>5, <1>7, ReleaseBounded
  <2>2. /\ Moved(s.base, R).rcvd \subseteq 0 .. MaxSeq[t] - 1
        /\ \A m \in Moved(s.base, R).rcvd : Moved(s.base, R).base < m
    BY <1>8, MovedSender
  <2> HIDE DEF R
  <2> QED BY <2>1, <2>2, <1>3, <1>7, <1>11 DEF Bounded
<1>13. ASSUME "window" \notin o PROVE Shifted(r, q, 1 + k) /\ Shifted(r, z, 1)
  <2>1. Shifted(r, z, 1)
    BY <1>7, <1>13, SkipFirst
  <2>2. Shifted(z, q, k)
    BY <1>1, <1>2, ReleaseShifted
  <2>3. 1 \in Nat
    OBVIOUS
  <2> QED BY <2>1, <2>2, <2>3, <1>2, ShiftedTwice
<1>14. ~ Stored(q, 0) /\ 1 + k \in Nat
  BY <1>1, <1>2, RunReleased
<1>15. Windowed(q, o)
  <2>1. CASE "window" \in o
    BY <2>1 DEF Windowed
  <2>2. CASE "window" \notin o
    BY <2>2, <1>7, <1>13, <1>14, ShiftedWindowed
  <2> QED BY <2>1, <2>2
<1>16. Placed(q, o)
  <2>1. CASE "window" \in o
    BY <2>1 DEF Placed
  <2>2. CASE "window" \notin o
    BY <2>2, <1>7, <1>13, <1>14, ShiftedPlaced
  <2> QED BY <2>1, <2>2
<1>17. ASSUME InStep(r, o)
       PROVE  /\ \E e \in Nat : Expecting(q, Moved(s.base, R), After(l, pkts), e)
              /\ Ascending(l, pkts)
  <2>1. PICK e \in Nat : Expecting(r, s, l, e)
    BY <1>7, <1>17 DEF Ordered
  <2>2. "window" \notin o
    BY <1>17 DEF InStep
  <2>3. n = e
    <3>1. e <= n /\ Dist(SnOf(n), r.expected) = n - e
      BY <2>1, <1>5, ArrivalDist
    <3>2. r.expected \in Sn
      BY DEF Session
    <3>3. Dist(SnOf(n), r.expected) = 0
      BY <3>2, DistFacts
    <3> QED BY <3>1, <3>3, <1>5
  <2>4. /\ e <= s.base /\ s.base <= e + Gap /\ l < e /\ SnOf(e) = r.expected
        /\ \A m \in s.rcvd : m < e + SendersWindow(r)
        /\ \A j \in Slot : Stored(r, j) => View(r, j) = e + j /\ (e + j < s.base \/ e + j \in s.rcvd)
    BY <2>1 DEF Expecting
  <2>5. s.base = e
    BY <2>3, <2>4, <1>8
  <2> DEFINE f == e + 1
             g == f + k
  <2>6. f \in Nat /\ g \in Nat /\ Gap \in Nat
    BY <1>2, SizeFacts DEF Gap
  <2>7. ASSUME NEW j \in Slot, Stored(z, j) PROVE View(z, j) = f + j /\ f + j \in R
    <3>1. j + 1 \in Slot /\ Stored(r, j + 1) /\ View(z, j) = View(r, j + 1) /\ j \in Nat
      <4>1. 1 \in Nat /\ j \in Nat
        BY SizeFacts DEF Slot
      <4> QED BY <4>1, <2>2, <2>7, <1>13, ShiftedStored
    <3>2. e + (j + 1) = f + j /\ ~ (e + (j + 1) < e)
      BY <3>1
    <3> QED BY <3>1, <3>2, <2>4, <2>5
  <2>8. ASSUME NEW j \in Slot, Stored(q, j) PROVE View(q, j) = g + j /\ g + j \in R
    <3>1. j + k \in Slot /\ Stored(z, j + k) /\ View(q, j) = View(z, j + k) /\ j \in Nat
      <4>1. j \in Nat
        BY SizeFacts DEF Slot
      <4>2. Shifted(z, q, k)
        BY <1>1, <1>2, ReleaseShifted
      <4> QED BY <4>1, <4>2, <2>8, <1>2, ShiftedStored
    <3>2. f + (j + k) = g + j
      BY <3>1, <1>2
    <3> QED BY <3>1, <3>2, <2>7
  <2>9. SnOf(g) = q.expected
    <3>1. g = e + (1 + k)
      BY <1>2
    <3>2. q.expected = (r.expected + (1 + k)) % SnMod
      BY <2>2, <1>13 DEF Shifted
    <3> QED BY <3>1, <3>2, <2>4, <1>14, SnOfFacts
  <2>10. /\ \A i \in 1 .. Len(P) : f <= P[i] /\ P[i] < g
         /\ \A i \in 1 .. Len(P) : i > 1 => P[i] > P[i - 1]
    <3>1. f \in Int /\ g = f + k
      BY <2>6
    <3>2. \A j \in Slot : Stored(z, j) => View(z, j) = f + j
      BY <2>7
    <3> HIDE DEF f, g
    <3> QED BY <3>1, <3>2, <1>1, <1>2, PacketsOrdered
  <2>11. \A i \in 1 .. Len(P) : P[i] \in Nat
    BY <1>4, BoundFacts
  <2>12. Ascending(l, pkts) /\ \A i \in 1 .. Len(pkts) : pkts[i] < g
    <3> HIDE DEF P
    <3> SUFFICES ASSUME NEW i \in 1 .. Len(P) + 1
                 PROVE  pkts[i] > l /\ (i > 1 => pkts[i] > pkts[i - 1]) /\ pkts[i] < g
      BY <1>6 DEF Ascending
    <3>1. l \in Int
      BY BoundFacts
    <3>2. CASE i = 1
      BY <3>1, <3>2, <2>3, <2>4, <1>2, <1>6
    <3>3. CASE i # 1
      <4>1. i \in 2 .. Len(P) + 1 /\ i - 1 \in 1 .. Len(P)
        BY <3>3, <1>6
      <4>2. pkts[i] = P[i - 1] /\ f <= P[i - 1] /\ P[i - 1] < g /\ P[i - 1] \in Nat
        BY <4>1, <1>6, <2>10, <2>11
      <4>3. pkts[i] > l
        <5> DEFINE x == P[i - 1]
        <5>1. l < e /\ e < f /\ e \in Int /\ f \in Int
          BY <2>4
        <5> HIDE DEF f
        <5>2. pkts[i] = x
          BY <4>2
        <5>3. f <= x
          BY <4>2
        <5>4. x \in Nat
          BY <4>2
        <5> HIDE DEF x
        <5>5. x > l
          BY <5>1, <5>3, <5>4, <3>1
        <5> QED BY <5>2, <5>5
      <4>4. pkts[i] > pkts[i - 1]
        <5>1. CASE i = 2
          BY <5>1, <4>2, <1>6, <2>3
        <5>2. CASE i # 2
          <6>1. i - 1 \in 2 .. Len(P) + 1 /\ i - 1 > 1 /\ (i - 1) - 1 \in 1 .. Len(P)
            BY <4>1, <5>2, <1>6
          <6>2. pkts[i - 1] = P[(i - 1) - 1] /\ P[i - 1] > P[(i - 1) - 1]
            BY <6>1, <4>1, <1>6, <2>10
          <6> QED BY <6>2, <4>2
        <5> QED BY <5>1, <5>2
      <4> QED BY <4>2, <4>3, <4>4
    <3> QED BY <3>2, <3>3
  <2>13. After(l, pkts) < g
    <3>1. l < g
      <4>1. l \in Int
        BY BoundFacts
      <4> QED BY <4>1, <2>4, <1>2
    <3>2. g \in Int
      BY <2>6
    <3> HIDE DEF g
    <3> QED BY <3>1, <3>2, <2>12, <1>6, AfterFacts
  <2>14. \A m \in R : m < g + SendersWindow(q)
    <3> SUFFICES ASSUME NEW m \in R PROVE m < g + SendersWindow(q)
      OBVIOUS
    <3>1. SendersWindow(r) \in Nat /\ 1 <= SendersWindow(r) /\ SendersWindow(q) = SendersWindow(r)
      BY <1>3, SendersWindowFacts, SendersWindowSame
    <3>2. m < e + SendersWindow(r)
      BY <2>3, <2>4, <1>5, <3>1
    <3>3. m \in Nat
      <4>1. m \in 0 .. MaxSeq[t] - 1
        BY <1>8
      <4> QED BY <4>1
    <3> QED BY <3>1, <3>2, <3>3, <1>2
  <2>15. g <= Moved(s.base, R).base
    <3> DEFINE b == Moved(s.base, R).base
    <3>1. b \in Nat /\ e <= b /\ b \notin R
      <4>1. MaxSeq[t] \in Int
        BY <1>5
      <4> HIDE DEF R
      <4> QED BY <4>1, <1>8, <2>5, MovedFacts
    <3> HIDE DEF b
    <3>2. b # e
      BY <3>1, <2>3
    <3>3. ASSUME b < g PROVE FALSE
      <4> DEFINE j == b - f
      <4>1. j \in 0 .. k - 1
        BY <3>1, <3>2, <3>3, <1>2
      <4>2. f + j = b
        BY <3>1
      <4>3. j \in Slot
        BY <4>1, <1>2, SizeFacts DEF Slot
      <4> HIDE DEF j
      <4>4. f + j \in R
        BY <4>1, <4>3, <2>7, <1>2
      <4> QED BY <4>2, <4>4, <3>1
    <3>4. g <= b
      BY <3>1, <3>3, <2>6
    <3> QED BY <3>4 DEF b
  <2>16. s.base <= g + Gap
    BY <2>5, <2>6, <1>2
  <2>17. Expecting(q, Moved(s.base, R), After(l, pkts), g)
    <3>1. /\ s.base \in Nat /\ s.base <= s.base /\ MaxSeq[t] \in Int
      BY <1>8, <1>5
    <3> HIDE DEF g, f, R
    <3> QED BY <3>1, <1>3, <1>8, <2>6, <2>8, <2>9, <2>13, <2>14, <2>15, <2>16, ExpectingMoved
  <2> QED BY <2>6, <2>12, <2>17
<1>18. Ordered(q, Moved(s.base, R), After(l, pkts), o)
  BY <1>3, <1>17 DEF Ordered, InStep
<1>19. o \subseteq {"close"} => Ascending(l, pkts)
  BY <1>17 DEF InStep
<1> QED BY <1>3, <1>6, <1>11, <1>12, <1>15, <1>16, <1>18, <1>19 DEF SessionOK

\* How far the number of a packet is ahead of the expected one, in the window and beyond.
LEMMA WindowDist ==
  ASSUME NEW r \in Session, r.win >= 1, NEW sn \in Sn, Bigger(sn, r.expected),
         NEW d, d = Dist(sn, r.expected)
  PROVE  /\ d \in Nat /\ 1 <= d /\ d < SnMod \div 2 - 1 /\ sn = (r.expected + d) % SnMod
         /\ ~ Bigger(sn, WinEnd(r)) => d < r.win
         /\ Bigger(sn, WinEnd(r)) => r.win <= d \/ (d = r.win - 1 /\ sn = WinEnd(r) % SnMod)
<1> DEFINE e == r.expected
           w == r.win - 1
           h == SnMod \div 2
           y == d - w
           x == y % SnMod
<1>1. /\ e \in Sn /\ e \in Nat /\ e < SnMod /\ sn \in Nat /\ sn < SnMod /\ w \in Nat /\ w < ArraySize
      /\ h \in Nat /\ 2 * ArraySize < h /\ 2 * h <= SnMod /\ ArraySize \in Nat /\ SnMod \in Nat \ {0}
  BY SizeFacts DEF Session, Sn
<1>2. /\ d \in Nat /\ d < SnMod /\ d < h - 1 /\ sn # e /\ (e + d) % SnMod = sn
      /\ (d = 0 <=> sn = e) /\ (sn >= e => d = sn - e) /\ (sn < e => d = sn - e + SnMod)
  <2>1. e \in Sn
    BY <1>1
  <2>2. /\ d \in Sn /\ (e + d) % SnMod = sn
        /\ (d = 0 <=> sn = e) /\ (sn >= e => d = sn - e) /\ (sn < e => d = sn - e + SnMod)
    <3> HIDE DEF e
    <3>1. d = Dist(sn, e)
      BY DEF e
    <3> QED BY <2>1, <3>1, DistFacts
  <2>3. d < h - 1 /\ sn # e
    BY DEF Bigger
  <2> HIDE DEF e, h
  <2>4. d \in Nat /\ d < SnMod
    BY <2>2, <1>1 DEF Sn
  <2> QED BY <2>2, <2>3, <2>4
<1>3. WinEnd(r) = e + w /\ WinEnd(r) \in Int
  BY <1>1 DEF WinEnd
<1>4. Dist(sn, WinEnd(r)) = x
  <2> DEFINE c == e + d
             b == - (e + w)
  <2>1. c \in Int /\ b \in Int /\ c + b = y
    BY <1>1, <1>2
  <2>2. sn - WinEnd(r) = sn + b /\ sn = c % SnMod
    BY <1>1, <1>2, <1>3
  <2> HIDE DEF c, b
  <2>3. ((c % SnMod) + b) % SnMod = (c + b) % SnMod
    BY <2>1, <1>1, ModAdd
  <2> QED BY <2>1, <2>2, <2>3 DEF Dist
<1>5. y \in Int /\ - SnMod <= y /\ y < SnMod
  BY <1>1, <1>2
<1>6. Bigger(sn, WinEnd(r)) <=> x < h - 1 /\ sn # e + w
  BY <1>3, <1>4 DEF Bigger
<1>7. y = d - w
  OBVIOUS
<1> HIDE DEF e, w, h, y
<1>8. (0 <= y => x = y) /\ (y < 0 => x = y + SnMod)
  BY <1>1, <1>5, ModValue
<1> HIDE DEF x
<1>9. ASSUME ~ Bigger(sn, WinEnd(r)) PROVE d <= w
  <2> SUFFICES ASSUME ~ (d <= w) PROVE FALSE
    OBVIOUS
  <2>1. x = d - w /\ x < h - 1
    BY <1>1, <1>2, <1>7, <1>8
  <2>2. sn = e + w
    BY <2>1, <1>6, <1>9
  <2>3. d = w
    BY <2>2, <1>1, <1>2
  <2> QED BY <2>3, <1>1
<1>10. ASSUME Bigger(sn, WinEnd(r)) PROVE w <= d
  <2> SUFFICES ASSUME ~ (w <= d) PROVE FALSE
    OBVIOUS
  <2>1. x = d - w + SnMod
    BY <1>1, <1>2, <1>7, <1>8
  <2>2. x < h - 1
    BY <1>6, <1>10
  <2> QED BY <2>1, <2>2, <1>1, <1>2
<1>11. d = w => sn = WinEnd(r) % SnMod
  BY <1>2, <1>3
<1>12. w = r.win - 1 /\ r.win \in Int
  BY SizeFacts DEF w, Session
<1>13. 1 <= d
  BY <1>2
<1> QED BY <1>1, <1>2, <1>9, <1>10, <1>11, <1>12, <1>13 DEF e, h

\* A window of 0 has nothing in it, up to half of the numbers ahead.
LEMMA ZeroWindowDist ==
  ASSUME NEW r \in Session, r.win = 0, NEW sn \in Sn,
         Bigger(sn, r.expected), ~ Bigger(sn, WinEnd(r))
  PROVE  ~ (Dist(sn, r.expected) < SnMod \div 2 - 2)
<1> DEFINE e == r.expected
           d == Dist(sn, e)
           h == SnMod \div 2
           y == d + 1
           x == y % SnMod
<1>1. /\ e \in Sn /\ e \in Nat /\ e < SnMod /\ sn \in Nat /\ sn < SnMod
      /\ h \in Nat /\ 2 * h <= SnMod /\ SnMod \in Nat \ {0}
  BY SizeFacts DEF Session, Sn
<1>2. /\ d \in Nat /\ d < SnMod /\ (e + d) % SnMod = sn /\ d < h - 1
      /\ (sn >= e => d = sn - e) /\ (sn < e => d = sn - e + SnMod)
  <2>1. e \in Sn
    BY <1>1
  <2>2. d < h - 1
    BY DEF Bigger
  <2> HIDE DEF e, h
  <2> QED BY <2>1, <2>2, <1>1, DistFacts DEF Sn
<1>3. WinEnd(r) = e - 1 /\ WinEnd(r) \in Int
  BY <1>1 DEF WinEnd
<1>4. Dist(sn, WinEnd(r)) = x
  <2> DEFINE c == e + d
             b == 1 - e
  <2>1. c \in Int /\ b \in Int /\ c + b = y
    BY <1>1, <1>2
  <2>2. sn - WinEnd(r) = sn + b /\ sn = c % SnMod
    BY <1>1, <1>2, <1>3
  <2> HIDE DEF c, b
  <2>3. ((c % SnMod) + b) % SnMod = (c + b) % SnMod
    BY <2>1, <1>1, ModAdd
  <2> QED BY <2>1, <2>2, <2>3 DEF Dist
<1>5. y \in Int /\ 0 <= y /\ y < SnMod /\ y = d + 1
  BY <1>1, <1>2
<1>6. ~ (x < h - 1 /\ sn # e - 1)
  BY <1>3, <1>4 DEF Bigger
<1> HIDE DEF y
<1>7. x = y
  BY <1>1, <1>5, ModValue
<1> HIDE DEF x, e, h, d
<1>8. sn # e - 1
  BY <1>1, <1>2
<1>9. ~ (d < h - 2)
  BY <1>1, <1>2, <1>5, <1>6, <1>7, <1>8
<1> QED BY <1>9 DEF d, e, h


\* Storing a packet of the window in a free slot.
LEMMA SaveView ==
  ASSUME NEW r \in Session, NEW n \in Frame, Dist(SnOf(n), r.expected) \in Slot
  PROVE  /\ Save(r, SnOf(n), n).win = r.win /\ Save(r, SnOf(n), n).expected = r.expected
         /\ \A j \in Slot : View(Save(r, SnOf(n), n), j) =
                              IF j = Dist(SnOf(n), r.expected) THEN n ELSE View(r, j)
         /\ (r.expected + Dist(SnOf(n), r.expected)) % SnMod = SnOf(n)
<1>1. SnOf(n) \in Sn
  <2>1. n \in Nat
    BY RxQueueAssumption DEF Frame
  <2> QED BY <2>1, SnOfFacts
<1>2. r.expected \in Sn
  BY DEF Session
<1>3. (r.expected + Dist(SnOf(n), r.expected)) % SnMod = SnOf(n)
  BY <1>1, <1>2, DistFacts
<1>4. Save(r, SnOf(n), n).win = r.win /\ Save(r, SnOf(n), n).expected = r.expected
  BY <1>1, SaveFacts, ZenonT(60)
<1>5. \A j \in Slot : View(Save(r, SnOf(n), n), j) =
                        IF j = Dist(SnOf(n), r.expected) THEN n ELSE View(r, j)
  BY <1>1, SaveFacts, ZenonT(60)
<1> QED BY <1>3, <1>4, <1>5

\* Storing a packet of the window keeps the order of the slots.
LEMMA SaveOK ==
  ASSUME NEW r \in Session, NEW o, NEW n \in Frame,
         Dist(SnOf(n), r.expected) \in Slot,
         1 <= Dist(SnOf(n), r.expected), Dist(SnOf(n), r.expected) < r.win,
         Windowed(r, o), Placed(r, o)
  PROVE  Windowed(Save(r, SnOf(n), n), o) /\ Placed(Save(r, SnOf(n), n), o)
<1> DEFINE d == Dist(SnOf(n), r.expected)
           q == Save(r, SnOf(n), n)
<1>1. /\ q.win = r.win /\ q.expected = r.expected
      /\ \A j \in Slot : View(q, j) = IF j = d THEN n ELSE View(r, j)
      /\ (r.expected + d) % SnMod = SnOf(n)
  BY SaveView
<1>2. 1 <= d /\ d < r.win
  OBVIOUS
<1> HIDE DEF q, d
<1>3. \A j \in Slot : Stored(q, j) => j = d \/ (Stored(r, j) /\ View(q, j) = View(r, j))
  BY <1>1 DEF Stored, View
<1>4. Windowed(q, o)
  BY <1>1, <1>2, <1>3 DEF Windowed
<1>5. Placed(q, o)
  <2> SUFFICES ASSUME o \cap {"window", "bar"} = {}, NEW j \in Slot, Stored(q, j)
               PROVE  SnOf(View(q, j)) = (q.expected + j) % SnMod
    BY DEF Placed
  <2>1. CASE j = d
    BY <2>1, <1>1
  <2>2. CASE Stored(r, j) /\ View(q, j) = View(r, j)
    BY <2>2, <1>1 DEF Placed
  <2> QED BY <2>1, <2>2, <1>3
<1> QED BY <1>4, <1>5 DEF q

LEMMA SaveBounded ==
  ASSUME NEW t \in Tid, NEW r \in Session, NEW sn \in Sn, NEW n \in 0 .. MaxSeq[t] - 1,
         \A i \in Slot : r.queue[i] < MaxSeq[t]
  PROVE  \A i \in Slot : Save(r, sn, n).queue[i] < MaxSeq[t]
<1>1. n \in Frame /\ MaxSeq[t] \in Nat
  BY BoundFacts
<1> DEFINE i == SlotAt(r, Dist(sn, r.expected))
<1>2. i \in Slot /\ Save(r, sn, n).queue = [r.queue EXCEPT ![i] = n]
  BY <1>1, SaveFacts
<1> HIDE DEF i
<1>3. r.queue \in [Slot -> Frame \cup {NoPacket}]
  BY DEF Session
<1> QED BY <1>1, <1>2, <1>3

\* Part 2: the packet takes its slot, or there is one there already.
LEMMA InWindowOK ==
  ASSUME NEW t \in Tid, NEW r \in Session, NEW s \in Sender, NEW l \in Highest, NEW o,
         SessionOK(t, r, s, l, o), r.est,
         NEW n \in 0 .. MaxSeq[t] - 1, s.base <= n, n <= s.base + SendersWindow(r) - 1,
         Bigger(SnOf(n), r.expected), ~ Bigger(SnOf(n), WinEnd(r))
  PROVE  /\ SessionOK(t, Save(r, SnOf(n), n), Moved(s.base, s.rcvd \cup {n}), l, o)
         /\ SessionOK(t, r, Moved(s.base, s.rcvd \cup {n}), l, o)
<1> DEFINE R == s.rcvd \cup {n}
           d == Dist(SnOf(n), r.expected)
           q == Save(r, SnOf(n), n)
<1>1. n \in Frame /\ n \in Nat /\ MaxSeq[t] \in Nat /\ l \in Int
  BY BoundFacts
<1>2. SnOf(n) \in Sn
  BY <1>1, SnOfFacts
<1>3. /\ \A i \in Slot : r.queue[i] < MaxSeq[t]
      /\ l < MaxSeq[t] /\ s.rcvd \subseteq 0 .. MaxSeq[t] - 1
      /\ Windowed(r, o) /\ Placed(r, o) /\ Ordered(r, s, l, o)
  BY DEF SessionOK, Bounded
<1>4. ASSUME "window" \notin o PROVE d \in Nat /\ 1 <= d /\ d < r.win /\ d \in Slot
  <2>1. CASE r.win = 0
    <3>1. PICK e \in Nat : Expecting(r, s, l, e)
      BY <2>1, <1>3, <1>4 DEF Ordered, InStep
    <3>2. d < SnMod \div 2 - 2
      BY <3>1, <1>1, ArrivalDist
    <3> QED BY <3>2, <2>1, <1>2, ZeroWindowDist
  <2>2. CASE r.win # 0
    <3>1. r.win >= 1
      BY <2>2 DEF Session
    <3>2. d \in Nat /\ 1 <= d /\ d < r.win
      BY <3>1, <1>2, WindowDist
    <3> HIDE DEF d
    <3>3. d \in Slot
      BY <3>2, SizeFacts DEF Slot, Session
    <3> QED BY <3>2, <3>3
  <2> QED BY <2>1, <2>2
<1>5. R \subseteq 0 .. MaxSeq[t] - 1 /\ s.base \in Nat
  BY <1>3 DEF Sender
<1>6. /\ q \in Session /\ q.est = r.est /\ q.win = r.win /\ q.expected = r.expected
      /\ d \in Slot => \A j \in Slot : View(q, j) = IF j = d THEN n ELSE View(r, j)
  BY <1>1, <1>2, SaveFacts, ZenonT(60)
<1>7. /\ Moved(s.base, R).rcvd \subseteq 0 .. MaxSeq[t] - 1
      /\ \A m \in Moved(s.base, R).rcvd : Moved(s.base, R).base < m
  BY <1>5, MovedSender
<1>8. Bounded(t, q, Moved(s.base, R), l) /\ Bounded(t, r, Moved(s.base, R), l)
  <2>1. \A i \in Slot : q.queue[i] < MaxSeq[t]
    BY <1>2, <1>3, SaveBounded
  <2> HIDE DEF R, q
  <2> QED BY <2>1, <1>3, <1>6, <1>7 DEF Bounded
<1>9. Windowed(q, o) /\ Placed(q, o)
  <2>1. CASE "window" \in o
    BY <2>1 DEF Windowed, Placed
  <2>2. CASE "window" \notin o
    <3>1. d \in Slot /\ 1 <= d /\ d < r.win
      BY <2>2, <1>4
    <3> QED BY <3>1, <1>1, <1>3, SaveOK
  <2> QED BY <2>1, <2>2
<1>10. ASSUME InStep(r, o)
       PROVE  \E e \in Nat : Expecting(q, Moved(s.base, R), l, e) /\ Expecting(r, Moved(s.base, R), l, e)
  <2>1. PICK e \in Nat : Expecting(r, s, l, e)
    BY <1>3, <1>10 DEF Ordered
  <2>12. /\ d \in Nat /\ 1 <= d /\ d < r.win /\ d \in Slot
         /\ \A j \in Slot : View(q, j) = IF j = d THEN n ELSE View(r, j)
    BY <1>4, <1>6, <1>10 DEF InStep
  <2>2. n = e + d
    <3>1. e <= n /\ d = n - e
      BY <2>1, <1>1, ArrivalDist
    <3> QED BY <3>1, <1>1
  <2>3. /\ e <= s.base /\ s.base <= e + Gap /\ l < e /\ SnOf(e) = r.expected
        /\ \A m \in s.rcvd : m < e + SendersWindow(r)
        /\ \A j \in Slot : Stored(r, j) => View(r, j) = e + j /\ (e + j < s.base \/ e + j \in s.rcvd)
    BY <2>1 DEF Expecting
  <2> HIDE DEF d, q
  <2>4. n < e + SendersWindow(r)
    BY <2>2, <2>12, SendersWindowFacts
  <2>5. \A m \in R : m < e + SendersWindow(r) /\ m < e + SendersWindow(q)
    BY <2>3, <2>4, <1>6, SendersWindowSame
  <2>6. e <= Moved(s.base, R).base
    <3>1. MaxSeq[t] \in Int
      BY <1>1
    <3> HIDE DEF R
    <3>2. Moved(s.base, R).base \in Nat /\ s.base <= Moved(s.base, R).base
      BY <3>1, <1>5, MovedFacts
    <3> QED BY <3>2, <2>3, <1>5
  <2>7. \A j \in Slot : Stored(q, j) => View(q, j) = e + j /\ (e + j < s.base \/ e + j \in R)
    <3> SUFFICES ASSUME NEW j \in Slot, Stored(q, j)
                 PROVE  View(q, j) = e + j /\ (e + j < s.base \/ e + j \in R)
      OBVIOUS
    <3>1. CASE j = d
      BY <3>1, <2>2, <2>12
    <3>2. CASE j # d
      <4>1. View(q, j) = View(r, j) /\ Stored(r, j)
        BY <3>2, <2>12 DEF Stored, View
      <4> QED BY <4>1, <2>3
    <3> QED BY <3>1, <3>2
  <2>8. \A j \in Slot : Stored(r, j) => View(r, j) = e + j /\ (e + j < s.base \/ e + j \in R)
    BY <2>3
  <2>9. s.base <= s.base /\ MaxSeq[t] \in Int
    BY <1>1, <1>5
  <2> HIDE DEF R
  <2>10. Expecting(q, Moved(s.base, R), l, e)
    BY <2>3, <2>5, <2>6, <2>7, <2>9, <1>5, <1>6, ExpectingMoved
  <2>11. Expecting(r, Moved(s.base, R), l, e)
    BY <2>3, <2>5, <2>6, <2>8, <2>9, <1>5, ExpectingMoved
  <2> QED BY <2>10, <2>11
<1>11. Ordered(q, Moved(s.base, R), l, o) /\ Ordered(r, Moved(s.base, R), l, o)
  BY <1>6, <1>10 DEF Ordered, InStep
<1> QED BY <1>3, <1>8, <1>9, <1>11 DEF SessionOK

\* A packet before the window arrives only in a disturbed session.
LEMMA OldOK ==
  ASSUME NEW t \in Tid, NEW r \in Session, NEW s \in Sender, NEW l \in Highest, NEW o,
         SessionOK(t, r, s, l, o), r.est,
         NEW n \in 0 .. MaxSeq[t] - 1, s.base <= n, n <= s.base + SendersWindow(r) - 1,
         SnOf(n) # r.expected, ~ Bigger(SnOf(n), r.expected)
  PROVE  /\ SessionOK(t, r, Moved(s.base, s.rcvd \cup {n}), After(l, <<n>>), o)
         /\ After(l, <<n>>) \in Highest
         /\ ~ (o \subseteq {"close"})
<1> DEFINE R == s.rcvd \cup {n}
<1>1. n \in Frame /\ n \in Nat /\ MaxSeq[t] \in Nat
  BY BoundFacts
<1>2. /\ \A i \in Slot : r.queue[i] < MaxSeq[t]
      /\ l < MaxSeq[t] /\ s.rcvd \subseteq 0 .. MaxSeq[t] - 1
      /\ Windowed(r, o) /\ Placed(r, o) /\ Ordered(r, s, l, o)
  BY DEF SessionOK, Bounded
<1>3. R \subseteq 0 .. MaxSeq[t] - 1 /\ s.base \in Nat
  BY <1>2 DEF Sender
<1>4. /\ Moved(s.base, R).rcvd \subseteq 0 .. MaxSeq[t] - 1
      /\ \A m \in Moved(s.base, R).rcvd : Moved(s.base, R).base < m
  BY <1>3, MovedSender
<1>5. After(l, <<n>>) \in Highest /\ After(l, <<n>>) < MaxSeq[t]
  <2> DEFINE p == <<n>>
  <2>1. p \in Seq(Frame) /\ Len(p) = 1 /\ p[1] = n
    BY <1>1
  <2>2. MaxSeq[t] \in Int /\ n < MaxSeq[t]
    BY <1>1
  <2> HIDE DEF p
  <2>3. \A i \in 1 .. Len(p) : p[i] < MaxSeq[t]
    BY <2>1, <2>2
  <2>4. After(l, p) \in Highest /\ After(l, p) < MaxSeq[t]
    BY <2>1, <2>2, <2>3, <1>2, AfterFacts
  <2> QED BY <2>4 DEF p
<1>6. Bounded(t, r, Moved(s.base, R), After(l, <<n>>))
  <2> HIDE DEF R
  <2> QED BY <1>2, <1>4, <1>5 DEF Bounded
<1>7. ASSUME InStep(r, o) PROVE FALSE
  <2>1. PICK e \in Nat : Expecting(r, s, l, e)
    BY <1>2, <1>7 DEF Ordered
  <2>2. n - e < SnMod \div 2 - 1 /\ Dist(SnOf(n), r.expected) = n - e
    BY <2>1, <1>1, ArrivalDist, SizeFacts
  <2> QED BY <2>2 DEF Bigger
<1>8. Ordered(r, Moved(s.base, R), After(l, <<n>>), o) /\ ~ (o \subseteq {"close"})
  BY <1>7 DEF Ordered, InStep
<1> QED BY <1>2, <1>5, <1>6, <1>8 DEF SessionOK

\* Packets are given up near the expected one.
Near(r, b) == Dist(SnOf(b), r.expected) <= Gap \/ Dist(r.expected, SnOf(b)) <= Gap

\* A packet that the sender may give up to is as far from e as its number says.
LEMMA NearFacts ==
  ASSUME NEW r \in Session, NEW s \in Sender, NEW l, NEW e \in Nat, Expecting(r, s, l, e),
         NEW b \in Nat, s.base < b, b <= s.base + SendersWindow(r), Near(r, b)
  PROVE  e < b /\ b <= e + Gap /\ Dist(SnOf(b), r.expected) = b - e
<1> DEFINE j == b - e
<1>1. /\ SendersWindow(r) \in Nat /\ SendersWindow(r) <= ArraySize /\ s.base \in Nat
      /\ e <= s.base /\ s.base <= e + Gap /\ Gap \in Nat /\ SnOf(e) = r.expected
      /\ ArraySize \in Nat /\ SnMod \in Nat
      /\ ArraySize <= Gap /\ 4 * Gap <= SnMod
  BY SendersWindowFacts, SizeFacts DEF Sender, Expecting, Gap
<1>2. e < b /\ e + j = b /\ j \in Nat /\ 0 < j /\ j <= Gap + ArraySize /\ j <= 2 * Gap
  BY <1>1
<1> HIDE DEF j
<1>3. Gap > 0
  BY SizeFacts, <1>1
<1>4. j \in 0 .. SnMod - 1
  BY <1>1, <1>2, <1>3
<1>5. Dist(SnOf(e + j), SnOf(e)) = j
  BY <1>4, SnOfFacts
<1> DEFINE x == SnOf(b)
           y == SnOf(e)
<1>6. x \in Sn /\ y \in Sn
  BY SnOfFacts
<1>7. Dist(x, y) = j
  BY <1>2, <1>5
<1> HIDE DEF x, y
<1>8. x \in Int /\ y \in Int
  BY <1>6, SizeFacts DEF Sn
<1>9. Dist(y, x) = SnMod - j
  <2>1. (x >= y => j = x - y) /\ (x < y => j = x - y + SnMod)
    BY <1>6, <1>7, DistFacts
  <2>2. (y >= x => Dist(y, x) = y - x) /\ (y < x => Dist(y, x) = y - x + SnMod)
    BY <1>6, DistFacts
  <2>3. CASE y < x
    BY <2>1, <2>2, <2>3, <1>1, <1>8
  <2>4. CASE x < y
    BY <2>1, <2>2, <2>4, <1>1, <1>8
  <2>5. CASE x = y
    BY <2>1, <2>5, <1>2, <1>8
  <2> QED BY <2>3, <2>4, <2>5, <1>8
<1>10. j <= Gap
  <2>1. Dist(x, y) <= Gap \/ Dist(y, x) <= Gap
    BY <1>1 DEF Near, x, y
  <2>2. ~ (SnMod - j <= Gap)
    BY <1>1, <1>2, <1>3
  <2> QED BY <2>1, <2>2, <1>7, <1>9
<1>11. Dist(SnOf(b), r.expected) = j
  BY <1>1, <1>7 DEF x, y
<1> QED BY <1>1, <1>2, <1>10, <1>11

\* Packets given up are no longer in the sender's window: e may fall behind it.
LEMMA GiveUpOK ==
  ASSUME NEW t \in Tid, NEW r \in Session, NEW s \in Sender, NEW l \in Highest, NEW o,
         SessionOK(t, r, s, l, o), r.est,
         NEW b \in Nat, s.base < b, b <= s.base + SendersWindow(r), Near(r, b)
  PROVE  SessionOK(t, r, Moved(b, s.rcvd), l, o)
<1>1. MaxSeq[t] \in Nat
  BY BoundFacts
<1>2. /\ \A i \in Slot : r.queue[i] < MaxSeq[t]
      /\ l < MaxSeq[t] /\ s.rcvd \subseteq 0 .. MaxSeq[t] - 1
      /\ Windowed(r, o) /\ Placed(r, o) /\ Ordered(r, s, l, o)
  BY DEF SessionOK, Bounded
<1>3. s.base \in Nat
  BY DEF Sender
<1>4. Bounded(t, r, Moved(b, s.rcvd), l)
  <2>1. /\ Moved(b, s.rcvd).rcvd \subseteq 0 .. MaxSeq[t] - 1
        /\ \A m \in Moved(b, s.rcvd).rcvd : Moved(b, s.rcvd).base < m
    BY <1>2, MovedSender
  <2> QED BY <1>2, <2>1 DEF Bounded
<1>5. ASSUME InStep(r, o) PROVE \E e \in Nat : Expecting(r, Moved(b, s.rcvd), l, e)
  <2>1. PICK e \in Nat : Expecting(r, s, l, e)
    BY <1>2, <1>5 DEF Ordered
  <2>2. e < b /\ b <= e + Gap
    BY <2>1, NearFacts
  <2>3. /\ l < e /\ SnOf(e) = r.expected
        /\ \A m \in s.rcvd : m < e + SendersWindow(r)
        /\ \A j \in Slot : Stored(r, j) => View(r, j) = e + j /\ (e + j < s.base \/ e + j \in s.rcvd)
    BY <2>1 DEF Expecting
  <2>4. MaxSeq[t] \in Int /\ s.base <= b
    BY <1>1, <1>3
  <2>5. e <= Moved(b, s.rcvd).base
    <3>1. Moved(b, s.rcvd).base \in Nat /\ b <= Moved(b, s.rcvd).base
      BY <2>4, <1>2, MovedFacts
    <3> QED BY <3>1, <2>2
  <2>6. Expecting(r, Moved(b, s.rcvd), l, e)
    BY <2>2, <2>3, <2>4, <2>5, <1>2, <1>3, ExpectingMoved
  <2> QED BY <2>6
<1> QED BY <1>2, <1>4, <1>5 DEF SessionOK, Ordered

LEMMA ExpectedChanged ==
  ASSUME NEW r \in Session, NEW c \in Sn
  PROVE  /\ [r EXCEPT !.expected = c] \in Session
         /\ [r EXCEPT !.expected = c].est = r.est /\ [r EXCEPT !.expected = c].win = r.win
         /\ [r EXCEPT !.expected = c].queue = r.queue /\ [r EXCEPT !.expected = c].expected = c
         /\ \A k : View([r EXCEPT !.expected = c], k) = View(r, k)
<1> DEFINE q == [r EXCEPT !.expected = c]
<1>1. /\ q \in Session /\ q.est = r.est /\ q.win = r.win /\ q.queue = r.queue
      /\ q.expected = c /\ q.start = r.start
  BY DEF Session
<1> HIDE DEF q
<1>2. \A k : View(q, k) = View(r, k)
  BY <1>1 DEF View, SlotAt
<1> QED BY <1>1, <1>2 DEF q

\* The loop of part 4 ends at a free slot.
LEMMA BarLoopFacts ==
  ASSUME NEW r \in Session, NEW d
  PROVE  /\ BarLoop(r, d) \in 0 .. ArraySize
         /\ BarLoop(r, d) < ArraySize => ~ Stored(r, BarLoop(r, d))
<1> DEFINE S == {k \in 0 .. ArraySize : k = ArraySize \/ (k >= d /\ ~Stored(r, k))}
<1>1. S \in SUBSET Nat /\ S # {}
  <2>1. ArraySize \in S
    BY SizeFacts
  <2> QED BY <2>1
<1>2. Min(S) \in S
  BY <1>1, MinFacts
<1>3. BarLoop(r, d) = Min(S)
  BY DEF BarLoop
<1>4. BarLoop(r, d) \in S
  BY <1>2, <1>3
<1> QED BY <1>4, SizeFacts

\* Part 4: e moves to the packet that the BAR frame starts at.
LEMMA BarOK ==
  ASSUME NEW t \in Tid, NEW r \in Session, NEW s \in Sender, NEW l \in Highest, NEW o,
         SessionOK(t, r, s, l, o), r.est,
         NEW b \in Nat, s.base < b, b <= s.base + SendersWindow(r), Near(r, b),
         NEW d, NEW k, k = BarLoop(r, d), NEW p, p = Packets(r, k),
         NEW q, q = [Release(r, k) EXCEPT !.expected = SnOf(b)],
         NEW o2, o \subseteq o2, "bar" \in o2 \/ (k = Dist(SnOf(b), r.expected) /\ o2 = o)
  PROVE  /\ q \in Session /\ After(l, p) \in Highest
         /\ SessionOK(t, q, Moved(b, s.rcvd), After(l, p), o2)
         /\ o2 \subseteq {"close"} => Ascending(l, p)
<1> DEFINE z == Release(r, k)
<1>1. k \in 0 .. ArraySize /\ k \in Nat /\ (k < ArraySize => ~ Stored(r, k))
  BY BarLoopFacts, SizeFacts
<1>2. z \in Session /\ z.est = r.est /\ z.win = r.win /\ z.expected = (r.expected + k) % SnMod
  BY <1>1, ReleaseFacts
<1>3. SnOf(b) \in Sn
  BY SnOfFacts
<1>4. /\ q \in Session /\ q.est = r.est /\ q.win = r.win /\ q.queue = z.queue
      /\ q.expected = SnOf(b) /\ \A j : View(q, j) = View(z, j)
  BY <1>2, <1>3, ExpectedChanged
<1>5. p \in Seq(Frame) /\ MaxSeq[t] \in Nat /\ MaxSeq[t] \in Int
  BY <1>1, PacketsFacts, BoundFacts
<1>6. /\ \A i \in Slot : r.queue[i] < MaxSeq[t]
      /\ l < MaxSeq[t] /\ s.rcvd \subseteq 0 .. MaxSeq[t] - 1
      /\ Windowed(r, o) /\ Placed(r, o) /\ Ordered(r, s, l, o)
  BY DEF SessionOK, Bounded
<1>7. After(l, p) \in Highest /\ After(l, p) < MaxSeq[t]
  <2>1. \A i \in 1 .. Len(p) : p[i] < MaxSeq[t]
    BY <1>1, <1>5, <1>6, PacketsBounded
  <2> QED BY <2>1, <1>5, <1>6, AfterFacts
<1>8. Bounded(t, q, Moved(b, s.rcvd), After(l, p))
  <2>1. \A i \in Slot : z.queue[i] < MaxSeq[t]
    BY <1>1, <1>5, <1>6, ReleaseBounded
  <2>2. /\ Moved(b, s.rcvd).rcvd \subseteq 0 .. MaxSeq[t] - 1
        /\ \A m \in Moved(b, s.rcvd).rcvd : Moved(b, s.rcvd).base < m
    BY <1>6, MovedSender
  <2> HIDE DEF z
  <2> QED BY <2>1, <2>2, <1>4, <1>6, <1>7 DEF Bounded
<1>9. Shifted(r, z, k)
  BY <1>1, ReleaseShifted
<1>10. ~ Stored(z, 0)
  <2>1. 0 \in Slot /\ 0 + k = k
    BY SizeFacts, <1>1
  <2>2. View(z, 0) = IF 0 + k < ArraySize THEN View(r, 0 + k) ELSE NoPacket
    BY <2>1, <1>9 DEF Shifted
  <2>3. View(z, 0) = NoPacket
    BY <2>1, <2>2, <1>1 DEF Stored, View
  <2> QED BY <2>3 DEF Stored, View
<1> HIDE DEF z
<1>11. Windowed(q, o2)
  <2>1. Windowed(z, o)
    BY <1>1, <1>6, <1>9, <1>10, ShiftedWindowed
  <2>2. \A j : Stored(q, j) <=> Stored(z, j)
    BY <1>4 DEF Stored, View
  <2> QED BY <2>1, <2>2, <1>4, <1>2 DEF Windowed
<1>12. ASSUME "bar" \in o2 PROVE Placed(q, o2) /\ ~ (o2 \subseteq {"close"})
  BY <1>12 DEF Placed
<1>13. ASSUME k = Dist(SnOf(b), r.expected), o2 = o
       PROVE  Placed(q, o2) /\ Shifted(r, q, k)
  <2>1. q.expected = (r.expected + k) % SnMod
    <3>1. r.expected \in Sn
      BY DEF Session
    <3> QED BY <3>1, <1>3, <1>4, <1>13, DistFacts
  <2>2. Shifted(r, q, k)
    BY <2>1, <1>4, <1>9 DEF Shifted
  <2> QED BY <2>2, <1>1, <1>6, <1>13, ShiftedPlaced
<1>14. ASSUME k = Dist(SnOf(b), r.expected), o2 = o, InStep(r, o)
       PROVE  Expecting(q, Moved(b, s.rcvd), After(l, p), b) /\ Ascending(l, p)
  <2>1. PICK e \in Nat : Expecting(r, s, l, e)
    BY <1>6, <1>14 DEF Ordered
  <2>2. e < b /\ b <= e + Gap /\ k = b - e
    BY <2>1, <1>14, NearFacts
  <2>3. /\ l < e /\ SnOf(e) = r.expected
        /\ \A m \in s.rcvd : m < e + SendersWindow(r)
        /\ \A j \in Slot : Stored(r, j) => View(r, j) = e + j /\ (e + j < s.base \/ e + j \in s.rcvd)
    BY <2>1 DEF Expecting
  <2>4. /\ s.base \in Nat /\ s.base <= b /\ Gap \in Nat /\ l \in Int
        /\ SendersWindow(r) \in Nat /\ SendersWindow(q) = SendersWindow(r)
    <3>1. s.base \in Nat /\ s.base <= b /\ Gap \in Nat /\ l \in Int
      BY SizeFacts, BoundFacts DEF Sender, Gap
    <3> QED BY <3>1, <1>4, SendersWindowFacts, SendersWindowSame
  <2>5. /\ \A i \in 1 .. Len(p) : e <= p[i] /\ p[i] < e + k
        /\ \A i \in 1 .. Len(p) : i > 1 => p[i] > p[i - 1]
    <3>1. e \in Int /\ \A j \in Slot : Stored(r, j) => View(r, j) = e + j
      BY <2>3
    <3> QED BY <3>1, <1>1, PacketsOrdered
  <2>6. \A i \in 1 .. Len(p) : p[i] \in Nat
    BY <1>5, BoundFacts
  <2>7. \A i \in 1 .. Len(p) : p[i] > l /\ p[i] < b
    BY <2>2, <2>3, <2>4, <2>5, <2>6
  <2>8. Ascending(l, p)
    BY <2>5, <2>7 DEF Ascending
  <2>9. After(l, p) < b
    <3>1. l < b /\ b \in Int
      BY <2>2, <2>3, <2>4
    <3> QED BY <3>1, <2>7, <1>5, AfterFacts
  <2>10. \A m \in s.rcvd : m < b + SendersWindow(q)
    <3> SUFFICES ASSUME NEW m \in s.rcvd PROVE m < b + SendersWindow(q)
      OBVIOUS
    <3>1. m \in Nat /\ m < e + SendersWindow(r)
      BY <2>3, <1>6
    <3> QED BY <3>1, <2>2, <2>4, <1>4
  <2>11. \A j \in Slot : Stored(q, j) => View(q, j) = b + j /\ (b + j < s.base \/ b + j \in s.rcvd)
    <3> SUFFICES ASSUME NEW j \in Slot, Stored(q, j)
                 PROVE  View(q, j) = b + j /\ (b + j < s.base \/ b + j \in s.rcvd)
      OBVIOUS
    <3>1. j + k \in Slot /\ Stored(r, j + k) /\ View(q, j) = View(r, j + k)
      BY <1>1, <1>13, <1>14, ShiftedStored
    <3>2. e + (j + k) = b + j
      BY <2>2, SizeFacts DEF Slot
    <3> QED BY <3>1, <3>2, <2>3
  <2>12. b <= b + Gap /\ b <= Moved(b, s.rcvd).base
    BY <2>4, <1>5, <1>6, MovedFacts
  <2>13. Expecting(q, Moved(b, s.rcvd), After(l, p), b)
    BY <2>4, <2>9, <2>10, <2>11, <2>12, <1>4, <1>5, <1>6, ExpectingMoved
  <2> QED BY <2>8, <2>13
<1>17. ASSUME r.win = 0, "window" \notin o PROVE Expecting(q, Moved(b, s.rcvd), After(l, p), b)
  <2>1. PICK e \in Nat : Expecting(r, s, l, e)
    BY <1>6, <1>17 DEF Ordered, InStep
  <2>2. e < b /\ b <= e + Gap
    BY <2>1, NearFacts
  <2>3. l < e /\ \A m \in s.rcvd : m < e + SendersWindow(r)
    BY <2>1 DEF Expecting
  <2>4. /\ s.base \in Nat /\ s.base <= b /\ Gap \in Nat /\ l \in Int
        /\ SendersWindow(r) \in Nat /\ SendersWindow(q) = SendersWindow(r)
    <3>1. s.base \in Nat /\ s.base <= b /\ Gap \in Nat /\ l \in Int
      BY SizeFacts, BoundFacts DEF Sender, Gap
    <3> QED BY <3>1, <1>4, SendersWindowFacts, SendersWindowSame
  <2>5. \A j \in Slot : ~ Stored(r, j)
    BY <1>6, <1>17, SizeFacts DEF Windowed, Slot
  <2>6. \A j \in Slot : ~ Stored(q, j)
    <3> SUFFICES ASSUME NEW j \in Slot, Stored(q, j) PROVE FALSE
      OBVIOUS
    <3>1. Stored(z, j)
      BY <1>4 DEF Stored, View
    <3>2. Stored(r, j + k) /\ j + k \in Slot
      BY <3>1, <1>1, <1>9, ShiftedStored
    <3> QED BY <3>2, <2>5
  <2>7. Len(p) = 0
    <3>1. \A j \in StoredSlots(r, k) : FALSE
      BY <2>5, <1>1, SizeFacts DEF StoredSlots, Slot
    <3>2. \A i \in 1 .. Len(p) : Nth(StoredSlots(r, k), i) \in StoredSlots(r, k)
      BY <1>1, PacketsFacts
    <3>3. Len(p) \in Nat /\ ~ (1 <= Len(p))
      BY <3>1, <3>2, <1>5
    <3> QED BY <3>3
  <2>8. After(l, p) < b
    <3>1. l < b /\ b \in Int
      BY <2>2, <2>3, <2>4
    <3>2. \A i \in 1 .. Len(p) : p[i] < b
      BY <2>7
    <3> QED BY <3>1, <3>2, <1>5, AfterFacts
  <2>9. \A m \in s.rcvd : m < b + SendersWindow(q)
    <3> SUFFICES ASSUME NEW m \in s.rcvd PROVE m < b + SendersWindow(q)
      OBVIOUS
    <3>1. m \in Nat /\ m < e + SendersWindow(r)
      BY <2>3, <1>6
    <3> QED BY <3>1, <2>2, <2>4
  <2>10. b <= b + Gap /\ b <= Moved(b, s.rcvd).base
    BY <2>4, <1>5, <1>6, MovedFacts
  <2> QED BY <2>4, <2>6, <2>8, <2>9, <2>10, <1>4, <1>5, <1>6, ExpectingMoved
<1>15. Placed(q, o2)
  BY <1>12, <1>13
<1>16. o2 \subseteq {"close"} => Ascending(l, p)
  BY <1>12, <1>14 DEF InStep
<1>18. Ordered(q, Moved(b, s.rcvd), After(l, p), o2)
  <2> SUFFICES ASSUME InStep(q, o2) PROVE Expecting(q, Moved(b, s.rcvd), After(l, p), b)
    BY DEF Ordered
  <2>1. CASE o2 \subseteq {"close"}
    BY <2>1, <1>12, <1>14 DEF InStep
  <2>2. CASE q.win = 0 /\ "window" \notin o2
    BY <2>2, <1>4, <1>17
  <2> QED BY <2>1, <2>2 DEF InStep
<1> QED BY <1>4, <1>7, <1>8, <1>11, <1>15, <1>16, <1>18 DEF SessionOK

\* The time-out disturbs the session: order is no longer promised.
LEMMA TimeOutOK ==
  ASSUME NEW t \in Tid, NEW r \in Session, NEW s \in Sender, NEW l \in Highest, NEW o,
         SessionOK(t, r, s, l, o), r.est,
         NEW first \in Slot, Stored(r, first), \A j \in 0 .. first - 1 : ~ Stored(r, j),
         NEW z, z = Skip(r, first), NEW k, k = RunLength(z), NEW q, q = Release(z, k),
         NEW p, p = Packets(z, k), NEW o2, o \subseteq o2, "timeout" \in o2
  PROVE  /\ q \in Session /\ After(l, p) \in Highest
         /\ SessionOK(t, q, s, After(l, p), o2)
<1>1. first \in 0 .. ArraySize /\ first \in Nat
  BY SizeFacts DEF Slot
<1>2. z \in Session /\ z.queue = r.queue /\ z.est = r.est /\ z.win = r.win /\ Shifted(r, z, first)
  BY <1>1, SkipFacts, SkipShifted
<1>3. k \in 0 .. ArraySize /\ k \in Nat
  BY <1>2, RunLengthFacts, SizeFacts
<1>4. q \in Session /\ q.est = r.est /\ q.win = r.win /\ Shifted(z, q, k)
  BY <1>2, <1>3, ReleaseFacts, ReleaseShifted
<1>5. Shifted(r, q, first + k) /\ first + k \in Nat
  BY <1>1, <1>2, <1>3, <1>4, ShiftedTwice
<1>6. ~ Stored(q, 0)
  BY <1>2, RunReleased
<1>7. p \in Seq(Frame) /\ MaxSeq[t] \in Nat /\ MaxSeq[t] \in Int
  BY <1>2, <1>3, PacketsFacts, BoundFacts
<1>8. /\ \A i \in Slot : r.queue[i] < MaxSeq[t]
      /\ l < MaxSeq[t] /\ s.rcvd \subseteq 0 .. MaxSeq[t] - 1
      /\ \A m \in s.rcvd : s.base < m
      /\ Windowed(r, o) /\ Placed(r, o)
  BY DEF SessionOK, Bounded
<1>9. After(l, p) \in Highest /\ After(l, p) < MaxSeq[t]
  <2>1. \A i \in 1 .. Len(p) : p[i] < MaxSeq[t]
    BY <1>2, <1>3, <1>7, <1>8, PacketsBounded
  <2> QED BY <2>1, <1>7, <1>8, AfterFacts
<1>10. Bounded(t, q, s, After(l, p))
  <2>1. \A i \in Slot : q.queue[i] < MaxSeq[t]
    BY <1>2, <1>3, <1>7, <1>8, ReleaseBounded
  <2> QED BY <2>1, <1>4, <1>8, <1>9 DEF Bounded
<1>11. Windowed(q, o) /\ Placed(q, o)
  BY <1>5, <1>6, <1>8, ShiftedWindowed, ShiftedPlaced
<1>12. Windowed(q, o2) /\ Placed(q, o2)
  BY <1>11 DEF Windowed, Placed
<1>13. Ordered(q, s, After(l, p), o2)
  <2>1. ASSUME r.win = 0 PROVE "window" \in o
    BY <2>1, <1>1, <1>8, SizeFacts DEF Windowed
  <2> QED BY <2>1, <1>4 DEF Ordered, InStep
<1> QED BY <1>4, <1>9, <1>10, <1>12, <1>13 DEF SessionOK

\* An empty array is in order.
LEMMA EmptyOK ==
  ASSUME NEW r \in Session, r.queue = Closed.queue, NEW o
  PROVE  (\A k \in Slot : ~ Stored(r, k)) /\ Windowed(r, o) /\ Placed(r, o)
<1>1. r.queue = [i \in Slot |-> NoPacket]
  BY DEF Closed
<1>2. \A k \in Slot : ~ Stored(r, k)
  BY <1>1, ViewStored
<1> QED BY <1>2 DEF Windowed, Placed

\* What closing a session leaves of its data base, and of what its sender has outstanding.
Emptied(r) == [r EXCEPT !.est = FALSE, !.queue = Closed.queue]

Caught(s) == [base |-> Max({s.base} \cup {n + 1 : n \in s.rcvd}), rcvd |-> {}]

\* Closing passes up all that is stored, and what is passed up is in order.
LEMMA CloseOK ==
  ASSUME NEW t \in Tid, NEW r \in Session, NEW s \in Sender, NEW l \in Highest, NEW o,
         SessionOK(t, r, s, l, o), r.est, NEW o2,
         NEW p, p = Packets(r, ArraySize),
         NEW q, q = Emptied(r), NEW s2, s2 = Caught(s)
  PROVE  /\ q \in Session /\ s2 \in Sender /\ After(l, p) \in Highest
         /\ SessionOK(t, q, s2, After(l, p), o2)
         /\ o \subseteq {"close"} => Ascending(l, p)
<1> USE DEF Emptied, Caught
<1>1. Closed.queue \in [Slot -> Frame \cup {NoPacket}] /\ \A i \in Slot : Closed.queue[i] = NoPacket
  BY DEF Closed
<1>2. q \in Session /\ q.est = FALSE /\ q.queue = Closed.queue
  <2> DEFINE c == Closed.queue
  <2> HIDE DEF c
  <2>1. c \in [Slot -> Frame \cup {NoPacket}] /\ q = [r EXCEPT !.est = FALSE, !.queue = c]
    BY <1>1 DEF c
  <2>2. q \in Session /\ q.est = FALSE /\ q.queue = c
    BY <2>1 DEF Session
  <2> QED BY <2>2 DEF c
<1>3. /\ \A i \in Slot : r.queue[i] < MaxSeq[t]
      /\ l < MaxSeq[t] /\ s.rcvd \subseteq 0 .. MaxSeq[t] - 1
      /\ Ordered(r, s, l, o)
  BY DEF SessionOK, Bounded
<1>4. MaxSeq[t] \in Nat /\ MaxSeq[t] \in Int /\ NoPacket < MaxSeq[t] /\ ArraySize \in 0 .. ArraySize
  BY SizeFacts, BoundFacts DEF NoPacket
<1>5. s2 \in Sender /\ s2.rcvd = {}
  <2> DEFINE S == {s.base} \cup {n + 1 : n \in s.rcvd}
             m == s.base + MaxSeq[t]
  <2>1. s.base \in Nat
    BY DEF Sender
  <2>2. \A n \in s.rcvd : n \in Nat /\ n < MaxSeq[t]
    <3>1. \A n \in 0 .. MaxSeq[t] - 1 : n \in Nat /\ n < MaxSeq[t]
      BY <1>4
    <3> QED BY <3>1, <1>3
  <2>3. S \in SUBSET Nat /\ S # {} /\ m \in Int /\ \A x \in S : x <= m
    BY <2>1, <2>2, <1>4
  <2> HIDE DEF S, m
  <2>4. Max(S) \in S
    BY <2>3, MaxFacts
  <2>5. Max(S) \in Nat
    BY <2>3, <2>4
  <2> QED BY <2>5 DEF S, Sender
<1>6. p \in Seq(Frame)
  BY <1>4, PacketsFacts
<1>7. After(l, p) \in Highest /\ After(l, p) < MaxSeq[t]
  <2>1. \A i \in 1 .. Len(p) : p[i] < MaxSeq[t]
    BY <1>3, <1>4, PacketsBounded
  <2> QED BY <2>1, <1>3, <1>4, <1>6, AfterFacts
<1>8. Bounded(t, q, s2, After(l, p))
  BY <1>1, <1>2, <1>4, <1>5, <1>7 DEF Bounded
<1>9. Windowed(q, o2) /\ Placed(q, o2)
  BY <1>2, EmptyOK
<1>10. Ordered(q, s2, After(l, p), o2)
  BY <1>2 DEF Ordered
<1>11. ASSUME o \subseteq {"close"} PROVE Ascending(l, p)
  <2>1. PICK e \in Nat : Expecting(r, s, l, e)
    BY <1>3, <1>11 DEF Ordered, InStep
  <2>2. l < e /\ e \in Int /\ l \in Int /\ \A j \in Slot : Stored(r, j) => View(r, j) = e + j
    BY <2>1, BoundFacts DEF Expecting
  <2>3. /\ \A i \in 1 .. Len(p) : e <= p[i]
        /\ \A i \in 1 .. Len(p) : i > 1 => p[i] > p[i - 1]
    BY <2>2, <1>4, PacketsOrdered
  <2>4. \A i \in 1 .. Len(p) : p[i] \in Nat
    BY <1>6, BoundFacts
  <2>5. \A i \in 1 .. Len(p) : p[i] > l
    BY <2>2, <2>3, <2>4
  <2> QED BY <2>3, <2>5 DEF Ascending
<1> QED BY <1>2, <1>5, <1>7, <1>8, <1>9, <1>10, <1>11 DEF SessionOK

LEMMA OpenedFacts ==
  ASSUME NEW w \in 0 .. ArraySize, NEW c \in Sn
  PROVE  /\ [Closed EXCEPT !.est = TRUE, !.win = w, !.expected = c] \in Session
         /\ [Closed EXCEPT !.est = TRUE, !.win = w, !.expected = c].est = TRUE
         /\ [Closed EXCEPT !.est = TRUE, !.win = w, !.expected = c].win = w
         /\ [Closed EXCEPT !.est = TRUE, !.win = w, !.expected = c].expected = c
         /\ [Closed EXCEPT !.est = TRUE, !.win = w, !.expected = c].queue = Closed.queue
<1> DEFINE a == [i \in Slot |-> NoPacket]
<1>1. a \in [Slot -> Frame \cup {NoPacket}] /\ 0 \in Slot
  BY SizeFacts
<1>2. Closed = [est |-> FALSE, win |-> 0, start |-> 0, expected |-> 0, queue |-> a]
  BY DEF Closed
<1> HIDE DEF a
<1> QED BY <1>1, <1>2 DEF Session

\* A session that is opened for sender s.
Opened(asked, s) ==
  [Closed EXCEPT !.est = TRUE, !.win = WinSize(asked), !.expected = SnOf(s.base)]

\* A session that is opened expects the sender's next packet.
LEMMA AddbaOK ==
  ASSUME NEW t \in Tid, NEW r \in Session, NEW s \in Sender, NEW l \in Highest, NEW o,
         SessionOK(t, r, s, l, o), ~ r.est, NEW o2, NEW asked \in WinSizes[t],
         NEW q, q = Opened(asked, s)
  PROVE  /\ q \in Session /\ q.queue = r.queue
         /\ SessionOK(t, q, s, -1, o2)
<1> USE DEF Opened
<1>1. r.queue = Closed.queue /\ s.rcvd = {} /\ s.base \in Nat
  BY DEF SessionOK, Bounded, Sender
<1>2. WinSize(asked) \in 0 .. ArraySize
  <2>1. asked \in Nat /\ ArraySize \in Nat \ {0}
    BY RxQueueAssumption
  <2> DEFINE S == {asked, ArraySize}
  <2>2. S \in SUBSET Nat /\ S # {}
    BY <2>1
  <2>3. Min(S) \in S /\ Min(S) <= ArraySize
    <3>1. ArraySize \in S
      OBVIOUS
    <3> HIDE DEF S
    <3> QED BY <2>2, <3>1, MinFacts
  <2> QED BY <2>1, <2>3 DEF WinSize
<1>3. SnOf(s.base) \in Sn
  BY <1>1, SnOfFacts
<1>4. \A i \in Slot : Closed.queue[i] = NoPacket
  BY DEF Closed
<1>5. /\ q \in Session /\ q.est = TRUE /\ q.win = WinSize(asked) /\ q.expected = SnOf(s.base)
      /\ q.queue = Closed.queue
  BY <1>2, <1>3, OpenedFacts, ZenonT(60)
<1>6. MaxSeq[t] \in Nat /\ NoPacket < MaxSeq[t] /\ -1 < MaxSeq[t]
  BY BoundFacts DEF NoPacket
<1>7. Bounded(t, q, s, -1)
  BY <1>1, <1>2, <1>4, <1>5, <1>6 DEF Bounded
<1>8. (\A k \in Slot : ~ Stored(q, k)) /\ Windowed(q, o2) /\ Placed(q, o2)
  BY <1>5, EmptyOK
<1>9. Expecting(q, s, -1, s.base)
  <2>1. Gap \in Nat /\ s.base <= s.base + Gap
    BY <1>1, SizeFacts DEF Gap
  <2> QED BY <2>1, <1>1, <1>5, <1>8 DEF Expecting
<1>10. Ordered(q, s, -1, o2)
  BY <1>1, <1>9 DEF Ordered
<1> QED BY <1>1, <1>5, <1>7, <1>8, <1>10 DEF SessionOK

\* Without a session only the sender moves.
LEMMA NoSessionOK ==
  ASSUME NEW t \in Tid, NEW r \in Session, NEW s \in Sender, NEW l \in Highest, NEW o,
         SessionOK(t, r, s, l, o), ~ r.est, s.base < MaxSeq[t]
  PROVE  /\ Moved(s.base, {s.base}) \in Sender
         /\ SessionOK(t, r, Moved(s.base, {s.base}), l, o)
<1>1. s.base \in Nat /\ MaxSeq[t] \in Nat
  BY BoundFacts DEF Sender
<1> DEFINE R == {s.base}
           s2 == Moved(s.base, R)
<1>2. R \subseteq 0 .. MaxSeq[t] - 1
  BY <1>1
<1>3. s2 \in Sender /\ s2.rcvd \subseteq 0 .. MaxSeq[t] - 1 /\ \A m \in s2.rcvd : s2.base < m
  BY <1>1, <1>2, MovedSender
<1>4. s2.rcvd \subseteq R /\ s.base <= s2.base /\ s2.base \in Nat
  <2>1. MaxSeq[t] \in Int
    BY <1>1
  <2> HIDE DEF R
  <2> QED BY <2>1, <1>1, <1>2, MovedFacts
<1>5. s2.rcvd = {}
  <2> HIDE DEF s2
  <2> QED BY <1>1, <1>3, <1>4
<1> HIDE DEF s2
<1>6. Bounded(t, r, s2, l)
  BY <1>3, <1>5 DEF SessionOK, Bounded
<1>7. Ordered(r, s2, l, o)
  BY DEF Ordered
<1> QED BY <1>3, <1>6, <1>7 DEF SessionOK, s2

\* How far part of ReceiveBeyond moves the window.
LEMMA SlideFacts ==
  ASSUME NEW r \in Session, NEW c \in Sn
  PROVE  /\ SlideBy(r, c) \in 0 .. ArraySize
         /\ SlideBy(r, c) <= r.win
         /\ Bigger(c, r.expected) =>
              /\ SlideBy(r, c) <= Dist(c, r.expected)
              /\ SlideBy(r, c) = Dist(c, r.expected) \/ SlideBy(r, c) = r.win
         /\ ~ Bigger(c, r.expected) => SlideBy(r, c) = 0
<1> DEFINE d == Dist(c, r.expected)
           S == {d, ArraySize, r.win}
           k == SlideBy(r, c)
<1>1. r.win \in Nat /\ r.win <= ArraySize /\ ArraySize \in Nat
  BY SizeFacts DEF Session
<1>2. d \in Nat
  <2>1. r.expected \in Sn
    BY DEF Session
  <2>2. d \in Sn
    BY <2>1, DistFacts
  <2> QED BY <2>2, SizeFacts DEF Sn
<1>3. S \in SUBSET Nat /\ S # {} /\ d \in S /\ ArraySize \in S /\ r.win \in S
  BY <1>1, <1>2
<1>4. k = IF Bigger(c, r.expected) THEN Min(S) ELSE 0
  BY DEF SlideBy
<1>5. Min(S) \in S /\ Min(S) <= d /\ Min(S) <= ArraySize /\ Min(S) <= r.win
  <2> HIDE DEF S, d
  <2> QED BY <1>3, MinFacts
<1>6. Min(S) \in Nat /\ (Min(S) = d \/ Min(S) = r.win)
  <2> DEFINE m == Min(S)
  <2>1. m = d \/ m = ArraySize \/ m = r.win
    BY <1>5
  <2>2. m <= ArraySize /\ m <= r.win
    BY <1>5
  <2> HIDE DEF m, d
  <2>3. m \in Nat /\ (m = d \/ m = r.win)
    BY <2>1, <2>2, <1>1, <1>2
  <2> QED BY <2>3 DEF m
<1> HIDE DEF S, d, k
<1> QED BY <1>1, <1>2, <1>4, <1>5, <1>6 DEF d, k

\* The slots that part 3 of ReceivePacket releases after the first k, and the session then.
Further(z, k, moved) == IF k = z.win THEN 0 ELSE RunLength(moved)

Settled(z, k, moved, more, c) ==
  IF k = z.win THEN [moved EXCEPT !.expected = c] ELSE Release(moved, more)

\* What it passes up.
Leaving(z, k, moved, more) == Packets(z, k) \o Packets(moved, more)

\* Packets are numbers.
LEMMA FrameSeq ==
  ASSUME NEW p \in Seq(Frame)
  PROVE  p \in Seq(Nat) /\ Len(p) \in Nat /\ \A i \in 1 .. Len(p) : p[i] \in Nat
<1>1. Frame \subseteq Nat
  BY RxQueueAssumption DEF Frame
<1>2. Len(p) \in Nat /\ p \in [1 .. Len(p) -> Frame]
  OBVIOUS
<1>3. p \in [1 .. Len(p) -> Nat]
  BY <1>1, <1>2
<1> QED BY <1>2, <1>3

LEMMA SettledFacts ==
  ASSUME NEW z, NEW k, NEW moved, NEW more, NEW c
  PROVE  /\ k = z.win => /\ Further(z, k, moved) = 0
                         /\ Settled(z, k, moved, more, c) = [moved EXCEPT !.expected = c]
         /\ k # z.win => /\ Further(z, k, moved) = RunLength(moved)
                         /\ Settled(z, k, moved, more, c) = Release(moved, more)
  BY Zenon DEF Further, Settled

\* How far the window of an undisturbed session is moved at first, so that it ends with
\* the packet, whose number is d ahead.
LEMMA BeyondSlide ==
  ASSUME NEW r \in Session, r.win >= 1, NEW o, Windowed(r, o), "window" \notin o,
         NEW sn \in Sn, NEW d \in Nat, r.win <= d, d < SnMod \div 2 - 1,
         sn = (r.expected + d) % SnMod
  PROVE  /\ Shifted(r, Skip(r, 1), 1)
         /\ (sn - r.win + 1) % SnMod \in Sn
         /\ (sn - r.win + 1) % SnMod = (r.expected + (d - r.win + 1)) % SnMod
         /\ SlideBy(Skip(r, 1), (sn - r.win + 1) % SnMod) \in 0 .. ArraySize
         /\ SlideBy(Skip(r, 1), (sn - r.win + 1) % SnMod) <= r.win
         /\ SlideBy(Skip(r, 1), (sn - r.win + 1) % SnMod) <= d - r.win
         /\ SlideBy(Skip(r, 1), (sn - r.win + 1) % SnMod) \in {d - r.win, r.win}
<1> DEFINE w == r.win
           e == r.expected
           a == d - w + 1
           h == SnMod \div 2
           newStart == (sn - r.win + 1) % SnMod
           z == Skip(r, 1)
           k == SlideBy(z, newStart)
<1>1. /\ w \in Nat /\ 1 <= w /\ w <= ArraySize /\ e \in Sn /\ e \in Nat /\ ArraySize \in Nat \ {0}
      /\ h \in Nat /\ 2 * h <= SnMod /\ SnMod \in Nat \ {0} /\ 2 * ArraySize < h
      /\ d \in Nat /\ w <= d /\ d < h - 1
  BY SizeFacts DEF Session, Sn
<1>2. 1 \in 0 .. ArraySize /\ 0 \in Slot /\ 0 \in 0 .. ArraySize
  BY SizeFacts
<1>3. /\ z \in Session /\ z.queue = r.queue /\ z.est = r.est /\ z.win = r.win
      /\ Shifted(r, z, 1) /\ z.expected = (e + 1) % SnMod
  BY <1>2, SkipFacts, SkipFirst
<1>4. a \in Nat /\ 1 <= a /\ a <= d /\ a - 1 = d - w
  BY <1>1
<1>5. newStart = (e + a) % SnMod /\ newStart \in Sn
  <2> DEFINE m == 1 - w
             x == sn - w + 1
             y == e + d
  <2>1. m \in Int /\ sn \in Int /\ x \in Int /\ y \in Int
    BY <1>1, SizeFacts DEF Sn
  <2>2. x = sn + m /\ d + m = a
    BY <2>1, <1>1
  <2>3. ((y % SnMod) + m) % SnMod = (e + (d + m)) % SnMod
    <3>1. e \in Int /\ d \in Int
      BY <1>1
    <3> HIDE DEF m, e
    <3> QED BY <3>1, <2>1, ExpectedTwice
  <2>4. newStart = x % SnMod
    OBVIOUS
  <2> HIDE DEF newStart
  <2> HIDE DEF x, m, a, y
  <2>5. newStart \in Sn
    BY <2>1, <2>4, <1>1, ModValue DEF Sn
  <2> QED BY <2>2, <2>3, <2>4, <2>5 DEF y
<1> HIDE DEF newStart, z
<1>6. Dist(newStart, z.expected) = d - w
  <2> HIDE DEF a, e
  <2>1. Dist((e + a) % SnMod, (e + 1) % SnMod) = a - 1
    <3>1. 1 \in Nat /\ 1 <= a /\ a - 1 < SnMod
      BY <1>1, <1>4
    <3> QED BY <3>1, <1>1, <1>4, DistCounted, ZenonT(60)
  <2> QED BY <2>1, <1>3, <1>4, <1>5
<1>7. Bigger(newStart, z.expected) <=> d # w
  <2>1. d - w < h - 1
    BY <1>1
  <2>2. z.expected \in Sn
    BY <1>3 DEF Session
  <2>3. newStart = z.expected <=> d - w = 0
    <3>1. Dist(newStart, z.expected) = 0 <=> newStart = z.expected
      BY <2>2, <1>5, DistFacts
    <3> HIDE DEF w
    <3> QED BY <3>1, <1>6
  <2>4. d - w = 0 <=> d = w
    BY <1>1
  <2>5. Bigger(newStart, z.expected) <=> d - w < h - 1 /\ newStart # z.expected
    <3> HIDE DEF w
    <3> QED BY <1>6 DEF Bigger
  <2> HIDE DEF w, h
  <2> QED BY <2>1, <2>3, <2>4, <2>5
<1>8. k \in 0 .. ArraySize /\ k \in Nat /\ k <= w /\ k <= d - w /\ (k = d - w \/ k = w)
  <2>1. /\ k \in 0 .. ArraySize /\ k <= w
        /\ d # w => k <= d - w /\ (k = d - w \/ k = w)
        /\ d = w => k = 0
    BY <1>3, <1>5, <1>6, <1>7, SlideFacts
  <2> QED BY <2>1, <1>1
<1>9. k \in {d - w, w}
  <2> HIDE DEF k, w
  <2> QED BY <1>8
<1> HIDE DEF k
<1> QED BY <1>3, <1>5, <1>8, <1>9 DEF k, z, newStart, w, e, a

\* The window of r is moved by some T, to q, so that packet number sn, d ahead, is its last
\* one, or further, past packets that are stored; out is passed up.
MovedTo(r, q, out, sn, d) ==
  \E T \in Nat :
    /\ 1 <= T /\ T <= d /\ d - T < r.win
    /\ Shifted(r, q, T) /\ ~ Stored(q, 0)
    /\ Dist(sn, q.expected) = d - T
    /\ q.expected = sn <=> T = d
    /\ \A x \in Nat : d - r.win + 1 <= x /\ x < T => x \in Slot /\ Stored(r, x)
    /\ \A b \in Nat : (\A j \in Slot : Stored(r, j) => View(r, j) = b + j) =>
         Ascending(b, out) /\ \A i \in 1 .. Len(out) : out[i] < b + T

\* The window of an undisturbed session is moved so that it ends with the packet, whose
\* number is d ahead, and on past the packets stored there: in all, by some T.
LEMMA BeyondWindow ==
  ASSUME NEW r \in Session, r.win >= 1, NEW o, Windowed(r, o), "window" \notin o,
         NEW sn \in Sn, NEW d \in Nat, r.win <= d, d < SnMod \div 2 - 1,
         sn = (r.expected + d) % SnMod,
         NEW newStart \in Sn, newStart = (r.expected + (d - r.win + 1)) % SnMod,
         NEW z \in Session, z.est = r.est, z.win = r.win, Shifted(r, z, 1),
         NEW k \in 0 .. ArraySize, k <= r.win, k <= d - r.win, k = d - r.win \/ k = r.win,
         NEW moved, moved = Release(z, k),
         NEW more, more = Further(z, k, moved),
         NEW settled, settled = Settled(z, k, moved, more, newStart)
  PROVE  MovedTo(r, settled, Leaving(z, k, moved, more), sn, d)
<1> DEFINE out == Leaving(z, k, moved, more)
           w == r.win
           e == r.expected
           a == d - w + 1
           h == SnMod \div 2
<1>1. /\ w \in Nat /\ 1 <= w /\ w <= ArraySize /\ e \in Sn /\ e \in Nat /\ ArraySize \in Nat \ {0}
      /\ h \in Nat /\ 2 * h <= SnMod /\ SnMod \in Nat \ {0} /\ 2 * ArraySize < h
      /\ d \in Nat /\ w <= d /\ d < h - 1
  BY SizeFacts DEF Session, Sn
<1>2. 1 \in 0 .. ArraySize /\ 0 \in Slot /\ 0 \in 0 .. ArraySize
  BY SizeFacts
<1>3. z \in Session /\ z.est = r.est /\ z.win = r.win /\ Shifted(r, z, 1)
  OBVIOUS
<1>4. a \in Nat /\ 1 <= a /\ a <= d /\ a - 1 = d - w
  BY <1>1
<1>5. newStart = (e + a) % SnMod /\ newStart \in Sn
  OBVIOUS
<1>8. k \in 0 .. ArraySize /\ k \in Nat /\ k <= w /\ k <= d - w /\ (k = d - w \/ k = w)
  BY SizeFacts
<1>9. /\ moved \in Session /\ moved.win = w /\ moved.est = r.est /\ Shifted(z, moved, k)
      /\ Shifted(r, moved, 1 + k) /\ 1 + k \in Nat
  <2>1. moved \in Session /\ moved.win = w /\ moved.est = r.est /\ Shifted(z, moved, k)
    BY <1>3, <1>8, ReleaseFacts, ReleaseShifted
  <2>2. 1 \in Nat
    OBVIOUS
  <2> QED BY <2>1, <2>2, <1>3, <1>8, ShiftedTwice
<1>10. \A j \in Slot : Stored(r, j) => j < w
  BY DEF Windowed
<1>11. more \in 0 .. ArraySize /\ more \in Nat /\ \A j \in 0 .. more - 1 : Stored(moved, j)
  <2>1. CASE k = z.win
    <3>1. more = 0
      BY <2>1, SettledFacts
    <3> QED BY <3>1, <1>2
  <2>2. CASE k # z.win
    <3>1. more = RunLength(moved)
      BY <2>2, SettledFacts
    <3> QED BY <3>1, <1>9, RunLengthFacts, SizeFacts
  <2> QED BY <2>1, <2>2
<1>12. ASSUME NEW b \in Nat, \A j \in Slot : Stored(r, j) => View(r, j) = b + j
       PROVE  Ascending(b, out) /\ \A i \in 1 .. Len(out) : out[i] < b + (1 + k + more)
  <2> DEFINE P == Packets(z, k)
             Q == Packets(moved, more)
             f == b + 1
             g == b + (1 + k)
  <2>1. f \in Int /\ g \in Int /\ g = f + k /\ b \in Int /\ b + k \in Int
    BY <1>8
  <2>2. \A j \in Slot : Stored(z, j) => View(z, j) = f + j
    <3> SUFFICES ASSUME NEW j \in Slot, Stored(z, j) PROVE View(z, j) = f + j
      OBVIOUS
    <3>1. 1 \in Nat /\ j \in Nat
      BY SizeFacts DEF Slot
    <3>2. j + 1 \in Slot /\ Stored(r, j + 1) /\ View(z, j) = View(r, j + 1)
      BY <3>1, <1>3, ShiftedStored
    <3>3. b + (j + 1) = f + j
      BY <3>1
    <3> QED BY <3>2, <3>3, <1>12
  <2>3. \A j \in Slot : Stored(moved, j) => View(moved, j) = g + j
    <3> SUFFICES ASSUME NEW j \in Slot, Stored(moved, j) PROVE View(moved, j) = g + j
      OBVIOUS
    <3>1. j \in Nat
      BY SizeFacts DEF Slot
    <3>2. j + (1 + k) \in Slot /\ Stored(r, j + (1 + k)) /\ View(moved, j) = View(r, j + (1 + k))
      BY <1>9, ShiftedStored
    <3>3. b + (j + (1 + k)) = g + j
      BY <3>1, <1>8
    <3> QED BY <3>2, <3>3, <1>12
  <2>4. P \in Seq(Nat) /\ Q \in Seq(Nat)
    <3>1. P \in Seq(Frame) /\ Q \in Seq(Frame)
      BY <1>3, <1>8, <1>9, <1>11, PacketsFacts
    <3> HIDE DEF P, Q
    <3> QED BY <3>1, FrameSeq
  <2>5. /\ \A i \in 1 .. Len(P) : f <= P[i] /\ P[i] < f + k
        /\ \A i \in 1 .. Len(P) : i > 1 => P[i] > P[i - 1]
    <3> HIDE DEF f
    <3> QED BY <2>1, <2>2, <1>3, <1>8, PacketsOrdered
  <2>6. /\ \A i \in 1 .. Len(Q) : g <= Q[i] /\ Q[i] < g + more
        /\ \A i \in 1 .. Len(Q) : i > 1 => Q[i] > Q[i - 1]
    <3> HIDE DEF g
    <3> QED BY <2>1, <2>3, <1>9, <1>11, PacketsOrdered, ZenonT(60)
  <2> HIDE DEF P, Q
  <2>7. /\ \A i \in 1 .. Len(P) : P[i] \in Nat
        /\ \A i \in 1 .. Len(Q) : Q[i] \in Nat
    BY <2>4, SMTT(30)
  <2>8. Ascending(b, P) /\ \A i \in 1 .. Len(P) : P[i] <= b + k
    <3>1. \A i \in 1 .. Len(P) : P[i] > b /\ P[i] <= b + k
      BY <2>5, <2>7, <1>8
    <3> QED BY <3>1, <2>5 DEF Ascending
  <2>9. Ascending(b + k, Q)
    <3>1. \A i \in 1 .. Len(Q) : Q[i] > b + k
      BY <2>6, <2>7, <1>8
    <3> QED BY <3>1, <2>6 DEF Ascending
  <2>10. out = P \o Q
    BY DEF P, Q, Leaving
  <2> HIDE DEF out
  <2>11. Ascending(b, out)
    <3>1. b <= b + k
      BY <1>8
    <3> QED BY <3>1, <2>1, <2>4, <2>8, <2>9, <2>10, AscendingConcat
  <2>12. \A i \in 1 .. Len(out) : out[i] < b + (1 + k + more)
    <3>1. /\ Len(P) \in Nat /\ Len(Q) \in Nat /\ Len(P \o Q) = Len(P) + Len(Q)
          /\ \A i \in 1 .. Len(P) : (P \o Q)[i] = P[i]
          /\ \A i \in Len(P) + 1 .. Len(P) + Len(Q) : (P \o Q)[i] = Q[i - Len(P)]
      BY <2>4
    <3> SUFFICES ASSUME NEW i \in 1 .. Len(P) + Len(Q)
                 PROVE  (P \o Q)[i] < b + (1 + k + more)
      BY <3>1, <2>10
    <3>2. CASE i \in 1 .. Len(P)
      <4>1. P[i] \in Nat /\ P[i] < f + k
        BY <3>2, <2>5, <2>7
      <4>2. f + k <= b + (1 + k + more) /\ f + k \in Int /\ b + (1 + k + more) \in Int
        BY <1>8, <1>11
      <4>3. (P \o Q)[i] = P[i]
        BY <3>1, <3>2
      <4> HIDE DEF f
      <4> QED BY <4>1, <4>2, <4>3
    <3>3. CASE i \in Len(P) + 1 .. Len(P) + Len(Q)
      <4>1. i - Len(P) \in 1 .. Len(Q)
        BY <3>1, <3>3
      <4>2. Q[i - Len(P)] < g + more /\ Q[i - Len(P)] \in Nat
        BY <4>1, <2>6, <2>7
      <4>3. g + more = b + (1 + k + more)
        BY <1>8, <1>11
      <4> QED BY <3>1, <3>3, <4>2, <4>3
    <3> QED BY <3>1, <3>2, <3>3
  <2> QED BY <2>11, <2>12
<1>13. CASE k = w
  <2>1. more = 0 /\ settled = [moved EXCEPT !.expected = newStart]
    BY <1>3, <1>13, SettledFacts
  <2>2. /\ settled.est = r.est /\ settled.win = w /\ settled.expected = newStart
        /\ \A j : View(settled, j) = View(moved, j)
    <3>1. /\ [moved EXCEPT !.expected = newStart].est = moved.est
          /\ [moved EXCEPT !.expected = newStart].win = moved.win
          /\ [moved EXCEPT !.expected = newStart].expected = newStart
          /\ \A j : View([moved EXCEPT !.expected = newStart], j) = View(moved, j)
      BY <1>5, <1>9, ExpectedChanged
    <3> DEFINE u == [moved EXCEPT !.expected = newStart]
    <3>2. settled = u
      BY <2>1
    <3>3. u.est = moved.est /\ u.win = moved.win /\ u.expected = newStart
      BY <3>1
    <3>4. \A j : View(u, j) = View(moved, j)
      BY <3>1
    <3> HIDE DEF u
    <3> QED BY <3>2, <3>3, <3>4, <1>9
  <2>3. \A j \in Slot : View(moved, j) = NoPacket
    <3> SUFFICES ASSUME NEW j \in Slot, Stored(moved, j) PROVE FALSE
      BY DEF Stored, View
    <3>1. j + (1 + k) \in Slot /\ Stored(r, j + (1 + k)) /\ j \in Nat
      BY <1>9, ShiftedStored, SizeFacts DEF Slot
    <3>2. j + (1 + k) < w
      BY <3>1, <1>10
    <3> QED BY <3>1, <3>2, <1>1, <1>13
  <2>4. \A j \in Slot : View(settled, j) = NoPacket
    BY <2>2, <2>3
  <2>5. Shifted(r, settled, a)
    <3>1. ASSUME NEW j \in Slot
          PROVE  View(settled, j) = IF j + a < ArraySize THEN View(r, j + a) ELSE NoPacket
      <4>1. CASE j + a < ArraySize
        <5>1. j + a \in Slot /\ ~ (j + a < w)
          BY <4>1, <1>1, <1>4, <1>8, <1>13, SizeFacts DEF Slot
        <5>2. ~ Stored(r, j + a)
          BY <5>1, <1>10
        <5> QED BY <4>1, <5>2, <2>4 DEF Stored, View
      <4> QED BY <4>1, <2>4
    <3> QED BY <3>1, <2>2, <1>5 DEF Shifted
  <2>6. ~ Stored(settled, 0)
    BY <2>4, <1>2 DEF Stored, View
  <2>7. Dist(sn, settled.expected) = d - a
    <3>1. d - a < SnMod
      BY <1>1, <1>4
    <3> HIDE DEF a, e
    <3>2. Dist((e + d) % SnMod, (e + a) % SnMod) = d - a
      BY <3>1, <1>1, <1>4, DistCounted, ZenonT(60)
    <3> QED BY <3>2, <2>2, <1>5 DEF e
  <2>8. settled.expected = sn <=> a = d
    <3>1. Dist(sn, settled.expected) = 0 <=> sn = settled.expected
      BY <2>2, <1>5, DistFacts
    <3> QED BY <3>1, <2>7, <1>4
  <2>9. d - a < w
    BY <1>1
  <2>10. ASSUME NEW b \in Nat, \A j \in Slot : Stored(r, j) => View(r, j) = b + j
         PROVE  Ascending(b, out) /\ \A i \in 1 .. Len(out) : out[i] < b + a
    <3>1. 1 + k + more <= a
      BY <2>1, <1>4, <1>8, <1>13
    <3>2. Ascending(b, out) /\ \A i \in 1 .. Len(out) : out[i] < b + (1 + k + more)
      BY <2>10, <1>12
    <3>3. \A i \in 1 .. Len(out) : out[i] \in Int
      <4>1. Packets(z, k) \in Seq(Frame) /\ Packets(moved, more) \in Seq(Frame)
        BY <1>3, <1>8, <1>9, <1>11, PacketsFacts
      <4>3. out \in Seq(Frame)
        BY <4>1 DEF Leaving
      <4> HIDE DEF out
      <4> QED BY <4>3, FrameSeq
    <3> DEFINE m == b + (1 + k + more)
               c == b + a
    <3>4. m \in Int /\ c \in Int /\ m <= c
      BY <3>1, <1>4, <1>8, <1>11
    <3>5. \A i \in 1 .. Len(out) : out[i] < m
      BY <3>2
    <3> HIDE DEF m, c, out
    <3>6. \A i \in 1 .. Len(out) : out[i] < c
      BY <3>3, <3>4, <3>5
    <3> QED BY <3>2, <3>6 DEF c
  <2>11. \A x \in Nat : ~ (d - r.win + 1 <= x /\ x < a)
    BY <1>4
  <2> HIDE DEF a, w
  <2> QED BY <2>5, <2>6, <2>7, <2>8, <2>9, <2>10, <2>11, <1>4 DEF w, MovedTo
<1>14. CASE k # w
  <2> DEFINE T == 1 + k + more
  <2>1. k = d - w /\ 1 + k = a
    BY <1>1, <1>8, <1>14
  <2>2. more = RunLength(moved) /\ settled = Release(moved, more)
    BY <1>3, <1>14, SettledFacts
  <2>3. T \in Nat /\ T = (1 + k) + more /\ T = a + more
    BY <2>1, <1>8, <1>11
  <2>4. Shifted(moved, settled, more) /\ ~ Stored(settled, 0)
    BY <2>2, <1>9, <1>11, ReleaseShifted, RunReleased
  <2>5. Shifted(r, settled, T)
    BY <2>4, <1>9, <1>11, ShiftedTwice, <2>3
  <2>6. \A j \in Nat : j < more => j + (1 + k) \in Slot /\ Stored(r, j + (1 + k))
    <3> SUFFICES ASSUME NEW j \in Nat, j < more
                 PROVE  j + (1 + k) \in Slot /\ Stored(r, j + (1 + k))
      OBVIOUS
    <3>1. j \in Slot /\ j \in 0 .. more - 1
      BY <1>11, SizeFacts DEF Slot
    <3> QED BY <3>1, <1>9, <1>11, ShiftedStored
  <2>7. T <= d
    <3>1. CASE more = 0
      BY <3>1, <2>3, <1>4
    <3>2. CASE more # 0
      <4>1. more - 1 \in Nat /\ more - 1 < more
        BY <3>2, <1>11
      <4>2. (more - 1) + (1 + k) < w
        BY <4>1, <2>6, <1>10
      <4> QED BY <4>2, <2>1, <1>1, <1>8, <1>11
    <3> QED BY <3>1, <3>2
  <2>8. 1 <= T /\ d - T < w
    BY <2>3, <1>1, <1>4, <1>11
  <2>9. settled.expected = (e + T) % SnMod
    BY <2>5 DEF Shifted
  <2>10. \A x \in Nat : a <= x /\ x < T => x \in Slot /\ Stored(r, x)
    <3> SUFFICES ASSUME NEW x \in Nat, a <= x, x < T PROVE x \in Slot /\ Stored(r, x)
      OBVIOUS
    <3> DEFINE j == x - a
    <3>1. j \in Nat /\ j < more /\ j + (1 + k) = x
      BY <2>1, <2>3, <1>4, <1>11
    <3> HIDE DEF j
    <3> QED BY <3>1, <2>6
  <2>11. ASSUME NEW b \in Nat, \A j \in Slot : Stored(r, j) => View(r, j) = b + j
         PROVE  Ascending(b, out) /\ \A i \in 1 .. Len(out) : out[i] < b + T
    BY <2>11, <1>12
  <2> HIDE DEF T
  <2>12. Dist(sn, settled.expected) = d - T
    <3>1. d - T < SnMod
      BY <1>1, <2>3
    <3> HIDE DEF e
    <3>2. Dist((e + d) % SnMod, (e + T) % SnMod) = d - T
      BY <3>1, <1>1, <2>3, <2>7, DistCounted, ZenonT(60)
    <3> QED BY <3>2, <2>9 DEF e
  <2>13. settled.expected = sn <=> T = d
    <3>1. settled.expected \in Sn
      <4>1. settled \in Session
        BY <2>2, <1>9, <1>11, ReleaseFacts
      <4> QED BY <4>1 DEF Session
    <3>2. Dist(sn, settled.expected) = 0 <=> sn = settled.expected
      BY <3>1, DistFacts, ZenonT(60)
    <3> QED BY <3>2, <2>12, <2>3
  <2> QED BY <2>3, <2>4, <2>5, <2>7, <2>8, <2>10, <2>11, <2>12, <2>13 DEF MovedTo
<1> QED BY <1>13, <1>14

------------------------------------------------------------------------------
(* Part 3 of ReceivePacket, step by step, for packet n.                    *)

BeyondStart(r, n) == (SnOf(n) - r.win + 1) % SnMod

BeyondSlid(r, n) == SlideBy(Skip(r, 1), BeyondStart(r, n))

BeyondMoved(r, n) == Release(Skip(r, 1), BeyondSlid(r, n))

BeyondMore(r, n) == Further(Skip(r, 1), BeyondSlid(r, n), BeyondMoved(r, n))

BeyondSettled(r, n) ==
  Settled(Skip(r, 1), BeyondSlid(r, n), BeyondMoved(r, n), BeyondMore(r, n), BeyondStart(r, n))

BeyondOut(r, n) == Leaving(Skip(r, 1), BeyondSlid(r, n), BeyondMoved(r, n), BeyondMore(r, n))

BeyondQueue(r, n) ==
  IF BeyondSettled(r, n).expected = SnOf(n)
  THEN [BeyondSettled(r, n) EXCEPT !.expected = (SnOf(n) + 1) % SnMod]
  ELSE Save(BeyondSettled(r, n), SnOf(n), n)

BeyondPassed(r, n) ==
  IF BeyondSettled(r, n).expected = SnOf(n) THEN Append(BeyondOut(r, n), n) ELSE BeyondOut(r, n)

\* The first half of it.
LEMMA BeyondMovedFacts ==
  ASSUME NEW r \in Session, NEW n \in Frame
  PROVE  /\ BeyondStart(r, n) \in Sn /\ SnOf(n) \in Sn
         /\ Skip(r, 1) \in Session /\ Skip(r, 1).est = r.est /\ Skip(r, 1).win = r.win
         /\ Skip(r, 1).queue = r.queue
         /\ BeyondSlid(r, n) \in 0 .. ArraySize
         /\ BeyondMoved(r, n) \in Session /\ BeyondMoved(r, n).est = r.est
         /\ BeyondMoved(r, n).win = r.win
         /\ BeyondMore(r, n) \in 0 .. ArraySize
<1> DEFINE z == Skip(r, 1)
           c == BeyondStart(r, n)
           k == BeyondSlid(r, n)
           moved == BeyondMoved(r, n)
           more == BeyondMore(r, n)
<1>1. SnOf(n) \in Sn
  <2>1. n \in Nat
    BY RxQueueAssumption DEF Frame
  <2> QED BY <2>1, SnOfFacts
<1>2. c \in Sn
  <2> DEFINE x == SnOf(n) - r.win + 1
  <2>1. x \in Int
    BY <1>1, SizeFacts DEF Sn, Session
  <2>2. c = x % SnMod
    BY DEF BeyondStart
  <2> HIDE DEF x
  <2>3. x % SnMod \in 0 .. SnMod - 1
    BY <2>1, SizeFacts, ModValue
  <2> QED BY <2>2, <2>3 DEF Sn
<1>3. z \in Session /\ z.est = r.est /\ z.win = r.win /\ z.queue = r.queue
  <2>1. 1 \in 0 .. ArraySize
    BY SizeFacts
  <2> QED BY <2>1, SkipFacts
<1>4. k \in 0 .. ArraySize
  <2>1. k = SlideBy(z, c)
    BY DEF BeyondSlid
  <2> HIDE DEF k, z, c
  <2> QED BY <2>1, <1>2, <1>3, SlideFacts
<1>5. moved \in Session /\ moved.est = r.est /\ moved.win = r.win
  <2>1. moved = Release(z, k)
    BY DEF BeyondMoved
  <2> HIDE DEF k, z, moved
  <2> QED BY <2>1, <1>3, <1>4, ReleaseFacts
<1>6. more \in 0 .. ArraySize
  <2>1. more = Further(z, k, moved)
    BY DEF BeyondMore
  <2> HIDE DEF k, z, moved, more
  <2>2. more = 0 \/ more = RunLength(moved)
    BY <2>1, SettledFacts
  <2>3. RunLength(moved) \in 0 .. ArraySize /\ 0 \in 0 .. ArraySize
    BY <1>5, RunLengthFacts, SizeFacts
  <2> QED BY <2>2, <2>3
<1> QED BY <1>1, <1>2, <1>3, <1>4, <1>5, <1>6

\* The session it leaves, and the packets passed up.
LEMMA BeyondSettledFacts ==
  ASSUME NEW r \in Session, NEW n \in Frame, NEW m \in Nat, n < m, \A i \in Slot : r.queue[i] < m
  PROVE  /\ BeyondSettled(r, n) \in Session
         /\ BeyondSettled(r, n).est = r.est /\ BeyondSettled(r, n).win = r.win
         /\ \A i \in Slot : BeyondSettled(r, n).queue[i] < m
         /\ BeyondSettled(r, n).queue = Release(BeyondMoved(r, n), BeyondMore(r, n)).queue
         /\ BeyondOut(r, n) \in Seq(Frame)
         /\ BeyondOut(r, n) = Packets(Skip(r, 1), BeyondSlid(r, n))
                                \o Packets(BeyondMoved(r, n), BeyondMore(r, n))
         /\ \A i \in 1 .. Len(BeyondOut(r, n)) : BeyondOut(r, n)[i] < m
<1> DEFINE z == Skip(r, 1)
           c == BeyondStart(r, n)
           k == BeyondSlid(r, n)
           moved == BeyondMoved(r, n)
           more == BeyondMore(r, n)
           q == BeyondSettled(r, n)
           out == BeyondOut(r, n)
           P == Packets(z, k)
           Q == Packets(moved, more)
<1>1. /\ z \in Session /\ z.win = r.win /\ z.queue = r.queue /\ c \in Sn
      /\ k \in 0 .. ArraySize /\ moved \in Session
      /\ moved.est = r.est /\ moved.win = r.win /\ more \in 0 .. ArraySize
  BY BeyondMovedFacts
<1>2. moved = Release(z, k)
  BY DEF BeyondMoved
<1>3. /\ k = z.win => more = 0 /\ q = [moved EXCEPT !.expected = c]
      /\ k # z.win => q = Release(moved, more)
  BY SettledFacts DEF BeyondMore, BeyondSettled
<1>4. out = P \o Q
  BY DEF BeyondOut, Leaving
<1> HIDE DEF z, c, k, moved, more, q, out
<1>5. \A i \in Slot : moved.queue[i] < m
  BY <1>1, <1>2, ReleaseBounded
<1>6. Release(moved, 0).queue = moved.queue
  <2>1. 0 \in 0 .. ArraySize
    BY SizeFacts
  <2>2. /\ Release(moved, 0) \in Session
        /\ \A i \in Slot : Release(moved, 0).queue[i] =
              IF \E j \in 0 .. 0 - 1 : i = SlotAt(moved, j) THEN NoPacket ELSE moved.queue[i]
    BY <2>1, <1>1, ReleaseFacts
  <2>3. \A i \in Slot : Release(moved, 0).queue[i] = moved.queue[i]
    BY <2>2
  <2>4. /\ Release(moved, 0).queue \in [Slot -> Frame \cup {NoPacket}]
        /\ moved.queue \in [Slot -> Frame \cup {NoPacket}]
    BY <2>2, <1>1 DEF Session
  <2> QED BY <2>3, <2>4
<1>7. /\ q \in Session /\ q.est = r.est /\ q.win = r.win
      /\ q.queue = Release(moved, more).queue
      /\ \A i \in Slot : q.queue[i] < m
  <2>1. CASE k = z.win
    <3>1. more = 0 /\ q = [moved EXCEPT !.expected = c]
      BY <2>1, <1>3
    <3>2. /\ [moved EXCEPT !.expected = c] \in Session
          /\ [moved EXCEPT !.expected = c].est = moved.est
          /\ [moved EXCEPT !.expected = c].win = moved.win
          /\ [moved EXCEPT !.expected = c].queue = moved.queue
      BY <1>1, ExpectedChanged
    <3> DEFINE u == [moved EXCEPT !.expected = c]
    <3>3. u \in Session /\ u.est = moved.est /\ u.win = moved.win /\ u.queue = moved.queue
      BY <3>2
    <3>4. q = u
      BY <3>1
    <3> HIDE DEF u
    <3> QED BY <3>1, <3>3, <3>4, <1>1, <1>5, <1>6
  <2>2. CASE k # z.win
    <3>1. q = Release(moved, more)
      BY <2>2, <1>3
    <3>2. /\ Release(moved, more) \in Session /\ Release(moved, more).est = moved.est
          /\ Release(moved, more).win = moved.win
      BY <1>1, ReleaseFacts
    <3>3. \A i \in Slot : Release(moved, more).queue[i] < m
      BY <1>1, <1>5, ReleaseBounded
    <3> QED BY <3>1, <3>2, <3>3, <1>1
  <2> QED BY <2>1, <2>2
<1>8. P \in Seq(Frame) /\ Q \in Seq(Frame)
  BY <1>1, PacketsFacts
<1>9. (\A i \in 1 .. Len(P) : P[i] < m) /\ \A i \in 1 .. Len(Q) : Q[i] < m
  <2>1. m \in Int /\ \A i \in Slot : z.queue[i] < m
    BY <1>1
  <2>2. \A i \in 1 .. Len(P) : P[i] < m
    BY <2>1, <1>1, PacketsBounded
  <2>3. \A i \in 1 .. Len(Q) : Q[i] < m
    BY <2>1, <1>1, <1>5, PacketsBounded
  <2> QED BY <2>2, <2>3
<1> HIDE DEF P, Q
<1>10. out \in Seq(Frame) /\ \A i \in 1 .. Len(out) : out[i] < m
  <2>1. P \o Q \in Seq(Frame)
    BY <1>8
  <2>2. /\ Len(P) \in Nat /\ Len(Q) \in Nat /\ Len(P \o Q) = Len(P) + Len(Q)
        /\ \A i \in 1 .. Len(P) : (P \o Q)[i] = P[i]
        /\ \A i \in Len(P) + 1 .. Len(P) + Len(Q) : (P \o Q)[i] = Q[i - Len(P)]
    BY <1>8
  <2>3. ASSUME NEW i \in 1 .. Len(P) + Len(Q) PROVE (P \o Q)[i] < m
    <3>1. CASE i \in 1 .. Len(P)
      BY <3>1, <2>2, <1>9
    <3>2. CASE i \in Len(P) + 1 .. Len(P) + Len(Q)
      <4>1. i - Len(P) \in 1 .. Len(Q)
        BY <2>2, <3>2
      <4> QED BY <4>1, <3>2, <2>2, <1>9
    <3> QED BY <3>1, <3>2, <2>2
  <2> QED BY <2>1, <2>2, <2>3, <1>4
<1> QED BY <1>4, <1>7, <1>10 DEF z, k, moved, more, q, out, P, Q

\* The window of an undisturbed session, moved for packet n, d ahead.
LEMMA BeyondUndisturbed ==
  ASSUME NEW r \in Session, r.win >= 1, NEW o, Windowed(r, o), "window" \notin o,
         NEW n \in Frame, NEW d \in Nat, r.win <= d, d < SnMod \div 2 - 1,
         SnOf(n) = (r.expected + d) % SnMod
  PROVE  MovedTo(r, BeyondSettled(r, n), BeyondOut(r, n), SnOf(n), d)
<1> DEFINE z == Skip(r, 1)
           c == BeyondStart(r, n)
           k == BeyondSlid(r, n)
           moved == BeyondMoved(r, n)
           more == BeyondMore(r, n)
           q == BeyondSettled(r, n)
           sn == SnOf(n)
<1>1. /\ z \in Session /\ z.est = r.est /\ z.win = r.win /\ c \in Sn /\ sn \in Sn
      /\ k \in 0 .. ArraySize
  BY BeyondMovedFacts
<1>2. /\ Shifted(r, z, 1)
      /\ c = (r.expected + (d - r.win + 1)) % SnMod
      /\ k <= r.win /\ k <= d - r.win /\ k \in {d - r.win, r.win}
  BY <1>1, BeyondSlide DEF BeyondStart, BeyondSlid
<1>3. moved = Release(z, k) /\ more = Further(z, k, moved) /\ q = Settled(z, k, moved, more, c)
  BY DEF BeyondMoved, BeyondMore, BeyondSettled
<1>4. BeyondOut(r, n) = Leaving(z, k, moved, more)
  BY DEF BeyondOut
<1>5. k = d - r.win \/ k = r.win
  BY <1>2
<1>6. sn = (r.expected + d) % SnMod
  OBVIOUS
<1> HIDE DEF z, c, k, moved, more, q, sn
<1>7. MovedTo(r, q, Leaving(z, k, moved, more), sn, d)
  BY <1>1, <1>2, <1>3, <1>5, <1>6, BeyondWindow
<1> QED BY <1>4, <1>7 DEF q, sn

\* A packet beyond the window.
LEMMA BeyondOK ==
  ASSUME NEW t \in Tid, NEW r \in Session, NEW s \in Sender, NEW l \in Highest, NEW o,
         SessionOK(t, r, s, l, o), r.est,
         NEW n \in 0 .. MaxSeq[t] - 1, s.base <= n, n <= s.base + SendersWindow(r) - 1,
         Bigger(SnOf(n), r.expected), Bigger(SnOf(n), WinEnd(r)),
         NEW o2, "window" \in o2 \/ (SnOf(n) # WinEnd(r) % SnMod /\ r.win # 0 /\ o2 = o)
  PROVE  /\ BeyondQueue(r, n) \in Session /\ BeyondPassed(r, n) \in Seq(Frame)
         /\ After(l, BeyondPassed(r, n)) \in Highest
         /\ SessionOK(t, BeyondQueue(r, n), Moved(s.base, s.rcvd \cup {n}),
                      After(l, BeyondPassed(r, n)), o2)
         /\ o2 \subseteq {"close"} => Ascending(l, BeyondPassed(r, n))
         /\ "window" \notin o2 /\ BeyondSettled(r, n).expected # SnOf(n) =>
              ~ Stored(BeyondSettled(r, n), Dist(SnOf(n), BeyondSettled(r, n).expected))
<1> DEFINE R == s.rcvd \cup {n}
           u == BeyondSettled(r, n)
           q == BeyondQueue(r, n)
           out == BeyondOut(r, n)
           pkts == BeyondPassed(r, n)
           sn == SnOf(n)
           c == (sn + 1) % SnMod
<1>1. n \in Frame /\ n \in Nat /\ MaxSeq[t] \in Nat /\ n < MaxSeq[t] /\ l \in Int
  BY BoundFacts
<1>2. sn \in Sn /\ c \in Sn
  <2>1. sn \in Sn
    BY <1>1, SnOfFacts
  <2> DEFINE x == sn + 1
  <2>2. x \in Int
    BY <2>1, SizeFacts DEF Sn
  <2> HIDE DEF x
  <2>3. x % SnMod \in 0 .. SnMod - 1
    BY <2>2, SizeFacts, ModValue
  <2> QED BY <2>1, <2>3 DEF x, Sn
<1>3. /\ \A i \in Slot : r.queue[i] < MaxSeq[t]
      /\ l < MaxSeq[t] /\ s.rcvd \subseteq 0 .. MaxSeq[t] - 1
      /\ Windowed(r, o) /\ Placed(r, o) /\ Ordered(r, s, l, o)
  BY DEF SessionOK, Bounded
<1>4. R \subseteq 0 .. MaxSeq[t] - 1 /\ s.base \in Nat
  BY <1>3 DEF Sender
<1>5. /\ u \in Session /\ u.est = r.est /\ u.win = r.win
      /\ \A i \in Slot : u.queue[i] < MaxSeq[t]
      /\ out \in Seq(Frame) /\ \A i \in 1 .. Len(out) : out[i] < MaxSeq[t]
  BY <1>1, <1>3, BeyondSettledFacts
<1>6. /\ u.expected = sn => q = [u EXCEPT !.expected = c] /\ pkts = Append(out, n)
      /\ u.expected # sn => q = Save(u, sn, n) /\ pkts = out
  BY DEF BeyondQueue, BeyondPassed
<1>7. ASSUME u.expected = sn
      PROVE  /\ q \in Session /\ q.est = u.est /\ q.win = u.win /\ q.queue = u.queue
             /\ q.expected = c /\ \A k : View(q, k) = View(u, k)
  <2> DEFINE v == [u EXCEPT !.expected = c]
  <2> HIDE DEF u, c
  <2>1. /\ v \in Session /\ v.est = u.est /\ v.win = u.win /\ v.queue = u.queue
        /\ v.expected = c /\ \A k : View(v, k) = View(u, k)
    BY <1>2, <1>5, ExpectedChanged
  <2>2. q = v
    BY <1>6, <1>7
  <2> HIDE DEF v, q
  <2> QED BY <2>1, <2>2
<1>8. ASSUME u.expected # sn
      PROVE  /\ q \in Session /\ q.est = u.est /\ q.win = u.win /\ q.expected = u.expected
             /\ \A i \in Slot : q.queue[i] < MaxSeq[t]
  <2>1. q = Save(u, sn, n)
    BY <1>6, <1>8
  <2> HIDE DEF u, q, sn
  <2>2. \A i \in Slot : Save(u, sn, n).queue[i] < MaxSeq[t]
    BY <1>2, <1>5, SaveBounded
  <2>3. /\ Save(u, sn, n) \in Session /\ Save(u, sn, n).est = u.est
        /\ Save(u, sn, n).win = u.win /\ Save(u, sn, n).expected = u.expected
    BY <1>1, <1>2, <1>5, SaveFacts, ZenonT(60)
  <2> QED BY <2>1, <2>2, <2>3
<1> HIDE DEF u, q, out, pkts, c
<1>9. pkts \in Seq(Frame) /\ \A i \in 1 .. Len(pkts) : pkts[i] < MaxSeq[t]
  <2>1. CASE u.expected = sn
    <3>1. pkts = Append(out, n) /\ Len(out) \in Nat
      BY <2>1, <1>5, <1>6
    <3>2. /\ Append(out, n) \in Seq(Frame) /\ Len(Append(out, n)) = Len(out) + 1
          /\ \A i \in 1 .. Len(out) : Append(out, n)[i] = out[i]
          /\ Append(out, n)[Len(out) + 1] = n
      BY <1>1, <1>5
    <3>3. ASSUME NEW i \in 1 .. Len(out) + 1 PROVE Append(out, n)[i] < MaxSeq[t]
      <4>1. CASE i = Len(out) + 1
        BY <4>1, <3>2, <1>1
      <4>2. CASE i # Len(out) + 1
        <5>1. i \in 1 .. Len(out)
          BY <4>2, <3>1
        <5> QED BY <5>1, <3>2, <1>5
      <4> QED BY <4>1, <4>2
    <3> QED BY <3>1, <3>2, <3>3
  <2>2. CASE u.expected # sn
    BY <2>2, <1>5, <1>6
  <2> QED BY <2>1, <2>2
<1>10. q \in Session /\ q.est = r.est /\ q.win = r.win /\ \A i \in Slot : q.queue[i] < MaxSeq[t]
  BY <1>5, <1>7, <1>8
<1>11. After(l, pkts) \in Highest /\ After(l, pkts) < MaxSeq[t]
  <2>1. MaxSeq[t] \in Int
    BY <1>1
  <2> QED BY <2>1, <1>3, <1>9, AfterFacts
<1>12. Bounded(t, q, Moved(s.base, R), After(l, pkts))
  <2>1. /\ Moved(s.base, R).rcvd \subseteq 0 .. MaxSeq[t] - 1
        /\ \A m \in Moved(s.base, R).rcvd : Moved(s.base, R).base < m
    BY <1>4, MovedSender
  <2> HIDE DEF R
  <2> QED BY <2>1, <1>3, <1>10, <1>11 DEF Bounded
<1>13. CASE "window" \in o2
  <2>1. Windowed(q, o2) /\ Placed(q, o2) /\ ~ (o2 \subseteq {"close"})
    BY <1>13 DEF Windowed, Placed
  <2>2. Ordered(q, Moved(s.base, R), After(l, pkts), o2)
    BY <1>13, <2>1 DEF Ordered, InStep
  <2> QED BY <2>1, <2>2, <1>9, <1>10, <1>11, <1>12, <1>13 DEF SessionOK, q, pkts
<1>14. CASE "window" \notin o2
  <2> DEFINE d == Dist(sn, r.expected)
             e0 == u.expected
  <2>1. o2 = o /\ sn # WinEnd(r) % SnMod /\ "window" \notin o /\ r.win >= 1
    BY <1>14 DEF Session
  <2>2. d \in Nat /\ r.win <= d /\ d < SnMod \div 2 - 1 /\ sn = (r.expected + d) % SnMod
    BY <2>1, <1>2, <1>3, WindowDist
  <2> HIDE DEF d
  <2>3. PICK T \in Nat :
           /\ 1 <= T /\ T <= d /\ d - T < r.win
           /\ Shifted(r, u, T) /\ ~ Stored(u, 0)
           /\ Dist(sn, u.expected) = d - T
           /\ u.expected = sn <=> T = d
           /\ \A x \in Nat : d - r.win + 1 <= x /\ x < T => x \in Slot /\ Stored(r, x)
           /\ \A b \in Nat : (\A j \in Slot : Stored(r, j) => View(r, j) = b + j) =>
                /\ Ascending(b, out)
                /\ \A i \in 1 .. Len(out) : out[i] < b + T
    <3>1. MovedTo(r, u, out, sn, d)
      BY <2>1, <2>2, <1>1, <1>3, BeyondUndisturbed DEF u, out
    <3> QED BY <3>1 DEF MovedTo
  <2>4. r.win \in Nat /\ r.win <= ArraySize /\ ArraySize \in Nat /\ r.win >= 1
    BY <2>1, SizeFacts DEF Session
  <2>16. SendersWindow(r) = r.win /\ SendersWindow(q) = r.win
    BY <2>4, <1>10 DEF SendersWindow
  <2>5. \A j \in Slot : Stored(r, j) => j < r.win
    BY <2>1, <1>3 DEF Windowed
  <2>6. Windowed(u, o) /\ Placed(u, o)
    BY <2>3, <1>3, <1>5, ShiftedWindowed, ShiftedPlaced
  <2>7. \A j \in Slot : Stored(u, j) => j + T < r.win /\ j + T \in Slot /\ Stored(r, j + T) /\ View(u, j) = View(r, j + T)
    BY <2>3, <2>5, ShiftedStored
  <2>8. u.expected # sn => d - T \in Slot /\ 1 <= d - T /\ d - T < u.win /\ ~ Stored(u, d - T)
    <3> SUFFICES ASSUME u.expected # sn
                 PROVE  d - T \in Slot /\ 1 <= d - T /\ ~ Stored(u, d - T)
      BY <2>3, <1>5
    <3>1. T # d
      BY <2>3
    <3>2. d - T \in Slot /\ 1 <= d - T
      BY <3>1, <2>2, <2>3, <2>4 DEF Slot
    <3> DEFINE j == d - T
    <3>3. ~ (j + T < r.win)
      BY <2>2, <2>4
    <3> QED BY <3>2, <3>3, <2>7
  <2>9. u.expected = sn => \A j \in Slot : ~ Stored(u, j)
    <3> SUFFICES ASSUME u.expected = sn, NEW j \in Slot, Stored(u, j) PROVE FALSE
      OBVIOUS
    <3>1. T = d
      BY <2>3
    <3>2. j + T < r.win /\ j \in Nat
      BY <2>7, SizeFacts DEF Slot
    <3> QED BY <3>1, <3>2, <2>2, <2>4
  <2>10. u.expected = sn => \A j \in Slot : ~ Stored(q, j)
    BY <2>9, <1>7 DEF Stored, View
  <2>11. Windowed(q, o) /\ Placed(q, o)
    <3>1. CASE u.expected = sn
      BY <3>1, <2>10 DEF Windowed, Placed
    <3>2. CASE u.expected # sn
      <4>1. q = Save(u, sn, n)
        BY <3>2, <1>6
      <4> QED BY <4>1, <3>2, <2>3, <2>6, <2>8, <1>1, <1>5, SaveOK
    <3> QED BY <3>1, <3>2
  <2>12. ASSUME o \subseteq {"close"}
         PROVE  /\ \E e \in Nat : Expecting(q, Moved(s.base, R), After(l, pkts), e)
                /\ Ascending(l, pkts)
    <3>1. PICK e \in Nat : Expecting(r, s, l, e)
      BY <2>12, <1>3 DEF Ordered, InStep
    <3>2. /\ e <= s.base /\ s.base <= e + Gap /\ l < e /\ SnOf(e) = r.expected
          /\ \A m \in s.rcvd : m < e + SendersWindow(r)
          /\ \A j \in Slot : Stored(r, j) => View(r, j) = e + j /\ (e + j < s.base \/ e + j \in s.rcvd)
      BY <3>1 DEF Expecting
    <3>3. n = e + d
      <4>1. e <= n /\ d = n - e
        BY <3>1, <1>1, ArrivalDist DEF d
      <4> QED BY <4>1, <1>1
    <3> DEFINE B == Moved(s.base, R).base
               g == e + T
    <3>4. B \in Nat /\ s.base <= B /\ B \notin R
      <4>1. MaxSeq[t] \in Int
        BY <1>1
      <4> HIDE DEF R
      <4> QED BY <4>1, <1>4, MovedFacts
    <3>5. g \in Nat /\ Gap \in Nat /\ g <= n
      BY <2>3, <2>2, <3>3, SizeFacts DEF Gap
    <3> HIDE DEF B
    <3>6. g <= B
      <4> SUFFICES ASSUME B < g PROVE FALSE
        BY <3>4, <3>5
      <4> DEFINE x == B - e
      <4>1. x \in Nat /\ d - r.win + 1 <= x /\ x < T /\ e + x = B
        BY <3>2, <3>3, <3>4, <2>2, <2>3, <2>4, <2>16, <1>4, SMTT(30)
      <4> HIDE DEF x, g
      <4>2. x \in Slot /\ Stored(r, x)
        BY <4>1, <2>3
      <4>3. e + x < s.base \/ e + x \in s.rcvd
        BY <4>2, <3>2
      <4> QED BY <4>1, <4>3, <3>4, <1>4
    <3>7. \A j \in Slot : Stored(u, j) => View(u, j) = g + j /\ (g + j < s.base \/ g + j \in R)
      <4> SUFFICES ASSUME NEW j \in Slot, Stored(u, j)
                   PROVE  View(u, j) = g + j /\ (g + j < s.base \/ g + j \in R)
        OBVIOUS
      <4>1. j + T \in Slot /\ Stored(r, j + T) /\ View(u, j) = View(r, j + T) /\ j \in Nat
        BY <2>7, SizeFacts DEF Slot
      <4>2. e + (j + T) = g + j
        BY <4>1
      <4> QED BY <4>1, <4>2, <3>2
    <3>8. SnOf(g) = u.expected
      <4>1. u.expected = (r.expected + T) % SnMod
        BY <2>3 DEF Shifted
      <4> QED BY <4>1, <3>2, SnOfFacts
    <3>9. Ascending(e, out) /\ \A i \in 1 .. Len(out) : out[i] < g
      BY <2>3, <3>2
    <3>10. Len(out) \in Nat /\ \A i \in 1 .. Len(out) : out[i] \in Nat
      BY <1>5, FrameSeq
    <3>11. Ascending(l, out)
      <4>1. \A i \in 1 .. Len(out) : out[i] > e /\ (i > 1 => out[i] > out[i - 1])
        BY <3>9 DEF Ascending
      <4>2. \A i \in 1 .. Len(out) : out[i] > l
        BY <4>1, <3>2, <3>10, <1>1
      <4> QED BY <4>1, <4>2 DEF Ascending
    <3>12. \A m \in R : m \in Nat /\ m < g + SendersWindow(q)
      <4> SUFFICES ASSUME NEW m \in R PROVE m \in Nat /\ m < g + SendersWindow(q)
        OBVIOUS
      <4>1. m \in Nat
        BY <1>4, <1>1
      <4>2. m < e + SendersWindow(r) \/ m = n
        BY <3>2
      <4> QED BY <4>1, <4>2, <3>3, <2>2, <2>3, <2>4, <2>16
    <3>13. s.base <= g + Gap
      BY <3>2, <3>5, <1>4, <2>3
    <3>14. s.base <= s.base /\ MaxSeq[t] \in Int
      BY <1>1, <1>4
    <3>15. l < g
      BY <3>2, <1>1, <2>3
    <3>16. CASE u.expected = sn
      <4> DEFINE f == n + 1
      <4>1. f \in Nat /\ g = n /\ T = d
        BY <3>16, <2>3, <3>3, <1>1
      <4>2. f <= B
        <5>1. B # n
          BY <3>4
        <5> QED BY <5>1, <4>1, <3>4, <3>6, <1>1
      <4>3. SnOf(f) = q.expected
        <5>1. SnOf(n + 1) = (SnOf(n) + 1) % SnMod
          BY <1>1, SnOfFacts
        <5> QED BY <5>1, <3>16, <1>7 DEF c
      <4>4. pkts = Append(out, n)
        BY <3>16, <1>6
      <4>5. /\ Len(Append(out, n)) = Len(out) + 1
            /\ \A i \in 1 .. Len(out) : Append(out, n)[i] = out[i]
            /\ Append(out, n)[Len(out) + 1] = n
        BY <1>5, <1>1
      <4>6. ASSUME NEW i \in 1 .. Len(out) + 1
            PROVE  pkts[i] > l /\ (i > 1 => pkts[i] > pkts[i - 1]) /\ pkts[i] < f
        <5>1. CASE i = Len(out) + 1
          <6>1. pkts[i] = n
            BY <5>1, <4>4, <4>5
          <6>2. n > l /\ n < f
            BY <3>15, <4>1, <1>1
          <6>3. ASSUME i > 1 PROVE pkts[i - 1] < n
            <7>1. i - 1 \in 1 .. Len(out) /\ i - 1 = Len(out)
              BY <5>1, <6>3, <3>10
            <7> QED BY <7>1, <4>1, <4>4, <4>5, <3>9
          <6>4. i > 1 => pkts[i - 1] \in Nat
            <7> SUFFICES ASSUME i > 1 PROVE pkts[i - 1] \in Nat
              OBVIOUS
            <7>1. i - 1 \in 1 .. Len(out)
              BY <5>1, <3>10
            <7> QED BY <7>1, <4>4, <4>5, <3>10
          <6> QED BY <6>1, <6>2, <6>3, <6>4, <1>1
        <5>2. CASE i # Len(out) + 1
          <6>1. i \in 1 .. Len(out) /\ pkts[i] = out[i] /\ out[i] \in Nat
            BY <5>2, <4>4, <4>5, <3>10
          <6>2. out[i] > l /\ (i > 1 => out[i] > out[i - 1]) /\ out[i] < n
            BY <6>1, <3>9, <3>11, <4>1 DEF Ascending
          <6>3. i > 1 => pkts[i - 1] = out[i - 1]
            <7> SUFFICES ASSUME i > 1 PROVE pkts[i - 1] = out[i - 1]
              OBVIOUS
            <7>1. i - 1 \in 1 .. Len(out)
              BY <6>1, <3>10
            <7> QED BY <7>1, <4>4, <4>5
          <6>4. out[i] < f
            BY <6>1, <6>2, <1>1
          <6> QED BY <6>1, <6>2, <6>3, <6>4
        <5> QED BY <5>1, <5>2
      <4>7. Ascending(l, pkts) /\ \A i \in 1 .. Len(pkts) : pkts[i] < f
        BY <4>4, <4>5, <4>6 DEF Ascending
      <4>8. After(l, pkts) < f
        <5>1. f \in Int /\ l < f
          BY <4>1, <3>15, <1>1
        <5> HIDE DEF f
        <5> QED BY <5>1, <4>7, <1>9, AfterFacts
      <4>9. \A m \in R : m < f + SendersWindow(q)
        BY <3>12, <4>1, <2>16, <2>4, <1>1
      <4>10. s.base <= f + Gap
        BY <3>13, <4>1, <3>5, <1>1, <1>4
      <4>11. \A k \in Slot : Stored(q, k) => View(q, k) = f + k /\ (f + k < s.base \/ f + k \in R)
        BY <3>16, <2>10
      <4>12. Expecting(q, Moved(s.base, R), After(l, pkts), f)
        <5> HIDE DEF f, R, g
        <5> QED BY <3>14, <4>1, <4>2, <4>3, <4>8, <4>9, <4>10, <4>11, <1>4, <1>10, ExpectingMoved DEF B
      <4> QED BY <4>1, <4>7, <4>12
    <3>17. CASE u.expected # sn
      <4>1. q = Save(u, sn, n) /\ pkts = out /\ q.expected = u.expected
        BY <3>17, <1>6, <1>8
      <4>2. After(l, pkts) < g
        <5>1. g \in Int
          BY <3>5
        <5> HIDE DEF g
        <5> QED BY <5>1, <4>1, <3>9, <3>15, <1>9, AfterFacts
      <4>3. \A j \in Slot : View(q, j) = IF j = d - T THEN n ELSE View(u, j)
        <5>1. Dist(SnOf(n), u.expected) = d - T /\ d - T \in Slot
          BY <3>17, <2>3, <2>8
        <5>2. Dist(SnOf(n), u.expected) \in Slot
          BY <5>1
        <5>3. \A j \in Slot : View(Save(u, SnOf(n), n), j) =
                                IF j = Dist(SnOf(n), u.expected) THEN n ELSE View(u, j)
          BY <5>2, <1>1, <1>5, SaveView
        <5> QED BY <5>1, <5>3, <4>1
      <4>4. \A k \in Slot : Stored(q, k) => View(q, k) = g + k /\ (g + k < s.base \/ g + k \in R)
        <5> SUFFICES ASSUME NEW k \in Slot, Stored(q, k)
                     PROVE  View(q, k) = g + k /\ (g + k < s.base \/ g + k \in R)
          OBVIOUS
        <5>1. CASE k = d - T
          <6>1. g + k = n
            BY <5>1, <3>3, <2>2
          <6> QED BY <6>1, <5>1, <4>3
        <5>2. CASE k # d - T
          <6>1. View(q, k) = View(u, k) /\ Stored(u, k)
            BY <5>2, <4>3 DEF Stored, View
          <6> QED BY <6>1, <3>7
        <5> QED BY <5>1, <5>2
      <4>5. Expecting(q, Moved(s.base, R), After(l, pkts), g)
        <5>1. SnOf(g) = q.expected /\ \A m \in R : m < g + SendersWindow(q)
          BY <4>1, <3>8, <3>12, <1>10
        <5> HIDE DEF g, R
        <5> QED BY <5>1, <3>14, <4>2, <4>4, <3>5, <3>6, <3>13, <1>4, <1>10, ExpectingMoved DEF B
      <4> QED BY <4>1, <4>5, <3>5, <3>11
    <3> QED BY <3>16, <3>17
  <2>13. Ordered(q, Moved(s.base, R), After(l, pkts), o)
    <3>1. InStep(q, o) => o \subseteq {"close"}
      BY <2>4, <1>10 DEF InStep
    <3> QED BY <3>1, <2>12 DEF Ordered
  <2>14. u.expected # sn => ~ Stored(u, Dist(sn, u.expected))
    BY <2>3, <2>8
  <2>15. SessionOK(t, q, Moved(s.base, R), After(l, pkts), o2)
    BY <2>1, <2>11, <2>13, <1>12 DEF SessionOK
  <2> QED BY <2>1, <2>12, <2>14, <2>15, <1>9, <1>10, <1>11 DEF q, pkts, u
<1> QED BY <1>13, <1>14

------------------------------------------------------------------------------
(* All identifiers together: data base S, sender E, highest packets L and  *)
(* what disturbed the sessions, O.                                         *)

AllOK(S, E, L, O) == \A t \in Tid : SessionOK(t, S[t], E[t], L[t], O[t])

\* n is the number of stored packets.
Counted(S, n, O) ==
  /\ Cardinality(Cells(S)) <= n
  /\ (\A t \in Tid : "window" \notin O[t]) => n = Cardinality(Cells(S))

\* The timer guards them.
Guarded(S, miss, on, ex, spin, O) ==
  /\ miss => on \/ ex
  /\ \A t \in Tid : (\E i \in Slot : S[t].queue[i] # NoPacket) =>
       (miss /\ (on \/ ex)) \/ spin \/ "close" \in O[t]

\* The parts of the invariant in terms of the whole data base.
LEMMA InvParts ==
  ASSUME RxQueueTypeOK
  PROVE  /\ SessionsOK <=> AllOK(tid, sender, last, odd)
         /\ StoredCountOK <=> Counted(tid, aPacketsStored, odd)
         /\ TimerOK <=> Guarded(tid, bPacketMiss, timerOn, expiry, spinning, odd)
<1>1. SessionsOK <=> AllOK(tid, sender, last, odd)
  BY DEF SessionsOK, AllOK
<1>2. StoredCountOK <=> Counted(tid, aPacketsStored, odd)
  BY DEF StoredCountOK, Counted, StoredCounted, Cells
<1>3. ASSUME NEW t \in Tid PROVE StoredOf(t) # {} <=> \E i \in Slot : tid[t].queue[i] # NoPacket
  <2>1. tid[t].queue \in [Slot -> Frame \cup {NoPacket}]
    BY DEF RxQueueTypeOK
  <2>2. Range(tid[t].queue) = {tid[t].queue[i] : i \in Slot}
    BY <2>1 DEF Range
  <2> QED BY <2>2 DEF StoredOf
<1>4. TimerOK <=> Guarded(tid, bPacketMiss, timerOn, expiry, spinning, odd)
  BY <1>3 DEF TimerOK, TimerGuardsStored, Guarded
<1> QED BY <1>1, <1>2, <1>4

\* What more has disturbed a session excuses more.
LEMMA SessionWeaker ==
  ASSUME NEW t, NEW r, NEW s, NEW l, NEW o, NEW o2, SessionOK(t, r, s, l, o), o \subseteq o2
  PROVE  SessionOK(t, r, s, l, o2)
<1>1. "window" \notin o2 => "window" \notin o
  OBVIOUS
<1>2. o2 \cap {"window", "bar"} = {} => o \cap {"window", "bar"} = {}
  OBVIOUS
<1>3. InStep(r, o2) => InStep(r, o)
  BY DEF InStep
<1>4. Windowed(r, o2)
  BY <1>1 DEF SessionOK, Windowed
<1>5. Placed(r, o2)
  BY <1>2 DEF SessionOK, Placed
<1>6. Ordered(r, s, l, o2)
  BY <1>3 DEF SessionOK, Ordered
<1> QED BY <1>4, <1>5, <1>6 DEF SessionOK

\* A step of one identifier.
LEMMA AllStep ==
  ASSUME NEW S \in [Tid -> Session], NEW E \in [Tid -> Sender], NEW L \in [Tid -> Highest],
         NEW O \in [Tid -> Oddities], AllOK(S, E, L, O),
         NEW t \in Tid, NEW q \in Session, NEW s \in Sender, NEW l \in Highest,
         NEW O2 \in [Tid -> Oddities], \A u \in Tid : u # t => O[u] \subseteq O2[u],
         SessionOK(t, q, s, l, O2[t])
  PROVE  /\ AllOK([S EXCEPT ![t] = q], [E EXCEPT ![t] = s], [L EXCEPT ![t] = l], O2)
         /\ [S EXCEPT ![t] = q] \in [Tid -> Session]
         /\ [E EXCEPT ![t] = s] \in [Tid -> Sender]
         /\ [L EXCEPT ![t] = l] \in [Tid -> Highest]
<1> DEFINE S2 == [S EXCEPT ![t] = q]
           E2 == [E EXCEPT ![t] = s]
           L2 == [L EXCEPT ![t] = l]
<1>1. /\ S2 \in [Tid -> Session] /\ E2 \in [Tid -> Sender] /\ L2 \in [Tid -> Highest]
      /\ S2[t] = q /\ E2[t] = s /\ L2[t] = l
      /\ \A u \in Tid : u # t => S2[u] = S[u] /\ E2[u] = E[u] /\ L2[u] = L[u]
  OBVIOUS
<1> HIDE DEF S2, E2, L2
<1>2. ASSUME NEW u \in Tid PROVE SessionOK(u, S2[u], E2[u], L2[u], O2[u])
  <2>1. CASE u = t
    BY <2>1, <1>1
  <2>2. CASE u # t
    <3>1. SessionOK(u, S[u], E[u], L[u], O[u]) /\ O[u] \subseteq O2[u]
      BY <2>2 DEF AllOK
    <3>2. SessionOK(u, S[u], E[u], L[u], O2[u])
      BY <3>1, SessionWeaker
    <3> QED BY <3>2, <2>2, <1>1
  <2> QED BY <2>1, <2>2
<1>3. AllOK(S2, E2, L2, O2)
  BY <1>2 DEF AllOK
<1> QED BY <1>1, <1>3 DEF S2, E2, L2

LEMMA SameValue ==
  ASSUME NEW D, NEW V, NEW f \in [D -> V], NEW x \in D, NEW y, y = f[x]
  PROVE  [f EXCEPT ![x] = y] = f
OBVIOUS

\* No slot in use: nothing to guard.
LEMMA NoCells ==
  ASSUME NEW S, NEW n \in Int, n <= 0, Cardinality(Cells(S)) <= n
  PROVE  \A t \in Tid, i \in Slot : S[t].queue[i] = NoPacket
<1>1. IsFiniteSet(Cells(S)) /\ Cardinality(Cells(S)) \in Nat
  BY CellsFinite
<1>2. Cardinality(Cells(S)) = 0
  BY <1>1
<1>3. Cells(S) = {}
  BY <1>1, <1>2, FS_EmptySet
<1> SUFFICES ASSUME NEW t \in Tid, NEW i \in Slot, S[t].queue[i] # NoPacket PROVE FALSE
  OBVIOUS
<1>4. <<t, i>> \in Cells(S)
  BY DEF Cells
<1> QED BY <1>3, <1>4

\* The timer is started again: it guards the packets that are left, if any.
LEMMA GuardedRestart ==
  ASSUME NEW S, NEW n \in Nat, Cardinality(Cells(S)) <= n,
         NEW on, NEW ex, NEW spin, NEW O, n > 0 => on
  PROVE  Guarded(S, n > 0, on, ex, spin, O)
<1>1. CASE n > 0
  BY <1>1 DEF Guarded
<1>2. CASE ~ (n > 0)
  <2>1. n <= 0 /\ n \in Int
    BY <1>2
  <2>2. \A t \in Tid, i \in Slot : S[t].queue[i] = NoPacket
    BY <2>1, NoCells
  <2> QED BY <1>2, <2>2 DEF Guarded
<1> QED BY <1>1, <1>2

\* More counted, and more excuses.
LEMMA CountedWeaker ==
  ASSUME NEW S, NEW n, NEW O, Counted(S, n, O), NEW O2,
         \A t \in Tid : O[t] \cap {"window"} \subseteq O2[t]
  PROVE  Counted(S, n, O2)
<1>1. (\A t \in Tid : "window" \notin O2[t]) => \A t \in Tid : "window" \notin O[t]
  OBVIOUS
<1> QED BY <1>1 DEF Counted

\* Packets are passed up: they are no longer counted.
LEMMA CountedReleased ==
  ASSUME NEW S \in [Tid -> Session], NEW n \in Nat, NEW O, Counted(S, n, O),
         NEW t \in Tid, NEW r \in Session, r.queue = S[t].queue, NEW k \in 0 .. ArraySize
  PROVE  /\ Counted([S EXCEPT ![t] = Release(r, k)], n - Len(Packets(r, k)), O)
         /\ n - Len(Packets(r, k)) \in Nat
<1> DEFINE m == Len(Packets(r, k))
           C == Cardinality(Cells(S))
           S2 == [S EXCEPT ![t] = Release(r, k)]
           C2 == Cardinality(Cells(S2))
<1>1. C2 = C - m /\ m <= C
  BY CellsReleased
<1>2. C \in Nat /\ C2 \in Nat
  BY CellsFinite
<1>3. m \in Nat
  <2>1. Packets(r, k) \in Seq(Frame)
    BY PacketsFacts
  <2> QED BY <2>1
<1>4. C <= n /\ ((\A u \in Tid : "window" \notin O[u]) => n = C)
  BY DEF Counted
<1> HIDE DEF C, C2, m
<1>5. C2 <= n - m /\ (n = C => n - m = C2) /\ n - m \in Nat
  BY <1>1, <1>2, <1>3, <1>4
<1> QED BY <1>4, <1>5 DEF Counted, C, C2, S2, m

\* The run of packets that are passed up without a gap: each slot of it counts.
LEMMA RunPackets ==
  ASSUME NEW r \in Session
  PROVE  Len(Packets(r, RunLength(r))) = RunLength(r)
<1> DEFINE k == RunLength(r)
<1>1. k \in 0 .. ArraySize /\ k \in Nat /\ \A j \in 0 .. k - 1 : Stored(r, j)
  BY RunLengthFacts, SizeFacts
<1> HIDE DEF k
<1>2. StoredSlots(r, k) = 0 .. k - 1
  BY <1>1 DEF StoredSlots
<1>3. Cardinality(0 .. k - 1) = k
  <2>1. 0 \in Int /\ k - 1 \in Int
    BY <1>1
  <2>2. Cardinality(0 .. k - 1) = IF 0 > k - 1 THEN 0 ELSE (k - 1) - 0 + 1
    BY <2>1, FS_Interval
  <2> QED BY <2>2, <1>1
<1>4. Len(Packets(r, k)) = Cardinality(StoredSlots(r, k))
  BY <1>1, PacketsFacts
<1> QED BY <1>2, <1>3, <1>4 DEF k

LEMMA CountedSame ==
  ASSUME NEW S \in [Tid -> Session], NEW n, NEW O, Counted(S, n, O),
         NEW t \in Tid, NEW q \in Session, q.queue = S[t].queue
  PROVE  Counted([S EXCEPT ![t] = q], n, O)
<1>1. Cells([S EXCEPT ![t] = q]) = Cells(S)
  BY CellsSame
<1> QED BY <1>1 DEF Counted

\* A packet with number sn is stored for t: z has one more slot in use than S, unless the
\* packet's slot was in use.
OneMore(S, z, t, sn) ==
  IF Stored(S[t], Dist(sn, S[t].expected)) THEN Cardinality(Cells(z)) = Cardinality(Cells(S))
  ELSE Cardinality(Cells(z)) = Cardinality(Cells(S)) + 1

LEMMA CellsStored ==
  ASSUME NEW S \in [Tid -> Session], NEW t \in Tid, NEW sn \in Sn, NEW p \in Frame
  PROVE  OneMore(S, [S EXCEPT ![t] = Save(S[t], sn, p)], t, sn)
<1> DEFINE r == S[t]
           i == SlotAt(r, Dist(sn, r.expected))
           q == Save(r, sn, p)
           f == r.queue
<1>1. r \in Session
  OBVIOUS
<1>2. q \in Session /\ i \in Slot /\ q.queue = [f EXCEPT ![i] = p]
  BY <1>1, SaveFacts
<1>3. f \in [Slot -> Frame \cup {NoPacket}] /\ f = S[t].queue
  BY <1>1 DEF Session
<1>4. p # NoPacket
  BY RxQueueAssumption DEF Frame, NoPacket
<1> HIDE DEF f, i, q, r
<1>5. q.queue[i] # NoPacket /\ \A j \in Slot : j # i => q.queue[j] = S[t].queue[j]
  BY <1>2, <1>3, <1>4
<1>6. /\ S[t].queue[i] = NoPacket =>
           Cardinality(Cells([S EXCEPT ![t] = q])) = Cardinality(Cells(S)) + 1
      /\ S[t].queue[i] # NoPacket =>
           Cardinality(Cells([S EXCEPT ![t] = q])) = Cardinality(Cells(S))
  <2> DEFINE z == [S EXCEPT ![t] = q]
  <2>1. z[t] = q /\ \A u \in Tid : u # t => z[u] = S[u]
    OBVIOUS
  <2> HIDE DEF z
  <2>2. \A u \in Tid, j \in Slot : u # t \/ j # i =>
          (z[u].queue[j] # NoPacket <=> S[u].queue[j] # NoPacket)
    BY <2>1, <1>5
  <2>3. z[t].queue[i] # NoPacket
    BY <2>1, <1>5
  <2>4. /\ S[t].queue[i] = NoPacket => Cardinality(Cells(z)) = Cardinality(Cells(S)) + 1
        /\ S[t].queue[i] # NoPacket => Cardinality(Cells(z)) = Cardinality(Cells(S))
    <3>1. i \in Slot
      BY <1>2
    <3> QED BY <2>2, <2>3, <3>1, CellsSaved
  <2> QED BY <2>4 DEF z
<1>7. Stored(S[t], Dist(sn, S[t].expected)) <=> S[t].queue[i] # NoPacket
  BY DEF Stored, i, r
<1>8. q = Save(S[t], sn, p)
  BY DEF q, r
<1> QED BY <1>6, <1>7, <1>8 DEF OneMore

\* A packet is stored and counted: a free slot of an undisturbed session takes it.
LEMMA CountedSaved ==
  ASSUME NEW S \in [Tid -> Session], NEW n \in Int, NEW O, Counted(S, n, O),
         NEW t \in Tid, NEW sn \in Sn, NEW p \in Frame,
         ~ Stored(S[t], Dist(sn, S[t].expected)) \/ "window" \in O[t]
  PROVE  Counted([S EXCEPT ![t] = Save(S[t], sn, p)], n + 1, O)
<1> DEFINE z == [S EXCEPT ![t] = Save(S[t], sn, p)]
           stored == Stored(S[t], Dist(sn, S[t].expected))
           C == Cardinality(Cells(S))
           C2 == Cardinality(Cells(z))
<1>1. OneMore(S, z, t, sn)
  BY CellsStored
<1>2. C \in Nat /\ C2 \in Nat
  BY CellsFinite
<1>3. C <= n /\ ((\A u \in Tid : "window" \notin O[u]) => n = C)
  BY DEF Counted
<1>4. (\A u \in Tid : "window" \notin O[u]) => ~ stored
  OBVIOUS
<1> HIDE DEF z
<1>5. (~ stored => C2 = C + 1) /\ (stored => C2 = C)
  BY <1>1, <1>2 DEF OneMore
<1> HIDE DEF stored, C, C2
<1>6. C2 <= n + 1 /\ ((\A u \in Tid : "window" \notin O[u]) => n + 1 = C2)
  BY <1>2, <1>3, <1>4, <1>5
<1> QED BY <1>6 DEF Counted, C2, z

\* Part 3 of ReceivePacket takes out what it passes up.
LEMMA CountedBeyond ==
  ASSUME NEW S \in [Tid -> Session], NEW n \in Nat, NEW O, Counted(S, n, O),
         NEW t \in Tid, NEW p \in Frame, NEW m \in Nat, p < m, \A i \in Slot : S[t].queue[i] < m
  PROVE  /\ Counted([S EXCEPT ![t] = BeyondSettled(S[t], p)], n - Len(BeyondOut(S[t], p)), O)
         /\ n - Len(BeyondOut(S[t], p)) \in Nat
<1> DEFINE r == S[t]
           z == Skip(r, 1)
           k == BeyondSlid(r, p)
           moved == BeyondMoved(r, p)
           more == BeyondMore(r, p)
           u == BeyondSettled(r, p)
           P == Packets(z, k)
           Q == Packets(moved, more)
           v == Release(moved, more)
<1>1. r \in Session
  OBVIOUS
<1>2. /\ z \in Session /\ z.queue = r.queue /\ k \in 0 .. ArraySize
      /\ moved \in Session /\ more \in 0 .. ArraySize
  BY <1>1, BeyondMovedFacts
<1>3. moved = Release(z, k)
  BY DEF BeyondMoved
<1>4. u \in Session /\ u.queue = v.queue /\ BeyondOut(r, p) = P \o Q
  BY <1>1, BeyondSettledFacts
<1>5. v \in Session
  <2> HIDE DEF moved, more
  <2> QED BY <1>2, ReleaseFacts
<1> HIDE DEF r, z, k, moved, more, u
<1> DEFINE S1 == [S EXCEPT ![t] = moved]
           S2 == [S1 EXCEPT ![t] = v]
           n1 == n - Len(P)
           n2 == n1 - Len(Q)
<1>6. Counted(S1, n1, O) /\ n1 \in Nat
  <2>1. z.queue = S[t].queue
    BY <1>2 DEF r
  <2> QED BY <2>1, <1>2, <1>3, CountedReleased
<1>7. S1 \in [Tid -> Session] /\ S1[t] = moved
  BY <1>2
<1> HIDE DEF S1, n1
<1>8. Counted(S2, n2, O) /\ n2 \in Nat
  BY <1>2, <1>6, <1>7, CountedReleased
<1>9. S2 \in [Tid -> Session] /\ S2[t] = v
  BY <1>5, <1>7
<1> HIDE DEF S2, v
<1>10. Counted([S2 EXCEPT ![t] = u], n2, O)
  BY <1>4, <1>8, <1>9, CountedSame
<1>11. [S2 EXCEPT ![t] = u] = [S EXCEPT ![t] = u]
  <2>1. [S1 EXCEPT ![t] = u] = [S EXCEPT ![t] = u]
    BY DEF S1
  <2>2. [S2 EXCEPT ![t] = u] = [S1 EXCEPT ![t] = u]
    BY <1>7 DEF S2
  <2> QED BY <2>1, <2>2
<1>12. n2 = n - Len(BeyondOut(r, p))
  <2>1. P \in Seq(Frame) /\ Q \in Seq(Frame)
    BY <1>2, PacketsFacts
  <2> HIDE DEF P, Q
  <2>2. Len(P \o Q) = Len(P) + Len(Q) /\ Len(P) \in Nat /\ Len(Q) \in Nat
    BY <2>1
  <2>3. n2 = n - Len(P) - Len(Q)
    BY DEF n1
  <2> QED BY <2>2, <2>3, <1>4
<1> QED BY <1>8, <1>10, <1>11, <1>12 DEF r, u

------------------------------------------------------------------------------
(* The actions.                                                            *)

\* What the invariant says, part by part.
LEMMA RxQueueTyped ==
  ASSUME RxQueueInv
  PROVE  /\ tid \in [Tid -> Session] /\ sender \in [Tid -> Sender]
         /\ last \in [Tid -> Highest] /\ odd \in [Tid -> Oddities]
         /\ aPacketsStored \in Nat /\ aFrameTid \in Tid
         /\ bPacketMiss \in BOOLEAN /\ timerOn \in BOOLEAN
         /\ expiry \in BOOLEAN /\ spinning \in BOOLEAN
         /\ AllOK(tid, sender, last, odd)
         /\ Counted(tid, aPacketsStored, odd)
         /\ Guarded(tid, bPacketMiss, timerOn, expiry, spinning, odd)
<1>1. RxQueueTypeOK
  BY DEF RxQueueInv
<1>2. /\ AllOK(tid, sender, last, odd) /\ Counted(tid, aPacketsStored, odd)
      /\ Guarded(tid, bPacketMiss, timerOn, expiry, spinning, odd)
  BY <1>1, InvParts DEF RxQueueInv
<1>3. /\ tid \in [Tid -> Session] /\ sender \in [Tid -> Sender]
      /\ last \in [Tid -> Highest] /\ odd \in [Tid -> Oddities]
  BY <1>1 DEF RxQueueTypeOK, Session, Sender, Highest, Oddities
<1> QED BY <1>1, <1>2, <1>3 DEF RxQueueTypeOK

Report == [tid : Tid, pkts : Seq(Frame), ok : BOOLEAN]

\* What a step keeps, put together.
LEMMA Kept ==
  ASSUME tid' \in [Tid -> Session], sender' \in [Tid -> Sender],
         last' \in [Tid -> Highest], odd' \in [Tid -> Oddities],
         aPacketsStored' \in Nat, aFrameTid' \in Tid,
         bPacketMiss' \in BOOLEAN, timerOn' \in BOOLEAN,
         expiry' \in BOOLEAN, spinning' \in BOOLEAN, passed' \in Report,
         AllOK(tid', sender', last', odd'),
         Counted(tid', aPacketsStored', odd'),
         Guarded(tid', bPacketMiss', timerOn', expiry', spinning', odd')
  PROVE  RxQueueInv'
<1>1. RxQueueTypeOK'
  BY DEF RxQueueTypeOK, Session, Sender, Highest, Oddities, Report
<1>2. SessionsOK'
  BY DEF SessionsOK, AllOK
<1>3. StoredCountOK'
  BY DEF StoredCountOK, Counted, StoredCounted, Cells
<1>4. ASSUME NEW t \in Tid PROVE StoredOf(t)' # {} <=> \E i \in Slot : tid'[t].queue[i] # NoPacket
  <2>1. tid'[t].queue \in [Slot -> Frame \cup {NoPacket}]
    BY DEF Session
  <2>2. Range(tid'[t].queue) = {tid'[t].queue[i] : i \in Slot}
    BY <2>1 DEF Range
  <2> QED BY <2>2 DEF StoredOf
<1>5. TimerOK'
  BY <1>4 DEF TimerOK, TimerGuardsStored, Guarded
<1> QED BY <1>1, <1>2, <1>3, <1>5 DEF RxQueueInv

\* What a step of an undisturbed session passes up.
Delivered ==
  LET t == passed'.tid
      new == passed'.pkts
  IN (tid[t].est /\ passed'.ok /\ odd'[t] \subseteq {"close"}) => Ascending(last[t], new)

\* Passing packets up.
LEMMA PassFacts ==
  ASSUME NEW t \in Tid, NEW pkts \in Seq(Frame), Pass(t, pkts), last \in [Tid -> Highest]
  PROVE  /\ passed' \in Report
         /\ passed'.tid = t /\ passed'.pkts = pkts /\ passed'.ok
         /\ last' = [last EXCEPT ![t] = After(last[t], pkts)]
<1>1. passed' = [tid |-> t, pkts |-> pkts, ok |-> TRUE]
  BY DEF Pass
<1>2. last' = [last EXCEPT ![t] = After(last[t], pkts)]
  BY DEF Pass, After
<1> QED BY <1>1, <1>2 DEF Report

\* Passing up nothing is in order.
LEMMA PassNothing ==
  ASSUME NEW t \in Tid, Pass(t, <<>>), last \in [Tid -> Highest]
  PROVE  passed' \in Report /\ last' = last /\ Delivered
<1>1. <<>> \in Seq(Frame)
  OBVIOUS
<1>2. /\ passed' \in Report /\ passed'.tid = t /\ passed'.pkts = <<>>
      /\ last' = [last EXCEPT ![t] = After(last[t], <<>>)]
  BY <1>1, PassFacts
<1>3. After(last[t], <<>>) = last[t]
  BY DEF After
<1>4. last' = last
  BY <1>2, <1>3
<1>5. Delivered
  BY <1>2 DEF Delivered, Ascending
<1> QED BY <1>2, <1>4, <1>5

\* A packet that arrives.
LEMMA ArriveFacts ==
  ASSUME RxQueueInv, NEW t \in Tid, NEW n \in Frame, Arrives(t, n),
         NEW s, s = sender[t]
  PROVE  /\ n \in 0 .. MaxSeq[t] - 1 /\ n \in Nat /\ n < MaxSeq[t] /\ MaxSeq[t] \in Nat
         /\ s \in Sender /\ s.base <= n /\ n <= s.base + SendersWindow(tid[t]) - 1 /\ tid[t].est
         /\ Moved(s.base, s.rcvd \cup {n}) \in Sender
         /\ sender' = [sender EXCEPT ![t] = Moved(s.base, s.rcvd \cup {n})]
         /\ ~ spinning /\ expiry' = expiry /\ spinning' = spinning
         /\ SessionOK(t, tid[t], s, last[t], odd[t])
         /\ tid[t] \in Session /\ last[t] \in Highest /\ SnOf(n) \in Sn
<1>1. s \in Sender /\ tid[t] \in Session /\ last[t] \in Highest
  BY RxQueueTyped
<1>2. SessionOK(t, tid[t], s, last[t], odd[t])
  BY RxQueueTyped DEF AllOK
<1>3. MaxSeq[t] \in Nat /\ n \in Nat
  BY BoundFacts
<1>4. n < MaxSeq[t] /\ s.base <= n /\ n <= s.base + SendersWindow(tid[t]) - 1
  <2>1. n < MaxSeq[t] /\ n \in s.base .. s.base + SendersWindow(tid[t]) - 1
    BY DEF Arrives, MayArrive
  <2>2. SendersWindow(tid[t]) \in Nat /\ s.base \in Nat
    BY <1>1, SendersWindowFacts DEF Sender
  <2> DEFINE x == s.base
             w == SendersWindow(tid[t])
  <2> HIDE DEF x, w
  <2>3. x <= n /\ n <= x + w - 1
    BY <2>1, <2>2 DEF x, w
  <2> QED BY <2>1, <2>3 DEF x, w
<1>5. n \in 0 .. MaxSeq[t] - 1
  BY <1>3, <1>4
<1>6. sender' = [sender EXCEPT ![t] = Moved(s.base, s.rcvd \cup {n})]
  BY DEF Arrives, SenderMoves, Moved
<1>7. Moved(s.base, s.rcvd \cup {n}) \in Sender
  <2>1. s.base \in Nat /\ s.rcvd \cup {n} \subseteq 0 .. MaxSeq[t] - 1
    BY <1>1, <1>2, <1>5 DEF Sender, SessionOK, Bounded
  <2> QED BY <2>1, MovedSender
<1>8. SnOf(n) \in Sn
  BY <1>3, SnOfFacts
<1> QED BY <1>1, <1>2, <1>3, <1>4, <1>5, <1>6, <1>7, <1>8 DEF Arrives, Running

\* The timer after an operation that left n packets.
LEMMA Restarted ==
  ASSUME RxQueueInv, NEW t \in Tid, NEW n \in Nat, RestartTimer(t, n),
         Counted(tid', n, odd')
  PROVE  /\ Guarded(tid', bPacketMiss', timerOn', expiry', spinning', odd')
         /\ bPacketMiss' \in BOOLEAN /\ timerOn' \in BOOLEAN /\ aFrameTid' \in Tid
<1>1. bPacketMiss' = (n > 0) /\ (n > 0 => timerOn') /\ timerOn' \in BOOLEAN
  BY RxQueueTyped DEF RestartTimer, StillOn
<1>2. aFrameTid' \in Tid
  BY RxQueueTyped DEF RestartTimer
<1>3. Cardinality(Cells(tid')) <= n
  BY DEF Counted
<1>4. Guarded(tid', n > 0, timerOn', expiry', spinning', odd')
  <2> DEFINE S == tid'
             on == timerOn'
  <2> HIDE DEF S, on
  <2>1. Cardinality(Cells(S)) <= n /\ (n > 0 => on)
    BY <1>1, <1>3 DEF S, on
  <2>2. Guarded(S, n > 0, on, expiry', spinning', odd')
    BY <2>1, GuardedRestart
  <2> QED BY <2>2 DEF S, on
<1> QED BY <1>1, <1>2, <1>4

\* Nothing of the queue changes.
LEMMA KeptQueue ==
  ASSUME RxQueueInv, UNCHANGED <<tid, aPacketsStored, odd, expiry, spinning>>, KeepTimer
  PROVE  /\ tid' \in [Tid -> Session] /\ odd' \in [Tid -> Oddities]
         /\ aPacketsStored' \in Nat /\ aFrameTid' \in Tid
         /\ bPacketMiss' \in BOOLEAN /\ timerOn' \in BOOLEAN
         /\ expiry' \in BOOLEAN /\ spinning' \in BOOLEAN
         /\ Counted(tid', aPacketsStored', odd')
         /\ Guarded(tid', bPacketMiss', timerOn', expiry', spinning', odd')
BY RxQueueTyped DEF KeepTimer

\* Each action keeps the invariant and delivers in order.
LEMMA ExpectedStep ==
  ASSUME RxQueueInv, NEW t \in Tid, NEW n \in Frame, ReceiveExpected(t, n)
  PROVE  RxQueueInv' /\ Delivered
<1> DEFINE s == sender[t]
           r == tid[t]
           l == last[t]
           o == odd[t]
           z == Skip(r, 1)
           k == RunLength(z)
           q == Release(z, k)
           pkts == <<n>> \o Packets(z, k)
           m == aPacketsStored - k
           s2 == Moved(s.base, s.rcvd \cup {n})
           l2 == After(l, pkts)
<1>1. /\ Arrives(t, n) /\ SnOf(n) = r.expected
      /\ tid' = [tid EXCEPT ![t] = q] /\ Pass(t, pkts)
      /\ aPacketsStored' = m /\ RestartTimer(t, m) /\ odd' = odd
  BY DEF ReceiveExpected, StoredWithout
<1>2. /\ n \in 0 .. MaxSeq[t] - 1 /\ s \in Sender
      /\ s.base <= n /\ n <= s.base + SendersWindow(r) - 1 /\ r.est
      /\ s2 \in Sender /\ sender' = [sender EXCEPT ![t] = s2]
      /\ expiry' = expiry /\ spinning' = spinning
      /\ SessionOK(t, r, s, l, o)
      /\ r \in Session /\ l \in Highest
  BY <1>1, ArriveFacts
<1>3. /\ tid \in [Tid -> Session] /\ sender \in [Tid -> Sender]
      /\ last \in [Tid -> Highest] /\ odd \in [Tid -> Oddities]
      /\ aPacketsStored \in Nat /\ AllOK(tid, sender, last, odd)
      /\ expiry \in BOOLEAN /\ spinning \in BOOLEAN
      /\ Counted(tid, aPacketsStored, odd)
  BY RxQueueTyped
<1> HIDE DEF s, r, l, o
<1>4. /\ q \in Session /\ pkts \in Seq(Frame) /\ l2 \in Highest
      /\ SessionOK(t, q, s2, l2, o) /\ (o \subseteq {"close"} => Ascending(l, pkts))
  BY <1>1, <1>2, ExpectedOK
<1>5. z \in Session /\ z.queue = r.queue /\ k \in 0 .. ArraySize /\ k = Len(Packets(z, k))
  <2>1. 1 \in 0 .. ArraySize
    BY SizeFacts
  <2>2. z \in Session /\ z.queue = r.queue
    BY <2>1, <1>2, SkipFacts
  <2> HIDE DEF z
  <2> QED BY <2>2, RunLengthFacts, RunPackets
<1> HIDE DEF z, k
<1>6. Counted([tid EXCEPT ![t] = q], m, odd) /\ m \in Nat
  <2>1. z.queue = tid[t].queue
    BY <1>5 DEF r
  <2>2. /\ Counted([tid EXCEPT ![t] = Release(z, k)], aPacketsStored - Len(Packets(z, k)), odd)
        /\ aPacketsStored - Len(Packets(z, k)) \in Nat
    BY <2>1, <1>3, <1>5, CountedReleased
  <2> QED BY <2>2, <1>5
<1> HIDE DEF q, pkts, m, s2
<1>7. /\ passed' \in Report /\ passed'.tid = t /\ passed'.pkts = pkts
      /\ last' = [last EXCEPT ![t] = l2]
  BY <1>1, <1>3, <1>4, PassFacts DEF l
<1> HIDE DEF l2
<1>8. /\ AllOK(tid', sender', last', odd') /\ tid' \in [Tid -> Session]
      /\ sender' \in [Tid -> Sender] /\ last' \in [Tid -> Highest]
  <2>1. SessionOK(t, q, s2, l2, odd[t])
    BY <1>4 DEF o
  <2>2. /\ AllOK([tid EXCEPT ![t] = q], [sender EXCEPT ![t] = s2], [last EXCEPT ![t] = l2], odd)
        /\ [tid EXCEPT ![t] = q] \in [Tid -> Session]
        /\ [sender EXCEPT ![t] = s2] \in [Tid -> Sender]
        /\ [last EXCEPT ![t] = l2] \in [Tid -> Highest]
    BY <2>1, <1>2, <1>3, <1>4, AllStep
  <2> QED BY <2>2, <1>1, <1>2, <1>7
<1>9. /\ Guarded(tid', bPacketMiss', timerOn', expiry', spinning', odd')
      /\ bPacketMiss' \in BOOLEAN /\ timerOn' \in BOOLEAN /\ aFrameTid' \in Tid
      /\ Counted(tid', m, odd')
  <2>1. Counted(tid', m, odd')
    BY <1>1, <1>6
  <2> QED BY <2>1, <1>1, <1>6, Restarted
<1>10. RxQueueInv'
  BY <1>1, <1>2, <1>3, <1>6, <1>7, <1>8, <1>9, Kept
<1>11. Delivered
  BY <1>1, <1>4, <1>7 DEF Delivered, o, l
<1> QED BY <1>10, <1>11

LEMMA OldStep ==
  ASSUME RxQueueInv, NEW t \in Tid, NEW n \in Frame, ReceiveOld(t, n)
  PROVE  RxQueueInv' /\ Delivered
<1> DEFINE s == sender[t]
           r == tid[t]
           l == last[t]
           o == odd[t]
           pkts == <<n>>
           s2 == Moved(s.base, s.rcvd \cup {n})
           l2 == After(l, pkts)
<1>1. /\ Arrives(t, n) /\ SnOf(n) # r.expected /\ ~ Bigger(SnOf(n), r.expected)
      /\ Pass(t, pkts) /\ KeepTimer
      /\ tid' = tid /\ aPacketsStored' = aPacketsStored /\ odd' = odd
  BY DEF ReceiveOld
<1>2. /\ n \in 0 .. MaxSeq[t] - 1 /\ s \in Sender
      /\ s.base <= n /\ n <= s.base + SendersWindow(r) - 1 /\ r.est
      /\ s2 \in Sender /\ sender' = [sender EXCEPT ![t] = s2]
      /\ expiry' = expiry /\ spinning' = spinning
      /\ SessionOK(t, r, s, l, o)
      /\ r \in Session /\ l \in Highest
  BY <1>1, ArriveFacts
<1>3. /\ tid \in [Tid -> Session] /\ sender \in [Tid -> Sender]
      /\ last \in [Tid -> Highest] /\ odd \in [Tid -> Oddities]
      /\ AllOK(tid, sender, last, odd)
  BY RxQueueTyped
<1> HIDE DEF s, r, l, o
<1>4. /\ l2 \in Highest /\ SessionOK(t, r, s2, l2, o) /\ ~ (o \subseteq {"close"})
  BY <1>1, <1>2, OldOK
<1>5. pkts \in Seq(Frame)
  OBVIOUS
<1> HIDE DEF pkts, s2
<1>6. /\ passed' \in Report /\ passed'.tid = t /\ last' = [last EXCEPT ![t] = l2]
  BY <1>1, <1>3, <1>5, PassFacts DEF l
<1> HIDE DEF l2
<1>7. /\ AllOK(tid', sender', last', odd')
      /\ sender' \in [Tid -> Sender] /\ last' \in [Tid -> Highest]
  <2>1. SessionOK(t, r, s2, l2, odd[t])
    BY <1>4 DEF o
  <2>2. /\ AllOK([tid EXCEPT ![t] = r], [sender EXCEPT ![t] = s2], [last EXCEPT ![t] = l2], odd)
        /\ [sender EXCEPT ![t] = s2] \in [Tid -> Sender]
        /\ [last EXCEPT ![t] = l2] \in [Tid -> Highest]
    BY <2>1, <1>2, <1>3, <1>4, AllStep
  <2>3. [tid EXCEPT ![t] = r] = tid
    BY <1>3 DEF r
  <2> QED BY <2>2, <2>3, <1>1, <1>2, <1>6
<1>8. RxQueueInv'
  BY <1>1, <1>2, <1>6, <1>7, KeptQueue, Kept
<1>9. Delivered
  BY <1>1, <1>4, <1>6 DEF Delivered, o
<1> QED BY <1>8, <1>9

LEMMA InWindowStep ==
  ASSUME RxQueueInv, NEW t \in Tid, NEW n \in Frame, ReceiveInWindow(t, n)
  PROVE  RxQueueInv' /\ Delivered
<1> DEFINE s == sender[t]
           r == tid[t]
           l == last[t]
           o == odd[t]
           d == Dist(SnOf(n), r.expected)
           q == Save(r, SnOf(n), n)
           s2 == Moved(s.base, s.rcvd \cup {n})
<1>1. /\ Arrives(t, n) /\ Bigger(SnOf(n), r.expected) /\ ~ Bigger(SnOf(n), WinEnd(r))
      /\ odd' = odd
      /\ \/ /\ Stored(r, d) /\ Discard(t, n) /\ KeepTimer
            /\ tid' = tid /\ aPacketsStored' = aPacketsStored
         \/ /\ ~ Stored(r, d) /\ tid' = [tid EXCEPT ![t] = q]
            /\ aPacketsStored' = aPacketsStored + 1 /\ Pass(t, <<>>)
            /\ IF bPacketMiss THEN KeepTimer ELSE RestartTimer(t, 1)
  BY DEF ReceiveInWindow
<1>2. /\ n \in 0 .. MaxSeq[t] - 1 /\ s \in Sender
      /\ s.base <= n /\ n <= s.base + SendersWindow(r) - 1 /\ r.est
      /\ s2 \in Sender /\ sender' = [sender EXCEPT ![t] = s2]
      /\ expiry' = expiry /\ spinning' = spinning
      /\ SessionOK(t, r, s, l, o)
      /\ r \in Session /\ l \in Highest /\ SnOf(n) \in Sn
  BY <1>1, ArriveFacts
<1>3. /\ tid \in [Tid -> Session] /\ sender \in [Tid -> Sender]
      /\ last \in [Tid -> Highest] /\ odd \in [Tid -> Oddities]
      /\ aPacketsStored \in Nat /\ AllOK(tid, sender, last, odd)
      /\ Counted(tid, aPacketsStored, odd)
      /\ expiry \in BOOLEAN /\ spinning \in BOOLEAN
      /\ aFrameTid \in Tid /\ bPacketMiss \in BOOLEAN /\ timerOn \in BOOLEAN
  BY RxQueueTyped
<1> HIDE DEF s, r, l, o
<1>4. SessionOK(t, q, s2, l, o) /\ SessionOK(t, r, s2, l, o)
  BY <1>1, <1>2, InWindowOK
<1>5. q \in Session
  BY <1>2, SaveFacts
<1> HIDE DEF s2
<1>6. [last EXCEPT ![t] = l] = last /\ [tid EXCEPT ![t] = r] = tid
  BY <1>3 DEF l, r
<1>7. CASE /\ Stored(r, d) /\ Discard(t, n) /\ KeepTimer
           /\ tid' = tid /\ aPacketsStored' = aPacketsStored
  <2>1. passed' \in Report /\ ~ passed'.ok /\ last' = last
    BY <1>7 DEF Discard, Report
  <2>2. AllOK(tid', sender', last', odd') /\ sender' \in [Tid -> Sender] /\ last' \in [Tid -> Highest]
    <3>1. SessionOK(t, r, s2, l, odd[t])
      BY <1>4 DEF o
    <3> HIDE DEF q, d
    <3>2. /\ AllOK([tid EXCEPT ![t] = r], [sender EXCEPT ![t] = s2], [last EXCEPT ![t] = l], odd)
          /\ [sender EXCEPT ![t] = s2] \in [Tid -> Sender]
      BY <3>1, <1>2, <1>3, AllStep
    <3> QED BY <3>2, <2>1, <1>1, <1>2, <1>3, <1>6, <1>7
  <2>3. RxQueueInv'
    BY <2>1, <2>2, <1>1, <1>2, <1>7, KeptQueue, Kept
  <2>4. Delivered
    BY <2>1 DEF Delivered
  <2> QED BY <2>3, <2>4
<1>8. CASE /\ ~ Stored(r, d) /\ tid' = [tid EXCEPT ![t] = q]
           /\ aPacketsStored' = aPacketsStored + 1 /\ Pass(t, <<>>)
           /\ IF bPacketMiss THEN KeepTimer ELSE RestartTimer(t, 1)
  <2>1. passed' \in Report /\ last' = last /\ Delivered
    BY <1>3, <1>8, PassNothing
  <2>2. Counted(tid', aPacketsStored', odd')
    <3>1. ~ Stored(tid[t], Dist(SnOf(n), tid[t].expected))
      BY <1>8 DEF r
    <3>2. aPacketsStored \in Int
      BY <1>3
    <3>3. Counted([tid EXCEPT ![t] = Save(tid[t], SnOf(n), n)], aPacketsStored + 1, odd)
      BY <3>1, <3>2, <1>2, <1>3, CountedSaved
    <3> QED BY <3>3, <1>1, <1>8 DEF r
  <2> HIDE DEF q, d
  <2>3. /\ AllOK(tid', sender', last', odd') /\ tid' \in [Tid -> Session]
        /\ sender' \in [Tid -> Sender] /\ last' \in [Tid -> Highest]
    <3>1. SessionOK(t, q, s2, l, odd[t])
      BY <1>4 DEF o
    <3>2. /\ AllOK([tid EXCEPT ![t] = q], [sender EXCEPT ![t] = s2], [last EXCEPT ![t] = l], odd)
          /\ [tid EXCEPT ![t] = q] \in [Tid -> Session]
          /\ [sender EXCEPT ![t] = s2] \in [Tid -> Sender]
      BY <3>1, <1>2, <1>3, <1>5, AllStep
    <3> QED BY <3>2, <2>1, <1>1, <1>2, <1>3, <1>6, <1>8
  <2>4. bPacketMiss => timerOn \/ expiry
    BY RxQueueTyped DEF Guarded
  <2>5. /\ bPacketMiss' = TRUE /\ timerOn' \in BOOLEAN /\ (timerOn' \/ expiry') /\ aFrameTid' \in Tid
    <3>1. CASE bPacketMiss
      BY <3>1, <2>4, <1>2, <1>3, <1>8 DEF KeepTimer
    <3>2. CASE ~ bPacketMiss
      <4>1. RestartTimer(t, 1) /\ 1 > 0
        BY <3>2, <1>8
      <4> QED BY <4>1 DEF RestartTimer
    <3> QED BY <3>1, <3>2
  <2>6. Guarded(tid', bPacketMiss', timerOn', expiry', spinning', odd')
    BY <2>5 DEF Guarded
  <2>7. aPacketsStored' \in Nat
    BY <1>3, <1>8
  <2>8. RxQueueInv'
    BY <2>1, <2>2, <2>3, <2>5, <2>6, <2>7, <1>1, <1>2, <1>3, Kept
  <2> QED BY <2>1, <2>8
<1> QED BY <1>1, <1>7, <1>8

LEMMA BeyondStep ==
  ASSUME RxQueueInv, NEW t \in Tid, NEW n \in Frame, ReceiveBeyond(t, n)
  PROVE  RxQueueInv' /\ Delivered
<1> DEFINE s == sender[t]
           r == tid[t]
           l == last[t]
           o == odd[t]
           u == BeyondSettled(r, n)
           out == BeyondOut(r, n)
           q == BeyondQueue(r, n)
           pkts == BeyondPassed(r, n)
           isNext == u.expected = SnOf(n)
           m == aPacketsStored - Len(out)
           m2 == m + (IF isNext THEN 0 ELSE 1)
           s2 == Moved(s.base, s.rcvd \cup {n})
           l2 == After(l, pkts)
<1>1. /\ Arrives(t, n) /\ Bigger(SnOf(n), r.expected) /\ Bigger(SnOf(n), WinEnd(r))
      /\ tid' = [tid EXCEPT ![t] = q] /\ Pass(t, pkts)
      /\ aPacketsStored' = m2 /\ RestartTimer(t, m2)
      /\ odd' = IF SnOf(n) = WinEnd(r) % SnMod \/ r.win = 0 THEN Marked(t, "window") ELSE odd
  BY DEF ReceiveBeyond, StoredWithout, BeyondQueue, BeyondPassed, BeyondSettled, BeyondOut,
         BeyondMore, BeyondMoved, BeyondSlid, BeyondStart, Further, Settled, Leaving
<1>2. /\ n \in 0 .. MaxSeq[t] - 1 /\ s \in Sender
      /\ n \in Nat /\ n < MaxSeq[t] /\ MaxSeq[t] \in Nat
      /\ s.base <= n /\ n <= s.base + SendersWindow(r) - 1 /\ r.est
      /\ s2 \in Sender /\ sender' = [sender EXCEPT ![t] = s2]
      /\ expiry' = expiry /\ spinning' = spinning
      /\ SessionOK(t, r, s, l, o)
      /\ r \in Session /\ l \in Highest /\ SnOf(n) \in Sn
  BY <1>1, ArriveFacts
<1>3. /\ tid \in [Tid -> Session] /\ sender \in [Tid -> Sender]
      /\ last \in [Tid -> Highest] /\ odd \in [Tid -> Oddities]
      /\ aPacketsStored \in Nat /\ AllOK(tid, sender, last, odd)
      /\ expiry \in BOOLEAN /\ spinning \in BOOLEAN
      /\ Counted(tid, aPacketsStored, odd)
  BY RxQueueTyped
<1>4. /\ odd' \in [Tid -> Oddities] /\ \A v \in Tid : odd[v] \subseteq odd'[v]
      /\ "window" \in odd'[t] \/ (SnOf(n) # WinEnd(r) % SnMod /\ r.win # 0 /\ odd'[t] = o)
  <2> HIDE DEF u, out, q, pkts, m2, s2, l2
  <2>1. CASE SnOf(n) = WinEnd(r) % SnMod \/ r.win = 0
    <3>1. odd' = [odd EXCEPT ![t] = odd[t] \cup {"window"}]
      BY <2>1, <1>1 DEF Marked
    <3> QED BY <3>1, <1>3 DEF Oddities
  <2>2. CASE ~ (SnOf(n) = WinEnd(r) % SnMod \/ r.win = 0)
    BY <2>2, <1>1, <1>3
  <2> QED BY <2>1, <2>2
<1>5. \A i \in Slot : tid[t].queue[i] < MaxSeq[t]
  BY <1>2 DEF SessionOK, Bounded
<1>6. Counted([tid EXCEPT ![t] = u], m, odd) /\ m \in Nat
  BY <1>2, <1>3, <1>5, CountedBeyond
<1> HIDE DEF s, l, o, m
<1> DEFINE o2 == odd'[t]
<1>7. "window" \in o2 \/ (SnOf(n) # WinEnd(r) % SnMod /\ r.win # 0 /\ o2 = o)
  BY <1>4
<1> HIDE DEF o2, r
<1>8. /\ q \in Session /\ pkts \in Seq(Frame) /\ l2 \in Highest
      /\ SessionOK(t, q, s2, l2, o2)
      /\ o2 \subseteq {"close"} => Ascending(l, pkts)
      /\ "window" \notin o2 /\ ~ isNext => ~ Stored(u, Dist(SnOf(n), u.expected))
  BY <1>1, <1>2, <1>7, BeyondOK
<1>9. u \in Session
  <2>1. \A i \in Slot : r.queue[i] < MaxSeq[t]
    BY <1>5 DEF r
  <2> QED BY <2>1, <1>2, BeyondSettledFacts
<1>10. Counted([tid EXCEPT ![t] = q], m2, odd') /\ m2 \in Nat
  <2> DEFINE S == [tid EXCEPT ![t] = u]
  <2>1. S \in [Tid -> Session] /\ S[t] = u
    BY <1>3, <1>9
  <2>2. Counted(S, m, odd')
    <3> HIDE DEF S
    <3>1. \A v \in Tid : odd[v] \cap {"window"} \subseteq odd'[v]
      BY <1>4
    <3> DEFINE O2 == odd'
    <3> HIDE DEF O2
    <3>2. \A v \in Tid : odd[v] \cap {"window"} \subseteq O2[v]
      BY <3>1 DEF O2
    <3>3. Counted(S, m, odd)
      BY <1>6 DEF S
    <3>4. Counted(S, m, O2)
      BY <3>2, <3>3, CountedWeaker
    <3> QED BY <3>4 DEF O2
  <2>3. ASSUME NEW v PROVE [S EXCEPT ![t] = v] = [tid EXCEPT ![t] = v]
    BY <1>3
  <2> HIDE DEF S
  <2>4. CASE isNext
    <3>1. m2 = m
      BY <2>4, <1>6
    <3>2. q.queue = u.queue
      <4> DEFINE c == (SnOf(n) + 1) % SnMod
      <4>1. q = [u EXCEPT !.expected = c]
        BY <2>4 DEF BeyondQueue
      <4> HIDE DEF u, q, c
      <4> QED BY <4>1, <1>9 DEF Session
    <3> HIDE DEF u, q, isNext, m2
    <3>3. Counted([S EXCEPT ![t] = q], m, odd')
      <4> DEFINE O2 == odd'
      <4> HIDE DEF O2
      <4>1. Counted(S, m, O2)
        BY <2>2 DEF O2
      <4>2. Counted([S EXCEPT ![t] = q], m, O2)
        BY <4>1, <3>2, <2>1, <1>8, CountedSame
      <4> QED BY <4>2 DEF O2
    <3> QED BY <3>1, <3>3, <2>3, <1>6
  <2>5. CASE ~ isNext
    <3>1. m2 = m + 1
      BY <2>5
    <3>2. q = Save(u, SnOf(n), n)
      BY <2>5 DEF BeyondQueue
    <3>3. ~ Stored(u, Dist(SnOf(n), u.expected)) \/ "window" \in o2
      BY <2>5, <1>8
    <3> HIDE DEF u, q, isNext, m2
    <3>4. Counted([S EXCEPT ![t] = Save(S[t], SnOf(n), n)], m + 1, odd')
      <4> DEFINE O2 == odd'
      <4> HIDE DEF O2
      <4>1. Counted(S, m, O2) /\ m \in Int
        BY <2>2, <1>6 DEF O2
      <4>2. ~ Stored(S[t], Dist(SnOf(n), S[t].expected)) \/ "window" \in O2[t]
        BY <3>3, <2>1 DEF O2, o2
      <4>3. Counted([S EXCEPT ![t] = Save(S[t], SnOf(n), n)], m + 1, O2)
        BY <4>1, <4>2, <2>1, <1>2, CountedSaved
      <4> QED BY <4>3 DEF O2
    <3>5. Counted([S EXCEPT ![t] = q], m + 1, odd')
      BY <3>2, <3>4, <2>1
    <3>6. m + 1 \in Nat
      BY <1>6
    <3> QED BY <3>1, <3>5, <3>6, <2>3
  <2> QED BY <2>4, <2>5
<1> HIDE DEF q, pkts, m2, s2, u, isNext, out
<1>11. /\ passed' \in Report /\ passed'.tid = t /\ passed'.pkts = pkts
       /\ last' = [last EXCEPT ![t] = l2]
  BY <1>1, <1>3, <1>8, PassFacts DEF l
<1> HIDE DEF l2
<1>12. /\ AllOK(tid', sender', last', odd') /\ tid' \in [Tid -> Session]
       /\ sender' \in [Tid -> Sender] /\ last' \in [Tid -> Highest]
  <2> DEFINE O2 == odd'
  <2>1. SessionOK(t, q, s2, l2, O2[t])
    BY <1>8 DEF o2
  <2>2. O2 \in [Tid -> Oddities] /\ \A v \in Tid : v # t => odd[v] \subseteq O2[v]
    BY <1>4
  <2> HIDE DEF O2
  <2>3. /\ AllOK([tid EXCEPT ![t] = q], [sender EXCEPT ![t] = s2], [last EXCEPT ![t] = l2], O2)
        /\ [tid EXCEPT ![t] = q] \in [Tid -> Session]
        /\ [sender EXCEPT ![t] = s2] \in [Tid -> Sender]
        /\ [last EXCEPT ![t] = l2] \in [Tid -> Highest]
    BY <2>1, <2>2, <1>2, <1>3, <1>8, AllStep
  <2> QED BY <2>3, <1>1, <1>2, <1>11 DEF O2
<1>13. /\ Guarded(tid', bPacketMiss', timerOn', expiry', spinning', odd')
       /\ bPacketMiss' \in BOOLEAN /\ timerOn' \in BOOLEAN /\ aFrameTid' \in Tid
       /\ Counted(tid', m2, odd')
  <2>1. Counted(tid', m2, odd')
    BY <1>1, <1>10
  <2> QED BY <2>1, <1>1, <1>10, Restarted
<1>14. RxQueueInv'
  BY <1>1, <1>2, <1>3, <1>4, <1>10, <1>11, <1>12, <1>13, Kept
<1>15. Delivered
  BY <1>8, <1>11 DEF Delivered, o2, l
<1> QED BY <1>14, <1>15

\* What the sender may give up lies in its window.
LEMMA SendRange ==
  ASSUME NEW s \in Sender, NEW r \in Session, NEW b \in s.base + 1 .. s.base + SendersWindow(r)
  PROVE  s.base < b /\ b <= s.base + SendersWindow(r)
<1> DEFINE x == s.base
           w == SendersWindow(r)
<1>1. x \in Nat /\ w \in Nat /\ b \in x + 1 .. x + w
  BY SendersWindowFacts DEF Sender
<1> HIDE DEF x, w
<1>2. x < b /\ b <= x + w
  BY <1>1
<1> QED BY <1>2 DEF x, w

\* The sender gives packets up: only what it sends next changes.
LEMMA GivenUp ==
  ASSUME RxQueueInv, NEW t \in Tid, NEW b \in Frame, tid[t].est,
         b \in sender[t].base + 1 .. sender[t].base + SendersWindow(tid[t]), NearExpected(t, b),
         SenderMoves(t, b, sender[t].rcvd), Pass(t, <<>>), KeepTimer,
         UNCHANGED <<tid, aPacketsStored, odd, expiry, spinning>>
  PROVE  RxQueueInv' /\ Delivered
<1> DEFINE s == sender[t]
           r == tid[t]
           l == last[t]
           o == odd[t]
           s2 == Moved(b, s.rcvd)
<1>1. /\ tid \in [Tid -> Session] /\ sender \in [Tid -> Sender]
      /\ last \in [Tid -> Highest] /\ odd \in [Tid -> Oddities]
      /\ AllOK(tid, sender, last, odd)
  BY RxQueueTyped
<1>2. /\ r \in Session /\ s \in Sender /\ l \in Highest /\ SessionOK(t, r, s, l, o)
      /\ sender' = [sender EXCEPT ![t] = s2]
  BY <1>1 DEF AllOK, SenderMoves, Moved
<1>3. Near(r, b)
  BY DEF NearExpected, Near, Gap
<1>4. b \in Nat
  BY BoundFacts
<1>5. s.base < b /\ b <= s.base + SendersWindow(r)
  BY <1>2, SendRange
<1>6. s2 \in Sender
  <2>1. s.rcvd \subseteq 0 .. MaxSeq[t] - 1
    BY <1>2 DEF SessionOK, Bounded
  <2> QED BY <2>1, <1>4, MovedSender
<1>7. SessionOK(t, r, s2, l, odd[t])
  <2>1. r.est
    OBVIOUS
  <2> HIDE DEF r, s, l, o
  <2>2. SessionOK(t, r, Moved(b, s.rcvd), l, o)
    BY <2>1, <1>2, <1>3, <1>4, <1>5, GiveUpOK
  <2> QED BY <2>2 DEF o
<1>8. passed' \in Report /\ last' = last /\ Delivered
  BY <1>1, PassNothing
<1>9. [last EXCEPT ![t] = l] = last /\ [tid EXCEPT ![t] = r] = tid
  BY <1>1
<1> HIDE DEF r, s, l, s2
<1>10. AllOK(tid', sender', last', odd') /\ sender' \in [Tid -> Sender]
  <2>1. /\ AllOK([tid EXCEPT ![t] = r], [sender EXCEPT ![t] = s2], [last EXCEPT ![t] = l], odd)
        /\ [sender EXCEPT ![t] = s2] \in [Tid -> Sender]
    BY <1>1, <1>2, <1>6, <1>7, AllStep
  <2> QED BY <2>1, <1>2, <1>8, <1>9
<1>11. RxQueueInv'
  BY <1>1, <1>8, <1>10, KeptQueue, Kept
<1> QED BY <1>8, <1>11

LEMMA GiveUpStep ==
  ASSUME RxQueueInv, NEW t \in Tid, NEW b \in Frame, GiveUp(t, b)
  PROVE  RxQueueInv' /\ Delivered
BY GivenUp DEF GiveUp, queueVars, KeepTimer

LEMMA CountedPassed ==
  ASSUME NEW S \in [Tid -> Session], NEW n \in Nat, NEW O, Counted(S, n, O),
         NEW t \in Tid, NEW r \in Session, r.queue = S[t].queue, NEW k \in 0 .. ArraySize,
         NEW q \in Session, q.queue = Release(r, k).queue
  PROVE  /\ Counted([S EXCEPT ![t] = q], n - Len(Packets(r, k)), O)
         /\ n - Len(Packets(r, k)) \in Nat
<1> DEFINE v == Release(r, k)
           S1 == [S EXCEPT ![t] = v]
           m == n - Len(Packets(r, k))
<1>1. Counted(S1, m, O) /\ m \in Nat
  BY CountedReleased
<1>2. v \in Session
  BY ReleaseFacts
<1>3. S1 \in [Tid -> Session] /\ S1[t] = v /\ [S1 EXCEPT ![t] = q] = [S EXCEPT ![t] = q]
  BY <1>2
<1> HIDE DEF S1, v, m
<1>4. q.queue = S1[t].queue
  BY <1>3 DEF v
<1>5. Counted([S1 EXCEPT ![t] = q], m, O)
  BY <1>1, <1>3, <1>4, CountedSame
<1> QED BY <1>1, <1>3, <1>5 DEF m

LEMMA BarStep ==
  ASSUME RxQueueInv, NEW t \in Tid, NEW b \in Frame, ReceiveBar(t, b)
  PROVE  RxQueueInv' /\ Delivered
<1> DEFINE s == sender[t]
           r == tid[t]
           l == last[t]
           o == odd[t]
           d == WinStartDelta(SnOf(b), r)
           k == BarLoop(r, d)
           q == [Release(r, k) EXCEPT !.expected = SnOf(b)]
           pkts == Packets(r, k)
           m == aPacketsStored - Len(pkts)
           s2 == Moved(b, s.rcvd)
           l2 == After(l, pkts)
<1>1. /\ r.est /\ b \in s.base + 1 .. s.base + SendersWindow(r) /\ NearExpected(t, b)
      /\ SenderMoves(t, b, s.rcvd) /\ expiry' = expiry /\ spinning' = spinning
      /\ \/ /\ tid' = [tid EXCEPT ![t] = q] /\ Pass(t, pkts)
            /\ aPacketsStored' = m /\ RestartTimer(t, m)
            /\ odd' = IF k = Dist(SnOf(b), r.expected) THEN odd ELSE Marked(t, "bar")
         \/ /\ Pass(t, <<>>) /\ KeepTimer
            /\ tid' = tid /\ aPacketsStored' = aPacketsStored /\ odd' = odd
  BY DEF ReceiveBar, StoredWithout
<1>2. CASE /\ Pass(t, <<>>) /\ KeepTimer
           /\ tid' = tid /\ aPacketsStored' = aPacketsStored /\ odd' = odd
  BY <1>1, <1>2, GivenUp
<1>3. CASE /\ tid' = [tid EXCEPT ![t] = q] /\ Pass(t, pkts)
           /\ aPacketsStored' = m /\ RestartTimer(t, m)
           /\ odd' = IF k = Dist(SnOf(b), r.expected) THEN odd ELSE Marked(t, "bar")
  <2>1. /\ tid \in [Tid -> Session] /\ sender \in [Tid -> Sender]
        /\ last \in [Tid -> Highest] /\ odd \in [Tid -> Oddities]
        /\ aPacketsStored \in Nat /\ AllOK(tid, sender, last, odd)
        /\ expiry \in BOOLEAN /\ spinning \in BOOLEAN
        /\ Counted(tid, aPacketsStored, odd)
    BY RxQueueTyped
  <2>2. /\ r \in Session /\ s \in Sender /\ l \in Highest /\ SessionOK(t, r, s, l, o)
        /\ sender' = [sender EXCEPT ![t] = s2]
    BY <1>1, <2>1 DEF AllOK, SenderMoves, Moved
  <2>3. Near(r, b)
    BY <1>1 DEF NearExpected, Near, Gap
  <2>4. b \in Nat
    BY BoundFacts
  <2>5. s.base < b /\ b <= s.base + SendersWindow(r)
    BY <1>1, <2>2, SendRange
  <2>6. s2 \in Sender
    <3>1. s.rcvd \subseteq 0 .. MaxSeq[t] - 1
      BY <2>2 DEF SessionOK, Bounded
    <3> QED BY <3>1, <2>4, MovedSender
  <2>7. /\ odd' \in [Tid -> Oddities] /\ \A v \in Tid : odd[v] \subseteq odd'[v]
        /\ "bar" \in odd'[t] \/ (k = Dist(SnOf(b), r.expected) /\ odd'[t] = o)
    <3> HIDE DEF k, r
    <3>1. CASE k = Dist(SnOf(b), r.expected)
      BY <3>1, <1>3, <2>1
    <3>2. CASE k # Dist(SnOf(b), r.expected)
      <4>1. odd' = [odd EXCEPT ![t] = odd[t] \cup {"bar"}]
        BY <3>2, <1>3 DEF Marked
      <4> QED BY <4>1, <2>1 DEF Oddities
    <3> QED BY <3>1, <3>2
  <2>8. r.queue = tid[t].queue
    OBVIOUS
  <2> DEFINE O2 == odd'
  <2>9. /\ O2 \in [Tid -> Oddities] /\ \A v \in Tid : odd[v] \subseteq O2[v]
        /\ "bar" \in O2[t] \/ (k = Dist(SnOf(b), r.expected) /\ O2[t] = o)
        /\ o \subseteq O2[t]
    BY <2>7
  <2> HIDE DEF s, l, o, O2, r, d
  <2>10. k \in 0 .. ArraySize
    BY <2>2, BarLoopFacts
  <2>11. /\ q \in Session /\ l2 \in Highest /\ SessionOK(t, q, s2, l2, O2[t])
         /\ O2[t] \subseteq {"close"} => Ascending(l, pkts)
    BY <1>1, <2>2, <2>3, <2>4, <2>5, <2>9, BarOK
  <2>12. pkts \in Seq(Frame)
    BY <2>2, <2>10, PacketsFacts
  <2>13. q.queue = Release(r, k).queue
    <3>1. Release(r, k) \in Session /\ SnOf(b) \in Sn
      BY <2>2, <2>4, <2>10, ReleaseFacts, SnOfFacts
    <3> DEFINE v == Release(r, k)
    <3>2. v \in Session
      BY <3>1
    <3> HIDE DEF v
    <3>3. [v EXCEPT !.expected = SnOf(b)].queue = v.queue
      BY <3>1, <3>2, ExpectedChanged
    <3> QED BY <3>3 DEF v
  <2> HIDE DEF q, k, pkts
  <2>14. Counted([tid EXCEPT ![t] = q], m, odd) /\ m \in Nat
    BY <2>1, <2>2, <2>8, <2>10, <2>11, <2>13, CountedPassed DEF pkts
  <2> HIDE DEF m, s2
  <2>15. Counted([tid EXCEPT ![t] = q], m, O2)
    <3>1. \A v \in Tid : odd[v] \cap {"window"} \subseteq O2[v]
      BY <2>9
    <3> QED BY <3>1, <2>14, CountedWeaker
  <2>16. /\ passed' \in Report /\ passed'.tid = t /\ passed'.pkts = pkts
         /\ last' = [last EXCEPT ![t] = l2]
    BY <1>3, <2>1, <2>12, PassFacts DEF l
  <2> HIDE DEF l2
  <2>17. /\ AllOK(tid', sender', last', odd') /\ tid' \in [Tid -> Session]
         /\ sender' \in [Tid -> Sender] /\ last' \in [Tid -> Highest]
    <3>1. \A v \in Tid : v # t => odd[v] \subseteq O2[v]
      BY <2>9
    <3>2. /\ AllOK([tid EXCEPT ![t] = q], [sender EXCEPT ![t] = s2], [last EXCEPT ![t] = l2], O2)
          /\ [tid EXCEPT ![t] = q] \in [Tid -> Session]
          /\ [sender EXCEPT ![t] = s2] \in [Tid -> Sender]
          /\ [last EXCEPT ![t] = l2] \in [Tid -> Highest]
      BY <3>1, <2>1, <2>6, <2>9, <2>11, AllStep
    <3> QED BY <3>2, <1>3, <2>2, <2>16 DEF O2
  <2>18. Counted(tid', m, odd')
    BY <1>3, <2>15 DEF O2
  <2>19. /\ Guarded(tid', bPacketMiss', timerOn', expiry', spinning', odd')
         /\ bPacketMiss' \in BOOLEAN /\ timerOn' \in BOOLEAN /\ aFrameTid' \in Tid
    BY <1>3, <2>14, <2>18, Restarted
  <2>20. RxQueueInv'
    BY <1>1, <1>3, <2>1, <2>7, <2>14, <2>16, <2>17, <2>18, <2>19, Kept
  <2>21. Delivered
    BY <2>11, <2>16 DEF Delivered, O2, l
  <2> QED BY <2>20, <2>21
<1> QED BY <1>1, <1>2, <1>3

LEMMA NoSessionStep ==
  ASSUME RxQueueInv, NEW t \in Tid, ReceiveNoSession(t)
  PROVE  RxQueueInv' /\ Delivered
<1> DEFINE s == sender[t]
           r == tid[t]
           l == last[t]
           s2 == Moved(s.base, {s.base})
<1>1. /\ ~ r.est /\ s.base < MaxSeq[t] /\ sender' = [sender EXCEPT ![t] = s2]
      /\ passed' = [tid |-> t, pkts |-> <<s.base>>, ok |-> TRUE]
      /\ UNCHANGED queueVars /\ last' = last /\ odd' = odd
  BY DEF ReceiveNoSession, SenderMoves, Moved
<1>2. /\ tid \in [Tid -> Session] /\ sender \in [Tid -> Sender]
      /\ last \in [Tid -> Highest] /\ odd \in [Tid -> Oddities]
      /\ AllOK(tid, sender, last, odd)
  BY RxQueueTyped
<1>3. /\ r \in Session /\ s \in Sender /\ l \in Highest /\ SessionOK(t, r, s, l, odd[t])
      /\ [last EXCEPT ![t] = l] = last /\ [tid EXCEPT ![t] = r] = tid
  BY <1>2 DEF AllOK
<1>4. passed' \in Report
  <2> DEFINE b == s.base
  <2>1. b \in Nat /\ b < MaxSeq[t] /\ MaxSeq[t] \in Nat
    BY <1>1, <1>3, BoundFacts DEF Sender
  <2> HIDE DEF b
  <2>2. b \in 0 .. MaxSeq[t] - 1
    BY <2>1
  <2>3. b \in Frame
    BY <2>2, BoundFacts
  <2>4. [tid |-> t, pkts |-> <<b>>, ok |-> TRUE] \in Report
    BY <2>3 DEF Report
  <2> QED BY <2>4, <1>1 DEF b
<1>5. Delivered
  <2>1. passed'.tid = t /\ ~ tid[t].est
    BY <1>1
  <2> QED BY <2>1 DEF Delivered
<1> DEFINE o == odd[t]
<1> HIDE DEF r, s, l, o
<1>6. s2 \in Sender /\ SessionOK(t, r, s2, l, o)
  BY <1>1, <1>3, NoSessionOK DEF o
<1> HIDE DEF s2
<1>7. AllOK(tid', sender', last', odd') /\ sender' \in [Tid -> Sender]
  <2>1. SessionOK(t, r, s2, l, odd[t])
    BY <1>6 DEF o
  <2>2. /\ AllOK([tid EXCEPT ![t] = r], [sender EXCEPT ![t] = s2], [last EXCEPT ![t] = l], odd)
        /\ [sender EXCEPT ![t] = s2] \in [Tid -> Sender]
    BY <2>1, <1>2, <1>3, <1>6, AllStep
  <2>3. tid' = tid
    BY <1>1 DEF queueVars
  <2> QED BY <2>2, <2>3, <1>1, <1>3
<1>8. KeepTimer /\ UNCHANGED <<tid, aPacketsStored, odd, expiry, spinning>>
  BY <1>1 DEF queueVars, KeepTimer
<1>9. RxQueueInv'
  BY <1>1, <1>2, <1>4, <1>7, <1>8, KeptQueue, Kept
<1> QED BY <1>5, <1>9

LEMMA AddbaStep ==
  ASSUME RxQueueInv, NEW t \in Tid, NEW asked \in WinSizes[t], ReceiveAddba(t, asked)
  PROVE  RxQueueInv' /\ Delivered
<1> DEFINE s == sender[t]
           r == tid[t]
           l == last[t]
           o == odd[t]
           q == Opened(asked, s)
           O2 == odd'
<1>1. /\ ~ r.est /\ tid' = [tid EXCEPT ![t] = q] /\ passed' = NothingPassed(t)
      /\ last' = [last EXCEPT ![t] = -1] /\ odd' = [odd EXCEPT ![t] = odd[t] \cap {"window"}]
      /\ bPacketMiss' = bPacketMiss /\ timerOn' = timerOn /\ aFrameTid' = aFrameTid
      /\ aPacketsStored' = aPacketsStored /\ expiry' = expiry /\ spinning' = spinning
      /\ sender' = sender
  BY DEF ReceiveAddba, KeepTimer, Opened
<1>2. /\ tid \in [Tid -> Session] /\ sender \in [Tid -> Sender]
      /\ last \in [Tid -> Highest] /\ odd \in [Tid -> Oddities]
      /\ aPacketsStored \in Nat /\ AllOK(tid, sender, last, odd)
      /\ Counted(tid, aPacketsStored, odd)
      /\ expiry \in BOOLEAN /\ spinning \in BOOLEAN
      /\ aFrameTid \in Tid /\ bPacketMiss \in BOOLEAN /\ timerOn \in BOOLEAN
      /\ Guarded(tid, bPacketMiss, timerOn, expiry, spinning, odd)
  BY RxQueueTyped
<1>3. /\ r \in Session /\ s \in Sender /\ l \in Highest /\ SessionOK(t, r, s, l, o)
      /\ [sender EXCEPT ![t] = s] = sender
  BY <1>2 DEF AllOK
<1>4. /\ O2 \in [Tid -> Oddities] /\ \A v \in Tid : v # t => O2[v] = odd[v]
      /\ \A v \in Tid : odd[v] \cap {"window"} \subseteq O2[v]
  <2> HIDE DEF q
  <2> QED BY <1>1, <1>2 DEF Oddities
<1>5. passed' \in Report
  BY <1>1 DEF NothingPassed, Report
<1>6. Delivered
  <2>1. passed'.tid = t /\ ~ tid[t].est
    BY <1>1 DEF NothingPassed
  <2> QED BY <2>1 DEF Delivered
<1>7. r.queue = tid[t].queue
  OBVIOUS
<1> HIDE DEF r, s, l, o, O2
<1>8. q \in Session /\ q.queue = r.queue /\ SessionOK(t, q, s, -1, O2[t])
  <2>1. q = Opened(asked, s)
    OBVIOUS
  <2>2. ~ r.est
    BY <1>1
  <2> HIDE DEF q
  <2> QED BY <2>1, <2>2, <1>3, AddbaOK
<1>9. \A i \in Slot : q.queue[i] = NoPacket
  BY <1>1, <1>3, <1>8 DEF SessionOK, Bounded, Closed
<1> HIDE DEF q
<1>10. /\ AllOK(tid', sender', last', odd') /\ tid' \in [Tid -> Session]
       /\ last' \in [Tid -> Highest]
  <2>1. -1 \in Highest /\ \A v \in Tid : v # t => odd[v] \subseteq O2[v]
    BY <1>4 DEF Highest
  <2>2. /\ AllOK([tid EXCEPT ![t] = q], [sender EXCEPT ![t] = s], [last EXCEPT ![t] = -1], O2)
        /\ [tid EXCEPT ![t] = q] \in [Tid -> Session]
        /\ [last EXCEPT ![t] = -1] \in [Tid -> Highest]
    BY <2>1, <1>2, <1>3, <1>4, <1>8, AllStep
  <2> QED BY <2>2, <1>1, <1>3 DEF O2
<1>11. Counted(tid', aPacketsStored', odd')
  <2>1. q.queue = tid[t].queue
    BY <1>7, <1>8
  <2>2. Counted([tid EXCEPT ![t] = q], aPacketsStored, odd)
    BY <2>1, <1>2, <1>8, CountedSame
  <2>3. Counted([tid EXCEPT ![t] = q], aPacketsStored, O2)
    BY <2>2, <1>4, CountedWeaker
  <2> QED BY <2>3, <1>1 DEF O2
<1>12. Guarded(tid', bPacketMiss', timerOn', expiry', spinning', odd')
  <2> DEFINE S == [tid EXCEPT ![t] = q]
  <2>1. S[t] = q /\ \A v \in Tid : v # t => S[v] = tid[v]
    BY <1>2
  <2> HIDE DEF S
  <2>2. Guarded(S, bPacketMiss, timerOn, expiry, spinning, O2)
    BY <2>1, <1>2, <1>4, <1>9 DEF Guarded
  <2> QED BY <2>2, <1>1 DEF S, O2
<1>13. odd' \in [Tid -> Oddities] /\ sender' \in [Tid -> Sender]
  BY <1>1, <1>2, <1>4 DEF O2
<1>14. RxQueueInv'
  BY <1>1, <1>2, <1>5, <1>10, <1>11, <1>12, <1>13, Kept
<1> QED BY <1>6, <1>14

\* Nothing is left when all slots are emptied.
LEMMA AllReleased ==
  ASSUME NEW r \in Session, NEW q, q = Emptied(r)
  PROVE  q.queue = Release(r, ArraySize).queue
<1> USE DEF Emptied
<1> DEFINE v == Release(r, ArraySize)
           f == v.queue
           a == [i \in Slot |-> NoPacket]
<1>1. ArraySize \in 0 .. ArraySize
  BY SizeFacts
<1>2. /\ v \in Session
      /\ \A i \in Slot : f[i] = IF \E j \in 0 .. ArraySize - 1 : i = SlotAt(r, j)
                                THEN NoPacket ELSE r.queue[i]
  BY <1>1, ReleaseFacts
<1>3. \A i \in Slot : \E j \in 0 .. ArraySize - 1 : i = SlotAt(r, j)
  BY SlotAtOnto DEF Slot
<1>4. f \in [Slot -> Frame \cup {NoPacket}]
  <2> HIDE DEF v
  <2> QED BY <1>2 DEF Session
<1>5. \A i \in Slot : f[i] = NoPacket
  BY <1>2, <1>3
<1> HIDE DEF f, v
<1>6. f = a
  BY <1>4, <1>5
<1>7. q.queue = a
  <2>1. Closed.queue = a
    BY DEF Closed
  <2> HIDE DEF a
  <2>2. q = [r EXCEPT !.est = FALSE, !.queue = a]
    BY <2>1
  <2> QED BY <2>2 DEF Session
<1> QED BY <1>6, <1>7 DEF f, v

LEMMA CloseStep ==
  ASSUME RxQueueInv, NEW t \in Tid, CloseBaSession(t)
  PROVE  RxQueueInv' /\ Delivered
<1> DEFINE s == sender[t]
           r == tid[t]
           l == last[t]
           o == odd[t]
           q == Emptied(r)
           pkts == Packets(r, ArraySize)
           m == aPacketsStored - Len(pkts)
           s2 == Caught(s)
           l2 == After(l, pkts)
           O2 == odd'
<1>1. /\ r.est /\ tid' = [tid EXCEPT ![t] = q] /\ Pass(t, pkts)
      /\ aPacketsStored' = m /\ StopTimer
      /\ odd' = IF m = 0 THEN odd ELSE [u \in Tid |-> odd[u] \cup {"close"}]
      /\ expiry' = expiry /\ spinning' = spinning
  BY DEF CloseBaSession, StoredWithout, Emptied
<1>2. /\ tid \in [Tid -> Session] /\ sender \in [Tid -> Sender]
      /\ last \in [Tid -> Highest] /\ odd \in [Tid -> Oddities]
      /\ aPacketsStored \in Nat /\ AllOK(tid, sender, last, odd)
      /\ Counted(tid, aPacketsStored, odd)
      /\ expiry \in BOOLEAN /\ spinning \in BOOLEAN
      /\ aFrameTid \in Tid /\ bPacketMiss \in BOOLEAN /\ timerOn \in BOOLEAN
  BY RxQueueTyped
<1>3. /\ r \in Session /\ s \in Sender /\ l \in Highest /\ SessionOK(t, r, s, l, o)
      /\ r.queue = tid[t].queue
  BY <1>2 DEF AllOK
<1>4. sender' = [sender EXCEPT ![t] = s2]
  BY DEF CloseBaSession, Caught
<1>5. /\ O2 \in [Tid -> Oddities] /\ \A v \in Tid : odd[v] \subseteq O2[v]
      /\ m = 0 \/ \A v \in Tid : "close" \in O2[v]
  <2> HIDE DEF q, m, s2, l2, pkts
  <2>1. CASE m = 0
    BY <2>1, <1>1, <1>2
  <2>2. CASE m # 0
    <3>1. odd' = [u \in Tid |-> odd[u] \cup {"close"}]
      BY <2>2, <1>1
    <3> QED BY <3>1, <1>2 DEF Oddities
  <2> QED BY <2>1, <2>2
<1> HIDE DEF r, s, l, o, O2
<1>6. /\ q \in Session /\ s2 \in Sender /\ l2 \in Highest
      /\ SessionOK(t, q, s2, l2, O2[t])
      /\ o \subseteq {"close"} => Ascending(l, pkts)
  <2>1. q = Emptied(r) /\ pkts = Packets(r, ArraySize) /\ s2 = Caught(s) /\ l2 = After(l, pkts)
    OBVIOUS
  <2>2. r.est
    BY <1>1
  <2> HIDE DEF q, s2, l2, pkts
  <2>3. /\ q \in Session /\ s2 \in Sender /\ After(l, pkts) \in Highest
        /\ SessionOK(t, q, s2, After(l, pkts), O2[t])
        /\ o \subseteq {"close"} => Ascending(l, pkts)
    BY <2>1, <2>2, <1>3, CloseOK
  <2> QED BY <2>1, <2>3
<1>7. ArraySize \in 0 .. ArraySize
  BY SizeFacts
<1>8. pkts \in Seq(Frame)
  BY <1>3, <1>7, PacketsFacts
<1>9. q.queue = Release(r, ArraySize).queue
  BY <1>3, AllReleased
<1> HIDE DEF q
<1>10. Counted([tid EXCEPT ![t] = q], m, odd) /\ m \in Nat
  BY <1>2, <1>3, <1>6, <1>7, <1>9, CountedPassed
<1> HIDE DEF m, s2, pkts
<1>11. Counted([tid EXCEPT ![t] = q], m, O2)
  <2>1. \A v \in Tid : odd[v] \cap {"window"} \subseteq O2[v]
    BY <1>5
  <2> QED BY <2>1, <1>10, CountedWeaker
<1>12. /\ passed' \in Report /\ passed'.tid = t /\ passed'.pkts = pkts
       /\ last' = [last EXCEPT ![t] = l2]
  BY <1>1, <1>2, <1>8, PassFacts DEF l
<1> HIDE DEF l2
<1>13. /\ AllOK(tid', sender', last', odd') /\ tid' \in [Tid -> Session]
       /\ sender' \in [Tid -> Sender] /\ last' \in [Tid -> Highest]
  <2>1. \A v \in Tid : v # t => odd[v] \subseteq O2[v]
    BY <1>5
  <2>2. /\ AllOK([tid EXCEPT ![t] = q], [sender EXCEPT ![t] = s2], [last EXCEPT ![t] = l2], O2)
        /\ [tid EXCEPT ![t] = q] \in [Tid -> Session]
        /\ [sender EXCEPT ![t] = s2] \in [Tid -> Sender]
        /\ [last EXCEPT ![t] = l2] \in [Tid -> Highest]
    BY <2>1, <1>2, <1>5, <1>6, AllStep
  <2> QED BY <2>2, <1>1, <1>4, <1>12 DEF O2
<1>14. /\ bPacketMiss' = FALSE /\ timerOn' \in BOOLEAN /\ aFrameTid' \in Tid
  BY <1>1, <1>2 DEF StopTimer, StillOn
<1>15. Guarded(tid', bPacketMiss', timerOn', expiry', spinning', odd')
  <2> DEFINE S == [tid EXCEPT ![t] = q]
  <2>1. CASE m = 0
    <3>1. m <= 0 /\ m \in Int /\ Cardinality(Cells(S)) <= m
      BY <2>1, <1>10 DEF Counted
    <3> HIDE DEF S
    <3>2. \A v \in Tid, i \in Slot : S[v].queue[i] = NoPacket
      BY <3>1, NoCells
    <3> QED BY <3>2, <1>1, <1>14 DEF S, Guarded
  <2>2. CASE m # 0
    <3>1. \A v \in Tid : "close" \in odd'[v]
      BY <2>2, <1>5 DEF O2
    <3> QED BY <3>1, <1>14 DEF Guarded
  <2> QED BY <2>1, <2>2
<1>16. Counted(tid', aPacketsStored', odd') /\ odd' \in [Tid -> Oddities]
  BY <1>1, <1>5, <1>11 DEF O2
<1>17. RxQueueInv'
  BY <1>1, <1>2, <1>10, <1>12, <1>13, <1>14, <1>15, <1>16, Kept
<1>18. Delivered
  <2>1. odd'[t] \subseteq {"close"} => Ascending(last[t], pkts)
    BY <1>5, <1>6 DEF O2, o, l
  <2> QED BY <2>1, <1>12 DEF Delivered
<1> QED BY <1>17, <1>18

\* The timer expires: its expiry guards the packets from now on.
LEMMA TimerExpiresStep ==
  ASSUME RxQueueInv, TimerExpires
  PROVE  RxQueueInv' /\ Delivered
<1>1. /\ tid \in [Tid -> Session] /\ sender \in [Tid -> Sender]
      /\ last \in [Tid -> Highest] /\ odd \in [Tid -> Oddities]
      /\ aPacketsStored \in Nat /\ AllOK(tid, sender, last, odd)
      /\ Counted(tid, aPacketsStored, odd)
      /\ spinning \in BOOLEAN /\ aFrameTid \in Tid /\ bPacketMiss \in BOOLEAN
      /\ Guarded(tid, bPacketMiss, timerOn, expiry, spinning, odd)
  BY RxQueueTyped
<1>2. /\ timerOn /\ timerOn' = FALSE /\ expiry' = TRUE /\ passed' = NothingPassed(aFrameTid)
      /\ tid' = tid /\ aPacketsStored' = aPacketsStored /\ bPacketMiss' = bPacketMiss
      /\ aFrameTid' = aFrameTid /\ spinning' = spinning /\ sender' = sender
      /\ last' = last /\ odd' = odd
  BY DEF TimerExpires
<1>3. passed' \in Report /\ passed'.pkts = <<>>
  BY <1>1, <1>2 DEF NothingPassed, Report
<1>4. Guarded(tid', bPacketMiss', timerOn', expiry', spinning', odd')
  BY <1>1, <1>2 DEF Guarded
<1>5. RxQueueInv'
  BY <1>1, <1>2, <1>3, <1>4, Kept
<1>6. Delivered
  BY <1>3 DEF Delivered, Ascending
<1> QED BY <1>5, <1>6

\* The first slot in use, if there is one.
LEMMA FirstFacts ==
  ASSUME NEW r \in Session,
         NEW first, first = Min({ArraySize} \cup {k \in Slot : Stored(r, k)})
  PROVE  /\ first \in 0 .. ArraySize
         /\ first < ArraySize => first \in Slot /\ Stored(r, first)
         /\ \A j \in 0 .. first - 1 : ~ Stored(r, j)
<1> DEFINE S == {ArraySize} \cup {k \in Slot : Stored(r, k)}
<1>1. S \in SUBSET Nat /\ S # {} /\ ArraySize \in S /\ ArraySize \in Nat
  BY SizeFacts DEF Slot
<1>2. \A k \in Slot : Stored(r, k) => k \in S
  OBVIOUS
<1>3. \A k \in S : k = ArraySize \/ (k \in Slot /\ Stored(r, k))
  OBVIOUS
<1>4. first = Min(S)
  OBVIOUS
<1> HIDE DEF S
<1>5. first \in S /\ \A x \in S : first <= x
  <2>1. Min(S) \in S /\ \A x \in S : Min(S) <= x
    BY <1>1, MinFacts
  <2> QED BY <2>1, <1>4
<1>6. first \in Nat /\ first <= ArraySize
  BY <1>1, <1>5
<1>7. ASSUME NEW j \in 0 .. first - 1, Stored(r, j) PROVE FALSE
  <2>1. j \in Slot /\ j < first /\ j \in Nat
    BY <1>1, <1>6 DEF Slot
  <2> QED BY <2>1, <1>2, <1>5, <1>6, <1>7
<1> QED BY <1>1, <1>3, <1>5, <1>6, <1>7

LEMMA TimeOutStep ==
  ASSUME RxQueueInv, PacketTimeOut
  PROVE  RxQueueInv' /\ Delivered
<1> DEFINE t == aFrameTid
           s == sender[t]
           r == tid[t]
           l == last[t]
           o == odd[t]
           first == Min({ArraySize} \cup {k \in Slot : Stored(r, k)})
           z == Skip(r, first)
           k == RunLength(z)
           q == Release(z, k)
           pkts == Packets(z, k)
           m == aPacketsStored - k
           l2 == After(l, pkts)
           O2 == odd'
<1>1. /\ tid \in [Tid -> Session] /\ sender \in [Tid -> Sender]
      /\ last \in [Tid -> Highest] /\ odd \in [Tid -> Oddities]
      /\ aPacketsStored \in Nat /\ AllOK(tid, sender, last, odd)
      /\ Counted(tid, aPacketsStored, odd)
      /\ expiry \in BOOLEAN /\ spinning \in BOOLEAN
      /\ t \in Tid /\ bPacketMiss \in BOOLEAN /\ timerOn \in BOOLEAN
  BY RxQueueTyped
<1>2. expiry' = FALSE /\ sender' = sender
  BY DEF PacketTimeOut
<1>3. \/ /\ aPacketsStored = 0 /\ bPacketMiss' = FALSE /\ Pass(t, <<>>)
         /\ tid' = tid /\ aPacketsStored' = aPacketsStored /\ aFrameTid' = aFrameTid
         /\ timerOn' = timerOn /\ spinning' = spinning /\ odd' = odd
      \/ /\ spinning' = TRUE /\ bPacketMiss' = FALSE /\ Pass(t, <<>>)
         /\ tid' = tid /\ aPacketsStored' = aPacketsStored /\ aFrameTid' = aFrameTid
         /\ timerOn' = timerOn /\ odd' = odd
      \/ /\ first < ArraySize /\ tid' = [tid EXCEPT ![t] = q] /\ Pass(t, pkts)
         /\ odd' = Marked(t, "timeout") /\ aPacketsStored' = m
         /\ bPacketMiss' = (m > 0) /\ timerOn' = (timerOn \/ m > 0)
         /\ aFrameTid' = aFrameTid /\ spinning' = spinning
  BY DEF PacketTimeOut, StoredWithout
<1>4. CASE /\ aPacketsStored = 0 /\ bPacketMiss' = FALSE /\ Pass(t, <<>>)
           /\ tid' = tid /\ aPacketsStored' = aPacketsStored /\ aFrameTid' = aFrameTid
           /\ timerOn' = timerOn /\ spinning' = spinning /\ odd' = odd
  <2>1. passed' \in Report /\ last' = last /\ Delivered
    BY <1>1, <1>4, PassNothing
  <2>2. \A u \in Tid, i \in Slot : tid[u].queue[i] = NoPacket
    <3>1. aPacketsStored <= 0 /\ aPacketsStored \in Int
          /\ Cardinality(Cells(tid)) <= aPacketsStored
      BY <1>1, <1>4 DEF Counted
    <3> QED BY <3>1, NoCells
  <2>3. Guarded(tid', bPacketMiss', timerOn', expiry', spinning', odd')
    BY <2>2, <1>4 DEF Guarded
  <2>4. RxQueueInv'
    BY <2>1, <2>3, <1>1, <1>2, <1>4, Kept
  <2> QED BY <2>1, <2>4
<1>5. CASE /\ spinning' = TRUE /\ bPacketMiss' = FALSE /\ Pass(t, <<>>)
           /\ tid' = tid /\ aPacketsStored' = aPacketsStored /\ aFrameTid' = aFrameTid
           /\ timerOn' = timerOn /\ odd' = odd
  <2>1. passed' \in Report /\ last' = last /\ Delivered
    BY <1>1, <1>5, PassNothing
  <2>2. Guarded(tid', bPacketMiss', timerOn', expiry', spinning', odd')
    BY <1>5 DEF Guarded
  <2>3. RxQueueInv'
    BY <2>1, <2>2, <1>1, <1>2, <1>5, Kept
  <2> QED BY <2>1, <2>3
<1>6. CASE /\ first < ArraySize /\ tid' = [tid EXCEPT ![t] = q] /\ Pass(t, pkts)
           /\ odd' = Marked(t, "timeout") /\ aPacketsStored' = m
           /\ bPacketMiss' = (m > 0) /\ timerOn' = (timerOn \/ m > 0)
           /\ aFrameTid' = aFrameTid /\ spinning' = spinning
  <2>1. /\ r \in Session /\ s \in Sender /\ l \in Highest /\ SessionOK(t, r, s, l, o)
        /\ r.queue = tid[t].queue /\ [sender EXCEPT ![t] = s] = sender
    BY <1>1 DEF AllOK
  <2>2. /\ O2 \in [Tid -> Oddities] /\ \A v \in Tid : odd[v] \subseteq O2[v]
        /\ o \subseteq O2[t] /\ "timeout" \in O2[t]
    <3>1. odd' = [odd EXCEPT ![t] = odd[t] \cup {"timeout"}]
      BY <1>6 DEF Marked
    <3> QED BY <3>1, <1>1 DEF Oddities
  <2>3. first = Min({ArraySize} \cup {j \in Slot : Stored(r, j)})
    OBVIOUS
  <2> HIDE DEF t, s, r, l, o, O2, first
  <2>4. /\ first \in 0 .. ArraySize /\ first \in Slot /\ Stored(r, first)
        /\ \A j \in 0 .. first - 1 : ~ Stored(r, j)
    BY <2>1, <2>3, <1>6, FirstFacts
  <2>5. r.est
    BY <2>1, <2>4, EmptyOK DEF SessionOK, Bounded
  <2>6. z = Skip(r, first) /\ k = RunLength(z) /\ q = Release(z, k) /\ pkts = Packets(z, k)
    OBVIOUS
  <2>7. z \in Session /\ z.queue = r.queue
    BY <2>1, <2>4, SkipFacts
  <2> HIDE DEF z
  <2>8. k \in 0 .. ArraySize /\ Len(Packets(z, k)) = k
    BY <2>7, RunLengthFacts, RunPackets
  <2> HIDE DEF k
  <2>9. pkts \in Seq(Frame)
    BY <2>7, <2>8, PacketsFacts
  <2> HIDE DEF q, pkts, l2
  <2>10. /\ q \in Session /\ After(l, pkts) \in Highest
         /\ SessionOK(t, q, s, After(l, pkts), O2[t])
    BY <2>1, <2>2, <2>4, <2>5, <2>6, <1>1, TimeOutOK
  <2>11. l2 \in Highest /\ SessionOK(t, q, s, l2, O2[t])
    BY <2>10 DEF l2
  <2>12. Counted([tid EXCEPT ![t] = q], m, odd) /\ m \in Nat
    <3>1. z.queue = tid[t].queue
      BY <2>1, <2>7
    <3>2. /\ Counted([tid EXCEPT ![t] = Release(z, k)], aPacketsStored - Len(Packets(z, k)), odd)
          /\ aPacketsStored - Len(Packets(z, k)) \in Nat
      BY <3>1, <2>7, <2>8, <1>1, CountedReleased
    <3> QED BY <3>2, <2>6, <2>8
  <2> HIDE DEF m
  <2>13. Counted([tid EXCEPT ![t] = q], m, O2)
    <3>1. \A v \in Tid : odd[v] \cap {"window"} \subseteq O2[v]
      BY <2>2
    <3> QED BY <3>1, <2>12, CountedWeaker
  <2>14. /\ passed' \in Report /\ passed'.tid = t /\ last' = [last EXCEPT ![t] = l2]
    BY <1>1, <1>6, <2>9, PassFacts DEF l, l2
  <2>15. /\ AllOK(tid', sender', last', odd') /\ tid' \in [Tid -> Session]
         /\ last' \in [Tid -> Highest]
    <3>1. \A v \in Tid : v # t => odd[v] \subseteq O2[v]
      BY <2>2
    <3>2. /\ AllOK([tid EXCEPT ![t] = q], [sender EXCEPT ![t] = s], [last EXCEPT ![t] = l2], O2)
          /\ [tid EXCEPT ![t] = q] \in [Tid -> Session]
          /\ [last EXCEPT ![t] = l2] \in [Tid -> Highest]
      BY <3>1, <1>1, <2>1, <2>2, <2>10, <2>11, AllStep
    <3> QED BY <3>2, <1>2, <1>6, <2>1, <2>14 DEF O2
  <2>16. Guarded(tid', bPacketMiss', timerOn', expiry', spinning', odd')
    <3> DEFINE S == [tid EXCEPT ![t] = q]
               on == timerOn'
    <3>1. Cardinality(Cells(S)) <= m
      BY <2>13 DEF Counted
    <3>2. m > 0 => on
      BY <1>6
    <3> HIDE DEF S, on
    <3>3. Guarded(S, m > 0, on, expiry', spinning', O2)
      BY <3>1, <3>2, <2>12, GuardedRestart
    <3> QED BY <3>3, <1>6 DEF S, on, O2
  <2>17. Counted(tid', aPacketsStored', odd') /\ odd' \in [Tid -> Oddities]
    BY <1>6, <2>2, <2>13 DEF O2
  <2>18. aPacketsStored' \in Nat /\ bPacketMiss' \in BOOLEAN /\ timerOn' \in BOOLEAN
         /\ aFrameTid' \in Tid
    <3>1. (m > 0) \in BOOLEAN /\ (timerOn \/ m > 0) \in BOOLEAN
      OBVIOUS
    <3>2. aFrameTid' = t
      BY <1>6 DEF t
    <3> QED BY <3>1, <3>2, <1>1, <1>6, <2>12
  <2>19. RxQueueInv'
    BY <1>1, <1>2, <1>6, <2>14, <2>15, <2>16, <2>17, <2>18, Kept
  <2>20. Delivered
    <3>1. ~ (odd'[t] \subseteq {"close"})
      BY <2>2 DEF O2
    <3> QED BY <3>1, <2>14 DEF Delivered
  <2> QED BY <2>19, <2>20
<1> QED BY <1>3, <1>4, <1>5, <1>6

------------------------------------------------------------------------------
(* The theorems.                                                           *)

\* The invariant holds initially.
LEMMA RxQueueInitInv == RxQueueInit => RxQueueInv
<1> SUFFICES ASSUME RxQueueInit PROVE RxQueueInv
  OBVIOUS
<1> DEFINE S == tid
<1>1. SomeTid \in Tid
  BY RxQueueAssumption DEF SomeTid
<1>2. /\ tid = [t \in Tid |-> Closed]
      /\ aPacketsStored = 0 /\ bPacketMiss = FALSE /\ aFrameTid = SomeTid
      /\ timerOn = FALSE /\ expiry = FALSE /\ spinning = FALSE
      /\ sender = [t \in Tid |-> [base |-> 0, rcvd |-> {}]]
      /\ passed = NothingPassed(SomeTid)
      /\ last = [t \in Tid |-> -1] /\ odd = [t \in Tid |-> {}]
  BY DEF RxQueueInit
<1>3. Closed \in Session /\ Closed.est = FALSE /\ \A i \in Slot : Closed.queue[i] = NoPacket
  <2> DEFINE a == [i \in Slot |-> NoPacket]
  <2>1. a \in [Slot -> Frame \cup {NoPacket}] /\ \A i \in Slot : a[i] = NoPacket
    OBVIOUS
  <2>2. Closed = [est |-> FALSE, win |-> 0, start |-> 0, expected |-> 0, queue |-> a]
    BY DEF Closed
  <2>3. 0 \in Slot /\ 0 \in Sn /\ 0 \in 0 .. ArraySize
    BY SizeFacts DEF Sn
  <2> HIDE DEF a
  <2> QED BY <2>1, <2>2, <2>3 DEF Session
<1>4. [base |-> 0, rcvd |-> {}] \in Sender /\ -1 \in Highest /\ {} \in Oddities
  BY DEF Sender, Highest, Oddities
<1>5. RxQueueTypeOK
  <2>1. /\ tid \in [Tid -> Session] /\ sender \in [Tid -> Sender]
        /\ last \in [Tid -> Highest] /\ odd \in [Tid -> Oddities]
    BY <1>2, <1>3, <1>4
  <2>2. passed \in Report
    BY <1>1, <1>2 DEF NothingPassed, Report
  <2> QED BY <2>1, <2>2, <1>1, <1>2
          DEF RxQueueTypeOK, Session, Sender, Highest, Oddities, Report
<1>6. AllOK(tid, sender, last, odd)
  <2> SUFFICES ASSUME NEW t \in Tid
               PROVE  SessionOK(t, Closed, [base |-> 0, rcvd |-> {}], -1, {})
    BY <1>2 DEF AllOK
  <2>1. Windowed(Closed, {}) /\ Placed(Closed, {})
    BY <1>3, EmptyOK
  <2>2. NoPacket < MaxSeq[t] /\ -1 < MaxSeq[t]
    BY BoundFacts DEF NoPacket
  <2> DEFINE s == [base |-> 0, rcvd |-> {}]
  <2>3. s.rcvd = {}
    OBVIOUS
  <2> HIDE DEF s
  <2>4. Bounded(t, Closed, s, -1)
    BY <2>2, <2>3, <1>3 DEF Bounded
  <2>5. Ordered(Closed, s, -1, {})
    BY <1>3 DEF Ordered
  <2> QED BY <2>1, <2>4, <2>5 DEF SessionOK, s
<1>7. \A t \in Tid, i \in Slot : tid[t].queue[i] = NoPacket
  BY <1>2, <1>3
<1>8. Counted(tid, aPacketsStored, odd)
  <2>1. Cells(tid) = {}
    BY <1>7 DEF Cells
  <2>2. Cardinality(Cells(tid)) = 0
    BY <2>1, FS_EmptySet
  <2> QED BY <2>2, <1>2 DEF Counted
<1>9. Guarded(tid, bPacketMiss, timerOn, expiry, spinning, odd)
  BY <1>2, <1>7 DEF Guarded
<1> QED BY <1>5, <1>6, <1>8, <1>9, InvParts DEF RxQueueInv

\* Every step keeps it and delivers in order.
LEMMA RxQueueNextInv == RxQueueInv /\ RxQueueNext => RxQueueInv' /\ Delivered
<1> SUFFICES ASSUME RxQueueInv, RxQueueNext PROVE RxQueueInv' /\ Delivered
  OBVIOUS
<1>1. ASSUME NEW t \in Tid, Receive(t) PROVE RxQueueInv' /\ Delivered
  <2>1. CASE ReceiveNoSession(t)
    BY <2>1, NoSessionStep
  <2>2. ASSUME NEW n \in Frame, ReceiveExpected(t, n) PROVE RxQueueInv' /\ Delivered
    BY <2>2, ExpectedStep
  <2>3. ASSUME NEW n \in Frame, ReceiveOld(t, n) PROVE RxQueueInv' /\ Delivered
    BY <2>3, OldStep
  <2>4. ASSUME NEW n \in Frame, ReceiveInWindow(t, n) PROVE RxQueueInv' /\ Delivered
    BY <2>4, InWindowStep
  <2>5. ASSUME NEW n \in Frame, ReceiveBeyond(t, n) PROVE RxQueueInv' /\ Delivered
    BY <2>5, BeyondStep
  <2>6. ASSUME NEW n \in Frame, GiveUp(t, n) PROVE RxQueueInv' /\ Delivered
    BY <2>6, GiveUpStep
  <2>7. ASSUME NEW n \in Frame, ReceiveBar(t, n) PROVE RxQueueInv' /\ Delivered
    BY <2>7, BarStep
  <2>8. ASSUME NEW asked \in WinSizes[t], ReceiveAddba(t, asked) PROVE RxQueueInv' /\ Delivered
    BY <2>8, AddbaStep
  <2>9. CASE CloseBaSession(t)
    BY <2>9, CloseStep
  <2> QED BY <1>1, <2>1, <2>2, <2>3, <2>4, <2>5, <2>6, <2>7, <2>8, <2>9 DEF Receive
<1>2. CASE TimerExpires
  BY <1>2, TimerExpiresStep
<1>3. CASE PacketTimeOut
  BY <1>3, TimeOutStep
<1> QED BY <1>1, <1>2, <1>3 DEF RxQueueNext

LEMMA StutterInv == RxQueueInv /\ UNCHANGED rxQueueVars => RxQueueInv'
<1> SUFFICES ASSUME RxQueueInv, UNCHANGED rxQueueVars PROVE RxQueueInv'
  OBVIOUS
<1>1. /\ tid' = tid /\ aPacketsStored' = aPacketsStored /\ bPacketMiss' = bPacketMiss
      /\ aFrameTid' = aFrameTid /\ timerOn' = timerOn /\ expiry' = expiry
      /\ spinning' = spinning /\ sender' = sender /\ passed' = passed
      /\ last' = last /\ odd' = odd
  BY DEF rxQueueVars, queueVars
<1>2. passed \in Report
  BY DEF RxQueueInv, RxQueueTypeOK, Report
<1> QED BY <1>1, <1>2, RxQueueTyped, Kept

LEMMA RxQueueInvariance == RxQueueSpec => []RxQueueInv
<1>1. RxQueueInit => RxQueueInv
  BY RxQueueInitInv
<1>2. RxQueueInv /\ [RxQueueNext]_rxQueueVars => RxQueueInv'
  BY RxQueueNextInv, StutterInv
<1> QED BY <1>1, <1>2, PTL DEF RxQueueSpec

\* The endless search: of an empty array, while packets are counted.
SearchOK ==
  spinning => aPacketsStored > 0 /\ \A i \in Slot : tid[aFrameTid].queue[i] = NoPacket

\* Only the time-out starts it, and nothing is received any more.
LEMMA SearchStep ==
  ASSUME RxQueueInv, SearchOK, [RxQueueNext]_rxQueueVars
  PROVE  SearchOK'
<1>1. /\ tid \in [Tid -> Session] /\ aFrameTid \in Tid /\ aPacketsStored \in Nat
      /\ spinning \in BOOLEAN
  BY RxQueueTyped
<1>2. ASSUME NEW t \in Tid, Receive(t) PROVE SearchOK'
  <2>1. ~ spinning
    BY <1>2 DEF Receive, ReceiveNoSession, ReceiveExpected, ReceiveOld, ReceiveInWindow,
                ReceiveBeyond, Arrives, GiveUp, ReceiveBar, ReceiveAddba, CloseBaSession, Running
  <2>2. spinning' = spinning
    BY <1>2 DEF Receive, ReceiveNoSession, ReceiveExpected, ReceiveOld, ReceiveInWindow,
                ReceiveBeyond, Arrives, GiveUp, ReceiveBar, ReceiveAddba, CloseBaSession, queueVars
  <2> QED BY <2>1, <2>2 DEF SearchOK
<1>3. CASE UNCHANGED <<tid, aPacketsStored, aFrameTid, spinning>>
  BY <1>3 DEF SearchOK
<1>4. CASE PacketTimeOut
  <2> DEFINE r == tid[aFrameTid]
             first == Min({ArraySize} \cup {k \in Slot : Stored(r, k)})
  <2>1. /\ ~ spinning
        /\ \/ spinning' = spinning
           \/ /\ aPacketsStored > 0 /\ first = ArraySize
              /\ UNCHANGED <<tid, aPacketsStored, aFrameTid>>
    BY <1>4 DEF PacketTimeOut, Running
  <2>2. r \in Session
    BY <1>1
  <2>3. first = Min({ArraySize} \cup {k \in Slot : Stored(r, k)})
    OBVIOUS
  <2>4. r = tid[aFrameTid]
    OBVIOUS
  <2> HIDE DEF r, first
  <2>5. ASSUME first = ArraySize, NEW i \in Slot PROVE r.queue[i] = NoPacket
    <3>1. \A j \in 0 .. ArraySize - 1 : ~ Stored(r, j)
      BY <2>2, <2>3, <2>5, FirstFacts
    <3>2. PICK j \in Slot : SlotAt(r, j) = i
      BY <2>2, SlotAtOnto
    <3> QED BY <3>1, <3>2 DEF Stored, Slot
  <2>6. CASE spinning' = spinning
    BY <2>1, <2>6 DEF SearchOK
  <2>7. CASE /\ aPacketsStored > 0 /\ first = ArraySize
             /\ UNCHANGED <<tid, aPacketsStored, aFrameTid>>
    BY <2>4, <2>5, <2>7 DEF SearchOK
  <2> QED BY <2>1, <2>6, <2>7
<1>5. TimerExpires \/ UNCHANGED rxQueueVars => UNCHANGED <<tid, aPacketsStored, aFrameTid, spinning>>
  BY DEF TimerExpires, rxQueueVars, queueVars
<1> QED BY <1>2, <1>3, <1>4, <1>5 DEF RxQueueNext

LEMMA SearchInvariance == RxQueueSpec => [](RxQueueInv /\ SearchOK)
<1>1. RxQueueInit => SearchOK
  BY DEF RxQueueInit, SearchOK
<1>2. RxQueueInv /\ SearchOK /\ [RxQueueNext]_rxQueueVars => SearchOK'
  BY SearchStep
<1> QED BY <1>1, <1>2, RxQueueInvariance, PTL DEF RxQueueSpec

\* What is counted and is not in the searched array is in another one.
LEMMA SearchOthers ==
  ASSUME RxQueueInv, SearchOK
  PROVE  SearchedForOthers
<1> SUFFICES ASSUME spinning, \A t \in Tid : "window" \notin odd[t]
             PROVE  StoredOf(aFrameTid) = {} /\ \E t \in Tid \ {aFrameTid} : StoredOf(t) # {}
  BY DEF SearchedForOthers
<1>1. /\ tid \in [Tid -> Session] /\ aFrameTid \in Tid /\ aPacketsStored \in Nat
      /\ Counted(tid, aPacketsStored, odd)
  BY RxQueueTyped
<1>2. aPacketsStored > 0 /\ \A i \in Slot : tid[aFrameTid].queue[i] = NoPacket
  BY DEF SearchOK
<1>3. ASSUME NEW t \in Tid PROVE StoredOf(t) # {} <=> \E i \in Slot : tid[t].queue[i] # NoPacket
  <2>1. tid[t].queue \in [Slot -> Frame \cup {NoPacket}]
    BY <1>1 DEF Session
  <2>2. Range(tid[t].queue) = {tid[t].queue[i] : i \in Slot}
    BY <2>1 DEF Range
  <2> QED BY <2>2 DEF StoredOf
<1>4. PICK t \in Tid, i \in Slot : tid[t].queue[i] # NoPacket
  <2>1. Cardinality(Cells(tid)) = aPacketsStored
    BY <1>1 DEF Counted
  <2>2. Cells(tid) # {}
    <3> SUFFICES ASSUME Cells(tid) = {} PROVE FALSE
      OBVIOUS
    <3>1. Cardinality(Cells(tid)) = 0
      BY FS_EmptySet
    <3> QED BY <3>1, <2>1, <1>1, <1>2
  <2> QED BY <2>2 DEF Cells
<1>5. t # aFrameTid
  BY <1>2, <1>4
<1>6. StoredOf(aFrameTid) = {}
  BY <1>1, <1>2, <1>3
<1>7. StoredOf(t) # {}
  BY <1>3, <1>4
<1> QED BY <1>5, <1>6, <1>7

\* What is placed by its number is in the slot that the number gives it.
LEMMA InvConsistent == RxQueueInv /\ SearchOK => StoreConsistent
<1> SUFFICES ASSUME RxQueueInv, SearchOK PROVE StoreConsistent
  OBVIOUS
<1>1. SlotsInOrder
  <2> SUFFICES ASSUME NEW t \in Tid, odd[t] \cap {"window", "bar"} = {},
                      NEW k \in Slot, Stored(tid[t], k)
               PROVE  SnOf(tid[t].queue[SlotAt(tid[t], k)]) = (tid[t].expected + k) % SnMod
    BY DEF SlotsInOrder
  <2>1. Placed(tid[t], odd[t])
    BY RxQueueTyped DEF AllOK, SessionOK
  <2> QED BY <2>1 DEF Placed, View
<1> QED BY <1>1, SearchOthers DEF RxQueueInv, StoredCountOK, StoreConsistent

\* RxQueue_ReceivePacket and RxQueue_PacketTimeOut: every stored packet is in the slot
\* that its sequence number gives it, the packets of all identifiers are counted, and
\* only another identifier's packets make the search of the time-out endless, for any
\* array, window sizes and first sequence number.
THEOREM RxQueueConsistent == RxQueueSpec => []StoreConsistent
<1>1. RxQueueInv /\ SearchOK => StoreConsistent
  BY InvConsistent
<1> QED BY <1>1, SearchInvariance, PTL

\* The one timer of all identifiers guards every stored packet, whichever identifier
\* tmr_StartTimer was called for, but for the two cases that the property excepts.
THEOREM RxQueueGuarded == RxQueueSpec => []TimerGuardsStored
<1>1. RxQueueInv => TimerGuardsStored
  BY DEF RxQueueInv, TimerOK
<1> QED BY <1>1, RxQueueInvariance, PTL

\* What RxQueue_PassPacket passes up of an undisturbed session is in the order in which
\* it was sent, without a copy.
THEOREM RxQueueInOrder == RxQueueSpec => DeliveredInOrder
<1>1. RxQueueInv /\ [RxQueueNext]_rxQueueVars => [PassedInOrder]_rxQueueVars
  <2>1. Delivered => PassedInOrder
    BY DEF Delivered, PassedInOrder, Ascending
  <2> QED BY <2>1, RxQueueNextInv
<1> QED BY <1>1, RxQueueInvariance, PTL DEF RxQueueSpec, DeliveredInOrder
==============================================================================

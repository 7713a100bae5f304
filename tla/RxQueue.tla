-------------------------------- MODULE RxQueue --------------------------------
(***************************************************************************)
(* Receive reordering of block-ack sessions (TWD/Data_Service/RxQueue.c).  *)
(*                                                                         *)
(* The sender numbers its packets 0, 1, 2, ... and the frames carry a      *)
(* sequence number (SnOf); a packet pointer is modelled by the number.     *)
(* The sender keeps a window of packets that it may send in any order, and *)
(* gives packets up, with or without a BAR frame that arrives.             *)
(***************************************************************************)
EXTENDS Integers, Sequences, FiniteSets, FiniteSetsExt, Functions

CONSTANTS
  Tid,        \* traffic identifiers in use
  SnMod,      \* SEQ_NUM_WRAP
  ArraySize,  \* RX_QUEUE_ARRAY_SIZE
  WinSizes,   \* per identifier: window sizes that ADDBA frames ask for, 0 for any
  FirstSn,    \* the sequence number of the first packet
  MaxSeq      \* bound: packets of each traffic identifier

ASSUME RxQueueAssumption ==
  /\ Tid # {} /\ IsFiniteSet(Tid)
  /\ SnMod \in Nat \ {0} /\ ArraySize \in Nat \ {0} /\ 2 * ArraySize < SnMod \div 2 - 2
  /\ WinSizes \in [Tid -> SUBSET Nat] /\ FirstSn \in 0 .. SnMod - 1
  /\ MaxSeq \in [Tid -> Nat]

Slot == 0 .. ArraySize - 1
Sn == 0 .. SnMod - 1
NoPacket == -1
Frame == UNION {0 .. MaxSeq[t] - 1 : t \in Tid}

\* The sequence number of packet n.
SnOf(n) == (FirstSn + n) % SnMod

VARIABLES
  tid,             \* tSa1ArrayMng: the data base of every traffic identifier
  aPacketsStored, bPacketMiss, aFrameTid,  \* tPacketTimeout, one for all
  timerOn, expiry, \* the timer runs; its expiry waits to be handled
  spinning,        \* RxQueue_PacketTimeOut searches without end
  sender,          \* per identifier: oldest packet not given up or received, and those received
  passed,          \* what the last step passed up: identifier, packets, all right or not
  last,            \* per session: the highest packet passed up
  odd              \* history, per identifier: what has disturbed it (see the properties)

queueVars == <<tid, aPacketsStored, bPacketMiss, aFrameTid, timerOn, expiry, spinning>>
rxQueueVars == <<queueVars, sender, passed, last, odd>>

RxQueueTypeOK ==
  /\ tid \in [Tid -> [est : BOOLEAN, win : 0 .. ArraySize, start : Slot, expected : Sn,
                      queue : [Slot -> Frame \cup {NoPacket}]]]
  /\ aPacketsStored \in Nat
  /\ bPacketMiss \in BOOLEAN /\ aFrameTid \in Tid
  /\ timerOn \in BOOLEAN /\ expiry \in BOOLEAN /\ spinning \in BOOLEAN
  /\ sender \in [Tid -> [base : Nat, rcvd : SUBSET Frame]]
  /\ passed \in [tid : Tid, pkts : Seq(Frame), ok : BOOLEAN]
  /\ last \in [Tid -> {-1} \cup Frame]
  /\ odd \in [Tid -> SUBSET {"timeout", "window", "bar", "close"}]

Closed == [est |-> FALSE, win |-> 0, start |-> 0, expected |-> 0, queue |-> [i \in Slot |-> NoPacket]]

NothingPassed(t) == [tid |-> t, pkts |-> <<>>, ok |-> TRUE]

SomeTid == CHOOSE t \in Tid : TRUE

RxQueueInit ==
  /\ tid = [t \in Tid |-> Closed]
  /\ aPacketsStored = 0 /\ bPacketMiss = FALSE /\ aFrameTid = SomeTid
  /\ timerOn = FALSE /\ expiry = FALSE /\ spinning = FALSE
  /\ sender = [t \in Tid |-> [base |-> 0, rcvd |-> {}]]
  /\ passed = NothingPassed(SomeTid)
  /\ last = [t \in Tid |-> -1] /\ odd = [t \in Tid |-> {}]

------------------------------------------------------------------------------
(* Sequence numbers and the packet array of one identifier r.              *)

Dist(a, b) == (a - b) % SnMod

\* Mutant: the wrap-around of the numbers is forgotten.
BiggerNumber(a, b) == a > b

\* BA_SESSION_IS_A_BIGGER_THAN_B: b need not be masked, and is compared as it is.
Bigger(a, b) == Dist(a, b) < SnMod \div 2 - 1 /\ a # b

\* The slot k behind the start of the window.
SlotAt(r, k) == (r.start + k) % ArraySize

Stored(r, k) == r.queue[SlotAt(r, k)] # NoPacket

\* The first k slots are left behind ...
Skip(r, k) == [r EXCEPT !.start = SlotAt(r, k), !.expected = (@ + k) % SnMod]

\* ... and emptied.
Release(r, k) ==
  [Skip(r, k) EXCEPT !.queue = [i \in Slot |-> IF \E j \in 0 .. k - 1 : i = SlotAt(r, j)
                                               THEN NoPacket ELSE r.queue[i]]]

\* Mutant: packets that are passed up are still counted.
StillCounted(k) == aPacketsStored

StoredWithout(k) == aPacketsStored - k

\* Of the first k slots, those that hold a packet.
StoredSlots(r, k) == {j \in 0 .. k - 1 : Stored(r, j)}

\* The i-th number of set S.
Nth(S, i) == CHOOSE m \in S : Cardinality({x \in S : x <= m}) = i

\* The packets in the first k slots (SelectSeq, without recursion).
Packets(r, k) ==
  LET S == StoredSlots(r, k)
  IN [i \in 1 .. Cardinality(S) |-> r.queue[SlotAt(r, Nth(S, i))]]

\* Slots from the start of the window that hold packets without a gap.
RunLength(r) == Min({k \in 0 .. ArraySize : k = ArraySize \/ ~Stored(r, k)})

Save(r, sn, p) == [r EXCEPT !.queue = [@ EXCEPT ![SlotAt(r, Dist(sn, r.expected))] = p]]

------------------------------------------------------------------------------
(* The timer, passing packets up.                                          *)

\* The timer is only stopped when bPacketMiss says that it runs.
StillOn == timerOn /\ ~bPacketMiss

\* Mutant: the timer is not started again.
TimerNotStarted(t, n) == bPacketMiss' = FALSE /\ timerOn' = StillOn /\ UNCHANGED aFrameTid

\* The timer is stopped, if it was started, and started again when packets are
\* stored, of whatever identifier; n is their number.
RestartTimer(t, n) ==
  /\ bPacketMiss' = (n > 0)
  /\ timerOn' = (n > 0 \/ StillOn)
  /\ aFrameTid' = IF n > 0 THEN t ELSE aFrameTid

StopTimer == bPacketMiss' = FALSE /\ timerOn' = StillOn /\ UNCHANGED aFrameTid

KeepTimer == UNCHANGED <<bPacketMiss, timerOn, aFrameTid>>

\* RxQueue_PassPacket for packets of identifier t.
Pass(t, pkts) ==
  /\ passed' = [tid |-> t, pkts |-> pkts, ok |-> TRUE]
  /\ last' = [last EXCEPT ![t] = IF pkts = <<>> THEN @ ELSE Max({@} \cup Range(pkts))]

Discard(t, p) ==
  /\ passed' = [tid |-> t, pkts |-> <<p>>, ok |-> FALSE]
  /\ UNCHANGED last

------------------------------------------------------------------------------
(* The sender.                                                             *)

\* Where the sender's window starts once packets s and rcvd are done with.
NewBase(s, rcvd) == Min({n \in s .. s + Cardinality(rcvd) : n \notin rcvd})

SenderMoves(t, s, rcvd) ==
  sender' = [sender EXCEPT ![t] = [base |-> NewBase(s, rcvd),
                                   rcvd |-> {n \in rcvd : n > NewBase(s, rcvd)}]]

Running == ~spinning

\* The sender's window: the size that the firmware answers the ADDBA frame with.  A
\* sender that asks for 0 leaves the size to the receiver.
SendersWindow(r) == IF r.win = 0 THEN ArraySize ELSE r.win

\* Bound: giving packets up, the sender stays within a quarter of the numbers of what
\* the receiver expects.
NearExpected(t, s) ==
  LET gap == SnMod \div 4
  IN Dist(SnOf(s), tid[t].expected) <= gap \/ Dist(tid[t].expected, SnOf(s)) <= gap

\* Packets that may arrive in a session: one not received, or a copy of one that is
\* still stored.
MayArrive(t) ==
  {n \in sender[t].base .. sender[t].base + SendersWindow(tid[t]) - 1 :
     n < MaxSeq[t] /\ (n \notin sender[t].rcvd \/ \E i \in Slot : tid[t].queue[i] = n)}

Arrives(t, n) ==
  /\ Running /\ tid[t].est
  /\ n \in MayArrive(t)
  /\ SenderMoves(t, sender[t].base, sender[t].rcvd \cup {n})
  /\ UNCHANGED <<expiry, spinning>>

Marked(t, what) == [odd EXCEPT ![t] = @ \cup {what}]

------------------------------------------------------------------------------
(* RxQueue_ReceivePacket, one action per part of it.                       *)

\* Without a session the packet is passed up.
ReceiveNoSession(t) ==
  /\ Running /\ ~tid[t].est
  /\ sender[t].base < MaxSeq[t]
  /\ SenderMoves(t, sender[t].base, {sender[t].base})
  /\ passed' = [tid |-> t, pkts |-> <<sender[t].base>>, ok |-> TRUE]
  /\ UNCHANGED <<queueVars, last, odd>>

WinEnd(r) == r.expected + r.win - 1

\* Part 1: the expected packet, and the stored ones that follow it.
ReceiveExpected(t, n) ==
  /\ Arrives(t, n)
  /\ SnOf(n) = tid[t].expected
  /\ LET r == Skip(tid[t], 1)
         k == RunLength(r)
     IN /\ tid' = [tid EXCEPT ![t] = Release(r, k)]
        /\ Pass(t, <<n>> \o Packets(r, k))
        /\ aPacketsStored' = StoredWithout(k)
        /\ RestartTimer(t, StoredWithout(k))
  /\ UNCHANGED odd

\* A packet before the window is passed up.
ReceiveOld(t, n) ==
  /\ Arrives(t, n)
  /\ SnOf(n) # tid[t].expected
  /\ ~Bigger(SnOf(n), tid[t].expected)
  /\ Pass(t, <<n>>)
  /\ KeepTimer
  /\ UNCHANGED <<tid, aPacketsStored, odd>>

\* Part 2: a packet of the window is stored; a copy of a stored one is discarded.
ReceiveInWindow(t, n) ==
  LET r == tid[t]
  IN /\ Arrives(t, n)
     /\ Bigger(SnOf(n), r.expected) /\ ~Bigger(SnOf(n), WinEnd(r))
     /\ \/ /\ Stored(r, Dist(SnOf(n), r.expected))
           /\ Discard(t, n)
           /\ KeepTimer
           /\ UNCHANGED <<tid, aPacketsStored>>
        \/ /\ ~Stored(r, Dist(SnOf(n), r.expected))
           /\ tid' = [tid EXCEPT ![t] = Save(r, SnOf(n), n)]
           /\ aPacketsStored' = aPacketsStored + 1
           /\ Pass(t, <<>>)
           /\ IF bPacketMiss THEN KeepTimer ELSE RestartTimer(t, 1)
     /\ UNCHANGED odd

\* How far the loop of part 3 moves the window, whose first slot is already skipped.
SlideBy(r, newStart) ==
  IF Bigger(newStart, r.expected) THEN Min({Dist(newStart, r.expected), ArraySize, r.win}) ELSE 0

\* Part 3: a packet beyond the window moves it, so that it ends with the packet; a
\* window of 0 is moved past it, and the packet stored before its start.
ReceiveBeyond(t, n) ==
  LET sn       == SnOf(n)
      newStart == (sn - tid[t].win + 1) % SnMod
      r        == Skip(tid[t], 1)
      k        == SlideBy(r, newStart)
      moved    == Release(r, k)
      more     == IF k = r.win THEN 0 ELSE RunLength(moved)
      settled  == IF k = r.win THEN [moved EXCEPT !.expected = newStart] ELSE Release(moved, more)
      out      == Packets(r, k) \o Packets(moved, more)
      isNext   == settled.expected = sn
      stored   == StoredWithout(Len(out)) + (IF isNext THEN 0 ELSE 1)
  IN /\ Arrives(t, n)
     /\ Bigger(sn, tid[t].expected) /\ Bigger(sn, WinEnd(tid[t]))
     /\ tid' = [tid EXCEPT ![t] = IF isNext THEN [settled EXCEPT !.expected = (sn + 1) % SnMod]
                                  ELSE Save(settled, sn, n)]
     /\ Pass(t, IF isNext THEN Append(out, n) ELSE out)
     /\ aPacketsStored' = stored
     /\ RestartTimer(t, stored)
     /\ odd' = IF sn = WinEnd(tid[t]) % SnMod \/ tid[t].win = 0 THEN Marked(t, "window") ELSE odd

\* The sender gives up what is before s, and no BAR arrives.
GiveUp(t, s) ==
  /\ Running /\ tid[t].est
  /\ s \in sender[t].base + 1 .. sender[t].base + SendersWindow(tid[t])
  /\ s < MaxSeq[t] /\ NearExpected(t, s)
  /\ SenderMoves(t, s, sender[t].rcvd)
  /\ Pass(t, <<>>)
  /\ UNCHANGED <<queueVars, odd>>

\* uWinStartDelta is not masked: 16 bits.
WinStartDelta(ssn, r) == (ssn - r.expected) % 65536

\* Slots that the loop for a BAR frame leaves behind.
BarLoop(r, delta) == Min({k \in 0 .. ArraySize : k = ArraySize \/ (k >= delta /\ ~Stored(r, k))})

\* Part 4: a BAR frame that starts at s.
ReceiveBar(t, s) ==
  LET ssn == SnOf(s)
      r   == tid[t]
      k   == BarLoop(r, WinStartDelta(ssn, r))
      n   == StoredWithout(Len(Packets(r, k)))
  IN /\ Running /\ r.est
     /\ s \in sender[t].base + 1 .. sender[t].base + SendersWindow(r)
     /\ s < MaxSeq[t] /\ NearExpected(t, s)
     /\ SenderMoves(t, s, sender[t].rcvd)
     /\ \/ /\ Bigger(ssn, r.expected)
           /\ tid' = [tid EXCEPT ![t] = [Release(r, k) EXCEPT !.expected = ssn]]
           /\ Pass(t, Packets(r, k))
           /\ aPacketsStored' = n
           /\ RestartTimer(t, n)
           /\ odd' = IF k = Dist(ssn, r.expected) THEN odd ELSE Marked(t, "bar")
        \/ /\ ~Bigger(ssn, r.expected)
           /\ Pass(t, <<>>)
           /\ KeepTimer
           /\ UNCHANGED <<tid, aPacketsStored, odd>>
     /\ UNCHANGED <<expiry, spinning>>

\* Only what is above RX_QUEUE_WIN_SIZE is cut: 0 is taken as it comes.
WinSize(asked) == Min({asked, ArraySize})

\* Part 5: an ADDBA frame opens a session that starts with the sender's next packet.
ReceiveAddba(t, asked) ==
  /\ Running /\ ~tid[t].est
  /\ tid' = [tid EXCEPT ![t] = [Closed EXCEPT !.est = TRUE, !.win = WinSize(asked),
                                              !.expected = SnOf(sender[t].base)]]
  /\ passed' = NothingPassed(t)
  /\ last' = [last EXCEPT ![t] = -1] /\ odd' = [odd EXCEPT ![t] = @ \cap {"window"}]
  /\ KeepTimer
  /\ UNCHANGED <<aPacketsStored, expiry, spinning, sender>>

\* RxQueue_CloseBaSession, for a DELBA frame or for recovery: everything stored is
\* passed up.  What the sender had outstanding is given up.
CloseBaSession(t) ==
  LET r == tid[t]
  IN /\ Running /\ r.est
     /\ tid' = [tid EXCEPT ![t] = [r EXCEPT !.est = FALSE, !.queue = Closed.queue]]
     /\ Pass(t, Packets(r, ArraySize))
     /\ aPacketsStored' = StoredWithout(Len(Packets(r, ArraySize)))
     /\ sender' = [sender EXCEPT ![t] = [base |-> Max({@.base} \cup {n + 1 : n \in @.rcvd}),
                                         rcvd |-> {}]]
     /\ StopTimer
     /\ odd' = IF aPacketsStored' = 0 THEN odd ELSE [u \in Tid |-> odd[u] \cup {"close"}]
     /\ UNCHANGED <<expiry, spinning>>

------------------------------------------------------------------------------
(* The time-out.                                                           *)

TimerExpires ==
  /\ timerOn /\ timerOn' = FALSE /\ expiry' = TRUE
  /\ passed' = NothingPassed(aFrameTid)
  /\ UNCHANGED <<tid, aPacketsStored, bPacketMiss, aFrameTid, spinning, sender, last, odd>>

\* RxQueue_PacketTimeOut: the first stored packet of the identifier, and those that
\* follow it; without one the search does not end.
PacketTimeOut ==
  LET t     == aFrameTid
      first == Min({ArraySize} \cup {k \in Slot : Stored(tid[t], k)})
      r     == Skip(tid[t], first)
      k     == RunLength(r)
      n     == StoredWithout(k)
  IN /\ Running /\ expiry /\ expiry' = FALSE
     /\ \/ /\ aPacketsStored = 0
           /\ bPacketMiss' = FALSE
           /\ Pass(t, <<>>)
           /\ UNCHANGED <<tid, aPacketsStored, aFrameTid, timerOn, spinning, odd>>
        \/ /\ aPacketsStored > 0 /\ first = ArraySize
           /\ spinning' = TRUE /\ bPacketMiss' = FALSE
           /\ Pass(t, <<>>)
           /\ UNCHANGED <<tid, aPacketsStored, aFrameTid, timerOn, odd>>
        \/ /\ aPacketsStored > 0 /\ first < ArraySize
           /\ tid' = [tid EXCEPT ![t] = Release(r, k)]
           /\ Pass(t, Packets(r, k))
           /\ odd' = Marked(t, "timeout")
           /\ aPacketsStored' = n
           /\ bPacketMiss' = (n > 0)
           /\ timerOn' = (timerOn \/ n > 0)
           /\ UNCHANGED <<aFrameTid, spinning>>
     /\ UNCHANGED sender

Receive(t) ==
  \/ ReceiveNoSession(t)
  \/ \E n \in Frame : \/ ReceiveExpected(t, n) \/ ReceiveOld(t, n)
                       \/ ReceiveInWindow(t, n) \/ ReceiveBeyond(t, n)
                       \/ GiveUp(t, n) \/ ReceiveBar(t, n)
  \/ \E asked \in WinSizes[t] : ReceiveAddba(t, asked)
  \/ CloseBaSession(t)

RxQueueNext == (\E t \in Tid : Receive(t)) \/ TimerExpires \/ PacketTimeOut

RxQueueSpec == RxQueueInit /\ [][RxQueueNext]_rxQueueVars

------------------------------------------------------------------------------
(* Properties.                                                             *)
(*                                                                         *)
(* Four things disturb a session.  The timer moves its window ("timeout"). *)
(* A packet of the window counts as one beyond it ("window"): the last one *)
(* when the numbers wrap around, as the end of the window is compared      *)
(* without SEQ_NUM_MASK, so that a copy of it is stored over the packet    *)
(* and counted, for good; and any but the expected one when the window of  *)
(* the session is 0, so that the window moves past the packet, which is    *)
(* stored before its start.  A BAR frame leaves behind more slots than the *)
(* expected number advances by, when the packet it starts at is stored, or *)
(* when the numbers wrap around ("bar").  And closing the session of one   *)
(* identifier stops the timer that another one needs ("close").            *)

StoredOf(t) == {p \in Range(tid[t].queue) : p # NoPacket}

\* A stored packet is in the slot that its sequence number gives it, counted from
\* the start of the window (description of RxQueue_ReceivePacket), unless a BAR
\* frame, or a packet of the window taken for one beyond it, disturbed the session.
SlotsInOrder ==
  \A t \in Tid : odd[t] \cap {"window", "bar"} = {} => \A k \in Slot :
    Stored(tid[t], k) =>
      SnOf(tid[t].queue[SlotAt(tid[t], k)]) = (tid[t].expected + k) % SnMod

\* aPacketsStored counts the stored packets of all identifiers, which is what the
\* timer is started by, unless a session took a packet of its window for one beyond it
\* and may have stored over a packet.
StoredCounted ==
  (\A t \in Tid : "window" \notin odd[t]) =>
    aPacketsStored = Cardinality({c \in Tid \X Slot : tid[c[1]].queue[c[2]] # NoPacket})

\* The search of the time-out never ends only where the packets that are counted are
\* all another identifier's: with one that stores packets it ends, and it never starts
\* when nothing is stored (RxQueue_PacketTimeOut), up to the exception of StoredCounted.
SearchedForOthers ==
  spinning /\ (\A t \in Tid : "window" \notin odd[t]) =>
    StoredOf(aFrameTid) = {} /\ \E t \in Tid \ {aFrameTid} : StoredOf(t) # {}

\* The stored packets: none is lost or overwritten, each is where it is looked for, and
\* the time-out looks for one that is there or for another identifier's (see the parts).
StoreConsistent == RxQueueTypeOK /\ SlotsInOrder /\ StoredCounted /\ SearchedForOthers

\* What a step passes up of a session that nothing disturbs but another one's end.
PassedInOrder ==
  LET t == passed'.tid
      new == passed'.pkts
  IN (tid[t].est /\ passed'.ok /\ odd'[t] \subseteq {"close"}) =>
       \A i \in 1 .. Len(new) : new[i] > last[t] /\ (i > 1 => new[i] > new[i - 1])

\* The packets of an undisturbed session are passed up in the order in which they
\* were sent, each of them once.
DeliveredInOrder == [][PassedInOrder]_rxQueueVars

\* While packets are stored the timer runs, or its expiry is about to be handled, so
\* that they do not wait for ever (description of RxQueue_PacketTimeOut).  Excepted
\* are a timer that another session's end has stopped, and the endless search for a
\* packet of an identifier that has none.
TimerGuardsStored ==
  \A t \in Tid : StoredOf(t) # {} => \/ bPacketMiss /\ (timerOn \/ expiry)
                                     \/ spinning \/ "close" \in odd[t]
==============================================================================

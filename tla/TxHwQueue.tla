------------------------------- MODULE TxHwQueue -------------------------------
(***************************************************************************)
(* The firmware's transmit memory as the driver accounts for it            *)
(* (TWD/Data_Service/txHwQueue.c).  The driver never asks the firmware for *)
(* room: it counts the memory blocks and descriptors that it gives away,   *)
(* and learns what came back from counters in the firmware's status, which *)
(* wrap around and are read some time before they are handled.             *)
(***************************************************************************)
EXTENDS Integers

CONSTANTS
  NumTotalBlks,  \* uNumTotalBlks
  Thresh,        \* uNumBlksThresh: blocks guaranteed to each queue
  Descs,         \* NUM_TX_DESCRIPTORS
  BlkMod,        \* 2^32: the block counters and numbers
  CtrMod         \* 2^8: the packet counters

\* The queues of the firmware, one per access category.
AC == {"BE", "BK", "VI", "VO"}

Total(f) == f["BE"] + f["BK"] + f["VI"] + f["VO"]

\* "The sum of all low thresholds should be less than 100%" (txHwQueue_SetHwInfo).
ASSUME TxHwQueueAssumption ==
  /\ NumTotalBlks \in Nat /\ Descs \in Nat /\ BlkMod \in Nat /\ CtrMod \in Nat
  /\ NumTotalBlks < BlkMod /\ Descs < CtrMod
  /\ Thresh \in [AC -> Nat] /\ Total(Thresh) <= NumTotalBlks

VARIABLES
  uNumTotalBlksFree, uNumTotalBlksReserved, uNumUsedDescriptors,
  uFwTxResultsCntr, uDrvTxPacketsCntr,
  uNumBlksUsed, uNumBlksReserved, uAllocatedBlksCntr, uFwFreedBlksCntr,
  uNumBlksCausedBusy, bQueueBusy,    \* TTxHwQueueInfo, per queue
  fwFreed, fwResults,                \* the firmware's own counters
  statusFreed, statusResults         \* the status that FwEvent has read

poolVars == <<uNumTotalBlksFree, uNumTotalBlksReserved, uNumBlksUsed, uNumBlksReserved>>
descVars == <<uNumUsedDescriptors, uFwTxResultsCntr>>
busyVars == <<uNumBlksCausedBusy, bQueueBusy>>
fwVars == <<fwFreed, fwResults>>
statusVars == <<statusFreed, statusResults>>
hwVars == <<poolVars, descVars, busyVars, fwVars, statusVars,
            uDrvTxPacketsCntr, uAllocatedBlksCntr, uFwFreedBlksCntr>>

------------------------------------------------------------------------------
(* Unsigned arithmetic.                                                    *)

Minus(a, b, mod) == IF b <= a THEN a - b ELSE a - b + mod
Plus(a, b, mod) == IF a + b < mod THEN a + b ELSE a + b - mod

PlusAll(a, f, mod) ==
  Plus(Plus(Plus(Plus(a, f["BE"], mod), f["BK"], mod), f["VI"], mod), f["VO"], mod)

------------------------------------------------------------------------------
(* txHwQueue_Restart and txHwQueue_AllocResources.                         *)

\* The blocks to ask for a packet of len bytes.  A block holds 252 bytes: the rough
\* number is the length divided by 256, and one or two blocks are added for what this
\* left out (4 bytes per block, the remainder and the longer header), and two to spare.
NumBlksToAlloc(len) ==
  LET rough == (len + 20) \div 256
      uExcludedLength == 4 * rough + ((len + 20) % 256) + 48 - 14
  IN rough + (IF uExcludedLength > 252 THEN 2 ELSE 1) + 2

Zero == [q \in AC |-> 0]

\* txHwQueue_SetHwInfo and txHwQueue_Restart, after the firmware was loaded.
Init ==
  /\ uNumTotalBlksFree = NumTotalBlks /\ uNumTotalBlksReserved = Total(Thresh)
  /\ uNumUsedDescriptors = 0 /\ uFwTxResultsCntr = 0 /\ uDrvTxPacketsCntr = 0
  /\ uNumBlksUsed = Zero /\ uNumBlksReserved = Thresh
  /\ uAllocatedBlksCntr = Zero /\ uFwFreedBlksCntr = Zero
  /\ uNumBlksCausedBusy = Zero /\ bQueueBusy = [q \in AC |-> FALSE]
  /\ fwFreed = Zero /\ fwResults = 0
  /\ statusFreed = Zero /\ statusResults = 0

Restart ==
  /\ uNumTotalBlksFree' = NumTotalBlks /\ uNumTotalBlksReserved' = Total(Thresh)
  /\ uNumUsedDescriptors' = 0 /\ uFwTxResultsCntr' = 0 /\ uDrvTxPacketsCntr' = 0
  /\ uNumBlksUsed' = Zero /\ uNumBlksReserved' = Thresh
  /\ uAllocatedBlksCntr' = Zero /\ uFwFreedBlksCntr' = Zero
  /\ uNumBlksCausedBusy' = Zero /\ bQueueBusy' = [q \in AC |-> FALSE]
  /\ fwFreed' = Zero /\ fwResults' = 0
  /\ statusFreed' = Zero /\ statusResults' = 0

\* txHwQueue_CheckResources: what is free and not reserved for the other queues.
CheckResources(q) ==
  IF uNumUsedDescriptors < Descs
  THEN Minus(uNumTotalBlksFree, Minus(uNumTotalBlksReserved, uNumBlksReserved[q], BlkMod), BlkMod)
  ELSE 0

Stop(q, n) ==
  /\ uNumBlksCausedBusy' = [uNumBlksCausedBusy EXCEPT ![q] = n]
  /\ bQueueBusy' = [bQueueBusy EXCEPT ![q] = TRUE]

\* STOP_CURRENT: there is no room for a packet of n blocks.
StopCurrent(q, n) ==
  /\ n > CheckResources(q)
  /\ Stop(q, n)
  /\ UNCHANGED <<poolVars, descVars, fwVars, statusVars,
                 uDrvTxPacketsCntr, uAllocatedBlksCntr, uFwFreedBlksCntr>>

\* What an allocation of n blocks takes from the queue's reservation.
FromReserved(q, n) == IF n > uNumBlksReserved[q] THEN uNumBlksReserved[q] ELSE n

Take(q, n) ==
  /\ n <= CheckResources(q)
  /\ uNumUsedDescriptors' = uNumUsedDescriptors + 1
  /\ uDrvTxPacketsCntr' = Plus(uDrvTxPacketsCntr, 1, CtrMod)
  /\ uAllocatedBlksCntr' = [uAllocatedBlksCntr EXCEPT ![q] = Plus(@, n, BlkMod)]
  /\ uNumBlksReserved' = [uNumBlksReserved EXCEPT ![q] = @ - FromReserved(q, n)]
  /\ uNumTotalBlksReserved' = Minus(uNumTotalBlksReserved, FromReserved(q, n), BlkMod)
  /\ uNumTotalBlksFree' = Minus(uNumTotalBlksFree, n, BlkMod)
  /\ uNumBlksUsed' = [uNumBlksUsed EXCEPT ![q] = Plus(@, n, BlkMod)]
  /\ UNCHANGED <<uFwTxResultsCntr, uFwFreedBlksCntr, fwVars, statusVars>>

\* STOP_NEXT: there is room for this packet and none for another one like it.
StopNext(q, n) == Take(q, n) /\ 2 * n > CheckResources(q) /\ Stop(q, n)

\* SUCCESS.
Success(q, n) == Take(q, n) /\ 2 * n <= CheckResources(q) /\ UNCHANGED busyVars

AllocResources(q, n) == StopCurrent(q, n) \/ StopNext(q, n) \/ Success(q, n)

------------------------------------------------------------------------------
(* The firmware (external), and FwEvent's reading of its status.           *)

\* Blocks and packets that the firmware holds, or that are on their way to it.
Held(q) == Minus(uAllocatedBlksCntr[q], fwFreed[q], BlkMod)
InFw == Minus(uDrvTxPacketsCntr, fwResults, CtrMod)

FwFreesBlks(q, n) ==
  /\ n \in 1 .. Held(q)
  /\ fwFreed' = [fwFreed EXCEPT ![q] = Plus(@, n, BlkMod)]
  /\ UNCHANGED <<poolVars, descVars, busyVars, statusVars, fwResults,
                 uDrvTxPacketsCntr, uAllocatedBlksCntr, uFwFreedBlksCntr>>

FwReportsResult ==
  /\ InFw > 0
  /\ fwResults' = Plus(fwResults, 1, CtrMod)
  /\ UNCHANGED <<poolVars, descVars, busyVars, statusVars, fwFreed,
                 uDrvTxPacketsCntr, uAllocatedBlksCntr, uFwFreedBlksCntr>>

\* The status that was read before has been handled.
StatusHandled == statusFreed = uFwFreedBlksCntr /\ statusResults = uFwTxResultsCntr

ReadStatus ==
  /\ StatusHandled
  /\ statusFreed' = fwFreed /\ statusResults' = fwResults
  /\ UNCHANGED <<poolVars, descVars, busyVars, fwVars,
                 uDrvTxPacketsCntr, uAllocatedBlksCntr, uFwFreedBlksCntr>>

------------------------------------------------------------------------------
(* txHwQueue_UpdateFreeResources.                                          *)

\* txHwQueue_UpdateFreeBlocks, per queue; nothing if the counter did not change.
NewUsed(q) ==
  IF statusFreed[q] = uFwFreedBlksCntr[q] THEN uNumBlksUsed[q]
  ELSE Minus(uAllocatedBlksCntr[q], statusFreed[q], BlkMod)

ToFree(q) == Minus(uNumBlksUsed[q], NewUsed(q), BlkMod)

NewReserved(q) ==
  IF statusFreed[q] # uFwFreedBlksCntr[q] /\ NewUsed(q) < Thresh[q]
  THEN Thresh[q] - NewUsed(q) ELSE uNumBlksReserved[q]

\* Mutant: what was freed above the threshold is reserved as well.
AllReserved(q) == IF NewUsed(q) < Thresh[q] THEN ToFree(q) ELSE 0

\* What the total reservation grows by: blocks are reserved up to the threshold only.
ToReserve(q) ==
  IF NewUsed(q) < Thresh[q]
  THEN IF ToFree(q) > NewReserved(q) THEN NewReserved(q) ELSE ToFree(q)
  ELSE 0

\* Mutant: more is asked for than stopped the queue.
MoreThanEnough(q) == uNumBlksCausedBusy[q] < CheckResources(q)'

\* A stopped queue can go on with the packet that stopped it.
Enough(q) == uNumBlksCausedBusy[q] <= CheckResources(q)'

\* The queues that are started again.
Released == {q \in AC : bQueueBusy[q] /\ ~bQueueBusy'[q]}

UpdateFreeResources ==
  /\ uFwTxResultsCntr' = statusResults
  /\ uNumUsedDescriptors' =
       IF statusResults = uFwTxResultsCntr THEN uNumUsedDescriptors
       ELSE Minus(uDrvTxPacketsCntr, statusResults, CtrMod)
  /\ uFwFreedBlksCntr' = statusFreed
  /\ uNumBlksUsed' = [q \in AC |-> NewUsed(q)]
  /\ uNumBlksReserved' = [q \in AC |-> NewReserved(q)]
  /\ uNumTotalBlksFree' = PlusAll(uNumTotalBlksFree, [q \in AC |-> ToFree(q)], BlkMod)
  /\ uNumTotalBlksReserved' = PlusAll(uNumTotalBlksReserved, [q \in AC |-> ToReserve(q)], BlkMod)
  /\ bQueueBusy' = [q \in AC |-> bQueueBusy[q] /\ ~Enough(q)]
  /\ UNCHANGED <<uNumBlksCausedBusy, fwVars, statusVars, uDrvTxPacketsCntr, uAllocatedBlksCntr>>

------------------------------------------------------------------------------
(* The component by itself: any packets, any firmware.                     *)

Next ==
  \/ \E q \in AC, n \in Nat \ {0} : AllocResources(q, n)
  \/ \E q \in AC, n \in Nat \ {0} : FwFreesBlks(q, n)
  \/ FwReportsResult \/ ReadStatus \/ UpdateFreeResources \/ Restart

Spec == Init /\ [][Next]_hwVars

------------------------------------------------------------------------------
(* Properties.                                                             *)

Blks == 0 .. BlkMod - 1
Ctr == 0 .. CtrMod - 1

TypeOK ==
  /\ uNumTotalBlksFree \in Blks /\ uNumTotalBlksReserved \in Blks
  /\ uNumUsedDescriptors \in 0 .. Descs
  /\ uFwTxResultsCntr \in Ctr /\ uDrvTxPacketsCntr \in Ctr
  /\ uNumBlksUsed \in [AC -> Blks] /\ uNumBlksReserved \in [AC -> Blks]
  /\ uAllocatedBlksCntr \in [AC -> Blks] /\ uFwFreedBlksCntr \in [AC -> Blks]
  /\ uNumBlksCausedBusy \in [AC -> Nat] /\ bQueueBusy \in [AC -> BOOLEAN]
  /\ fwFreed \in [AC -> Blks] /\ fwResults \in Ctr
  /\ statusFreed \in [AC -> Blks] /\ statusResults \in Ctr

\* No block is lost or counted twice.
BlksConserved == uNumTotalBlksFree + Total(uNumBlksUsed) = NumTotalBlks

\* Each queue has reserved what it lacks up to its threshold, the total is the sum of
\* these, and there are free blocks for all of it: every queue gets its threshold
\* whatever the others have taken.
ThreshGuaranteed ==
  /\ \A q \in AC : uNumBlksReserved[q] =
       IF uNumBlksUsed[q] < Thresh[q] THEN Thresh[q] - uNumBlksUsed[q] ELSE 0
  /\ uNumTotalBlksReserved = Total(uNumBlksReserved)
  /\ uNumTotalBlksReserved <= uNumTotalBlksFree

\* Although the driver counts by a status that is old when it is handled, and by
\* counters that wrap around, it never takes blocks or descriptors for free that the
\* firmware still holds.
NeverOverbooked ==
  /\ \A q \in AC : LET seen == Minus(uAllocatedBlksCntr[q], statusFreed[q], BlkMod)
                   IN /\ Held(q) <= seen /\ seen <= uNumBlksUsed[q]
                      /\ uNumBlksUsed[q] = Minus(uAllocatedBlksCntr[q], uFwFreedBlksCntr[q], BlkMod)
  /\ LET seen == Minus(uDrvTxPacketsCntr, statusResults, CtrMod)
     IN /\ InFw <= seen /\ seen <= uNumUsedDescriptors
        /\ uNumUsedDescriptors = Minus(uDrvTxPacketsCntr, uFwTxResultsCntr, CtrMod)

\* The accounts are right (see the parts).
ResourcesAccounted == TypeOK /\ BlksConserved /\ ThreshGuaranteed /\ NeverOverbooked

\* A stopped queue lacks what it was stopped for: the update that provides it has
\* started the queue again, and no packet waits for room that is there ("For each busy
\* queue, if now available indicate it in the backpressure bitmap").
StoppedForAReason ==
  \A q \in AC : bQueueBusy[q] => uNumBlksCausedBusy[q] > CheckResources(q)
==============================================================================

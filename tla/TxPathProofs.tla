----------------------------- MODULE TxPathProofs -----------------------------
(***************************************************************************)
(* The accounts of TxHwQueue are right for every number of blocks and      *)
(* descriptors, every threshold, every length of a packet and every width  *)
(* of the counters, whatever the firmware frees and whenever it says so.   *)
(*                                                                         *)
(* The transmit path uses TxHwQueue by its operations only: every step of  *)
(* TxPath is a step of TxHwQueue or leaves it alone, so what is proved of  *)
(* the accounts holds of the composition, for packets of any length and    *)
(* queues of any depth.  And no packet is stranded: an invariant says, for *)
(* every point of the driver's calls, who will look at a queue again.      *)
(***************************************************************************)
EXTENDS TxPath, SequenceTheorems, TLAPS

------------------------------------------------------------------------------
(* Counters that wrap around.                                              *)

\* Minus(a, b) is how far the counter a is ahead of the counter b.  A counter that is
\* moved by less than what is left of its range moves the distance by as much.
LEMMA CounterAhead ==
  ASSUME NEW M \in Nat, NEW a \in 0 .. M - 1, NEW b \in 0 .. M - 1, NEW n \in Nat,
         Minus(a, b, M) + n < M
  PROVE  /\ Plus(a, n, M) \in 0 .. M - 1
         /\ Minus(Plus(a, n, M), b, M) = Minus(a, b, M) + n
  BY DEF Minus, Plus

LEMMA CounterFollows ==
  ASSUME NEW M \in Nat, NEW a \in 0 .. M - 1, NEW b \in 0 .. M - 1, NEW n \in Nat,
         n <= Minus(a, b, M)
  PROVE  /\ Plus(b, n, M) \in 0 .. M - 1
         /\ Minus(a, Plus(b, n, M), M) = Minus(a, b, M) - n
  BY DEF Minus, Plus

LEMMA Distance ==
  ASSUME NEW M \in Nat, NEW a \in 0 .. M - 1, NEW b \in 0 .. M - 1
  PROVE  Minus(a, b, M) \in 0 .. M - 1 /\ Minus(a, b, M) \in Nat
  BY DEF Minus

\* Within the range, the arithmetic is the usual one.
LEMMA NoBorrow ==
  ASSUME NEW M \in Nat, NEW a \in Nat, NEW b \in Nat, b <= a
  PROVE  Minus(a, b, M) = a - b
  BY DEF Minus

------------------------------------------------------------------------------
(* Sums over the four queues.                                              *)

LEMMA TotalType ==
  ASSUME NEW f \in [AC -> Nat]
  PROVE  Total(f) \in Nat /\ \A q \in AC : f[q] <= Total(f)
  BY DEF Total, AC

LEMMA TotalExcept ==
  ASSUME NEW f \in [AC -> Nat], NEW q \in AC, NEW e \in Nat
  PROVE  Total([f EXCEPT ![q] = e]) = Total(f) - f[q] + e
  BY DEF Total, AC

LEMMA TotalDifference ==
  ASSUME NEW f \in [AC -> Nat], NEW g \in [AC -> Nat], NEW d \in [AC -> Nat],
         \A q \in AC : d[q] = f[q] - g[q]
  PROVE  Total(d) = Total(f) - Total(g)
  BY DEF Total, AC

LEMMA TotalMonotone ==
  ASSUME NEW f \in [AC -> Nat], NEW g \in [AC -> Nat], \A q \in AC : f[q] <= g[q]
  PROVE  Total(f) <= Total(g)
  BY DEF Total, AC

LEMMA PlusAllIsSum ==
  ASSUME NEW M \in Nat, NEW a \in Nat, NEW f \in [AC -> Nat], a + Total(f) < M
  PROVE  PlusAll(a, f, M) = a + Total(f)
<1>1. f["BE"] \in Nat /\ f["BK"] \in Nat /\ f["VI"] \in Nat /\ f["VO"] \in Nat
  BY DEF AC
<1>2. Plus(a, f["BE"], M) = a + f["BE"]
  BY <1>1 DEF Plus, Total
<1>3. Plus(a + f["BE"], f["BK"], M) = a + f["BE"] + f["BK"]
  BY <1>1 DEF Plus, Total
<1>4. Plus(a + f["BE"] + f["BK"], f["VI"], M) = a + f["BE"] + f["BK"] + f["VI"]
  BY <1>1 DEF Plus, Total
<1>5. Plus(a + f["BE"] + f["BK"] + f["VI"], f["VO"], M) = a + f["BE"] + f["BK"] + f["VI"] + f["VO"]
  BY <1>1 DEF Plus, Total
<1> QED BY <1>1, <1>2, <1>3, <1>4, <1>5 DEF PlusAll, Total

------------------------------------------------------------------------------
(* What the accounts say of a state.                                       *)

\* What a queue's used blocks will be when the status that was read is handled.
Seen(q) == Minus(uAllocatedBlksCntr[q], statusFreed[q], BlkMod)

LEMMA Facts ==
  ASSUME TypeOK, BlksConserved, ThreshGuaranteed
  PROVE  /\ uNumTotalBlksFree \in Nat /\ uNumTotalBlksReserved \in Nat
         /\ uNumBlksUsed \in [AC -> Nat] /\ uNumBlksReserved \in [AC -> Nat]
         /\ NumTotalBlks \in Nat /\ BlkMod \in Nat /\ NumTotalBlks < BlkMod
         /\ Thresh \in [AC -> Nat]
         /\ uNumTotalBlksFree + Total(uNumBlksUsed) = NumTotalBlks
         /\ Total(uNumBlksUsed) \in Nat
         /\ \A q \in AC : /\ uNumBlksReserved[q] <= uNumTotalBlksReserved
                          /\ uNumBlksUsed[q] <= Total(uNumBlksUsed)
<1>1. uNumBlksUsed \in [AC -> Nat] /\ uNumBlksReserved \in [AC -> Nat]
  BY TxHwQueueAssumption DEF TypeOK, Blks
<1>2. \A q \in AC : uNumBlksReserved[q] <= uNumTotalBlksReserved
  BY <1>1, TotalType DEF ThreshGuaranteed
<1> QED BY <1>1, <1>2, TotalType, TxHwQueueAssumption DEF TypeOK, Blks, BlksConserved

\* What a queue may take: all that is free but the other queues' reservations.
LEMMA Available ==
  ASSUME TypeOK, BlksConserved, ThreshGuaranteed, NEW q \in AC
  PROVE  CheckResources(q) =
           IF uNumUsedDescriptors < Descs
           THEN uNumTotalBlksFree - (uNumTotalBlksReserved - uNumBlksReserved[q]) ELSE 0
<1>1. /\ uNumTotalBlksFree \in Nat /\ uNumTotalBlksReserved \in Nat /\ uNumBlksReserved[q] \in Nat
      /\ uNumBlksReserved[q] <= uNumTotalBlksReserved
      /\ uNumTotalBlksReserved <= uNumTotalBlksFree
  BY Facts DEF ThreshGuaranteed
<1>2. Minus(uNumTotalBlksReserved, uNumBlksReserved[q], BlkMod)
        = uNumTotalBlksReserved - uNumBlksReserved[q]
  BY <1>1, NoBorrow, Facts
<1>3. Minus(uNumTotalBlksFree, uNumTotalBlksReserved - uNumBlksReserved[q], BlkMod)
        = uNumTotalBlksFree - (uNumTotalBlksReserved - uNumBlksReserved[q])
  BY <1>1, NoBorrow, Facts
<1> QED BY <1>2, <1>3 DEF CheckResources

------------------------------------------------------------------------------
(* Allocation.                                                             *)

\* What Take does, without the wrap-around, which it never meets.
LEMMA TakeCounts ==
  ASSUME ResourcesAccounted, NEW q \in AC, NEW n \in Nat \ {0}, Take(q, n)
  PROVE  /\ uNumUsedDescriptors < Descs
         /\ n <= uNumTotalBlksFree - (uNumTotalBlksReserved - uNumBlksReserved[q])
         /\ FromReserved(q, n) \in Nat /\ FromReserved(q, n) <= n
         /\ FromReserved(q, n) <= uNumBlksReserved[q]
         /\ uNumTotalBlksFree' = uNumTotalBlksFree - n
         /\ uNumTotalBlksReserved' = uNumTotalBlksReserved - FromReserved(q, n)
         /\ uNumBlksUsed' = [uNumBlksUsed EXCEPT ![q] = uNumBlksUsed[q] + n]
         /\ uNumBlksUsed[q] + n \in Nat /\ uNumBlksUsed[q] + n < BlkMod
         /\ uNumBlksReserved' =
              [uNumBlksReserved EXCEPT ![q] = uNumBlksReserved[q] - FromReserved(q, n)]
<1> USE DEF ResourcesAccounted
<1>1. /\ uNumTotalBlksFree \in Nat /\ uNumTotalBlksReserved \in Nat /\ BlkMod \in Nat
      /\ uNumBlksReserved[q] \in Nat /\ uNumBlksReserved[q] <= uNumTotalBlksReserved
      /\ uNumBlksUsed[q] \in Nat /\ uNumTotalBlksFree + uNumBlksUsed[q] < BlkMod
      /\ uNumTotalBlksReserved <= uNumTotalBlksFree
  BY Facts DEF ThreshGuaranteed
<1>2. /\ uNumUsedDescriptors < Descs
      /\ n <= uNumTotalBlksFree - (uNumTotalBlksReserved - uNumBlksReserved[q])
  BY Available DEF Take
<1>3. /\ FromReserved(q, n) \in Nat /\ FromReserved(q, n) <= n
      /\ FromReserved(q, n) <= uNumBlksReserved[q]
  BY <1>1 DEF FromReserved
<1>4. Minus(uNumTotalBlksFree, n, BlkMod) = uNumTotalBlksFree - n
  BY <1>1, <1>2, NoBorrow
<1>5. Minus(uNumTotalBlksReserved, FromReserved(q, n), BlkMod)
        = uNumTotalBlksReserved - FromReserved(q, n)
  BY <1>1, <1>3, NoBorrow
<1>6. Plus(uNumBlksUsed[q], n, BlkMod) = uNumBlksUsed[q] + n /\ uNumBlksUsed[q] + n < BlkMod
  BY <1>1, <1>2 DEF Plus
<1> QED BY <1>1, <1>2, <1>3, <1>4, <1>5, <1>6 DEF Take

LEMMA TakePools ==
  ASSUME ResourcesAccounted, NEW q \in AC, NEW n \in Nat \ {0}, Take(q, n)
  PROVE  BlksConserved' /\ ThreshGuaranteed'
<1> DEFINE r == FromReserved(q, n)
<1>1. TypeOK /\ BlksConserved /\ ThreshGuaranteed
  BY DEF ResourcesAccounted
<1>2. /\ r \in Nat /\ r <= n /\ r <= uNumBlksReserved[q]
      /\ n <= uNumTotalBlksFree - (uNumTotalBlksReserved - uNumBlksReserved[q])
      /\ uNumTotalBlksFree' = uNumTotalBlksFree - n
      /\ uNumTotalBlksReserved' = uNumTotalBlksReserved - r
      /\ uNumBlksUsed' = [uNumBlksUsed EXCEPT ![q] = uNumBlksUsed[q] + n]
      /\ uNumBlksUsed[q] + n \in Nat
      /\ uNumBlksReserved' = [uNumBlksReserved EXCEPT ![q] = uNumBlksReserved[q] - r]
  BY TakeCounts
<1>3. r = IF n > uNumBlksReserved[q] THEN uNumBlksReserved[q] ELSE n
  BY DEF FromReserved
<1> HIDE DEF r
<1>4. Total(uNumBlksUsed') = Total(uNumBlksUsed) + n
  <2>1. Total(uNumBlksUsed') = Total(uNumBlksUsed) - uNumBlksUsed[q] + (uNumBlksUsed[q] + n)
    BY <1>1, <1>2, TotalExcept, Facts
  <2> QED BY <1>1, <2>1, Facts
<1>5. Total(uNumBlksReserved') = Total(uNumBlksReserved) - r
  <2>1. uNumBlksReserved[q] - r \in Nat
    BY <1>1, <1>2, Facts
  <2>2. Total(uNumBlksReserved')
          = Total(uNumBlksReserved) - uNumBlksReserved[q] + (uNumBlksReserved[q] - r)
    BY <1>1, <1>2, <2>1, TotalExcept, Facts
  <2>3. Total(uNumBlksReserved) \in Nat
    BY <1>1, Facts, TotalType
  <2> QED BY <1>1, <1>2, <2>2, <2>3, Facts
<1>6. BlksConserved'
  BY <1>1, <1>2, <1>4, Facts DEF BlksConserved
<1>7. uNumTotalBlksReserved' = Total(uNumBlksReserved')
  BY <1>1, <1>2, <1>5 DEF ThreshGuaranteed
<1>8. uNumTotalBlksReserved' <= uNumTotalBlksFree'
  <2>1. CASE n > uNumBlksReserved[q]
    BY <1>1, <1>2, <1>3, <2>1, Facts
  <2>2. CASE ~(n > uNumBlksReserved[q])
    BY <1>1, <1>2, <1>3, <2>2, Facts DEF ThreshGuaranteed
  <2> QED BY <2>1, <2>2
<1>9. ASSUME NEW p \in AC
      PROVE  uNumBlksReserved'[p] =
               IF uNumBlksUsed'[p] < Thresh[p] THEN Thresh[p] - uNumBlksUsed'[p] ELSE 0
  <2>1. /\ uNumBlksUsed[p] \in Nat /\ uNumBlksReserved[p] \in Nat /\ Thresh[p] \in Nat
        /\ uNumBlksReserved[p] =
             IF uNumBlksUsed[p] < Thresh[p] THEN Thresh[p] - uNumBlksUsed[p] ELSE 0
    BY <1>1, Facts DEF ThreshGuaranteed
  <2>2. CASE p = q
    <3>1. uNumBlksUsed'[q] = uNumBlksUsed[q] + n /\ uNumBlksReserved'[q] = uNumBlksReserved[q] - r
      BY <1>1, <1>2, Facts
    <3>2. CASE n > uNumBlksReserved[q]
      BY <1>2, <1>3, <2>1, <2>2, <3>1, <3>2
    <3>3. CASE ~(n > uNumBlksReserved[q])
      BY <1>2, <1>3, <2>1, <2>2, <3>1, <3>3
    <3> QED BY <3>2, <3>3
  <2>3. CASE p # q
    BY <1>1, <1>2, <2>1, <2>3, Facts
  <2> QED BY <2>2, <2>3
<1> QED BY <1>6, <1>7, <1>8, <1>9 DEF ThreshGuaranteed

LEMMA TakeCounters ==
  ASSUME ResourcesAccounted, NEW q \in AC, NEW n \in Nat \ {0}, Take(q, n)
  PROVE  /\ uAllocatedBlksCntr' \in [AC -> Blks] /\ uDrvTxPacketsCntr' \in Ctr
         /\ uNumUsedDescriptors' \in 0 .. Descs
         /\ NeverOverbooked'
<1>1. TypeOK /\ NeverOverbooked
  BY DEF ResourcesAccounted
<1>2. /\ BlkMod \in Nat /\ CtrMod \in Nat /\ Descs \in Nat /\ Descs < CtrMod
      /\ uNumUsedDescriptors < Descs
      /\ uNumBlksUsed[q] + n < BlkMod
      /\ uNumBlksUsed' = [uNumBlksUsed EXCEPT ![q] = uNumBlksUsed[q] + n]
  BY TakeCounts, TxHwQueueAssumption
<1>3. /\ uNumUsedDescriptors' = uNumUsedDescriptors + 1
      /\ uDrvTxPacketsCntr' = Plus(uDrvTxPacketsCntr, 1, CtrMod)
      /\ uAllocatedBlksCntr' = [uAllocatedBlksCntr EXCEPT ![q] = Plus(uAllocatedBlksCntr[q], n, BlkMod)]
      /\ UNCHANGED <<uFwTxResultsCntr, uFwFreedBlksCntr, fwFreed, fwResults, statusFreed, statusResults>>
  BY DEF Take, fwVars, statusVars
<1>4. ASSUME NEW c \in 0 .. BlkMod - 1, Minus(uAllocatedBlksCntr[q], c, BlkMod) <= uNumBlksUsed[q]
      PROVE  /\ Plus(uAllocatedBlksCntr[q], n, BlkMod) \in 0 .. BlkMod - 1
             /\ Minus(uAllocatedBlksCntr'[q], c, BlkMod) = Minus(uAllocatedBlksCntr[q], c, BlkMod) + n
  <2>1. uAllocatedBlksCntr[q] \in 0 .. BlkMod - 1 /\ uNumBlksUsed[q] \in Nat
    BY <1>1, <1>2 DEF TypeOK, Blks
  <2>2. Minus(uAllocatedBlksCntr[q], c, BlkMod) \in Nat
    BY <1>2, <2>1, Distance
  <2>3. Minus(uAllocatedBlksCntr[q], c, BlkMod) + n < BlkMod
    BY <1>2, <1>4, <2>1, <2>2
  <2>4. uAllocatedBlksCntr'[q] = Plus(uAllocatedBlksCntr[q], n, BlkMod)
    BY <1>1, <1>3 DEF TypeOK
  <2> QED BY <1>2, <2>1, <2>3, <2>4, CounterAhead
<1>5. ASSUME NEW c \in 0 .. CtrMod - 1, Minus(uDrvTxPacketsCntr, c, CtrMod) <= uNumUsedDescriptors
      PROVE  /\ Plus(uDrvTxPacketsCntr, 1, CtrMod) \in 0 .. CtrMod - 1
             /\ Minus(uDrvTxPacketsCntr', c, CtrMod) = Minus(uDrvTxPacketsCntr, c, CtrMod) + 1
  <2>1. uDrvTxPacketsCntr \in 0 .. CtrMod - 1 /\ uNumUsedDescriptors \in Nat
    BY <1>1, <1>2 DEF TypeOK, Ctr
  <2>2. Minus(uDrvTxPacketsCntr, c, CtrMod) \in Nat
    BY <1>2, <2>1, Distance
  <2>3. Minus(uDrvTxPacketsCntr, c, CtrMod) + 1 < CtrMod
    BY <1>2, <1>5, <2>1, <2>2
  <2> QED BY <1>2, <1>3, <2>1, <2>3, CounterAhead
<1>6. \A p \in AC : /\ uAllocatedBlksCntr[p] \in 0 .. BlkMod - 1 /\ fwFreed[p] \in 0 .. BlkMod - 1
                    /\ statusFreed[p] \in 0 .. BlkMod - 1 /\ uFwFreedBlksCntr[p] \in 0 .. BlkMod - 1
                    /\ uNumBlksUsed[p] \in Nat
  BY <1>1, <1>2 DEF TypeOK, Blks
<1>7. \A p \in AC :
        /\ Minus(uAllocatedBlksCntr[p], fwFreed[p], BlkMod) <= Minus(uAllocatedBlksCntr[p], statusFreed[p], BlkMod)
        /\ Minus(uAllocatedBlksCntr[p], statusFreed[p], BlkMod) <= uNumBlksUsed[p]
        /\ uNumBlksUsed[p] = Minus(uAllocatedBlksCntr[p], uFwFreedBlksCntr[p], BlkMod)
  BY <1>1 DEF NeverOverbooked, Held
<1>8. ASSUME NEW p \in AC
      PROVE  /\ uAllocatedBlksCntr'[p] \in Blks
             /\ Minus(uAllocatedBlksCntr'[p], fwFreed[p], BlkMod) <= Minus(uAllocatedBlksCntr'[p], statusFreed[p], BlkMod)
             /\ Minus(uAllocatedBlksCntr'[p], statusFreed[p], BlkMod) <= uNumBlksUsed'[p]
             /\ uNumBlksUsed'[p] = Minus(uAllocatedBlksCntr'[p], uFwFreedBlksCntr[p], BlkMod)
  <2>1. CASE p # q
    BY <1>1, <1>2, <1>3, <1>6, <1>7, <2>1 DEF TypeOK, Blks
  <2>2. CASE p = q
    <3>1. /\ Minus(uAllocatedBlksCntr[q], fwFreed[q], BlkMod) \in Nat
          /\ Minus(uAllocatedBlksCntr[q], statusFreed[q], BlkMod) \in Nat
      BY <1>2, <1>6, Distance
    <3>2. Minus(uAllocatedBlksCntr'[q], uFwFreedBlksCntr[q], BlkMod)
            = Minus(uAllocatedBlksCntr[q], uFwFreedBlksCntr[q], BlkMod) + n
      BY <1>4, <1>6, <1>7
    <3>3. Minus(uAllocatedBlksCntr'[q], statusFreed[q], BlkMod)
            = Minus(uAllocatedBlksCntr[q], statusFreed[q], BlkMod) + n
      BY <1>4, <1>6, <1>7
    <3>4. Minus(uAllocatedBlksCntr'[q], fwFreed[q], BlkMod)
            = Minus(uAllocatedBlksCntr[q], fwFreed[q], BlkMod) + n
      <4>1. Minus(uAllocatedBlksCntr[q], fwFreed[q], BlkMod) <= uNumBlksUsed[q]
        BY <1>6, <1>7, <3>1
      <4> QED BY <1>4, <1>6, <4>1
    <3>5. uAllocatedBlksCntr'[q] = Plus(uAllocatedBlksCntr[q], n, BlkMod)
      BY <1>1, <1>3 DEF TypeOK
    <3>6. uAllocatedBlksCntr'[q] \in Blks
      BY <1>4, <1>6, <1>7, <3>5 DEF Blks
    <3>7. uNumBlksUsed'[q] = uNumBlksUsed[q] + n
      BY <1>1, <1>2 DEF TypeOK
    <3> QED BY <1>6, <1>7, <2>2, <3>1, <3>2, <3>3, <3>4, <3>6, <3>7
  <2> QED BY <2>1, <2>2
<1>9. /\ uDrvTxPacketsCntr' \in Ctr
      /\ Minus(uDrvTxPacketsCntr', fwResults, CtrMod) <= Minus(uDrvTxPacketsCntr', statusResults, CtrMod)
      /\ Minus(uDrvTxPacketsCntr', statusResults, CtrMod) <= uNumUsedDescriptors'
      /\ uNumUsedDescriptors' = Minus(uDrvTxPacketsCntr', uFwTxResultsCntr, CtrMod)
  <2>1. /\ fwResults \in 0 .. CtrMod - 1 /\ statusResults \in 0 .. CtrMod - 1
        /\ uFwTxResultsCntr \in 0 .. CtrMod - 1 /\ uNumUsedDescriptors \in Nat
        /\ uDrvTxPacketsCntr \in 0 .. CtrMod - 1
    BY <1>1, <1>2 DEF TypeOK, Ctr
  <2>2. /\ Minus(uDrvTxPacketsCntr, fwResults, CtrMod) <= Minus(uDrvTxPacketsCntr, statusResults, CtrMod)
        /\ Minus(uDrvTxPacketsCntr, statusResults, CtrMod) <= uNumUsedDescriptors
        /\ uNumUsedDescriptors = Minus(uDrvTxPacketsCntr, uFwTxResultsCntr, CtrMod)
    BY <1>1 DEF NeverOverbooked, InFw
  <2>3. /\ Minus(uDrvTxPacketsCntr, fwResults, CtrMod) \in Nat
        /\ Minus(uDrvTxPacketsCntr, statusResults, CtrMod) \in Nat
    BY <1>2, <2>1, Distance
  <2>4. Minus(uDrvTxPacketsCntr, fwResults, CtrMod) <= uNumUsedDescriptors
    BY <2>1, <2>2, <2>3
  <2>5. Minus(uDrvTxPacketsCntr', uFwTxResultsCntr, CtrMod) = uNumUsedDescriptors + 1
    BY <1>5, <2>1, <2>2
  <2>6. Minus(uDrvTxPacketsCntr', statusResults, CtrMod) = Minus(uDrvTxPacketsCntr, statusResults, CtrMod) + 1
    BY <1>5, <2>1, <2>2
  <2>7. Minus(uDrvTxPacketsCntr', fwResults, CtrMod) = Minus(uDrvTxPacketsCntr, fwResults, CtrMod) + 1
    BY <1>5, <2>1, <2>4
  <2>8. uDrvTxPacketsCntr' \in Ctr
    BY <1>3, <1>5, <2>1, <2>2 DEF Ctr
  <2> QED BY <1>3, <2>1, <2>2, <2>3, <2>5, <2>6, <2>7, <2>8
<1>10. uAllocatedBlksCntr' \in [AC -> Blks]
  <2>1. uAllocatedBlksCntr' = [p \in AC |-> uAllocatedBlksCntr'[p]]
    BY <1>1, <1>3 DEF TypeOK
  <2> QED BY <1>8, <2>1
<1>11. uNumUsedDescriptors' \in 0 .. Descs
  BY <1>1, <1>2, <1>3 DEF TypeOK
<1> QED BY <1>3, <1>8, <1>9, <1>10, <1>11 DEF NeverOverbooked, Held, InFw

LEMMA TakeType ==
  ASSUME ResourcesAccounted, NEW q \in AC, NEW n \in Nat \ {0}, Take(q, n),
         uNumBlksCausedBusy' \in [AC -> Nat], bQueueBusy' \in [AC -> BOOLEAN]
  PROVE  TypeOK'
<1>1. TypeOK
  BY DEF ResourcesAccounted
<1>2. uNumTotalBlksFree' \in Blks /\ uNumTotalBlksReserved' \in Blks
  <2>1. /\ uNumTotalBlksFree \in 0 .. BlkMod - 1 /\ uNumTotalBlksReserved \in 0 .. BlkMod - 1
        /\ BlkMod \in Nat /\ uNumBlksReserved[q] \in Nat
        /\ uNumBlksReserved[q] <= uNumTotalBlksReserved
    BY <1>1, Facts DEF TypeOK, Blks, ResourcesAccounted
  <2>2. /\ n <= uNumTotalBlksFree - (uNumTotalBlksReserved - uNumBlksReserved[q])
        /\ FromReserved(q, n) \in Nat /\ FromReserved(q, n) <= uNumBlksReserved[q]
        /\ uNumTotalBlksFree' = uNumTotalBlksFree - n
        /\ uNumTotalBlksReserved' = uNumTotalBlksReserved - FromReserved(q, n)
    BY TakeCounts
  <2>3. uNumTotalBlksFree' \in Blks
    BY <2>1, <2>2 DEF Blks
  <2>4. uNumTotalBlksReserved' \in Blks
    BY <2>1, <2>2 DEF Blks
  <2> QED BY <2>3, <2>4
<1>3. uNumBlksUsed' \in [AC -> Blks]
  <2>1. uNumBlksUsed[q] + n \in Blks
    BY TakeCounts, TxHwQueueAssumption DEF Blks
  <2> QED BY <1>1, <2>1, TakeCounts DEF TypeOK
<1>4. uNumBlksReserved' \in [AC -> Blks]
  <2>1. uNumBlksReserved[q] - FromReserved(q, n) \in Blks
    <3>1. uNumBlksReserved[q] \in 0 .. BlkMod - 1 /\ BlkMod \in Nat
      BY <1>1, TxHwQueueAssumption DEF TypeOK, Blks
    <3>2. FromReserved(q, n) \in Nat /\ FromReserved(q, n) <= uNumBlksReserved[q]
      BY TakeCounts
    <3> QED BY <3>1, <3>2 DEF Blks
  <2> QED BY <1>1, <2>1, TakeCounts DEF TypeOK
<1>5. /\ uAllocatedBlksCntr' \in [AC -> Blks] /\ uDrvTxPacketsCntr' \in Ctr
      /\ uNumUsedDescriptors' \in 0 .. Descs
  BY TakeCounters
<1>6. UNCHANGED <<uFwTxResultsCntr, uFwFreedBlksCntr, fwFreed, fwResults, statusFreed, statusResults>>
  BY DEF Take, fwVars, statusVars
<1> QED BY <1>1, <1>2, <1>3, <1>4, <1>5, <1>6 DEF TypeOK

LEMMA StopType ==
  ASSUME TypeOK, NEW q \in AC, NEW n \in Nat \ {0}, Stop(q, n)
  PROVE  uNumBlksCausedBusy' \in [AC -> Nat] /\ bQueueBusy' \in [AC -> BOOLEAN]
  BY DEF TypeOK, Stop

LEMMA AllocAccounted ==
  ASSUME ResourcesAccounted, NEW q \in AC, NEW n \in Nat \ {0}, AllocResources(q, n)
  PROVE  ResourcesAccounted'
<1>1. TypeOK
  BY DEF ResourcesAccounted
<1>2. CASE StopCurrent(q, n)
  <2>1. uNumBlksCausedBusy' \in [AC -> Nat] /\ bQueueBusy' \in [AC -> BOOLEAN]
    BY <1>1, <1>2, StopType DEF StopCurrent
  <2>2. UNCHANGED <<poolVars, descVars, fwVars, statusVars,
                    uDrvTxPacketsCntr, uAllocatedBlksCntr, uFwFreedBlksCntr>>
    BY <1>2 DEF StopCurrent
  <2>3. TypeOK'
    BY <1>1, <2>1, <2>2 DEF TypeOK, poolVars, descVars, fwVars, statusVars
  <2>4. BlksConserved' /\ ThreshGuaranteed' /\ NeverOverbooked'
    BY <2>2 DEF poolVars, descVars, fwVars, statusVars, ResourcesAccounted,
                BlksConserved, ThreshGuaranteed, NeverOverbooked, Held, InFw
  <2> QED BY <2>3, <2>4 DEF ResourcesAccounted
<1>3. CASE StopNext(q, n)
  <2>1. Take(q, n) /\ TypeOK'
    BY <1>1, <1>3, StopType, TakeType DEF StopNext
  <2> QED BY <2>1, TakePools, TakeCounters DEF ResourcesAccounted
<1>4. CASE Success(q, n)
  <2>1. uNumBlksCausedBusy' \in [AC -> Nat] /\ bQueueBusy' \in [AC -> BOOLEAN]
    BY <1>1, <1>4 DEF Success, busyVars, TypeOK
  <2>2. Take(q, n) /\ TypeOK'
    BY <1>4, <2>1, TakeType DEF Success
  <2> QED BY <2>2, TakePools, TakeCounters DEF ResourcesAccounted
<1> QED BY <1>2, <1>3, <1>4 DEF AllocResources

------------------------------------------------------------------------------
(* The firmware.                                                           *)

LEMMA FwFreesAccounted ==
  ASSUME ResourcesAccounted, NEW q \in AC, NEW n \in Nat \ {0}, FwFreesBlks(q, n)
  PROVE  ResourcesAccounted'
<1>1. TypeOK /\ NeverOverbooked
  BY DEF ResourcesAccounted
<1>2. /\ n <= Minus(uAllocatedBlksCntr[q], fwFreed[q], BlkMod)
      /\ fwFreed' = [fwFreed EXCEPT ![q] = Plus(fwFreed[q], n, BlkMod)]
      /\ UNCHANGED <<poolVars, descVars, busyVars, statusVars, fwResults,
                     uDrvTxPacketsCntr, uAllocatedBlksCntr, uFwFreedBlksCntr>>
  BY DEF FwFreesBlks, Held
<1>3. /\ uAllocatedBlksCntr[q] \in 0 .. BlkMod - 1 /\ fwFreed[q] \in 0 .. BlkMod - 1
      /\ statusFreed[q] \in 0 .. BlkMod - 1 /\ BlkMod \in Nat
  BY <1>1, TxHwQueueAssumption DEF TypeOK, Blks
<1>4. /\ Plus(fwFreed[q], n, BlkMod) \in 0 .. BlkMod - 1
      /\ Minus(uAllocatedBlksCntr[q], Plus(fwFreed[q], n, BlkMod), BlkMod)
           = Minus(uAllocatedBlksCntr[q], fwFreed[q], BlkMod) - n
  BY <1>2, <1>3, CounterFollows
<1>5. fwFreed'[q] = Plus(fwFreed[q], n, BlkMod) /\ \A p \in AC \ {q} : fwFreed'[p] = fwFreed[p]
  BY <1>1, <1>2 DEF TypeOK
<1>6. TypeOK'
  <2>1. fwFreed' \in [AC -> Blks]
    BY <1>1, <1>2, <1>4 DEF TypeOK, Blks
  <2> QED BY <1>1, <1>2, <2>1 DEF TypeOK, poolVars, descVars, busyVars, statusVars
<1>7. \A p \in AC : Minus(uAllocatedBlksCntr[p], fwFreed'[p], BlkMod)
                      <= Minus(uAllocatedBlksCntr[p], statusFreed[p], BlkMod)
  <2>1. Minus(uAllocatedBlksCntr[q], fwFreed[q], BlkMod) \in Nat
        /\ Minus(uAllocatedBlksCntr[q], statusFreed[q], BlkMod) \in Nat
    BY <1>3, Distance
  <2>2. \A p \in AC : Minus(uAllocatedBlksCntr[p], fwFreed[p], BlkMod)
                        <= Minus(uAllocatedBlksCntr[p], statusFreed[p], BlkMod)
    BY <1>1 DEF NeverOverbooked, Held
  <2>3. Minus(uAllocatedBlksCntr[q], fwFreed'[q], BlkMod)
          <= Minus(uAllocatedBlksCntr[q], statusFreed[q], BlkMod)
    BY <1>4, <1>5, <2>1, <2>2
  <2> QED BY <1>5, <2>2, <2>3
<1>8. NeverOverbooked'
  BY <1>1, <1>2, <1>7 DEF NeverOverbooked, Held, InFw, poolVars, descVars, statusVars
<1>9. BlksConserved' /\ ThreshGuaranteed'
  BY <1>2 DEF poolVars, ResourcesAccounted, BlksConserved, ThreshGuaranteed
<1> QED BY <1>6, <1>8, <1>9 DEF ResourcesAccounted

LEMMA FwReportsAccounted ==
  ASSUME ResourcesAccounted, FwReportsResult
  PROVE  ResourcesAccounted'
<1>1. TypeOK /\ NeverOverbooked
  BY DEF ResourcesAccounted
<1>2. /\ Minus(uDrvTxPacketsCntr, fwResults, CtrMod) > 0
      /\ fwResults' = Plus(fwResults, 1, CtrMod)
      /\ UNCHANGED <<poolVars, descVars, busyVars, statusVars, fwFreed,
                     uDrvTxPacketsCntr, uAllocatedBlksCntr, uFwFreedBlksCntr>>
  BY DEF FwReportsResult, InFw
<1>3. /\ uDrvTxPacketsCntr \in 0 .. CtrMod - 1 /\ fwResults \in 0 .. CtrMod - 1
      /\ statusResults \in 0 .. CtrMod - 1 /\ CtrMod \in Nat
  BY <1>1, TxHwQueueAssumption DEF TypeOK, Ctr
<1>4. /\ Minus(uDrvTxPacketsCntr, fwResults, CtrMod) \in Nat
      /\ Minus(uDrvTxPacketsCntr, statusResults, CtrMod) \in Nat
  BY <1>3, Distance
<1>5. 1 <= Minus(uDrvTxPacketsCntr, fwResults, CtrMod)
  BY <1>2, <1>4
<1>6. /\ fwResults' \in 0 .. CtrMod - 1
      /\ Minus(uDrvTxPacketsCntr, fwResults', CtrMod) = Minus(uDrvTxPacketsCntr, fwResults, CtrMod) - 1
  BY <1>2, <1>3, <1>5, CounterFollows
<1>7. Minus(uDrvTxPacketsCntr, fwResults', CtrMod) <= Minus(uDrvTxPacketsCntr, statusResults, CtrMod)
  <2>1. Minus(uDrvTxPacketsCntr, fwResults, CtrMod) <= Minus(uDrvTxPacketsCntr, statusResults, CtrMod)
    BY <1>1 DEF NeverOverbooked, InFw
  <2> QED BY <1>4, <1>6, <2>1
<1>8. TypeOK'
  BY <1>1, <1>2, <1>6 DEF TypeOK, Ctr, poolVars, descVars, busyVars, statusVars
<1>9. NeverOverbooked'
  BY <1>1, <1>2, <1>7 DEF NeverOverbooked, Held, InFw, poolVars, descVars, statusVars
<1>10. BlksConserved' /\ ThreshGuaranteed'
  BY <1>2 DEF poolVars, ResourcesAccounted, BlksConserved, ThreshGuaranteed
<1> QED BY <1>8, <1>9, <1>10 DEF ResourcesAccounted

LEMMA ReadStatusAccounted ==
  ASSUME ResourcesAccounted, ReadStatus
  PROVE  ResourcesAccounted'
<1>1. TypeOK /\ NeverOverbooked
  BY DEF ResourcesAccounted
<1>2. /\ statusFreed = uFwFreedBlksCntr /\ statusResults = uFwTxResultsCntr
      /\ statusFreed' = fwFreed /\ statusResults' = fwResults
      /\ UNCHANGED <<poolVars, descVars, busyVars, fwVars,
                     uDrvTxPacketsCntr, uAllocatedBlksCntr, uFwFreedBlksCntr>>
  BY DEF ReadStatus, StatusHandled
<1>3. TypeOK'
  BY <1>1, <1>2 DEF TypeOK, poolVars, descVars, busyVars, fwVars
<1>4. ASSUME NEW p \in AC
      PROVE  /\ Minus(uAllocatedBlksCntr[p], fwFreed[p], BlkMod) \in Nat
             /\ Minus(uAllocatedBlksCntr[p], fwFreed[p], BlkMod) <= uNumBlksUsed[p]
  <2>1. /\ uAllocatedBlksCntr[p] \in 0 .. BlkMod - 1 /\ fwFreed[p] \in 0 .. BlkMod - 1
        /\ BlkMod \in Nat
    BY <1>1, TxHwQueueAssumption DEF TypeOK, Blks
  <2>2. /\ Minus(uAllocatedBlksCntr[p], fwFreed[p], BlkMod)
             <= Minus(uAllocatedBlksCntr[p], statusFreed[p], BlkMod)
        /\ uNumBlksUsed[p] = Minus(uAllocatedBlksCntr[p], uFwFreedBlksCntr[p], BlkMod)
    BY <1>1 DEF NeverOverbooked, Held
  <2> QED BY <1>2, <2>1, <2>2, Distance
<1>5. /\ Minus(uDrvTxPacketsCntr, fwResults, CtrMod) \in Nat
      /\ Minus(uDrvTxPacketsCntr, fwResults, CtrMod) <= uNumUsedDescriptors
  <2>1. uDrvTxPacketsCntr \in 0 .. CtrMod - 1 /\ fwResults \in 0 .. CtrMod - 1 /\ CtrMod \in Nat
    BY <1>1, TxHwQueueAssumption DEF TypeOK, Ctr
  <2>2. /\ Minus(uDrvTxPacketsCntr, fwResults, CtrMod) <= Minus(uDrvTxPacketsCntr, statusResults, CtrMod)
        /\ uNumUsedDescriptors = Minus(uDrvTxPacketsCntr, uFwTxResultsCntr, CtrMod)
    BY <1>1 DEF NeverOverbooked, InFw
  <2> QED BY <1>2, <2>1, <2>2, Distance
<1>6. NeverOverbooked'
  BY <1>1, <1>2, <1>4, <1>5 DEF NeverOverbooked, Held, InFw, poolVars, descVars, fwVars
<1>7. BlksConserved' /\ ThreshGuaranteed'
  BY <1>2 DEF poolVars, ResourcesAccounted, BlksConserved, ThreshGuaranteed
<1> QED BY <1>3, <1>6, <1>7 DEF ResourcesAccounted

------------------------------------------------------------------------------
(* txHwQueue_UpdateFreeResources.                                          *)

\* What an update gives back to a queue, without the cases and the wrap-around.
LEMMA UpdateCounts ==
  ASSUME ResourcesAccounted, NEW q \in AC
  PROVE  /\ Seen(q) \in Nat /\ uNumBlksUsed[q] \in Nat /\ Seen(q) <= uNumBlksUsed[q]
         /\ NewUsed(q) = Seen(q)
         /\ ToFree(q) = uNumBlksUsed[q] - Seen(q)
         /\ NewReserved(q) = IF Seen(q) < Thresh[q] THEN Thresh[q] - Seen(q) ELSE 0
         /\ ToReserve(q) = NewReserved(q) - uNumBlksReserved[q]
         /\ ToReserve(q) \in Nat /\ ToFree(q) \in Nat /\ NewReserved(q) \in Nat
         /\ ToReserve(q) <= ToFree(q)
<1>1. TypeOK /\ BlksConserved /\ ThreshGuaranteed /\ NeverOverbooked
  BY DEF ResourcesAccounted
<1>2. /\ uAllocatedBlksCntr[q] \in 0 .. BlkMod - 1 /\ statusFreed[q] \in 0 .. BlkMod - 1
      /\ BlkMod \in Nat
  BY <1>1, TxHwQueueAssumption DEF TypeOK, Blks
<1>3. Seen(q) \in Nat
  BY <1>2, Distance DEF Seen
<1>4. /\ Seen(q) <= uNumBlksUsed[q]
      /\ uNumBlksUsed[q] = Minus(uAllocatedBlksCntr[q], uFwFreedBlksCntr[q], BlkMod)
  BY <1>1 DEF NeverOverbooked, Seen
<1>5. uNumBlksUsed[q] \in Nat /\ Thresh[q] \in Nat /\ uNumBlksReserved[q] \in Nat
  BY <1>1, Facts
<1>6. NewUsed(q) = Seen(q)
  BY <1>4 DEF NewUsed, Seen
<1>7. ToFree(q) = uNumBlksUsed[q] - Seen(q)
  BY <1>2, <1>3, <1>4, <1>5, <1>6, NoBorrow DEF ToFree
<1>8. uNumBlksReserved[q] =
        IF uNumBlksUsed[q] < Thresh[q] THEN Thresh[q] - uNumBlksUsed[q] ELSE 0
  BY <1>1 DEF ThreshGuaranteed
<1>9. NewReserved(q) = IF Seen(q) < Thresh[q] THEN Thresh[q] - Seen(q) ELSE 0
  <2>1. CASE statusFreed[q] = uFwFreedBlksCntr[q]
    <3>1. Seen(q) = uNumBlksUsed[q]
      BY <1>4, <2>1 DEF Seen
    <3> QED BY <1>8, <2>1, <3>1 DEF NewReserved
  <2>2. CASE statusFreed[q] # uFwFreedBlksCntr[q] /\ Seen(q) < Thresh[q]
    BY <1>6, <2>2 DEF NewReserved
  <2>3. CASE statusFreed[q] # uFwFreedBlksCntr[q] /\ ~(Seen(q) < Thresh[q])
    <3>1. NewReserved(q) = uNumBlksReserved[q]
      BY <1>6, <2>3 DEF NewReserved
    <3> QED BY <1>3, <1>4, <1>5, <1>8, <2>3, <3>1
  <2> QED BY <2>1, <2>2, <2>3
<1>10. ToReserve(q) =
         IF Seen(q) < Thresh[q]
         THEN IF uNumBlksUsed[q] - Seen(q) > NewReserved(q) THEN NewReserved(q)
              ELSE uNumBlksUsed[q] - Seen(q)
         ELSE 0
  BY <1>6, <1>7 DEF ToReserve
<1>11. ToReserve(q) = NewReserved(q) - uNumBlksReserved[q]
  <2>1. CASE Seen(q) < Thresh[q] /\ uNumBlksUsed[q] < Thresh[q]
    BY <1>3, <1>4, <1>5, <1>8, <1>9, <1>10, <2>1
  <2>2. CASE Seen(q) < Thresh[q] /\ ~(uNumBlksUsed[q] < Thresh[q])
    BY <1>3, <1>4, <1>5, <1>8, <1>9, <1>10, <2>2
  <2>3. CASE ~(Seen(q) < Thresh[q])
    BY <1>3, <1>4, <1>5, <1>8, <1>9, <1>10, <2>3
  <2> QED BY <2>1, <2>2, <2>3
<1>12. NewReserved(q) \in Nat
  BY <1>3, <1>5, <1>9
<1>13. ToFree(q) \in Nat
  BY <1>3, <1>4, <1>5, <1>7
<1>14. ToReserve(q) \in Nat /\ ToReserve(q) <= ToFree(q)
  BY <1>3, <1>4, <1>5, <1>7, <1>10, <1>12, <1>13
<1> QED BY <1>3, <1>4, <1>5, <1>6, <1>7, <1>9, <1>11, <1>12, <1>13, <1>14

LEMMA UpdateAccounted ==
  ASSUME ResourcesAccounted, UpdateFreeResources
  PROVE  ResourcesAccounted'
<1> DEFINE freed == [q \in AC |-> ToFree(q)]
           reserved == [q \in AC |-> ToReserve(q)]
<1>1. TypeOK /\ BlksConserved /\ ThreshGuaranteed /\ NeverOverbooked
  BY DEF ResourcesAccounted
<1>2. /\ uNumBlksUsed' = [q \in AC |-> NewUsed(q)]
      /\ uNumBlksReserved' = [q \in AC |-> NewReserved(q)]
      /\ uNumTotalBlksFree' = PlusAll(uNumTotalBlksFree, freed, BlkMod)
      /\ uNumTotalBlksReserved' = PlusAll(uNumTotalBlksReserved, reserved, BlkMod)
      /\ uFwFreedBlksCntr' = statusFreed /\ uFwTxResultsCntr' = statusResults
      /\ UNCHANGED <<uNumBlksCausedBusy, fwFreed, fwResults, statusFreed, statusResults,
                     uDrvTxPacketsCntr, uAllocatedBlksCntr>>
      /\ bQueueBusy' = [q \in AC |-> bQueueBusy[q] /\ ~Enough(q)]
  BY DEF UpdateFreeResources, fwVars, statusVars
<1>3. /\ uNumBlksUsed' \in [AC -> Nat] /\ uNumBlksReserved' \in [AC -> Nat]
      /\ freed \in [AC -> Nat] /\ reserved \in [AC -> Nat]
  <2>1. \A q \in AC : NewUsed(q) \in Nat /\ NewReserved(q) \in Nat /\ ToFree(q) \in Nat /\ ToReserve(q) \in Nat
    BY UpdateCounts
  <2> QED BY <1>2, <2>1
<1>4. Total(freed) = Total(uNumBlksUsed) - Total(uNumBlksUsed')
  <2>1. \A q \in AC : freed[q] = uNumBlksUsed[q] - uNumBlksUsed'[q]
    BY <1>2, UpdateCounts
  <2> HIDE DEF freed
  <2> QED BY <1>1, <1>3, <2>1, TotalDifference, Facts
<1>5. Total(reserved) = Total(uNumBlksReserved') - Total(uNumBlksReserved)
  <2>1. \A q \in AC : reserved[q] = uNumBlksReserved'[q] - uNumBlksReserved[q]
    BY <1>2, UpdateCounts
  <2> HIDE DEF reserved
  <2> QED BY <1>1, <1>3, <2>1, TotalDifference, Facts
<1>6. Total(reserved) <= Total(freed)
  <2>1. \A q \in AC : reserved[q] <= freed[q]
    BY UpdateCounts
  <2> HIDE DEF freed, reserved
  <2> QED BY <1>3, <2>1, TotalMonotone
<1> HIDE DEF freed, reserved
<1>7. /\ Total(freed) \in Nat /\ Total(reserved) \in Nat
      /\ Total(uNumBlksUsed') \in Nat /\ Total(uNumBlksReserved') \in Nat
  BY <1>3, TotalType
<1>8. /\ uNumTotalBlksFree \in Nat /\ uNumTotalBlksReserved \in Nat
      /\ NumTotalBlks \in Nat /\ BlkMod \in Nat /\ NumTotalBlks < BlkMod
      /\ uNumTotalBlksFree + Total(uNumBlksUsed) = NumTotalBlks /\ Total(uNumBlksUsed) \in Nat
      /\ uNumTotalBlksReserved <= uNumTotalBlksFree
      /\ uNumTotalBlksReserved = Total(uNumBlksReserved)
  BY <1>1, Facts DEF ThreshGuaranteed
<1>9. uNumTotalBlksFree' = uNumTotalBlksFree + Total(freed)
  <2>1. uNumTotalBlksFree + Total(freed) < BlkMod
    BY <1>4, <1>7, <1>8
  <2> QED BY <1>2, <1>3, <1>8, <2>1, PlusAllIsSum
<1>10. uNumTotalBlksReserved' = uNumTotalBlksReserved + Total(reserved)
  <2>1. uNumTotalBlksReserved + Total(reserved) < BlkMod
    BY <1>4, <1>6, <1>7, <1>8
  <2> QED BY <1>2, <1>3, <1>8, <2>1, PlusAllIsSum
<1>11. BlksConserved'
  BY <1>4, <1>7, <1>8, <1>9 DEF BlksConserved
<1>12. ThreshGuaranteed'
  <2>1. uNumTotalBlksReserved' = Total(uNumBlksReserved')
    BY <1>5, <1>7, <1>8, <1>10
  <2>2. uNumTotalBlksReserved' <= uNumTotalBlksFree'
    BY <1>6, <1>7, <1>8, <1>9, <1>10
  <2>3. \A q \in AC : uNumBlksReserved'[q] =
          IF uNumBlksUsed'[q] < Thresh[q] THEN Thresh[q] - uNumBlksUsed'[q] ELSE 0
    BY <1>2, UpdateCounts
  <2> QED BY <2>1, <2>2, <2>3 DEF ThreshGuaranteed
<1>13. ASSUME NEW q \in AC
       PROVE  /\ uNumBlksUsed'[q] = Seen(q)
              /\ uNumBlksUsed'[q] \in Blks /\ uNumBlksReserved'[q] \in Blks
  <2>1. uNumBlksUsed'[q] = Seen(q)
    BY <1>2, UpdateCounts
  <2>2. uNumBlksUsed'[q] <= Total(uNumBlksUsed') /\ uNumBlksUsed'[q] \in Nat
    BY <1>3, TotalType
  <2>3. uNumBlksReserved'[q] <= Total(uNumBlksReserved') /\ uNumBlksReserved'[q] \in Nat
    BY <1>3, TotalType
  <2>4. Total(uNumBlksUsed') < BlkMod /\ Total(uNumBlksReserved') < BlkMod
    BY <1>4, <1>5, <1>6, <1>7, <1>8
  <2> QED BY <1>7, <1>8, <2>1, <2>2, <2>3, <2>4 DEF Blks
<1>14. /\ uNumUsedDescriptors' = Minus(uDrvTxPacketsCntr, statusResults, CtrMod)
       /\ uNumUsedDescriptors' \in 0 .. Descs
  <2>1. /\ uDrvTxPacketsCntr \in 0 .. CtrMod - 1 /\ statusResults \in 0 .. CtrMod - 1
        /\ CtrMod \in Nat /\ Descs \in Nat /\ uNumUsedDescriptors \in 0 .. Descs
    BY <1>1, TxHwQueueAssumption DEF TypeOK, Ctr
  <2>2. /\ Minus(uDrvTxPacketsCntr, statusResults, CtrMod) <= uNumUsedDescriptors
        /\ uNumUsedDescriptors = Minus(uDrvTxPacketsCntr, uFwTxResultsCntr, CtrMod)
    BY <1>1 DEF NeverOverbooked
  <2>3. uNumUsedDescriptors' = Minus(uDrvTxPacketsCntr, statusResults, CtrMod)
    BY <2>2 DEF UpdateFreeResources
  <2>4. Minus(uDrvTxPacketsCntr, statusResults, CtrMod) \in Nat
    BY <2>1, Distance
  <2> QED BY <2>1, <2>2, <2>3, <2>4
<1>15. TypeOK'
  <2>1. uNumTotalBlksFree' \in Blks /\ uNumTotalBlksReserved' \in Blks
    <3>1. uNumTotalBlksFree' \in Blks
      BY <1>4, <1>7, <1>8, <1>9 DEF Blks
    <3>2. uNumTotalBlksReserved' \in Blks
      BY <1>4, <1>6, <1>7, <1>8, <1>10 DEF Blks
    <3> QED BY <3>1, <3>2
  <2>2. uNumBlksUsed' \in [AC -> Blks] /\ uNumBlksReserved' \in [AC -> Blks]
    BY <1>2, <1>13
  <2>3. bQueueBusy' \in [AC -> BOOLEAN]
    BY <1>2
  <2> QED BY <1>1, <1>2, <1>14, <2>1, <2>2, <2>3 DEF TypeOK
<1>16. NeverOverbooked'
  <2>1. \A q \in AC : /\ Minus(uAllocatedBlksCntr[q], fwFreed[q], BlkMod) <= Seen(q)
                      /\ Seen(q) <= Seen(q)
    BY <1>1, UpdateCounts DEF NeverOverbooked, Held, Seen
  <2>2. Minus(uDrvTxPacketsCntr, fwResults, CtrMod) <= Minus(uDrvTxPacketsCntr, statusResults, CtrMod)
    BY <1>1 DEF NeverOverbooked, InFw
  <2>3. uNumUsedDescriptors' <= uNumUsedDescriptors'
    BY <1>14, TxHwQueueAssumption
  <2> QED BY <1>2, <1>13, <1>14, <2>1, <2>2, <2>3 DEF NeverOverbooked, Held, InFw, Seen
<1> QED BY <1>11, <1>12, <1>15, <1>16 DEF ResourcesAccounted

------------------------------------------------------------------------------
(* The theorems.                                                           *)

\* The state that txHwQueue_Restart sets up.
LEMMA ZeroTotal == Total(Zero) = 0 /\ Zero \in [AC -> Nat] /\ \A q \in AC : Zero[q] = 0
  BY DEF Total, Zero, AC

LEMMA InitAccounted == Init => ResourcesAccounted
<1> SUFFICES ASSUME Init PROVE ResourcesAccounted
  OBVIOUS
<1>1. /\ NumTotalBlks \in Nat /\ Descs \in Nat /\ BlkMod \in Nat /\ CtrMod \in Nat
      /\ NumTotalBlks < BlkMod /\ Descs < CtrMod /\ Thresh \in [AC -> Nat]
      /\ Total(Thresh) <= NumTotalBlks /\ Total(Thresh) \in Nat
      /\ \A q \in AC : Thresh[q] \in Nat /\ Thresh[q] <= Total(Thresh)
  BY TxHwQueueAssumption, TotalType
<1>2. 0 \in Blks /\ 0 \in Ctr /\ NumTotalBlks \in Blks /\ Total(Thresh) \in Blks
  BY <1>1 DEF Blks, Ctr
<1>3. \A q \in AC : Thresh[q] \in Blks
  BY <1>1 DEF Blks
<1>4. Thresh \in [AC -> Blks] /\ Zero \in [AC -> Blks]
  BY <1>1, <1>2, <1>3 DEF Zero
<1>5. TypeOK
  BY <1>1, <1>2, <1>4, ZeroTotal DEF Init, TypeOK
<1>6. BlksConserved
  BY <1>1, ZeroTotal DEF Init, BlksConserved
<1>7. ThreshGuaranteed
  <2>1. \A q \in AC : Thresh[q] = IF 0 < Thresh[q] THEN Thresh[q] - 0 ELSE 0
    BY <1>1
  <2> QED BY <1>1, <2>1, ZeroTotal DEF Init, ThreshGuaranteed
<1>8. NeverOverbooked
  <2>1. Minus(0, 0, BlkMod) = 0 /\ Minus(0, 0, CtrMod) = 0
    BY <1>1 DEF Minus
  <2> QED BY <2>1, ZeroTotal DEF Init, NeverOverbooked, Held, InFw
<1> QED BY <1>5, <1>6, <1>7, <1>8 DEF ResourcesAccounted

LEMMA RestartAccounted == Restart => ResourcesAccounted'
<1>1. Restart => Init'
  BY DEF Restart, Init
<1> QED BY <1>1, InitAccounted, PTL

LEMMA StutterAccounted == ResourcesAccounted /\ UNCHANGED hwVars => ResourcesAccounted'
  BY DEF ResourcesAccounted, TypeOK, BlksConserved, ThreshGuaranteed, NeverOverbooked, Held, InFw,
         hwVars, poolVars, descVars, busyVars, fwVars, statusVars

LEMMA NextAccounted == ResourcesAccounted /\ [Next]_hwVars => ResourcesAccounted'
<1> SUFFICES ASSUME ResourcesAccounted, [Next]_hwVars PROVE ResourcesAccounted'
  OBVIOUS
<1>1. CASE \E q \in AC, n \in Nat \ {0} : AllocResources(q, n)
  BY <1>1, AllocAccounted
<1>2. CASE \E q \in AC, n \in Nat \ {0} : FwFreesBlks(q, n)
  BY <1>2, FwFreesAccounted
<1>3. CASE FwReportsResult
  BY <1>3, FwReportsAccounted
<1>4. CASE ReadStatus
  BY <1>4, ReadStatusAccounted
<1>5. CASE UpdateFreeResources
  BY <1>5, UpdateAccounted
<1>6. CASE Restart
  BY <1>6, RestartAccounted
<1>7. CASE UNCHANGED hwVars
  BY <1>7, StutterAccounted
<1> QED BY <1>1, <1>2, <1>3, <1>4, <1>5, <1>6, <1>7 DEF Next

\* For every size of the memory, every threshold and every width of the counters, no
\* block is lost, each queue's threshold is kept for it, and nothing is taken for free
\* that the firmware holds: txHwQueue.c's accounts are right although the status that
\* they follow is old.
THEOREM SpecAccounted == Spec => []ResourcesAccounted
  BY InitAccounted, NextAccounted, PTL DEF Spec

LEMMA AvailableNext ==
  (TypeOK /\ BlksConserved /\ ThreshGuaranteed)' =>
    \A q \in AC :
      CheckResources(q)' =
        IF uNumUsedDescriptors' < Descs
        THEN uNumTotalBlksFree' - (uNumTotalBlksReserved' - uNumBlksReserved'[q]) ELSE 0
<1>1. TypeOK /\ BlksConserved /\ ThreshGuaranteed =>
        \A q \in AC :
          CheckResources(q) =
            IF uNumUsedDescriptors < Descs
            THEN uNumTotalBlksFree - (uNumTotalBlksReserved - uNumBlksReserved[q]) ELSE 0
  BY Available
<1>2. (TypeOK /\ BlksConserved /\ ThreshGuaranteed)' =>
        (\A q \in AC :
          CheckResources(q) =
            IF uNumUsedDescriptors < Descs
            THEN uNumTotalBlksFree - (uNumTotalBlksReserved - uNumBlksReserved[q]) ELSE 0)'
  BY <1>1, PTL
<1> QED BY <1>2

\* A packet takes room from the other queues too, or leaves it as it is.
LEMMA TakeLeaves ==
  ASSUME ResourcesAccounted, NEW q \in AC, NEW n \in Nat \ {0}, Take(q, n),
         ResourcesAccounted', NEW p \in AC
  PROVE  /\ CheckResources(p)' <= CheckResources(p)
         /\ p = q => CheckResources(p)' <= CheckResources(p) - n
         /\ CheckResources(p) \in Int /\ CheckResources(p)' \in Int
<1> DEFINE r == FromReserved(q, n)
<1>1. /\ TypeOK /\ BlksConserved /\ ThreshGuaranteed
      /\ TypeOK' /\ BlksConserved' /\ ThreshGuaranteed'
  BY DEF ResourcesAccounted
<1>2. /\ uNumTotalBlksFree \in Nat /\ uNumTotalBlksReserved \in Nat
      /\ uNumBlksReserved \in [AC -> Nat]
      /\ uNumTotalBlksReserved <= uNumTotalBlksFree
      /\ \A x \in AC : uNumBlksReserved[x] <= uNumTotalBlksReserved
      /\ uNumUsedDescriptors \in Nat /\ Descs \in Nat
  BY <1>1, Facts, TxHwQueueAssumption DEF ThreshGuaranteed, TypeOK
<1>3. /\ uNumUsedDescriptors < Descs
      /\ n <= uNumTotalBlksFree - (uNumTotalBlksReserved - uNumBlksReserved[q])
      /\ r \in Nat /\ r <= n /\ r <= uNumBlksReserved[q]
      /\ uNumTotalBlksFree' = uNumTotalBlksFree - n
      /\ uNumTotalBlksReserved' = uNumTotalBlksReserved - r
      /\ uNumBlksReserved' = [uNumBlksReserved EXCEPT ![q] = uNumBlksReserved[q] - r]
      /\ uNumUsedDescriptors' = uNumUsedDescriptors + 1
  BY TakeCounts DEF Take
<1> HIDE DEF r
<1>4. CheckResources(p) = uNumTotalBlksFree - (uNumTotalBlksReserved - uNumBlksReserved[p])
  BY <1>1, <1>3, Available
<1>5. CheckResources(p)' =
        IF uNumUsedDescriptors' < Descs
        THEN uNumTotalBlksFree' - (uNumTotalBlksReserved' - uNumBlksReserved'[p]) ELSE 0
  BY <1>1, AvailableNext
<1>6. CASE p = q
  <2>1. uNumBlksReserved'[p] = uNumBlksReserved[p] - r
    BY <1>2, <1>3, <1>6
  <2> QED BY <1>2, <1>3, <1>4, <1>5, <1>6, <2>1
<1>7. CASE p # q
  <2>1. uNumBlksReserved'[p] = uNumBlksReserved[p] /\ uNumBlksReserved[p] \in Nat
    BY <1>2, <1>3, <1>7
  <2> QED BY <1>2, <1>3, <1>4, <1>5, <1>7, <2>1
<1> QED BY <1>6, <1>7

LEMMA NextStopped ==
  ResourcesAccounted /\ ResourcesAccounted' /\ StoppedForAReason /\ [Next]_hwVars => StoppedForAReason'
<1> SUFFICES ASSUME ResourcesAccounted, ResourcesAccounted', StoppedForAReason, [Next]_hwVars,
                    NEW p \in AC, bQueueBusy'[p]
             PROVE  uNumBlksCausedBusy'[p] > CheckResources(p)'
  BY DEF StoppedForAReason
<1>1. /\ bQueueBusy \in [AC -> BOOLEAN] /\ uNumBlksCausedBusy \in [AC -> Nat]
      /\ bQueueBusy[p] => uNumBlksCausedBusy[p] > CheckResources(p)
  BY DEF ResourcesAccounted, TypeOK, StoppedForAReason
<1>2. ASSUME NEW q \in AC, NEW n \in Nat \ {0}, StopCurrent(q, n)
      PROVE  uNumBlksCausedBusy'[p] > CheckResources(p)'
  <2>1. /\ n > CheckResources(q)
        /\ uNumBlksCausedBusy' = [uNumBlksCausedBusy EXCEPT ![q] = n]
        /\ bQueueBusy' = [bQueueBusy EXCEPT ![q] = TRUE]
    BY <1>2 DEF StopCurrent, Stop
  <2>2. CheckResources(p)' = CheckResources(p)
    BY <1>2 DEF StopCurrent, CheckResources, poolVars, descVars
  <2>3. CASE p = q
    BY <1>1, <2>1, <2>2, <2>3
  <2>4. CASE p # q
    BY <1>1, <2>1, <2>2, <2>4
  <2> QED BY <2>3, <2>4
<1>3. ASSUME NEW q \in AC, NEW n \in Nat \ {0}, StopNext(q, n)
      PROVE  uNumBlksCausedBusy'[p] > CheckResources(p)'
  <2>1. /\ 2 * n > CheckResources(q)
        /\ uNumBlksCausedBusy' = [uNumBlksCausedBusy EXCEPT ![q] = n]
        /\ bQueueBusy' = [bQueueBusy EXCEPT ![q] = TRUE]
    BY <1>3 DEF StopNext, Stop
  <2>2. /\ CheckResources(p)' <= CheckResources(p)
        /\ p = q => CheckResources(p)' <= CheckResources(p) - n
        /\ CheckResources(p) \in Int /\ CheckResources(p)' \in Int
    BY <1>3, TakeLeaves DEF StopNext
  <2>3. CASE p = q
    <3>1. uNumBlksCausedBusy'[p] = n
      BY <1>1, <2>1, <2>3
    <3>2. CheckResources(p)' <= CheckResources(p) - n /\ 2 * n > CheckResources(p)
      BY <2>1, <2>2, <2>3
    <3> QED BY <2>2, <3>1, <3>2
  <2>4. CASE p # q
    <3>1. /\ uNumBlksCausedBusy'[p] = uNumBlksCausedBusy[p] /\ uNumBlksCausedBusy[p] \in Nat
          /\ uNumBlksCausedBusy[p] > CheckResources(p)
      BY <1>1, <2>1, <2>4
    <3> QED BY <2>2, <3>1
  <2> QED BY <2>3, <2>4
<1>4. ASSUME NEW q \in AC, NEW n \in Nat \ {0}, Success(q, n)
      PROVE  uNumBlksCausedBusy'[p] > CheckResources(p)'
  <2>1. /\ uNumBlksCausedBusy'[p] = uNumBlksCausedBusy[p] /\ uNumBlksCausedBusy[p] \in Nat
        /\ uNumBlksCausedBusy[p] > CheckResources(p)
    BY <1>1, <1>4 DEF Success, busyVars
  <2>2. /\ CheckResources(p)' <= CheckResources(p)
        /\ CheckResources(p) \in Int /\ CheckResources(p)' \in Int
    BY <1>4, TakeLeaves DEF Success
  <2> QED BY <2>1, <2>2
<1>5. ASSUME UNCHANGED <<poolVars, descVars, busyVars>>
      PROVE  uNumBlksCausedBusy'[p] > CheckResources(p)'
  BY <1>1, <1>5 DEF CheckResources, poolVars, descVars, busyVars
<1>6. CASE UpdateFreeResources
  <2>1. ~Enough(p) /\ uNumBlksCausedBusy' = uNumBlksCausedBusy
    BY <1>6 DEF UpdateFreeResources
  <2>2. CheckResources(p)' \in Int
    <3>1. /\ TypeOK' /\ BlksConserved' /\ ThreshGuaranteed'
      BY DEF ResourcesAccounted
    <3>2. /\ uNumTotalBlksFree' \in Int /\ uNumTotalBlksReserved' \in Int
          /\ uNumBlksReserved'[p] \in Int
      BY <3>1, TxHwQueueAssumption DEF TypeOK, Blks
    <3> QED BY <3>1, <3>2, AvailableNext
  <2> QED BY <1>1, <2>1, <2>2 DEF Enough
<1>7. CASE Restart
  BY <1>7 DEF Restart
<1>8. CASE \E q \in AC, n \in Nat \ {0} : AllocResources(q, n)
  BY <1>2, <1>3, <1>4, <1>8 DEF AllocResources
<1>9. CASE (\E q \in AC, n \in Nat \ {0} : FwFreesBlks(q, n)) \/ FwReportsResult \/ ReadStatus
  BY <1>5, <1>9 DEF FwFreesBlks, FwReportsResult, ReadStatus
<1>10. CASE UNCHANGED hwVars
  BY <1>5, <1>10 DEF hwVars
<1> QED BY <1>6, <1>7, <1>8, <1>9, <1>10 DEF Next

\* A queue that txHwQueue_AllocResources stopped is started again by the very update
\* that gives it the room it was stopped for, whatever the other queues take meanwhile.
THEOREM SpecStopped == Spec => []StoppedForAReason
<1>1. Init => StoppedForAReason
  BY DEF Init, StoppedForAReason
<1> QED BY <1>1, SpecAccounted, NextStopped, PTL DEF Spec

------------------------------------------------------------------------------
(* The number of blocks.                                                   *)

\* The estimate of txHwQueue_AllocResources is never short of what a packet needs: the
\* packet, the 20 bytes and the longer header fit in the blocks of 252 bytes asked for
\* even without the two spare ones.  The estimate divides by 256 and makes up for it with
\* two blocks at most, which is enough for 53 blocks, more than 13 kilobytes; an Ethernet
\* packet has 1514 bytes.
THEOREM BlksSuffice ==
  ASSUME NEW len \in Nat, (len + 20) \div 256 <= 53
  PROVE  (NumBlksToAlloc(len) - 2) * 252 >= len + 20 + 48 - 14
<1> DEFINE b == (len + 20) \div 256
           r == (len + 20) % 256
<1>1. b \in Nat /\ r \in 0 .. 255 /\ len + 20 = 256 * b + r /\ b <= 53
  OBVIOUS
<1>2. NumBlksToAlloc(len) - 2 = b + (IF 4 * b + r + 48 - 14 > 252 THEN 2 ELSE 1)
  BY DEF NumBlksToAlloc
<1> HIDE DEF b, r
<1>3. CASE 4 * b + r + 48 - 14 > 252
  BY <1>1, <1>2, <1>3
<1>4. CASE ~(4 * b + r + 48 - 14 > 252)
  BY <1>1, <1>2, <1>4
<1> QED BY <1>3, <1>4

------------------------------------------------------------------------------
(* The packets that reach the firmware are packets that were put in.       *)

Packets == [ac : AC, len : Lens]

Events == {"CLOSE", "MGMT", "EAPOL", "OPEN", "QUEUES_EMPTY", "QUEUES_NOT_EMPTY"}

Calls ==
  [call : {"runSchedulerNotFromSm", "ifEmpty"}]
    \union [call : {"RunScheduler"}, idle : Nat]
    \union [call : {"runScheduler"}, q : MgmtQs]
    \union [call : {"mgmtQueuesSM"}, event : Events]
    \union [call : {"txMgmtQ_UpdateBusyMap"}, busy : BOOLEAN]
    \union [call : {"Xmit", "Requeue"}, q : Queues, pkt : Packets, idle : Nat]

PathOK ==
  /\ aQueues \in [Queues -> Seq(Packets)]
  /\ todo \in Seq(Calls)
  /\ highestAdmittedAc \in [AC -> AC]
  /\ uLastQueId \in AC

LEMMA CallsMade ==
  /\ Call("runSchedulerNotFromSm") \in Calls /\ Call("ifEmpty") \in Calls
  /\ \A i \in Nat : RunScheduler(i) \in Calls
  /\ \A q \in MgmtQs : RunMgmtScheduler(q) \in Calls
  /\ \A e \in Events : MgmtQueuesSM(e) \in Calls
  /\ \A b \in BOOLEAN : UpdateMgmtBusyMap(b) \in Calls
  /\ \A q \in Queues, pkt \in Packets, i \in Nat :
       Handling("Xmit", q, pkt, i) \in Calls /\ Handling("Requeue", q, pkt, i) \in Calls
  BY DEF Calls, Call, RunScheduler, RunMgmtScheduler, MgmtQueuesSM, UpdateMgmtBusyMap, Handling

LEMMA CallsRead ==
  ASSUME NEW c \in Calls
  PROVE  /\ c.call \in {"Xmit", "Requeue"} => c.q \in Queues /\ c.pkt \in Packets /\ c.idle \in Nat
         /\ c.call = "RunScheduler" => c.idle \in Nat
         /\ c.call = "runScheduler" => c.q \in MgmtQs
  BY DEF Calls

LEMMA Singles ==
  ASSUME NEW S
  PROVE  /\ <<>> \in Seq(S)
         /\ \A a \in S : <<a>> \in Seq(S)
         /\ \A a, b \in S : <<a, b>> \in Seq(S)
  OBVIOUS

LEMMA StartOK ==
  ASSUME NEW calls \in Seq(Calls), Start(calls)
  PROVE  todo' \in Seq(Calls)
  BY DEF Start

LEMMA ReturnOK ==
  ASSUME todo \in Seq(Calls), todo # <<>>, NEW calls \in Seq(Calls), Return(calls)
  PROVE  todo' \in Seq(Calls)
<1>1. Tail(todo) \in Seq(Calls)
  BY HeadTailProperties
<1> QED BY <1>1, ConcatProperties DEF Return

LEMMA CurrentOK ==
  ASSUME PathOK, NEW name, Calling(name)
  PROVE  Current \in Calls /\ Current.call = name /\ todo # <<>>
  BY HeadTailProperties DEF PathOK, Calling, Current

LEMMA BlksPositive == \A len \in Nat : NumBlksToAlloc(len) \in Nat \ {0}
<1> SUFFICES ASSUME NEW len \in Nat PROVE NumBlksToAlloc(len) \in Nat \ {0}
  OBVIOUS
<1>1. (len + 20) \div 256 \in Nat
  OBVIOUS
<1> QED BY <1>1 DEF NumBlksToAlloc

LEMMA PutOK ==
  ASSUME PathOK, NEW q \in Queues, NEW pkt \in Packets, Put(q, pkt) \/ PutBack(q, pkt)
  PROVE  aQueues' \in [Queues -> Seq(Packets)]
<1>1. aQueues[q] \in Seq(Packets)
  BY DEF PathOK
<1>2. Append(aQueues[q], pkt) \in Seq(Packets)
  BY <1>1, AppendProperties
<1>3. <<pkt>> \o aQueues[q] \in Seq(Packets)
  BY <1>1, ConcatProperties, Singles
<1>4. CASE Put(q, pkt)
  BY <1>1, <1>2, <1>4 DEF Put, PathOK
<1>5. CASE PutBack(q, pkt)
  BY <1>1, <1>3, <1>5 DEF PutBack, PathOK
<1> QED BY <1>4, <1>5

\* A scheduler takes the first packet of a queue.
LEMMA TakenOK ==
  ASSUME PathOK, NEW q \in Queues, aQueues[q] # <<>>
  PROVE  /\ Head(aQueues[q]) \in Packets
         /\ [aQueues EXCEPT ![q] = Tail(@)] \in [Queues -> Seq(Packets)]
<1>1. aQueues[q] \in Seq(Packets)
  BY DEF PathOK
<1>2. Head(aQueues[q]) \in Packets /\ Tail(aQueues[q]) \in Seq(Packets)
  BY <1>1, HeadTailProperties
<1> QED BY <1>2 DEF PathOK

------------------------------------------------------------------------------
(* Every action keeps PathOK and is an action of TxHwQueue.                *)


LEMMA InsertOK ==
  ASSUME PathOK, NEW q \in AC, NEW len \in Lens, InsertPacket(q, len)
  PROVE  PathOK' /\ UNCHANGED hwVars
<1>1. [ac |-> q, len |-> len] \in Packets /\ q \in Queues
  BY DEF Packets, Queues
<1> QED BY <1>1, PutOK DEF InsertPacket, PathOK, ctrlVars

LEMMA EapolOK ==
  ASSUME PathOK, NEW len \in Lens, XmitEapol(len)
  PROVE  PathOK' /\ UNCHANGED hwVars
<1>1. [ac |-> "VO", len |-> len] \in Packets /\ "EAPOL" \in Queues
  BY DEF Packets, Queues, AC, MgmtQs
<1> QED BY <1>1, PutOK DEF XmitEapol, PathOK, ctrlVars

LEMMA MgmtOK ==
  ASSUME PathOK, NEW len \in Lens, XmitMgmt(len)
  PROVE  PathOK' /\ UNCHANGED hwVars
<1>1. [ac |-> "VO", len |-> len] \in Packets /\ "MGMT" \in Queues
  BY DEF Packets, Queues, AC, MgmtQs
<1>2. aQueues' \in [Queues -> Seq(Packets)]
  BY <1>1, PutOK DEF XmitMgmt
<1>3. todo' \in Seq(Calls)
  <2>1. <<MgmtQueuesSM("QUEUES_NOT_EMPTY")>> \in Seq(Calls) /\ <<>> \in Seq(Calls)
    <3>1. MgmtQueuesSM("QUEUES_NOT_EMPTY") \in Calls
      BY CallsMade DEF Events
    <3> QED BY <3>1, Singles
  <2> QED BY <2>1 DEF XmitMgmt, Start
<1> QED BY <1>2, <1>3 DEF XmitMgmt, PathOK, ctrlVars

\* What the schedulers and the state machine leave to be called.
LEMMA CallLists ==
  /\ <<>> \in Seq(Calls)
  /\ \A i \in Nat : <<RunScheduler(i)>> \in Seq(Calls)
  /\ \A q \in MgmtQs : <<RunMgmtScheduler(q)>> \in Seq(Calls)
  /\ \A q \in Queues : NextMgmt(q) \in Seq(Calls) /\ Sent(q) \in Seq(Calls)
  /\ \A e \in Events : <<MgmtQueuesSM(e)>> \in Seq(Calls)
  /\ \A b \in BOOLEAN : <<RunScheduler(0), UpdateMgmtBusyMap(b)>> \in Seq(Calls)
  /\ <<Call("runSchedulerNotFromSm")>> \in Seq(Calls)
  /\ <<RunMgmtScheduler("MGMT"), Call("ifEmpty")>> \in Seq(Calls)
  /\ \A q \in Queues, pkt \in Packets, i \in Nat :
       /\ <<Handling("Xmit", q, pkt, i)>> \in Seq(Calls)
       /\ <<Handling("Requeue", q, pkt, i)>> \in Seq(Calls)
<1>1. "MGMT" \in MgmtQs /\ "EAPOL" \in MgmtQs /\ 0 \in Nat
  BY DEF MgmtQs
<1>2. <<>> \in Seq(Calls)
  BY Singles
<1>3. \A q \in MgmtQs : <<RunMgmtScheduler(q)>> \in Seq(Calls)
  BY CallsMade, Singles
<1>4. \A i \in Nat : <<RunScheduler(i)>> \in Seq(Calls)
  BY CallsMade, Singles
<1>5. \A q \in Queues : NextMgmt(q) \in Seq(Calls) /\ Sent(q) \in Seq(Calls)
  BY <1>1, <1>2, <1>3, <1>4 DEF NextMgmt, Sent
<1>6. \A e \in Events : <<MgmtQueuesSM(e)>> \in Seq(Calls)
  BY CallsMade, Singles
<1>7. \A b \in BOOLEAN : <<RunScheduler(0), UpdateMgmtBusyMap(b)>> \in Seq(Calls)
  BY <1>1, CallsMade, Singles
<1>8. <<Call("runSchedulerNotFromSm")>> \in Seq(Calls)
  BY CallsMade, Singles
<1>9. <<RunMgmtScheduler("MGMT"), Call("ifEmpty")>> \in Seq(Calls)
  BY <1>1, CallsMade, Singles
<1>10. \A q \in Queues, pkt \in Packets, i \in Nat :
         /\ <<Handling("Xmit", q, pkt, i)>> \in Seq(Calls)
         /\ <<Handling("Requeue", q, pkt, i)>> \in Seq(Calls)
  BY CallsMade, Singles
<1> QED BY <1>2, <1>3, <1>4, <1>5, <1>6, <1>7, <1>8, <1>9, <1>10

LEMMA SchedulerEndsOK ==
  ASSUME PathOK, SchedulerEnds
  PROVE  PathOK' /\ UNCHANGED hwVars
<1>1. todo' \in Seq(Calls)
  BY CurrentOK, CallLists, ReturnOK DEF SchedulerEnds, PathOK
<1> QED BY <1>1 DEF SchedulerEnds, PathOK, ctrlVars

LEMMA SchedulerTurnsOK ==
  ASSUME PathOK, SchedulerTurns
  PROVE  PathOK' /\ UNCHANGED hwVars
<1> DEFINE q == uLastQueId'
<1>1. q \in AC /\ q \in Queues
  BY DEF SchedulerTurns, Following, AC, PathOK, Queues
<1>2. todo # <<>> /\ Current.idle + 1 \in Nat
  BY CurrentOK, CallsRead DEF SchedulerTurns
<1>3. CASE aQueueBusy[q] \/ aQueues[q] = <<>>
  <2>1. Return(<<RunScheduler(Current.idle + 1)>>) /\ aQueues' = aQueues
    BY <1>3 DEF SchedulerTurns
  <2>2. todo' \in Seq(Calls)
    BY <1>2, <2>1, CallLists, ReturnOK DEF PathOK
  <2> QED BY <1>1, <2>1, <2>2 DEF SchedulerTurns, PathOK, ctrlVars
<1>4. CASE ~(aQueueBusy[q] \/ aQueues[q] = <<>>)
  <2>1. /\ aQueues' = [aQueues EXCEPT ![q] = Tail(@)]
        /\ Return(<<Handling("Xmit", q, Head(aQueues[q]), Current.idle + 1)>>)
    BY <1>4 DEF SchedulerTurns
  <2>2. Head(aQueues[q]) \in Packets /\ aQueues' \in [Queues -> Seq(Packets)]
    BY <1>1, <1>4, <2>1, TakenOK
  <2>3. <<Handling("Xmit", q, Head(aQueues[q]), Current.idle + 1)>> \in Seq(Calls)
    BY <1>1, <1>2, <2>2, CallLists
  <2>4. todo' \in Seq(Calls)
    BY <1>2, <2>1, <2>3, ReturnOK DEF PathOK
  <2> QED BY <1>1, <2>2, <2>4 DEF SchedulerTurns, PathOK, ctrlVars
<1> QED BY <1>3, <1>4

LEMMA MgmtTurnsOK ==
  ASSUME PathOK, MgmtSchedulerTurns
  PROVE  PathOK' /\ UNCHANGED hwVars
<1> DEFINE q == Current.q
<1>1. todo # <<>> /\ q \in MgmtQs /\ q \in Queues /\ todo \in Seq(Calls)
  BY CurrentOK, CallsRead DEF MgmtSchedulerTurns, Queues, PathOK
<1>2. ASSUME aQueues' \in [Queues -> Seq(Packets)], todo' \in Seq(Calls)
      PROVE  PathOK' /\ UNCHANGED hwVars
  BY <1>2 DEF MgmtSchedulerTurns, PathOK, ctrlVars
<1>3. CASE ~bMgmtPortEnable \/ aQueueBusy[q] \/ ~aQueueEnabledBySM[q] \/ aQueues[q] = <<>>
  <2>1. (Return(<<>>) \/ Return(NextMgmt(q))) /\ aQueues' = aQueues
    BY <1>3 DEF MgmtSchedulerTurns
  <2>2. todo' \in Seq(Calls)
    BY <1>1, <2>1, CallLists, ReturnOK
  <2> QED BY <1>2, <2>1, <2>2 DEF PathOK
<1>4. CASE ~(~bMgmtPortEnable \/ aQueueBusy[q] \/ ~aQueueEnabledBySM[q] \/ aQueues[q] = <<>>)
  <2>1. /\ aQueues' = [aQueues EXCEPT ![q] = Tail(@)]
        /\ Return(<<Handling("Xmit", q, Head(aQueues[q]), 0)>>)
    BY <1>4 DEF MgmtSchedulerTurns
  <2>2. Head(aQueues[q]) \in Packets /\ aQueues' \in [Queues -> Seq(Packets)]
    BY <1>1, <1>4, <2>1, TakenOK
  <2>3. <<Handling("Xmit", q, Head(aQueues[q]), 0)>> \in Seq(Calls)
    BY <1>1, <2>2, CallLists
  <2>4. todo' \in Seq(Calls)
    BY <1>1, <2>1, <2>3, ReturnOK
  <2> QED BY <1>2, <2>2, <2>4
<1> QED BY <1>3, <1>4

LEMMA NotFromSmOK ==
  ASSUME PathOK, RunSchedulerNotFromSm \/ IfEmpty
  PROVE  PathOK' /\ UNCHANGED hwVars
<1>1. todo \in Seq(Calls) /\ todo # <<>>
  BY CurrentOK DEF PathOK, RunSchedulerNotFromSm, IfEmpty
<1>2. \/ Return(<<>>) \/ Return(<<RunMgmtScheduler("MGMT"), Call("ifEmpty")>>)
      \/ Return(<<MgmtQueuesSM("QUEUES_EMPTY")>>)
  BY DEF RunSchedulerNotFromSm, IfEmpty
<1>3. <<MgmtQueuesSM("QUEUES_EMPTY")>> \in Seq(Calls)
  BY CallLists DEF Events
<1>4. todo' \in Seq(Calls)
  BY <1>1, <1>2, <1>3, CallLists, ReturnOK
<1> QED BY <1>4 DEF RunSchedulerNotFromSm, IfEmpty, PathOK, ctrlVars

\* A packet meets the firmware's queues: txHwQueue_AllocResources.
LEMMA XmitOK ==
  ASSUME PathOK, Xmit
  PROVE  PathOK' /\ Next
<1> DEFINE q == Current.q
           pkt == Selected(Current.pkt)
           n == NumBlksToAlloc(pkt.len)
<1>1. /\ todo # <<>> /\ todo \in Seq(Calls)
      /\ q \in Queues /\ Current.pkt \in Packets /\ Current.idle \in Nat
  BY CurrentOK, CallsRead DEF Xmit, PathOK
<1>2. pkt \in Packets
  BY <1>1 DEF Selected, Packets, PathOK
<1>3. pkt.ac \in AC /\ n \in Nat \ {0}
  <2>1. pkt.ac \in AC /\ pkt.len \in Nat
    BY <1>2, TxPathAssumption DEF Packets
  <2> QED BY <2>1, BlksPositive
<1>4. /\ \/ StopCurrent(pkt.ac, n) /\ Return(<<Handling("Requeue", q, pkt, Current.idle)>>)
         \/ StopNext(pkt.ac, n) /\ Return(Sent(q))
         \/ Success(pkt.ac, n) /\ Return(Sent(q))
      /\ UNCHANGED <<aQueues, uLastQueId, highestAdmittedAc>>
  BY DEF Xmit
<1> HIDE DEF q, pkt, n
<1>5. todo' \in Seq(Calls)
  BY <1>1, <1>2, <1>4, CallLists, ReturnOK
<1>6. Next
  BY <1>3, <1>4 DEF Next, AllocResources
<1> QED BY <1>4, <1>5, <1>6 DEF PathOK

LEMMA RequeueOK ==
  ASSUME PathOK, Requeue
  PROVE  PathOK' /\ UNCHANGED hwVars
<1>1. /\ todo # <<>> /\ todo \in Seq(Calls)
      /\ Current.q \in Queues /\ Current.pkt \in Packets /\ Current.idle \in Nat
  BY CurrentOK, CallsRead DEF Requeue, PathOK
<1>2. aQueues' \in [Queues -> Seq(Packets)]
  BY <1>1, PutOK DEF Requeue
<1>3. Return(<<RunScheduler(Current.idle)>>) \/ Return(NextMgmt(Current.q))
  BY DEF Requeue
<1>4. todo' \in Seq(Calls)
  BY <1>1, <1>3, CallLists, ReturnOK
<1> QED BY <1>2, <1>4 DEF Requeue, PathOK, ctrlVars

LEMMA BusyMapOK ==
  ASSUME PathOK, MgmtUpdateBusyMap
  PROVE  PathOK' /\ UNCHANGED hwVars
<1>1. todo' \in Seq(Calls)
  BY CurrentOK, CallLists, ReturnOK DEF MgmtUpdateBusyMap, PathOK
<1> QED BY <1>1 DEF MgmtUpdateBusyMap, PathOK, ctrlVars

LEMMA WokenOK == Woken \in Seq(Calls)
  BY CallLists DEF Woken

LEMMA SmOK ==
  ASSUME PathOK, MgmtQueuesSMHandled
  PROVE  PathOK' /\ UNCHANGED hwVars
<1>1. todo \in Seq(Calls) /\ todo # <<>>
  BY CurrentOK DEF PathOK, MgmtQueuesSMHandled
<1>2. Return(Woken) \/ Return(<<RunMgmtScheduler("MGMT")>>) \/ Return(<<>>)
  BY DEF MgmtQueuesSMHandled
<1>3. "MGMT" \in MgmtQs
  BY DEF MgmtQs
<1>4. todo' \in Seq(Calls)
  BY <1>1, <1>2, <1>3, CallLists, WokenOK, ReturnOK
<1> QED BY <1>4 DEF MgmtQueuesSMHandled, PathOK, ctrlVars

LEMMA BackpressureOK ==
  ASSUME NEW freed, UpdateBackpressure(freed)
  PROVE  todo' \in Seq(Calls)
<1>1. BusyFor("MGMT", busyAcBitmap') \in BOOLEAN
  BY DEF BusyFor
<1> QED BY <1>1, CallLists, StartOK DEF UpdateBackpressure

LEMMA StatusOK ==
  ASSUME PathOK, HandleStatus
  PROVE  PathOK' /\ Next
<1>1. todo' \in Seq(Calls)
  BY BackpressureOK DEF HandleStatus, PathOK
<1> QED BY <1>1 DEF HandleStatus, PathOK, Next

\* The category that txCtrl_UpdateHighestAdmittedAcTable finds is one of the four.
LEMMA AdmittedOK ==
  ASSUME NEW ac \in AC, NEW a
  PROVE  Admitted(ac, a) \in AC
<1> DEFINE open == {i \in DOMAIN Below(ac) : Below(ac)[i] \notin a.required}
           first == CHOOSE i \in open : \A j \in open : i <= j
<1>1. /\ DOMAIN Below(ac) \subseteq 1 .. 4
      /\ \A i \in DOMAIN Below(ac) : Below(ac)[i] \in AC
  <2>1. CASE ac = "BK"
    BY <2>1 DEF Below, AC
  <2>2. CASE ac = "BE"
    BY <2>2 DEF Below, AC
  <2>3. CASE ac = "VI"
    BY <2>3 DEF Below, AC
  <2>4. CASE ac = "VO"
    BY <2>4 DEF Below, AC
  <2> QED BY <2>1, <2>2, <2>3, <2>4 DEF AC
<1>2. "BE" \in AC
  BY DEF AC
<1>3. ASSUME open # {} PROVE first \in open
  <2>1. \E i \in open : \A j \in open : i <= j
    BY <1>1, <1>3
  <2> QED BY <2>1
<1>4. CASE open # {}
  <2>1. Below(ac)[first] \in AC
    BY <1>1, <1>3, <1>4
  <2> QED BY <2>1, <1>2 DEF Admitted
<1>5. CASE open = {}
  BY <1>2, <1>5 DEF Admitted
<1> QED BY <1>4, <1>5

LEMMA MappingOK ==
  ASSUME PathOK, NEW a, UpdateQueuesMapping(a)
  PROVE  PathOK' /\ UNCHANGED hwVars
<1>1. highestAdmittedAc' \in [AC -> AC]
  BY AdmittedOK DEF UpdateQueuesMapping
<1>2. todo' \in Seq(Calls)
  <2> DEFINE busy == (highestAdmittedAc')[AcOf("MGMT")] \in busyAcBitmap
  <2>1. Start(<<RunScheduler(0), UpdateMgmtBusyMap(busy)>>)
    BY DEF UpdateQueuesMapping
  <2>2. busy \in BOOLEAN
    OBVIOUS
  <2> HIDE DEF busy
  <2>3. <<RunScheduler(0), UpdateMgmtBusyMap(busy)>> \in Seq(Calls)
    BY <2>2, CallLists
  <2> QED BY <2>1, <2>3, StartOK
<1> QED BY <1>1, <1>2 DEF UpdateQueuesMapping, PathOK

\* The connection, the requests and the recovery.
LEMMA EventsOK ==
  ASSUME PathOK,
         \/ \E state \in {"CLOSE", "MGMT", "EAPOL", "OPEN"} : SetConnState(state)
         \/ ServeData \/ ServeMgmt \/ PaceTimeout \/ StopActivities \/ EnableActivities
  PROVE  PathOK' /\ UNCHANGED hwVars
<1>1. \/ \E e \in Events : Start(<<MgmtQueuesSM(e)>>)
      \/ Start(<<RunScheduler(0)>>) \/ Start(<<>>) \/ Start(Woken)
  BY DEF SetConnState, ServeData, ServeMgmt, PaceTimeout, StopActivities, EnableActivities,
         Events
<1>2. todo' \in Seq(Calls)
  BY <1>1, CallLists, WokenOK, StartOK
<1> QED BY <1>2 DEF SetConnState, ServeData, ServeMgmt, PaceTimeout, StopActivities,
                   EnableActivities, PathOK, ctrlVars

LEMMA RecoveryOK ==
  ASSUME PathOK, FwReloaded \/ NotifyFwReset
  PROVE  PathOK' /\ [Next]_hwVars
<1>1. CASE FwReloaded
  BY <1>1 DEF FwReloaded, PathOK, ctrlVars, Next
<1>2. CASE NotifyFwReset
  BY <1>2, BackpressureOK DEF NotifyFwReset, PathOK
<1> QED BY <1>1, <1>2

LEMMA FirmwareOK ==
  ASSUME PathOK, Firmware
  PROVE  PathOK' /\ Next
<1>1. Next
  BY TxPathAssumption DEF Firmware, Next
<1> QED BY <1>1 DEF Firmware, PathOK, pathVars, ctrlVars

LEMMA PathStep == PathOK /\ [PathNext]_vars => PathOK' /\ [Next]_hwVars
<1> SUFFICES ASSUME PathOK, [PathNext]_vars PROVE PathOK' /\ [Next]_hwVars
  OBVIOUS
<1>1. CASE Packet
  BY <1>1, InsertOK, EapolOK, MgmtOK DEF Packet
<1>2. CASE Event
  BY <1>2, EventsOK, MappingOK DEF Event
<1>3. CASE Firmware
  BY <1>3, FirmwareOK
<1>4. CASE Driver
  BY <1>4, SchedulerEndsOK, SchedulerTurnsOK, MgmtTurnsOK, NotFromSmOK, XmitOK, RequeueOK,
     BusyMapOK, SmOK, StatusOK, EventsOK, RecoveryOK DEF Driver
<1>5. CASE UNCHANGED vars
  BY <1>5 DEF vars, pathVars, PathOK, ctrlVars
<1> QED BY <1>1, <1>2, <1>3, <1>4, <1>5 DEF PathNext

LEMMA PathInitOK == PathInit => PathOK /\ Init
<1> SUFFICES ASSUME PathInit PROVE PathOK /\ Init
  OBVIOUS
<1>1. aQueues \in [Queues -> Seq(Packets)]
  BY Singles DEF PathInit
<1>2. todo \in Seq(Calls)
  BY Singles DEF PathInit
<1> QED BY <1>1, <1>2 DEF PathInit, PathOK, AC

------------------------------------------------------------------------------
(* No packet is stranded: whoever owes a queue a look, while the driver's  *)
(* thread is in the middle of its calls.                                   *)

\* The call that is being made and the one that follows it.
NoCall == Call("none")
Now == IF todo = <<>> THEN NoCall ELSE Head(todo)
Later == IF Len(todo) > 1 THEN todo[2] ELSE NoCall

\* A packet of one of the queues is being sent or put back; the scheduler of a group is at
\* work or waits for such a packet.
Sending(c, qs) == c.call \in {"Xmit", "Requeue"} /\ c.q \in qs
DataCall(c) == c.call = "RunScheduler" \/ Sending(c, AC)
MgmtCall(c) == c.call = "runScheduler" \/ Sending(c, MgmtQs)

\* The states of mgmtQueuesSM, and the types that the invariant needs.
SmStates == {"CLOSE", "MGMT", "EAPOL", "OPEN_DATA", "OPEN_MGMT"}

BusyTypes ==
  /\ bQueueBusy \in [AC -> BOOLEAN] /\ aQueueBusy \in [Queues -> BOOLEAN]
  /\ busyAcBitmap \subseteq AC /\ eSmState \in SmStates

\* An event leads to one call after the other; the update of the data queues is followed
\* by that of the management queues, and the management scheduler, when the state machine
\* did not call it, by the test whether the queues are empty.
ShapeInv ==
  /\ Len(todo) <= 2
  /\ Later # NoCall => \/ DataCall(Now) /\ Later.call = "txMgmtQ_UpdateBusyMap"
                       \/ MgmtCall(Now) /\ Later.call = "ifEmpty"
  /\ MgmtCall(Now) /\ Later = NoCall => eSmState # "OPEN_MGMT"
  /\ Sending(Now, MgmtQs) => Now.q \in Lets(eSmState)
  /\ Now.call = "mgmtQueuesSM" =>
       /\ Now.event = "EAPOL" => eSmState \in {"CLOSE", "MGMT"}
       /\ Now.event = "OPEN" => eSmState = "EAPOL"

\* The port lets through the group that the state machine says, and none in a recovery.
PortInv ==
  /\ txSuspended <=> phase # "up"
  /\ queuesMuxState = IF eSmState = "OPEN_DATA" THEN "data" ELSE "mgmt"
  /\ bMgmtPortEnable <=> phase = "up" /\ eSmState # "OPEN_DATA"
  /\ bDataPortEnable <=> phase = "up" /\ eSmState = "OPEN_DATA"
  /\ \A q \in MgmtQs : aQueueEnabledBySM[q] <=> q \in Lets(eSmState)

\* The marks of the management queues are about to be replaced.
Updates(c) == c.call = "txMgmtQ_UpdateBusyMap"
Updating == Updates(Now) \/ Updates(Later)

\* Unless the firmware was just loaded, a queue is marked as busy only while the category
\* it is sent through is stopped, or the marks are about to be replaced.
BusyInv ==
  phase # "loaded" =>
    /\ \A ac \in busyAcBitmap : bQueueBusy[ac]
    /\ \A q \in AC : aQueueBusy[q] => bQueueBusy[highestAdmittedAc[q]]
    /\ \A q \in MgmtQs : aQueueBusy[q] => Updating \/ bQueueBusy[highestAdmittedAc["VO"]]
    /\ Updates(Now) /\ Now.busy => bQueueBusy[highestAdmittedAc["VO"]]
    /\ Updates(Later) /\ Later.busy => bQueueBusy[highestAdmittedAc["VO"]]

\* A packet that goes back waits for the category it was moved to, which is not moved on.
RefusedInv ==
  /\ \A ac \in AC : highestAdmittedAc[highestAdmittedAc[ac]] = highestAdmittedAc[ac]
  /\ Now.call = "Requeue" =>
       bQueueBusy[Now.pkt.ac] /\ highestAdmittedAc[Now.pkt.ac] = Now.pkt.ac

\* The turn before (see Following).
Preceding == [BE |-> "VO", BK |-> "BE", VI |-> "BK", VO |-> "VI"]

\* The queues that the data scheduler has passed in vain after i turns without a packet.
Passed(i) ==
  {q \in AC : \/ i >= 4
              \/ i >= 1 /\ q = uLastQueId
              \/ i >= 2 /\ q = Preceding[uLastQueId]
              \/ i >= 3 /\ q = Preceding[Preceding[uLastQueId]]}

\* Something will make the data scheduler look at the queue.
DataServed(q) ==
  \/ dataRequest \/ paceTimer \/ WaitsForRoom(q)
  \/ DataCall(Now) /\ q \notin Passed(Now.idle)
  \/ Sending(Now, AC) /\ q = Now.q

DataInv == bDataPortEnable => \A q \in AC : aQueues[q] # <<>> => DataServed(q)

\* Something will make the management scheduler look at the queue.
MgmtServed(q) ==
  \/ mgmtRequest \/ missed \/ WaitsForRoom(q) \/ Updating
  \/ Now.call = "runSchedulerNotFromSm"
  \/ Now.call = "mgmtQueuesSM" /\ Now.event \in {"CLOSE", "MGMT", "EAPOL", "QUEUES_NOT_EMPTY"}
  \/ MgmtCall(Now) /\ (Now.q = "MGMT" \/ q = "EAPOL")

MgmtInv == bMgmtPortEnable => \A q \in Lets(eSmState) : aQueues[q] # <<>> => MgmtServed(q)

\* Where the access to the port does not fit the management queues, it will be changed.
AccessInv ==
  /\ eSmState = "OPEN_DATA" /\ ~MgmtEmpty =>
       \/ mgmtRequest
       \/ Now.call = "mgmtQueuesSM" /\ Now.event \in {"CLOSE", "MGMT", "QUEUES_NOT_EMPTY"}
  /\ Now.call = "mgmtQueuesSM" /\ Now.event = "QUEUES_EMPTY" /\ ~MgmtEmpty => mgmtRequest
  /\ eSmState = "OPEN_MGMT" /\ MgmtEmpty =>
       \/ mgmtRequest \/ missed \/ Now.call \in {"mgmtQueuesSM", "ifEmpty"}
       \/ Later.call = "ifEmpty"

\* The inductive invariant.
CallsServed == /\ BusyTypes /\ ShapeInv /\ PortInv /\ BusyInv /\ RefusedInv
               /\ DataInv /\ MgmtInv /\ AccessInv

ServedInv == PathOK /\ CallsServed

\* The property follows.
LEMMA ServedNotStranded == ServedInv => NoPacketStranded
<1> SUFFICES ASSUME ServedInv, Idle, ~dataRequest, ~mgmtRequest, phase = "up", ~missed
             PROVE  /\ \A q \in MgmtQs : aQueues[q] # <<>> =>
                         \/ q \notin Lets(eSmState) /\ eSmState # "OPEN_DATA"
                         \/ WaitsForRoom(q)
                    /\ eSmState \in {"OPEN_DATA", "OPEN_MGMT"} =>
                         \A q \in AC : aQueues[q] # <<>> =>
                                          paceTimer \/ ~MgmtEmpty \/ WaitsForRoom(q)
  BY DEF NoPacketStranded
<1>1. Now = NoCall /\ Later = NoCall /\ NoCall.call = "none"
  <2>1. Len(todo) = 0
    BY DEF Idle
  <2> QED BY <2>1 DEF Idle, Now, Later, NoCall, Call
<1>2. ASSUME NEW q \in AC, aQueues[q] # <<>>, bDataPortEnable PROVE paceTimer \/ WaitsForRoom(q)
  BY <1>1, <1>2 DEF ServedInv, CallsServed, DataInv, DataServed, DataCall, Sending
<1>3. ASSUME NEW q \in Lets(eSmState), aQueues[q] # <<>>, bMgmtPortEnable PROVE WaitsForRoom(q)
  BY <1>1, <1>3 DEF ServedInv, CallsServed, MgmtInv, MgmtServed, MgmtCall, Sending, Updating,
      Updates
<1>4. (eSmState = "OPEN_DATA" => MgmtEmpty) /\ (eSmState = "OPEN_MGMT" => ~MgmtEmpty)
  BY <1>1 DEF ServedInv, CallsServed, AccessInv
<1>5. /\ bMgmtPortEnable <=> eSmState # "OPEN_DATA"
      /\ bDataPortEnable <=> eSmState = "OPEN_DATA"
  BY DEF ServedInv, CallsServed, PortInv
<1> QED BY <1>2, <1>3, <1>4, <1>5 DEF MgmtEmpty

------------------------------------------------------------------------------
(* Calls.                                                                  *)

\* What is read of the calls, when the call at work is named.
LEMMA CallsNow ==
  ASSUME PathOK
  PROVE  /\ Now \in Calls \union {NoCall} /\ Later \in Calls \union {NoCall}
         /\ Idle <=> Now = NoCall
         /\ NoCall \notin Calls /\ NoCall.call = "none"
         /\ \A name : Calling(name) => Current = Now /\ Now.call = name /\ Now \in Calls
<1>1. NoCall \notin Calls /\ NoCall.call = "none"
  BY DEF Calls, NoCall, Call
<1>2. todo \in Seq(Calls)
  BY DEF PathOK
<1>3. todo # <<>> => Head(todo) \in Calls
  BY <1>2, HeadTailProperties
<1>4. Len(todo) > 1 => todo[2] \in Calls
  BY <1>2
<1> QED BY <1>1, <1>2, <1>3, <1>4 DEF Now, Later, Idle, Calling, Current

\* There is one call or there are two.
LEMMA OneOrTwo == \A n \in Nat : n > 0 /\ n <= 2 => n = 1 \/ n = 2
  OBVIOUS

\* The call ends, and the one that follows it is next.
LEMMA Ended ==
  ASSUME PathOK, Len(todo) <= 2, todo # <<>>, Return(<<>>)
  PROVE  Now' = Later /\ Later' = NoCall /\ Len(todo') <= 2
<1>1. todo \in Seq(Calls) /\ Len(todo) \in Nat /\ Len(todo) > 0
  BY DEF PathOK
<1>2. todo' = Tail(todo)
  <2>1. Tail(todo) \in Seq(Calls)
    BY <1>1, HeadTailProperties
  <2> QED BY <2>1, ConcatEmptySeq DEF Return
<1>3. Len(todo') = Len(todo) - 1 /\ \A i \in 1 .. Len(todo) - 1 : todo'[i] = todo[i + 1]
  BY <1>1, <1>2
<1>4. CASE Len(todo) = 1
  <2>1. todo' = <<>>
    BY <1>1, <1>2, <1>4
  <2> QED BY <1>3, <1>4, <2>1 DEF Now, Later
<1>5. CASE Len(todo) = 2
  <2>1. todo' \in Seq(Calls) /\ Len(todo') = 1 /\ todo'[1] = todo[2]
    BY <1>1, <1>2, <1>3, <1>5, HeadTailProperties
  <2>2. todo' # <<>>
    BY <2>1, EmptySeq
  <2>3. Head(todo') = todo'[1]
    BY <2>1, <2>2
  <2> QED BY <1>3, <1>5, <2>1, <2>2, <2>3 DEF Now, Later
<1>6. Len(todo) = 1 \/ Len(todo) = 2
  BY <1>1, OneOrTwo
<1> QED BY <1>4, <1>5, <1>6

\* Another call takes the place of this one.
LEMMA Replaced ==
  ASSUME PathOK, Len(todo) <= 2, todo # <<>>, NEW c \in Calls, Return(<<c>>)
  PROVE  Now' = c /\ Later' = Later /\ Len(todo') <= 2
<1>1. todo \in Seq(Calls) /\ Len(todo) \in Nat /\ Len(todo) > 0
  BY DEF PathOK
<1>2. Tail(todo) \in Seq(Calls) /\ Len(Tail(todo)) = Len(todo) - 1
  BY <1>1, HeadTailProperties
<1>3. <<c>> \in Seq(Calls) /\ Len(<<c>>) = 1 /\ <<c>>[1] = c
  OBVIOUS
<1>4. todo' \in Seq(Calls) /\ Len(todo') = Len(todo) /\ todo'[1] = c
  BY <1>1, <1>2, <1>3, ConcatProperties DEF Return
<1>5. Len(todo) = 2 => todo'[2] = todo[2]
  <2> SUFFICES ASSUME Len(todo) = 2 PROVE todo'[2] = todo[2]
    OBVIOUS
  <2>1. todo'[2] = Tail(todo)[1]
    BY <1>2, <1>3, ConcatProperties DEF Return
  <2> QED BY <1>1, <2>1
<1>6. todo' # <<>> /\ Head(todo') = todo'[1]
  BY <1>1, <1>4
<1> QED BY <1>1, <1>4, <1>5, <1>6 DEF Now, Later

\* Two calls take the place of this one, which was the last.
LEMMA Followed ==
  ASSUME PathOK, Len(todo) <= 2, todo # <<>>, Later = NoCall,
         NEW c \in Calls, NEW d \in Calls, Return(<<c, d>>)
  PROVE  Now' = c /\ Later' = d /\ Len(todo') <= 2
<1>1. todo \in Seq(Calls) /\ Len(todo) \in Nat /\ Len(todo) > 0
  BY DEF PathOK
<1>2. Len(todo) = 1
  <2>1. NoCall \notin Calls
    BY CallsNow
  <2>2. Len(todo) = 2 => todo[2] \in Calls
    BY <1>1
  <2>3. Len(todo) # 2
    BY <2>1, <2>2 DEF Later
  <2> QED BY <1>1, <2>3, OneOrTwo
<1>3. Tail(todo) = <<>>
  <2>1. Tail(todo) \in Seq(Calls) /\ Len(Tail(todo)) = 0
    BY <1>1, <1>2, HeadTailProperties
  <2> QED BY <2>1, EmptySeq
<1>4. todo' = <<c, d>>
  <2>1. <<c, d>> \in Seq(Calls)
    OBVIOUS
  <2> QED BY <1>3, <2>1, ConcatEmptySeq DEF Return
<1> QED BY <1>4 DEF Now, Later

\* An event leads to no call, to one or to two.
LEMMA Begun ==
  ASSUME NEW c \in Calls, NEW d \in Calls
  PROVE  /\ Start(<<>>) => Now' = NoCall /\ Later' = NoCall /\ Len(todo') <= 2
         /\ Start(<<c>>) => Now' = c /\ Later' = NoCall /\ Len(todo') <= 2
         /\ Start(<<c, d>>) => Now' = c /\ Later' = d /\ Len(todo') <= 2
<1>1. Start(<<>>) => Now' = NoCall /\ Later' = NoCall /\ Len(todo') <= 2
  BY DEF Start, Now, Later
<1>2. ASSUME Start(<<c>>) PROVE Now' = c /\ Later' = NoCall /\ Len(todo') <= 2
  <2>1. todo' = <<c>> /\ <<c>> # <<>> /\ Len(<<c>>) = 1 /\ Head(<<c>>) = c
    BY <1>2 DEF Start
  <2> QED BY <2>1 DEF Now, Later
<1>3. ASSUME Start(<<c, d>>) PROVE Now' = c /\ Later' = d /\ Len(todo') <= 2
  <2>1. /\ todo' = <<c, d>> /\ <<c, d>> # <<>> /\ Len(<<c, d>>) = 2
        /\ Head(<<c, d>>) = c /\ <<c, d>>[2] = d
    BY <1>3 DEF Start
  <2> QED BY <2>1 DEF Now, Later
<1> QED BY <1>1, <1>2, <1>3

\* A step of another thread leaves the calls alone.
LEMMA SameCalls == todo' = todo => Now' = Now /\ Later' = Later /\ Len(todo') = Len(todo)
  BY DEF Now, Later

------------------------------------------------------------------------------
(* Queues.                                                                 *)

\* The two groups of queues, and what each state of mgmtQueuesSM lets through.
LEMMA MgmtQueues ==
  /\ AC \subseteq Queues /\ MgmtQs \subseteq Queues /\ AC \intersect MgmtQs = {}
  /\ MgmtQs = {"MGMT", "EAPOL"} /\ "MGMT" \notin AC /\ "EAPOL" \notin AC
  /\ \A state \in SmStates : Lets(state) \subseteq MgmtQs
  /\ Lets("CLOSE") = {} /\ Lets("OPEN_DATA") = {} /\ Lets("MGMT") = {"MGMT"}
  /\ Lets("EAPOL") = MgmtQs /\ Lets("OPEN_MGMT") = MgmtQs
  /\ \A q \in MgmtQs : AcOf(q) = "VO"
  /\ \A q \in AC : AcOf(q) = q
  /\ "VO" \in AC
<1>1. AC \intersect MgmtQs = {} /\ "MGMT" \notin AC /\ "EAPOL" \notin AC /\ "VO" \in AC
  BY DEF AC, MgmtQs
<1>2. /\ Lets("CLOSE") = {} /\ Lets("OPEN_DATA") = {} /\ Lets("MGMT") = {"MGMT"}
      /\ Lets("EAPOL") = MgmtQs /\ Lets("OPEN_MGMT") = MgmtQs
  BY DEF Lets
<1>3. \A state \in SmStates : Lets(state) \subseteq MgmtQs
  BY <1>2 DEF SmStates, MgmtQs
<1> QED BY <1>1, <1>2, <1>3 DEF AcOf, Queues, MgmtQs

\* A packet that comes does not change the first one, and there is one then.
LEMMA PutEffect ==
  ASSUME PathOK, NEW q \in Queues, NEW pkt \in Packets, Put(q, pkt)
  PROVE  /\ \A r \in Queues \ {q} : aQueues'[r] = aQueues[r]
         /\ aQueues'[q] # <<>>
         /\ \A r \in Queues : aQueues[r] # <<>> =>
              Head(aQueues'[r]) = Head(aQueues[r]) /\ Len(aQueues'[r]) >= Len(aQueues[r])
         /\ \A r \in Queues : aQueues[r] # <<>> => aQueues'[r] # <<>>
<1>1. aQueues \in [Queues -> Seq(Packets)] /\ QueueMax[q] \in Nat /\ QueueMax[q] > 0
  BY TxPathAssumption DEF PathOK
<1>2. \A r \in Queues \ {q} : aQueues'[r] = aQueues[r]
  BY <1>1 DEF Put
<1>3. \A r \in Queues : Len(aQueues[r]) \in Nat /\ aQueues[r] \in Seq(Packets)
  BY <1>1
<1>4. CASE Len(aQueues[q]) < QueueMax[q]
  <2>1. aQueues'[q] = Append(aQueues[q], pkt)
    BY <1>1, <1>4 DEF Put
  <2>2. /\ aQueues'[q] # <<>> /\ Len(aQueues'[q]) >= Len(aQueues[q])
        /\ aQueues[q] # <<>> => Head(aQueues'[q]) = Head(aQueues[q])
    BY <1>3, <2>1, AppendProperties
  <2> QED BY <1>2, <1>3, <2>2
<1>5. CASE ~(Len(aQueues[q]) < QueueMax[q])
  <2>1. aQueues'[q] = aQueues[q]
    BY <1>1, <1>5 DEF Put
  <2>2. aQueues[q] # <<>>
    BY <1>1, <1>3, <1>5, EmptySeq
  <2> QED BY <1>2, <1>3, <2>1, <2>2
<1> QED BY <1>4, <1>5

\* A queue that waits goes on waiting.
LEMMA WaitsKept ==
  ASSUME PathOK, PathOK', BusyTypes, NEW q \in Queues, aQueues[q] # <<>>, WaitsForRoom(q),
         Head(aQueues'[q]) = Head(aQueues[q]), Len(aQueues'[q]) >= Len(aQueues[q]),
         highestAdmittedAc' = highestAdmittedAc,
         \A ac \in AC : bQueueBusy[ac] => bQueueBusy'[ac]
  PROVE  WaitsForRoom(q)'
<1>1. /\ QueueMax[q] \in Nat /\ Len(aQueues[q]) \in Nat /\ Len(aQueues'[q]) \in Nat
      /\ aQueues[q] \in Seq(Packets)
  BY TxPathAssumption DEF PathOK
<1>2. highestAdmittedAc[AcOf(q)] \in AC /\ highestAdmittedAc[Head(aQueues[q]).ac] \in AC
  <2>1. Head(aQueues[q]) \in Packets
    BY <1>1, HeadTailProperties
  <2> QED BY <2>1 DEF PathOK, Packets, AcOf, AC
<1>3. CASE bQueueBusy[highestAdmittedAc[AcOf(q)]]
  BY <1>2, <1>3 DEF WaitsForRoom
<1>4. CASE bQueueBusy[highestAdmittedAc[Head(aQueues[q]).ac]]
  BY <1>2, <1>4 DEF WaitsForRoom
<1>5. CASE Len(aQueues[q]) >= QueueMax[q] /\ \E ac \in AC : bQueueBusy[ac]
  <2>1. Len(aQueues'[q]) >= QueueMax[q]
    BY <1>1, <1>5
  <2> QED BY <1>5, <2>1 DEF WaitsForRoom
<1> QED BY <1>3, <1>4, <1>5 DEF WaitsForRoom

------------------------------------------------------------------------------
(* The turns of the data scheduler.                                        *)

\* A round of the data scheduler that begins has passed no queue.
LEMMA PassedNone == Passed(0) = {}
  BY DEF Passed

\* After four turns without a packet it has passed all queues.
LEMMA PassedAll == \A i \in Nat : i >= 4 => Passed(i) = AC
  BY DEF Passed

\* A turn passes one queue more, the one whose turn it is.
LEMMA PassedTurn ==
  ASSUME uLastQueId \in AC, uLastQueId' = Following[uLastQueId], NEW i \in Nat, i < 4,
         NEW q \in AC, q \in Passed(i + 1)'
  PROVE  q = uLastQueId' \/ q \in Passed(i)
<1>1. Preceding[uLastQueId'] = uLastQueId
  BY DEF Preceding, Following, AC
<1>2. /\ Preceding[Preceding[Preceding[uLastQueId]]] = uLastQueId'
      /\ Preceding[uLastQueId] \in AC /\ Preceding[Preceding[uLastQueId]] \in AC
      /\ AC = {uLastQueId, Preceding[uLastQueId], Preceding[Preceding[uLastQueId]], uLastQueId'}
  <2>1. CASE uLastQueId = "BE"
    BY <2>1 DEF Preceding, Following, AC
  <2>2. CASE uLastQueId = "BK"
    BY <2>2 DEF Preceding, Following, AC
  <2>3. CASE uLastQueId = "VI"
    BY <2>3 DEF Preceding, Following, AC
  <2>4. CASE uLastQueId = "VO"
    BY <2>4 DEF Preceding, Following, AC
  <2> QED BY <2>1, <2>2, <2>3, <2>4 DEF AC
<1> HIDE DEF Preceding, Following
<1>3. /\ i + 1 >= 4 => i >= 3
      /\ i + 1 >= 3 => i >= 2
      /\ i + 1 >= 2 => i >= 1
  OBVIOUS
<1>4. \/ i + 1 >= 4 \/ q = uLastQueId'
      \/ i + 1 >= 2 /\ q = uLastQueId
      \/ i + 1 >= 3 /\ q = Preceding[uLastQueId]
  BY <1>1 DEF Passed
<1>5. CASE i + 1 >= 4
  BY <1>2, <1>3, <1>5 DEF Passed
<1> QED BY <1>3, <1>4, <1>5 DEF Passed

------------------------------------------------------------------------------
(* The admission.                                                          *)

\* The category that is used in the place of another one is used for itself.
LEMMA AdmittedTwice ==
  ASSUME NEW ac \in AC, NEW a
  PROVE  Admitted(Admitted(ac, a), a) = Admitted(ac, a)
<1> DEFINE open(c) == {i \in DOMAIN Below(c) : Below(c)[i] \notin a.required}
           first(c) == CHOOSE i \in open(c) : \A j \in open(c) : i <= j
<1>1. \A c \in AC : /\ DOMAIN Below(c) \subseteq 1 .. 4 /\ 1 \in DOMAIN Below(c)
                    /\ Below(c)[1] = c
                    /\ \E i \in DOMAIN Below(c) : Below(c)[i] = "BK"
                    /\ \A i \in DOMAIN Below(c) : Below(c)[i] \in AC
  <2> SUFFICES ASSUME NEW c \in AC
               PROVE  /\ DOMAIN Below(c) \subseteq 1 .. 4 /\ 1 \in DOMAIN Below(c)
                      /\ Below(c)[1] = c
                      /\ \E i \in DOMAIN Below(c) : Below(c)[i] = "BK"
                      /\ \A i \in DOMAIN Below(c) : Below(c)[i] \in AC
    OBVIOUS
  <2>1. CASE c = "BK"
    BY <2>1 DEF Below, AC
  <2>2. CASE c = "BE"
    BY <2>2 DEF Below, AC
  <2>3. CASE c = "VI"
    BY <2>3 DEF Below, AC
  <2>4. CASE c = "VO"
    BY <2>4 DEF Below, AC
  <2> QED BY <2>1, <2>2, <2>3, <2>4 DEF AC
<1>2. ASSUME NEW c \in AC, open(c) # {}
      PROVE  first(c) \in open(c) /\ \A j \in open(c) : first(c) <= j
  <2>1. \E i \in open(c) : \A j \in open(c) : i <= j
    BY <1>1, <1>2
  <2> QED BY <2>1
<1>3. ASSUME NEW c \in AC, c \in a.admitted \/ c \notin a.required PROVE Admitted(c, a) = c
  <2>1. CASE c \in a.admitted
    BY <2>1 DEF Admitted
  <2>2. CASE c \notin a.required
    <3>1. 1 \in open(c)
      BY <1>1, <2>2
    <3>2. first(c) = 1
      <4>1. first(c) \in open(c) /\ first(c) <= 1
        BY <1>2, <3>1
      <4>2. first(c) \in 1 .. 4
        BY <1>1, <4>1
      <4> HIDE DEF first
      <4> QED BY <4>1, <4>2
    <3> QED BY <1>1, <3>1, <3>2 DEF Admitted
  <2> QED BY <1>3, <2>1, <2>2
<1>4. CASE ac \in a.admitted
  BY <1>3, <1>4
<1>5. CASE ac \notin a.admitted /\ open(ac) # {}
  <2>1. Admitted(ac, a) = Below(ac)[first(ac)]
    BY <1>5 DEF Admitted
  <2>2. Below(ac)[first(ac)] \in AC /\ Below(ac)[first(ac)] \notin a.required
    BY <1>1, <1>2, <1>5
  <2> QED BY <1>3, <2>1, <2>2
<1>6. CASE ac \notin a.admitted /\ open(ac) = {}
  <2>1. Admitted(ac, a) = "BE"
    BY <1>6 DEF Admitted
  <2>2. "BK" \in a.required
    BY <1>1, <1>6
  <2>3. CASE "BE" \in a.admitted \/ "BE" \notin a.required
    BY <1>3, <2>1, <2>3 DEF AC
  <2>4. CASE ~("BE" \in a.admitted \/ "BE" \notin a.required)
    <3>1. open("BE") = {}
      BY <2>2, <2>4 DEF Below
    <3> QED BY <2>1, <2>4, <3>1 DEF Admitted
  <2> QED BY <2>3, <2>4
<1> QED BY <1>4, <1>5, <1>6

------------------------------------------------------------------------------
(* The network's thread and the firmware.                                  *)

\* The parts of the invariant that do not speak of the packets need nothing but these.
LEMMA FrameKept ==
  ASSUME ServedInv,
         UNCHANGED <<bQueueBusy, aQueueBusy, ctrlVars, portVars, smVars, phase, todo>>
  PROVE  BusyTypes' /\ ShapeInv' /\ PortInv' /\ BusyInv' /\ RefusedInv'
<1> USE SameCalls DEF ServedInv, CallsServed, ctrlVars, portVars, smVars
<1>1. BusyTypes' /\ PortInv'
  BY DEF BusyTypes, PortInv
<1>2. ShapeInv' /\ RefusedInv'
  BY DEF ShapeInv, RefusedInv
<1>3. BusyInv'
  BY DEF BusyInv, Updating
<1> QED BY <1>1, <1>2, <1>3

\* A data packet of the network: requested, paced, or the queue was owed a look before.
LEMMA InsertServed ==
  ASSUME ServedInv, PathOK', NEW q \in AC, NEW len \in Lens, InsertPacket(q, len)
  PROVE  CallsServed'
<1> USE DEF ServedInv, CallsServed
<1>1. /\ [ac |-> q, len |-> len] \in Packets /\ q \in Queues
      /\ Put(q, [ac |-> q, len |-> len])
  BY DEF Packets, Queues, InsertPacket
<1>2. /\ UNCHANGED <<bQueueBusy, aQueueBusy, highestAdmittedAc, bDataPortEnable, bMgmtPortEnable,
                     eSmState, uLastQueId, phase, missed, mgmtRequest, todo>>
      /\ UNCHANGED <<ctrlVars, portVars, smVars>>
      /\ Now' = Now /\ Later' = Later
  BY SameCalls DEF InsertPacket, hwVars, busyVars, ctrlVars, portVars, smVars
<1>3. BusyTypes' /\ ShapeInv' /\ PortInv' /\ BusyInv' /\ RefusedInv'
  BY <1>2, FrameKept
<1>4. \A r \in Queues : aQueues[r] # <<>> /\ WaitsForRoom(r) => WaitsForRoom(r)'
  BY <1>1, <1>2, PutEffect, WaitsKept
<1>5. /\ \A r \in Queues \ {q} : aQueues'[r] = aQueues[r]
      /\ \A r \in MgmtQs : aQueues'[r] = aQueues[r]
  BY <1>1, PutEffect, MgmtQueues
<1>6. DataInv'
  <2> SUFFICES ASSUME bDataPortEnable, NEW r \in AC, aQueues'[r] # <<>> PROVE DataServed(r)'
    BY <1>2 DEF DataInv
  <2> USE <1>2
  <2>1. ASSUME aQueues[r] # <<>> PROVE DataServed(r)'
    <3>1. DataServed(r) /\ r \in Queues
      BY <2>1, MgmtQueues DEF DataInv
    <3>2. dataRequest \/ paceTimer => dataRequest' \/ paceTimer'
      <4>1. CASE aQueueBusy[q] \/ Len(aQueues'[q]) > PaceThresh[q]
        BY <4>1 DEF InsertPacket
      <4>2. CASE ~(aQueueBusy[q] \/ Len(aQueues'[q]) > PaceThresh[q])
        <5>1. Len(aQueues'[q]) \in Nat /\ PaceThresh[q] \in Nat
          BY <1>1, TxPathAssumption DEF PathOK
        <5>2. /\ dataRequest' = (dataRequest \/ Len(aQueues'[q]) = PaceThresh[q])
              /\ paceTimer' = (Len(aQueues'[q]) < PaceThresh[q])
          BY <4>2 DEF InsertPacket
        <5>3. Len(aQueues'[q]) = PaceThresh[q] \/ Len(aQueues'[q]) < PaceThresh[q]
          BY <4>2, <5>1
        <5> QED BY <5>2, <5>3
      <4> QED BY <4>1, <4>2
    <3>3. WaitsForRoom(r) => WaitsForRoom(r)'
      BY <1>4, <2>1, <3>1
    <3>4. Passed(Now.idle)' = Passed(Now.idle)
      BY DEF Passed
    <3> QED BY <3>1, <3>2, <3>3, <3>4 DEF DataServed
  <2>2. ASSUME aQueues[r] = <<>> PROVE DataServed(r)'
    <3>1. r = q
      BY <1>5, <2>2, MgmtQueues
    <3>2. Len(aQueues'[q]) = 1
      <4>1. Len(aQueues[q]) = 0 /\ QueueMax[q] > 0 /\ aQueues[q] \in Seq(Packets)
        BY <1>1, <2>2, <3>1, TxPathAssumption DEF PathOK
      <4>2. aQueues'[q] = Append(aQueues[q], [ac |-> q, len |-> len])
        BY <1>1, <4>1 DEF Put, PathOK
      <4> QED BY <1>1, <4>1, <4>2, AppendProperties
    <3>3. PaceThresh[q] \in Nat /\ PaceThresh[q] >= 1
      BY TxPathAssumption
    <3>4. CASE aQueueBusy[q]
      <4>1. bQueueBusy[highestAdmittedAc[q]]
        BY <3>4 DEF BusyInv, PortInv
      <4> QED BY <3>1, <4>1, MgmtQueues DEF DataServed, WaitsForRoom
    <3>5. CASE ~aQueueBusy[q]
      <4>1. /\ dataRequest' = (dataRequest \/ Len(aQueues'[q]) = PaceThresh[q])
            /\ paceTimer' = (Len(aQueues'[q]) < PaceThresh[q])
        BY <3>2, <3>3, <3>5 DEF InsertPacket
      <4>2. Len(aQueues'[q]) = PaceThresh[q] \/ Len(aQueues'[q]) < PaceThresh[q]
        BY <3>2, <3>3
      <4> QED BY <4>1, <4>2 DEF DataServed
    <3> QED BY <3>4, <3>5
  <2> QED BY <2>1, <2>2
<1>7. MgmtInv'
  <2> SUFFICES ASSUME bMgmtPortEnable, NEW r \in Lets(eSmState), aQueues'[r] # <<>>
               PROVE  MgmtServed(r)'
    BY <1>2 DEF MgmtInv
  <2>1. r \in MgmtQs /\ r \in Queues /\ aQueues[r] # <<>> /\ MgmtServed(r)
    BY <1>5, MgmtQueues DEF BusyTypes, MgmtInv
  <2> QED BY <1>2, <1>4, <2>1 DEF MgmtServed, Updating
<1>8. AccessInv'
  BY <1>2, <1>5 DEF AccessInv, MgmtEmpty
<1> QED BY <1>3, <1>6, <1>7, <1>8

\* An EAPOL packet of the network: the first one in the queue is requested.
LEMMA EapolServed ==
  ASSUME ServedInv, PathOK', NEW len \in Lens, XmitEapol(len)
  PROVE  CallsServed'
<1> USE DEF ServedInv, CallsServed
<1>1. /\ [ac |-> "VO", len |-> len] \in Packets /\ "EAPOL" \in Queues
      /\ Put("EAPOL", [ac |-> "VO", len |-> len])
  BY DEF Packets, Queues, XmitEapol, AC, MgmtQs
<1>2. /\ UNCHANGED <<bQueueBusy, aQueueBusy, highestAdmittedAc, bDataPortEnable, bMgmtPortEnable,
                     eSmState, uLastQueId, phase, missed, dataRequest, paceTimer, todo>>
      /\ UNCHANGED <<ctrlVars, portVars, smVars>>
      /\ Now' = Now /\ Later' = Later
  BY SameCalls DEF XmitEapol, hwVars, busyVars, ctrlVars, portVars, smVars
<1>3. BusyTypes' /\ ShapeInv' /\ PortInv' /\ BusyInv' /\ RefusedInv'
  BY <1>2, FrameKept
<1>4. \A r \in Queues : aQueues[r] # <<>> /\ WaitsForRoom(r) => WaitsForRoom(r)'
  BY <1>1, <1>2, PutEffect, WaitsKept
<1>5. /\ \A r \in Queues \ {"EAPOL"} : aQueues'[r] = aQueues[r]
      /\ \A r \in AC : aQueues'[r] = aQueues[r]
      /\ aQueues'["EAPOL"] # <<>>
  BY <1>1, PutEffect, MgmtQueues
<1>6. mgmtRequest' <=> mgmtRequest \/ aQueues["EAPOL"] = <<>>
  BY DEF XmitEapol
<1>7. DataInv'
  <2> SUFFICES ASSUME bDataPortEnable, NEW r \in AC, aQueues'[r] # <<>> PROVE DataServed(r)'
    BY <1>2 DEF DataInv
  <2>1. aQueues[r] # <<>> /\ DataServed(r) /\ r \in Queues
    BY <1>5, MgmtQueues DEF DataInv
  <2>2. Passed(Now.idle)' = Passed(Now.idle)
    BY <1>2 DEF Passed
  <2> QED BY <1>2, <1>4, <2>1, <2>2 DEF DataServed
<1>8. MgmtInv'
  <2> SUFFICES ASSUME bMgmtPortEnable, NEW r \in Lets(eSmState), aQueues'[r] # <<>>
               PROVE  MgmtServed(r)'
    BY <1>2 DEF MgmtInv
  <2>1. r \in MgmtQs /\ r \in Queues
    BY MgmtQueues DEF BusyTypes
  <2>2. CASE aQueues[r] = <<>>
    BY <1>5, <1>6, <2>1, <2>2 DEF MgmtServed
  <2>3. CASE aQueues[r] # <<>>
    <3>1. MgmtServed(r)
      BY <2>3 DEF MgmtInv
    <3> QED BY <1>2, <1>4, <1>6, <2>1, <2>3, <3>1 DEF MgmtServed, Updating
  <2> QED BY <2>2, <2>3
<1>9. AccessInv'
  <2>1. ~MgmtEmpty' /\ (MgmtEmpty => mgmtRequest')
    BY <1>5, <1>6, MgmtQueues DEF MgmtEmpty
  <2> QED BY <1>2, <1>6, <2>1 DEF AccessInv
<1> QED BY <1>3, <1>7, <1>8, <1>9

\* Steps of the firmware, and steps that do nothing.
LEMMA NothingChanged ==
  ASSUME ServedInv, PathOK', UNCHANGED bQueueBusy, UNCHANGED pathVars
  PROVE  CallsServed'
<1> USE DEF ServedInv, CallsServed, pathVars, ctrlVars, portVars, smVars, requestVars
<1>1. BusyTypes' /\ ShapeInv' /\ PortInv' /\ BusyInv' /\ RefusedInv'
  BY FrameKept
<1>2. Now' = Now /\ Later' = Later /\ Passed(Now.idle)' = Passed(Now.idle)
  BY SameCalls DEF Passed
<1>3. \A q \in Queues : WaitsForRoom(q)' <=> WaitsForRoom(q)
  BY DEF WaitsForRoom
<1>4. DataInv'
  BY <1>2, <1>3, MgmtQueues DEF DataInv, DataServed
<1>5. MgmtInv'
  BY <1>2, <1>3, MgmtQueues DEF MgmtInv, MgmtServed, Updating, BusyTypes
<1>6. AccessInv'
  BY <1>2 DEF AccessInv, MgmtEmpty
<1> QED BY <1>1, <1>4, <1>5, <1>6

------------------------------------------------------------------------------
(* The schedulers.                                                         *)

\* What waits for room, when nothing of it changes.
LEMMA WaitsSame ==
  ASSUME UNCHANGED <<aQueues, bQueueBusy, highestAdmittedAc>>
  PROVE  \A q : WaitsForRoom(q)' <=> WaitsForRoom(q)
  BY DEF WaitsForRoom

\* What a step does not change of the types and the port.
LEMMA PortKept ==
  ASSUME ServedInv, UNCHANGED <<bQueueBusy, aQueueBusy, ctrlVars, portVars, smVars, phase>>
  PROVE  BusyTypes' /\ PortInv'
  BY DEF ServedInv, CallsServed, BusyTypes, PortInv, ctrlVars, portVars, smVars

\* The data scheduler ends when it has passed all queues.
LEMMA SchedulerEndsServed ==
  ASSUME ServedInv, PathOK', SchedulerEnds
  PROVE  CallsServed'
<1> USE DEF ServedInv, CallsServed
<1>1. /\ Now.call = "RunScheduler" /\ Now \in Calls /\ Current = Now /\ todo # <<>>
      /\ Now.idle \in Nat /\ (~bDataPortEnable \/ Now.idle >= 4)
  BY CallsNow, CallsRead, CurrentOK DEF SchedulerEnds
<1>2. Now' = Later /\ Later' = NoCall /\ Len(todo') <= 2
  BY <1>1, Ended DEF SchedulerEnds, ShapeInv
<1>3. Later = NoCall \/ Later.call = "txMgmtQ_UpdateBusyMap"
  BY <1>1 DEF ShapeInv, MgmtCall, Sending
<1>4. NoCall.call = "none"
  BY CallsNow
<1>5. /\ UNCHANGED <<bQueueBusy, aQueueBusy, aQueues, highestAdmittedAc, busyAcBitmap,
                     bDataPortEnable, bMgmtPortEnable, eSmState, uLastQueId, phase, missed,
                     dataRequest, paceTimer, mgmtRequest>>
      /\ UNCHANGED <<ctrlVars, portVars, smVars>>
  BY DEF SchedulerEnds, hwVars, busyVars, ctrlVars, portVars, smVars, requestVars
<1>6. BusyTypes' /\ PortInv'
  BY <1>5, PortKept
<1>7. \A q : WaitsForRoom(q)' <=> WaitsForRoom(q)
  BY <1>5, WaitsSame
<1>8. ShapeInv' /\ RefusedInv'
  BY <1>2, <1>3, <1>4, <1>5 DEF ShapeInv, RefusedInv, MgmtCall, Sending
<1>9. BusyInv'
  BY <1>1, <1>2, <1>3, <1>4, <1>5 DEF BusyInv, Updating, Updates
<1>10. DataInv'
  <2> SUFFICES ASSUME bDataPortEnable, NEW q \in AC, aQueues[q] # <<>> PROVE DataServed(q)'
    BY <1>5 DEF DataInv
  <2>1. q \in Passed(Now.idle)
    BY <1>1, PassedAll
  <2> QED BY <1>1, <1>5, <1>7, <2>1 DEF DataInv, DataServed, Sending
<1>11. MgmtInv'
  BY <1>1, <1>2, <1>3, <1>5, <1>7 DEF MgmtInv, MgmtServed, MgmtCall, Sending, Updating, Updates
<1>12. AccessInv'
  BY <1>1, <1>2, <1>3, <1>4, <1>5 DEF AccessInv, MgmtEmpty
<1> QED BY <1>6, <1>8, <1>9, <1>10, <1>11, <1>12

\* A queue that the data scheduler passes is empty or waits for room.
LEMMA SchedulerTurnsServed ==
  ASSUME ServedInv, PathOK', SchedulerTurns
  PROVE  CallsServed'
<1> USE DEF ServedInv, CallsServed
<1>1. /\ Now.call = "RunScheduler" /\ Now \in Calls /\ Current = Now /\ todo # <<>>
      /\ Now.idle \in Nat /\ bDataPortEnable /\ Now.idle < 4
  BY CallsNow, CallsRead, CurrentOK DEF SchedulerTurns
<1>2. PICK q \in AC : q = uLastQueId' /\ q = Following[uLastQueId] /\ q \in Queues
  BY DEF SchedulerTurns, Following, AC, PathOK, Queues
<1>3. /\ UNCHANGED <<bQueueBusy, aQueueBusy, highestAdmittedAc, busyAcBitmap,
                     bDataPortEnable, bMgmtPortEnable, eSmState, phase, missed,
                     dataRequest, paceTimer, mgmtRequest>>
      /\ UNCHANGED <<ctrlVars, portVars, smVars>>
  BY DEF SchedulerTurns, hwVars, busyVars, ctrlVars, portVars, smVars, requestVars
<1>4. BusyTypes' /\ PortInv'
  BY <1>3, PortKept
<1>5. \E c \in Calls : /\ Now' = c /\ Later' = Later /\ Len(todo') <= 2
                       /\ c.call \in {"RunScheduler", "Xmit"} /\ c.idle = Now.idle + 1
                       /\ \/ c.call = "RunScheduler" /\ UNCHANGED aQueues
                             /\ (aQueueBusy[q] \/ aQueues[q] = <<>>)
                          \/ /\ c.call = "Xmit" /\ c.q = q
                             /\ aQueues' = [aQueues EXCEPT ![q] = Tail(@)]
  <2>1. CASE aQueueBusy[q] \/ aQueues[q] = <<>>
    <3>1. Return(<<RunScheduler(Now.idle + 1)>>) /\ aQueues' = aQueues
      BY <1>1, <1>2, <2>1 DEF SchedulerTurns
    <3>2. RunScheduler(Now.idle + 1) \in Calls
      BY <1>1, CallsMade
    <3>3. Now' = RunScheduler(Now.idle + 1) /\ Later' = Later /\ Len(todo') <= 2
      BY <1>1, <3>1, <3>2, Replaced DEF ShapeInv
    <3> QED BY <2>1, <3>1, <3>2, <3>3 DEF RunScheduler
  <2>2. CASE ~(aQueueBusy[q] \/ aQueues[q] = <<>>)
    <3> DEFINE c == Handling("Xmit", q, Head(aQueues[q]), Now.idle + 1)
    <3>1. Return(<<c>>) /\ aQueues' = [aQueues EXCEPT ![q] = Tail(@)]
      BY <1>1, <1>2, <2>2 DEF SchedulerTurns
    <3>2. c \in Calls
      BY <1>1, <1>2, <2>2, TakenOK, CallsMade
    <3>3. c.call = "Xmit" /\ c.q = q /\ c.idle = Now.idle + 1
      BY DEF Handling
    <3> HIDE DEF c
    <3>4. Now' = c /\ Later' = Later /\ Len(todo') <= 2
      BY <1>1, <3>1, <3>2, Replaced DEF ShapeInv
    <3> QED BY <3>1, <3>2, <3>3, <3>4
  <2> QED BY <2>1, <2>2
<1>6. PICK c \in Calls : /\ Now' = c /\ Later' = Later /\ Len(todo') <= 2
                         /\ c.call \in {"RunScheduler", "Xmit"} /\ c.idle = Now.idle + 1
                         /\ \/ c.call = "RunScheduler" /\ UNCHANGED aQueues
                               /\ (aQueueBusy[q] \/ aQueues[q] = <<>>)
                            \/ /\ c.call = "Xmit" /\ c.q = q
                               /\ aQueues' = [aQueues EXCEPT ![q] = Tail(@)]
  BY <1>5
<1>7. DataCall(Now) /\ DataCall(c) /\ ~MgmtCall(Now) /\ ~MgmtCall(c)
  BY <1>1, <1>2, <1>6, MgmtQueues DEF DataCall, MgmtCall, Sending
<1>8. \A r \in Queues \ {q} : aQueues'[r] = aQueues[r]
  BY <1>2, <1>6 DEF PathOK
<1>9. \A r \in Queues \ {q} : WaitsForRoom(r)' <=> WaitsForRoom(r)
  BY <1>3, <1>8 DEF WaitsForRoom
<1>10. \A r \in MgmtQs : aQueues'[r] = aQueues[r] /\ (WaitsForRoom(r)' <=> WaitsForRoom(r))
  BY <1>2, <1>8, <1>9, MgmtQueues
<1>11. ShapeInv' /\ RefusedInv'
  BY <1>1, <1>3, <1>6, <1>7 DEF ShapeInv, RefusedInv, MgmtCall, Sending
<1>12. BusyInv'
  BY <1>1, <1>3, <1>6 DEF BusyInv, Updating, Updates
<1>13. DataInv'
  <2> SUFFICES ASSUME NEW r \in AC, aQueues'[r] # <<>> PROVE DataServed(r)'
    BY <1>3 DEF DataInv
  <2>1. CASE r = q
    <3>1. CASE c.call = "Xmit"
      BY <1>2, <1>6, <2>1, <3>1 DEF DataServed, Sending
    <3>2. CASE c.call = "RunScheduler"
      <4>1. bQueueBusy[highestAdmittedAc[q]]
        BY <1>1, <1>6, <2>1, <3>2 DEF BusyInv, PortInv
      <4> QED BY <1>3, <2>1, <4>1, MgmtQueues DEF DataServed, WaitsForRoom
    <3> QED BY <1>6, <3>1, <3>2
  <2>2. CASE r # q
    <3>1. aQueues[r] # <<>> /\ r \in Queues
      BY <1>8, <2>2, MgmtQueues
    <3>2. DataServed(r)
      BY <1>1, <3>1 DEF DataInv
    <3>3. PICK i \in Nat : i = Now.idle /\ c.idle = i + 1
      BY <1>1, <1>6
    <3>4. r \in Passed(i + 1)' => r \in Passed(i)
      BY <1>1, <1>2, <2>2, <3>3, PassedTurn DEF PathOK
    <3> QED BY <1>1, <1>3, <1>6, <1>7, <1>9, <2>2, <3>1, <3>2, <3>3, <3>4 DEF DataServed, Sending
  <2> QED BY <2>1, <2>2
<1>14. MgmtInv'
  <2> SUFFICES ASSUME bMgmtPortEnable, NEW r \in Lets(eSmState), aQueues'[r] # <<>>
               PROVE  MgmtServed(r)'
    BY <1>3 DEF MgmtInv
  <2>1. r \in MgmtQs /\ aQueues[r] # <<>> /\ MgmtServed(r)
    BY <1>10, MgmtQueues DEF BusyTypes, MgmtInv
  <2> QED BY <1>1, <1>3, <1>6, <1>7, <1>10, <2>1 DEF MgmtServed, Updating, Updates
<1>15. AccessInv'
  BY <1>1, <1>3, <1>6, <1>10 DEF AccessInv, MgmtEmpty
<1> QED BY <1>4, <1>11, <1>12, <1>13, <1>14, <1>15

\* The management scheduler has nothing to take from the queue.
Skipped(q) == aQueueBusy[q] \/ q \notin Lets(eSmState) \/ aQueues[q] = <<>>

\* A turn of the management scheduler: it ends, goes on to EAPOL, or sends a packet.
LEMMA MgmtTurn ==
  ASSUME ServedInv, MgmtSchedulerTurns
  PROVE  \E q \in MgmtQs :
           /\ q = Now.q /\ Now.call = "runScheduler" /\ Len(todo') <= 2
           /\ \/ /\ Now' = Later /\ Later' = NoCall /\ UNCHANGED aQueues
                 /\ ~bMgmtPortEnable \/ (q = "EAPOL" /\ Skipped(q))
              \/ /\ Now' = RunMgmtScheduler("EAPOL") /\ Later' = Later /\ UNCHANGED aQueues
                 /\ q = "MGMT" /\ Skipped(q)
              \/ /\ Now'.call = "Xmit" /\ Now'.q = q /\ Later' = Later
                 /\ aQueues' = [aQueues EXCEPT ![q] = Tail(@)] /\ ~Skipped(q) /\ bMgmtPortEnable
<1> USE DEF ServedInv, CallsServed, Skipped
<1> DEFINE q == Now.q
<1>1. /\ Now.call = "runScheduler" /\ Now \in Calls /\ Current = Now /\ todo # <<>>
      /\ q \in MgmtQs /\ Len(todo) <= 2
  BY CallsNow, CallsRead, CurrentOK DEF MgmtSchedulerTurns, ShapeInv
<1>2. aQueueEnabledBySM[q] <=> q \in Lets(eSmState)
  BY <1>1 DEF PortInv
<1>3. CASE ~bMgmtPortEnable
  <2>1. Return(<<>>) /\ aQueues' = aQueues
    BY <1>3 DEF MgmtSchedulerTurns
  <2>2. Now' = Later /\ Later' = NoCall /\ Len(todo') <= 2
    BY <1>1, <2>1, Ended
  <2> QED BY <1>1, <1>3, <2>1, <2>2
<1>4. CASE bMgmtPortEnable /\ (aQueueBusy[q] \/ ~aQueueEnabledBySM[q] \/ aQueues[q] = <<>>)
  <2>1. Return(NextMgmt(q)) /\ aQueues' = aQueues
    BY <1>1, <1>4 DEF MgmtSchedulerTurns
  <2>2. CASE q = "MGMT"
    <3>1. RunMgmtScheduler("EAPOL") \in Calls
      BY CallsMade, MgmtQueues
    <3>2. Return(<<RunMgmtScheduler("EAPOL")>>)
      BY <2>1, <2>2 DEF NextMgmt
    <3>3. Now' = RunMgmtScheduler("EAPOL") /\ Later' = Later /\ Len(todo') <= 2
      BY <1>1, <3>1, <3>2, Replaced
    <3> QED BY <1>1, <1>2, <1>4, <2>1, <2>2, <3>3
  <2>3. CASE q = "EAPOL"
    <3>1. Return(<<>>)
      BY <2>1, <2>3 DEF NextMgmt
    <3>2. Now' = Later /\ Later' = NoCall /\ Len(todo') <= 2
      BY <1>1, <3>1, Ended
    <3> QED BY <1>1, <1>2, <1>4, <2>1, <2>3, <3>2
  <2> QED BY <1>1, <2>2, <2>3 DEF MgmtQs
<1>5. CASE bMgmtPortEnable /\ ~(aQueueBusy[q] \/ ~aQueueEnabledBySM[q] \/ aQueues[q] = <<>>)
  <2> DEFINE c == Handling("Xmit", q, Head(aQueues[q]), 0)
  <2>1. Return(<<c>>) /\ aQueues' = [aQueues EXCEPT ![q] = Tail(@)]
    BY <1>1, <1>5 DEF MgmtSchedulerTurns
  <2>2. c \in Calls
    BY <1>1, <1>5, TakenOK, CallsMade, MgmtQueues
  <2>3. c.call = "Xmit" /\ c.q = q
    BY DEF Handling
  <2> HIDE DEF c
  <2>4. Now' = c /\ Later' = Later /\ Len(todo') <= 2
    BY <1>1, <2>1, <2>2, Replaced
  <2> QED BY <1>1, <1>2, <1>5, <2>1, <2>3, <2>4
<1> HIDE DEF q
<1> QED BY <1>1, <1>3, <1>4, <1>5

\* So is a queue that the management scheduler passes.
LEMMA MgmtTurnsServed ==
  ASSUME ServedInv, PathOK', MgmtSchedulerTurns
  PROVE  CallsServed'
<1>1. PICK q \in MgmtQs :
        /\ q = Now.q /\ Now.call = "runScheduler" /\ Len(todo') <= 2
        /\ \/ /\ Now' = Later /\ Later' = NoCall /\ UNCHANGED aQueues
              /\ ~bMgmtPortEnable \/ (q = "EAPOL" /\ Skipped(q))
           \/ /\ Now' = RunMgmtScheduler("EAPOL") /\ Later' = Later /\ UNCHANGED aQueues
              /\ q = "MGMT" /\ Skipped(q)
           \/ /\ Now'.call = "Xmit" /\ Now'.q = q /\ Later' = Later
              /\ aQueues' = [aQueues EXCEPT ![q] = Tail(@)] /\ ~Skipped(q) /\ bMgmtPortEnable
  BY MgmtTurn
<1> USE DEF ServedInv, CallsServed
<1>3. NoCall.call = "none" /\ RunMgmtScheduler("EAPOL").call = "runScheduler"
      /\ RunMgmtScheduler("EAPOL").q = "EAPOL"
  BY CallsNow DEF RunMgmtScheduler
<1>4. /\ Later = NoCall \/ Later.call = "ifEmpty"
      /\ eSmState = "OPEN_MGMT" => Later.call = "ifEmpty"
  BY <1>1, <1>3 DEF ShapeInv, DataCall, MgmtCall, Sending
<1>5. /\ UNCHANGED <<bQueueBusy, aQueueBusy, highestAdmittedAc, busyAcBitmap,
                     bDataPortEnable, bMgmtPortEnable, eSmState, uLastQueId, phase, missed,
                     dataRequest, paceTimer, mgmtRequest>>
      /\ UNCHANGED <<ctrlVars, portVars, smVars>>
  BY DEF MgmtSchedulerTurns, hwVars, busyVars, ctrlVars, portVars, smVars, requestVars
<1>6. BusyTypes' /\ PortInv'
  BY <1>5, PortKept
<1>7. /\ \A r \in Queues \ {q} : aQueues'[r] = aQueues[r]
      /\ aQueues'[q] # <<>> => aQueues[q] # <<>>
  BY <1>1, MgmtQueues DEF PathOK, Skipped
<1>8. ASSUME NEW r \in Queues, aQueues'[r] = aQueues[r] PROVE WaitsForRoom(r)' <=> WaitsForRoom(r)
  BY <1>5, <1>8 DEF WaitsForRoom
<1>9. ~MgmtEmpty' => ~MgmtEmpty
  BY <1>7, MgmtQueues DEF MgmtEmpty
<1>10. UNCHANGED aQueues => MgmtEmpty' = MgmtEmpty
  BY DEF MgmtEmpty
<1>11. ShapeInv'
  BY <1>1, <1>3, <1>4, <1>5 DEF ShapeInv, DataCall, MgmtCall, Sending, Skipped
<1>12. RefusedInv'
  BY <1>1, <1>3, <1>4, <1>5 DEF RefusedInv
<1>13. BusyInv' /\ ~Updating /\ ~Updating'
  BY <1>1, <1>3, <1>4, <1>5 DEF BusyInv, Updating, Updates
<1>14. DataInv'
  <2> SUFFICES ASSUME bDataPortEnable, NEW r \in AC, aQueues'[r] # <<>> PROVE DataServed(r)'
    BY <1>5 DEF DataInv
  <2>1. r \in Queues /\ aQueues'[r] = aQueues[r]
    BY <1>1, <1>7, MgmtQueues
  <2>2. DataServed(r) /\ (WaitsForRoom(r)' <=> WaitsForRoom(r))
    BY <1>8, <2>1 DEF DataInv
  <2>3. ~DataCall(Now) /\ ~Sending(Now, AC)
    BY <1>1 DEF DataCall, Sending
  <2> QED BY <1>5, <2>2, <2>3 DEF DataServed
<1>15. MgmtInv'
  <2> SUFFICES ASSUME bMgmtPortEnable, NEW r \in Lets(eSmState), aQueues'[r] # <<>>
               PROVE  MgmtServed(r)'
    BY <1>5 DEF MgmtInv
  <2>1. r \in MgmtQs /\ r \in Queues /\ aQueues[r] # <<>> /\ MgmtServed(r)
    BY <1>7, MgmtQueues DEF BusyTypes, MgmtInv
  <2>2. ASSUME r = q, Skipped(q) PROVE WaitsForRoom(r)
    <3>1. bQueueBusy[highestAdmittedAc["VO"]]
      BY <1>13, <2>1, <2>2 DEF BusyInv, PortInv, Skipped
    <3> QED BY <2>1, <3>1, MgmtQueues DEF WaitsForRoom
  <2>3. q = "MGMT" \/ q = "EAPOL"
    BY <1>1 DEF MgmtQs
  <2>4. r = "MGMT" \/ r = "EAPOL"
    BY <2>1 DEF MgmtQs
  <2>5. mgmtRequest \/ missed \/ WaitsForRoom(r) \/ q = "MGMT" \/ r = "EAPOL"
    BY <1>1, <1>13, <2>1 DEF MgmtServed
  <2>6. CASE UNCHANGED aQueues
    <3>1. WaitsForRoom(r)' <=> WaitsForRoom(r)
      BY <1>8, <2>1, <2>6
    <3>2. CASE Now' = RunMgmtScheduler("EAPOL") /\ q = "MGMT" /\ Skipped(q)
      BY <1>3, <2>2, <2>4, <3>1, <3>2 DEF MgmtServed, MgmtCall
    <3>3. CASE q = "EAPOL" /\ Skipped(q)
      BY <1>5, <2>2, <2>4, <2>5, <3>1, <3>3 DEF MgmtServed
    <3>4. CASE Now'.call = "Xmit" /\ Now'.q = q
      BY <1>1, <1>5, <2>3, <2>4, <2>5, <3>1, <3>4 DEF MgmtServed, MgmtCall, Sending
    <3> QED BY <1>1, <3>2, <3>3, <3>4
  <2>7. CASE Now'.call = "Xmit" /\ Now'.q = q
    <3>1. CASE q = "MGMT" \/ r = "EAPOL"
      BY <1>1, <2>7, <3>1 DEF MgmtServed, MgmtCall, Sending
    <3>2. CASE r = "MGMT" /\ q = "EAPOL"
      <4>1. aQueues'[r] = aQueues[r]
        BY <1>7, <2>1, <3>2
      <4>2. WaitsForRoom(r)' <=> WaitsForRoom(r)
        BY <1>8, <2>1, <4>1
      <4> QED BY <1>5, <2>5, <3>2, <4>2 DEF MgmtServed
    <3> QED BY <2>3, <2>4, <3>1, <3>2
  <2> QED BY <1>1, <2>6, <2>7
<1>16. AccessInv'
  <2>1. /\ Now'.call # "mgmtQueuesSM"
        /\ eSmState = "OPEN_MGMT" => Now'.call = "ifEmpty" \/ Later'.call = "ifEmpty"
    BY <1>1, <1>3, <1>4
  <2>2. eSmState = "OPEN_DATA" /\ ~MgmtEmpty => mgmtRequest
    BY <1>1 DEF AccessInv
  <2> QED BY <1>5, <1>9, <2>1, <2>2 DEF AccessInv
<1> QED BY <1>6, <1>11, <1>12, <1>13, <1>14, <1>15, <1>16

\* Steps of the driver that only go from one call to the next.
LEMMA CallReplaced ==
  ASSUME ServedInv, Now \in Calls, ~DataCall(Now), ~Updating \/ Updating',
         UNCHANGED <<aQueues, aQueueBusy, bQueueBusy, highestAdmittedAc, busyAcBitmap, phase,
                     bDataPortEnable, bMgmtPortEnable, eSmState, dataRequest, paceTimer>>,
         UNCHANGED <<ctrlVars, portVars, smVars>>,
         ~Updates(Now') \/ Now' = Later, ~Updates(Later')
  PROVE  BusyTypes' /\ PortInv' /\ BusyInv' /\ DataInv'
<1> USE DEF ServedInv, CallsServed
<1>1. BusyTypes' /\ PortInv'
  BY PortKept
<1>2. BusyInv'
  BY DEF BusyInv, Updating
<1>3. \A q : WaitsForRoom(q)' <=> WaitsForRoom(q)
  BY WaitsSame
<1>4. DataInv'
  BY <1>3 DEF DataInv, DataServed, DataCall
<1> QED BY <1>1, <1>2, <1>4

\* runSchedulerNotFromSm does nothing for empty queues only.
LEMMA NotFromSmServed ==
  ASSUME ServedInv, PathOK', RunSchedulerNotFromSm
  PROVE  CallsServed'
<1> USE DEF ServedInv, CallsServed
<1>1. /\ Now.call = "runSchedulerNotFromSm" /\ Now \in Calls /\ todo # <<>> /\ Len(todo) <= 2
  BY CallsNow, CurrentOK DEF RunSchedulerNotFromSm, ShapeInv
<1>2. NoCall.call = "none" /\ RunMgmtScheduler("MGMT").call = "runScheduler"
      /\ RunMgmtScheduler("MGMT").q = "MGMT" /\ Call("ifEmpty").call = "ifEmpty"
  BY CallsNow DEF RunMgmtScheduler, Call
<1>3. Later = NoCall
  BY <1>1, <1>2 DEF ShapeInv, DataCall, MgmtCall, Sending
<1>4. /\ UNCHANGED <<aQueues, bQueueBusy, aQueueBusy, highestAdmittedAc, busyAcBitmap,
                     bDataPortEnable, bMgmtPortEnable, eSmState, phase,
                     dataRequest, paceTimer, mgmtRequest>>
      /\ UNCHANGED <<ctrlVars, portVars, smVars>>
      /\ missed' <=> missed /\ MgmtEmpty
      /\ MgmtEmpty' = MgmtEmpty
  BY DEF RunSchedulerNotFromSm, hwVars, busyVars, ctrlVars, portVars, smVars, requestVars, MgmtEmpty
<1>5. \A q : WaitsForRoom(q)' <=> WaitsForRoom(q)
  BY <1>4, WaitsSame
<1>6. /\ Len(todo') <= 2
      /\ \/ MgmtEmpty /\ Now' = NoCall /\ Later' = NoCall
         \/ ~MgmtEmpty /\ Now' = RunMgmtScheduler("MGMT") /\ Later' = Call("ifEmpty")
  <2>1. CASE MgmtEmpty
    BY <1>1, <1>3, <2>1, Ended DEF RunSchedulerNotFromSm
  <2>2. CASE ~MgmtEmpty
    <3>1. RunMgmtScheduler("MGMT") \in Calls /\ Call("ifEmpty") \in Calls
      BY CallsMade, MgmtQueues
    <3>2. Return(<<RunMgmtScheduler("MGMT"), Call("ifEmpty")>>)
      BY <2>2 DEF RunSchedulerNotFromSm
    <3> QED BY <1>1, <1>3, <2>2, <3>1, <3>2, Followed
  <2> QED BY <2>1, <2>2
<1>7. ~Updating /\ ~Updates(Now') /\ ~Updates(Later') /\ ~DataCall(Now)
  BY <1>1, <1>2, <1>3, <1>6 DEF Updating, Updates, DataCall, Sending
<1>8. BusyTypes' /\ PortInv' /\ BusyInv' /\ DataInv'
  BY <1>1, <1>4, <1>7, CallReplaced
<1>9. ShapeInv' /\ RefusedInv'
  BY <1>2, <1>4, <1>6 DEF ShapeInv, RefusedInv, MgmtCall, DataCall, Sending
<1>10. MgmtInv'
  <2> SUFFICES ASSUME bMgmtPortEnable, NEW r \in Lets(eSmState), aQueues[r] # <<>>
               PROVE  MgmtServed(r)'
    BY <1>4 DEF MgmtInv
  <2>1. r \in MgmtQs
    BY MgmtQueues DEF BusyTypes
  <2>2. ~MgmtEmpty
    BY <2>1 DEF MgmtEmpty
  <2> QED BY <1>2, <1>6, <2>2 DEF MgmtServed, MgmtCall
<1>11. AccessInv'
  BY <1>1, <1>2, <1>3, <1>4, <1>6 DEF AccessInv
<1> QED BY <1>8, <1>9, <1>10, <1>11

\* Queues that are found empty are reported to the state machine.
LEMMA IfEmptyServed ==
  ASSUME ServedInv, PathOK', IfEmpty
  PROVE  CallsServed'
<1> USE DEF ServedInv, CallsServed
<1>1. /\ Now.call = "ifEmpty" /\ Now \in Calls /\ todo # <<>> /\ Len(todo) <= 2
  BY CallsNow, CurrentOK DEF IfEmpty, ShapeInv
<1>2. NoCall.call = "none" /\ MgmtQueuesSM("QUEUES_EMPTY").call = "mgmtQueuesSM"
      /\ MgmtQueuesSM("QUEUES_EMPTY").event = "QUEUES_EMPTY"
  BY CallsNow DEF MgmtQueuesSM
<1>3. Later = NoCall
  BY <1>1, <1>2 DEF ShapeInv, DataCall, MgmtCall, Sending
<1>4. /\ UNCHANGED <<aQueues, bQueueBusy, aQueueBusy, highestAdmittedAc, busyAcBitmap,
                     bDataPortEnable, bMgmtPortEnable, eSmState, phase,
                     dataRequest, paceTimer, mgmtRequest, missed>>
      /\ UNCHANGED <<ctrlVars, portVars, smVars>>
      /\ MgmtEmpty' = MgmtEmpty
  BY DEF IfEmpty, hwVars, busyVars, ctrlVars, portVars, smVars, requestVars, MgmtEmpty
<1>5. \A q : WaitsForRoom(q)' <=> WaitsForRoom(q)
  BY <1>4, WaitsSame
<1>6. /\ Len(todo') <= 2 /\ Later' = NoCall
      /\ \/ MgmtEmpty /\ Now' = MgmtQueuesSM("QUEUES_EMPTY")
         \/ ~MgmtEmpty /\ Now' = NoCall
  <2>1. CASE ~MgmtEmpty
    BY <1>1, <1>3, <2>1, Ended DEF IfEmpty
  <2>2. CASE MgmtEmpty
    <3>1. MgmtQueuesSM("QUEUES_EMPTY") \in Calls
      BY CallsMade DEF Events
    <3>2. Return(<<MgmtQueuesSM("QUEUES_EMPTY")>>)
      BY <2>2 DEF IfEmpty
    <3> QED BY <1>1, <1>3, <2>2, <3>1, <3>2, Replaced
  <2> QED BY <2>1, <2>2
<1>7. ~Updating /\ ~Updates(Now') /\ ~Updates(Later') /\ ~DataCall(Now)
  BY <1>1, <1>2, <1>3, <1>6 DEF Updating, Updates, DataCall, Sending
<1>8. BusyTypes' /\ PortInv' /\ BusyInv' /\ DataInv'
  BY <1>1, <1>4, <1>7, CallReplaced
<1>9. ShapeInv' /\ RefusedInv'
  BY <1>2, <1>4, <1>6 DEF ShapeInv, RefusedInv, MgmtCall, DataCall, Sending
<1>10. MgmtInv'
  BY <1>1, <1>4, <1>5, <1>7 DEF MgmtInv, MgmtServed, MgmtCall, Sending
<1>11. AccessInv'
  BY <1>1, <1>2, <1>4, <1>6 DEF AccessInv
<1> QED BY <1>8, <1>9, <1>10, <1>11

\* The marks of the management queues are replaced, and the queues are served.
LEMMA BusyMapServed ==
  ASSUME ServedInv, PathOK', MgmtUpdateBusyMap
  PROVE  CallsServed'
<1> USE DEF ServedInv, CallsServed
<1>1. /\ Now.call = "txMgmtQ_UpdateBusyMap" /\ Now \in Calls /\ todo # <<>> /\ Len(todo) <= 2
      /\ Current = Now
  BY CallsNow, CurrentOK DEF MgmtUpdateBusyMap, ShapeInv
<1>2. NoCall.call = "none" /\ Call("runSchedulerNotFromSm").call = "runSchedulerNotFromSm"
  BY CallsNow DEF Call
<1>3. Later = NoCall
  BY <1>1, <1>2 DEF ShapeInv, DataCall, MgmtCall, Sending
<1>4. /\ UNCHANGED <<aQueues, bQueueBusy, highestAdmittedAc, busyAcBitmap,
                     bDataPortEnable, bMgmtPortEnable, eSmState, phase,
                     dataRequest, paceTimer, mgmtRequest, missed>>
      /\ UNCHANGED <<ctrlVars, portVars, smVars>>
      /\ MgmtEmpty' = MgmtEmpty
  BY DEF MgmtUpdateBusyMap, hwVars, busyVars, ctrlVars, portVars, smVars, requestVars, MgmtEmpty
<1>5. \A q : WaitsForRoom(q)' <=> WaitsForRoom(q)
  BY <1>4, WaitsSame
<1>6. Now' = Call("runSchedulerNotFromSm") /\ Later' = NoCall /\ Len(todo') <= 2
  <2>1. Call("runSchedulerNotFromSm") \in Calls
    BY CallsMade
  <2> QED BY <1>1, <1>3, <2>1, Replaced DEF MgmtUpdateBusyMap
<1>7. /\ aQueueBusy' = [q \in Queues |-> IF q \in MgmtQs THEN Now.busy ELSE aQueueBusy[q]]
      /\ Now.busy \in BOOLEAN
  BY <1>1 DEF MgmtUpdateBusyMap, Calls
<1>8. BusyTypes'
  BY <1>4, <1>7 DEF BusyTypes
<1>9. PortInv' /\ ShapeInv' /\ RefusedInv'
  BY <1>2, <1>4, <1>6 DEF PortInv, ShapeInv, RefusedInv, MgmtCall, DataCall, Sending,
                         portVars, smVars
<1>10. BusyInv'
  BY <1>1, <1>2, <1>4, <1>6, <1>7, MgmtQueues DEF BusyInv, Updating, Updates
<1>11. DataInv'
  BY <1>1, <1>4, <1>5 DEF DataInv, DataServed, DataCall, Sending
<1>12. MgmtInv'
  BY <1>2, <1>6 DEF MgmtInv, MgmtServed
<1>13. AccessInv'
  BY <1>1, <1>2, <1>3, <1>4, <1>6 DEF AccessInv
<1> QED BY <1>8, <1>9, <1>10, <1>11, <1>12, <1>13

------------------------------------------------------------------------------
(* A packet meets the firmware.                                            *)

\* What txCtrl_XmitData and txCtrl_XmitMgmt do to the marks: more categories may be
\* stopped, and a queue is newly marked only if the category it is sent through is.
LEMMA XmitEffect ==
  ASSUME ServedInv, Xmit
  PROVE  \E q \in Queues :
           /\ q = Now.q /\ Now.call = "Xmit" /\ Now.idle \in Nat /\ Len(todo') <= 2
           /\ Later' = Later /\ bQueueBusy' \in [AC -> BOOLEAN]
           /\ \A x \in AC : bQueueBusy[x] => bQueueBusy'[x]
           /\ aQueueBusy' \in [Queues -> BOOLEAN]
           /\ \A r \in Queues : aQueueBusy'[r] =>
                aQueueBusy[r] \/ bQueueBusy'[highestAdmittedAc[AcOf(r)]]
           /\ busyAcBitmap' \subseteq AC
           /\ \A x \in busyAcBitmap' : x \in busyAcBitmap \/ bQueueBusy'[x]
           /\ \/ /\ Now'.call = "Requeue" /\ Now'.q = q /\ Now'.idle = Now.idle
                 /\ Now'.pkt.ac \in AC /\ bQueueBusy'[Now'.pkt.ac]
                 /\ highestAdmittedAc[Now'.pkt.ac] = Now'.pkt.ac
              \/ q \in AC /\ Now' = RunScheduler(0)
              \/ q \in MgmtQs /\ Now' = RunMgmtScheduler("MGMT")
<1> USE DEF ServedInv, CallsServed
<1>1. /\ Now.call = "Xmit" /\ Now \in Calls /\ Current = Now /\ todo # <<>> /\ Len(todo) <= 2
      /\ Now.q \in Queues /\ Now.pkt \in Packets /\ Now.idle \in Nat
  BY CallsNow, CallsRead, CurrentOK DEF Xmit, ShapeInv
<1>2. PICK q \in Queues : q = Now.q
  BY <1>1
<1>3. PICK pkt \in Packets : /\ pkt = Selected(Now.pkt)
                             /\ pkt.ac \in AC /\ highestAdmittedAc[pkt.ac] = pkt.ac
  <2>1. Selected(Now.pkt) \in Packets /\ Selected(Now.pkt).ac = highestAdmittedAc[Now.pkt.ac]
    BY <1>1 DEF Selected, Packets, PathOK
  <2>2. Now.pkt.ac \in AC
    BY <1>1 DEF Packets
  <2> QED BY <2>1, <2>2 DEF RefusedInv, PathOK
<1>4. PICK n : n = NumBlksToAlloc(pkt.len)
  OBVIOUS
<1>5. /\ \/ /\ StopCurrent(pkt.ac, n) /\ SetBusy(Siblings(q), {pkt.ac})
            /\ Return(<<Handling("Requeue", q, pkt, Now.idle)>>) /\ UNCHANGED busyAcBitmap
         \/ /\ StopNext(pkt.ac, n) /\ SetBusy(Siblings(q), {pkt.ac})
            /\ busyAcBitmap' = busyAcBitmap \union {pkt.ac} /\ Return(Sent(q))
         \/ Success(pkt.ac, n) /\ Return(Sent(q)) /\ UNCHANGED <<aQueueBusy, busyAcBitmap>>
      /\ UNCHANGED highestAdmittedAc
  BY <1>1, <1>2, <1>3, <1>4 DEF Xmit
<1>6. /\ bQueueBusy \in [AC -> BOOLEAN] /\ aQueueBusy \in [Queues -> BOOLEAN]
      /\ busyAcBitmap \subseteq AC
  BY DEF BusyTypes
<1>7. ASSUME Stop(pkt.ac, n), SetBusy(Siblings(q), {pkt.ac})
      PROVE  /\ bQueueBusy' \in [AC -> BOOLEAN] /\ bQueueBusy'[pkt.ac]
             /\ \A x \in AC : bQueueBusy[x] => bQueueBusy'[x]
             /\ aQueueBusy' \in [Queues -> BOOLEAN]
             /\ \A r \in Queues : aQueueBusy'[r] =>
                  aQueueBusy[r] \/ bQueueBusy'[highestAdmittedAc[AcOf(r)]]
  <2>1. /\ bQueueBusy' \in [AC -> BOOLEAN] /\ bQueueBusy'[pkt.ac]
        /\ \A x \in AC : bQueueBusy[x] => bQueueBusy'[x]
    BY <1>3, <1>6, <1>7 DEF Stop
  <2>2. aQueueBusy' = [r \in Queues |-> IF r \in Siblings(q)
                                        THEN highestAdmittedAc[AcOf(r)] \in {pkt.ac}
                                        ELSE aQueueBusy[r]]
    BY <1>7 DEF SetBusy, BusyFor
  <2>3. aQueueBusy' \in [Queues -> BOOLEAN]
    <3>1. ASSUME NEW r \in Queues PROVE aQueueBusy'[r] \in BOOLEAN
      <4>1. CASE r \in Siblings(q)
        <5>1. aQueueBusy'[r] = (highestAdmittedAc[AcOf(r)] \in {pkt.ac})
          BY <2>2, <4>1
        <5> QED BY <5>1
      <4>2. CASE r \notin Siblings(q)
        <5>1. aQueueBusy'[r] = aQueueBusy[r]
          BY <2>2, <4>2
        <5> QED BY <5>1 DEF BusyTypes
      <4> QED BY <4>1, <4>2
    <3>2. aQueueBusy' = [r \in Queues |-> aQueueBusy'[r]]
      BY <2>2
    <3> QED BY <3>1, <3>2
  <2>4. ASSUME NEW r \in Queues, aQueueBusy'[r]
        PROVE  aQueueBusy[r] \/ bQueueBusy'[highestAdmittedAc[AcOf(r)]]
    <3>1. CASE r \in Siblings(q)
      <4>1. highestAdmittedAc[AcOf(r)] = pkt.ac
        BY <2>2, <2>4, <3>1
      <4> QED BY <2>1, <4>1
    <3>2. CASE r \notin Siblings(q)
      BY <2>2, <2>4, <3>2
    <3> QED BY <3>1, <3>2
  <2> QED BY <2>1, <2>3, <2>4
<1>8. ASSUME Return(Sent(q))
      PROVE  /\ Len(todo') <= 2 /\ Later' = Later
             /\ \/ q \in AC /\ Now' = RunScheduler(0)
                \/ q \in MgmtQs /\ Now' = RunMgmtScheduler("MGMT")
  <2>1. CASE q \in AC
    <3>1. RunScheduler(0) \in Calls /\ Return(<<RunScheduler(0)>>)
      BY <1>8, <2>1, CallsMade DEF Sent
    <3> QED BY <1>1, <2>1, <3>1, Replaced
  <2>2. CASE q \in MgmtQs
    <3>1. RunMgmtScheduler("MGMT") \in Calls /\ Return(<<RunMgmtScheduler("MGMT")>>)
      BY <1>8, <2>2, CallsMade, MgmtQueues DEF Sent
    <3> QED BY <1>1, <2>2, <3>1, Replaced
  <2> QED BY <2>1, <2>2 DEF Queues
<1>9. CASE StopCurrent(pkt.ac, n) /\ SetBusy(Siblings(q), {pkt.ac}) /\ UNCHANGED busyAcBitmap
           /\ Return(<<Handling("Requeue", q, pkt, Now.idle)>>)
  <2>1. Handling("Requeue", q, pkt, Now.idle) \in Calls
    BY <1>1, CallsMade
  <2>2. Now' = Handling("Requeue", q, pkt, Now.idle) /\ Later' = Later /\ Len(todo') <= 2
    BY <1>1, <1>9, <2>1, Replaced
  <2>3. Now'.call = "Requeue" /\ Now'.q = q /\ Now'.idle = Now.idle /\ Now'.pkt = pkt
    BY <2>2 DEF Handling
  <2>4. Stop(pkt.ac, n)
    BY <1>9 DEF StopCurrent
  <2> QED BY <1>1, <1>2, <1>3, <1>6, <1>7, <1>9, <2>2, <2>3, <2>4
<1>10. CASE StopNext(pkt.ac, n) /\ SetBusy(Siblings(q), {pkt.ac}) /\ Return(Sent(q))
            /\ busyAcBitmap' = busyAcBitmap \union {pkt.ac}
  <2>1. Stop(pkt.ac, n)
    BY <1>10 DEF StopNext
  <2>2. busyAcBitmap' \subseteq AC /\ \A x \in busyAcBitmap' : x \in busyAcBitmap \/ bQueueBusy'[x]
    BY <1>3, <1>6, <1>7, <1>10, <2>1
  <2> QED BY <1>1, <1>2, <1>7, <1>8, <1>10, <2>1, <2>2
<1>11. CASE Success(pkt.ac, n) /\ Return(Sent(q)) /\ UNCHANGED <<aQueueBusy, busyAcBitmap>>
  <2>1. bQueueBusy' = bQueueBusy
    BY <1>11 DEF Success, busyVars
  <2> QED BY <1>1, <1>2, <1>6, <1>8, <1>11, <2>1
<1> QED BY <1>5, <1>9, <1>10, <1>11

\* A packet is sent, or is about to be put back in its queue.
LEMMA XmitServed ==
  ASSUME ServedInv, PathOK', Xmit
  PROVE  CallsServed'
<1>1. PICK q \in Queues :
        /\ q = Now.q /\ Now.call = "Xmit" /\ Now.idle \in Nat /\ Len(todo') <= 2
        /\ Later' = Later /\ bQueueBusy' \in [AC -> BOOLEAN]
        /\ \A x \in AC : bQueueBusy[x] => bQueueBusy'[x]
        /\ aQueueBusy' \in [Queues -> BOOLEAN]
        /\ \A r \in Queues : aQueueBusy'[r] =>
             aQueueBusy[r] \/ bQueueBusy'[highestAdmittedAc[AcOf(r)]]
        /\ busyAcBitmap' \subseteq AC
        /\ \A x \in busyAcBitmap' : x \in busyAcBitmap \/ bQueueBusy'[x]
        /\ \/ /\ Now'.call = "Requeue" /\ Now'.q = q /\ Now'.idle = Now.idle
              /\ Now'.pkt.ac \in AC /\ bQueueBusy'[Now'.pkt.ac]
              /\ highestAdmittedAc[Now'.pkt.ac] = Now'.pkt.ac
           \/ q \in AC /\ Now' = RunScheduler(0)
           \/ q \in MgmtQs /\ Now' = RunMgmtScheduler("MGMT")
  BY XmitEffect
<1> USE DEF ServedInv, CallsServed
<1>2. /\ RunMgmtScheduler("MGMT").call = "runScheduler" /\ RunMgmtScheduler("MGMT").q = "MGMT"
      /\ RunScheduler(0).call = "RunScheduler" /\ RunScheduler(0).idle = 0
  BY DEF RunMgmtScheduler, RunScheduler
<1>3. /\ UNCHANGED <<aQueues, highestAdmittedAc, txSuspended, queuesMuxState, aQueueEnabledBySM,
                     bDataPortEnable, bMgmtPortEnable, eSmState, uLastQueId, phase, missed,
                     dataRequest, paceTimer, mgmtRequest>>
      /\ MgmtEmpty' = MgmtEmpty
  BY DEF Xmit, portVars, smVars, requestVars, MgmtEmpty
<1>4. \A r \in Queues : aQueues[r] # <<>> /\ WaitsForRoom(r) => WaitsForRoom(r)'
  <2> SUFFICES ASSUME NEW r \in Queues, aQueues[r] # <<>>, WaitsForRoom(r) PROVE WaitsForRoom(r)'
    OBVIOUS
  <2>1. Len(aQueues[r]) \in Nat
    BY DEF PathOK
  <2>2. Head(aQueues'[r]) = Head(aQueues[r]) /\ Len(aQueues'[r]) >= Len(aQueues[r])
    BY <1>3, <2>1
  <2> QED BY <1>1, <1>3, <2>2, WaitsKept
<1>5. /\ q \in AC <=> q \notin MgmtQs
      /\ DataCall(Now) <=> q \in AC
      /\ MgmtCall(Now) <=> q \in MgmtQs
      /\ DataCall(Now)' <=> q \in AC
      /\ MgmtCall(Now)' <=> q \in MgmtQs
  BY <1>1, <1>2, MgmtQueues DEF DataCall, MgmtCall, Sending, Queues
<1>6. BusyTypes' /\ PortInv'
  BY <1>1, <1>3 DEF BusyTypes, PortInv
<1>7. ShapeInv'
  <2>1. Sending(Now, MgmtQs)' => Now'.q = q /\ q \in MgmtQs /\ Sending(Now, MgmtQs)
    BY <1>1, <1>2 DEF Sending
  <2>2. Now'.call # "mgmtQueuesSM"
    BY <1>1, <1>2
  <2>3. DataCall(Now') <=> DataCall(Now)'
    BY DEF DataCall, Sending
  <2>4. MgmtCall(Now') <=> MgmtCall(Now)'
    BY DEF MgmtCall, Sending
  <2> QED BY <1>1, <1>3, <1>5, <2>1, <2>2, <2>3, <2>4 DEF ShapeInv
<1>8. RefusedInv'
  BY <1>1, <1>2, <1>3 DEF RefusedInv
<1>9. BusyInv'
  <2>1. (Updating' <=> Updating) /\ ~Updates(Now)'
    BY <1>1, <1>2 DEF Updating, Updates
  <2>2. highestAdmittedAc \in [AC -> AC]
    BY DEF PathOK
  <2> QED BY <1>1, <1>3, <2>1, <2>2, MgmtQueues DEF BusyInv, BusyTypes, Updates
<1>10. DataInv'
  <2> SUFFICES ASSUME bDataPortEnable, NEW r \in AC, aQueues[r] # <<>> PROVE DataServed(r)'
    BY <1>3 DEF DataInv
  <2>1. DataServed(r) /\ r \in Queues /\ (WaitsForRoom(r) => WaitsForRoom(r)')
    BY <1>4, MgmtQueues DEF DataInv
  <2>2. CASE Now' = RunScheduler(0)
    <3>1. Passed(0)' = {}
      BY DEF Passed
    <3> QED BY <1>2, <2>2, <3>1 DEF DataServed, DataCall
  <2>3. CASE Now'.call = "Requeue" /\ Now'.q = q /\ Now'.idle = Now.idle
    <3>1. PICK i \in Nat : i = Now.idle
      BY <1>1
    <3>2. Passed(i)' = Passed(i)
      BY <1>3 DEF Passed
    <3> QED BY <1>1, <1>3, <1>5, <2>1, <2>3, <3>1, <3>2 DEF DataServed, DataCall, Sending
  <2>4. CASE q \in MgmtQs
    BY <1>1, <1>3, <1>5, <2>1, <2>4 DEF DataServed, Sending
  <2> QED BY <1>1, <2>2, <2>3, <2>4
<1>11. MgmtInv'
  <2> SUFFICES ASSUME bMgmtPortEnable, NEW r \in Lets(eSmState), aQueues[r] # <<>>
               PROVE  MgmtServed(r)'
    BY <1>3 DEF MgmtInv
  <2>1. MgmtServed(r) /\ r \in Queues /\ (WaitsForRoom(r) => WaitsForRoom(r)')
    BY <1>4, MgmtQueues DEF MgmtInv, BusyTypes
  <2>2. Updating' <=> Updating
    BY <1>1, <1>2 DEF Updating, Updates
  <2>3. CASE Now' = RunMgmtScheduler("MGMT")
    BY <1>2, <2>3 DEF MgmtServed, MgmtCall
  <2>4. CASE Now'.call = "Requeue" /\ Now'.q = q
    BY <1>1, <1>3, <2>1, <2>2, <2>4 DEF MgmtServed, MgmtCall, Sending
  <2>5. CASE q \in AC
    BY <1>1, <1>3, <1>5, <2>1, <2>2, <2>5 DEF MgmtServed
  <2> QED BY <1>1, <2>3, <2>4, <2>5
<1>12. AccessInv'
  BY <1>1, <1>2, <1>3 DEF AccessInv
<1> QED BY <1>6, <1>7, <1>8, <1>9, <1>10, <1>11, <1>12

\* The queue of a packet that was refused waits for room, the packet lost or not.
LEMMA RequeueEffect ==
  ASSUME ServedInv, PathOK', Requeue
  PROVE  \E q \in Queues :
           /\ q = Now.q /\ Now.call = "Requeue" /\ Now.idle \in Nat /\ Len(todo') <= 2
           /\ \A r \in Queues \ {q} : aQueues'[r] = aQueues[r]
           /\ aQueues'[q] # <<>> /\ WaitsForRoom(q)'
           /\ \/ q \in AC /\ Now' = RunScheduler(Now.idle) /\ Later' = Later
              \/ q = "MGMT" /\ Now' = RunMgmtScheduler("EAPOL") /\ Later' = Later
              \/ q = "EAPOL" /\ Now' = Later /\ Later' = NoCall
<1> USE DEF ServedInv, CallsServed
<1>1. /\ Now.call = "Requeue" /\ Now \in Calls /\ Current = Now /\ todo # <<>> /\ Len(todo) <= 2
      /\ Now.q \in Queues /\ Now.pkt \in Packets /\ Now.idle \in Nat
  BY CallsNow, CallsRead, CurrentOK DEF Requeue, ShapeInv
<1>2. PICK q \in Queues, pkt \in Packets :
         q = Now.q /\ pkt = Now.pkt /\ bQueueBusy[pkt.ac] /\ highestAdmittedAc[pkt.ac] = pkt.ac
  BY <1>1 DEF RefusedInv
<1>3. /\ pkt.ac \in AC /\ aQueues[q] \in Seq(Packets) /\ Len(aQueues[q]) \in Nat
      /\ QueueMax[q] \in Nat /\ QueueMax[q] > 0
  <2>1. pkt.ac \in AC
    BY DEF Packets
  <2>2. aQueues[q] \in Seq(Packets) /\ Len(aQueues[q]) \in Nat
    BY DEF PathOK
  <2>3. QueueMax[q] \in Nat /\ QueueMax[q] > 0
    BY TxPathAssumption
  <2> QED BY <2>1, <2>2, <2>3
<1>4. /\ aQueues' = [aQueues EXCEPT ![q] = IF Len(@) < QueueMax[q] THEN <<pkt>> \o @ ELSE @]
      /\ UNCHANGED <<bQueueBusy, highestAdmittedAc>>
  BY <1>1, <1>2 DEF Requeue, PutBack, hwVars, busyVars, ctrlVars
<1>5. aQueues'[q] # <<>> /\ WaitsForRoom(q)'
  <2>1. CASE Len(aQueues[q]) < QueueMax[q]
    <3>1. aQueues'[q] = <<pkt>> \o aQueues[q]
      BY <1>4, <2>1 DEF PathOK
    <3>2. <<pkt>> \in Seq(Packets) /\ Len(<<pkt>>) = 1 /\ <<pkt>>[1] = pkt
      OBVIOUS
    <3>3. aQueues'[q] \in Seq(Packets) /\ Len(aQueues'[q]) > 0 /\ aQueues'[q][1] = pkt
      BY <1>3, <3>1, <3>2, ConcatProperties
    <3>4. aQueues'[q] # <<>> /\ Head(aQueues'[q]) = pkt
      BY <3>3
    <3> QED BY <1>2, <1>4, <3>4 DEF WaitsForRoom
  <2>2. CASE ~(Len(aQueues[q]) < QueueMax[q])
    <3>1. aQueues'[q] = aQueues[q]
      BY <1>4, <2>2 DEF PathOK
    <3>2. Len(aQueues'[q]) >= QueueMax[q] /\ aQueues'[q] # <<>>
      BY <1>3, <2>2, <3>1, EmptySeq
    <3> QED BY <1>2, <1>3, <1>4, <3>2 DEF WaitsForRoom
  <2> QED BY <2>1, <2>2
<1>6. \A r \in Queues \ {q} : aQueues'[r] = aQueues[r]
  BY <1>4 DEF PathOK
<1>7. Return(IF q \in AC THEN <<RunScheduler(Now.idle)>> ELSE NextMgmt(q))
  BY <1>1, <1>2 DEF Requeue
<1>8. CASE q \in AC
  <2>1. RunScheduler(Now.idle) \in Calls /\ Return(<<RunScheduler(Now.idle)>>)
    BY <1>1, <1>7, <1>8, CallsMade
  <2>2. Now' = RunScheduler(Now.idle) /\ Later' = Later /\ Len(todo') <= 2
    BY <1>1, <2>1, Replaced
  <2> QED BY <1>1, <1>2, <1>5, <1>6, <1>8, <2>2
<1>9. CASE q = "MGMT"
  <2>1. RunMgmtScheduler("EAPOL") \in Calls /\ Return(<<RunMgmtScheduler("EAPOL")>>)
    BY <1>7, <1>9, CallsMade, MgmtQueues DEF NextMgmt
  <2>2. Now' = RunMgmtScheduler("EAPOL") /\ Later' = Later /\ Len(todo') <= 2
    BY <1>1, <2>1, Replaced
  <2> QED BY <1>1, <1>2, <1>5, <1>6, <1>9, <2>2
<1>10. CASE q = "EAPOL"
  <2>1. Return(<<>>)
    BY <1>7, <1>10, MgmtQueues DEF NextMgmt
  <2>2. Now' = Later /\ Later' = NoCall /\ Len(todo') <= 2
    BY <1>1, <2>1, Ended
  <2> QED BY <1>1, <1>2, <1>5, <1>6, <1>10, <2>2
<1> QED BY <1>8, <1>9, <1>10 DEF Queues, MgmtQs

\* The scheduler goes on with the next queue.
LEMMA RequeueServed ==
  ASSUME ServedInv, PathOK', Requeue
  PROVE  CallsServed'
<1>1. PICK q \in Queues :
        /\ q = Now.q /\ Now.call = "Requeue" /\ Now.idle \in Nat /\ Len(todo') <= 2
        /\ \A r \in Queues \ {q} : aQueues'[r] = aQueues[r]
        /\ aQueues'[q] # <<>> /\ WaitsForRoom(q)'
        /\ \/ q \in AC /\ Now' = RunScheduler(Now.idle) /\ Later' = Later
           \/ q = "MGMT" /\ Now' = RunMgmtScheduler("EAPOL") /\ Later' = Later
           \/ q = "EAPOL" /\ Now' = Later /\ Later' = NoCall
  BY RequeueEffect
<1> USE DEF ServedInv, CallsServed
<1>2. /\ RunMgmtScheduler("EAPOL").call = "runScheduler" /\ RunMgmtScheduler("EAPOL").q = "EAPOL"
      /\ RunScheduler(Now.idle).call = "RunScheduler" /\ RunScheduler(Now.idle).idle = Now.idle
      /\ NoCall.call = "none"
  BY CallsNow DEF RunMgmtScheduler, RunScheduler
<1>3. /\ UNCHANGED <<bQueueBusy, aQueueBusy, highestAdmittedAc, busyAcBitmap,
                     bDataPortEnable, bMgmtPortEnable, eSmState, uLastQueId, phase, missed,
                     dataRequest, paceTimer, mgmtRequest>>
      /\ UNCHANGED <<ctrlVars, portVars, smVars>>
  BY DEF Requeue, hwVars, busyVars, ctrlVars, portVars, smVars, requestVars
<1>4. \A r \in Queues \ {q} : WaitsForRoom(r)' <=> WaitsForRoom(r)
  BY <1>1, <1>3 DEF WaitsForRoom
<1>5. /\ DataCall(Now) <=> q \in AC
      /\ MgmtCall(Now) <=> q \in MgmtQs
      /\ q \in AC <=> q \notin MgmtQs
      /\ q = "MGMT" \/ q = "EAPOL" <=> q \in MgmtQs
  BY <1>1, MgmtQueues DEF DataCall, MgmtCall, Sending, Queues
<1>6. /\ q \in MgmtQs => Later = NoCall \/ Later.call = "ifEmpty"
      /\ q \in AC => Later = NoCall \/ Later.call = "txMgmtQ_UpdateBusyMap"
  BY <1>5 DEF ShapeInv
<1>7. q \in MgmtQs => q \in Lets(eSmState) /\ eSmState # "OPEN_DATA"
  BY <1>1, MgmtQueues DEF ShapeInv, Sending
<1>8. BusyTypes' /\ PortInv'
  BY <1>3, PortKept
<1>9. ShapeInv' /\ RefusedInv'
  <2>1. CASE q \in AC
    BY <1>1, <1>2, <1>3, <1>5, <1>6, <2>1 DEF ShapeInv, RefusedInv, DataCall, MgmtCall, Sending
  <2>2. CASE q = "MGMT"
    BY <1>1, <1>2, <1>3, <1>5, <1>6, <2>2 DEF ShapeInv, RefusedInv, DataCall, MgmtCall, Sending
  <2>3. CASE q = "EAPOL"
    BY <1>1, <1>2, <1>3, <1>5, <1>6, <2>3 DEF ShapeInv, RefusedInv, DataCall, MgmtCall, Sending
  <2> QED BY <1>5, <2>1, <2>2, <2>3
<1>10. BusyInv' /\ (Updating' <=> Updating)
  BY <1>1, <1>2, <1>3, <1>5, <1>6 DEF BusyInv, Updating, Updates
<1>11. DataInv'
  <2> SUFFICES ASSUME bDataPortEnable, NEW r \in AC, aQueues'[r] # <<>> PROVE DataServed(r)'
    BY <1>3 DEF DataInv
  <2>1. CASE r = q
    BY <1>1, <2>1 DEF DataServed
  <2>2. CASE r # q
    <3>1. r \in Queues /\ aQueues[r] # <<>> /\ DataServed(r)
      BY <1>1, <2>2, MgmtQueues DEF DataInv
    <3>2. WaitsForRoom(r)' <=> WaitsForRoom(r)
      BY <1>4, <2>2, <3>1
    <3>3. PICK i \in Nat : i = Now.idle
      BY <1>1
    <3>4. Passed(i)' = Passed(i)
      BY <1>3 DEF Passed
    <3>5. CASE q \in AC
      <4>1. DataCall(Now') /\ Now'.idle = i
        BY <1>1, <1>2, <1>5, <3>3, <3>5 DEF DataCall
      <4> QED BY <1>1, <1>3, <2>2, <3>1, <3>2, <3>3, <3>4, <4>1 DEF DataServed, DataCall
    <3>6. CASE q \in MgmtQs
      BY <1>1, <1>3, <1>5, <3>1, <3>2, <3>6 DEF DataServed, Sending
    <3> QED BY <1>5, <3>5, <3>6
  <2> QED BY <2>1, <2>2
<1>12. MgmtInv'
  <2> SUFFICES ASSUME bMgmtPortEnable, NEW r \in Lets(eSmState), aQueues'[r] # <<>>
               PROVE  MgmtServed(r)'
    BY <1>3 DEF MgmtInv
  <2>1. CASE r = q
    BY <1>1, <2>1 DEF MgmtServed
  <2>2. CASE r # q
    <3>1. r \in Queues /\ r \in MgmtQs /\ aQueues[r] # <<>> /\ MgmtServed(r)
      BY <1>1, <2>2, MgmtQueues DEF MgmtInv, BusyTypes
    <3>2. WaitsForRoom(r)' <=> WaitsForRoom(r)
      BY <1>4, <2>2, <3>1
    <3>3. CASE q \in AC
      BY <1>1, <1>3, <1>5, <1>10, <3>1, <3>2, <3>3 DEF MgmtServed
    <3>4. CASE q = "MGMT"
      <4>1. r = "EAPOL"
        BY <2>2, <3>1, <3>4 DEF MgmtQs
      <4> QED BY <1>1, <1>2, <1>5, <3>4, <4>1 DEF MgmtServed, MgmtCall
    <3>5. CASE q = "EAPOL"
      <4>1. r = "MGMT"
        BY <2>2, <3>1, <3>5 DEF MgmtQs
      <4> QED BY <1>1, <1>3, <1>10, <3>1, <3>2, <3>5, <4>1 DEF MgmtServed
    <3> QED BY <1>5, <3>3, <3>4, <3>5
  <2> QED BY <2>1, <2>2
<1>13. AccessInv'
  <2>1. CASE q \in AC
    <3>1. MgmtEmpty' <=> MgmtEmpty
      BY <1>1, <2>1, MgmtQueues DEF MgmtEmpty
    <3> QED BY <1>1, <1>2, <1>3, <1>5, <2>1, <3>1 DEF AccessInv
  <2>2. CASE q \in MgmtQs
    <3>1. ~MgmtEmpty'
      BY <1>1, <2>2 DEF MgmtEmpty
    <3>2. Now'.call # "mgmtQueuesSM"
      BY <1>1, <1>2, <1>5, <1>6, <2>2
    <3> QED BY <1>3, <1>7, <2>2, <3>1, <3>2 DEF AccessInv
  <2> QED BY <1>5, <2>1, <2>2
<1> QED BY <1>8, <1>9, <1>10, <1>11, <1>12, <1>13
------------------------------------------------------------------------------
(* Events that find the driver's thread idle.                              *)

\* What is owed then is owed by the requests, the timer and the firmware.
LEMMA IdleServed ==
  ASSUME ServedInv, Idle
  PROVE  /\ Now = NoCall /\ Later = NoCall /\ NoCall.call = "none"
         /\ bDataPortEnable => \A q \in AC : aQueues[q] # <<>> =>
              dataRequest \/ paceTimer \/ WaitsForRoom(q)
         /\ bMgmtPortEnable => \A q \in Lets(eSmState) : aQueues[q] # <<>> =>
              mgmtRequest \/ missed \/ WaitsForRoom(q)
         /\ eSmState = "OPEN_DATA" /\ ~MgmtEmpty => mgmtRequest
         /\ eSmState = "OPEN_MGMT" /\ MgmtEmpty => mgmtRequest \/ missed
<1> USE DEF ServedInv, CallsServed
<1>1. Now = NoCall /\ Later = NoCall /\ NoCall.call = "none"
  <2>1. Len(todo) = 0
    BY DEF Idle
  <2> QED BY <2>1, CallsNow DEF Later
<1>2. bDataPortEnable => \A q \in AC : aQueues[q] # <<>> =>
        dataRequest \/ paceTimer \/ WaitsForRoom(q)
  BY <1>1 DEF DataInv, DataServed, DataCall, Sending
<1>3. bMgmtPortEnable => \A q \in Lets(eSmState) : aQueues[q] # <<>> =>
        mgmtRequest \/ missed \/ WaitsForRoom(q)
  BY <1>1 DEF MgmtInv, MgmtServed, MgmtCall, Sending, Updating, Updates
<1>4. /\ eSmState = "OPEN_DATA" /\ ~MgmtEmpty => mgmtRequest
      /\ eSmState = "OPEN_MGMT" /\ MgmtEmpty => mgmtRequest \/ missed
  BY <1>1 DEF AccessInv
<1> QED BY <1>1, <1>2, <1>3, <1>4

\* An event that makes one call at most and does not touch the marks, the admission, the
\* port and the state machine.
LEMMA IdleKept ==
  ASSUME ServedInv, Idle, Later' = NoCall, Len(todo') <= 2,
         Now'.call \in {"none", "RunScheduler", "mgmtQueuesSM"},
         Now'.call = "mgmtQueuesSM" =>
           /\ Now'.event = "EAPOL" => eSmState \in {"CLOSE", "MGMT"}
           /\ Now'.event = "OPEN" => eSmState = "EAPOL",
         UNCHANGED <<bQueueBusy, aQueueBusy, ctrlVars, portVars, smVars, phase>>
  PROVE  BusyTypes' /\ ShapeInv' /\ PortInv' /\ BusyInv' /\ RefusedInv'
<1> USE DEF ServedInv, CallsServed
<1>1. Now = NoCall /\ Later = NoCall /\ NoCall.call = "none"
  BY IdleServed
<1>2. BusyTypes' /\ PortInv'
  BY PortKept
<1> USE DEF ctrlVars, portVars, smVars
<1>3. ShapeInv' /\ RefusedInv'
  BY <1>1 DEF ShapeInv, RefusedInv, DataCall, MgmtCall, Sending
<1>4. BusyInv'
  BY <1>1 DEF BusyInv, Updating, Updates
<1> QED BY <1>2, <1>3, <1>4

\* A packet of the driver: the first one in the queue is reported to the state machine.
LEMMA XmitMgmtServed ==
  ASSUME ServedInv, PathOK', NEW len \in Lens, XmitMgmt(len)
  PROVE  CallsServed'
<1>1. /\ [ac |-> "VO", len |-> len] \in Packets /\ "MGMT" \in Queues
      /\ Put("MGMT", [ac |-> "VO", len |-> len]) /\ Idle
  BY DEF Packets, Queues, XmitMgmt, AC, MgmtQs, Start
<1>2. /\ UNCHANGED <<bQueueBusy, aQueueBusy, highestAdmittedAc, bDataPortEnable, bMgmtPortEnable,
                     eSmState, phase, missed, dataRequest, paceTimer, mgmtRequest>>
      /\ UNCHANGED <<ctrlVars, portVars, smVars>>
  BY DEF XmitMgmt, hwVars, busyVars, ctrlVars, portVars, smVars, requestVars
<1>3. /\ Later' = NoCall /\ Len(todo') <= 2
      /\ \/ aQueues["MGMT"] = <<>> /\ Now' = MgmtQueuesSM("QUEUES_NOT_EMPTY")
         \/ aQueues["MGMT"] # <<>> /\ Now' = NoCall
  <2>1. MgmtQueuesSM("QUEUES_NOT_EMPTY") \in Calls
    BY CallsMade DEF Events
  <2>2. CASE aQueues["MGMT"] = <<>>
    BY <2>1, <2>2, Begun DEF XmitMgmt
  <2>3. CASE aQueues["MGMT"] # <<>>
    BY <2>1, <2>3, Begun DEF XmitMgmt
  <2> QED BY <2>2, <2>3
<1>4. /\ MgmtQueuesSM("QUEUES_NOT_EMPTY").call = "mgmtQueuesSM"
      /\ MgmtQueuesSM("QUEUES_NOT_EMPTY").event = "QUEUES_NOT_EMPTY" /\ NoCall.call = "none"
  BY <1>1, IdleServed DEF MgmtQueuesSM
<1>5. BusyTypes' /\ ShapeInv' /\ PortInv' /\ BusyInv' /\ RefusedInv'
  BY <1>1, <1>2, <1>3, <1>4, IdleKept
<1>6. \A r \in Queues : aQueues[r] # <<>> /\ WaitsForRoom(r) => WaitsForRoom(r)'
  BY <1>1, <1>2, PutEffect, WaitsKept DEF ServedInv, CallsServed
<1>7. /\ \A r \in Queues \ {"MGMT"} : aQueues'[r] = aQueues[r]
      /\ \A r \in AC : aQueues'[r] = aQueues[r]
      /\ aQueues'["MGMT"] # <<>>
  BY <1>1, PutEffect, MgmtQueues DEF ServedInv
<1>8. DataInv'
  <2> SUFFICES ASSUME bDataPortEnable, NEW r \in AC, aQueues'[r] # <<>> PROVE DataServed(r)'
    BY <1>2 DEF DataInv
  <2>1. dataRequest \/ paceTimer \/ WaitsForRoom(r)
    BY <1>1, <1>7, IdleServed
  <2>2. WaitsForRoom(r) => WaitsForRoom(r)'
    BY <1>6, <1>7, MgmtQueues
  <2> QED BY <1>2, <2>1, <2>2 DEF DataServed
<1>9. MgmtInv'
  <2> SUFFICES ASSUME bMgmtPortEnable, NEW r \in Lets(eSmState), aQueues'[r] # <<>>
               PROVE  MgmtServed(r)'
    BY <1>2 DEF MgmtInv
  <2>1. CASE aQueues["MGMT"] = <<>>
    BY <1>3, <1>4, <2>1 DEF MgmtServed
  <2>2. CASE aQueues["MGMT"] # <<>>
    <3>1. r \in Queues /\ aQueues[r] # <<>>
      BY <1>7, <2>2, MgmtQueues DEF ServedInv, CallsServed, BusyTypes
    <3>2. mgmtRequest \/ missed \/ WaitsForRoom(r)
      BY <1>1, <3>1, IdleServed
    <3> QED BY <1>2, <1>6, <3>1, <3>2 DEF MgmtServed
  <2> QED BY <2>1, <2>2
<1>10. AccessInv'
  <2>1. ~MgmtEmpty' /\ (aQueues["MGMT"] # <<>> => ~MgmtEmpty)
    BY <1>7, MgmtQueues DEF MgmtEmpty
  <2>2. eSmState = "OPEN_DATA" /\ ~MgmtEmpty => mgmtRequest
    BY <1>1, IdleServed
  <2> QED BY <1>2, <1>3, <1>4, <2>1, <2>2 DEF AccessInv
<1> QED BY <1>5, <1>8, <1>9, <1>10 DEF CallsServed

\* The requests, the pacing timer and the connection's state machines.
LEMMA RequestServed ==
  ASSUME ServedInv, PathOK',
         \/ ServeData \/ PaceTimeout \/ ServeMgmt
         \/ \E state \in {"CLOSE", "MGMT", "EAPOL", "OPEN"} : SetConnState(state)
  PROVE  CallsServed'
<1>1. /\ Idle
      /\ UNCHANGED <<aQueues, bQueueBusy, aQueueBusy, highestAdmittedAc, bDataPortEnable,
                     bMgmtPortEnable, eSmState, phase, missed>>
      /\ UNCHANGED <<ctrlVars, portVars, smVars>>
      /\ MgmtEmpty' = MgmtEmpty
  BY DEF ServeData, PaceTimeout, ServeMgmt, SetConnState, Start, hwVars, busyVars, ctrlVars,
         portVars, smVars, MgmtEmpty
<1>2. \A q : WaitsForRoom(q)' <=> WaitsForRoom(q)
  BY <1>1, WaitsSame
<1>3. CASE ServeData \/ PaceTimeout
  <2>1. Now' = RunScheduler(0) /\ Later' = NoCall /\ Len(todo') <= 2
    <3>1. RunScheduler(0) \in Calls
      BY CallsMade
    <3> QED BY <1>3, <3>1, Begun DEF ServeData, PaceTimeout
  <2>2. /\ RunScheduler(0).call = "RunScheduler" /\ RunScheduler(0).idle = 0
        /\ mgmtRequest' = mgmtRequest
    BY <1>3 DEF RunScheduler, ServeData, PaceTimeout
  <2>3. BusyTypes' /\ ShapeInv' /\ PortInv' /\ BusyInv' /\ RefusedInv'
    BY <1>1, <2>1, <2>2, IdleKept
  <2>4. DataInv'
    <3>1. Passed(0)' = {}
      BY DEF Passed
    <3> QED BY <2>1, <2>2, <3>1 DEF DataInv, DataServed, DataCall
  <2>5. MgmtInv'
    BY <1>1, <1>2, <2>2, IdleServed DEF MgmtInv, MgmtServed
  <2>6. AccessInv'
    BY <1>1, <2>1, <2>2, IdleServed DEF AccessInv
  <2> QED BY <2>3, <2>4, <2>5, <2>6 DEF CallsServed
<1>4. CASE ServeMgmt
  <2>1. Now' = MgmtQueuesSM("QUEUES_NOT_EMPTY") /\ Later' = NoCall /\ Len(todo') <= 2
    <3>1. MgmtQueuesSM("QUEUES_NOT_EMPTY") \in Calls
      BY CallsMade DEF Events
    <3> QED BY <1>4, <3>1, Begun DEF ServeMgmt
  <2>2. /\ MgmtQueuesSM("QUEUES_NOT_EMPTY").call = "mgmtQueuesSM"
        /\ MgmtQueuesSM("QUEUES_NOT_EMPTY").event = "QUEUES_NOT_EMPTY"
        /\ UNCHANGED <<dataRequest, paceTimer>>
    BY <1>4 DEF MgmtQueuesSM, ServeMgmt
  <2>3. BusyTypes' /\ ShapeInv' /\ PortInv' /\ BusyInv' /\ RefusedInv'
    BY <1>1, <2>1, <2>2, IdleKept
  <2>4. DataInv'
    BY <1>1, <1>2, <2>2, IdleServed DEF DataInv, DataServed
  <2>5. MgmtInv'
    BY <2>1, <2>2 DEF MgmtInv, MgmtServed
  <2>6. AccessInv'
    BY <2>1, <2>2 DEF AccessInv
  <2> QED BY <2>3, <2>4, <2>5, <2>6 DEF CallsServed
<1>5. ASSUME NEW state \in {"CLOSE", "MGMT", "EAPOL", "OPEN"}, SetConnState(state)
      PROVE  CallsServed'
  <2>1. Now' = MgmtQueuesSM(state) /\ Later' = NoCall /\ Len(todo') <= 2
    <3>1. MgmtQueuesSM(state) \in Calls
      BY CallsMade DEF Events
    <3> QED BY <1>5, <3>1, Begun DEF SetConnState
  <2>2. /\ MgmtQueuesSM(state).call = "mgmtQueuesSM" /\ MgmtQueuesSM(state).event = state
        /\ UNCHANGED <<dataRequest, paceTimer, mgmtRequest>>
        /\ state = "EAPOL" => eSmState \in {"CLOSE", "MGMT"}
        /\ state = "OPEN" => eSmState = "EAPOL"
    BY <1>5 DEF MgmtQueuesSM, SetConnState, requestVars
  <2>3. BusyTypes' /\ ShapeInv' /\ PortInv' /\ BusyInv' /\ RefusedInv'
    BY <1>1, <2>1, <2>2, IdleKept
  <2>4. DataInv'
    BY <1>1, <1>2, <2>2, IdleServed DEF DataInv, DataServed
  <2>5. MgmtInv'
    BY <1>1, <1>2, <2>2, IdleServed DEF MgmtInv, MgmtServed
  <2>6. AccessInv'
    BY <1>1, <2>1, <2>2, IdleServed DEF AccessInv
  <2> QED BY <2>3, <2>4, <2>5, <2>6 DEF CallsServed
<1> QED BY <1>3, <1>4, <1>5

\* The marks are replaced, of the data queues now and of the others after a burst.
LEMMA Refreshed ==
  ASSUME ServedInv, PathOK', Idle,
         NEW b \in BOOLEAN, b <=> highestAdmittedAc'["VO"] \in busyAcBitmap',
         Start(<<RunScheduler(0), UpdateMgmtBusyMap(b)>>),
         bQueueBusy' \in [AC -> BOOLEAN], busyAcBitmap' \subseteq AC,
         aQueueBusy' = [q \in Queues |-> IF q \in AC THEN highestAdmittedAc'[q] \in busyAcBitmap'
                                         ELSE aQueueBusy[q]],
         phase' # "loaded" => \A x \in busyAcBitmap' : bQueueBusy'[x],
         \A ac \in AC : highestAdmittedAc'[highestAdmittedAc'[ac]] = highestAdmittedAc'[ac],
         phase' = "up" <=> phase = "up",
         UNCHANGED <<aQueues, portVars, smVars, requestVars, missed>>
  PROVE  CallsServed'
<1>1. /\ UNCHANGED <<bDataPortEnable, bMgmtPortEnable, queuesMuxState, txSuspended, eSmState,
                     aQueueEnabledBySM, mgmtRequest>>
      /\ MgmtEmpty' = MgmtEmpty
  BY DEF portVars, smVars, requestVars, MgmtEmpty
<1>2. Now' = RunScheduler(0) /\ Later' = UpdateMgmtBusyMap(b) /\ Len(todo') <= 2
  <2>1. RunScheduler(0) \in Calls /\ UpdateMgmtBusyMap(b) \in Calls
    BY CallsMade
  <2> QED BY <2>1, Begun
<1>3. /\ RunScheduler(0).call = "RunScheduler" /\ RunScheduler(0).idle = 0
      /\ UpdateMgmtBusyMap(b).call = "txMgmtQ_UpdateBusyMap" /\ UpdateMgmtBusyMap(b).busy = b
  BY DEF RunScheduler, UpdateMgmtBusyMap
<1>4. BusyTypes'
  <2>1. aQueueBusy' \in [Queues -> BOOLEAN]
    <3>1. ASSUME NEW r \in Queues PROVE aQueueBusy'[r] \in BOOLEAN
      <4>1. CASE r \in AC
        <5>1. aQueueBusy'[r] = (highestAdmittedAc'[r] \in busyAcBitmap')
          BY <4>1
        <5>2. (highestAdmittedAc'[r] \in busyAcBitmap') \in BOOLEAN
          OBVIOUS
        <5> QED BY <5>1, <5>2, Zenon
      <4>2. CASE r \notin AC
        <5>1. aQueueBusy'[r] = aQueueBusy[r]
          BY <4>2
        <5> QED BY <5>1 DEF ServedInv, CallsServed, BusyTypes
      <4> QED BY <4>1, <4>2
    <3>2. aQueueBusy' = [r \in Queues |-> aQueueBusy'[r]]
      OBVIOUS
    <3> QED BY <3>1, <3>2
  <2> QED BY <1>1, <2>1 DEF ServedInv, CallsServed, BusyTypes
<1>5. PortInv'
  BY <1>1 DEF ServedInv, CallsServed, PortInv
<1>6. ShapeInv' /\ RefusedInv'
  BY <1>2, <1>3 DEF ShapeInv, RefusedInv, DataCall, MgmtCall, Sending
<1>7. BusyInv'
  <2>1. Updating' /\ ~Updates(Now)' /\ (Later'.busy <=> b)
    BY <1>2, <1>3 DEF Updating, Updates
  <2>2. phase' # "loaded" => \A q \in AC : aQueueBusy'[q] => bQueueBusy'[highestAdmittedAc'[q]]
    BY MgmtQueues
  <2>3. phase' # "loaded" /\ b => bQueueBusy'[highestAdmittedAc'["VO"]]
    OBVIOUS
  <2> QED BY <2>1, <2>2, <2>3 DEF BusyInv
<1>8. DataInv'
  <2>1. Passed(0)' = {}
    BY DEF Passed
  <2> QED BY <1>2, <1>3, <2>1 DEF DataInv, DataServed, DataCall
<1>9. MgmtInv'
  BY <1>2, <1>3 DEF MgmtInv, MgmtServed, Updating, Updates
<1>10. AccessInv'
  BY <1>1, <1>2, <1>3, IdleServed DEF AccessInv
<1> QED BY <1>4, <1>5, <1>6, <1>7, <1>8, <1>9, <1>10 DEF CallsServed

\* txCtrl_UpdateBackpressure looks at every queue again.
LEMMA BackpressureServed ==
  ASSUME ServedInv, PathOK', NEW freed, UpdateBackpressure(freed),
         bQueueBusy' \in [AC -> BOOLEAN],
         phase' # "loaded", \A x \in busyAcBitmap \ freed : bQueueBusy'[x],
         phase' = "up" <=> phase = "up",
         UNCHANGED <<aQueues, highestAdmittedAc, portVars, smVars, requestVars, missed>>
  PROVE  CallsServed'
<1>1. Idle /\ busyAcBitmap' = busyAcBitmap \ freed /\ busyAcBitmap' \subseteq AC
  BY DEF UpdateBackpressure, Start, ServedInv, CallsServed, BusyTypes
<1>2. PICK b \in BOOLEAN : b = (highestAdmittedAc["VO"] \in busyAcBitmap')
  <2>1. (highestAdmittedAc["VO"] \in busyAcBitmap') \in BOOLEAN
    OBVIOUS
  <2> QED BY <2>1, Zenon
<1>3. BusyFor("MGMT", busyAcBitmap') = b
  <2>1. AcOf("MGMT") = "VO"
    BY MgmtQueues
  <2> QED BY <1>2, <2>1 DEF BusyFor
<1>4. Start(<<RunScheduler(0), UpdateMgmtBusyMap(b)>>)
  BY <1>3 DEF UpdateBackpressure
<1>5. aQueueBusy' = [q \in Queues |-> IF q \in AC THEN highestAdmittedAc'[q] \in busyAcBitmap'
                                      ELSE aQueueBusy[q]]
  BY MgmtQueues DEF UpdateBackpressure, SetBusy, BusyFor
<1>6. \A ac \in AC : highestAdmittedAc'[highestAdmittedAc'[ac]] = highestAdmittedAc'[ac]
  BY DEF ServedInv, CallsServed, RefusedInv
<1> QED BY <1>1, <1>2, <1>4, <1>5, <1>6, Refreshed

\* So does the status of the firmware when it releases a category.
LEMMA StatusServed ==
  ASSUME ServedInv, PathOK', HandleStatus
  PROVE  CallsServed'
<1>1. /\ bQueueBusy' = [q \in AC |-> bQueueBusy[q] /\ ~Enough(q)]
      /\ bQueueBusy \in [AC -> BOOLEAN] /\ phase = "up" /\ phase' = "up"
      /\ UNCHANGED <<aQueues, uLastQueId, highestAdmittedAc, portVars, smVars, requestVars, missed>>
  BY DEF HandleStatus, UpdateFreeResources, ServedInv, CallsServed, BusyTypes
<1>2. bQueueBusy' \in [AC -> BOOLEAN]
  <2>1. ASSUME NEW q \in AC PROVE bQueueBusy'[q] \in BOOLEAN
    <3>1. bQueueBusy'[q] = (bQueueBusy[q] /\ ~Enough(q))
      BY <1>1
    <3> QED BY <3>1
  <2>2. bQueueBusy' = [q \in AC |-> bQueueBusy'[q]]
    BY <1>1
  <2> QED BY <2>1, <2>2
<1>3. CASE Released = {}
  <2>1. ASSUME NEW q \in AC PROVE bQueueBusy'[q] = bQueueBusy[q]
    <3>1. bQueueBusy[q] => bQueueBusy'[q]
      BY <1>3 DEF Released
    <3>2. bQueueBusy'[q] => bQueueBusy[q]
      BY <1>1
    <3>3. bQueueBusy'[q] \in BOOLEAN /\ bQueueBusy[q] \in BOOLEAN
      BY <1>1, <1>2
    <3> QED BY <3>1, <3>2, <3>3
  <2>2. bQueueBusy' = bQueueBusy
    <3>1. bQueueBusy' = [q \in AC |-> bQueueBusy'[q]] /\ bQueueBusy = [q \in AC |-> bQueueBusy[q]]
      BY <1>1
    <3> QED BY <2>1, <3>1, Zenon
  <2>3. UNCHANGED pathVars
    BY <1>1, <1>3 DEF HandleStatus, pathVars, ctrlVars
  <2> QED BY <2>2, <2>3, NothingChanged
<1>4. CASE Released # {}
  <2>1. PICK freed : freed = Released
    OBVIOUS
  <2>2. UpdateBackpressure(freed)
    BY <1>4, <2>1 DEF HandleStatus
  <2>3. \A x \in busyAcBitmap \ freed : bQueueBusy'[x]
    BY <1>1, <2>1 DEF Released, ServedInv, CallsServed, BusyInv, BusyTypes
  <2> QED BY <1>1, <1>2, <2>2, <2>3, BackpressureServed
<1> QED BY <1>3, <1>4

\* So does the reset after the firmware was loaded, which releases all.
LEMMA ResetServed ==
  ASSUME ServedInv, PathOK', NotifyFwReset
  PROVE  CallsServed'
<1>1. busyAcBitmap \ AC = {} /\ bQueueBusy' = bQueueBusy /\ bQueueBusy \in [AC -> BOOLEAN]
  BY DEF ServedInv, CallsServed, BusyTypes, NotifyFwReset, hwVars, busyVars
<1> QED BY <1>1, BackpressureServed DEF NotifyFwReset

\* So does a change of the admission.
LEMMA MappingServed ==
  ASSUME ServedInv, PathOK', NEW a, UpdateQueuesMapping(a)
  PROVE  CallsServed'
<1>1. /\ Idle /\ UNCHANGED <<bQueueBusy, busyAcBitmap, phase>>
      /\ UNCHANGED <<aQueues, portVars, smVars, requestVars, missed>>
  BY DEF UpdateQueuesMapping, Start, hwVars, busyVars
<1>2. \A ac \in AC : highestAdmittedAc'[highestAdmittedAc'[ac]] = highestAdmittedAc'[ac]
  <2> SUFFICES ASSUME NEW ac \in AC
               PROVE  highestAdmittedAc'[highestAdmittedAc'[ac]] = highestAdmittedAc'[ac]
    OBVIOUS
  <2>1. highestAdmittedAc' = [x \in AC |-> Admitted(x, a)]
    BY DEF UpdateQueuesMapping
  <2>2. Admitted(ac, a) \in AC
    BY AdmittedOK
  <2>3. Admitted(Admitted(ac, a), a) = Admitted(ac, a)
    BY AdmittedTwice
  <2> QED BY <2>1, <2>2, <2>3
<1>3. PICK b \in BOOLEAN : b = (highestAdmittedAc'["VO"] \in busyAcBitmap)
  <2>1. (highestAdmittedAc'["VO"] \in busyAcBitmap) \in BOOLEAN
    OBVIOUS
  <2> QED BY <2>1, Zenon
<1>4. Start(<<RunScheduler(0), UpdateMgmtBusyMap(b)>>)
  BY <1>3, MgmtQueues DEF UpdateQueuesMapping
<1>5. aQueueBusy' = [q \in Queues |-> IF q \in AC THEN highestAdmittedAc'[q] \in busyAcBitmap'
                                      ELSE aQueueBusy[q]]
  BY <1>1, MgmtQueues DEF UpdateQueuesMapping
<1>6. /\ bQueueBusy' \in [AC -> BOOLEAN] /\ busyAcBitmap' \subseteq AC
      /\ phase' # "loaded" => \A x \in busyAcBitmap' : bQueueBusy'[x]
  BY <1>1 DEF ServedInv, CallsServed, BusyTypes, BusyInv
<1> QED BY <1>1, <1>2, <1>3, <1>4, <1>5, <1>6, Refreshed

------------------------------------------------------------------------------
(* The recovery.                                                           *)

\* While the port is suspended no packet may be sent.
LEMMA RecoveryServed ==
  ASSUME ServedInv, PathOK', StopActivities \/ FwReloaded
  PROVE  CallsServed'
<1>1. /\ Idle /\ UNCHANGED <<aQueues, aQueueBusy, highestAdmittedAc, busyAcBitmap, queuesMuxState,
                             eSmState, aQueueEnabledBySM, mgmtRequest, missed>>
      /\ MgmtEmpty' = MgmtEmpty
  BY DEF StopActivities, FwReloaded, UpdateQueuesStates, Start, ctrlVars, portVars, smVars,
         requestVars, MgmtEmpty
<1>2. phase' # "up" /\ txSuspended' /\ ~bDataPortEnable' /\ ~bMgmtPortEnable'
  <2>1. CASE StopActivities
    BY <2>1 DEF StopActivities, UpdateQueuesStates
  <2>2. CASE FwReloaded
    BY <2>2 DEF FwReloaded, portVars, ServedInv, CallsServed, PortInv
  <2> QED BY <2>1, <2>2
<1>3. Now' = NoCall /\ Later' = NoCall /\ Len(todo') <= 2
  <2>1. todo' = <<>>
    BY DEF StopActivities, FwReloaded, Start, Idle
  <2> QED BY <2>1 DEF Now, Later
<1>4. Now = NoCall /\ Later = NoCall /\ NoCall.call = "none"
  BY <1>1, IdleServed
<1>5. /\ bQueueBusy' \in [AC -> BOOLEAN]
      /\ phase' # "loaded" => bQueueBusy' = bQueueBusy /\ phase # "loaded"
  BY DEF StopActivities, FwReloaded, Restart, hwVars, busyVars, ServedInv, CallsServed, BusyTypes
<1>6. BusyTypes' /\ PortInv'
  BY <1>1, <1>2, <1>5 DEF BusyTypes, PortInv, ServedInv, CallsServed
<1>7. ShapeInv' /\ RefusedInv'
  BY <1>1, <1>3, <1>4 DEF ShapeInv, RefusedInv, DataCall, MgmtCall, Sending, ServedInv, CallsServed
<1>8. BusyInv'
  BY <1>1, <1>3, <1>4, <1>5 DEF BusyInv, Updating, Updates, ServedInv, CallsServed
<1>9. DataInv' /\ MgmtInv'
  BY <1>2 DEF DataInv, MgmtInv
<1>10. AccessInv'
  BY <1>1, <1>3, <1>4, IdleServed DEF AccessInv
<1> QED BY <1>6, <1>7, <1>8, <1>9, <1>10 DEF CallsServed

\* The group that the port is opened for is served.
LEMMA EnableServed ==
  ASSUME ServedInv, PathOK', EnableActivities
  PROVE  CallsServed'
<1>1. /\ Idle /\ UNCHANGED <<aQueues, bQueueBusy, aQueueBusy, highestAdmittedAc, busyAcBitmap,
                             queuesMuxState, eSmState, aQueueEnabledBySM, mgmtRequest, missed>>
      /\ phase # "loaded" /\ phase' = "up" /\ txSuspended' = FALSE
      /\ ~bDataPortEnable /\ ~bMgmtPortEnable
      /\ MgmtEmpty' = MgmtEmpty
  BY DEF EnableActivities, UpdateQueuesStates, Start, ctrlVars, smVars, hwVars, busyVars,
         requestVars, MgmtEmpty, ServedInv, CallsServed, PortInv
<1>2. /\ bMgmtPortEnable' <=> eSmState # "OPEN_DATA"
      /\ bDataPortEnable' <=> eSmState = "OPEN_DATA"
  BY DEF EnableActivities, UpdateQueuesStates, ServedInv, CallsServed, PortInv
<1>3. /\ Later' = NoCall /\ Len(todo') <= 2
      /\ \/ bMgmtPortEnable' /\ Now' = Call("runSchedulerNotFromSm")
         \/ bDataPortEnable' /\ Now' = RunScheduler(0)
  <2>1. Call("runSchedulerNotFromSm") \in Calls /\ RunScheduler(0) \in Calls
    BY CallsMade
  <2>2. CASE bMgmtPortEnable'
    <3>1. Start(<<Call("runSchedulerNotFromSm")>>)
      BY <1>1, <2>2 DEF EnableActivities, Woken
    <3> QED BY <2>1, <2>2, <3>1, Begun
  <2>3. CASE ~bMgmtPortEnable'
    <3>1. Start(<<RunScheduler(0)>>) /\ bDataPortEnable'
      BY <1>1, <1>2, <2>3 DEF EnableActivities, Woken
    <3> QED BY <2>1, <3>1, Begun
  <2> QED BY <2>2, <2>3
<1>4. /\ Now = NoCall /\ Later = NoCall /\ NoCall.call = "none"
      /\ Call("runSchedulerNotFromSm").call = "runSchedulerNotFromSm"
      /\ RunScheduler(0).call = "RunScheduler" /\ RunScheduler(0).idle = 0
  BY <1>1, IdleServed DEF Call, RunScheduler
<1>5. BusyTypes' /\ PortInv'
  BY <1>1, <1>2 DEF BusyTypes, PortInv, ServedInv, CallsServed
<1>6. ShapeInv' /\ RefusedInv'
  BY <1>1, <1>3, <1>4 DEF ShapeInv, RefusedInv, DataCall, MgmtCall, Sending, ServedInv, CallsServed
<1>7. BusyInv'
  BY <1>1, <1>3, <1>4 DEF BusyInv, Updating, Updates, ServedInv, CallsServed
<1>8. DataInv'
  <2>1. Passed(0)' = {}
    BY DEF Passed
  <2> QED BY <1>2, <1>3, <1>4, <2>1 DEF DataInv, DataServed, DataCall
<1>9. MgmtInv'
  BY <1>2, <1>3, <1>4 DEF MgmtInv, MgmtServed
<1>10. AccessInv'
  BY <1>1, <1>3, <1>4, IdleServed DEF AccessInv
<1> QED BY <1>5, <1>6, <1>7, <1>8, <1>9, <1>10 DEF CallsServed

------------------------------------------------------------------------------
(* The state machine.                                                      *)

\* What mgmtQueuesSM makes of an event: it gives the port to the data queues, takes it
\* back, serves the management queues, or does no more than change its state.
LEMMA SmTable ==
  ASSUME eSmState \in SmStates, NEW event \in Events,
         event = "EAPOL" => eSmState \in {"CLOSE", "MGMT"}, event = "OPEN" => eSmState = "EAPOL"
  PROVE  \/ /\ SmAction(event) = "ENABLE_DATA" /\ eSmState # "OPEN_DATA"
            /\ NextState(event) = "OPEN_DATA" /\ (MgmtEmpty \/ event = "QUEUES_EMPTY")
         \/ /\ SmAction(event) = "ENABLE_MGMT" /\ eSmState = "OPEN_DATA"
            /\ NextState(event) \in {"CLOSE", "MGMT", "OPEN_MGMT"}
            /\ NextState(event) = "OPEN_MGMT" => event = "QUEUES_NOT_EMPTY"
         \/ /\ SmAction(event) = "RUN_SCHEDULER" /\ eSmState # "OPEN_DATA"
            /\ NextState(event) \in {"MGMT", "EAPOL"}
         \/ /\ SmAction(event) = "NULL" /\ NextState(event) = "CLOSE" /\ eSmState # "OPEN_DATA"
         \/ /\ SmAction(event) = "NULL" /\ NextState(event) = "OPEN_MGMT"
            /\ event = "OPEN" /\ eSmState = "EAPOL" /\ ~MgmtEmpty
         \/ /\ SmAction(event) = "NULL" /\ NextState(event) = eSmState
            /\ event = "QUEUES_EMPTY" /\ eSmState # "OPEN_MGMT"
         \/ /\ SmAction(event) = "NULL" /\ NextState(event) = "OPEN_MGMT"
            /\ event = "QUEUES_NOT_EMPTY" /\ eSmState = "OPEN_MGMT"
<1>1. CASE event = "CLOSE"
  BY <1>1 DEF SmAction, NextState
<1>2. CASE event = "MGMT"
  <2>1. NextState(event) = "MGMT"
    BY <1>2 DEF NextState
  <2>2. CASE eSmState = "OPEN_DATA"
    <3>1. SmAction(event) = "ENABLE_MGMT"
      BY <1>2, <2>1, <2>2 DEF SmAction
    <3> QED BY <1>2, <2>1, <2>2, <3>1
  <2>3. CASE eSmState # "OPEN_DATA"
    <3>1. SmAction(event) = "RUN_SCHEDULER"
      BY <1>2, <2>1, <2>3 DEF SmAction
    <3> QED BY <2>1, <2>3, <3>1
  <2> QED BY <2>2, <2>3
<1>3. CASE event = "EAPOL"
  BY <1>3 DEF SmAction, NextState
<1>4. CASE event = "OPEN"
  BY <1>4 DEF SmAction, NextState
<1>5. CASE event = "QUEUES_EMPTY"
  BY <1>5 DEF SmAction, NextState
<1>6. CASE event = "QUEUES_NOT_EMPTY"
  BY <1>6 DEF SmAction, NextState, SmStates
<1> QED BY <1>1, <1>2, <1>3, <1>4, <1>5, <1>6 DEF Events

\* The port after an event: the same, or given to the other group, which is served unless
\* the driver is in a recovery.
LEMMA SmPort ==
  ASSUME ServedInv, MgmtQueuesSMHandled
  PROVE  /\ Now.call = "mgmtQueuesSM" /\ Now.event \in Events
         /\ Later = NoCall /\ Later' = NoCall /\ Len(todo') <= 2
         /\ \/ /\ SmAction(Now.event) = "ENABLE_DATA"
               /\ UpdateQueuesStates("data", txSuspended)
               /\ Now' = IF txSuspended THEN NoCall ELSE RunScheduler(0)
            \/ /\ SmAction(Now.event) = "ENABLE_MGMT"
               /\ UpdateQueuesStates("mgmt", txSuspended)
               /\ Now' = IF txSuspended THEN NoCall ELSE Call("runSchedulerNotFromSm")
            \/ /\ SmAction(Now.event) = "RUN_SCHEDULER" /\ UNCHANGED portVars
               /\ Now' = RunMgmtScheduler("MGMT")
            \/ /\ SmAction(Now.event) = "NULL" /\ UNCHANGED portVars /\ Now' = NoCall
<1> USE DEF ServedInv, CallsServed
<1>1. /\ Now.call = "mgmtQueuesSM" /\ Now \in Calls /\ todo # <<>> /\ Len(todo) <= 2
      /\ Current = Now /\ Now.event \in Events
  <2>1. /\ Now.call = "mgmtQueuesSM" /\ Now \in Calls /\ todo # <<>> /\ Len(todo) <= 2
        /\ Current = Now
    BY CallsNow, CurrentOK DEF MgmtQueuesSMHandled, ShapeInv
  <2> QED BY <2>1 DEF Calls
<1>2. Later = NoCall /\ NoCall.call = "none"
  BY <1>1, CallsNow DEF ShapeInv, DataCall, MgmtCall, Sending
<1>3. PICK event \in Events : event = Now.event
  BY <1>1
<1>4. /\ RunScheduler(0) \in Calls /\ Call("runSchedulerNotFromSm") \in Calls
      /\ RunMgmtScheduler("MGMT") \in Calls
  BY CallsMade, MgmtQueues
<1>5. CASE /\ SmAction(event) = "ENABLE_DATA" /\ eSmState # "OPEN_DATA"
           /\ UpdateQueuesStates("data", txSuspended) /\ Return(Woken)
  <2>1. CASE txSuspended
    <3>1. Return(<<>>)
      BY <1>5, <2>1 DEF UpdateQueuesStates, Woken
    <3> QED BY <1>1, <1>2, <1>3, <1>5, <2>1, <3>1, Ended
  <2>2. CASE ~txSuspended
    <3>1. Return(<<RunScheduler(0)>>)
      BY <1>5, <2>2 DEF UpdateQueuesStates, Woken, PortInv
    <3> QED BY <1>1, <1>2, <1>3, <1>4, <1>5, <2>2, <3>1, Replaced
  <2> QED BY <2>1, <2>2
<1>6. CASE /\ SmAction(event) = "ENABLE_MGMT" /\ eSmState = "OPEN_DATA"
           /\ UpdateQueuesStates("mgmt", txSuspended) /\ Return(Woken)
  <2>1. CASE txSuspended
    <3>1. Return(<<>>)
      BY <1>6, <2>1 DEF UpdateQueuesStates, Woken
    <3> QED BY <1>1, <1>2, <1>3, <1>6, <2>1, <3>1, Ended
  <2>2. CASE ~txSuspended
    <3>1. Return(<<Call("runSchedulerNotFromSm")>>)
      BY <1>6, <2>2 DEF UpdateQueuesStates, Woken, PortInv
    <3> QED BY <1>1, <1>2, <1>3, <1>4, <1>6, <2>2, <3>1, Replaced
  <2> QED BY <2>1, <2>2
<1>7. CASE /\ SmAction(event) = "RUN_SCHEDULER" /\ UNCHANGED portVars
           /\ Return(<<RunMgmtScheduler("MGMT")>>)
  BY <1>1, <1>2, <1>3, <1>4, <1>7, Replaced
<1>8. CASE SmAction(event) = "NULL" /\ UNCHANGED portVars /\ Return(<<>>)
  BY <1>1, <1>2, <1>3, <1>8, Ended
<1>9. /\ SmAction(event) = "ENABLE_DATA" => eSmState # "OPEN_DATA"
      /\ SmAction(event) = "ENABLE_MGMT" => eSmState = "OPEN_DATA"
      /\ SmAction(event) \in {"ENABLE_DATA", "ENABLE_MGMT", "RUN_SCHEDULER", "NULL"}
  BY DEF SmAction
<1>10. CASE SmAction(event) = "ENABLE_DATA"
  <2>1. UpdateQueuesStates("data", txSuspended) /\ Return(Woken)
    BY <1>1, <1>3, <1>10 DEF MgmtQueuesSMHandled
  <2> QED BY <1>5, <1>9, <1>10, <2>1
<1>11. CASE SmAction(event) = "ENABLE_MGMT"
  <2>1. UpdateQueuesStates("mgmt", txSuspended) /\ Return(Woken)
    BY <1>1, <1>3, <1>11 DEF MgmtQueuesSMHandled
  <2> QED BY <1>6, <1>9, <1>11, <2>1
<1>12. CASE SmAction(event) = "RUN_SCHEDULER"
  <2>1. Return(<<RunMgmtScheduler("MGMT")>>) /\ UNCHANGED portVars
    BY <1>1, <1>3, <1>12 DEF MgmtQueuesSMHandled
  <2> QED BY <1>7, <1>12, <2>1
<1>13. CASE SmAction(event) = "NULL"
  <2>1. Return(<<>>) /\ UNCHANGED portVars
    BY <1>1, <1>3, <1>13 DEF MgmtQueuesSMHandled
  <2> QED BY <1>8, <1>13, <2>1
<1> QED BY <1>9, <1>10, <1>11, <1>12, <1>13

\* The group that the state machine lets through is served.
LEMMA SmServed ==
  ASSUME ServedInv, PathOK', MgmtQueuesSMHandled
  PROVE  CallsServed'
<1>1. PICK event \in Events :
        /\ event = Now.event /\ Now.call = "mgmtQueuesSM"
        /\ Later = NoCall /\ Later' = NoCall /\ Len(todo') <= 2
        /\ \/ /\ SmAction(event) = "ENABLE_DATA"
              /\ UpdateQueuesStates("data", txSuspended)
              /\ Now' = IF txSuspended THEN NoCall ELSE RunScheduler(0)
           \/ /\ SmAction(event) = "ENABLE_MGMT"
              /\ UpdateQueuesStates("mgmt", txSuspended)
              /\ Now' = IF txSuspended THEN NoCall ELSE Call("runSchedulerNotFromSm")
           \/ /\ SmAction(event) = "RUN_SCHEDULER" /\ UNCHANGED portVars
              /\ Now' = RunMgmtScheduler("MGMT")
           \/ /\ SmAction(event) = "NULL" /\ UNCHANGED portVars /\ Now' = NoCall
  BY SmPort
<1> USE DEF ServedInv, CallsServed
<1>2. /\ UNCHANGED <<aQueues, bQueueBusy, aQueueBusy, highestAdmittedAc, busyAcBitmap, phase,
                     dataRequest, paceTimer, mgmtRequest, ctrlVars>>
      /\ MgmtEmpty' = MgmtEmpty
      /\ eSmState' = NextState(event)
      /\ aQueueEnabledBySM' = [q \in MgmtQs |-> q \in Lets(eSmState')]
      /\ missed' <=> \/ missed /\ SmAction(event) # "RUN_SCHEDULER"
                     \/ event = "QUEUES_NOT_EMPTY" /\ (eSmState = "OPEN_MGMT" \/ MgmtEmpty)
  <2>1. Current = Now
    BY CallsNow DEF MgmtQueuesSMHandled
  <2> QED BY <1>1, <2>1 DEF MgmtQueuesSMHandled, hwVars, busyVars, ctrlVars, requestVars, MgmtEmpty
<1>3. /\ RunScheduler(0).call = "RunScheduler" /\ RunScheduler(0).idle = 0
      /\ Call("runSchedulerNotFromSm").call = "runSchedulerNotFromSm" /\ NoCall.call = "none"
      /\ RunMgmtScheduler("MGMT").call = "runScheduler" /\ RunMgmtScheduler("MGMT").q = "MGMT"
  BY CallsNow DEF RunScheduler, Call, RunMgmtScheduler
<1>4. Now'.call \in {"none", "RunScheduler", "runSchedulerNotFromSm", "runScheduler"}
  BY <1>1, <1>3
<1>5. \A q : WaitsForRoom(q)' <=> WaitsForRoom(q)
  BY <1>2, WaitsSame
<1>6. eSmState \in SmStates /\ (event = "EAPOL" => eSmState \in {"CLOSE", "MGMT"})
      /\ (event = "OPEN" => eSmState = "EAPOL")
  BY <1>1 DEF BusyTypes, ShapeInv
<1>7. RefusedInv'
  BY <1>2, <1>4 DEF RefusedInv
<1>8. BusyInv' /\ ~Updating /\ ~Updating'
  BY <1>1, <1>2, <1>3, <1>4 DEF BusyInv, Updating, Updates
<1>9. ASSUME eSmState' \in SmStates PROVE BusyTypes'
  BY <1>2, <1>9 DEF BusyTypes
<1>10. \A q \in MgmtQs : aQueueEnabledBySM'[q] <=> q \in Lets(eSmState')
  BY <1>2
<1>11. ASSUME UNCHANGED portVars, eSmState = "OPEN_DATA" <=> eSmState' = "OPEN_DATA"
       PROVE  PortInv'
  BY <1>2, <1>10, <1>11 DEF PortInv, portVars
<1>12. ASSUME bDataPortEnable' => bDataPortEnable PROVE DataInv'
  BY <1>1, <1>2, <1>5, <1>12 DEF DataInv, DataServed, DataCall, Sending
<1>13. CASE /\ SmAction(event) = "ENABLE_DATA" /\ eSmState # "OPEN_DATA"
            /\ eSmState' = "OPEN_DATA" /\ (MgmtEmpty \/ event = "QUEUES_EMPTY")
  <2>1. /\ UpdateQueuesStates("data", txSuspended)
        /\ Now' = IF txSuspended THEN NoCall ELSE RunScheduler(0)
    BY <1>1, <1>13
  <2>2. BusyTypes' /\ PortInv'
    BY <1>2, <1>9, <1>10, <1>13, <2>1 DEF SmStates, PortInv, UpdateQueuesStates
  <2>3. ShapeInv'
    BY <1>1, <1>3, <2>1 DEF ShapeInv, DataCall, MgmtCall, Sending
  <2>4. DataInv'
    <3>1. Passed(0)' = {}
      BY DEF Passed
    <3>2. bDataPortEnable' => ~txSuspended
      BY <2>1 DEF UpdateQueuesStates
    <3> QED BY <1>3, <2>1, <3>1, <3>2 DEF DataInv, DataServed, DataCall
  <2>5. MgmtInv'
    BY <2>1 DEF MgmtInv, UpdateQueuesStates
  <2>6. AccessInv'
    BY <1>1, <1>2, <1>4, <1>13 DEF AccessInv
  <2> QED BY <1>7, <1>8, <2>2, <2>3, <2>4, <2>5, <2>6
<1>14. CASE /\ SmAction(event) = "ENABLE_MGMT" /\ eSmState = "OPEN_DATA"
            /\ eSmState' \in {"CLOSE", "MGMT", "OPEN_MGMT"}
            /\ eSmState' = "OPEN_MGMT" => event = "QUEUES_NOT_EMPTY"
  <2>1. /\ UpdateQueuesStates("mgmt", txSuspended)
        /\ Now' = IF txSuspended THEN NoCall ELSE Call("runSchedulerNotFromSm")
    BY <1>1, <1>14
  <2>2. BusyTypes' /\ PortInv'
    BY <1>2, <1>9, <1>10, <1>14, <2>1 DEF SmStates, PortInv, UpdateQueuesStates
  <2>3. ShapeInv'
    BY <1>1, <1>3, <2>1 DEF ShapeInv, DataCall, MgmtCall, Sending
  <2>4. DataInv'
    BY <2>1 DEF DataInv, UpdateQueuesStates
  <2>5. MgmtInv'
    <3>1. bMgmtPortEnable' => ~txSuspended
      BY <2>1 DEF UpdateQueuesStates
    <3> QED BY <1>3, <2>1, <3>1 DEF MgmtInv, MgmtServed
  <2>6. AccessInv'
    BY <1>1, <1>2, <1>4, <1>14 DEF AccessInv
  <2> QED BY <1>7, <1>8, <2>2, <2>3, <2>4, <2>5, <2>6
<1>15. CASE /\ SmAction(event) = "RUN_SCHEDULER" /\ eSmState # "OPEN_DATA"
            /\ eSmState' \in {"MGMT", "EAPOL"}
  <2>1. UNCHANGED portVars /\ Now' = RunMgmtScheduler("MGMT")
    BY <1>1, <1>15
  <2>2. BusyTypes' /\ PortInv'
    BY <1>9, <1>11, <1>15, <2>1 DEF SmStates
  <2>3. ShapeInv'
    BY <1>1, <1>3, <1>15, <2>1 DEF ShapeInv, DataCall, MgmtCall, Sending
  <2>4. DataInv'
    BY <1>12, <2>1 DEF portVars
  <2>5. MgmtInv'
    BY <1>3, <2>1 DEF MgmtInv, MgmtServed, MgmtCall
  <2>6. AccessInv'
    BY <1>3, <1>15, <2>1 DEF AccessInv
  <2> QED BY <1>7, <1>8, <2>2, <2>3, <2>4, <2>5, <2>6
<1>16. CASE /\ SmAction(event) = "NULL"
            /\ eSmState' = "OPEN_DATA" <=> eSmState = "OPEN_DATA"
            /\ eSmState' \in SmStates
            /\ \/ eSmState' = "CLOSE"
               \/ event = "OPEN" /\ eSmState = "EAPOL" /\ eSmState' = "OPEN_MGMT" /\ ~MgmtEmpty
               \/ event = "QUEUES_EMPTY" /\ eSmState' = eSmState /\ eSmState # "OPEN_MGMT"
               \/ event = "QUEUES_NOT_EMPTY" /\ eSmState' = "OPEN_MGMT" /\ eSmState = "OPEN_MGMT"
  <2>1. UNCHANGED portVars /\ Now' = NoCall
    BY <1>1, <1>16
  <2>2. BusyTypes' /\ PortInv'
    BY <1>9, <1>11, <1>16, <2>1
  <2>3. ShapeInv'
    BY <1>1, <1>3, <2>1 DEF ShapeInv, DataCall, MgmtCall, Sending
  <2>4. DataInv'
    BY <1>12, <2>1 DEF portVars
  <2>5. MgmtInv'
    <3>1. CASE eSmState' = "CLOSE"
      BY <3>1, MgmtQueues DEF MgmtInv
    <3>2. CASE event = "QUEUES_NOT_EMPTY" /\ eSmState = "OPEN_MGMT"
      BY <1>2, <3>2 DEF MgmtInv, MgmtServed
    <3>3. CASE event \in {"OPEN", "QUEUES_EMPTY"} /\ Lets(eSmState') = Lets(eSmState)
      BY <1>1, <1>2, <1>5, <1>8, <1>16, <2>1, <3>3
         DEF MgmtInv, MgmtServed, MgmtCall, Sending, portVars
    <3> QED BY <1>16, <3>1, <3>2, <3>3, MgmtQueues
  <2>6. AccessInv'
    BY <1>1, <1>2, <1>4, <1>16 DEF AccessInv
  <2> QED BY <1>7, <1>8, <2>2, <2>3, <2>4, <2>5, <2>6
<1> QED BY <1>2, <1>6, <1>13, <1>14, <1>15, <1>16, SmTable DEF SmStates

------------------------------------------------------------------------------
(* All steps.                                                              *)

\* Every step keeps the invariant.
LEMMA ServedStep == ServedInv /\ [PathNext]_vars => ServedInv'
<1> SUFFICES ASSUME ServedInv, [PathNext]_vars PROVE PathOK' /\ CallsServed'
  BY DEF ServedInv
<1>1. PathOK'
  BY PathStep DEF ServedInv
<1>2. CASE Packet
  BY <1>1, <1>2, InsertServed, EapolServed, XmitMgmtServed DEF Packet
<1>3. CASE Event
  BY <1>1, <1>3, RequestServed, MappingServed, RecoveryServed DEF Event
<1>4. CASE Firmware \/ UNCHANGED vars
  <2>1. UNCHANGED bQueueBusy /\ UNCHANGED pathVars
    BY <1>4 DEF Firmware, FwFreesBlks, FwReportsResult, ReadStatus, busyVars, hwVars, vars
  <2> QED BY <1>1, <2>1, NothingChanged
<1>5. CASE Driver
  BY <1>1, <1>5, SchedulerEndsServed, SchedulerTurnsServed, MgmtTurnsServed, NotFromSmServed,
     IfEmptyServed, XmitServed, RequeueServed, BusyMapServed, SmServed, StatusServed,
     RequestServed, RecoveryServed, ResetServed, EnableServed DEF Driver
<1> QED BY <1>1, <1>2, <1>3, <1>4, <1>5 DEF PathNext

\* It holds at the start: no packet, no mark.
LEMMA ServedInit == PathInit => ServedInv
<1> SUFFICES ASSUME PathInit PROVE CallsServed
  BY PathInitOK DEF ServedInv
<1>1. Now = NoCall /\ Later = NoCall /\ NoCall.call = "none" /\ Len(todo) <= 2
  BY DEF PathInit, Now, Later, NoCall, Call
<1>2. /\ bQueueBusy = [q \in AC |-> FALSE] /\ aQueueBusy = [q \in Queues |-> FALSE]
      /\ busyAcBitmap = {} /\ eSmState = "CLOSE" /\ phase = "up"
      /\ bDataPortEnable = FALSE /\ bMgmtPortEnable = TRUE /\ queuesMuxState = "mgmt"
      /\ txSuspended = FALSE /\ aQueueEnabledBySM = [q \in MgmtQs |-> FALSE]
      /\ highestAdmittedAc = [ac \in AC |-> ac]
  BY DEF PathInit, Init
<1>3. Lets(eSmState) = {}
  BY <1>2, MgmtQueues
<1>4. BusyTypes
  BY <1>2 DEF BusyTypes, SmStates
<1>5. ShapeInv /\ RefusedInv
  BY <1>1, <1>2 DEF ShapeInv, RefusedInv, DataCall, MgmtCall, Sending
<1>6. PortInv
  BY <1>2, <1>3 DEF PortInv
<1>7. BusyInv
  BY <1>1, <1>2, MgmtQueues DEF BusyInv, Updating, Updates
<1>8. DataInv /\ MgmtInv /\ AccessInv
  BY <1>1, <1>2, <1>3 DEF DataInv, MgmtInv, AccessInv
<1> QED BY <1>4, <1>5, <1>6, <1>7, <1>8 DEF CallsServed

------------------------------------------------------------------------------
(* The theorems.                                                           *)

\* The two threads, the two groups of queues, the port and the recovery of the transmit
\* path use txHwQueue.c as its specification says, whatever the lengths of packets and
\* the depths of queues: every step is a step of TxHwQueue or does not touch it.
THEOREM PathImplements == PathSpec => Spec
  BY PathInitOK, PathStep, PTL DEF PathSpec, Spec

\* The accounts of the firmware's memory are right in the whole transmit path.
THEOREM PathAccounted == PathSpec => []ResourcesAccounted
  BY PathImplements, SpecAccounted, PTL

\* No category is held back by txCtrl's backpressure while there is room for the packet
\* that stopped it.
THEOREM PathStopped == PathSpec => []StoppedForAReason
  BY PathImplements, SpecStopped, PTL

\* No packet that may be sent is forgotten, whatever the network's thread, the driver's
\* thread, the firmware, the connection, the admission of the categories and the
\* recoveries do: txDataQueue.c and txMgmtQueue.c look at every queue that has a packet
\* again, or wait for room that the firmware owes.
THEOREM PathNotStranded == PathSpec => []NoPacketStranded
  BY ServedInit, ServedStep, ServedNotStranded, PTL DEF PathSpec
==============================================================================

---------------------------- MODULE CmdQueueProofs ----------------------------
(***************************************************************************)
(* Proofs about CmdQueue: the ring, the mailbox and the awake request      *)
(* agree, and nobody is called back twice, whatever callbacks, timeouts,   *)
(* late reads and restarts come in between.                                *)
(***************************************************************************)
EXTENDS CmdQueue, FiniteSetTheorems, TLAPS

------------------------------------------------------------------------------
(* The inductive invariant.                                                *)

\* The mailbox is enabled from the configuration to the next stop; without it the
\* queue stays empty.  The configuration's last command is sent and answered
\* in its own phase only, and its callback is saved only by a stop that another stop
\* follows or that is the last.
PhaseInv ==
  /\ bMboxEnabled <=> phase \in {"config", "run", "disconnecting"}
  /\ ~bMboxEnabled => uNumberOfCommandInQueue = 0 /\ cb = NoCmd
  /\ InRing(Config) \/ cb = Config => phase = "config"
  /\ cb = Config => ~InRing(Config)
  /\ IsSaved(Config) => phase \in {"failing", "failed"}

\* The result is read when the firmware and the timer are done with the command; a
\* read that a restart interrupted ends before the next command is sent.
ReadInv ==
  /\ read = "pending" => fw = "idle" /\ ~osTimer
  /\ read = "late" => ~bMboxEnabled

\* The queue waits as long as it keeps the device awake.
StateInv == state = "WAIT_FOR_COMPLETION" <=> bAwake

\* Saved callbacks are called only by the configuration's callback.
IndexInv == cbIndex # 0 => cb = Config

\* The type invariant in three parts.
QueueTypes ==
  /\ aCmdQueue \in [Slot -> Cmd \cup {NoCmd}]
  /\ head \in Slot /\ tail \in Slot /\ uNumberOfCommandInQueue \in Nat
  /\ aRecoveryQueue \in Seq(Callback)
  /\ mbox \in Cmd \cup {NoCmd} /\ cb \in Cmd \cup {NoCmd} /\ cbIndex \in Nat
  /\ owed \subseteq Callback \ {Config}
FlagTypes ==
  /\ bAwake \in BOOLEAN /\ bErrorFlag \in BOOLEAN /\ bMboxEnabled \in BOOLEAN
  /\ bCmdInProgress \in BOOLEAN /\ osTimer \in BOOLEAN /\ recover \in BOOLEAN
StateTypes ==
  /\ state \in {"IDLE", "WAIT_FOR_COMPLETION"}
  /\ read \in {"none", "pending", "late"} /\ expiry \in {"none", "init", "oper"}
  /\ awakeReq \in Nat
  /\ fw \in {"idle", "busy", "done", "hung"} /\ phase \in Phase
  /\ faults \in 0 .. MaxFaults /\ stops \in 0 .. MaxStops

IInv == /\ QueueTypes /\ FlagTypes /\ StateTypes
        /\ RingConsistent /\ MailboxServesHead /\ AwakeBalanced /\ CalledBackOnce
        /\ PhaseInv /\ ReadInv /\ StateInv /\ IndexInv

\* The parts make up the type invariant.
LEMMA Types == TypeOK <=> QueueTypes /\ FlagTypes /\ StateTypes
BY DEF TypeOK, QueueTypes, FlagTypes, StateTypes

------------------------------------------------------------------------------
(* The ring and the saved callbacks.                                       *)

USE CmdQueueAssumption

\* Positions of the ring are distinct slots.
LEMMA Slots ==
  ASSUME head \in Slot
  PROVE  /\ SlotAt(0) = head
         /\ \A i \in Slot : SlotAt(i) \in Slot
         /\ \A i, j \in Slot : SlotAt(i) = SlotAt(j) => i = j
BY DEF Slot, SlotAt

\* A command that is not in the ring yet goes behind the queued ones.
LEMMA Pushed ==
  ASSUME TypeOK, RingConsistent, ~IsFull, NEW c \in Cmd, Push(c), ~InRing(c)
  PROVE  /\ RingConsistent'
         /\ \A d : InRing(d)' <=> InRing(d) \/ d = c
         /\ uNumberOfCommandInQueue > 0 => aCmdQueue[head]' = aCmdQueue[head]
         /\ uNumberOfCommandInQueue = 0 => aCmdQueue[head]' = c
<1> DEFINE n == uNumberOfCommandInQueue
<1>1. /\ n \in Nat /\ head \in Slot /\ tail \in Slot /\ tail = SlotAt(n)
      /\ aCmdQueue \in [Slot -> Cmd \cup {NoCmd}] /\ n <= Depth /\ n # Depth
  BY DEF TypeOK, RingConsistent, IsFull
<1>2. n \in Slot /\ n' = n + 1 /\ head' = head /\ n' <= Depth
  BY <1>1 DEF Push, Slot
<1>3. tail' = SlotAt(n + 1)
  BY <1>1, <1>2 DEF Push, NextSlot, SlotAt, Slot
<1>4. \A i \in Slot : SlotAt(i)' = SlotAt(i) /\ (Queued(i)' <=> Queued(i) \/ i = n)
  BY <1>1, <1>2 DEF SlotAt, Queued, Slot
<1>5. \A i \in Slot : Queued(i) => i # n
  BY <1>1 DEF Queued, Slot
<1>6. aCmdQueue' = [aCmdQueue EXCEPT ![SlotAt(n)] = c]
  BY <1>1 DEF Push
<1>7. aCmdQueue'[SlotAt(n)] = c /\ \A i \in Slot : i # n => aCmdQueue'[SlotAt(i)] = aCmdQueue[SlotAt(i)]
  BY <1>1, <1>2, <1>6, Slots
<1>8. \A i \in Slot : Queued(i) => aCmdQueue[SlotAt(i)] # c /\ aCmdQueue[SlotAt(i)] # NoCmd
  BY DEF InRing, RingConsistent
<1>9. \A d : InRing(d)' <=> InRing(d) \/ d = c
  <2> SUFFICES ASSUME NEW d PROVE InRing(d)' <=> InRing(d) \/ d = c
    OBVIOUS
  <2>1. InRing(d)' <=> \E i \in Slot : Queued(i)' /\ aCmdQueue'[SlotAt(i)'] = d
    BY DEF InRing, Slot
  <2>2. InRing(d)' <=> \E i \in Slot : (Queued(i) \/ i = n) /\ aCmdQueue'[SlotAt(i)] = d
    BY <2>1, <1>4
  <2> QED
    BY <2>2, <1>2, <1>5, <1>7 DEF InRing
<1>10. (\A i, j \in Slot : Queued(i) /\ Queued(j) /\ i # j => aCmdQueue[SlotAt(i)] # aCmdQueue[SlotAt(j)])'
  <2>1. \A i, j \in Slot : (Queued(i) \/ i = n) /\ (Queued(j) \/ j = n) /\ i # j
           => aCmdQueue'[SlotAt(i)] # aCmdQueue'[SlotAt(j)]
    BY <1>7, <1>8 DEF RingConsistent
  <2> QED
    BY <2>1, <1>4 DEF Slot
<1>11. (\A i \in Slot : Queued(i) => aCmdQueue[SlotAt(i)] # NoCmd)'
  <2>1. \A i \in Slot : (Queued(i) \/ i = n) => aCmdQueue'[SlotAt(i)] # NoCmd
    BY <1>7, <1>8
  <2> QED
    BY <2>1, <1>4 DEF Slot
<1>12. RingConsistent'
  BY <1>2, <1>3, <1>10, <1>11 DEF RingConsistent, SlotAt
<1>13. n > 0 => aCmdQueue[head]' = aCmdQueue[head]
  BY <1>1, <1>2, <1>7, Slots DEF Slot
<1>14. n = 0 => aCmdQueue[head]' = c
  BY <1>1, <1>2, <1>7, Slots
<1> QED
  BY <1>9, <1>12, <1>13, <1>14

\* The command at the head leaves the ring, the others move up.
LEMMA Popped ==
  ASSUME TypeOK, RingConsistent, uNumberOfCommandInQueue > 0,
         head' = NextSlot(head), uNumberOfCommandInQueue' = uNumberOfCommandInQueue - 1,
         aCmdQueue' = aCmdQueue, tail' = tail
  PROVE  /\ RingConsistent' /\ head' \in Slot /\ uNumberOfCommandInQueue' \in Nat
         /\ InRing(aCmdQueue[head]) /\ aCmdQueue[head] \in Cmd
         /\ \A d : InRing(d)' <=> InRing(d) /\ d # aCmdQueue[head]
<1> DEFINE n == uNumberOfCommandInQueue
<1>1. /\ n \in Nat \ {0} /\ head \in Slot /\ tail = SlotAt(n)
      /\ aCmdQueue \in [Slot -> Cmd \cup {NoCmd}] /\ n <= Depth
  BY DEF TypeOK, RingConsistent
<1>2. head' \in Slot /\ n' = n - 1 /\ n' \in Nat /\ n' <= Depth
  BY <1>1 DEF NextSlot, Slot
<1>3. \A i \in Slot : i + 1 <= Depth => SlotAt(i)' = SlotAt(i + 1)
  BY <1>1 DEF NextSlot, SlotAt, Slot
<1>4. \A i \in Slot : Queued(i)' <=> i + 1 \in Slot /\ Queued(i + 1)
  BY <1>1, <1>2 DEF Queued, Slot
<1>5. (tail = SlotAt(uNumberOfCommandInQueue))'
  BY <1>1, <1>2 DEF SlotAt, NextSlot, Slot
<1>6. Queued(0) /\ 0 \in Slot /\ SlotAt(0) = head
  BY <1>1, Slots DEF Queued, Slot
<1>7. InRing(aCmdQueue[head]) /\ aCmdQueue[head] \in Cmd
  BY <1>1, <1>6 DEF InRing, RingConsistent
<1>8. (\A i, j \in Slot : Queued(i) /\ Queued(j) /\ i # j => aCmdQueue[SlotAt(i)] # aCmdQueue[SlotAt(j)])'
  <2> SUFFICES ASSUME NEW i \in Slot, NEW j \in Slot, Queued(i)', Queued(j)', i # j
               PROVE  aCmdQueue'[SlotAt(i)'] # aCmdQueue'[SlotAt(j)']
    BY DEF Slot
  <2>1. /\ i + 1 \in Slot /\ Queued(i + 1) /\ j + 1 \in Slot /\ Queued(j + 1)
        /\ i + 1 # j + 1 /\ SlotAt(i)' = SlotAt(i + 1) /\ SlotAt(j)' = SlotAt(j + 1)
    BY <1>3, <1>4 DEF Slot
  <2> QED
    BY <2>1 DEF RingConsistent
<1>9. (\A i \in Slot : Queued(i) => aCmdQueue[SlotAt(i)] # NoCmd)'
  <2> SUFFICES ASSUME NEW i \in Slot, Queued(i)'
               PROVE  aCmdQueue'[SlotAt(i)'] # NoCmd
    BY DEF Slot
  <2>1. i + 1 \in Slot /\ Queued(i + 1) /\ SlotAt(i)' = SlotAt(i + 1)
    BY <1>3, <1>4 DEF Slot
  <2> QED
    BY <2>1 DEF RingConsistent
<1>10. \A d : InRing(d)' <=> InRing(d) /\ d # aCmdQueue[head]
  <2> SUFFICES ASSUME NEW d PROVE InRing(d)' <=> InRing(d) /\ d # aCmdQueue[head]
    OBVIOUS
  <2>1. ASSUME InRing(d)' PROVE InRing(d) /\ d # aCmdQueue[head]
    <3>1. PICK i \in Slot : Queued(i)' /\ aCmdQueue'[SlotAt(i)'] = d
      BY <2>1 DEF InRing, Slot
    <3>2. i + 1 \in Slot /\ Queued(i + 1) /\ SlotAt(i)' = SlotAt(i + 1) /\ i + 1 # 0
      BY <1>3, <1>4, <3>1 DEF Slot
    <3> QED
      BY <3>1, <3>2, <1>6 DEF InRing, RingConsistent
  <2>2. ASSUME InRing(d), d # aCmdQueue[head] PROVE InRing(d)'
    <3>1. PICK k \in Slot : Queued(k) /\ aCmdQueue[SlotAt(k)] = d
      BY <2>2 DEF InRing
    <3>2. k # 0
      BY <3>1, <2>2, <1>6
    <3>3. k - 1 \in Slot /\ (k - 1) + 1 = k
      BY <3>2 DEF Slot
    <3>4. Queued(k - 1)' /\ SlotAt(k - 1)' = SlotAt(k)
      BY <3>1, <3>3, <1>3, <1>4 DEF Slot
    <3> QED
      BY <3>1, <3>3, <3>4 DEF InRing, Slot
  <2> QED
    BY <2>1, <2>2
<1>11. RingConsistent'
  BY <1>2, <1>5, <1>8, <1>9 DEF RingConsistent
<1> QED
  BY <1>2, <1>7, <1>10, <1>11

\* A step that leaves the ring alone.
LEMMA SameRing ==
  ASSUME RingConsistent, UNCHANGED ringVars
  PROVE  RingConsistent' /\ \A d : InRing(d)' <=> InRing(d)
BY DEF ringVars, RingConsistent, InRing, Queued, SlotAt, Slot

\* A step that leaves the saved callbacks alone.
LEMMA SameSaved ==
  ASSUME UNCHANGED aRecoveryQueue
  PROVE  \A d : IsSaved(d)' <=> IsSaved(d)
BY DEF IsSaved

\* A restart empties the ring, and saves callbacks of commands that were there.
LEMMA Restarted ==
  ASSUME TypeOK, RingConsistent, Restart
  PROVE  /\ RingConsistent' /\ \A d : ~InRing(d)'
         /\ aRecoveryQueue' \in Seq(Callback)
         /\ \A d : IsSaved(d)' => InRing(d)
         /\ \A i \in 1 .. Len(aRecoveryQueue') : aRecoveryQueue'[i] \in Callback /\ InRing(aRecoveryQueue'[i])
         /\ (\A i, j \in 1 .. Len(aRecoveryQueue) : i # j => aRecoveryQueue[i] # aRecoveryQueue[j])'
<1>1. RingConsistent' /\ \A d : ~InRing(d)'
  BY DEF Restart, RingConsistent, InRing, Queued, SlotAt
<1>2. Cardinality(Kept) \in Nat
  <2>1. IsFiniteSet(Slot)
    BY FS_Interval DEF Slot
  <2> QED
    BY <2>1, FS_Subset, FS_CardinalityType DEF Kept
<1>3. PICK pos \in [1 .. Cardinality(Kept) -> Kept] :
        /\ \A i, j \in DOMAIN pos : i < j => pos[i] < pos[j]
        /\ aRecoveryQueue' = [i \in DOMAIN pos |-> aCmdQueue[SlotAt(pos[i])]]
  BY DEF Restart, SaveCallbacks
<1> DEFINE m == Cardinality(Kept)
<1> HIDE DEF m
<1>4. m \in Nat /\ pos \in [1 .. m -> Kept] /\ DOMAIN pos = 1 .. m
  BY <1>2, <1>3 DEF m
<1>5. \A i \in 1 .. m : pos[i] \in Slot /\ Queued(pos[i]) /\ aCmdQueue[SlotAt(pos[i])] \in Callback
  BY <1>4 DEF Kept
<1>6. aRecoveryQueue' = [i \in 1 .. m |-> aCmdQueue[SlotAt(pos[i])]]
  BY <1>3, <1>4
<1>7. aRecoveryQueue' \in Seq(Callback) /\ Len(aRecoveryQueue') = m
  BY <1>4, <1>5, <1>6
<1>8. \A i \in 1 .. m : aRecoveryQueue'[i] = aCmdQueue[SlotAt(pos[i])]
  BY <1>6
<1>9. \A d : IsSaved(d)' => InRing(d)
  BY <1>5, <1>7, <1>8 DEF IsSaved, InRing
<1>10. \A i, j \in 1 .. m : i # j => pos[i] # pos[j]
  <2> SUFFICES ASSUME NEW i \in 1 .. m, NEW j \in 1 .. m, i # j PROVE pos[i] # pos[j]
    OBVIOUS
  <2>1. i < j \/ j < i
    BY <1>4
  <2>2. pos[i] \in Slot /\ pos[j] \in Slot
    BY <1>5
  <2>3. i < j => pos[i] < pos[j]
    BY <1>3, <1>4
  <2>4. j < i => pos[j] < pos[i]
    BY <1>3, <1>4
  <2> QED
    BY <2>1, <2>2, <2>3, <2>4 DEF Slot
<1>11. \A i, j \in 1 .. m : i # j => aRecoveryQueue'[i] # aRecoveryQueue'[j]
  BY <1>5, <1>8, <1>10 DEF RingConsistent
<1>12. \A i \in 1 .. m : aRecoveryQueue'[i] \in Callback /\ InRing(aRecoveryQueue'[i])
  BY <1>5, <1>8 DEF InRing
<1> QED
  BY <1>1, <1>7, <1>9, <1>11, <1>12

\* So the originators of the saved callbacks are still owed an answer.
LEMMA RestartCalledBack ==
  ASSUME TypeOK, RingConsistent, CalledBackOnce, Restart
  PROVE  CalledBackOnce'
<1>1. cb' # Config /\ owed' = owed
  BY DEF Restart, ContextFree, cbVars
<1>2. \A i \in 1 .. Len(aRecoveryQueue') : aRecoveryQueue'[i] # Config => aRecoveryQueue'[i] \in owed
  BY Restarted DEF CalledBackOnce
<1>3. /\ (\A d : ~InRing(d)')
      /\ (\A i, j \in 1 .. Len(aRecoveryQueue) : i # j => aRecoveryQueue[i] # aRecoveryQueue[j])'
  BY Restarted
<1> QED
  BY <1>1, <1>2, <1>3 DEF CalledBackOnce
------------------------------------------------------------------------------
(* Every operation keeps the invariant.                                    *)

\* A client's command is queued, and sent when the queue is idle.
LEMMA SendCommandKeeps ==
  ASSUME NEW c \in Cmd, IInv, SendCommand(c)
  PROVE  IInv'
<1> /\ QueueTypes /\ FlagTypes /\ StateTypes
    /\ RingConsistent /\ MailboxServesHead /\ AwakeBalanced /\ CalledBackOnce
    /\ PhaseInv /\ ReadInv /\ StateInv /\ IndexInv
  BY DEF IInv
<1> USE DEF SendCommand, ringVars, smVars, mboxVars, cbVars, boundVars, Accepts, IsFull, Push,
    RunNow, Run, KeepAwake, NextSlot
<1>ring. RingConsistent' /\ (\A d : InRing(d)' <=> InRing(d) \/ d = c) /\ (\A d : IsSaved(d)' <=> IsSaved(d))
  BY Pushed, SameSaved, Types
<1>1. QueueTypes'
  BY <1>ring DEF QueueTypes, Slot, IndexInv
<1>2. FlagTypes'
  BY DEF FlagTypes
<1>3. StateTypes'
  BY DEF StateTypes, Phase, AwakeBalanced
<1>4. MailboxServesHead'
  <2>1. /\ uNumberOfCommandInQueue > 0 => aCmdQueue[head]' = aCmdQueue[head]
        /\ uNumberOfCommandInQueue = 0 => aCmdQueue[head]' = c
    BY Pushed, Types
  <2>2. CASE RunNow
    <3>1. ~bCmdInProgress /\ cb = NoCmd
      BY <2>2 DEF RunNow, MailboxServesHead, AwakeBalanced, StateInv
    <3> QED
      BY <2>1, <2>2, <3>1 DEF MailboxServesHead, QueueTypes, RunNow
  <2>3. CASE ~RunNow
    <3>1. uNumberOfCommandInQueue = 0 => cb # NoCmd /\ ~bCmdInProgress
      BY <2>3 DEF MailboxServesHead, AwakeBalanced, StateInv, StateTypes
    <3> QED
      BY <2>1, <2>3, <3>1 DEF MailboxServesHead, QueueTypes
  <2> QED
    BY <2>2, <2>3
<1>5. AwakeBalanced'
  BY <1>ring DEF AwakeBalanced, StateInv, QueueTypes, StateTypes
<1>6. CalledBackOnce'
  BY <1>ring DEF CalledBackOnce, PhaseInv, IndexInv, QueueTypes
<1>7. PhaseInv'
  BY <1>ring DEF PhaseInv, QueueTypes, StateTypes, Phase
<1>8. (ReadInv /\ StateInv /\ IndexInv)'
  BY <1>ring DEF ReadInv, StateInv, IndexInv, MailboxServesHead
<1> QED
  BY <1>ring, <1>1, <1>2, <1>3, <1>4, <1>5, <1>6, <1>7, <1>8 DEF IInv

\* The firmware answers.
LEMMA FwCompletesKeeps ==
  ASSUME IInv, FwCompletes
  PROVE  IInv'
<1> /\ QueueTypes /\ FlagTypes /\ StateTypes
    /\ RingConsistent /\ MailboxServesHead /\ AwakeBalanced /\ CalledBackOnce
    /\ PhaseInv /\ ReadInv /\ StateInv /\ IndexInv
  BY DEF IInv
<1> USE DEF FwCompletes, ringVars, smVars, mboxVars, cbVars, boundVars
<1>ring. RingConsistent' /\ (\A d : InRing(d)' <=> InRing(d)) /\ (\A d : IsSaved(d)' <=> IsSaved(d))
  BY SameRing, SameSaved
<1>1. QueueTypes'
  BY <1>ring DEF QueueTypes, Slot, IndexInv
<1>2. FlagTypes'
  BY DEF FlagTypes
<1>3. StateTypes'
  BY DEF StateTypes, Phase, AwakeBalanced
<1>4. MailboxServesHead'
  BY <1>ring DEF MailboxServesHead
<1>5. AwakeBalanced'
  BY <1>ring DEF AwakeBalanced
<1>6. CalledBackOnce'
  BY <1>ring DEF CalledBackOnce, PhaseInv, IndexInv, QueueTypes
<1>7. PhaseInv'
  BY <1>ring DEF PhaseInv, QueueTypes, StateTypes, Phase
<1>8. (ReadInv /\ StateInv /\ IndexInv)'
  BY <1>ring DEF ReadInv, StateInv, IndexInv
<1> QED
  BY <1>ring, <1>1, <1>2, <1>3, <1>4, <1>5, <1>6, <1>7, <1>8 DEF IInv

\* The firmware does not answer.
LEMMA FwHangsKeeps ==
  ASSUME IInv, FwHangs
  PROVE  IInv'
<1> /\ QueueTypes /\ FlagTypes /\ StateTypes
    /\ RingConsistent /\ MailboxServesHead /\ AwakeBalanced /\ CalledBackOnce
    /\ PhaseInv /\ ReadInv /\ StateInv /\ IndexInv
  BY DEF IInv
<1> USE DEF FwHangs, ringVars, smVars, mboxVars, cbVars, boundVars, FaultAllowed
<1>ring. RingConsistent' /\ (\A d : InRing(d)' <=> InRing(d)) /\ (\A d : IsSaved(d)' <=> IsSaved(d))
  BY SameRing, SameSaved
<1>1. QueueTypes'
  BY <1>ring DEF QueueTypes, Slot, IndexInv
<1>2. FlagTypes'
  BY DEF FlagTypes
<1>3. StateTypes'
  BY DEF StateTypes, Phase, AwakeBalanced
<1>4. MailboxServesHead'
  BY <1>ring DEF MailboxServesHead
<1>5. AwakeBalanced'
  BY <1>ring DEF AwakeBalanced
<1>6. CalledBackOnce'
  BY <1>ring DEF CalledBackOnce, PhaseInv, IndexInv, QueueTypes
<1>7. PhaseInv'
  BY <1>ring DEF PhaseInv, QueueTypes, StateTypes, Phase
<1>8. (ReadInv /\ StateInv /\ IndexInv)'
  BY <1>ring DEF ReadInv, StateInv, IndexInv
<1> QED
  BY <1>ring, <1>1, <1>2, <1>3, <1>4, <1>5, <1>6, <1>7, <1>8 DEF IInv

\* The mailbox timer expires, perhaps too early.
LEMMA TimerExpiresKeeps ==
  ASSUME IInv, TimerExpires
  PROVE  IInv'
<1> /\ QueueTypes /\ FlagTypes /\ StateTypes
    /\ RingConsistent /\ MailboxServesHead /\ AwakeBalanced /\ CalledBackOnce
    /\ PhaseInv /\ ReadInv /\ StateInv /\ IndexInv
  BY DEF IInv
<1> USE DEF TimerExpires, ringVars, smVars, mboxVars, cbVars, boundVars, FaultAllowed
<1>ring. RingConsistent' /\ (\A d : InRing(d)' <=> InRing(d)) /\ (\A d : IsSaved(d)' <=> IsSaved(d))
  BY SameRing, SameSaved
<1>1. QueueTypes'
  BY <1>ring DEF QueueTypes, Slot, IndexInv
<1>2. FlagTypes'
  BY DEF FlagTypes
<1>3. StateTypes'
  BY DEF StateTypes, ExpiryQueue, Phase, AwakeBalanced
<1>4. MailboxServesHead'
  BY <1>ring DEF MailboxServesHead
<1>5. AwakeBalanced'
  BY <1>ring DEF AwakeBalanced
<1>6. CalledBackOnce'
  BY <1>ring DEF CalledBackOnce, PhaseInv, IndexInv, QueueTypes
<1>7. PhaseInv'
  BY <1>ring DEF PhaseInv, QueueTypes, StateTypes, Phase
<1>8. (ReadInv /\ StateInv /\ IndexInv)'
  BY <1>ring DEF ReadInv, StateInv, IndexInv
<1> QED
  BY <1>ring, <1>1, <1>2, <1>3, <1>4, <1>5, <1>6, <1>7, <1>8 DEF IInv

\* The health monitor is told.
LEMMA TimeOutKeeps ==
  ASSUME IInv, TimeOut
  PROVE  IInv'
<1> /\ QueueTypes /\ FlagTypes /\ StateTypes
    /\ RingConsistent /\ MailboxServesHead /\ AwakeBalanced /\ CalledBackOnce
    /\ PhaseInv /\ ReadInv /\ StateInv /\ IndexInv
  BY DEF IInv
<1> USE DEF TimeOut, ringVars, smVars, mboxVars, cbVars, boundVars, ContextFree
<1>ring. RingConsistent' /\ (\A d : InRing(d)' <=> InRing(d)) /\ (\A d : IsSaved(d)' <=> IsSaved(d))
  BY SameRing, SameSaved
<1>1. QueueTypes'
  BY <1>ring DEF QueueTypes, Slot, IndexInv
<1>2. FlagTypes'
  BY DEF FlagTypes
<1>3. StateTypes'
  BY DEF StateTypes, Phase, AwakeBalanced
<1>4. MailboxServesHead'
  BY <1>ring DEF MailboxServesHead
<1>5. AwakeBalanced'
  BY <1>ring DEF AwakeBalanced
<1>6. CalledBackOnce'
  BY <1>ring DEF CalledBackOnce, PhaseInv, IndexInv, QueueTypes
<1>7. PhaseInv'
  BY <1>ring DEF PhaseInv, QueueTypes, StateTypes, Phase
<1>8. (ReadInv /\ StateInv /\ IndexInv)'
  BY <1>ring DEF ReadInv, StateInv, IndexInv
<1> QED
  BY <1>ring, <1>1, <1>2, <1>3, <1>4, <1>5, <1>6, <1>7, <1>8 DEF IInv

\* The result is read: the command leaves the queue and its callback begins.
LEMMA CompleteKeeps ==
  ASSUME IInv, Complete, ContextFree, bCmdInProgress,
         fw' = "idle", osTimer' = FALSE,
         read' \in {"none", "late"}, read' = "late" => read = "late",
         recover' = recover, faults' = faults
  PROVE  IInv'
<1> /\ QueueTypes /\ FlagTypes /\ StateTypes
    /\ RingConsistent /\ MailboxServesHead /\ AwakeBalanced /\ CalledBackOnce
    /\ PhaseInv /\ ReadInv /\ StateInv /\ IndexInv
  BY DEF IInv
<1> USE DEF Complete, ringVars, smVars, mboxVars, cbVars, boundVars, ContextFree, NextSlot
<1>0. uNumberOfCommandInQueue > 0 /\ mbox = aCmdQueue[head] /\ cb = NoCmd
  BY DEF MailboxServesHead
<1>ring. /\ RingConsistent' /\ head' \in Slot /\ uNumberOfCommandInQueue' \in Nat
      /\ InRing(aCmdQueue[head]) /\ aCmdQueue[head] \in Cmd
      /\ (\A d : InRing(d)' <=> InRing(d) /\ d # aCmdQueue[head])
      /\ (\A d : IsSaved(d)' <=> IsSaved(d))
  BY <1>0, Popped, SameSaved, Types
<1>1. QueueTypes'
  BY <1>ring DEF QueueTypes, Slot, IndexInv
<1>2. FlagTypes'
  BY DEF FlagTypes
<1>3. StateTypes'
  BY DEF StateTypes, Phase, AwakeBalanced
<1>4. MailboxServesHead'
  BY <1>ring DEF MailboxServesHead
<1>5. AwakeBalanced'
  BY <1>ring DEF AwakeBalanced, MailboxServesHead
<1>6. CalledBackOnce'
  <2>1. cb' = Config => phase = "config"
    BY <1>ring DEF PhaseInv
  <2>2. \A i \in 1 .. Len(aRecoveryQueue) : aRecoveryQueue[i] # Config => aRecoveryQueue[i] \in owed
    BY <1>0 DEF CalledBackOnce, IndexInv, QueueTypes
  <2>3. \A i \in 1 .. Len(aRecoveryQueue) : aRecoveryQueue[i] \in Callback /\ IsSaved(aRecoveryQueue[i])
    BY DEF QueueTypes, IsSaved
  <2>4. \A i \in 1 .. Len(aRecoveryQueue) :
          aRecoveryQueue[i] # Config => aRecoveryQueue[i] # aCmdQueue[head]
    BY <1>ring, <2>3 DEF CalledBackOnce
  <2>5. (\A i \in 1 .. Len(aRecoveryQueue) :
           i >= cbIndex /\ aRecoveryQueue[i] # Config => aRecoveryQueue[i] \in owed)'
    BY <2>2, <2>4
  <2>6. (cb = Config => ~IsSaved(Config))'
    BY <2>1, <1>ring DEF PhaseInv
  <2>7. (\A c \in Callback \ {Config} : InRing(c) => c \in owed /\ ~IsSaved(c))'
    BY <1>ring DEF CalledBackOnce
  <2> QED
    BY <2>5, <2>6, <2>7 DEF CalledBackOnce
<1>7. PhaseInv'
  BY <1>ring DEF PhaseInv, QueueTypes, StateTypes, Phase
<1>8. (ReadInv /\ StateInv /\ IndexInv)'
  BY <1>ring DEF ReadInv, StateInv, IndexInv
<1> QED
  BY <1>ring, <1>1, <1>2, <1>3, <1>4, <1>5, <1>6, <1>7, <1>8 DEF IInv

\* The result is read at once, later, or not at all.
LEMMA CommandCompleteKeeps ==
  ASSUME IInv, CommandComplete
  PROVE  IInv'
<1> /\ QueueTypes /\ FlagTypes /\ StateTypes
    /\ RingConsistent /\ MailboxServesHead /\ AwakeBalanced /\ CalledBackOnce
    /\ PhaseInv /\ ReadInv /\ StateInv /\ IndexInv
  BY DEF IInv
<1> USE DEF CommandComplete, ringVars, smVars, mboxVars, cbVars, boundVars, ContextFree,
    FaultAllowed
<1> SUFFICES ASSUME ~(Complete /\ UNCHANGED <<read, recover, faults>>) PROVE IInv'
  <2>1. fw # "idle" /\ bCmdInProgress /\ read # "pending"
    BY DEF MailboxServesHead, ReadInv
  <2> QED
    BY <2>1, CompleteKeeps DEF StateTypes
<1>ring. RingConsistent' /\ (\A d : InRing(d)' <=> InRing(d)) /\ (\A d : IsSaved(d)' <=> IsSaved(d))
  BY SameRing, SameSaved
<1>1. QueueTypes'
  BY <1>ring DEF QueueTypes, Slot, IndexInv
<1>2. FlagTypes'
  BY DEF FlagTypes
<1>3. StateTypes'
  BY DEF StateTypes, Phase, AwakeBalanced
<1>4. MailboxServesHead'
  BY <1>ring DEF MailboxServesHead, QueueTypes, StateTypes, FlagTypes, PhaseInv, ReadInv,
      StateInv, AwakeBalanced
<1>5. AwakeBalanced'
  BY <1>ring DEF AwakeBalanced, StateInv, QueueTypes, StateTypes
<1>6. CalledBackOnce'
  BY <1>ring DEF CalledBackOnce, PhaseInv, IndexInv, QueueTypes
<1>7. PhaseInv'
  BY <1>ring DEF PhaseInv, QueueTypes, StateTypes, Phase
<1>8. (ReadInv /\ StateInv /\ IndexInv)'
  <2>1. fw' = "idle" /\ osTimer' = FALSE /\ bMboxEnabled' = bMboxEnabled /\ read' \in {read, "pending"}
    BY DEF Complete
  <2>2. ReadInv'
    BY <2>1 DEF ReadInv
  <2>3. StateInv' /\ IndexInv'
    BY DEF StateInv, IndexInv
  <2> QED
    BY <2>2, <2>3
<1> QED
  BY <1>ring, <1>1, <1>2, <1>3, <1>4, <1>5, <1>6, <1>7, <1>8 DEF IInv

\* A result that was read later.
LEMMA TransferCompleteKeeps ==
  ASSUME IInv, TransferComplete
  PROVE  IInv'
<1>1. bCmdInProgress /\ fw = "idle" /\ osTimer \in BOOLEAN /\ ~osTimer
  BY DEF IInv, TransferComplete, MailboxServesHead, ReadInv, FlagTypes
<1> QED
  BY <1>1, CompleteKeeps DEF TransferComplete

\* A result that nobody waits for.
LEMMA LateTransferCompleteKeeps ==
  ASSUME IInv, LateTransferComplete
  PROVE  IInv'
<1> /\ QueueTypes /\ FlagTypes /\ StateTypes
    /\ RingConsistent /\ MailboxServesHead /\ AwakeBalanced /\ CalledBackOnce
    /\ PhaseInv /\ ReadInv /\ StateInv /\ IndexInv
  BY DEF IInv
<1> USE DEF LateTransferComplete, ringVars, smVars, mboxVars, cbVars, boundVars, ContextFree
<1>ring. RingConsistent' /\ (\A d : InRing(d)' <=> InRing(d)) /\ (\A d : IsSaved(d)' <=> IsSaved(d))
  BY SameRing, SameSaved
<1>1. QueueTypes'
  BY <1>ring DEF QueueTypes, Slot, IndexInv
<1>2. FlagTypes'
  BY DEF FlagTypes
<1>3. StateTypes'
  BY DEF StateTypes, Phase, AwakeBalanced
<1>4. MailboxServesHead'
  BY <1>ring DEF MailboxServesHead, PhaseInv, ReadInv
<1>5. AwakeBalanced'
  BY <1>ring DEF AwakeBalanced
<1>6. CalledBackOnce'
  BY <1>ring DEF CalledBackOnce, PhaseInv, IndexInv, QueueTypes
<1>7. PhaseInv'
  BY <1>ring DEF PhaseInv, QueueTypes, StateTypes, Phase
<1>8. (ReadInv /\ StateInv /\ IndexInv)'
  BY <1>ring DEF ReadInv, StateInv, IndexInv
<1> QED
  BY <1>ring, <1>1, <1>2, <1>3, <1>4, <1>5, <1>6, <1>7, <1>8 DEF IInv

\* The next command is sent, or the device may sleep.
LEMMA CbReturnsKeeps ==
  ASSUME IInv, CbReturns
  PROVE  IInv'
<1> /\ QueueTypes /\ FlagTypes /\ StateTypes
    /\ RingConsistent /\ MailboxServesHead /\ AwakeBalanced /\ CalledBackOnce
    /\ PhaseInv /\ ReadInv /\ StateInv /\ IndexInv
  BY DEF IInv
<1> USE DEF CbReturns, ringVars, smVars, mboxVars, cbVars, boundVars, MoreWaiting, ForgetSaved,
    Run, KeepAwake
<1>ring. RingConsistent' /\ (\A d : InRing(d)' <=> InRing(d)) /\ (\A d : IsSaved(d)' => IsSaved(d))
  BY SameRing DEF IsSaved
<1>1. QueueTypes'
  <2>1. aRecoveryQueue' = <<>> \/ aRecoveryQueue' = aRecoveryQueue
    OBVIOUS
  <2>2. aRecoveryQueue \in Seq(Callback) /\ <<>> \in Seq(Callback)
    BY DEF QueueTypes
  <2>3. aRecoveryQueue' \in Seq(Callback)
    BY <2>1, <2>2
  <2>4. mbox' \in Cmd \cup {NoCmd}
    BY DEF QueueTypes
  <2> QED
    BY <2>3, <2>4 DEF QueueTypes, Slot
<1>2. FlagTypes'
  BY DEF FlagTypes
<1>3. StateTypes'
  BY DEF StateTypes, Phase, AwakeBalanced
<1>4. MailboxServesHead'
  BY <1>ring DEF MailboxServesHead
<1>5. AwakeBalanced'
  BY <1>ring DEF AwakeBalanced
<1>6. CalledBackOnce'
  BY <1>ring DEF CalledBackOnce, PhaseInv, IndexInv, QueueTypes
<1>7. PhaseInv'
  BY <1>ring DEF PhaseInv, QueueTypes, StateTypes, Phase
<1>8. (ReadInv /\ StateInv /\ IndexInv)'
  BY <1>ring DEF ReadInv, StateInv, IndexInv, MailboxServesHead
<1> QED
  BY <1>ring, <1>1, <1>2, <1>3, <1>4, <1>5, <1>6, <1>7, <1>8 DEF IInv

\* A saved callback is called.
LEMMA EndReconfigKeeps ==
  ASSUME IInv, EndReconfig
  PROVE  IInv'
<1> /\ QueueTypes /\ FlagTypes /\ StateTypes
    /\ RingConsistent /\ MailboxServesHead /\ AwakeBalanced /\ CalledBackOnce
    /\ PhaseInv /\ ReadInv /\ StateInv /\ IndexInv
  BY DEF IInv
<1> USE DEF EndReconfig, ringVars, smVars, mboxVars, cbVars, boundVars
<1>ring. RingConsistent' /\ (\A d : InRing(d)' <=> InRing(d)) /\ (\A d : IsSaved(d)' <=> IsSaved(d))
  BY SameRing, SameSaved
<1>1. QueueTypes'
  BY <1>ring DEF QueueTypes, Slot, IndexInv
<1>2. FlagTypes'
  BY DEF FlagTypes
<1>3. StateTypes'
  BY DEF StateTypes, Phase, AwakeBalanced
<1>4. MailboxServesHead'
  BY <1>ring DEF MailboxServesHead
<1>5. AwakeBalanced'
  BY <1>ring DEF AwakeBalanced
<1>6. CalledBackOnce'
  <2>1. \A i \in 1 .. Len(aRecoveryQueue) :
           i >= cbIndex + 1 /\ aRecoveryQueue[i] # Config => aRecoveryQueue[i] \in owed'
    BY DEF CalledBackOnce, QueueTypes
  <2>2. cbIndex # 0 => IsSaved(aRecoveryQueue[cbIndex])
    BY DEF IsSaved, QueueTypes
  <2>3. \A c \in Callback \ {Config} : InRing(c) => c \in owed'
    BY <2>2 DEF CalledBackOnce
  <2> QED
    BY <1>ring, <2>1, <2>3 DEF CalledBackOnce, QueueTypes
<1>7. PhaseInv'
  BY <1>ring DEF PhaseInv, QueueTypes, StateTypes, Phase
<1>8. (ReadInv /\ StateInv /\ IndexInv)'
  BY <1>ring DEF ReadInv, StateInv, IndexInv
<1> QED
  BY <1>ring, <1>1, <1>2, <1>3, <1>4, <1>5, <1>6, <1>7, <1>8 DEF IInv

\* A stop that recovers an operational driver.
LEMMA RecoveryKeeps ==
  ASSUME IInv, Recovery
  PROVE  IInv'
<1> /\ QueueTypes /\ FlagTypes /\ StateTypes
    /\ RingConsistent /\ MailboxServesHead /\ AwakeBalanced /\ CalledBackOnce
    /\ PhaseInv /\ ReadInv /\ StateInv /\ IndexInv
  BY DEF IInv
<1> USE DEF Recovery, ringVars, smVars, mboxVars, cbVars, boundVars, Restart, ContextFree,
    StateAfterRestart
<1>ring. /\ RingConsistent' /\ (\A d : ~InRing(d)') /\ aRecoveryQueue' \in Seq(Callback)
      /\ \A d : IsSaved(d)' => InRing(d)
  BY Restarted, Types
<1>1. QueueTypes'
  BY <1>ring DEF QueueTypes, Slot, IndexInv
<1>2. FlagTypes'
  BY DEF FlagTypes
<1>3. StateTypes'
  BY DEF StateTypes, Phase, AwakeBalanced
<1>4. MailboxServesHead'
  BY <1>ring DEF MailboxServesHead
<1>5. AwakeBalanced'
  BY <1>ring DEF AwakeBalanced
<1>6. CalledBackOnce'
  BY RestartCalledBack, Types
<1>7. PhaseInv'
  BY <1>ring DEF PhaseInv, QueueTypes, StateTypes, Phase
<1>8. (ReadInv /\ StateInv /\ IndexInv)'
  BY <1>ring DEF ReadInv, StateInv, IndexInv
<1> QED
  BY <1>ring, <1>1, <1>2, <1>3, <1>4, <1>5, <1>6, <1>7, <1>8 DEF IInv

\* A stop for the user.
LEMMA StopKeeps ==
  ASSUME IInv, Stop
  PROVE  IInv'
<1> /\ QueueTypes /\ FlagTypes /\ StateTypes
    /\ RingConsistent /\ MailboxServesHead /\ AwakeBalanced /\ CalledBackOnce
    /\ PhaseInv /\ ReadInv /\ StateInv /\ IndexInv
  BY DEF IInv
<1> USE DEF Stop, ringVars, smVars, mboxVars, cbVars, boundVars, Restart, ContextFree,
    StateAfterRestart, ExpiryWhenStopped
<1>ring. /\ RingConsistent' /\ (\A d : ~InRing(d)') /\ aRecoveryQueue' \in Seq(Callback)
      /\ \A d : IsSaved(d)' => InRing(d)
  BY Restarted, Types
<1>1. QueueTypes'
  BY <1>ring DEF QueueTypes, Slot, IndexInv
<1>2. FlagTypes'
  BY DEF FlagTypes
<1>3. StateTypes'
  BY DEF StateTypes, Phase, AwakeBalanced
<1>4. MailboxServesHead'
  BY <1>ring DEF MailboxServesHead
<1>5. AwakeBalanced'
  BY <1>ring DEF AwakeBalanced
<1>6. CalledBackOnce'
  BY RestartCalledBack, Types
<1>7. PhaseInv'
  BY <1>ring DEF PhaseInv, QueueTypes, StateTypes, Phase
<1>8. (ReadInv /\ StateInv /\ IndexInv)'
  BY <1>ring DEF ReadInv, StateInv, IndexInv
<1> QED
  BY <1>ring, <1>1, <1>2, <1>3, <1>4, <1>5, <1>6, <1>7, <1>8 DEF IInv

\* A stop after a failure.
LEMMA InitFailsKeeps ==
  ASSUME IInv, InitFails
  PROVE  IInv'
<1> /\ QueueTypes /\ FlagTypes /\ StateTypes
    /\ RingConsistent /\ MailboxServesHead /\ AwakeBalanced /\ CalledBackOnce
    /\ PhaseInv /\ ReadInv /\ StateInv /\ IndexInv
  BY DEF IInv
<1> USE DEF InitFails, ringVars, smVars, mboxVars, cbVars, boundVars, Restart, ContextFree,
    StateAfterRestart, FaultAllowed
<1>ring. /\ RingConsistent' /\ (\A d : ~InRing(d)') /\ aRecoveryQueue' \in Seq(Callback)
      /\ \A d : IsSaved(d)' => InRing(d)
  BY Restarted, Types
<1>1. QueueTypes'
  BY <1>ring DEF QueueTypes, Slot, IndexInv
<1>2. FlagTypes'
  BY DEF FlagTypes
<1>3. StateTypes'
  BY DEF StateTypes, Phase, AwakeBalanced
<1>4. MailboxServesHead'
  BY <1>ring DEF MailboxServesHead
<1>5. AwakeBalanced'
  BY <1>ring DEF AwakeBalanced
<1>6. CalledBackOnce'
  BY RestartCalledBack, Types
<1>7. PhaseInv'
  BY <1>ring DEF PhaseInv, QueueTypes, StateTypes, Phase
<1>8. (ReadInv /\ StateInv /\ IndexInv)'
  BY <1>ring DEF ReadInv, StateInv, IndexInv
<1> QED
  BY <1>ring, <1>1, <1>2, <1>3, <1>4, <1>5, <1>6, <1>7, <1>8 DEF IInv

\* The second stop after a failed recovery.
LEMMA StoppedAgainKeeps ==
  ASSUME IInv, phase = "failing", phase' = "stopped", Restart, expiry' = ExpiryWhenStopped,
         UNCHANGED boundVars
  PROVE  IInv'
<1> /\ QueueTypes /\ FlagTypes /\ StateTypes
    /\ RingConsistent /\ MailboxServesHead /\ AwakeBalanced /\ CalledBackOnce
    /\ PhaseInv /\ ReadInv /\ StateInv /\ IndexInv
  BY DEF IInv
<1> USE DEF ringVars, smVars, mboxVars, cbVars, boundVars, Restart, ContextFree,
    StateAfterRestart, ExpiryWhenStopped
<1>ring. /\ RingConsistent' /\ (\A d : ~InRing(d)') /\ aRecoveryQueue' \in Seq(Callback)
      /\ \A d : IsSaved(d)' => InRing(d)
  BY Restarted, Types
<1>1. QueueTypes'
  BY <1>ring DEF QueueTypes, Slot, IndexInv
<1>2. FlagTypes'
  BY DEF FlagTypes
<1>3. StateTypes'
  BY DEF StateTypes, Phase, AwakeBalanced
<1>4. MailboxServesHead'
  BY <1>ring DEF MailboxServesHead
<1>5. AwakeBalanced'
  BY <1>ring DEF AwakeBalanced
<1>6. CalledBackOnce'
  BY RestartCalledBack, Types
<1>7. PhaseInv'
  BY <1>ring DEF PhaseInv, QueueTypes, StateTypes, Phase
<1>8. (ReadInv /\ StateInv /\ IndexInv)'
  BY <1>ring DEF ReadInv, StateInv, IndexInv
<1> QED
  BY <1>ring, <1>1, <1>2, <1>3, <1>4, <1>5, <1>6, <1>7, <1>8 DEF IInv

\* The driver has failed for good.
LEMMA GivenUpKeeps ==
  ASSUME IInv, phase = "failing", phase' = "failed", ContextFree,
         UNCHANGED <<ringVars, smVars, bErrorFlag, bMboxEnabled, aRecoveryQueue, mboxVars,
                     read, expiry, cbVars, recover, owed, boundVars>>
  PROVE  IInv'
<1> USE DEF ringVars, smVars, mboxVars, cbVars, boundVars
<1>1. RingConsistent' /\ (\A d : InRing(d)' <=> InRing(d)) /\ (\A d : IsSaved(d)' <=> IsSaved(d))
  BY SameRing, SameSaved DEF IInv
<1>2. (QueueTypes /\ FlagTypes)'
  BY DEF IInv, QueueTypes, FlagTypes, Slot
<1>3. StateTypes'
  BY DEF IInv, StateTypes, Phase
<1>4. (MailboxServesHead /\ AwakeBalanced /\ CalledBackOnce)'
  BY <1>1 DEF IInv, MailboxServesHead, AwakeBalanced, CalledBackOnce
<1>5. PhaseInv'
  BY <1>1 DEF IInv, PhaseInv, ContextFree
<1>6. (ReadInv /\ StateInv /\ IndexInv)'
  BY DEF IInv, ReadInv, StateInv, IndexInv
<1> QED
  BY <1>1, <1>2, <1>3, <1>4, <1>5, <1>6 DEF IInv

\* The event that ends the stop after a failure.
LEMMA StopAfterFailKeeps ==
  ASSUME IInv, StopAfterFail
  PROVE  IInv'
<1>1. CASE phase' = "failed" /\ ContextFree /\ UNCHANGED <<ringVars, smVars, bErrorFlag,
             bMboxEnabled, aRecoveryQueue, mboxVars, read, expiry, cbVars, recover, owed>>
  BY <1>1, GivenUpKeeps DEF StopAfterFail
<1>2. CASE phase' = "stopped" /\ Restart /\ expiry' = ExpiryWhenStopped
  BY <1>2, StoppedAgainKeeps DEF StopAfterFail
<1> QED
  BY <1>1, <1>2 DEF StopAfterFail

\* The user's stop begins.
LEMMA DisconnectKeeps ==
  ASSUME IInv, Disconnect
  PROVE  IInv'
<1> USE DEF Disconnect, ringVars, smVars, mboxVars, cbVars, boundVars
<1>1. RingConsistent' /\ (\A d : InRing(d)' <=> InRing(d)) /\ (\A d : IsSaved(d)' <=> IsSaved(d))
  BY SameRing, SameSaved DEF IInv
<1>2. (QueueTypes /\ FlagTypes)'
  BY DEF IInv, QueueTypes, FlagTypes, Slot
<1>3. StateTypes'
  BY DEF IInv, StateTypes, Phase
<1>4. (MailboxServesHead /\ AwakeBalanced /\ CalledBackOnce)'
  BY <1>1 DEF IInv, MailboxServesHead, AwakeBalanced, CalledBackOnce
<1>5. PhaseInv'
  BY <1>1 DEF IInv, PhaseInv, ContextFree
<1>6. (ReadInv /\ StateInv /\ IndexInv)'
  BY DEF IInv, ReadInv, StateInv, IndexInv
<1> QED
  BY <1>1, <1>2, <1>3, <1>4, <1>5, <1>6 DEF IInv

\* A START.
LEMMA StartKeeps ==
  ASSUME IInv, Start
  PROVE  IInv'
<1> USE DEF Start, ringVars, smVars, mboxVars, cbVars, boundVars
<1>1. RingConsistent' /\ (\A d : InRing(d)' <=> InRing(d)) /\ (\A d : IsSaved(d)' <=> IsSaved(d))
  BY SameRing, SameSaved DEF IInv
<1>2. (QueueTypes /\ FlagTypes)'
  BY DEF IInv, QueueTypes, FlagTypes, Slot
<1>3. StateTypes'
  BY DEF IInv, StateTypes, Phase
<1>4. (MailboxServesHead /\ AwakeBalanced /\ CalledBackOnce)'
  BY <1>1 DEF IInv, MailboxServesHead, AwakeBalanced, CalledBackOnce
<1>5. PhaseInv'
  BY <1>1 DEF IInv, PhaseInv, ContextFree
<1>6. (ReadInv /\ StateInv /\ IndexInv)'
  BY DEF IInv, ReadInv, StateInv, IndexInv
<1> QED
  BY <1>1, <1>2, <1>3, <1>4, <1>5, <1>6 DEF IInv

\* The configuration is sent.
LEMMA ConfigFwKeeps ==
  ASSUME IInv, ConfigFw
  PROVE  IInv'
<1> /\ QueueTypes /\ FlagTypes /\ StateTypes
    /\ RingConsistent /\ MailboxServesHead /\ AwakeBalanced /\ CalledBackOnce
    /\ PhaseInv /\ ReadInv /\ StateInv /\ IndexInv
  BY DEF IInv
<1> USE DEF ConfigFw, ringVars, smVars, mboxVars, cbVars, boundVars, ContextFree, Push, RunNow,
    Run, KeepAwake, NextSlot
<1>0. uNumberOfCommandInQueue = 0 /\ ~IsFull /\ ~bCmdInProgress /\ cb = NoCmd /\ state = "IDLE" /\ ~InRing(Config)
  BY DEF PhaseInv, IsFull, MailboxServesHead, StateInv, AwakeBalanced, StateTypes
<1>ring. /\ RingConsistent'
         /\ \A d : InRing(d)' <=> InRing(d) \/ (~bErrorFlag /\ d = Config)
         /\ \A d : IsSaved(d)' <=> IsSaved(d)
  BY <1>0, Pushed, SameRing, SameSaved, Types
<1>1. QueueTypes'
  BY <1>ring DEF QueueTypes, Slot, IndexInv
<1>2. FlagTypes'
  BY DEF FlagTypes
<1>3. StateTypes'
  BY DEF StateTypes, Phase, AwakeBalanced
<1>4. MailboxServesHead'
  <2>1. CASE bErrorFlag
    BY <2>1, <1>0 DEF MailboxServesHead
  <2>2. CASE ~bErrorFlag
    <3>1. aCmdQueue[head]' = Config /\ uNumberOfCommandInQueue' = 1
      BY <2>2, <1>0, Pushed, Types
    <3> QED
      BY <2>2, <3>1, <1>0 DEF MailboxServesHead
  <2> QED
    BY <2>1, <2>2
<1>5. AwakeBalanced'
  BY <1>ring DEF AwakeBalanced, StateInv, StateTypes, PhaseInv
<1>6. CalledBackOnce'
  BY <1>ring DEF CalledBackOnce, PhaseInv, IndexInv, QueueTypes
<1>7. PhaseInv'
  <2>1. cb' # Config /\ phase = "down" /\ phase' = "config" /\ bMboxEnabled' = TRUE
    BY <1>0
  <2>2. ~IsSaved(Config)
    BY <2>1 DEF PhaseInv
  <2>3. ~IsSaved(Config)'
    BY <2>2, SameSaved
  <2> QED
    BY <2>1, <2>3 DEF PhaseInv
<1>8. (ReadInv /\ StateInv /\ IndexInv)'
  BY <1>ring DEF ReadInv, StateInv, IndexInv, MailboxServesHead
<1> QED
  BY <1>ring, <1>1, <1>2, <1>3, <1>4, <1>5, <1>6, <1>7, <1>8 DEF IInv

------------------------------------------------------------------------------
(* The theorems.                                                           *)

\* An empty queue with an idle mailbox satisfies the invariant.
LEMMA InitIInv == Init => IInv
<1> SUFFICES ASSUME Init PROVE IInv
  OBVIOUS
<1> USE DEF Init
<1>1. QueueTypes /\ StateTypes
  BY DEF QueueTypes, StateTypes, Slot, Phase
<1>2. FlagTypes
  BY Zenon DEF FlagTypes
<1>3. (\A d : ~InRing(d)) /\ (\A d : ~IsSaved(d)) /\ cb # Config
  BY DEF InRing, IsSaved, Queued
<1>4. RingConsistent /\ MailboxServesHead
  BY DEF RingConsistent, MailboxServesHead, SlotAt, Queued
<1>5. AwakeBalanced /\ CalledBackOnce
  BY <1>3 DEF AwakeBalanced, CalledBackOnce
<1>6. PhaseInv /\ ReadInv /\ StateInv /\ IndexInv
  BY <1>3 DEF PhaseInv, ReadInv, StateInv, IndexInv
<1> QED
  BY <1>1, <1>2, <1>4, <1>5, <1>6 DEF IInv

\* A step that leaves every variable alone keeps the invariant.
LEMMA StutterKeeps ==
  ASSUME IInv, UNCHANGED vars
  PROVE  IInv'
<1> USE DEF vars, ringVars, smVars, mboxVars, cbVars, boundVars
<1>1. RingConsistent' /\ (\A d : InRing(d)' <=> InRing(d)) /\ (\A d : IsSaved(d)' <=> IsSaved(d))
  BY SameRing, SameSaved DEF IInv
<1>2. (QueueTypes /\ FlagTypes /\ StateTypes)'
  BY DEF IInv, QueueTypes, Slot
<1>3. (MailboxServesHead /\ AwakeBalanced /\ CalledBackOnce)'
  BY <1>1 DEF IInv, MailboxServesHead, AwakeBalanced, CalledBackOnce
<1>4. (PhaseInv /\ ReadInv /\ StateInv /\ IndexInv)'
  BY <1>1 DEF IInv, PhaseInv, ReadInv, StateInv, IndexInv
<1> QED
  BY <1>1, <1>2, <1>3, <1>4 DEF IInv

\* Every step keeps the invariant.
LEMMA NextKeeps == IInv /\ [Next]_vars => IInv'
BY SendCommandKeeps, FwCompletesKeeps, FwHangsKeeps, TimerExpiresKeeps, TimeOutKeeps,
   CommandCompleteKeeps, TransferCompleteKeeps, LateTransferCompleteKeeps, CbReturnsKeeps,
   EndReconfigKeeps, RecoveryKeeps, StopKeeps, InitFailsKeeps, StopAfterFailKeeps,
   DisconnectKeeps, StartKeeps, ConfigFwKeeps, StutterKeeps DEF Next

\* The inductive invariant holds in every reachable state.
THEOREM Inductive == Spec => []IInv
<1> QED
  BY InitIInv, NextKeeps, PTL DEF Spec

\* For every depth of the queue, cmdQueue_Push, cmdQueue_SM and cmdQueue_Restart keep
\* head, tail and count of the ring in agreement, no command is overwritten, and the
\* result that cmdMbox_TransferComplete reads is the head's.
THEOREM QueueCorrect == Spec => []QueueConsistent
<1>1. IInv => QueueConsistent
  BY Types DEF IInv, QueueConsistent
<1> QED
  BY <1>1, Inductive, PTL

\* The module asks twIf_Awake once for a row of commands and gives the request back
\* when the queue is idle.
THEOREM AwakeCorrect == Spec => []AwakeBalanced
<1>1. IInv => AwakeBalanced
  BY DEF IInv
<1> QED
  BY <1>1, Inductive, PTL

\* Nobody is called back twice, neither by cmdQueue_SM and cmdQueue_EndReconfig
\* together nor by a second recovery.
THEOREM CallbacksCorrect == Spec => []CalledBackOnce
<1>1. IInv => CalledBackOnce
  BY DEF IInv
<1> QED
  BY <1>1, Inductive, PTL
==============================================================================

--------------------------- MODULE SdioBusDrvProofs ---------------------------
(***************************************************************************)
(* Proofs about SdioBusDrv, for every block size, threshold and length:    *)
(* the parts of a transaction are counted right in both threads, a success *)
(* means that every byte was moved, and the driver keeps the contract that *)
(* the transaction queue relies on.                                        *)
(***************************************************************************)
EXTENDS SdioBusDrv, SequenceTheorems, TLAPS

------------------------------------------------------------------------------
(* The inductive invariant.                                                *)

\* Context c executes busDrv_SendTxnParts.
Sending(c) == pc[c] \in {"send", "result"}

\* A transaction is being called, or is still to be called back.
Active == Calling \/ bus # {}

\* What the first k parts of the table carry.
Sum(k) == CASE k = 0 -> 0
            [] k = 1 -> aTxnParts[1].uLength
            [] OTHER -> aTxnParts[1].uLength + aTxnParts[2].uLength

\* One context calls at a time, and only a call returns.
CallInv ==
  /\ ~(inCall["Driver"] /\ inCall["TxnDone"])
  /\ \A c \in Ctx : (inCall[c] => pc[c] # "idle") /\ (pc[c] = "return" => inCall[c])

\* The parts of the current transaction make up its length, and those that are
\* submitted on completion of another one are long.
PartsInv ==
  Active => /\ pCurrTxn \in Txn
            /\ Len(aTxnParts) \in {1, 2} /\ Sum(Len(aTxnParts)) = total
            /\ Len(aTxnParts) = 2 => /\ aTxnParts[2].uLength >= SyncThresh
                                     /\ pCurrTxn \notin SingleStep

\* As long as a call sends parts, all of them were synchronous and successful.
SyncInv ==
  \A c \in Ctx : inCall[c] /\ Sending(c) =>
    /\ ~deferred /\ bus = {} /\ hw = "idle"
    /\ \A d \in Ctx \ {c} : pc[d] = "idle"
    /\ uCurrTxnPartsCount = uCurrTxnPartsCountSync + (IF pc[c] = "result" THEN 1 ELSE 0)
    /\ pc[c] = "send" /\ uCurrTxnPartsCount > 0 => eCurrTxnStatus = "COMPLETE"

\* Beyond the call only the SDIO thread sends parts, of a deferred transaction.
ContInv ==
  \A c \in Ctx : ~inCall[c] /\ Sending(c) =>
    /\ c = "TxnDone" /\ deferred /\ bus = {pCurrTxn} /\ hw = "idle"
    /\ uCurrTxnPartsCount > uCurrTxnPartsCountSync + (IF pc[c] = "result" THEN 1 ELSE 0)

\* A deferred transaction is with the controller or with the SDIO thread.
BusInv ==
  /\ hw = "busy" => /\ deferred /\ bus = {pCurrTxn}
                    /\ \A c \in Ctx : ~Sending(c)
                    /\ uCurrTxnPartsCount > uCurrTxnPartsCountSync
  /\ bus # {} => /\ deferred /\ bus = {pCurrTxn}
                 /\ hw = "busy" \/ (Sending("TxnDone") /\ ~inCall["TxnDone"])

\* What a call is about to return.
ReturnInv ==
  \A c \in Ctx : pc[c] = "return" =>
    IF deferred
    THEN eCurrTxnStatus = "PENDING" \/ (eCurrTxnStatus = "ERROR" /\ param = "ERROR")
    ELSE /\ eCurrTxnStatus \in {"COMPLETE", "ERROR"}
         /\ eCurrTxnStatus = "COMPLETE" => moved = total
         /\ bus = {} /\ \A d \in Ctx \ {c} : pc[d] = "idle"

\* A result that is being handled is not "pending".
ResultInv == \A c \in Ctx : pc[c] = "result" =>
               /\ eStatus[c] \in {"COMPLETE", "ERROR"}
               /\ inCall[c] \/ eStatus[c] = "ERROR"

\* The bytes of every part but the one under way have been moved.
MovedInv ==
  /\ moved \in Nat /\ total \in Nat
  /\ \A c \in Ctx : pc[c] = "send" => moved = Sum(uCurrTxnPartsCount)
  /\ \A c \in Ctx : pc[c] = "result" /\ eStatus[c] = "COMPLETE" => moved = Sum(uCurrTxnPartsCount)
  /\ hw = "busy" => moved + aTxnParts[uCurrTxnPartsCount].uLength = Sum(uCurrTxnPartsCount)

\* The type invariant in two parts.
PartTypes ==
  /\ aTxnParts \in Seq([bBlkMode : BOOLEAN, uLength : Nat, offset : Nat])
  /\ uCurrTxnPartsCount \in 0 .. Len(aTxnParts)
  /\ uCurrTxnPartsCountSync \in 0 .. uCurrTxnPartsCount
  /\ uTxnLength \in 0 .. MaxAggregLen
CtxTypes ==
  /\ pCurrTxn \in Txn \cup {NoTxn}
  /\ eCurrTxnStatus \in {"COMPLETE", "PENDING", "ERROR"}
  /\ param \in {"OK", "ERROR"}
  /\ hw \in {"idle", "busy"}
  /\ pc \in [Ctx -> {"idle", "send", "result", "return"}]
  /\ inCall \in [Ctx -> BOOLEAN]
  /\ eStatus \in [Ctx -> {"COMPLETE", "PENDING", "ERROR"}]
  /\ bus \subseteq Txn

IInv == /\ PartTypes /\ CtxTypes /\ deferred \in BOOLEAN
        /\ CallInv /\ PartsInv /\ SyncInv /\ ContInv /\ BusInv /\ ReturnInv /\ ResultInv /\ MovedInv

------------------------------------------------------------------------------
(* The table of parts.                                                     *)

USE BusDrvAssumption

\* What is left of n bytes, and what the full blocks hold.
LEMMA Remainder ==
  ASSUME NEW n \in Nat
  PROVE  /\ n % BlkSize \in Nat /\ n % BlkSize < BlkSize /\ n % BlkSize <= n
         /\ n < BlkSize => n % BlkSize = n
         /\ n >= BlkSize => n - (n % BlkSize) >= BlkSize
<1> DEFINE q == n \div BlkSize
           r == n % BlkSize
<1>1. q \in Nat /\ r \in 0 .. BlkSize - 1 /\ n = BlkSize * q + r
  OBVIOUS
<1>2. BlkSize * q \in Nat /\ r \in Nat /\ r < BlkSize /\ r <= n
  BY <1>1
<1>3. ASSUME n >= BlkSize PROVE n - r >= BlkSize
  <2>1. q # 0
    BY <1>1, <1>3
  <2>2. BlkSize * q >= BlkSize
    BY <1>1, <2>1
  <2> QED
    BY <1>1, <2>2
<1>4. ASSUME n < BlkSize PROVE r = n
  <2>1. q # 0 => BlkSize * q >= BlkSize
    BY <1>1
  <2>2. q = 0
    BY <1>1, <1>2, <1>4, <2>1
  <2> QED
    BY <1>1, <2>2
<1> QED
  BY <1>2, <1>3, <1>4

\* Concatenation of at most one element each.
LEMMA Concat ==
  ASSUME NEW a, NEW b
  PROVE  /\ <<a>> \o <<b>> = <<a, b>>
         /\ <<a>> \o <<>> = <<a>>
         /\ <<>> \o <<b>> = <<b>>
<1>1. <<a>> \o <<b>> = <<a, b>>
  <2> DEFINE s == <<a>> \o <<b>>
             t == <<a, b>>
  <2>1. s \in Seq({a, b}) /\ t \in Seq({a, b})
    OBVIOUS
  <2>2. Len(s) = 2 /\ Len(t) = 2
    OBVIOUS
  <2>3. s[1] = t[1] /\ s[2] = t[2]
    OBVIOUS
  <2>4. \A i \in 1 .. Len(s) : s[i] = t[i]
    BY <2>2, <2>3
  <2> HIDE DEF s, t
  <2>5. s = t
    BY <2>1, <2>2, <2>4, SeqEqual
  <2> QED
    BY <2>5 DEF s, t
<1>2. <<a>> \o <<>> = <<a>>
  OBVIOUS
<1>3. <<>> \o <<b>> = <<b>>
  OBVIOUS
<1> QED
  BY <1>1, <1>2, <1>3

\* busDrv_PrepareTxnParts makes one or two parts of any length, which carry it, and
\* a second part has full blocks.
LEMMA PartsTable ==
  ASSUME NEW n \in Nat \ {0}
  PROVE  LET parts == PrepareTxnParts(n)
         IN /\ parts \in Seq([bBlkMode : BOOLEAN, uLength : Nat, offset : Nat])
            /\ Len(parts) \in {1, 2}
            /\ Len(parts) = 1 => parts[1].uLength = n
            /\ Len(parts) = 2 => /\ parts[1].uLength + parts[2].uLength = n
                                 /\ parts[2].uLength >= SyncThresh /\ n >= BlkSize
<1> DEFINE r == n % BlkSize
           PT == [bBlkMode : BOOLEAN, uLength : Nat, offset : Nat]
<1>1. /\ r \in Nat /\ r <= n
      /\ n < BlkSize => r = n
      /\ n >= BlkSize => n - r >= BlkSize
  BY Remainder
<1>2. n - r \in Nat
  BY <1>1
<1> HIDE DEF r
<1>3. Part(FALSE, r, 0) \in PT /\ Part(TRUE, n - r, r) \in PT
  BY <1>1, <1>2 DEF Part
<1>4. CASE r > 0 /\ n >= BlkSize
  <2>1. PrepareTxnParts(n) = <<Part(FALSE, r, 0), Part(TRUE, n - r, r)>>
    BY <1>4, Concat DEF PrepareTxnParts, r
  <2> QED
    BY <1>1, <1>2, <1>3, <1>4, <2>1 DEF Part
<1>5. CASE r > 0 /\ ~(n >= BlkSize)
  <2>1. PrepareTxnParts(n) = <<Part(FALSE, r, 0)>>
    BY <1>5, Concat DEF PrepareTxnParts, r
  <2>2. r = n
    BY <1>1, <1>5
  <2> QED
    BY <1>1, <1>3, <2>1, <2>2 DEF Part
<1>6. CASE ~(r > 0)
  <2>1. r = 0 /\ n >= BlkSize
    BY <1>1, <1>6
  <2>2. PrepareTxnParts(n) = <<Part(TRUE, n - r, r)>>
    BY <1>6, <2>1, Concat DEF PrepareTxnParts, r
  <2>3. n - r = n
    BY <2>1
  <2> QED
    BY <1>3, <2>2, <2>3 DEF Part
<1> QED
  BY <1>4, <1>5, <1>6

\* Each part has a length.
LEMMA PartLength ==
  ASSUME PartTypes, NEW i \in 1 .. Len(aTxnParts)
  PROVE  aTxnParts[i].uLength \in Nat
<1>1. aTxnParts[i] \in [bBlkMode : BOOLEAN, uLength : Nat, offset : Nat]
  BY ElementOfSeq DEF PartTypes
<1> QED
  BY <1>1

------------------------------------------------------------------------------
(* Every step keeps the invariant.                                         *)

\* A packet that is only accumulated.
LEMMA AggregateKeeps ==
  ASSUME NEW c \in Ctx, NEW t \in Txn, IInv, Transact(c, t), Aggregate(c, t)
  PROVE  IInv'
<1> /\ PartTypes /\ CtxTypes /\ deferred \in BOOLEAN
    /\ CallInv /\ PartsInv /\ SyncInv /\ ContInv /\ BusInv /\ ReturnInv /\ ResultInv /\ MovedInv
  BY DEF IInv
<1> USE DEF Transact, Aggregate, BusIdle, Ctx
<1>1. PartTypes'
  BY DEF PartTypes
<1>2. CtxTypes' /\ deferred' \in BOOLEAN
  BY DEF PartTypes, CtxTypes, CallInv, PartsInv, SyncInv, ContInv, BusInv, ReturnInv, ResultInv,
      MovedInv, Sending, Active, Calling, Ctx
<1>3. CallInv'
  BY DEF CallInv
<1>4. PartsInv'
  BY DEF PartsInv, Active, Calling
<1>5. SyncInv'
  BY DEF SyncInv
<1>6. ContInv'
  BY DEF ContInv, Sending
<1>7. BusInv'
  BY DEF BusInv
<1>8. ReturnInv'
  BY DEF CallInv, ReturnInv
<1>9. ResultInv'
  BY DEF ResultInv
<1>10. MovedInv'
  BY DEF ContInv, BusInv, MovedInv, Sending
<1> QED
  BY <1>1, <1>2, <1>3, <1>4, <1>5, <1>6, <1>7, <1>8, <1>9, <1>10 DEF IInv

\* A transaction is called and its table of parts made.
LEMMA PrepareKeeps ==
  ASSUME NEW c \in Ctx, NEW t \in Txn, IInv, Transact(c, t), Prepare(c, t)
  PROVE  IInv'
<1> /\ PartTypes /\ CtxTypes /\ deferred \in BOOLEAN
    /\ CallInv /\ PartsInv /\ SyncInv /\ ContInv /\ BusInv /\ ReturnInv /\ ResultInv /\ MovedInv
  BY DEF IInv
<1> USE DEF Transact, Prepare, BusIdle, Ctx
<1>0. DEFINE n == uTxnLength + LenOf[t]
<1>p. n \in Nat \ {0} /\ total' = n
  BY DEF PartTypes
<1>q. LET parts == aTxnParts'
      IN /\ parts \in Seq([bBlkMode : BOOLEAN, uLength : Nat, offset : Nat])
         /\ Len(parts) \in {1, 2}
         /\ Len(parts) = 1 => parts[1].uLength = n
         /\ Len(parts) = 2 => /\ parts[1].uLength + parts[2].uLength = n
                              /\ parts[2].uLength >= SyncThresh /\ n >= BlkSize
  <2>1. aTxnParts' = PrepareTxnParts(n)
    OBVIOUS
  <2> QED
    BY <1>p, <2>1, PartsTable
<1>1. PartTypes'
  <2>1. MaxAggregLen \in Nat
    OBVIOUS
  <2> QED
    BY <1>q, <2>1 DEF PartTypes
<1>2. CtxTypes' /\ deferred' \in BOOLEAN
  BY DEF PartTypes, CtxTypes, CallInv, PartsInv, SyncInv, ContInv, BusInv, ReturnInv, ResultInv,
      MovedInv, Sending, Active, Calling, Ctx
<1>3. CallInv'
  BY DEF CtxTypes, CallInv
<1>4. PartsInv'
  <2>1. pCurrTxn' \in Txn /\ Len(aTxnParts') \in {1, 2}
    BY <1>q
  <2>2. Sum(Len(aTxnParts))' = total'
    BY <1>p, <1>q DEF Sum
  <2>3. Len(aTxnParts') = 2 => t \notin SingleStep
    BY <1>p, <1>q
  <2> QED
    BY <1>q, <2>1, <2>2, <2>3 DEF PartsInv
<1>5. SyncInv'
  BY DEF CtxTypes, CallInv, SyncInv, ContInv, BusInv, Sending
<1>6. ContInv'
  BY DEF CtxTypes, ContInv, Sending
<1>7. BusInv'
  BY DEF BusInv
<1>8. ReturnInv'
  BY DEF CallInv, ReturnInv
<1>9. ResultInv'
  BY DEF ResultInv
<1>10. MovedInv'
  BY <1>p DEF BusInv, MovedInv, Sum
<1> QED
  BY <1>1, <1>2, <1>3, <1>4, <1>5, <1>6, <1>7, <1>8, <1>9, <1>10 DEF IInv

\* A part is submitted.
LEMMA SendPartKeeps ==
  ASSUME NEW c \in Ctx, IInv, SendPart(c)
  PROVE  IInv'
<1> /\ PartTypes /\ CtxTypes /\ deferred \in BOOLEAN
    /\ CallInv /\ PartsInv /\ SyncInv /\ ContInv /\ BusInv /\ ReturnInv /\ ResultInv /\ MovedInv
  BY DEF IInv
<1> DEFINE k == uCurrTxnPartsCount + 1
<1>a. pc[c] = "send" /\ uCurrTxnPartsCount < Len(aTxnParts) /\ uCurrTxnPartsCount' = k
  BY DEF SendPart
<1>b. ASSUME inCall[c]
      PROVE  /\ ~deferred /\ bus = {} /\ hw = "idle" /\ uCurrTxnPartsCount = uCurrTxnPartsCountSync
             /\ \A d \in Ctx \ {c} : pc[d] = "idle" /\ ~inCall[d]
  BY <1>a, <1>b DEF SyncInv, Sending, CallInv, PartTypes
<1>c. ASSUME ~inCall[c]
      PROVE  /\ c = "TxnDone" /\ deferred /\ bus = {pCurrTxn} /\ hw = "idle"
             /\ uCurrTxnPartsCount > uCurrTxnPartsCountSync
             /\ \A d \in Ctx \ {c} : pc[d] \in {"idle", "return"}
  <2>1. /\ c = "TxnDone" /\ deferred /\ bus = {pCurrTxn} /\ hw = "idle"
        /\ uCurrTxnPartsCount > uCurrTxnPartsCountSync
    BY <1>a, <1>c DEF ContInv, Sending, PartTypes
  <2>2. \A d \in Ctx \ {c} : pc[d] \in {"idle", "return"}
    BY <2>1 DEF ContInv, SyncInv, Sending, CtxTypes
  <2> QED
    BY <2>1, <2>2
<1>d. /\ pCurrTxn \in Txn /\ Len(aTxnParts) \in {1, 2}
      /\ Len(aTxnParts) = 2 => aTxnParts[2].uLength >= SyncThresh /\ pCurrTxn \notin SingleStep
  BY <1>b, <1>c DEF PartsInv, Active, Calling
<1>e. /\ uCurrTxnPartsCount \in {0, 1} /\ k \in 1 .. Len(aTxnParts)
      /\ \A i \in 1 .. Len(aTxnParts) : aTxnParts[i].uLength \in Nat
  <2>1. uCurrTxnPartsCount \in {0, 1} /\ k \in 1 .. Len(aTxnParts)
    <3>1. uCurrTxnPartsCount \in Nat
      BY DEF PartTypes
    <3>2. Len(aTxnParts) = 1 \/ Len(aTxnParts) = 2
      BY <1>d
    <3>3. uCurrTxnPartsCount < Len(aTxnParts)
      BY <1>a
    <3>4. CASE Len(aTxnParts) = 1
      <4>1. uCurrTxnPartsCount = 0
        BY <3>1, <3>3, <3>4
      <4> QED
        BY <3>4, <4>1
    <3>5. CASE Len(aTxnParts) = 2
      <4>1. uCurrTxnPartsCount = 0 \/ uCurrTxnPartsCount = 1
        BY <3>1, <3>3, <3>5
      <4> QED
        BY <3>5, <4>1
    <3> QED
      BY <3>2, <3>4, <3>5
  <2>2. \A i \in 1 .. Len(aTxnParts) : aTxnParts[i].uLength \in Nat
    BY PartLength
  <2> QED
    BY <2>1, <2>2
<1>f. moved = Sum(uCurrTxnPartsCount) /\ moved \in Nat /\ moved + aTxnParts[k].uLength = Sum(k)
  <2>1. moved = Sum(uCurrTxnPartsCount) /\ moved \in Nat
    BY <1>a DEF MovedInv
  <2>2. CASE uCurrTxnPartsCount = 0
    BY <1>e, <2>1, <2>2 DEF Sum
  <2>3. CASE uCurrTxnPartsCount = 1
    BY <1>e, <2>1, <2>3 DEF Sum
  <2> QED
    BY <1>e, <2>1, <2>2, <2>3
<1>g. PICK s \in IF pCurrTxn \in SingleStep THEN SingleStepOutcome ELSE SubmitOutcome(aTxnParts[k]) :
       /\ eStatus' = [eStatus EXCEPT ![c] = s]
       /\ IF s = "PENDING"
            THEN /\ hw' = "busy"
                 /\ Leave(c)
                 /\ IF inCall[c] THEN bus' = {pCurrTxn} /\ deferred' = TRUE
                                 ELSE UNCHANGED <<bus, deferred>>
            ELSE /\ pc' = [pc EXCEPT ![c] = "result"]
                 /\ UNCHANGED <<hw, bus, deferred>>
       /\ moved' = IF s = "COMPLETE" THEN moved + aTxnParts[k].uLength ELSE moved
  BY DEF SendPart, CurrPart
<1>h. s \in {"COMPLETE", "PENDING", "ERROR"}
  BY DEF SingleStepOutcome, SubmitOutcome, Attempt
<1>i. ASSUME ~inCall[c]
      PROVE  s # "COMPLETE"
  <2>1. k = 2 /\ Len(aTxnParts) = 2
    BY <1>c, <1>d, <1>e, <1>i DEF PartTypes
  <2>2. aTxnParts[k].uLength >= SyncThresh /\ pCurrTxn \notin SingleStep
    BY <1>d, <2>1
  <2>3. s \in SubmitOutcome(aTxnParts[k]) /\ ~(aTxnParts[k].uLength < SyncThresh)
    BY <1>e, <2>2
  <2> QED
    BY <1>i, <2>3 DEF SubmitOutcome
<1>j. /\ eCurrTxnStatus' = "PENDING" /\ inCall' = inCall /\ param' = param
      /\ uCurrTxnPartsCountSync' = uCurrTxnPartsCountSync
      /\ pCurrTxn' = pCurrTxn /\ aTxnParts' = aTxnParts /\ uTxnLength' = uTxnLength /\ total' = total
  BY DEF SendPart, AssumedStatus, partVars
<1> HIDE DEF k
<1>k. pc' = [pc EXCEPT ![c] = IF s # "PENDING" THEN "result" ELSE IF inCall[c] THEN "return" ELSE "idle"]
  BY <1>g DEF Leave
<1>l. /\ hw' = (IF s = "PENDING" THEN "busy" ELSE "idle")
      /\ deferred' = (deferred \/ s = "PENDING") /\ deferred' \in BOOLEAN
      /\ bus' = IF s = "PENDING" \/ ~inCall[c] THEN {pCurrTxn} ELSE {}
  BY <1>b, <1>c, <1>g
<1>1. PartTypes'
  BY <1>a, <1>e, <1>j DEF PartTypes, k
<1>2. CtxTypes' /\ deferred' \in BOOLEAN
  BY <1>d, <1>g, <1>h, <1>j, <1>k, <1>l DEF CtxTypes, Ctx
<1>3. CallInv'
  BY <1>j, <1>k DEF CallInv, CtxTypes, Ctx
<1>4. PartsInv'
  <2>1. Active /\ Sum(Len(aTxnParts))' = Sum(Len(aTxnParts))
    BY <1>b, <1>c, <1>j DEF Active, Calling, Sum
  <2> QED
    BY <1>j, <2>1 DEF PartsInv
<1>5. SyncInv'
  BY <1>a, <1>b, <1>c, <1>j, <1>k, <1>l DEF SyncInv, Sending, CtxTypes, k
<1>6. ContInv'
  BY <1>a, <1>b, <1>c, <1>h, <1>i, <1>j, <1>k, <1>l DEF ContInv, Sending, CtxTypes, k, PartTypes
<1>7. BusInv'
  BY <1>a, <1>b, <1>c, <1>h, <1>i, <1>j, <1>k, <1>l DEF BusInv, Sending, CtxTypes, k, PartTypes
<1>8. ReturnInv'
  BY <1>b, <1>c, <1>h, <1>j, <1>k, <1>l DEF ReturnInv, CtxTypes, Ctx
<1>9. ResultInv'
  BY <1>b, <1>c, <1>g, <1>h, <1>i, <1>j, <1>k DEF ResultInv, CtxTypes, Ctx
<1>10. MovedInv'
  <2>1. \A i \in Nat : Sum(i)' = Sum(i)
    BY <1>j DEF Sum
  <2>2. s = "COMPLETE" => moved' = Sum(k)
    BY <1>f, <1>g
  <2>3. s = "PENDING" => moved' + aTxnParts'[k].uLength = Sum(k)
    BY <1>f, <1>g, <1>j
  <2>4. \A d \in Ctx : pc'[d] # "send"
    BY <1>b, <1>c, <1>k DEF CtxTypes
  <2>5. \A d \in Ctx : pc'[d] = "result" => s # "PENDING" /\ eStatus'[d] = s
    BY <1>b, <1>c, <1>g, <1>k DEF CtxTypes
  <2>6. moved' \in Nat /\ total' \in Nat /\ k \in Nat
    BY <1>e, <1>f, <1>g, <1>j DEF MovedInv, k
  <2> QED
    BY <1>a, <1>l, <2>1, <2>2, <2>3, <2>4, <2>5, <2>6 DEF MovedInv
<1> QED
  BY <1>1, <1>2, <1>3, <1>4, <1>5, <1>6, <1>7, <1>8, <1>9, <1>10 DEF IInv

\* A part has ended in the submitting call.
LEMMA PartResultKeeps ==
  ASSUME NEW c \in Ctx, IInv, PartResult(c)
  PROVE  IInv'
<1> /\ PartTypes /\ CtxTypes /\ deferred \in BOOLEAN
    /\ CallInv /\ PartsInv /\ SyncInv /\ ContInv /\ BusInv /\ ReturnInv /\ ResultInv /\ MovedInv
  BY DEF IInv
<1> USE DEF PartResult, partVars, Leave, TxnDoneCallback, AllSync, Ctx
<1>1. PartTypes'
  BY DEF PartTypes, SyncInv, ContInv, Sending
<1>2. CtxTypes' /\ deferred' \in BOOLEAN
  BY DEF CtxTypes
<1>3. CallInv'
  BY DEF CtxTypes, CallInv
<1>4. PartsInv'
  BY DEF PartsInv, Active, Calling, Sum
<1>5. SyncInv'
  <2>1. ASSUME inCall[c]
        PROVE  /\ ~deferred /\ bus = {} /\ hw = "idle"
               /\ \A d \in Ctx \ {c} : pc[d] = "idle"
               /\ uCurrTxnPartsCount = uCurrTxnPartsCountSync + 1
    BY <2>1 DEF SyncInv, Sending
  <2>2. ASSUME inCall[c], pc'[c] = "send" PROVE eCurrTxnStatus' = "COMPLETE" /\ bus' = bus
    BY <2>2 DEF ResultInv, CtxTypes
  <2>3. ASSUME ~inCall[c] PROVE deferred /\ c = "TxnDone"
    BY <2>3 DEF ContInv, Sending
  <2>4. \A d \in Ctx \ {c} : ~(inCall[d] /\ Sending(d))
    BY DEF SyncInv, Sending
  <2> QED
    BY <2>1, <2>2, <2>3, <2>4 DEF SyncInv, Sending, CtxTypes, PartTypes
<1>6. ContInv'
  BY DEF CtxTypes, SyncInv, ContInv, Sending
<1>7. BusInv'
  BY DEF SyncInv, ContInv, BusInv, ResultInv, Sending
<1>8. ReturnInv'
  BY DEF CtxTypes, SyncInv, ContInv, ReturnInv, ResultInv, Sending
<1>9. ResultInv'
  BY DEF CtxTypes, ResultInv
<1>10. MovedInv'
  BY DEF CtxTypes, ResultInv, MovedInv, Sum
<1> QED
  BY <1>1, <1>2, <1>3, <1>4, <1>5, <1>6, <1>7, <1>8, <1>9, <1>10 DEF IInv

\* The last part has ended.
LEMMA PartsDoneKeeps ==
  ASSUME NEW c \in Ctx, IInv, PartsDone(c)
  PROVE  IInv'
<1> /\ PartTypes /\ CtxTypes /\ deferred \in BOOLEAN
    /\ CallInv /\ PartsInv /\ SyncInv /\ ContInv /\ BusInv /\ ReturnInv /\ ResultInv /\ MovedInv
  BY DEF IInv
<1> USE DEF PartsDone, partVars, Leave, TxnDoneCallback, Ctx
<1>1. PartTypes'
  BY DEF PartTypes
<1>2. CtxTypes' /\ deferred' \in BOOLEAN
  BY DEF CtxTypes
<1>3. CallInv'
  BY DEF CallInv
<1>4. PartsInv'
  BY DEF PartsInv, Active, Calling, Sum
<1>5. SyncInv'
  BY DEF SyncInv, Sending
<1>6. ContInv'
  BY DEF CtxTypes, SyncInv, ContInv, Sending
<1>7. BusInv'
  BY DEF ContInv, BusInv, Sending
<1>8. ReturnInv'
  <2>1. CASE inCall[c]
    <3>1. /\ ~deferred /\ bus = {} /\ uCurrTxnPartsCount = uCurrTxnPartsCountSync
          /\ \A d \in Ctx \ {c} : pc[d] = "idle"
      BY <2>1 DEF SyncInv, Sending, PartTypes
    <3>2. moved = total /\ uCurrTxnPartsCount > 0
      BY <2>1 DEF MovedInv, PartsInv, Active, Calling
    <3>3. eCurrTxnStatus = "COMPLETE"
      BY <2>1, <3>2 DEF SyncInv, Sending
    <3> QED
      BY <2>1, <3>1, <3>2, <3>3 DEF ReturnInv, CtxTypes
  <2>2. CASE ~inCall[c]
    <3>1. deferred
      BY <2>2 DEF ContInv, Sending
    <3> QED
      BY <2>2, <3>1 DEF ReturnInv, CtxTypes
  <2> QED
    BY <2>1, <2>2
<1>9. ResultInv'
  BY DEF ResultInv
<1>10. MovedInv'
  BY DEF MovedInv, Sum
<1> QED
  BY <1>1, <1>2, <1>3, <1>4, <1>5, <1>6, <1>7, <1>8, <1>9, <1>10 DEF IInv

\* The call returns.
LEMMA ReturnKeeps ==
  ASSUME NEW c \in Ctx, IInv, Return(c)
  PROVE  IInv'
<1> /\ PartTypes /\ CtxTypes /\ deferred \in BOOLEAN
    /\ CallInv /\ PartsInv /\ SyncInv /\ ContInv /\ BusInv /\ ReturnInv /\ ResultInv /\ MovedInv
  BY DEF IInv
<1> USE DEF Return, partVars, Ctx
<1>1. PartTypes'
  BY DEF PartTypes
<1>2. CtxTypes' /\ deferred' \in BOOLEAN
  BY DEF CtxTypes
<1>3. CallInv'
  BY DEF CtxTypes, CallInv
<1>4. PartsInv'
  BY DEF PartsInv, Active, Calling, Sum
<1>5. SyncInv'
  BY DEF SyncInv, Sending
<1>6. ContInv'
  BY DEF ContInv, Sending
<1>7. BusInv'
  BY DEF BusInv, Sending
<1>8. ReturnInv'
  BY DEF ReturnInv
<1>9. ResultInv'
  BY DEF ResultInv
<1>10. MovedInv'
  BY DEF MovedInv, Sum
<1> QED
  BY <1>1, <1>2, <1>3, <1>4, <1>5, <1>6, <1>7, <1>8, <1>9, <1>10 DEF IInv

\* A transfer has ended well, and the SDIO thread goes on.
LEMMA TxnDoneOkKeeps ==
  ASSUME IInv, TxnDoneOk
  PROVE  IInv'
<1> /\ PartTypes /\ CtxTypes /\ deferred \in BOOLEAN
    /\ CallInv /\ PartsInv /\ SyncInv /\ ContInv /\ BusInv /\ ReturnInv /\ ResultInv /\ MovedInv
  BY DEF IInv
<1> USE DEF TxnDoneOk, partVars, Ctx
<1>1. PartTypes'
  BY DEF PartTypes
<1>2. CtxTypes' /\ deferred' \in BOOLEAN
  BY DEF CtxTypes
<1>3. CallInv'
  BY DEF CallInv
<1>4. PartsInv'
  BY DEF PartsInv, Active, Calling, Sum
<1>5. SyncInv'
  BY DEF CallInv, SyncInv, Sending
<1>6. ContInv'
  BY DEF PartTypes, ContInv, BusInv, Sending
<1>7. BusInv'
  BY DEF CtxTypes, CallInv, BusInv, Sending
<1>8. ReturnInv'
  BY DEF BusInv, ReturnInv
<1>9. ResultInv'
  BY DEF ResultInv
<1>10. MovedInv'
  <2>1. \A i : Sum(i)' = Sum(i)
    BY DEF Sum
  <2>2. moved' = Sum(uCurrTxnPartsCount)
    BY DEF MovedInv
  <2>3. moved' \in Nat
    <3>1. uCurrTxnPartsCount \in 1 .. Len(aTxnParts)
      BY DEF BusInv, PartTypes
    <3>2. aTxnParts[uCurrTxnPartsCount].uLength \in Nat
      BY <3>1, PartLength
    <3> QED
      BY <3>2 DEF MovedInv
  <2>4. \A c \in Ctx : pc'[c] # "result"
    BY DEF BusInv, Sending, CtxTypes
  <2> QED
    BY <2>1, <2>2, <2>3, <2>4 DEF MovedInv
<1> QED
  BY <1>1, <1>2, <1>3, <1>4, <1>5, <1>6, <1>7, <1>8, <1>9, <1>10 DEF IInv

\* A transfer has failed.
LEMMA TxnDoneErrorKeeps ==
  ASSUME IInv, TxnDoneError
  PROVE  IInv'
<1> /\ PartTypes /\ CtxTypes /\ deferred \in BOOLEAN
    /\ CallInv /\ PartsInv /\ SyncInv /\ ContInv /\ BusInv /\ ReturnInv /\ ResultInv /\ MovedInv
  BY DEF IInv
<1> USE DEF TxnDoneError, partVars, TxnDoneCallback, Ctx
<1>1. PartTypes'
  BY DEF PartTypes
<1>2. CtxTypes' /\ deferred' \in BOOLEAN
  BY DEF CtxTypes
<1>3. CallInv'
  BY DEF CallInv
<1>4. PartsInv'
  BY DEF PartsInv, Active, Calling, Sum
<1>5. SyncInv'
  BY DEF SyncInv, Sending
<1>6. ContInv'
  BY DEF ContInv, Sending
<1>7. BusInv'
  BY DEF BusInv
<1>8. ReturnInv'
  BY DEF ReturnInv
<1>9. ResultInv'
  BY DEF ResultInv
<1>10. MovedInv'
  BY DEF MovedInv, Sum
<1> QED
  BY <1>1, <1>2, <1>3, <1>4, <1>5, <1>6, <1>7, <1>8, <1>9, <1>10 DEF IInv

------------------------------------------------------------------------------
(* The theorems.                                                           *)

\* A bus driver without a transaction satisfies the invariant.
LEMMA InitIInv == Init => IInv
<1> SUFFICES ASSUME Init PROVE IInv
  OBVIOUS
<1>1. PartTypes /\ CtxTypes /\ deferred \in BOOLEAN
  <2>1. PartTypes
    BY DEF Init, PartTypes
  <2>2. inCall \in [Ctx -> BOOLEAN] /\ deferred \in BOOLEAN
    BY Zenon DEF Init
  <2>3. CtxTypes
    BY <2>2 DEF Init, CtxTypes, Ctx
  <2> QED
    BY <2>1, <2>2, <2>3
<1>2. (\A c \in Ctx : pc[c] = "idle" /\ ~inCall[c]) /\ bus = {} /\ hw = "idle" /\ moved = 0 /\ total = 0
  BY DEF Init
<1>3. CallInv /\ PartsInv /\ SyncInv /\ ContInv
  BY <1>2 DEF CallInv, PartsInv, SyncInv, ContInv, Sending, Active, Calling, Ctx
<1>4. BusInv /\ ReturnInv /\ ResultInv /\ MovedInv
  BY <1>2 DEF BusInv, ReturnInv, ResultInv, MovedInv
<1> QED
  BY <1>1, <1>3, <1>4 DEF IInv

\* A step that leaves every variable alone keeps the invariant.
LEMMA StutterKeeps ==
  ASSUME IInv, UNCHANGED vars
  PROVE  IInv'
<1> USE DEF vars, IInv
<1>1. PartTypes' /\ CtxTypes' /\ deferred' \in BOOLEAN
  BY DEF PartTypes, CtxTypes
<1>2. CallInv' /\ PartsInv' /\ SyncInv'
  BY DEF CallInv, PartsInv, SyncInv, Sending, Active, Calling, Sum
<1>3. ContInv' /\ BusInv' /\ ReturnInv'
  BY DEF ContInv, BusInv, ReturnInv, Sending, Active, Calling
<1>4. ResultInv' /\ MovedInv'
  BY DEF ResultInv, MovedInv, Sending, Active, Calling, Sum
<1> QED BY <1>1, <1>2, <1>3, <1>4

\* Every step keeps the invariant.
LEMMA NextKeeps == IInv /\ [Next]_vars => IInv'
<1> SUFFICES ASSUME IInv, [Next]_vars PROVE IInv'
  OBVIOUS
<1>1. ASSUME NEW c \in Ctx, NEW t \in Txn, Transact(c, t) PROVE IInv'
  BY <1>1, AggregateKeeps, PrepareKeeps DEF Transact
<1> QED
  BY <1>1, SendPartKeeps, PartResultKeeps, PartsDoneKeeps, ReturnKeeps, TxnDoneOkKeeps,
     TxnDoneErrorKeeps, StutterKeeps DEF Next, SendTxnParts

\* The inductive invariant holds in every reachable state.
THEOREM Inductive == Spec => []IInv
<1> QED
  BY InitIInv, NextKeeps, PTL DEF Spec

\* For every block size, threshold and length, no more parts are counted as sent, or
\* as ended in the submitting call, than busDrv_PrepareTxnParts has made.
THEOREM TypesCorrect == Spec => []TypeOK
<1>1. IInv => TypeOK
  BY DEF IInv, TypeOK, PartTypes, CtxTypes
<1> QED
  BY <1>1, Inductive, PTL

\* A step that reports a success has all bytes behind it.
LEMMA SuccessStep ==
  ASSUME IInv, Next,
         \/ bus # {} /\ bus' = {} /\ param' = "OK"
         \/ ret' # ret /\ ret'[2] = "COMPLETE" /\ ret'[1] \notin AggregOn
  PROVE  moved' = total
<1>1. ASSUME NEW c \in Ctx, NEW t \in Txn, Transact(c, t) PROVE FALSE
  BY <1>1 DEF Transact, Aggregate, Prepare, BusIdle
<1>2. ASSUME NEW c \in Ctx, SendPart(c) PROVE FALSE
  BY <1>2 DEF SendPart
<1>3. ASSUME NEW c \in Ctx, PartResult(c) PROVE FALSE
  BY <1>3 DEF PartResult
<1>4. ASSUME NEW c \in Ctx, PartsDone(c) PROVE moved' = total
  <2>1. pc[c] = "send" /\ uCurrTxnPartsCount = Len(aTxnParts) /\ bus # {} /\ moved' = moved
    BY <1>4 DEF PartsDone
  <2> QED
    BY <2>1 DEF IInv, MovedInv, PartsInv, Active
<1>5. ASSUME NEW c \in Ctx, Return(c) PROVE moved' = total
  <2>1. pc[c] = "return" /\ eCurrTxnStatus = "COMPLETE" /\ moved' = moved
    BY <1>5 DEF Return
  <2> QED
    BY <2>1 DEF IInv, ReturnInv
<1>6. ~TxnDoneOk /\ ~TxnDoneError
  BY DEF TxnDoneOk, TxnDoneError
<1> QED
  BY <1>1, <1>2, <1>3, <1>4, <1>5, <1>6 DEF Next, SendTxnParts

\* Whether busDrv_Transact returns it or the callback reports it, a success means
\* that every byte of the transaction was transferred, whatever the controller does
\* with the parts that are submitted on completion of another one.
THEOREM TransfersCorrect == Spec => OkMeansTransferred
<1>1. IInv /\ [Next]_vars =>
        [(\/ bus # {} /\ bus' = {} /\ param' = "OK"
          \/ ret' # ret /\ ret'[2] = "COMPLETE" /\ ret'[1] \notin AggregOn)
         => moved' = total]_vars
  BY SuccessStep
<1> QED
  BY <1>1, Inductive, PTL DEF Spec, OkMeansTransferred

------------------------------------------------------------------------------
(* The contract of a bus driver.                                           *)

\* The contract's variables, as Contract maps them.
CallOf == IF Calling THEN pCurrTxn ELSE NoTxn
OutcomeOf == IF ~Calling THEN "none"
             ELSE IF deferred THEN "PENDING"
             ELSE IF \E c \in Ctx : pc[c] = "return" THEN eCurrTxnStatus
             ELSE "none"
AbsVars == <<CallOf, OutcomeOf, bus, ret>>

\* What the contract's state is, by the place of the caller.
LEMMA Mapped ==
  ASSUME IInv
  PROVE  /\ ~Calling => CallOf = NoTxn /\ OutcomeOf = "none"
         /\ Calling => CallOf = pCurrTxn /\ pCurrTxn \in Txn /\ CallOf # NoTxn
         /\ \A c \in Ctx : inCall[c] /\ Sending(c) => OutcomeOf = "none"
         /\ \A c \in Ctx : pc[c] = "return" =>
              Calling /\ OutcomeOf = (IF deferred THEN "PENDING" ELSE eCurrTxnStatus) /\ OutcomeOf # "none"
<1>1. ~Calling => CallOf = NoTxn /\ OutcomeOf = "none"
  BY DEF CallOf, OutcomeOf
<1>2. Calling => CallOf = pCurrTxn /\ pCurrTxn \in Txn /\ CallOf # NoTxn
  BY DEF CallOf, IInv, PartsInv, Active
<1>3. ASSUME NEW c \in Ctx, inCall[c], Sending(c) PROVE OutcomeOf = "none"
  BY <1>3 DEF OutcomeOf, IInv, SyncInv, Sending
<1>4. ASSUME NEW c \in Ctx, pc[c] = "return"
      PROVE  Calling /\ OutcomeOf = (IF deferred THEN "PENDING" ELSE eCurrTxnStatus) /\ OutcomeOf # "none"
  <2>1. Calling
    BY <1>4 DEF IInv, CallInv, Calling
  <2>2. OutcomeOf = IF deferred THEN "PENDING" ELSE eCurrTxnStatus
    BY <1>4, <2>1 DEF OutcomeOf
  <2> QED
    BY <2>1, <2>2 DEF IInv, CtxTypes
<1> QED
  BY <1>1, <1>2, <1>3, <1>4

\* A packet that is accumulated is absorbed, another call begins.
LEMMA TransactRefines ==
  ASSUME IInv, IInv', NEW c \in Ctx, NEW t \in Txn, Transact(c, t)
  PROVE  Contract!Absorb(t) \/ Contract!Call(t)
<1>1. ~Calling /\ bus = {} /\ bus' = {}
  BY DEF Transact, BusIdle, Calling
<1>2. CASE Aggregate(c, t)
  <2>1. ~Calling' /\ ret' = <<t, "COMPLETE">>
    BY <1>1, <1>2 DEF Transact, Aggregate, Calling
  <2> QED
    BY <1>1, <2>1 DEF Contract!Absorb
<1>3. CASE Prepare(c, t)
  <2>1. Calling' /\ ~deferred' /\ ret' = ret /\ pCurrTxn' = t
    BY <1>3 DEF Transact, Prepare, Calling, IInv, CtxTypes
  <2>2. ~\E d \in Ctx : pc'[d] = "return"
    BY <1>1, <1>3 DEF Prepare, Calling, IInv, CallInv
  <2> QED
    BY <1>1, <2>1, <2>2 DEF Contract!Call
<1> QED
  BY <1>2, <1>3 DEF Transact

\* A submission decides the call when its part is pending, and nothing otherwise.
LEMMA SendPartRefines ==
  ASSUME IInv, IInv', NEW c \in Ctx, SendPart(c)
  PROVE  Contract!Defer \/ UNCHANGED AbsVars
<1>1. inCall' = inCall /\ ret' = ret /\ pCurrTxn' = pCurrTxn /\ pc[c] = "send"
  BY DEF SendPart, partVars
<1>2. (Calling' <=> Calling) /\ CallOf' = CallOf
  BY <1>1 DEF Calling, CallOf
<1>3. CASE inCall[c]
  <2>1. Calling /\ OutcomeOf = "none" /\ ~deferred /\ bus = {}
    BY <1>1, <1>3, Mapped DEF Calling, Sending, IInv, SyncInv
  <2>2. CASE deferred' = TRUE /\ bus' = {pCurrTxn}
    <3>1. OutcomeOf' = "PENDING"
      BY <1>2, <2>1, <2>2 DEF OutcomeOf
    <3> QED
      BY <1>1, <1>2, <2>1, <2>2, <3>1, Mapped DEF Contract!Defer, CallOf, OutcomeOf
  <2>3. CASE pc' = [pc EXCEPT ![c] = "result"] /\ bus' = bus /\ deferred' = deferred
    <3>1. OutcomeOf' = "none"
      <4>1. \A d \in Ctx : pc'[d] # "return"
        BY <1>1, <1>3, <2>3 DEF IInv, SyncInv, Sending, CtxTypes
      <4> QED
        BY <2>1, <2>3, <4>1 DEF OutcomeOf
    <3> QED
      BY <1>1, <1>2, <2>1, <2>3, <3>1 DEF AbsVars
  <2> QED
    BY <1>3, <2>2, <2>3 DEF SendPart
<1>4. CASE ~inCall[c]
  <2>1. deferred /\ deferred' = deferred /\ bus' = bus
    BY <1>1, <1>4 DEF SendPart, IInv, ContInv, Sending
  <2>2. OutcomeOf' = OutcomeOf
    BY <1>2, <2>1 DEF OutcomeOf
  <2> QED
    BY <1>1, <1>2, <2>1, <2>2 DEF AbsVars
<1> QED
  BY <1>3, <1>4

\* A step of busDrv_SendTxnParts that leaves the call ends it; one that goes on
\* decides nothing.
LEMMA LeaveRefines ==
  ASSUME IInv, IInv', NEW c \in Ctx, inCall[c], Sending(c), inCall' = inCall, ret' = ret,
         bus' = bus, pCurrTxn' = pCurrTxn, deferred' = deferred,
         pc' = [pc EXCEPT ![c] = "send"] \/ pc' = [pc EXCEPT ![c] = "return"]
  PROVE  Contract!End \/ UNCHANGED AbsVars
<1>1. Calling /\ Calling' /\ CallOf' = CallOf /\ CallOf # NoTxn /\ OutcomeOf = "none" /\ ~deferred
  BY Mapped DEF Calling, CallOf, IInv, SyncInv
<1>2. \A d \in Ctx \ {c} : pc[d] = "idle"
  BY DEF IInv, SyncInv
<1>3. CASE pc' = [pc EXCEPT ![c] = "send"]
  <2>1. \A d \in Ctx : pc'[d] # "return"
    BY <1>2, <1>3 DEF IInv, CtxTypes
  <2>2. OutcomeOf' = "none"
    BY <1>1, <2>1 DEF OutcomeOf
  <2> QED
    BY <1>1, <2>2 DEF AbsVars
<1>4. CASE pc' = [pc EXCEPT ![c] = "return"]
  <2>1. pc'[c] = "return"
    BY <1>4 DEF IInv, CtxTypes
  <2>2. eCurrTxnStatus' \in {"COMPLETE", "ERROR"}
    BY <1>1, <2>1 DEF IInv, ReturnInv
  <2>3. OutcomeOf' = eCurrTxnStatus'
    BY <1>1, <2>1 DEF OutcomeOf
  <2> QED
    BY <1>1, <2>2, <2>3 DEF Contract!End, CallOf, OutcomeOf
<1> QED
  BY <1>3, <1>4

\* A step of the SDIO thread beyond the call calls back, or decides nothing.
LEMMA CallbackRefines ==
  ASSUME IInv, deferred, deferred' = deferred, inCall' = inCall, ret' = ret, pCurrTxn' = pCurrTxn,
         bus = {pCurrTxn}, bus' = bus \/ bus' = bus \ {pCurrTxn}
  PROVE  (\E t \in Txn : Contract!Callback(t)) \/ UNCHANGED AbsVars
<1>1. CallOf' = CallOf /\ OutcomeOf' = OutcomeOf
  BY DEF CallOf, OutcomeOf, Calling
<1>2. CASE bus' = bus
  BY <1>1, <1>2 DEF AbsVars
<1>3. CASE bus' = bus \ {pCurrTxn}
  <2>1. pCurrTxn \in Txn /\ bus' = {} /\ pCurrTxn \in bus
    BY <1>3 DEF IInv, PartsInv, Active
  <2>2. Contract!Callback(pCurrTxn)
    BY <1>1, <2>1 DEF Contract!Callback, CallOf, OutcomeOf
  <2> QED
    BY <2>1, <2>2
<1> QED
  BY <1>2, <1>3

\* The result of a part.
LEMMA PartResultRefines ==
  ASSUME IInv, IInv', NEW c \in Ctx, PartResult(c)
  PROVE  Contract!End \/ (\E t \in Txn : Contract!Callback(t)) \/ UNCHANGED AbsVars
<1>1. /\ pc[c] = "result" /\ inCall' = inCall /\ ret' = ret /\ pCurrTxn' = pCurrTxn
      /\ deferred' = deferred /\ (bus' = bus \/ bus' = bus \ {pCurrTxn})
  BY DEF PartResult, partVars, TxnDoneCallback
<1>2. CASE inCall[c]
  <2>1. bus = {}
    BY <1>1, <1>2 DEF IInv, SyncInv, Sending
  <2>2. pc' = [pc EXCEPT ![c] = "send"] \/ pc' = [pc EXCEPT ![c] = "return"]
    BY <1>2 DEF PartResult, Leave
  <2> QED
    BY <1>1, <1>2, <2>1, <2>2, LeaveRefines DEF Sending
<1>3. CASE ~inCall[c]
  <2>1. deferred /\ bus = {pCurrTxn}
    BY <1>1, <1>3 DEF IInv, ContInv, Sending
  <2> QED
    BY <1>1, <2>1, CallbackRefines
<1> QED
  BY <1>2, <1>3

\* The end of the last part.
LEMMA PartsDoneRefines ==
  ASSUME IInv, IInv', NEW c \in Ctx, PartsDone(c)
  PROVE  Contract!End \/ (\E t \in Txn : Contract!Callback(t)) \/ UNCHANGED AbsVars
<1>1. /\ pc[c] = "send" /\ inCall' = inCall /\ ret' = ret /\ pCurrTxn' = pCurrTxn
      /\ deferred' = deferred /\ (bus' = bus \/ bus' = bus \ {pCurrTxn})
  BY DEF PartsDone, partVars, TxnDoneCallback
<1>2. CASE inCall[c]
  <2>1. bus = {}
    BY <1>1, <1>2 DEF IInv, SyncInv, Sending
  <2>2. pc' = [pc EXCEPT ![c] = "return"]
    BY <1>2 DEF PartsDone, Leave
  <2> QED
    BY <1>1, <1>2, <2>1, <2>2, LeaveRefines DEF Sending
<1>3. CASE ~inCall[c]
  <2>1. deferred /\ bus = {pCurrTxn}
    BY <1>1, <1>3 DEF IInv, ContInv, Sending
  <2> QED
    BY <1>1, <2>1, CallbackRefines
<1> QED
  BY <1>2, <1>3

\* The call returns what was decided, unless the SDIO thread has been refused a part
\* meanwhile and has overwritten the status with its error.
LEMMA ReturnRefines ==
  ASSUME IInv, IInv', NEW c \in Ctx, Return(c)
  PROVE  Contract!Return \/ RefusalReturned
<1>1. pc[c] = "return" /\ inCall[c]
  BY DEF Return, IInv, CallInv
<1>2. Calling /\ CallOf = pCurrTxn /\ CallOf # NoTxn /\ OutcomeOf # "none"
  BY <1>1, Mapped
<1>3. ~Calling'
  BY <1>1 DEF Return, Calling, IInv, CallInv, CtxTypes, Ctx
<1>4. CallOf' = NoTxn /\ OutcomeOf' = "none"
  BY <1>3 DEF CallOf, OutcomeOf
<1>5. CASE OutcomeOf = eCurrTxnStatus
  <2>1. ret' = <<CallOf, OutcomeOf>> /\ bus' = bus
    BY <1>2, <1>5 DEF Return
  <2> QED
    BY <1>2, <1>4, <2>1 DEF Contract!Return, CallOf, OutcomeOf
<1>6. CASE OutcomeOf # eCurrTxnStatus
  <2>1. deferred /\ OutcomeOf = "PENDING"
    BY <1>1, <1>6, Mapped
  <2>2. eCurrTxnStatus = "ERROR" /\ param = "ERROR"
    BY <1>1, <1>6, <2>1 DEF IInv, ReturnInv
  <2> QED
    BY <2>1, <2>2 DEF RefusalReturned
<1> QED
  BY <1>5, <1>6

\* Every step is one of the contract's, or changes nothing that it names, or returns
\* a refusal.
LEMMA StepRefines ==
  ASSUME IInv, IInv', [Next]_vars
  PROVE  Contract!Next \/ RefusalReturned \/ UNCHANGED AbsVars
<1>1. CASE UNCHANGED vars
  BY <1>1 DEF vars, AbsVars, CallOf, OutcomeOf, Calling
<1>2. ASSUME NEW c \in Ctx, SendTxnParts(c) PROVE Contract!Next \/ RefusalReturned \/ UNCHANGED AbsVars
  BY <1>2, SendPartRefines, PartResultRefines, PartsDoneRefines, ReturnRefines
     DEF SendTxnParts, Contract!Next
<1>3. ASSUME NEW c \in Ctx, NEW t \in Txn, Transact(c, t) PROVE Contract!Next
  BY <1>3, TransactRefines DEF Contract!Next
<1>4. CASE TxnDoneOk \/ TxnDoneError
  <2>1. deferred /\ bus = {pCurrTxn}
    BY <1>4 DEF TxnDoneOk, TxnDoneError, IInv, BusInv
  <2>2. /\ deferred' = deferred /\ inCall' = inCall /\ ret' = ret /\ pCurrTxn' = pCurrTxn
        /\ bus' = bus \/ bus' = bus \ {pCurrTxn}
    BY <1>4 DEF TxnDoneOk, TxnDoneError, partVars, TxnDoneCallback
  <2> QED
    BY <2>1, <2>2, CallbackRefines DEF Contract!Next
<1> QED
  BY <1>1, <1>2, <1>3, <1>4 DEF Next

\* In every interleaving of the two threads, and whatever parts fail or are refused
\* on either of them, what busDrv_Transact returns and whether the callback comes
\* agree as BusDrv.h has it, with one exception: a part that is refused on the SDIO
\* thread before the deferring call has returned is reported twice, as an error both
\* times.
THEOREM ContractKept == Spec => ImplementsBusDrv
<1>1. Init => Contract!Init
  BY DEF Init, Contract!Init, Calling
<1>2. IInv /\ IInv' /\ [Next]_vars => [Contract!Next \/ RefusalReturned]_AbsVars
  BY StepRefines
<1>3. IInv /\ IInv' /\ [Next]_vars => [Contract!Next \/ RefusalReturned]_(Contract!vars)
  BY <1>2 DEF AbsVars, CallOf, OutcomeOf, Contract!vars
<1> QED
  BY <1>1, <1>3, Inductive, PTL DEF Spec, ImplementsBusDrv

==============================================================================

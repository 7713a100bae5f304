------------------------------ MODULE SdioBusDrv ------------------------------
(***************************************************************************)
(* The SDIO bus driver, Txn/SdioBusDrv.c, over the SDIO adapter            *)
(* (platforms/hw/host_platform_zoom2/linux/SdioAdapter.c).                 *)
(*                                                                         *)
(* A transaction is sent as at most two SDIO transfers: the remainder of   *)
(* its length in byte mode, then the full blocks in block mode.  Short     *)
(* transfers are synchronous; longer ones end in busDrv_TxnDoneCb, on the  *)
(* SDIO work queue's thread, which goes on with the remaining parts.       *)
(***************************************************************************)
EXTENDS Naturals, Sequences

CONSTANTS
  Txn, NoTxn,
  LenOf,       \* total length of each transaction's buffers
  SingleStep,  \* ELP writes
  AggregOn,    \* packets that are only accumulated
  BlkSize,     \* pBusDrv->uBlkSize
  MaxAggregLen,\* what txXfer accumulates at most (uAggregMaxLen)
  SyncThresh   \* SYNC_ASYNC_LENGTH_THRESH

ASSUME BusDrvAssumption ==
  /\ NoTxn \notin Txn
  /\ LenOf \in [Txn -> Nat \ {0}]
  /\ SingleStep \subseteq Txn /\ AggregOn \subseteq Txn \ SingleStep
  /\ BlkSize \in Nat \ {0} /\ SyncThresh \in 1 .. BlkSize
  /\ MaxAggregLen \in Nat
  /\ \A t \in SingleStep : LenOf[t] < BlkSize

VARIABLES
  pCurrTxn,                \* the transaction being sent
  aTxnParts,               \* its parts: [bBlkMode, uLength, offset]
  uCurrTxnPartsCount,      \* parts submitted
  uCurrTxnPartsCountSync,  \* parts that ended in the submitting call
  eCurrTxnStatus,
  uTxnLength,              \* bytes accumulated in the DMA buffer
  param,                   \* status field of the current transaction
  hw,                      \* the transfer in progress in the controller
  pc,                      \* per context: next step
  inCall,                  \* per context: executing busDrv_Transact
  eStatus,                 \* per context: result of the last submission
  bus,                     \* transactions whose callback is still to come
  ret,                     \* last transaction returned and its status
  moved,                   \* bytes the controller has transferred of the current one
  total,                   \* bytes it has
  deferred                 \* the current call went asynchronous

vars == <<pCurrTxn, aTxnParts, uCurrTxnPartsCount, uCurrTxnPartsCountSync, eCurrTxnStatus,
          uTxnLength, param, hw, pc, inCall, eStatus, bus, ret, moved, total, deferred>>

partVars == <<pCurrTxn, aTxnParts, uTxnLength, total>>

Ctx == {"Driver", "TxnDone"}

Part(blk, len, off) == [bBlkMode |-> blk, uLength |-> len, offset |-> off]

\* Mutant: the remainder is not sent when there are full blocks.
PrepareBlocksOnly(n) ==
  <<IF n >= BlkSize THEN Part(TRUE, n - (n % BlkSize), 0) ELSE Part(FALSE, n, 0)>>

\* busDrv_PrepareTxnParts: the table for a buffer of n bytes.
PrepareTxnParts(n) ==
  LET rem == n % BlkSize
  IN (IF rem > 0 THEN <<Part(FALSE, rem, 0)>> ELSE <<>>)
     \o (IF n >= BlkSize THEN <<Part(TRUE, n - rem, rem)>> ELSE <<>>)

Init ==
  /\ pCurrTxn = NoTxn
  /\ aTxnParts = <<>>
  /\ uCurrTxnPartsCount = 0
  /\ uCurrTxnPartsCountSync = 0
  /\ eCurrTxnStatus = "COMPLETE"
  /\ uTxnLength = 0
  /\ param = "OK"
  /\ hw = "idle"
  /\ pc = [c \in Ctx |-> "idle"]
  /\ inCall = [c \in Ctx |-> FALSE]
  /\ eStatus = [c \in Ctx |-> "COMPLETE"]
  /\ bus = {}
  /\ ret = <<NoTxn, "none">>
  /\ moved = 0
  /\ total = 0
  /\ deferred = FALSE

\* The transaction queue's guarantee: one call at a time, none while a
\* callback is still to come.
BusIdle == bus = {} /\ \A c \in Ctx : ~inCall[c]

\* busDrv_Transact of a packet within an aggregation: accumulate it.
Aggregate(c, t) ==
  /\ t \in AggregOn
  /\ uTxnLength' = uTxnLength + LenOf[t]
  /\ ret' = <<t, "COMPLETE">>
  /\ UNCHANGED <<aTxnParts, pc, inCall, moved, total>>

\* busDrv_Transact of anything else: prepare its parts.
Prepare(c, t) ==
  /\ t \notin AggregOn
  /\ aTxnParts' = PrepareTxnParts(uTxnLength + LenOf[t])
  /\ uTxnLength' = 0
  /\ total' = uTxnLength + LenOf[t]
  /\ moved' = 0
  /\ inCall' = [inCall EXCEPT ![c] = TRUE]
  /\ pc' = [pc EXCEPT ![c] = "send"]
  /\ UNCHANGED ret

\* An aggregation is one burst: nothing else is called within it.
Transact(c, t) ==
  /\ pc[c] = "idle"
  /\ BusIdle
  /\ t \in SingleStep => uTxnLength = 0
  /\ t \in AggregOn => uTxnLength + LenOf[t] <= MaxAggregLen
  /\ pCurrTxn' = t
  /\ uCurrTxnPartsCount' = 0
  /\ uCurrTxnPartsCountSync' = 0
  /\ param' = "OK"
  /\ deferred' = FALSE
  /\ Aggregate(c, t) \/ Prepare(c, t)
  /\ UNCHANGED <<eCurrTxnStatus, hw, eStatus, bus>>

-----------------------------------------------------------------------------
(* busDrv_SendTxnParts, in the caller's context or on the SDIO thread. *)

Leave(c) == pc' = [pc EXCEPT ![c] = IF inCall[c] THEN "return" ELSE "idle"]

\* Mutant: the callback is forgotten.
NoCallback == UNCHANGED bus

\* fTxnDoneCb: the transaction queue's completion callback.
TxnDoneCallback == bus' = bus \ {pCurrTxn}

CurrPart == aTxnParts[uCurrTxnPartsCount + 1]

Attempt == {"COMPLETE", "ERROR"}

\* Mutant: the adapter's return code instead of a transaction status.
SingleStepRawCode == {"COMPLETE", "NOK"}

\* ELP writes are byte transfers, tried again once if the first one fails.
SingleStepOutcome == {IF first = "ERROR" THEN second ELSE first : first \in Attempt, second \in Attempt}

\* sdioAdapt_Transact: synchronous below the threshold.  The controller may refuse
\* any part, those that the SDIO thread submits included.
SubmitOutcome(part) == IF part.uLength < SyncThresh THEN Attempt ELSE {"PENDING", "ERROR"}

\* Mutant: the status is left as it was.
StatusKept == eCurrTxnStatus

\* What busDrv_SendTxnParts assumes of a part before it submits it, in case it
\* is preempted by the completion.
AssumedStatus == "PENDING"

SendPart(c) ==
  /\ pc[c] = "send"
  /\ uCurrTxnPartsCount < Len(aTxnParts)
  /\ uCurrTxnPartsCount' = uCurrTxnPartsCount + 1
  /\ eCurrTxnStatus' = AssumedStatus
  /\ \E s \in IF pCurrTxn \in SingleStep THEN SingleStepOutcome ELSE SubmitOutcome(CurrPart) :
       /\ eStatus' = [eStatus EXCEPT ![c] = s]
       /\ IF s = "PENDING"
            THEN /\ hw' = "busy"
                 /\ Leave(c)
                 /\ IF inCall[c] THEN bus' = {pCurrTxn} /\ deferred' = TRUE
                                 ELSE UNCHANGED <<bus, deferred>>
            ELSE /\ pc' = [pc EXCEPT ![c] = "result"]
                 /\ UNCHANGED <<hw, bus, deferred>>
       /\ moved' = IF s = "COMPLETE" THEN moved + CurrPart.uLength ELSE moved
  /\ UNCHANGED <<partVars, uCurrTxnPartsCountSync, param, inCall, ret>>

AllSync == uCurrTxnPartsCountSync' = uCurrTxnPartsCount

\* A part that ended in the submitting call.
PartResult(c) ==
  /\ pc[c] = "result"
  /\ eCurrTxnStatus' = eStatus[c]
  /\ uCurrTxnPartsCountSync' = uCurrTxnPartsCountSync + 1
  /\ IF eStatus[c] = "ERROR"
       THEN /\ param' = "ERROR"
            /\ IF AllSync THEN UNCHANGED bus ELSE TxnDoneCallback
            /\ Leave(c)
       ELSE /\ pc' = [pc EXCEPT ![c] = "send"]
            /\ UNCHANGED <<param, bus>>
  /\ UNCHANGED <<partVars, uCurrTxnPartsCount, hw, inCall, eStatus, ret, moved, deferred>>

\* All parts are sent.
PartsDone(c) ==
  /\ pc[c] = "send"
  /\ uCurrTxnPartsCount = Len(aTxnParts)
  /\ IF uCurrTxnPartsCountSync = uCurrTxnPartsCount THEN UNCHANGED bus ELSE TxnDoneCallback
  /\ Leave(c)
  /\ UNCHANGED <<partVars, uCurrTxnPartsCount, uCurrTxnPartsCountSync, eCurrTxnStatus, param,
                 hw, inCall, eStatus, ret, moved, deferred>>

\* busDrv_Transact returns the status field, whatever thread wrote it last.
Return(c) ==
  /\ pc[c] = "return"
  /\ ret' = <<pCurrTxn, eCurrTxnStatus>>
  /\ inCall' = [inCall EXCEPT ![c] = FALSE]
  /\ pc' = [pc EXCEPT ![c] = "idle"]
  /\ UNCHANGED <<partVars, uCurrTxnPartsCount, uCurrTxnPartsCountSync, eCurrTxnStatus, param,
                 hw, eStatus, bus, moved, deferred>>

-----------------------------------------------------------------------------
\* busDrv_TxnDoneCb, called on the SDIO thread when a transfer has ended.
TxnDoneOk ==
  /\ hw = "busy" /\ pc["TxnDone"] = "idle"
  /\ hw' = "idle"
  /\ moved' = moved + aTxnParts[uCurrTxnPartsCount].uLength
  /\ pc' = [pc EXCEPT !["TxnDone"] = "send"]
  /\ UNCHANGED <<partVars, uCurrTxnPartsCount, uCurrTxnPartsCountSync, eCurrTxnStatus, param,
                 inCall, eStatus, bus, ret, deferred>>

TxnDoneError ==
  /\ hw = "busy" /\ pc["TxnDone"] = "idle"
  /\ hw' = "idle"
  /\ param' = "ERROR"
  /\ TxnDoneCallback
  /\ UNCHANGED <<partVars, uCurrTxnPartsCount, uCurrTxnPartsCountSync, eCurrTxnStatus, pc,
                 inCall, eStatus, ret, moved, deferred>>

SendTxnParts(c) == SendPart(c) \/ PartResult(c) \/ PartsDone(c) \/ Return(c)

Next ==
  \/ \E c \in Ctx, t \in Txn : Transact(c, t)
  \/ \E c \in Ctx : SendTxnParts(c)
  \/ TxnDoneOk \/ TxnDoneError

\* Both threads run and the controller ends every transfer, well or not.
Spec == Init /\ [][Next]_vars /\ (\A c \in Ctx : WF_vars(SendTxnParts(c))) /\ WF_vars(TxnDoneOk \/ TxnDoneError)

-----------------------------------------------------------------------------
(* Properties. *)

\* Every variable has the type its declaration in TBusDrvObj gives it, and no
\* more parts are counted as sent, or as sent synchronously, than there are.
TypeOK ==
  /\ pCurrTxn \in Txn \cup {NoTxn}
  /\ aTxnParts \in Seq([bBlkMode : BOOLEAN, uLength : Nat, offset : Nat])
  /\ uCurrTxnPartsCount \in 0 .. Len(aTxnParts)
  /\ uCurrTxnPartsCountSync \in 0 .. uCurrTxnPartsCount
  /\ eCurrTxnStatus \in {"COMPLETE", "PENDING", "ERROR"}
  /\ uTxnLength \in 0 .. MaxAggregLen
  /\ param \in {"OK", "ERROR"}
  /\ hw \in {"idle", "busy"}
  /\ pc \in [Ctx -> {"idle", "send", "result", "return"}]
  /\ inCall \in [Ctx -> BOOLEAN]
  /\ eStatus \in [Ctx -> {"COMPLETE", "PENDING", "ERROR"}]
  /\ bus \subseteq Txn

Calling == \E c \in Ctx : inCall[c]

Contract == INSTANCE BusDrv WITH
  call <- IF Calling THEN pCurrTxn ELSE NoTxn,
  outcome <- IF ~Calling THEN "none"
             ELSE IF deferred THEN "PENDING"
             ELSE IF \E c \in Ctx : pc[c] = "return" THEN eCurrTxnStatus
             ELSE "none"

\* The exception to the contract: the controller has refused a part on the SDIO
\* thread before the call that deferred the transaction has returned.  The call
\* then returns the error that the SDIO thread has written, and the callback
\* comes as well; at least both report the transaction as failed.
RefusalReturned ==
  /\ deferred /\ eCurrTxnStatus = "ERROR" /\ param = "ERROR"
  /\ \E c \in Ctx : Return(c)

\* The SDIO bus driver keeps the contract the transaction queue relies on: what
\* busDrv_Transact returns and whether the callback comes agree, whatever parts
\* fail or are refused, with one exception, RefusalReturned.
ImplementsBusDrv == Contract!Init /\ [][Contract!Next \/ RefusalReturned]_(Contract!vars)

\* A transaction reported as successful, by return value or by callback, has
\* had all of its bytes transferred, whatever mix of synchronous and
\* asynchronous parts it was sent in.
OkMeansTransferred ==
  [][(\/ bus # {} /\ bus' = {} /\ param' = "OK"
      \/ ret' # ret /\ ret'[2] = "COMPLETE" /\ ret'[1] \notin AggregOn)
     => moved' = total]_vars

\* Every call ends, and every deferred transaction is called back.
EveryCallEnds == Calling \/ bus # {} ~> ~Calling /\ bus = {}
==============================================================================

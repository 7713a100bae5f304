-------------------------------- MODULE BusDrv --------------------------------
(***************************************************************************)
(* What the transaction queue relies on from a bus driver (Txn/BusDrv.h).  *)
(* A call of busDrv_Transact returns the outcome of the transaction, and   *)
(* nothing follows, or it returns PENDING, and then the completion         *)
(* callback is called once - possibly before the call has returned.        *)
(***************************************************************************)
CONSTANTS Txn, NoTxn

VARIABLES
  call,      \* the transaction whose call has not returned
  outcome,   \* how that call will return, once it is decided
  bus,       \* transactions whose callback is still to come
  ret        \* the last transaction returned, and its status

vars == <<call, outcome, bus, ret>>

Init == call = NoTxn /\ outcome = "none" /\ bus = {} /\ ret = <<NoTxn, "none">>

Call(t) ==
  /\ call = NoTxn /\ bus = {}
  /\ call' = t /\ outcome' = "none"
  /\ UNCHANGED <<bus, ret>>

\* The transaction will not end in the context of the call.
Defer ==
  /\ call # NoTxn /\ outcome = "none"
  /\ outcome' = "PENDING" /\ bus' = {call}
  /\ UNCHANGED <<call, ret>>

End ==
  /\ call # NoTxn /\ outcome = "none"
  /\ outcome' \in {"COMPLETE", "ERROR"}
  /\ UNCHANGED <<call, bus, ret>>

Return ==
  /\ call # NoTxn /\ outcome # "none"
  /\ ret' = <<call, outcome>>
  /\ call' = NoTxn /\ outcome' = "none"
  /\ UNCHANGED bus

Callback(t) ==
  /\ t \in bus
  /\ bus' = {}
  /\ UNCHANGED <<call, outcome, ret>>

\* A packet of an aggregation is only copied, and reported at once.
Absorb(t) ==
  /\ call = NoTxn /\ bus = {}
  /\ ret' = <<t, "COMPLETE">>
  /\ UNCHANGED <<call, outcome, bus>>

Next ==
  \/ \E t \in Txn : Call(t) \/ Callback(t) \/ Absorb(t)
  \/ Defer \/ End \/ Return

Spec == Init /\ [][Next]_vars
====

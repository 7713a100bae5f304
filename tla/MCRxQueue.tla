------------------------------- MODULE MCRxQueue -------------------------------
(***************************************************************************)
(* An instance of RxQueue for TLC: one long and one short flow of packets. *)
(***************************************************************************)
EXTENDS RxQueue

MCMaxSeq == [t \in Tid |-> IF t = 1 THEN 4 ELSE 2]
MCWinSizes == [t \in Tid |-> IF t = 1 THEN {0, 2} ELSE {9}]
==============================================================================

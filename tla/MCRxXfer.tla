------------------------------- MODULE MCRxXfer -------------------------------
(***************************************************************************)
(* Instances of RxXfer for TLC.                                            *)
(***************************************************************************)
EXTENDS RxXfer
==============================================================================

------------------------------- MODULE MCDrvMain -------------------------------
(***************************************************************************)
(* Instance of DrvMain for TLC.                                            *)
(***************************************************************************)
EXTENDS DrvMain
==============================================================================

-------------------------------- MODULE MCTwIf --------------------------------
(***************************************************************************)
(* Instances of TwIf for TLC.                                              *)
(***************************************************************************)
EXTENDS TwIf
==============================================================================

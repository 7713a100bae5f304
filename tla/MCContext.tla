------------------------------- MODULE MCContext -------------------------------
(* The instance of Context for TLC: two clients and two requesting threads. *)
EXTENDS Context
================================================================================

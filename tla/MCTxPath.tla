------------------------------- MODULE MCTxPath -------------------------------
(***************************************************************************)
(* An instance of TxPath for TLC.  Packets, and what the connection, the   *)
(* admission and the recovery do, are bounded in number: MaxPackets fill   *)
(* the firmware and more, MaxEvents open the link and change something     *)
(* twice after that.                                                       *)
(***************************************************************************)
EXTENDS TxPath

CONSTANTS MaxPackets, MaxEvents

VARIABLES packets, events

MCThresh == [BE |-> 0, BK |-> 0, VI |-> 0, VO |-> 3]
MCQueueMax == [q \in Queues |-> IF q = "MGMT" THEN 1 ELSE 2]
MCPaceThresh == [BE |-> 2, BK |-> 1, VI |-> 1, VO |-> 1]
MCSources == {"BE", "EAPOL", "MGMT"}
MCAdmissions == {[required |-> {}, admitted |-> {}], [required |-> {"VI", "VO"}, admitted |-> {}]}

MCInit == PathInit /\ packets = 0 /\ events = 0

MCNext ==
  \/ packets < MaxPackets /\ Packet /\ packets' = packets + 1 /\ UNCHANGED events
  \/ events < MaxEvents /\ Event /\ events' = events + 1 /\ UNCHANGED packets
  \/ (Firmware \/ Driver) /\ UNCHANGED <<packets, events>>

MCSpec == MCInit /\ [][MCNext]_<<vars, packets, events>>
==============================================================================

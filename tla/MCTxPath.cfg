SPECIFICATION MCSpec
CONSTANTS
  NumTotalBlks = 6
  Thresh <- MCThresh
  Descs = 2
  BlkMod = 9
  CtrMod = 3
  Lens = {40}
  QueueMax <- MCQueueMax
  PaceThresh <- MCPaceThresh
  Sources <- MCSources
  Admissions <- MCAdmissions
  FwFrees = {3}
  MaxPackets = 3
  MaxEvents = 3
INVARIANTS
  ResourcesAccounted
  StoppedForAReason
  NoPacketStranded
CHECK_DEADLOCK FALSE

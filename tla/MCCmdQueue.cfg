SPECIFICATION FairSpec
CONSTANTS
  Cmd = {c1, c2, c3, cf}
  NoCmd = NoCmd
  Callback = {c1, c2, cf}
  Config = cf
  Depth = 2
  MaxFaults = 2
  MaxStops = 2
INVARIANT QueueConsistent
INVARIANT AwakeBalanced
INVARIANT CalledBackOnce
PROPERTY CommandAnswered
PROPERTY ReconfigEnds
CHECK_DEADLOCK FALSE

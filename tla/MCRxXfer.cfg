SPECIFICATION Spec
CONSTANTS
  NumDesc = 3
  NumTxn = 6
  MaxAggregPkts = 2
  FwWindow = 2
  MaxPkts = 7
  MaxErrors = 1
  MaxRestarts = 0
INVARIANT NoPacketForgotten
INVARIANT NoPacketLeft
PROPERTY ForwardedInOrder
CHECK_DEADLOCK FALSE

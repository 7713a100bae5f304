SPECIFICATION RxQueueSpec
CONSTANTS
  Tid = {1, 2}
  SnMod = 18
  ArraySize = 3
  WinSizes <- MCWinSizes
  FirstSn = 16
  MaxSeq <- MCMaxSeq
INVARIANT StoreConsistent
INVARIANT TimerGuardsStored
PROPERTY DeliveredInOrder
CHECK_DEADLOCK FALSE

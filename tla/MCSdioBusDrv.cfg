CONSTANTS
  Txn = {"elp", "a", "t2", "t3", "t4", "t5", "t7"}
  NoTxn = NoTxn
  LenOf <- MCLenOf
  SingleStep = {"elp"}
  AggregOn = {"a"}
  BlkSize = 4
  SyncThresh = 3
  MaxAggregLen = 6
SPECIFICATION Spec
INVARIANT TypeOK
PROPERTIES
  ImplementsBusDrv
  OkMeansTransferred
  EveryCallEnds

CHECK_DEADLOCK FALSE
CONSTANTS
  Txn = {"elp", "low", "high"}
  NoTxn = NoTxn
  Func = {2}
  Prio = {0, 1}
  FuncOf <- MCFuncOf
  PrioOf <- MCPrioOf
  SingleStep = {"elp"}
  AggregOn = {}
  MaxCalls = 7
SPECIFICATION LiveSpec
PROPERTIES
  Served
  RestartEnds

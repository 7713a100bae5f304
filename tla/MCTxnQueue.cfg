CONSTANTS
  Txn = {"elp", "agg", "low", "high"}
  NoTxn = NoTxn
  Func = {2}
  Prio = {0, 1}
  FuncOf <- MCFuncOf
  PrioOf <- MCPrioOf
  SingleStep = {"elp"}
  AggregOn = {"agg"}
SPECIFICATION Spec
INVARIANTS
  TypeOK
  SchedulerNotReentered
  BusCalledWhenIdle
  AggregationNotMixed
  NothingLostOrDuplicated
  NoWorkLeftBehind
PROPERTY
  ImplementsService

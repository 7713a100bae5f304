SPECIFICATION Spec
CONSTANTS
  Txn = {r1, r2, w1}
  NoTxn = NoTxn
  WithCb = {r1, r2}
  MaxAwake = 1
  MaxRestarts = 1
  MaxErrors = 1
  BusDies = TRUE
  GuardRaces = TRUE
  LateReport = TRUE
  StrayInterrupt = TRUE
INVARIANT PendingCounted
PROPERTY BusNeedsAwakeDevice
CHECK_DEADLOCK FALSE

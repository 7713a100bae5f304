SPECIFICATION FairSpec
CONSTANTS
  Txn = {r1, r2}
  NoTxn = NoTxn
  WithCb = {r1, r2}
  MaxAwake = 0
  MaxRestarts = 0
  MaxErrors = 1
  BusDies = FALSE
  GuardRaces = FALSE
  LateReport = FALSE
  StrayInterrupt = TRUE
PROPERTY TransactionEnds
PROPERTY IdleSleeps
PROPERTY RestartEnds
CHECK_DEADLOCK FALSE

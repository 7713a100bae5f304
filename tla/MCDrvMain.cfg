SPECIFICATION FairSpec
CONSTANTS
  Action = {a1, a2}
  NoAction = NoAction
  MaxRecoveries = 2
  Chunks = 2
  MaxFaults = 2
INVARIANTS
  PowerFollowsState
  CompletionsExpected
PROPERTIES
  UserActionFits
  ActionAnswered
  RecoveryEnds
CHECK_DEADLOCK FALSE

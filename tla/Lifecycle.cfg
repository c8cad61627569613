SPECIFICATION FairSpec
CONSTANTS
  MaxActs = 5
  MaxFaults = 3
INVARIANTS OneInstance StopWins NothingForgotten
PROPERTIES RecoveredFirst ServedAgain
CHECK_DEADLOCK FALSE

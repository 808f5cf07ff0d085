SPECIFICATION FairSpec
CONSTANTS
  FIXED_ID = FALSE
  STARTS = 2
  BREAKS = 0
PROPERTY ConnectedIsAlive
CHECK_DEADLOCK FALSE

SPECIFICATION MCSpec
CONSTANTS
  Sink = {"risk", "blur"}
  maxQueueSize = 2
  FRAMES <- MCFrames
  ringCapacity = 3
  backoffInitialSec = 1
  backoffMaxSec = 2
  PACKETS = 6
  FIXED_ID = TRUE
  STARTS = 3
  BREAKS = 2
INVARIANTS AllAccounted ListenersAreLive NobodySleepsOnWork StopIsPrompt RingIsNewest ActiveIsAlive
PROPERTIES ShutdownReturns AliveIsTrue StopReturns PacketsAreTaken
CHECK_DEADLOCK FALSE

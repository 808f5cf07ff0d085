SPECIFICATION FairSpec
CONSTANTS
  ringCapacity = 2
  backoffInitialSec = 1
  backoffMaxSec = 2
  PACKETS = 3
PROPERTY SilentCameraIsLeft
CHECK_DEADLOCK FALSE

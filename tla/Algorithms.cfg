SPECIFICATION MCSpec
CONSTANTS
  Byte = {0, 1, 2, 3}
  VEDA_START_BYTE = 1
  VEDA_END_BYTE = 2
  PAYLOAD_LEN = 2
  RESYNC = TRUE
  Gid = {1}
  Pos = {0, 1, 2, 3}
  Space = {0, 1, 2}
  Near <- MCNear
  stationaryDuration = 3
  maxObservationGap = 2
  Channel = {0, 1}
  Skew <- MCSkew
  STEP = {1, 2, 3}
  END = 9
  NONE = NONE
  N = 3
  channelCount = 2
  Dist = {0, 1, 2, 3}
  dangerousDistance = 1
  warningDistance = 2
  Vehicle = {1, 2}
  Class = {"Human", "Car"}
  World <- MCWorld
  dedupMergeDistance = 48
  trackMaxDistance = 192
  positionJitterRadius = 24
  kMaxMissedWindows = 1
  WINDOWS = 5
  ODDITIES = 2
INVARIANTS SilenceHeals GidIsOneObject CoastsThenExpires HiddenMeansStill StillIsHidden InvolvedAreMarked ZoneIsWorst
PROPERTIES CrossingKeepsGid NeverLowered
CHECK_DEADLOCK FALSE

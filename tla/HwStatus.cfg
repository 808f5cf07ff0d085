SPECIFICATION FairSpec
CONSTANTS
  Channel = {0}
  Indicator = {0}
  OFF = 0
  missedBeatsForTimeout = 1
  INBOX = 1
  UNKNOWN = UNKNOWN
INVARIANTS AgreesUnlessClash RetainedUnlessStale
PROPERTIES SilenceIsNoticed CameraIsTracked

SPECIFICATION FairSpec
CONSTANTS
  Channel = {0}
  Output = {"dark", "red"}
  DARK = "dark"
  maximumRecentReportKeys = 2
  Central = {}
  AliveType = {}
  LATE <- MCNewer
  TIMES = 3
  MESSAGES = 2
  NONE = NONE
PROPERTY LatestAfterReconnect
CHECK_DEADLOCK FALSE

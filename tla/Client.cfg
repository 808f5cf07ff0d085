SPECIFICATION MCSpec
CONSTANTS
  Channel = {0}
  Output = {"dark", "red"}
  DARK = "dark"
  maximumRecentReportKeys = 1
  Central <- MCCentral
  LATE = 1
  AliveType = {"offline"}
  TIMES = 2
  MESSAGES = 3
  NONE = NONE
  initialPacketTimeout = 2
  initialFrameTimeout = 2
  stallTimeout = 2
  maximumReconnectDelay = 2
  authenticationFailureReconnectDelay = 3
  minimumLoading = 1
  maximumBackoffStep = 1
PROPERTIES PanelNeverGoesBack ShownCatchesUp PublishedIsShown VideoComesBack
CHECK_DEADLOCK FALSE

SPECIFICATION Spec
CONSTANTS
  CHANNEL_COUNT = 3
  CHANNELS_PER_SLAVE = 1
  SCHED_BACKOFF = 8
  SCHED_REFRESH = 9
  RETRY_MOD = 3
  ACK_TIMEOUT = 2
  EventRisks <- MCEventRisks
  Watched = 2
INVARIANTS DangerServedInTime DeadBoardsDoNotStarve

SPECIFICATION MCSpec
CONSTANTS
  CHANNEL_COUNT = 1
  CHANNELS_PER_SLAVE = 2
  SCHED_BACKOFF = 3
  SCHED_REFRESH = 4
  RETRY_MOD = 3
  ACK_TIMEOUT = 2
  ACK_DELAY = 1
  ACK_QUEUE_DEPTH = 3
  EventChannels = {0, 9}
  EventRisks = {0, 2, 7}
  NOISE = {0, 1, 2}
  ServerRisk = {0, 2}
  SERVER_NOISE = {0}
  SERVER_IDLE = 253
  NOTHING = 255
  mismatchRetryCount = 1
  LINK_DEPTH = 2
INVARIANT NewestIsLastSent
PROPERTIES ServerNeverSilentlyWrong ServerFaultClears SegmentConverges

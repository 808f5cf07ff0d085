SPECIFICATION Spec
CONSTANTS
  CHANNEL_COUNT = 2
  CHANNELS_PER_SLAVE = 2
  SCHED_BACKOFF = 2
  SCHED_REFRESH = 3
  RETRY_MOD = 2
  ACK_TIMEOUT = 1
  ACK_DELAY = 1
  ACK_QUEUE_DEPTH = 3
  EventChannels <- MCEventChannels
  EventRisks <- MCEventRisks
  NOISE = {0}
PROPERTIES AppliedIsConfirmed KeepsPromise

SPECIFICATION FairSpec
CONSTANTS
  Channel = {0, 1}
  kMaxQueuedMessages = 2
  windowSize = 2
  pipelineTime = 3
  MESSAGES = 4
INVARIANTS WindowClosesInTime NewestSurvives StopLeavesNothing
PROPERTIES DeliveredOnce StopReturns

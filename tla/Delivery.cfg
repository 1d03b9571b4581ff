SPECIFICATION FairSpec
CONSTANTS
  MaxRows = 2
  Channels <- MCChannels
  Configs <- NativeOrBoth
  retryBackoff <- OneRetry
  Minute = 1
  sendTimeout = 0
  MaxSetBack = 1
  Outlives = {}
INVARIANTS TypeOK DueIsCurrent GivenUpAfterEveryRetry ShownOnceUnlessExcused ArmedForQueue
PROPERTIES FirstAttemptsInOrder EveryNotificationSettles

SPECIFICATION FairSpec
CONSTANTS
  MaxRows = 2
  Channels <- MCChannels
  Configs <- Both
  retryBackoff <- OneRetry
  Minute = 1
  sendTimeout = 0
  MaxSetBack = 0
  Outlives <- CommandOnly
PROPERTY EveryNotificationSettles

SPECIFICATION Spec
CONSTANTS
  MaxRows = 2
  Channels <- MCChannels
  Configs <- NativeOnly
  retryBackoff <- TwoRetries
  Minute = 1
  sendTimeout = 1
  MaxSetBack = 0
  Outlives = {}
PROPERTY NewerReplacesOlder

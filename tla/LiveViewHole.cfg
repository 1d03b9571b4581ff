SPECIFICATION Spec
CONSTANTS
  Start = 10
  MaxTime = 12
  BufferSize = 1
  MaxRequests = 1
  MaxChanges = 2
  retention = 4
  COLLECT_INTERVAL = 1
  TARGET_POINTS = 2
  MIN_SPAN = 2
  FirstSpan = 2
  FirstMaxSpan = 4
  Spans <- MCSpans
INVARIANT LiveHistoryIsComplete

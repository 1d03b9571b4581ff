SPECIFICATION FairSpec
CONSTANTS
  MaxSends = 2
  ClickCap = 2
  MaxBlocks = 2
  Scenarios <- MenuOrSends
INVARIANTS TypeOK IgnoreFindsEngine ChecksAreTrue RestingIconIsUpright AnswersReachTheirRequest
PROPERTIES AnswersAreTaken EndsWhenAsked
CHECK_DEADLOCK FALSE

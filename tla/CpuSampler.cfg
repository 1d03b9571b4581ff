SPECIFICATION FairSpec
CONSTANTS
  Pids <- MCPids
  Names <- MCNames
  NoName = NoName
  NamesOf <- BothPython
  Fold <- LowerCase
  Duration = 2
  Ignorable <- Python
INVARIANT TypeOK
PROPERTIES BeginsAfterSustainedLoad OngoingLoadKeepsAlert EndedLoadIsResolved LastingLoadIsReported IgnoredIsResolved

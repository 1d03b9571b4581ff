SPECIFICATION Spec
CONSTANTS
  Pids <- OneProcess
  Names <- OneName
  NoName = NoName
  NamesOf <- Ffmpeg
  Fold <- LowerCase
  Duration = 2
  Ignorable <- OneName
PROPERTY IgnoredIsNeverReported

SPECIFICATION VFairSpec
CONSTANTS
  native = native
  Disks <- MCDisks
  Mount <- MCMount
  BlockDevice <- MCDisks
  RealFs <- MCDisks
  Large <- MCDisks
  Usage <- MCUsage
  WarnPercent = 90
  CriticalPercent = 95
  Repeat = 1
  Retention = 0
  Channels = {native}
  MaxTime = 1
INVARIANTS TypeOK MemoryMatchesTable LevelWasAnnounced NotifiedIsQueued
PROPERTIES Hysteresis KeepsContract FullVolumeIsReported FreedVolumeIsResolved ReminderComes LeftOutVolumeIsReportedAgain

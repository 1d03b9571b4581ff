SPECIFICATION Spec
CONSTANTS
  Names <- MCNames
  Retentions <- MCRetentions
  UserFiles <- MCUserFiles
INVARIANTS TypeOK RestartChangesNothing
PROPERTIES BrokenFileIsKept KeepsConfigContract

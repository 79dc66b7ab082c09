CONSTANTS
  Characters <- MCCharacters
  Alphanumeric <- MCAlphanumeric
  Variables <- MCVariables
  Located <- MCLocated
  Misread <- MCMisread
  MaxQueuedUpdates = 2  MaxWatchpoints = 2  MaxBreakpoints = 2
  MaxSessions = 3
SPECIFICATION Spec
INVARIANT WatchpointsPersist
CHECK_DEADLOCK FALSE

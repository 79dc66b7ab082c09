CONSTANTS
  Characters <- MCCharacters
  Alphanumeric <- MCAlphanumeric
  Variables <- MCVariables
  Located <- MCLocated
  Misread <- MCMisread
  MaxQueuedUpdates = 2  MaxWatchpoints = 2  MaxBreakpoints = 2
  MaxSessions = 3
SPECIFICATION Spec
INVARIANTS TypeOK FileCatchesUp BreakpointsKept OneWatchpointReloads
CHECK_DEADLOCK FALSE

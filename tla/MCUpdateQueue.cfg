CONSTANTS
  Brk = Brk  Src = Src  Wat = Wat
  UpdateThread = UpdateThread
  NoUpdate = NoUpdate  Unlocked = Unlocked  Abandoned = Abandoned
  Callers = {main, send_key}
  Cancellable = {send_key}
  Updates <- MCUpdates
  Requests <- MCRequests
  MaxQueuedUpdates = 2
SPECIFICATION FairSpec
INVARIANTS TypeOK LockDiscipline RingWhole NoLostWakeUp
PROPERTIES ImplementsFifo EveryCallReturns
CHECK_DEADLOCK FALSE

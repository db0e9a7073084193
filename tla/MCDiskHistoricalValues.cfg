\* The values a read of the past sees.
SPECIFICATION Spec
CONSTANTS
  Task = {t1, t2, t3}
  pool = pool
  scheme = scheme
  small = small
  large = large
  someKey = someKey
  first = first
  second = second
  Key = {someKey}
  Val = {first, second}
  NoVal = NoVal
  Path <- MCPath
  LockPath <- MCLockPath
  Request <- HistoryRequests
  Base <- OneCollection
  MaxNodes = 2
  MaxBusy = 3
SYMMETRY Symmetric
INVARIANTS
  HistoricalValues

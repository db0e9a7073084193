\* The process dies anywhere.
SPECIFICATION RestartSpec
CONSTANTS
  Task = {t1, t2, t3}
  pool = pool
  scheme = scheme
  small = small
  large = large
  someKey = someKey
  first = first
  second = second
  Key = {someKey}
  Val = {first, second}
  NoVal = NoVal
  Path <- MCPath
  LockPath <- MCLockPath
  Request <- RestartRequests
  Base <- TwoCollections
  MaxNodes = 4
  MaxBusy = 2
SYMMETRY Symmetric
PROPERTIES
  NoLossOnRestart

\* Every way to lock, three tasks, each of which is to be answered.
SPECIFICATION FairSpec
CONSTANTS
  Task = {t1, t2, t3}
  pool = pool
  scheme = scheme
  small = small
  large = large
  someKey = someKey
  first = first
  second = second
  Key = {someKey}
  Val = {first, second}
  NoVal = NoVal
  Path <- MCPath
  LockPath <- MCLockPath
  Request <- LockingRequests
  Base <- OneCollection
  MaxNodes = 2
  MaxBusy = 3
PROPERTIES
  EveryRequestAnswered

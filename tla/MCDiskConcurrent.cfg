\* Every operation, three tasks at once, one death anywhere, and then a read of the past.
SPECIFICATION MCSpec
CONSTANTS
  Task = {t1, t2, t3, t4}
  last = t4
  pool = pool
  scheme = scheme
  small = small
  large = large
  someKey = someKey
  first = first
  second = second
  Key = {someKey}
  Val = {first, second}
  NoVal = NoVal
  Path <- MCPath
  LockPath <- MCLockPath
  Request <- AllAndThenReads
  Base <- TwoCollections
  MaxNodes = 4
  MaxBusy = 3
SYMMETRY SymmetricFirst
INVARIANTS
  TypeOK
  CheckedPathStays
  CounterIsOwn
  ReadsAreRecorded
  QuietIsCurrent
  HeldAsScoped
  ReplayNeverFails
  HistoricalShape
  UniqueIsExclusive
PROPERTIES
  RestartKeepsRecorded
  RestartFindsAMoment

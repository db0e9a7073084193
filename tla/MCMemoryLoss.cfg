\* A read of the past behind the addition of another collection.
SPECIFICATION Spec
CONSTANTS
  Task = {t1, t2, t3, t4}
  first = first
  second = second
  Key = {1}
  Val = {first, second}
  NoVal = NoVal
  Path <- MCPath
  Request <- HistoryRequests
  Before <- RoomForTwo
  MaxBusy = 1
SYMMETRY Symmetric
INVARIANTS
  ReadsKeepTheData

\* Every operation of the memory controller, three tasks, two at once.
SPECIFICATION Spec
CONSTANTS
  Task = {t1, t2, t3}
  first = first
  second = second
  Key = {1}
  Val = {first, second}
  NoVal = NoVal
  Path <- MCPath
  Request <- AllRequests
  Before <- OneCollection
  MaxBusy = 2
SYMMETRY Symmetric
INVARIANTS
  ChangesAlone
  ContentsAreRecorded
  PastReadsAreRight
PROPERTIES
  MutexesStayPut

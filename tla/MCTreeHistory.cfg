SPECIFICATION FairSpec
CONSTANTS
  Key = {k1, k2}
  Val = {a, b}
  NoVal = NoVal
  MaxTime = 2
  MaxChanges = 4
INVARIANTS
  ReplayNeverThrows
  HistoricalView
  ReadLeavesNoTrace
PROPERTIES
  ImplementsVersionedMap
  ReadEnds

-------------------------- MODULE MCMemoryController --------------------------
(* Instances of MemoryController for TLC: one pool, one scheme, two            *)
(* collections of one key, named by numbers.                                  *)
EXTENDS MemoryController

CONSTANTS first, second

InPool == <<1>>
InScheme == <<1, 1>>
InA == <<1, 1, 1>>
InB == <<1, 1, 2>>
MCPath == {InPool, InScheme, InA, InB}

Ask(op, path, key, val, time) ==
  [op |-> op, path |-> path, key |-> key, val |-> val, time |-> time]
OnDirs(ops, path) == {Ask(op, path, NoVal, NoVal, 0) : op \in ops}
OnKeys(op, paths, val) == {Ask(op, p, 1, val, 0) : p \in paths}
ReadsAt(paths, times) == {Ask("read_at", p, 1, NoVal, n) : p \in paths, n \in times}
Done(op, path) == ChangeOf(Ask(op, path, NoVal, NoVal, 0))
Set(op, path, val) == ChangeOf(Ask(op, path, 1, val, 0))

\* Every operation, on a scheme with one collection.
AllRequests ==
  OnDirs({"add_pool", "remove_pool"}, InPool)
  \cup OnDirs({"add_scheme", "remove_scheme"}, InScheme)
  \cup OnDirs({"add_collection", "remove_collection"}, InA)
  \cup OnKeys("insert", {InA, InB}, first) \cup OnKeys("update", {InB}, second)
  \cup OnKeys("remove", {InB}, NoVal) \cup OnKeys("read", {InA, InB}, NoVal)
  \cup ReadsAt({InB}, {3, 4, 5})

OneCollection ==
  <<Done("add_pool", InPool), Done("add_scheme", InScheme), Done("add_collection", InB),
    Set("insert", InB, first)>>

\* A scheme whose vector has room for two and holds one.
RoomForTwo ==
  <<Done("add_pool", InPool), Done("add_scheme", InScheme), Done("add_collection", InA),
    Done("add_collection", InB), Set("insert", InB, first), Done("remove_collection", InA)>>

HistoryRequests ==
  OnDirs({"add_collection", "remove_collection"}, InA)
  \cup OnKeys("insert", {InA}, first) \cup OnKeys("remove", {InA}, NoVal)
  \cup ReadsAt({InA, InB}, {4, 6})

Symmetric == Permutations(Task)
===============================================================================

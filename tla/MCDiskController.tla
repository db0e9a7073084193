--------------------------- MODULE MCDiskController ---------------------------
(* Instances of DiskController for TLC: one pool, one scheme, one or two     *)
(* collections of one key.                                                   *)
EXTENDS DiskController

CONSTANTS pool, scheme, small, large, someKey, first, second

InPool == <<pool>>
InScheme == <<pool, scheme>>
InSmall == <<pool, scheme, small>>
InLarge == <<pool, scheme, large>>
MCPath == {InPool, InScheme, InSmall, InLarge}
MCLockPath == MCPath \cup {<<>>}

Ask(op, path, key, val, time) ==
  [op |-> op, path |-> path, key |-> key, val |-> val, time |-> time]
OnDirs(ops, path) == {Ask(op, path, NoVal, NoVal, 0) : op \in ops}
Inserts(path, vals) == {Ask("insert", path, someKey, v, 0) : v \in vals}
Updates(path, vals) == {Ask("update", path, someKey, v, 0) : v \in vals}
Removals(path) == {Ask("remove", path, someKey, NoVal, 0)}
Reads(path) == {Ask("read", path, someKey, NoVal, 0)}
\* A range with its bounds in the wrong order, at the present and in the past.
ReversedReads(path) == {Ask("read", path, NoVal, NoVal, 0), Ask("read_at", path, NoVal, NoVal, 0)}
ReadsAt(path, times) == {Ask("read_at", path, someKey, NoVal, n) : n \in times}

\* Every operation, on a database with a small and a large collection.
AllRequests ==
  OnDirs({"add_pool", "remove_pool"}, InPool)
  \cup OnDirs({"add_scheme", "remove_scheme"}, InScheme)
  \cup OnDirs({"add_collection", "remove_collection"}, InSmall)
  \cup Inserts(InSmall, {first}) \cup Updates(InSmall, {second})
  \cup Removals(InSmall) \cup Reads(InSmall)
  \cup Updates(InLarge, {second}) \cup Reads(InLarge)
  \cup ReadsAt(InSmall, {0, 1})

TwoCollections ==
  (InPool :> Directory) @@ (InScheme :> Directory)
  @@ (InSmall :> EmptyCollection)
  @@ (InLarge :> [data |-> [x \in Key |-> first], nodes |-> 4])

\* What a long history is made of: a collection that comes and goes, and a key
\* in it; and reads of the past between the changes.
HistoryRequests ==
  OnDirs({"remove_scheme", "add_scheme"}, InScheme)
  \cup OnDirs({"add_collection", "remove_collection"}, InSmall)
  \cup Inserts(InSmall, {first}) \cup Updates(InSmall, {second})
  \cup Removals(InSmall) \cup ReadsAt(InSmall, {0, 1, 2})

OneCollection ==
  (InPool :> Directory) @@ (InScheme :> Directory) @@ (InSmall :> EmptyCollection)

\* One request of each way to lock; a scheme to remove below the others.
LockingRequests ==
  OnDirs({"remove_scheme"}, InScheme) \cup OnDirs({"add_collection"}, InLarge)
  \cup Inserts(InSmall, {first}) \cup Updates(InSmall, {second}) \cup Reads(InSmall)
  \cup ReadsAt(InSmall, {0}) \cup ReversedReads(InSmall)

Symmetric == Permutations(Task)
===============================================================================

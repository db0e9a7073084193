------------------------------ MODULE TreesInTrees ------------------------------
(***************************************************************************)
(* The data of the memory controller: a B_tree of pools, which are B_trees *)
(* of schemes, which are B_trees of collections, all held BY VALUE in the  *)
(* key vectors of the nodes above them.  Each tree has two parts that fare *)
(* differently: its contents (_root and _size), which copying copies and   *)
(* moving moves, and its history (_operations and _undone_operations),     *)
(* which the copy and move operations of B_tree do not mention: a new tree *)
(* starts without history, an assigned one keeps the history it had.       *)
(*                                                                         *)
(* Hence what the vector does to its elements matters.  Up to nine keys    *)
(* make a tree of one node, and the models stay below; keys are numbers.   *)
(***************************************************************************)
EXTENDS Integers, Database

NewTree == [slots |-> <<>>, room |-> 0, ops |-> <<>>, undone |-> <<>>]
Slot(k, v) == [key |-> k, val |-> v]

KeysOf(tree) == [i \in DOMAIN tree.slots |-> tree.slots[i].key]
Has(tree, k) == \E i \in DOMAIN KeysOf(tree) : KeysOf(tree)[i] = k
PlaceOf(tree, k) == CHOOSE i \in DOMAIN KeysOf(tree) : KeysOf(tree)[i] = k
ValueAt(tree, k) == tree.slots[PlaceOf(tree, k)].val
SetValueAt(tree, k, v) == [tree EXCEPT !.slots[PlaceOf(tree, k)].val = v]
RankOf(tree, k) == Cardinality({i \in DOMAIN tree.slots : tree.slots[i].key < k}) + 1

-------------------------------------------------------------------------------
(* Constructing, copying and assigning trees. *)

\* B_tree(B_tree&&): contents without history.
Moved(v) == IF v \in Val THEN v ELSE [v EXCEPT !.ops = <<>>, !.undone = <<>>]

\* operator=(B_tree&&): the history of the tree that is assigned to stays.
MoveAssigned(home, s) ==
  IF s.val \in Val THEN s
  ELSE Slot(s.key, [s.val EXCEPT !.ops = home.val.ops, !.undone = home.val.undone])

\* B_tree(const B_tree&), with CopyValue for the elements of the tree.
Copied(tree, CopyValue(_)) ==
  [slots |-> [i \in DOMAIN tree.slots |->
                Slot(tree.slots[i].key, CopyValue(tree.slots[i].val))],
   room |-> Len(tree.slots), ops |-> <<>>, undone |-> <<>>]

CopyCollection(c) == Copied(c, LAMBDA v : v)
CopyScheme(s) == Copied(s, CopyCollection)
CopyPool(p) == Copied(p, CopyScheme)

\* A copy of a value of a tree that is level steps below the root.
Copy(level, v) ==
  CASE level = 0 -> CopyPool(v)
    [] level = 1 -> CopyScheme(v)
    [] level = 2 -> CopyCollection(v)
    [] level = 3 -> v

-------------------------------------------------------------------------------
(* The key vector of a node: insert_array and remove_array. *)

\* A full vector moves to a larger one, which constructs every element anew;
\* otherwise the last element is constructed in new room and those between are
\* assigned, each from its left neighbour.
InsertSlot(tree, k, v) ==
  LET i == RankOf(tree, k)
      n == Len(tree.slots)
      old == tree.slots
      constructed == [j \in 1..n |-> Slot(old[j].key, Moved(old[j].val))]
  IN
  IF n = tree.room
  THEN [tree EXCEPT !.slots = InsertAt(constructed, i, Slot(k, v)),
                    !.room = IF n = 0 THEN 1 ELSE 2 * n]
  ELSE [tree EXCEPT !.slots =
          [j \in 1..(n + 1) |->
             CASE j < i -> old[j]
               [] j = n + 1 -> IF i = n + 1 THEN Slot(k, v) ELSE constructed[n]
               [] j = i /\ j <= n -> MoveAssigned(old[j], Slot(k, v))
               [] i < j /\ j <= n -> MoveAssigned(old[j], old[j - 1])]]

\* Fault: the right neighbour goes.
EraseNextSlot(tree, k) ==
  LET i == IF PlaceOf(tree, k) < Len(tree.slots) THEN PlaceOf(tree, k) + 1 ELSE PlaceOf(tree, k)
      old == tree.slots
  IN
  [tree EXCEPT !.slots = [j \in 1..(Len(old) - 1) |->
                            IF j < i THEN old[j] ELSE MoveAssigned(old[j], old[j + 1])],
               !.room = IF Len(old) = 1 THEN 0 ELSE @]

\* The elements behind it are assigned from their right neighbours; the node of
\* the last key is destroyed.
EraseSlot(tree, k) ==
  LET i == PlaceOf(tree, k)
      old == tree.slots
  IN
  [tree EXCEPT !.slots = [j \in 1..(Len(old) - 1) |->
                            IF j < i THEN old[j] ELSE MoveAssigned(old[j], old[j + 1])],
               !.room = IF Len(old) = 1 THEN 0 ELSE @]

-------------------------------------------------------------------------------
(* Changes, and their undo and redo. *)

Push(tree, kind, k, v, time) ==
  [tree EXCEPT !.ops = Append(@, [kind |-> kind, key |-> k, val |-> v, time |-> time])]

InsertKey(level, tree, k, v, time) ==
  InsertSlot(Push(tree, "insert", k, Copy(level, v), time), k, Copy(level, v))
EraseKey(level, tree, k, time) ==
  EraseSlot(Push(tree, "remove", k, Copy(level, ValueAt(tree, k)), time), k)
UpdateKey(tree, k, v, time) ==
  SetValueAt(Push(tree, "update", k, ValueAt(tree, k), time), k, v)

UndoThrows(tree, op) == op.kind # "remove" /\ ~Has(tree, op.key)
RedoThrows(tree, op) == op.kind = "update" /\ ~Has(tree, op.key)

\* The tree after op is undone, and what op remembers then.
Undo(level, tree, op) ==
  CASE op.kind = "insert" ->
         [tree |-> EraseSlot(tree, op.key),
          op |-> [op EXCEPT !.val = Copy(level, ValueAt(tree, op.key))]]
    [] op.kind = "update" ->
         [tree |-> SetValueAt(tree, op.key, op.val),
          op |-> [op EXCEPT !.val = ValueAt(tree, op.key)]]
    [] op.kind = "remove" ->
         [tree |-> IF Has(tree, op.key) THEN tree
                   ELSE InsertSlot(tree, op.key, Copy(level, op.val)),
          op |-> op]

Redo(level, tree, op) ==
  CASE op.kind = "insert" ->
         [tree |-> IF Has(tree, op.key) THEN tree
                   ELSE InsertSlot(tree, op.key, Copy(level, op.val)),
          op |-> op]
    [] op.kind = "update" ->
         [tree |-> SetValueAt(tree, op.key, op.val),
          op |-> [op EXCEPT !.val = ValueAt(tree, op.key)]]
    [] op.kind = "remove" ->
         [tree |-> IF Has(tree, op.key) THEN EraseSlot(tree, op.key) ELSE tree,
          op |-> op]

\* Fault: changes of the very time asked for are undone too.
MustUndoInclusive(tree, time) == tree.ops # <<>> /\ Last(tree.ops).time >= time
MustUndo(tree, time) == tree.ops # <<>> /\ Last(tree.ops).time > time

\* One turn of revert_to, of which at() may throw.
UndoTurn(level, s, time) ==
  IF s.threw \/ ~MustUndo(s.tree, time) THEN s
  ELSE IF UndoThrows(s.tree, Last(s.tree.ops)) THEN [s EXCEPT !.threw = TRUE]
  ELSE LET u == Undo(level, s.tree, Last(s.tree.ops)) IN
       [s EXCEPT !.tree = [u.tree EXCEPT !.ops = Front(@), !.undone = Append(@, u.op)]]

\* One turn of redo_all.
RedoTurn(level, s) ==
  IF s.threw \/ s.tree.undone = <<>> THEN s
  ELSE IF RedoThrows(s.tree, Last(s.tree.undone)) THEN [s EXCEPT !.threw = TRUE]
  ELSE LET r == Redo(level, s.tree, Last(s.tree.undone)) IN
       [s EXCEPT !.tree = [r.tree EXCEPT !.undone = Front(@), !.ops = Append(@, r.op)]]

\* A turn for each operation there is, at most.
RevertTo(level, tree, time) ==
  LET after[n \in 0..Len(tree.ops)] ==
        IF n = 0 THEN [tree |-> tree, threw |-> FALSE]
        ELSE UndoTurn(level, after[n - 1], time)
  IN after[Len(tree.ops)]
RedoAll(level, tree) ==
  LET after[n \in 0..Len(tree.undone)] ==
        IF n = 0 THEN [tree |-> tree, threw |-> FALSE]
        ELSE RedoTurn(level, after[n - 1])
  IN after[Len(tree.undone)]

-------------------------------------------------------------------------------
(* A read of the past: revert on the way down, redo on the way up. *)

\* The end of a perst_helper, after what was found in the reverted tree.  If the
\* constructor threw there is no destructor; if that throws, the process ends.
Ended(level, reverted, found) ==
  LET redone == RedoAll(level, found.tree)
  IN CASE reverted.threw -> [tree |-> reverted.tree, answer |-> "threw"]
       [] ~reverted.threw /\ found.answer = "terminated" -> found
       [] OTHER -> [tree |-> redone.tree,
                    answer |-> IF redone.threw THEN "terminated" ELSE found.answer]

\* What was found in the tree at k is found in the tree.
Within(tree, k, found) ==
  IF Has(tree, k) THEN [found EXCEPT !.tree = SetValueAt(tree, k, found.tree)]
  ELSE [tree |-> tree, answer |-> "missing"]

ReadCollection(c, k, time) ==
  LET reverted == RevertTo(3, c, time)
      t == reverted.tree
  IN Ended(3, reverted, [tree |-> t, answer |-> IF Has(t, k) THEN ValueAt(t, k) ELSE "missing"])

ReadScheme(s, path, k, time) ==
  LET reverted == RevertTo(2, s, time)
      t == reverted.tree
  IN Ended(2, reverted, Within(t, path[3], ReadCollection(ValueAt(t, path[3]), k, time)))

ReadPool(p, path, k, time) ==
  LET reverted == RevertTo(1, p, time)
      t == reverted.tree
  IN Ended(1, reverted, Within(t, path[2], ReadScheme(ValueAt(t, path[2]), path, k, time)))

ReadPast(top, path, k, time) ==
  LET reverted == RevertTo(0, top, time)
      t == reverted.tree
  IN Ended(0, reverted, Within(t, path[1], ReadPool(ValueAt(t, path[1]), path, k, time)))

-------------------------------------------------------------------------------
(* Trees by their paths. *)

TreeAt(top, path) ==
  CASE Len(path) = 0 -> top
    [] Len(path) = 1 -> ValueAt(top, path[1])
    [] Len(path) = 2 -> ValueAt(ValueAt(top, path[1]), path[2])
    [] Len(path) = 3 -> ValueAt(ValueAt(ValueAt(top, path[1]), path[2]), path[3])

Exists(top, path) ==
  \A n \in 1..Len(path) : Has(TreeAt(top, SubSeq(path, 1, n - 1)), path[n])

\* The root with the tree at path replaced.
Replaced(top, path, tree) ==
  LET In(n, below) == SetValueAt(TreeAt(top, SubSeq(path, 1, n)), path[n + 1], below)
  IN CASE Len(path) = 0 -> tree
       [] Len(path) = 1 -> In(0, tree)
       [] Len(path) = 2 -> In(0, In(1, tree))
       [] Len(path) = 3 -> In(0, In(1, In(2, tree)))
===============================================================================

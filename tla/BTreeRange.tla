------------------------------- MODULE BTreeRange -------------------------------
(***************************************************************************)
(* Iterators of the in-memory B-tree and find_range, on the nodes of       *)
(* BTree.                                                                  *)
(***************************************************************************)
EXTENDS BTree

-------------------------------------------------------------------------------
(* Iterators: a stack of nodes, the root included, and an index in the top one; an *)
(* iterator without a stack is the end.                                            *)

AtEnd(it) == it.path = <<>>
NodeOf(it) == NodeAt(root, Tail(it.path))
KeyOf(it) == KeyAt(NodeOf(it), it.index)
Dereferable(it) == ~AtEnd(it) /\ it.index \in 0..Size(NodeOf(it)) - 1
Same(a, b) == a.path = b.path /\ (AtEnd(a) \/ a.index = b.index)
Pop(it) == [path |-> Front(it.path), index |-> Last(it.path)]
Push(it) == [it EXCEPT !.path = Append(@, it.index)]

RECURSIVE Climb_past_ends(_), Climb_past_begins(_)
Climb_past_ends(it) ==
  IF ~AtEnd(it) /\ it.index = Size(NodeOf(it)) THEN Climb_past_ends(Pop(it)) ELSE it
Climb_past_begins(it) ==
  IF ~AtEnd(it) /\ it.index = 0 THEN Climb_past_begins(Pop(it)) ELSE it

RECURSIVE Leftmost(_), Rightmost(_)
Leftmost(it) ==
  IF IsLeaf(NodeOf(it)) THEN it ELSE Leftmost([Push(it) EXCEPT !.index = 0])
Rightmost(it) ==
  IF IsLeaf(NodeOf(it)) THEN [it EXCEPT !.index = Size(NodeOf(it)) - 1]
  ELSE LET child == Push(it) IN Rightmost([child EXCEPT !.index = Size(NodeOf(child))])

\* Fault: the node above is taken at the key after the leaf, not at the one before.
RetreatToParent(it) ==
  CASE AtEnd(it) -> it
    [] ~AtEnd(it) /\ IsLeaf(NodeOf(it)) ->
         IF it.index = 0 THEN Climb_past_begins(it) ELSE [it EXCEPT !.index = @ - 1]
    [] OTHER -> Rightmost(it)

\* operator++ and operator--.
Advance(it) ==
  CASE AtEnd(it) -> it
    [] ~AtEnd(it) /\ IsLeaf(NodeOf(it)) -> Climb_past_ends([it EXCEPT !.index = @ + 1])
    [] OTHER -> Leftmost([Push([it EXCEPT !.index = @ + 1]) EXCEPT !.index = 0])

Retreat(it) ==
  CASE AtEnd(it) -> it
    [] ~AtEnd(it) /\ IsLeaf(NodeOf(it)) ->
         LET up == Climb_past_begins(it) IN [up EXCEPT !.index = @ - 1]
    [] OTHER -> Rightmost(it)

-------------------------------------------------------------------------------
(* find_range(lower, upper), from lower up to, and without, upper. *)

RECURSIVE Forward_to(_, _), Back_to(_, _, _)
Forward_to(it, lower) ==
  IF Dereferable(it) /\ KeyOf(it) < lower THEN Forward_to(Advance(it), lower) ELSE it
Back_to(beg, it, upper) ==
  IF ~Same(beg, it) /\ Dereferable(it) /\ KeyOf(it) > upper
  THEN Back_to(beg, Retreat(it), upper) ELSE it

\* Where a key is, or its place in a node, not after the last key of that node.
Place_in(path, key, node) ==
  [path |-> <<0>> \o path,
   index |-> IF Found(key, node) THEN find_index(key, node)
             ELSE Min({find_index(key, node), Size(node) - 1})]

Range_begin(lower) ==
  LET path == find_path(root, lower) IN
  Forward_to(Place_in(path, lower, NodeAt(root, path)), lower)

\* The node of an upper key that is not found is the one of the lower key.
Range_last(lower, upper, beg) ==
  LET path == find_path(root, upper)
      node == IF Exists(upper) THEN NodeAt(root, path) ELSE NodeAt(root, find_path(root, lower))
      place == Place_in(path, upper, node)
      it == Back_to(beg,
              IF find_index(upper, node) > place.index THEN Advance(place) ELSE place, upper)
  IN
  IF ~Same(beg, it) /\ Dereferable(it) /\ KeyOf(it) >= upper THEN Retreat(it) ELSE it

RECURSIVE Walk(_, _)
Walk(it, last) ==
  CASE Same(it, last) -> [keys |-> <<>>, defined |-> TRUE]
    [] ~Same(it, last) /\ ~Dereferable(it) -> [keys |-> <<>>, defined |-> FALSE]
    [] OTHER -> LET rest == Walk(Advance(it), last) IN
                [rest EXCEPT !.keys = <<KeyOf(it)>> \o @]

\* What a caller that goes from the first iterator to the second sees; undefined if
\* it looks at a key that is not there.
Range_between(beg, last, lower) ==
  LET found_one == KeyOf(beg) = lower \/ ~Same(beg, last) IN
  CASE AtEnd(beg) -> [keys |-> <<>>, defined |-> TRUE]
    [] ~AtEnd(beg) /\ ~AtEnd(last) /\ ~Dereferable(last) -> [keys |-> <<>>, defined |-> FALSE]
    [] OTHER -> Walk(beg, IF found_one THEN Advance(last) ELSE last)

find_range(lower, upper) ==
  LET beg == Range_begin(lower) IN
  IF root = Nil THEN [keys |-> <<>>, defined |-> TRUE]
  ELSE Range_between(beg, Range_last(lower, upper, beg), lower)

-------------------------------------------------------------------------------
(* Properties *)

Sorted(keys) ==
  [i \in 1..Cardinality(keys) |->
     CHOOSE key \in keys : Cardinality({less \in keys : less < key}) = i - 1]

Exact(range, lower, upper) ==
  range = [keys |-> Sorted({key \in contents : lower <= key /\ key < upper}), defined |-> TRUE]

\* A range is exact, wherever its bounds lie in the tree, as long as its upper bound is
\* a key or belongs where the lower one does, and its lower bound is a key or it does
\* not hold just one.
RangeExactWhereSafe ==
  work = "none" =>
    \A lower, upper \in Key :
      /\ lower < upper
      /\ upper \in contents \/ find_path(root, lower) = find_path(root, upper)
      /\ \/ lower \in contents
         \/ Cardinality({key \in contents : lower <= key /\ key < upper}) # 1
      => Exact(find_range(lower, upper), lower, upper)

\* read_range returns the students in the range, as the hint of the client says.
RangeExact ==
  work = "none" =>
    \A lower, upper \in Key : lower < upper => Exact(find_range(lower, upper), lower, upper)
===============================================================================

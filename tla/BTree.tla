---------------------------------- MODULE BTree ----------------------------------
(***************************************************************************)
(* The nodes of the in-memory B-tree: insertion with its splits, erasure   *)
(* with its borrowing and merging.  Iterators and find_range are in        *)
(* BTreeRange.                                                             *)
(*                                                                         *)
(* A tree is Nil or a node, a record of its keys and, unless it is a leaf, *)
(* its children; values go with their keys.  A step is one turn of a loop  *)
(* of the code.  stack is the code's stack of pointers into the tree,      *)
(* without its first element, the root: the indices of the children taken. *)
(* Indices count from 0, as in the code.  The binary search of find_index  *)
(* is its outcome on sorted keys.                                          *)
(***************************************************************************)
EXTENDS Integers, SequencesExt, FiniteSetsExt

CONSTANTS
  Key,     \* keys, integers
  Degree   \* values of the template parameter t, from 2

VARIABLES
  t,        \* the template parameter
  root,     \* _root
  work,     \* the loop that runs: of emplace_inner, of erase_inner, or none
  stack,    \* its stack of nodes
  contents  \* ghost: the keys there should be

treeVars == <<t, root, work, stack, contents>>

minimum_keys_in_node == t - 1
maximum_keys_in_node == 2 * t - 1

Nil == [keys |-> <<>>, kids |-> <<>>]   \* nullptr
Size(node) == Len(node.keys)
IsLeaf(node) == node.kids = <<>>
KeyAt(node, i) == node.keys[i + 1]
KidAt(node, i) == node.kids[i + 1]

BTreeInit ==
  /\ t \in Degree
  /\ root = Nil /\ work = "none" /\ stack = <<>> /\ contents = {}

-------------------------------------------------------------------------------
(* Nodes and paths. *)

\* The keys and the children on either side of an index.
Kids(node, i, j) == IF IsLeaf(node) THEN <<>> ELSE SubSeq(node.kids, i, j)
Upto(node, i) == [keys |-> SubSeq(node.keys, 1, i), kids |-> Kids(node, 1, i + 1)]
From(node, i) ==
  [keys |-> SubSeq(node.keys, i + 1, Size(node)), kids |-> Kids(node, i + 1, Len(node.kids))]

\* Fault: the children of the right part are left behind.
JoinedWithoutKids(left, key, right) ==
  [keys |-> left.keys \o <<key>> \o right.keys, kids |-> left.kids]

\* A node of two parts with a key between them.
Joined(left, key, right) ==
  [keys |-> left.keys \o <<key>> \o right.keys, kids |-> left.kids \o right.kids]

\* The node at the end of a path, and a tree with another one there.
NodeAt(node, path) ==
  LET at[n \in 0..Len(path)] == IF n = 0 THEN node ELSE KidAt(at[n - 1], path[n])
  IN at[Len(path)]

PutAt(node, path, new) ==
  LET from[n \in 0..Len(path)] ==
        IF n = Len(path) THEN new
        ELSE [NodeAt(node, SubSeq(path, 1, n)) EXCEPT !.kids[path[n + 1] + 1] = from[n + 1]]
  IN from[0]

\* All ways down from a node.
Paths(node) ==
  LET level[n \in Nat] ==
        IF n = 0 THEN {<<>>}
        ELSE UNION {{Append(p, i) : i \in 0..Len(NodeAt(node, p).kids) - 1} : p \in level[n - 1]}
      from[n \in Nat] == IF level[n] = {} THEN {} ELSE level[n] \cup from[n + 1]
  IN from[0]

find_index(key, node) == Cardinality({i \in DOMAIN node.keys : node.keys[i] < key})
Found(key, node) == \E i \in DOMAIN node.keys : node.keys[i] = key

\* Down to the node that has the key, or to the leaf where it belongs.
Leads(node, path, key) ==
  /\ Found(key, NodeAt(node, path)) \/ IsLeaf(NodeAt(node, path))
  /\ \A n \in 1..Len(path) :
       LET above == NodeAt(node, SubSeq(path, 1, n - 1))
       IN ~Found(key, above) /\ path[n] = find_index(key, above)
find_path(node, key) == CHOOSE path \in Paths(node) : Leads(node, path, key)

\* Down to the last leaf.
Ends(node, path) ==
  /\ IsLeaf(NodeAt(node, path))
  /\ \A n \in 1..Len(path) : path[n] = Size(NodeAt(node, SubSeq(path, 1, n - 1)))
Last_path(node) == CHOOSE path \in Paths(node) : Ends(node, path)

Exists(key) == root # Nil /\ Found(key, NodeAt(root, find_path(root, key)))

-------------------------------------------------------------------------------
(* Insertion. *)

insert_array(node, key, i) == [node EXCEPT !.keys = InsertAt(@, i + 1, key)]

Insert(key) ==
  /\ work = "none" /\ ~Exists(key)
  /\ contents' = contents \cup {key}
  /\ LET path == find_path(root, key)
         leaf == NodeAt(root, path)
     IN
     /\ root' = PutAt(root, path, insert_array(leaf, key, find_index(key, leaf)))
     /\ work' = "insert" /\ stack' = path
  /\ UNCHANGED t

\* Fault: the separator stays in the right half too.
SplitAt(node) == Size(node) \div 2
SplitKeepingSeparator(node) ==
  LET s == SplitAt(node) IN
  [left |-> Upto(node, s - 1), key |-> KeyAt(node, s - 1),
   right |-> [From(node, s) EXCEPT !.keys = <<KeyAt(node, s - 1)>> \o @]]

\* A node too large: its separator goes up, what is right of it to a new node.
Halves(node) ==
  LET s == SplitAt(node) IN
  [left |-> Upto(node, s - 1), key |-> KeyAt(node, s - 1), right |-> From(node, s)]

SplitNode ==
  LET node == NodeAt(root, stack)
      half == Halves(node)
  IN
  /\ work = "insert" /\ Size(node) > maximum_keys_in_node
  /\ IF stack = <<>>
     THEN root' = [keys |-> <<half.key>>, kids |-> <<half.left, half.right>>] /\ stack' = <<>>
     ELSE LET parent == NodeAt(root, Front(stack))
              i == Last(stack)
          IN
          /\ root' = PutAt(root, Front(stack),
                       [keys |-> InsertAt(parent.keys, i + 1, half.key),
                        kids |-> InsertAt([parent.kids EXCEPT ![i + 1] = half.left], i + 2, half.right)])
          /\ stack' = Front(stack)
  /\ UNCHANGED <<t, work, contents>>

InsertDone ==
  /\ work = "insert" /\ Size(NodeAt(root, stack)) <= maximum_keys_in_node
  /\ work' = "none" /\ stack' = <<>>
  /\ UNCHANGED <<t, root, contents>>

-------------------------------------------------------------------------------
(* Erasure. *)

WithoutKey(node, i) == [node EXCEPT !.keys = RemoveAt(@, i + 1)]

\* A key of an inner node changes places with the greatest one before it, in a leaf.
Erase(key) ==
  /\ work = "none" /\ Exists(key)
  /\ contents' = contents \ {key}
  /\ LET path == find_path(root, key)
         node == NodeAt(root, path)
         i == find_index(key, node)
         last == path \o <<i>> \o Last_path(KidAt(node, i))
         leaf == NodeAt(root, last)
         before == KeyAt(leaf, Size(leaf) - 1)
     IN
     IF IsLeaf(node)
     THEN root' = PutAt(root, path, WithoutKey(node, i)) /\ stack' = path
     ELSE /\ root' = PutAt(PutAt(root, path, [node EXCEPT !.keys[i + 1] = before]),
                           last, WithoutKey(leaf, Size(leaf) - 1))
          /\ stack' = last
  /\ work' = "erase"
  /\ UNCHANGED t

Shrunk(path) == work = "erase" /\ Size(NodeAt(root, path)) < minimum_keys_in_node

\* The number of a node among its parent's children, and its neighbours there.
Parent == NodeAt(root, Front(stack))
Place == Last(stack)
Brother(i) == KidAt(Parent, i)
Spare(i) == i \in 0..Size(Parent) /\ Size(Brother(i)) > minimum_keys_in_node

\* What two neighbours and the key between them become.
Rebalanced(i, left, key, right) ==
  root' = PutAt(root, Front(stack),
            [keys |-> [Parent.keys EXCEPT ![i + 1] = key],
             kids |-> [Parent.kids EXCEPT ![i + 1] = left, ![i + 2] = right]])

\* The last key of the left brother goes up, the key between them comes down.
BorrowLeft ==
  LET brother == Brother(Place - 1)
      n == Size(brother)
      node == NodeAt(root, stack)
      first == [keys |-> <<>>, kids |-> IF IsLeaf(node) THEN <<>> ELSE <<KidAt(brother, n)>>]
  IN
  /\ stack # <<>> /\ Shrunk(stack) /\ Spare(Place - 1)
  /\ Rebalanced(Place - 1, Upto(brother, n - 1), KeyAt(brother, n - 1),
                Joined(first, KeyAt(Parent, Place - 1), node))
  /\ stack' = Front(stack)
  /\ UNCHANGED <<t, work, contents>>

BorrowRight ==
  LET brother == Brother(Place + 1)
      node == NodeAt(root, stack)
      next == [keys |-> <<>>, kids |-> IF IsLeaf(node) THEN <<>> ELSE <<KidAt(brother, 0)>>]
  IN
  /\ stack # <<>> /\ Shrunk(stack) /\ ~Spare(Place - 1) /\ Spare(Place + 1)
  /\ Rebalanced(Place, Joined(node, KeyAt(Parent, Place), next), KeyAt(brother, 0),
                From(brother, 1))
  /\ stack' = Front(stack)
  /\ UNCHANGED <<t, work, contents>>

\* Fault: an emptied root stays above the merged node.
ParentKeptAbove(parent) == parent

\* A root without keys gives way to its only child.
ParentOrChild(parent) ==
  IF Front(stack) = <<>> /\ parent.keys = <<>> THEN parent.kids[1] ELSE parent

\* The parent of the node at i and its right brother after they have become one.
Merged(i) ==
  [keys |-> RemoveAt(Parent.keys, i + 1),
   kids |-> RemoveAt([Parent.kids EXCEPT ![i + 1] = Joined(Brother(i), KeyAt(Parent, i), Brother(i + 1))],
                     i + 2)]

\* Into the left brother, if there is one, else with the right one.
Merge ==
  /\ stack # <<>> /\ Shrunk(stack) /\ ~Spare(Place - 1) /\ ~Spare(Place + 1)
  /\ root' = PutAt(root, Front(stack), ParentOrChild(Merged(Max({Place - 1, 0}))))
  /\ stack' = Front(stack)
  /\ UNCHANGED <<t, work, contents>>

\* A large enough node, or the root: an empty one is already Nil here.
EraseDone ==
  /\ work = "erase" /\ (stack = <<>> \/ ~Shrunk(stack))
  /\ work' = "none" /\ stack' = <<>>
  /\ UNCHANGED <<t, root, contents>>

BTreeNext ==
  \/ \E key \in Key : Insert(key) \/ Erase(key)
  \/ SplitNode \/ InsertDone
  \/ BorrowLeft \/ BorrowRight \/ Merge \/ EraseDone

BTreeSpec == BTreeInit /\ [][BTreeNext]_treeVars

-------------------------------------------------------------------------------
(* Properties *)

\* What is assumed of the constants.
BTreeParameters == Key \subseteq Int /\ Degree \subseteq Nat \ {0, 1}

\* A node has one child more than keys, or none, at every step of every loop.
BTreeTypeOK ==
  /\ t \in Degree /\ contents \subseteq Key
  /\ work \in {"none", "insert", "erase"} /\ stack \in Paths(root)
  /\ \A path \in Paths(root) :
       LET node == NodeAt(root, path)
       IN node.keys \in Seq(Key) /\ (IsLeaf(node) \/ Len(node.kids) = Size(node) + 1)

\* In the middle of splits and merges as well, the tree holds exactly the keys inserted and
\* not erased, each once: keys ascend in a node, and what is below a child lies between
\* the keys on its sides. So find_path finds each.
KeysInOrder ==
  /\ contents = UNION {Range(NodeAt(root, path).keys) : path \in Paths(root)}
  /\ \A path \in Paths(root) :
       LET keys == NodeAt(root, path).keys IN
       /\ \A i, j \in DOMAIN keys : i < j => keys[i] < keys[j]
       /\ \A below \in Paths(root) :
            IsStrictPrefix(path, below) =>
              \A key \in Range(NodeAt(root, below).keys), i \in DOMAIN keys :
                key # keys[i] /\ (key < keys[i] <=> below[Len(path) + 1] < i)

\* Between operations every node but the root has t - 1 to 2t - 1 keys, the root of a tree
\* that is not empty one at least, and all leaves are equally deep, though a split or a
\* merge may have gone up to the root.
Balanced ==
  work = "none" =>
    /\ \A p, q \in Paths(root) :
         IsLeaf(NodeAt(root, p)) /\ IsLeaf(NodeAt(root, q)) => Len(p) = Len(q)
    /\ root = Nil \/ Size(root) \in 1..maximum_keys_in_node
    /\ \A path \in Paths(root) \ {<<>>} :
         Size(NodeAt(root, path)) \in minimum_keys_in_node..maximum_keys_in_node
===============================================================================

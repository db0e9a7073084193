-------------------------------- MODULE BTreeFile --------------------------------
(***************************************************************************)
(* The B-tree in a file: the algorithms of BTree on nodes that lie at      *)
(* numbered positions and are read and written one by one.                 *)
(*                                                                         *)
(* A turn of a loop reads the nodes it needs, computes, and writes several *)
(* nodes, and the position of the root, one after the other: pending holds *)
(* the writes that have not reached the file.  The records of the nodes    *)
(* and the keys and values they point to are in two files with a stream    *)
(* each; serialize appends keys and values anew for every record, and they *)
(* stay in the buffer of their stream when the record has been flushed:    *)
(* buffered is the node whose record is ahead of its keys.  A process that *)
(* dies leaves what the files hold then, so that every state shows what    *)
(* the next one would find.  A record goes to its file as a whole, and so  *)
(* do the keys and values of a node.  The controller opens a tree for      *)
(* every request; the constructor reads where the root is and from the     *)
(* size of the file where new nodes may go.                                *)
(***************************************************************************)
EXTENDS Integers, SequencesExt, FiniteSetsExt

CONSTANTS
  Key,
  T,           \* the template parameter t
  MaxPosition  \* bound: positions in the file

VARIABLES
  file,      \* position -> node
  header,    \* the position of the root, as it is written in the file
  pending,   \* writes under way, the oldest first
  buffered,  \* the node in the file whose keys are still in their buffer, or 0
  count,     \* _count_of_node
  work,      \* the loop that runs: of insert, of erase, or none
  path,      \* its stack: positions of nodes, and their indices in their parents
  turn,      \* ghost: what the last writes were for
  contents,  \* ghost: the keys there should be
  before     \* ghost: the keys there were when the operation began

fileVars == <<file, header, pending, buffered, count, work, path, turn, contents, before>>

Node(leaf, keys, pointers) == [leaf |-> leaf, keys |-> keys, pointers |-> pointers]
EmptyLeaf == Node(TRUE, <<>>, <<>>)
Size(node) == Len(node.keys)
Write(position, node) == [position |-> position, node |-> node]
WriteRoot(position) == [position |-> 0, node |-> position]   \* print_root_position

\* The constructor has made a new file; its first node is at 1.
FileInit ==
  /\ file = (1 :> EmptyLeaf) /\ header = 1 /\ pending = <<>> /\ buffered = 0 /\ count = 2
  /\ work = "none" /\ path = <<>> /\ turn = "none" /\ contents = {} /\ before = {}

-------------------------------------------------------------------------------
(* Reading.  The process reads what it has written, be it in the file or not. *)

LastWrite(position) ==
  {i \in DOMAIN pending : pending[i].position = position
                          /\ \A j \in i + 1..Len(pending) : pending[j].position # position}
disk_read(position) ==
  IF LastWrite(position) = {} THEN file[position]
  ELSE pending[CHOOSE i \in LastWrite(position) : TRUE].node
position_root == IF LastWrite(0) = {} THEN header ELSE disk_read(0)

\* Positions from here on have never been written.
Extent == Max(DOMAIN file) + 1

find_index(key, node) == Cardinality({i \in DOMAIN node.keys : node.keys[i] < key})
Found(key, node) == \E i \in DOMAIN node.keys : node.keys[i] = key
Step(position, index) == [position |-> position, index |-> index]
Below(node, i) == Step(node.pointers[i + 1], i)

\* The stack down to the node of a key, or to the leaf where it belongs.
RECURSIVE Path_from(_, _)
Path_from(step, key) ==
  LET node == disk_read(step.position) IN
  IF Found(key, node) \/ node.leaf THEN <<step>>
  ELSE <<step>> \o Path_from(Below(node, find_index(key, node)), key)
find_path(key) == Path_from(Step(position_root, 0), key)

RECURSIVE Rightmost_from(_)
Rightmost_from(step) ==
  LET node == disk_read(step.position) IN
  IF node.leaf THEN <<step>> ELSE <<step>> \o Rightmost_from(Below(node, Size(node)))

Top(stack) == disk_read(Last(stack).position)
Exists(key) == Found(key, Top(find_path(key)))

-------------------------------------------------------------------------------
(* Insertion. *)

\* A turn reads a node with keys first, and a tree that is closed closes the file of
\* keys: both bring the buffered ones to their file.
Written == pending = <<>> /\ buffered = 0
Idle == work = "none" /\ Written
InLoop(what) == work = what /\ Written

\* A tree grows by a node in every level, and by a root, at most.
Insert(key) ==
  LET stack == find_path(key)
      leaf == Top(stack)
  IN
  /\ Idle /\ ~Found(key, leaf)
  /\ Extent + Len(stack) + 1 <= MaxPosition
  /\ pending' = <<Write(Last(stack).position,
                    [leaf EXCEPT !.keys = InsertAt(@, find_index(key, leaf) + 1, key)])>>
  /\ count' = Extent
  /\ work' = "insert" /\ path' = stack /\ turn' = "insert"
  /\ before' = contents /\ contents' = contents \cup {key}
  /\ UNCHANGED <<file, header, buffered>>

Pointers(node, i, j) == IF node.leaf THEN <<>> ELSE SubSeq(node.pointers, i, j)

RightPart(node, s) ==
  Node(node.leaf, SubSeq(node.keys, s + 1, Size(node)), Pointers(node, s + 1, Size(node) + 1))

\* What split_node writes: the parent, the node, the new node.
Split_writes(parent, parentAt, i, node, nodeAt, newAt) ==
  LET s == Size(node) \div 2 IN
  << Write(parentAt, Node(FALSE, InsertAt(parent.keys, i + 1, node.keys[s]),
                          InsertAt(parent.pointers, i + 2, newAt))),
     Write(nodeAt, Node(node.leaf, SubSeq(node.keys, 1, s - 1), Pointers(node, 1, s))),
     Write(newAt, RightPart(node, s)) >>

NewRootAt == count

\* Fault: the new node takes the place the new root has just got.
NewNodeAtSame(rootSplit) == count
NewNodeAt(rootSplit) == IF rootSplit THEN count + 1 ELSE count

\* A root splits below a new root, which is written without keys first.
SplitNode ==
  LET node == Top(path)
      at == Last(path).position
      rootSplit == Len(path) = 1
      newRoot == Node(FALSE, <<>>, <<at>>)
      up == Front(path)
  IN
  /\ InLoop("insert") /\ Size(node) > 2 * T - 1
  /\ pending' =
       IF rootSplit
       THEN << Write(NewRootAt, newRoot), Write(at, node), WriteRoot(NewRootAt) >>
            \o Split_writes(newRoot, NewRootAt, 0, node, at, NewNodeAt(TRUE))
       ELSE Split_writes(Top(up), Last(up).position, Last(path).index, node, at, NewNodeAt(FALSE))
  /\ path' = IF rootSplit THEN <<Step(NewRootAt, 0)>> ELSE up
  /\ count' = NewNodeAt(rootSplit) + 1
  /\ turn' = "split"
  /\ UNCHANGED <<file, header, buffered, work, contents, before>>

InsertDone ==
  /\ InLoop("insert") /\ Size(Top(path)) <= 2 * T - 1
  /\ work' = "none" /\ path' = <<>>
  /\ UNCHANGED <<file, header, buffered, pending, count, turn, contents, before>>

-------------------------------------------------------------------------------
(* Erasure. *)

\* remove_array makes a node it does not use, and a position with it, when it takes
\* the first key and the pointer before it from a leaf.
Dummies(leaf, i) == IF leaf.leaf /\ i = 0 THEN 1 ELSE 0

\* Fault: the leaf is written before the node above it.
Leaf_writes_first(upAt, up, downAt, swapped, leaf) ==
  << Write(downAt, swapped), Write(downAt, leaf), Write(upAt, up) >>
Erase_writes(upAt, up, downAt, swapped, leaf) ==
  << Write(upAt, up), Write(downAt, swapped), Write(downAt, leaf) >>

\* A key of an inner node changes places with the last one before it, then the leaf
\* gives it up.
Erase(key) ==
  LET stack == find_path(key)
      node == Top(stack)
      i == find_index(key, node)
      down == stack \o Rightmost_from(Below(node, i))
      leaf == Top(down)
      n == Size(leaf)
  IN
  /\ Idle /\ Found(key, node)
  /\ IF node.leaf
     THEN /\ pending' = <<Write(Last(stack).position, [node EXCEPT !.keys = RemoveAt(@, i + 1)])>>
          /\ count' = Extent + Dummies(node, i)
          /\ path' = stack
     ELSE /\ pending' =
               Erase_writes(Last(stack).position, [node EXCEPT !.keys[i + 1] = leaf.keys[n]],
                            Last(down).position, [leaf EXCEPT !.keys[n] = key],
                            [leaf EXCEPT !.keys = Front(@)])
          /\ count' = Extent + Dummies(leaf, n - 1)
          /\ path' = down
  /\ work' = "erase" /\ turn' = "erase"
  /\ before' = contents /\ contents' = contents \ {key}
  /\ UNCHANGED <<file, header, buffered>>

Shrunk == InLoop("erase") /\ Size(Top(path)) < T - 1
Parent == Top(Front(path))
ParentAt == Last(Front(path)).position
Place == Last(path).index
BrotherAt(i) == Parent.pointers[i + 1]
Brother(i) == disk_read(BrotherAt(i))
Spare(i) == i \in 0..Size(Parent) /\ Size(Brother(i)) > T - 1

\* The parent first, then the brother, then the node: the order of the writes.
BorrowLeft ==
  LET brother == Brother(Place - 1)
      node == Top(path)
      n == Size(brother)
  IN
  /\ Shrunk /\ Len(path) > 1 /\ Spare(Place - 1)
  /\ pending' =
       << Write(ParentAt, [Parent EXCEPT !.keys[Place] = brother.keys[n]]),
          Write(BrotherAt(Place - 1),
            Node(brother.leaf, Front(brother.keys), IF brother.leaf THEN <<>> ELSE Front(brother.pointers))),
          Write(Last(path).position,
            Node(node.leaf, <<Parent.keys[Place]>> \o node.keys,
                 IF node.leaf THEN <<>> ELSE <<Last(brother.pointers)>> \o node.pointers)) >>
  /\ path' = Front(path) /\ turn' = "borrow"
  /\ UNCHANGED <<file, header, buffered, count, work, contents, before>>

BorrowRight ==
  LET brother == Brother(Place + 1)
      node == Top(path)
  IN
  /\ Shrunk /\ Len(path) > 1 /\ ~Spare(Place - 1) /\ Spare(Place + 1)
  /\ pending' =
       << Write(ParentAt, [Parent EXCEPT !.keys[Place + 1] = brother.keys[1]]),
          Write(BrotherAt(Place + 1),
            Node(brother.leaf, Tail(brother.keys), IF brother.leaf THEN <<>> ELSE Tail(brother.pointers))),
          Write(Last(path).position,
            Node(node.leaf, node.keys \o <<Parent.keys[Place + 1]>>,
                 IF node.leaf THEN <<>> ELSE node.pointers \o <<Head(brother.pointers)>>)) >>
  /\ path' = Front(path) /\ turn' = "borrow"
  /\ count' = count + Dummies(brother, 0)
  /\ UNCHANGED <<file, header, buffered, work, contents, before>>

\* The position of an emptied root's only child is written before the child.
RootWrite(parent, leftAt) ==
  IF Len(path) = 2 /\ Size(parent) = 0 THEN <<WriteRoot(leftAt)>> ELSE <<>>

\* remove_array writes the parent before the node it has lost keys to is written.
Merge ==
  LET i == IF Place > 0 THEN Place - 1 ELSE Place
      left == Brother(i)
      right == Brother(i + 1)
      merged == Node(left.leaf, left.keys \o <<Parent.keys[i + 1]>> \o right.keys,
                     left.pointers \o right.pointers)
      parent == Node(FALSE, RemoveAt(Parent.keys, i + 1), RemoveAt(Parent.pointers, i + 2))
      rootWrite == RootWrite(parent, BrotherAt(i))
  IN
  /\ Shrunk /\ Len(path) > 1 /\ ~Spare(Place - 1) /\ ~Spare(Place + 1)
  /\ pending' = <<Write(ParentAt, parent)>> \o rootWrite \o <<Write(BrotherAt(i), merged)>>
  /\ path' = IF rootWrite = <<>> THEN Front(path) ELSE <<Step(BrotherAt(i), 0)>>
  /\ turn' = IF rootWrite = <<>> THEN "merge" ELSE "root merge"
  /\ UNCHANGED <<file, header, buffered, count, work, contents, before>>

\* A large enough node, or the root; one without keys stays where it is.
EraseDone ==
  /\ InLoop("erase") /\ (Len(path) = 1 \/ ~Shrunk)
  /\ work' = "none" /\ path' = <<>>
  /\ UNCHANGED <<file, header, buffered, pending, count, turn, contents, before>>

-------------------------------------------------------------------------------

\* Writes reach their files one by one.  serialize seeks to the end of the keys
\* before it writes its own, which flushes those of the node before; the seek that
\* ends it flushes the record, and leaves its keys in the buffer.
FlushNode ==
  LET write == Head(pending) IN
  /\ pending # <<>> /\ write.position # 0
  /\ buffered = 0
  /\ file' = (write.position :> write.node) @@ file
  /\ buffered' = IF Size(write.node) > 0 THEN write.position ELSE 0
  /\ pending' = Tail(pending)
  /\ UNCHANGED <<header, count, work, path, turn, contents, before>>

\* The position of the root is in the stream of the nodes, and waits for no keys.
FlushRoot ==
  /\ pending # <<>> /\ Head(pending).position = 0
  /\ header' = Head(pending).node
  /\ pending' = Tail(pending)
  /\ UNCHANGED <<file, buffered, count, work, path, turn, contents, before>>

FlushKeys ==
  /\ buffered # 0 /\ buffered' = 0
  /\ UNCHANGED <<file, header, pending, count, work, path, turn, contents, before>>

FileNext ==
  \/ \E key \in Key : Insert(key) \/ Erase(key)
  \/ SplitNode \/ InsertDone
  \/ BorrowLeft \/ BorrowRight \/ Merge \/ EraseDone
  \/ FlushNode \/ FlushRoot \/ FlushKeys

FileSpec == FileInit /\ [][FileNext]_fileVars

-------------------------------------------------------------------------------
(* The tree of BTree that the nodes are, as their process reads them. *)

RECURSIVE Tree_at(_), Trees_at(_)
Tree_at(position) ==
  LET node == disk_read(position) IN [keys |-> node.keys, kids |-> Trees_at(node.pointers)]
Trees_at(positions) ==
  IF positions = <<>> THEN <<>> ELSE <<Tree_at(Head(positions))>> \o Trees_at(Tail(positions))

Tree == Tree_at(position_root)
Indices == [depth \in 1..Len(path) - 1 |-> path[depth + 1].index]

InMemory == INSTANCE BTreeRange WITH Degree <- {T}, t <- T, root <- Tree, stack <- Indices

-------------------------------------------------------------------------------
(* Lookups in what the file holds, by the process that finds it. *)

\* Keys that are not in their file are read as anything: what is found is left open.
RECURSIVE Looked_up(_, _)
Looked_up(position, key) ==
  IF position \notin DOMAIN file THEN "missing"
  ELSE IF position = buffered THEN "anything"
  ELSE LET node == file[position] IN
       IF Found(key, node) THEN "found"
       ELSE IF node.leaf THEN "missing"
       ELSE Looked_up(node.pointers[find_index(key, node) + 1], key)

Survivors == {key \in Key : Looked_up(header, key) = "found"}
Readable == {key \in Key : Looked_up(header, key) # "anything"}

-------------------------------------------------------------------------------
(* find_range, on the iterators of BTree but for two differences. *)

\* operator-- does not leave a leaf: the loop that climbs tests for its other end.
Retreat(it) ==
  IF InMemory!IsLeaf(InMemory!NodeOf(it)) THEN [it EXCEPT !.index = @ - 1]
  ELSE InMemory!Rightmost(it)

RECURSIVE Back_to(_, _, _)
Back_to(beg, it, upper) ==
  IF ~InMemory!Same(beg, it) /\ InMemory!Dereferable(it) /\ InMemory!KeyOf(it) > upper
  THEN Back_to(beg, Retreat(it), upper) ELSE it

Before_upper(beg, it, upper) ==
  IF ~InMemory!Same(beg, it) /\ InMemory!Dereferable(it) /\ InMemory!KeyOf(it) >= upper
  THEN Retreat(it) ELSE it

\* The index of the upper key is looked up in the node of the lower one, even if the
\* upper one is found elsewhere.
Range_last(lower, upper, beg) ==
  LET tree == Tree_at(position_root)
      node == InMemory!NodeAt(tree, InMemory!find_path(tree, lower))
      place == InMemory!Place_in(InMemory!find_path(tree, upper), upper, node)
      near == IF find_index(upper, node) > place.index THEN InMemory!Advance(place) ELSE place
  IN
  Before_upper(beg, Back_to(beg, near, upper), upper)

find_range(lower, upper) ==
  LET beg == InMemory!Range_begin(lower) IN
  IF Tree_at(position_root) = InMemory!Nil THEN [keys |-> <<>>, defined |-> TRUE]
  ELSE InMemory!Range_between(beg, Range_last(lower, upper, beg), lower)

-------------------------------------------------------------------------------
(* Properties *)

\* What is assumed of the constants.
FileParameters == Key \subseteq Int /\ T \in Nat \ {0, 1} /\ MaxPosition \in Nat \ {0}

\* A node in the file has one child more than keys, or is a leaf, after every write.
FileTypeOK ==
  /\ DOMAIN file \subseteq 1..MaxPosition /\ header \in DOMAIN file
  /\ buffered \in DOMAIN file \cup {0}
  /\ count \in Nat /\ contents \subseteq Key /\ before \subseteq Key
  /\ work \in {"none", "insert", "erase"}
  /\ turn \in {"none", "insert", "split", "erase", "borrow", "merge", "root merge"}
  /\ \A position \in DOMAIN file :
       LET node == file[position] IN
       /\ node.keys \in Seq(Key)
       /\ Len(node.pointers) = IF node.leaf THEN 0 ELSE Size(node) + 1

\* The nodes in the file, read through the positions in one another, are the nodes of the
\* tree in memory, step by step: no new node is put where another one is.
ImplementsBTree == InMemory!BTreeSpec

\* A process that dies while it writes for an insertion into a leaf or for an erasure,
\* the exchange of a key with one in a leaf included, leaves files in which every key is
\* found or not as before the operation or as after it, but for the keys looked up in the
\* one node whose own are still in a buffer; and a death never leaves more.
LookupsSurviveDeath ==
  /\ turn \in {"insert", "erase"} =>
       \E keys \in {before, contents} : Survivors = keys \cap Readable
  /\ Survivors \subseteq before \cup contents

\* In a file a range is exact if its bounds lie in one node, and its lower bound is a key
\* or it does not hold just one.
FileRangeExactInANode ==
  Idle =>
    \A lower, upper \in Key :
      /\ lower < upper
      /\ find_path(lower) = find_path(upper)
      /\ \/ lower \in contents
         \/ Cardinality({key \in contents : lower <= key /\ key < upper}) # 1
      => InMemory!Exact(find_range(lower, upper), lower, upper)
===============================================================================

------------------------ MODULE MemoryControllerProofs ------------------------
(***************************************************************************)
(* For any number of tasks and requests, and any first trees the           *)
(* operations can build: the mutexes of the memory controller exclude as   *)
(* they should, though each is found through the ones above it; a task     *)
(* that acts in a tree has it, and all the trees that act may move, for    *)
(* itself; and so the vectors a waiting task is inside of stay where they  *)
(* are, whatever is added, removed, undone or redone elsewhere.            *)
(*                                                                         *)
(* First what the operations of the trees return, then who holds what,     *)
(* then the two together.  Last what the controller keeps: the records of  *)
(* its changes, for as long as its stacks are of use.                      *)
(***************************************************************************)
EXTENDS MemoryController, FiniteSetTheorems, WellFoundedInduction, SequenceTheorems, TLAPS

(***************************************************************************)
(* One tree: what is in it, and its slots.                                 *)
(***************************************************************************)

\* What the nodes of a tree hold, what its stacks hold, and trees by what their values are.
SlotOf(V) == [key : Nat, val : V]
OperationOn(V) == [kind : {"insert", "update", "remove"}, key : Nat, val : V, time : Nat]
TreeOf(V) ==
  [slots : Seq(SlotOf(V)), room : Nat, ops : Seq(OperationOn(V)), undone : Seq(OperationOn(V))]

\* What the keys of a tree lead to, one, two or three steps below the root.
Contents(level) ==
  CASE level = 3 -> Val
    [] level = 2 -> TreeOf(Val)
    [] level = 1 -> TreeOf(TreeOf(Val))
    [] level = 0 -> TreeOf(TreeOf(TreeOf(Val)))

\* What the operations of a tree ask of what is in it.
Holdable(level, V) ==
  /\ \A v \in V : Copy(level, v) \in V /\ Moved(v) \in V
  /\ \A v, home \in V : v \in Val \/ [v EXCEPT !.ops = home.ops, !.undone = home.undone] \in V

\* The keys of a tree are in its slots, one each.
LEMMA Keys ==
  ASSUME NEW V, NEW tree \in TreeOf(V)
  PROVE  /\ tree.slots \in Seq(SlotOf(V)) /\ Len(tree.slots) \in Nat
         /\ DOMAIN tree.slots = 1..Len(tree.slots)
         /\ DOMAIN KeysOf(tree) = 1..Len(tree.slots)
         /\ \A i \in 1..Len(tree.slots) :
              /\ tree.slots[i] \in SlotOf(V)
              /\ KeysOf(tree)[i] = tree.slots[i].key /\ KeysOf(tree)[i] \in Nat
<1> DEFINE slots == tree.slots
<1>1. slots \in Seq(SlotOf(V))  BY DEF TreeOf
<1>2. KeysOf(tree) = [i \in DOMAIN slots |-> slots[i].key]  BY DEF KeysOf
<1> HIDE DEF slots
<1>3. /\ Len(slots) \in Nat /\ DOMAIN slots = 1..Len(slots)
      /\ \A i \in 1..Len(slots) : slots[i] \in SlotOf(V)
  BY <1>1
<1>4. DOMAIN KeysOf(tree) = 1..Len(slots)  BY <1>2, <1>3
<1>5. \A i \in 1..Len(slots) : KeysOf(tree)[i] = slots[i].key /\ KeysOf(tree)[i] \in Nat
  BY <1>2, <1>3 DEF SlotOf
<1> QED  BY <1>1, <1>3, <1>4, <1>5 DEF slots

\* A key that is there has its place, and the value of that slot.
LEMMA Place ==
  ASSUME NEW V, NEW tree \in TreeOf(V), NEW k, Has(tree, k)
  PROVE  /\ PlaceOf(tree, k) \in 1..Len(tree.slots)
         /\ KeysOf(tree)[PlaceOf(tree, k)] = k
         /\ tree.slots[PlaceOf(tree, k)] \in SlotOf(V)
         /\ ValueAt(tree, k) \in V
<1>1. PlaceOf(tree, k) \in DOMAIN KeysOf(tree) /\ KeysOf(tree)[PlaceOf(tree, k)] = k
  BY DEF Has, PlaceOf
<1> QED  BY <1>1, Keys DEF ValueAt, SlotOf

\* Whether and where a key is, its tree's keys say alone.
LEMMA SameKeys ==
  ASSUME NEW a, NEW b, KeysOf(a) = KeysOf(b), NEW k
  PROVE  (Has(a, k) <=> Has(b, k)) /\ PlaceOf(a, k) = PlaceOf(b, k)
BY DEF Has, PlaceOf

\* update: another value, and nothing else.
LEMMA SetValue ==
  ASSUME NEW V, NEW tree \in TreeOf(V), NEW k, Has(tree, k), NEW v \in V
  PROVE  /\ SetValueAt(tree, k, v) \in TreeOf(V)
         /\ KeysOf(SetValueAt(tree, k, v)) = KeysOf(tree)
         /\ ValueAt(SetValueAt(tree, k, v), k) = v
         /\ \A j : j # k /\ Has(tree, j) => ValueAt(SetValueAt(tree, k, v), j) = ValueAt(tree, j)
<1> DEFINE i == PlaceOf(tree, k)
           new == SetValueAt(tree, k, v)
<1>1. i \in 1..Len(tree.slots) /\ KeysOf(tree)[i] = k /\ tree.slots[i] \in SlotOf(V)
  BY Place
<1>2. /\ tree.slots \in Seq(SlotOf(V)) /\ Len(tree.slots) \in Nat
      /\ DOMAIN tree.slots = 1..Len(tree.slots)
      /\ \A j \in 1..Len(tree.slots) : tree.slots[j] \in SlotOf(V)
  BY Keys
<1>3. new = [tree EXCEPT !.slots = [tree.slots EXCEPT ![i] = [tree.slots[i] EXCEPT !.val = v]]]
  BY <1>1, <1>2 DEF SetValueAt, TreeOf
<1>4. [tree.slots[i] EXCEPT !.val = v] \in SlotOf(V)  BY <1>1 DEF SlotOf
<1>5. [tree.slots EXCEPT ![i] = [tree.slots[i] EXCEPT !.val = v]] \in Seq(SlotOf(V))
  BY <1>1, <1>2, <1>4
<1>6. new \in TreeOf(V) /\ new.slots = [tree.slots EXCEPT ![i] = [tree.slots[i] EXCEPT !.val = v]]
  BY <1>3, <1>5 DEF TreeOf
<1> HIDE DEF i, new
<1>7. KeysOf(new) = KeysOf(tree)
  <2>1. \A j \in 1..Len(tree.slots) : new.slots[j].key = tree.slots[j].key
    BY <1>1, <1>2, <1>6
  <2>2. DOMAIN new.slots = DOMAIN tree.slots  BY <1>2, <1>6
  <2> QED  BY <1>2, <2>1, <2>2 DEF KeysOf
<1>8. \A j : PlaceOf(new, j) = PlaceOf(tree, j)  BY <1>7, SameKeys
<1>9. ValueAt(new, k) = v  BY <1>1, <1>2, <1>6, <1>8 DEF ValueAt, i
<1>10. ASSUME NEW j, j # k, Has(tree, j) PROVE ValueAt(new, j) = ValueAt(tree, j)
  <2>1. PlaceOf(tree, j) \in 1..Len(tree.slots) /\ KeysOf(tree)[PlaceOf(tree, j)] = j
    BY <1>10, Place
  <2>2. PlaceOf(tree, j) # i  BY <1>1, <1>10, <2>1
  <2> QED  BY <1>2, <1>6, <1>8, <2>1, <2>2 DEF ValueAt
<1> QED  BY <1>6, <1>7, <1>9, <1>10 DEF new

\* What erase and insert do to the slots they move.
LEMMA Assigned ==
  ASSUME NEW level, NEW V, Holdable(level, V), NEW home \in SlotOf(V), NEW s \in SlotOf(V)
  PROVE  MoveAssigned(home, s) \in SlotOf(V) /\ Slot(s.key, Moved(s.val)) \in SlotOf(V)
BY DEF Holdable, MoveAssigned, SlotOf, Slot

\* remove: a tree of the same kind is left.
LEMMA EraseTyped ==
  ASSUME NEW level, NEW V, Holdable(level, V), NEW tree \in TreeOf(V), NEW k, Has(tree, k)
  PROVE  EraseSlot(tree, k) \in TreeOf(V)
<1> DEFINE i == PlaceOf(tree, k)
           old == tree.slots
           n == Len(old)
           slots == [j \in 1..(n - 1) |-> IF j < i THEN old[j] ELSE MoveAssigned(old[j], old[j + 1])]
           room == IF n = 1 THEN 0 ELSE tree.room
<1>1. /\ i \in 1..n /\ n \in Nat
      /\ \A j \in 1..n : old[j] \in SlotOf(V)
  BY Place, Keys
<1>2. EraseSlot(tree, k) = [tree EXCEPT !.slots = slots, !.room = room]
  BY DEF EraseSlot, TreeOf
<1>3. room \in Nat  BY DEF TreeOf
<1> HIDE DEF i, old, n, room
<1>4. ASSUME NEW j \in 1..(n - 1)
      PROVE  (IF j < i THEN old[j] ELSE MoveAssigned(old[j], old[j + 1])) \in SlotOf(V)
  <2>1. j \in 1..n /\ j + 1 \in 1..n  BY <1>1, <1>4
  <2> QED  BY <1>1, <2>1, Assigned
<1>5. slots \in Seq(SlotOf(V))  BY <1>1, <1>4
<1> HIDE DEF slots
<1> QED  BY <1>2, <1>3, <1>5 DEF TreeOf

\* A key has its place among the others, or after them all.
LEMMA RankBound ==
  ASSUME NEW V, NEW tree \in TreeOf(V), NEW k
  PROVE  RankOf(tree, k) \in 1..(Len(tree.slots) + 1)
<1> DEFINE less == {i \in DOMAIN tree.slots : tree.slots[i].key < k}
           n == Len(tree.slots)
<1>1. n \in Nat /\ DOMAIN tree.slots = 1..n  BY Keys
<1>2. IsFiniteSet(1..n) /\ Cardinality(1..n) = n  BY <1>1, FS_Interval
<1>3. less \subseteq 1..n  BY <1>1
<1>4. Cardinality(less) \in Nat /\ Cardinality(less) <= n
  BY <1>2, <1>3, FS_Subset, FS_CardinalityType
<1> HIDE DEF n
<1>5. RankOf(tree, k) = Cardinality(less) + 1  BY DEF RankOf
<1> HIDE DEF less
<1>6. RankOf(tree, k) \in 1..(n + 1)  BY <1>1, <1>4, <1>5
<1> QED  BY <1>6 DEF n

\* insert: a tree of the same kind comes of it.
LEMMA InsertTyped ==
  ASSUME NEW level, NEW V, Holdable(level, V), NEW tree \in TreeOf(V), NEW k \in Nat, NEW v \in V
  PROVE  InsertSlot(tree, k, v) \in TreeOf(V)
<1> DEFINE i == RankOf(tree, k)
           old == tree.slots
           n == Len(old)
           constructed == [j \in 1..n |-> Slot(old[j].key, Moved(old[j].val))]
           wider == InsertAt(constructed, i, Slot(k, v))
           filled == [j \in 1..(n + 1) |->
             CASE j < i -> old[j]
               [] j = n + 1 -> IF i = n + 1 THEN Slot(k, v) ELSE constructed[n]
               [] j = i /\ j <= n -> MoveAssigned(old[j], Slot(k, v))
               [] i < j /\ j <= n -> MoveAssigned(old[j], old[j - 1])]
<1>1. /\ n \in Nat /\ i \in 1..(n + 1) /\ tree.room \in Nat
      /\ \A j \in 1..n : old[j] \in SlotOf(V)
  BY RankBound, Keys DEF TreeOf
<1>2. Slot(k, v) \in SlotOf(V)  BY DEF Slot, SlotOf
<1>3. InsertSlot(tree, k, v) =
        IF n = tree.room THEN [tree EXCEPT !.slots = wider, !.room = IF n = 0 THEN 1 ELSE 2 * n]
        ELSE [tree EXCEPT !.slots = filled]
  BY DEF InsertSlot
<1> HIDE DEF i, old, n
<1>4. constructed \in Seq(SlotOf(V)) /\ Len(constructed) = n
      /\ \A j \in 1..n : constructed[j] \in SlotOf(V)
  <2>1. \A j \in 1..n : Slot(old[j].key, Moved(old[j].val)) \in SlotOf(V)  BY <1>1, Assigned
  <2> QED  BY <1>1, <2>1
<1> HIDE DEF constructed
<1>5. wider \in Seq(SlotOf(V))
  <2>1. /\ SubSeq(constructed, 1, i - 1) \in Seq(SlotOf(V))
        /\ SubSeq(constructed, i, n) \in Seq(SlotOf(V))
    BY <1>1, <1>4
  <2>2. <<Slot(k, v)>> \in Seq(SlotOf(V))  BY <1>2
  <2> QED  BY <1>4, <2>1, <2>2 DEF InsertAt
<1>6. filled \in Seq(SlotOf(V))
  <2>1. ASSUME NEW j \in 1..(n + 1) PROVE filled[j] \in SlotOf(V)
    <3>1. CASE j < i  BY <1>1, <2>1, <3>1
    <3>2. CASE ~(j < i) /\ j = n + 1
      <4>1. n \in 1..n \/ i = n + 1  BY <1>1, <3>2
      <4> QED  BY <1>1, <1>2, <1>4, <3>2, <4>1
    <3>3. CASE j = i /\ j <= n
      <4>1. j \in 1..n /\ MoveAssigned(old[j], Slot(k, v)) \in SlotOf(V)
        BY <1>1, <1>2, <3>3, Assigned
      <4> QED  BY <1>1, <3>3, <4>1
    <3>4. CASE i < j /\ j <= n
      <4>1. j \in 1..n /\ j - 1 \in 1..n  BY <1>1, <3>4
      <4>2. MoveAssigned(old[j], old[j - 1]) \in SlotOf(V)  BY <1>1, <4>1, Assigned
      <4> QED  BY <1>1, <3>4, <4>2
    <3> QED  BY <1>1, <2>1, <3>1, <3>2, <3>3, <3>4
  <2> QED  BY <1>1, <2>1
<1> HIDE DEF wider, filled
<1>7. (IF n = 0 THEN 1 ELSE 2 * n) \in Nat  BY <1>1
<1> QED  BY <1>3, <1>5, <1>6, <1>7 DEF TreeOf

(***************************************************************************)
(* Copies.                                                                 *)
(***************************************************************************)

\* A copy of a tree whose elements can be copied.
LEMMA CopyTyped ==
  ASSUME NEW V, NEW tree \in TreeOf(V), NEW CV, \A v \in V : CV[v] \in V,
         NEW copy,
         copy = [slots |-> [i \in DOMAIN tree.slots |->
                              Slot(tree.slots[i].key, CV[tree.slots[i].val])],
                 room |-> Len(tree.slots), ops |-> <<>>, undone |-> <<>>]
  PROVE  copy \in TreeOf(V)
<1> DEFINE old == tree.slots
           n == Len(old)
           slots == [i \in DOMAIN old |-> Slot(old[i].key, CV[old[i].val])]
<1>1. n \in Nat /\ DOMAIN old = 1..n /\ \A j \in 1..n : old[j] \in SlotOf(V)  BY Keys
<1>2. copy = [slots |-> slots, room |-> n, ops |-> <<>>, undone |-> <<>>]  OBVIOUS
<1> HIDE DEF old, n
<1>3. slots \in Seq(SlotOf(V))
  <2>1. \A j \in 1..n : Slot(old[j].key, CV[old[j].val]) \in SlotOf(V)
    BY <1>1 DEF Slot, SlotOf
  <2> QED  BY <1>1, <2>1
<1> HIDE DEF slots
<1> QED  BY <1>1, <1>2, <1>3 DEF TreeOf

\* Copies of a collection, a scheme and a pool are of their kind.
LEMMA CollectionCopies ==
  ASSUME NEW c \in TreeOf(Val)
  PROVE  CopyCollection(c) \in TreeOf(Val)
<1> DEFINE CV == [v \in Val |-> v]
           slots == [i \in DOMAIN c.slots |-> Slot(c.slots[i].key, CV[c.slots[i].val])]
<1>1. \A i \in DOMAIN c.slots : c.slots[i].val \in Val  BY Keys DEF SlotOf
<1>2. slots = [i \in DOMAIN c.slots |-> Slot(c.slots[i].key, c.slots[i].val)]  BY <1>1
<1>3. CopyCollection(c) =
        [slots |-> slots, room |-> Len(c.slots), ops |-> <<>>, undone |-> <<>>]
  BY <1>2 DEF CopyCollection, Copied
<1>4. \A v \in Val : CV[v] \in Val  OBVIOUS
<1> HIDE DEF CV
<1> QED  BY <1>3, <1>4, CopyTyped

\* Copying a scheme gives a scheme ...
LEMMA SchemeCopies ==
  ASSUME NEW s \in TreeOf(TreeOf(Val))
  PROVE  CopyScheme(s) \in TreeOf(TreeOf(Val))
<1> DEFINE V == TreeOf(Val)
           CV == [v \in V |-> CopyCollection(v)]
           slots == [i \in DOMAIN s.slots |-> Slot(s.slots[i].key, CV[s.slots[i].val])]
<1>0. s \in TreeOf(V)  OBVIOUS
<1>4. \A v \in V : CV[v] \in V  BY CollectionCopies
<1> HIDE DEF V
<1>1. \A i \in DOMAIN s.slots : s.slots[i].val \in V  BY <1>0, Keys DEF SlotOf
<1>2. slots = [i \in DOMAIN s.slots |-> Slot(s.slots[i].key, CopyCollection(s.slots[i].val))]
  BY <1>1
<1>3. CopyScheme(s) =
        [slots |-> slots, room |-> Len(s.slots), ops |-> <<>>, undone |-> <<>>]
  BY <1>2 DEF CopyScheme, Copied
<1> HIDE DEF CV
<1>5. CopyScheme(s) \in TreeOf(V)  BY <1>0, <1>3, <1>4, CopyTyped
<1> QED  BY <1>5 DEF V

\* ... and copying a pool a pool.
LEMMA PoolCopies ==
  ASSUME NEW p \in TreeOf(TreeOf(TreeOf(Val)))
  PROVE  CopyPool(p) \in TreeOf(TreeOf(TreeOf(Val)))
<1> DEFINE V == TreeOf(TreeOf(Val))
           CV == [v \in V |-> CopyScheme(v)]
           slots == [i \in DOMAIN p.slots |-> Slot(p.slots[i].key, CV[p.slots[i].val])]
<1>0. p \in TreeOf(V)  OBVIOUS
<1>4. \A v \in V : CV[v] \in V  BY SchemeCopies
<1> HIDE DEF V
<1>1. \A i \in DOMAIN p.slots : p.slots[i].val \in V  BY <1>0, Keys DEF SlotOf
<1>2. slots = [i \in DOMAIN p.slots |-> Slot(p.slots[i].key, CopyScheme(p.slots[i].val))]
  BY <1>1
<1>3. CopyPool(p) =
        [slots |-> slots, room |-> Len(p.slots), ops |-> <<>>, undone |-> <<>>]
  BY <1>2 DEF CopyPool, Copied
<1> HIDE DEF CV
<1>5. CopyPool(p) \in TreeOf(V)  BY <1>0, <1>3, <1>4, CopyTyped
<1> QED  BY <1>5 DEF V

\* Trees in trees can be moved and assigned too, and values are copied as they are.
LEMMA TreesHoldable ==
  ASSUME NEW W, NEW level, \A v \in TreeOf(W) : Copy(level, v) \in TreeOf(W)
  PROVE  Holdable(level, TreeOf(W))
<1>1. <<>> \in Seq(OperationOn(W))  OBVIOUS
<1>2. ASSUME NEW v \in TreeOf(W) PROVE Moved(v) \in TreeOf(W)
  <2>1. [v EXCEPT !.ops = <<>>, !.undone = <<>>] \in TreeOf(W)  BY <1>1 DEF TreeOf
  <2> QED  BY <1>2, <2>1 DEF Moved
<1>3. ASSUME NEW v \in TreeOf(W), NEW home \in TreeOf(W)
      PROVE [v EXCEPT !.ops = home.ops, !.undone = home.undone] \in TreeOf(W)
  BY DEF TreeOf
<1> QED  BY <1>2, <1>3 DEF Holdable

\* So, on every level, elements can be held.
LEMMA ContentsHoldable ==
  ASSUME NEW level \in 0..3
  PROVE  Holdable(level, Contents(level))
<1>0. level = 0 \/ level = 1 \/ level = 2 \/ level = 3  OBVIOUS
<1>1. CASE level = 3
  <2>1. \A v \in Val : Copy(3, v) = v /\ Moved(v) = v  BY DEF Copy, Moved
  <2>2. Holdable(3, Val)  BY <2>1 DEF Holdable
  <2> QED  BY <1>1, <2>2 DEF Contents
<1>2. CASE level = 2
  <2>1. \A v \in TreeOf(Val) : Copy(2, v) \in TreeOf(Val)  BY CollectionCopies DEF Copy
  <2> QED  BY <1>2, <2>1, TreesHoldable DEF Contents
<1>3. CASE level = 1
  <2>1. \A v \in TreeOf(TreeOf(Val)) : Copy(1, v) \in TreeOf(TreeOf(Val))
    BY SchemeCopies DEF Copy
  <2> QED  BY <1>3, <2>1, TreesHoldable DEF Contents
<1>4. CASE level = 0
  <2>1. \A v \in TreeOf(TreeOf(TreeOf(Val))) : Copy(0, v) \in TreeOf(TreeOf(TreeOf(Val)))
    BY PoolCopies DEF Copy
  <2> QED  BY <1>4, <2>1, TreesHoldable DEF Contents
<1> QED  BY <1>0, <1>1, <1>2, <1>3, <1>4

(***************************************************************************)
(* Induction over numbers, and functions made one value after another.     *)
(***************************************************************************)

\* What holds at the first of the numbers up to N, and at each when at the one before.
LEMMA UpTo ==
  ASSUME NEW N \in Nat, NEW Good, 0 \in Good, \A n \in 1..N : n - 1 \in Good => n \in Good
  PROVE  \A n \in 0..N : n \in Good
<1> DEFINE bad == {n \in 0..N : n \notin Good}
<1>1. SUFFICES ASSUME bad # {} PROVE FALSE  OBVIOUS
<1>2. bad \in SUBSET Nat  OBVIOUS
<1>3. PICK n \in bad : \A m \in bad : ~(m < n)
  <2> DEFINE R == OpToRel(<, Nat)
  <2>1. IsWellFoundedOn(R, Nat)  BY NatLessThanWellFounded
  <2>2. \A i, j \in Nat : i < j => <<i, j>> \in R  BY DEF OpToRel
  <2> HIDE DEF bad, R
  <2>3. \E n \in bad : \A m \in bad : ~(<<m, n>> \in R)  BY <1>1, <1>2, <2>1, WFMin
  <2> QED  BY <1>2, <2>2, <2>3
<1>4. n \in 1..N /\ n - 1 \in 0..N  BY <1>3
<1>5. n - 1 \notin bad  BY <1>3, <1>4
<1> QED  BY <1>3, <1>4, <1>5

\* A function that follows T from b for N steps.
Iterable(S, T, b, N) ==
  \E f \in [0..N -> S] : f[0] = b /\ \A n \in 1..N : f[n] = T[f[n - 1]]

\* A function defined by what comes after each of its values.
LEMMA Iterated ==
  ASSUME NEW S, NEW T \in [S -> S], NEW b \in S, NEW N \in Nat
  PROVE  Iterable(S, T, b, N)
<1> DEFINE Is(f, n) == f[0] = b /\ \A m \in 1..n : f[m] = T[f[m - 1]]
           good == {n \in Nat : \E f \in [0..n -> S] : Is(f, n)}
<1>1. 0 \in good
  <2>1. [n \in 0..0 |-> b] \in [0..0 -> S] /\ Is([n \in 0..0 |-> b], 0)  OBVIOUS
  <2> QED  BY <2>1
<1>2. ASSUME NEW n \in 1..N, n - 1 \in good PROVE n \in good
  <2>1. PICK f \in [0..(n - 1) -> S] : Is(f, n - 1)  BY <1>2
  <2> DEFINE g == [m \in 0..n |-> IF m = n THEN T[f[n - 1]] ELSE f[m]]
  <2>2. f[n - 1] \in S  BY <1>2, <2>1
  <2>3. g \in [0..n -> S]  BY <1>2, <2>1, <2>2
  <2>4. \A m \in 1..n : g[m] = T[g[m - 1]]
    <3> SUFFICES ASSUME NEW m \in 1..n PROVE g[m] = T[g[m - 1]]  OBVIOUS
    <3>1. m - 1 \in 0..n /\ m - 1 # n /\ g[m - 1] = f[m - 1]  OBVIOUS
    <3>2. CASE m = n  BY <3>1, <3>2
    <3>3. CASE m # n
      <4>1. m \in 1..(n - 1) /\ m \in 0..n  BY <3>3
      <4>2. g[m] = f[m]  BY <3>3, <4>1
      <4>3. f[m] = T[f[m - 1]]  BY <2>1, <4>1
      <4> QED  BY <3>1, <4>2, <4>3
    <3> QED  BY <3>2, <3>3
  <2>5. g[0] = b  BY <1>2, <2>1
  <2>6. Is(g, n)  BY <2>4, <2>5
  <2> HIDE DEF g, Is
  <2> QED  BY <2>3, <2>6
<1> HIDE DEF good
<1>3. N \in good  BY <1>1, <1>2, UpTo
<1> QED  BY <1>3 DEF good, Iterable

(***************************************************************************)
(* Undo, redo, and a read of the past.                                     *)
(***************************************************************************)

\* A turn of one of the loops.
Turned(V) == [tree : TreeOf(V), threw : BOOLEAN]

\* The last of a stack and the rest.
LEMMA Tops ==
  ASSUME NEW V, NEW q \in Seq(V), q # <<>>
  PROVE  Last(q) \in V /\ Front(q) \in Seq(V)
<1>1. Len(q) \in Nat /\ Len(q) > 0  OBVIOUS
<1>2. Front(q) = SubSeq(q, 1, Len(q) - 1)  BY DEF Front
<1> QED  BY <1>1, <1>2 DEF Last

\* The stack without its top.
LEMMA Fronts ==
  ASSUME NEW V, NEW q \in Seq(V)
  PROVE  Front(q) \in Seq(V)
<1>1. CASE q = <<>>
  <2>1. SubSeq(q, 1, -1) = <<>>  BY <1>1, SubSeqEmpty
  <2>2. Front(q) = SubSeq(q, 1, -1)  BY <1>1 DEF Front
  <2> QED  BY <2>1, <2>2
<1> QED  BY <1>1, Tops

\* An operation taken back leaves a tree and an operation for the other stack.
LEMMA UndoTyped ==
  ASSUME NEW level, NEW V, Holdable(level, V), NEW tree \in TreeOf(V),
         NEW op \in OperationOn(V), ~UndoThrows(tree, op)
  PROVE  Undo(level, tree, op).tree \in TreeOf(V) /\ Undo(level, tree, op).op \in OperationOn(V)
<1>1. op.kind \in {"insert", "update", "remove"} /\ op.key \in Nat /\ op.val \in V
  BY DEF OperationOn
<1>2. \A v \in V : [op EXCEPT !.val = v] \in OperationOn(V)  BY DEF OperationOn
<1>3. CASE op.kind = "insert"
  <2>1. Has(tree, op.key)  BY <1>3 DEF UndoThrows
  <2>2. ValueAt(tree, op.key) \in V  BY <2>1, Place
  <2>3. Copy(level, ValueAt(tree, op.key)) \in V  BY <2>2 DEF Holdable
  <2>4. EraseSlot(tree, op.key) \in TreeOf(V)  BY <2>1, EraseTyped
  <2> QED  BY <1>2, <1>3, <2>3, <2>4 DEF Undo
<1>4. CASE op.kind = "update"
  <2>1. Has(tree, op.key)  BY <1>4 DEF UndoThrows
  <2>2. ValueAt(tree, op.key) \in V  BY <2>1, Place
  <2>3. SetValueAt(tree, op.key, op.val) \in TreeOf(V)  BY <1>1, <2>1, SetValue
  <2> QED  BY <1>2, <1>4, <2>2, <2>3 DEF Undo
<1>5. CASE op.kind = "remove"
  <2>1. Copy(level, op.val) \in V  BY <1>1 DEF Holdable
  <2>2. InsertSlot(tree, op.key, Copy(level, op.val)) \in TreeOf(V)
    BY <1>1, <2>1, InsertTyped
  <2> QED  BY <1>5, <2>2 DEF Undo
<1> QED  BY <1>1, <1>3, <1>4, <1>5

\* So does one made again.
LEMMA RedoTyped ==
  ASSUME NEW level, NEW V, Holdable(level, V), NEW tree \in TreeOf(V),
         NEW op \in OperationOn(V), ~RedoThrows(tree, op)
  PROVE  Redo(level, tree, op).tree \in TreeOf(V) /\ Redo(level, tree, op).op \in OperationOn(V)
<1>1. op.kind \in {"insert", "update", "remove"} /\ op.key \in Nat /\ op.val \in V
  BY DEF OperationOn
<1>2. \A v \in V : [op EXCEPT !.val = v] \in OperationOn(V)  BY DEF OperationOn
<1>3. CASE op.kind = "insert"
  <2>1. Copy(level, op.val) \in V  BY <1>1 DEF Holdable
  <2>2. InsertSlot(tree, op.key, Copy(level, op.val)) \in TreeOf(V)
    BY <1>1, <2>1, InsertTyped
  <2> QED  BY <1>3, <2>2 DEF Redo
<1>4. CASE op.kind = "update"
  <2>1. Has(tree, op.key)  BY <1>4 DEF RedoThrows
  <2>2. ValueAt(tree, op.key) \in V  BY <2>1, Place
  <2>3. SetValueAt(tree, op.key, op.val) \in TreeOf(V)  BY <1>1, <2>1, SetValue
  <2> QED  BY <1>2, <1>4, <2>2, <2>3 DEF Redo
<1>5. CASE op.kind = "remove"
  <2>1. Has(tree, op.key) => EraseSlot(tree, op.key) \in TreeOf(V)  BY EraseTyped
  <2> QED  BY <1>5, <2>1 DEF Redo
<1> QED  BY <1>1, <1>3, <1>4, <1>5

\* One turn of each of the two loops.
LEMMA UndoTurnTyped ==
  ASSUME NEW level, NEW V, Holdable(level, V), NEW s \in Turned(V), NEW time
  PROVE  UndoTurn(level, s, time) \in Turned(V)
<1> DEFINE op == Last(s.tree.ops)
           u == Undo(level, s.tree, op)
<1>1. CASE s.threw \/ ~MustUndo(s.tree, time)  BY <1>1 DEF UndoTurn
<1>2. CASE ~(s.threw \/ ~MustUndo(s.tree, time)) /\ UndoThrows(s.tree, op)
  <2>1. UndoTurn(level, s, time) = [s EXCEPT !.threw = TRUE]  BY <1>2 DEF UndoTurn
  <2> QED  BY <2>1 DEF Turned
<1>3. CASE ~(s.threw \/ ~MustUndo(s.tree, time)) /\ ~UndoThrows(s.tree, op)
  <2>1. s.tree \in TreeOf(V) /\ s.tree.ops \in Seq(OperationOn(V)) /\ s.tree.ops # <<>>
    BY <1>3 DEF MustUndo, Turned, TreeOf
  <2>2. op \in OperationOn(V)  BY <2>1, Tops
  <2>3. u.tree \in TreeOf(V) /\ u.op \in OperationOn(V)  BY <1>3, <2>1, <2>2, UndoTyped
  <2>4. UndoTurn(level, s, time) =
          [s EXCEPT !.tree = [u.tree EXCEPT !.ops = Front(@), !.undone = Append(@, u.op)]]
    BY <1>3 DEF UndoTurn
  <2> HIDE DEF u
  <2>5. Front(u.tree.ops) \in Seq(OperationOn(V))
    <3>1. u.tree.ops \in Seq(OperationOn(V))  BY <2>3 DEF TreeOf
    <3> QED  BY <3>1, Fronts
  <2>6. Append(u.tree.undone, u.op) \in Seq(OperationOn(V))  BY <2>3 DEF TreeOf
  <2>7. [u.tree EXCEPT !.ops = Front(@), !.undone = Append(@, u.op)] \in TreeOf(V)
    BY <2>3, <2>5, <2>6 DEF TreeOf
  <2> QED  BY <2>4, <2>7 DEF Turned
<1> QED  BY <1>1, <1>2, <1>3

\* ... and a turn of redo_all.
LEMMA RedoTurnTyped ==
  ASSUME NEW level, NEW V, Holdable(level, V), NEW s \in Turned(V)
  PROVE  RedoTurn(level, s) \in Turned(V)
<1> DEFINE op == Last(s.tree.undone)
           r == Redo(level, s.tree, op)
<1>1. CASE s.threw \/ s.tree.undone = <<>>  BY <1>1 DEF RedoTurn
<1>2. CASE ~(s.threw \/ s.tree.undone = <<>>) /\ RedoThrows(s.tree, op)
  <2>1. RedoTurn(level, s) = [s EXCEPT !.threw = TRUE]  BY <1>2 DEF RedoTurn
  <2> QED  BY <2>1 DEF Turned
<1>3. CASE ~(s.threw \/ s.tree.undone = <<>>) /\ ~RedoThrows(s.tree, op)
  <2>1. s.tree \in TreeOf(V) /\ s.tree.undone \in Seq(OperationOn(V)) /\ s.tree.undone # <<>>
    BY <1>3 DEF Turned, TreeOf
  <2>2. op \in OperationOn(V)  BY <2>1, Tops
  <2>3. r.tree \in TreeOf(V) /\ r.op \in OperationOn(V)  BY <1>3, <2>1, <2>2, RedoTyped
  <2>4. RedoTurn(level, s) =
          [s EXCEPT !.tree = [r.tree EXCEPT !.undone = Front(@), !.ops = Append(@, r.op)]]
    BY <1>3 DEF RedoTurn
  <2> HIDE DEF r
  <2>5. Front(r.tree.undone) \in Seq(OperationOn(V))
    <3>1. r.tree.undone \in Seq(OperationOn(V))  BY <2>3 DEF TreeOf
    <3> QED  BY <3>1, Fronts
  <2>6. Append(r.tree.ops, r.op) \in Seq(OperationOn(V))  BY <2>3 DEF TreeOf
  <2>7. [r.tree EXCEPT !.undone = Front(@), !.ops = Append(@, r.op)] \in TreeOf(V)
    BY <2>3, <2>5, <2>6 DEF TreeOf
  <2> QED  BY <2>4, <2>7 DEF Turned
<1> QED  BY <1>1, <1>2, <1>3

\* The loop of revert_to, turn by turn, whatever is on the stack.
UndoLoop(f, level, tree, time) ==
  /\ f[0] = [tree |-> tree, threw |-> FALSE]
  /\ \A n \in 1..Len(tree.ops) : f[n] = UndoTurn(level, f[n - 1], time)
  /\ RevertTo(level, tree, time) = f[Len(tree.ops)]

\* revert_to is that loop.
LEMMA RevertLoops ==
  ASSUME NEW level, NEW V, Holdable(level, V), NEW tree \in TreeOf(V), NEW time
  PROVE  \E f : UndoLoop(f, level, tree, time)
<1> DEFINE N == Len(tree.ops)
           b == [tree |-> tree, threw |-> FALSE]
           S == Turned(V)
           T == [s \in S |-> UndoTurn(level, s, time)]
           Is(f) == f = [n \in 0..N |-> IF n = 0 THEN b ELSE UndoTurn(level, f[n - 1], time)]
           after == CHOOSE f : Is(f)
<1>1. N \in Nat  BY DEF TreeOf
<1>2. b \in S  BY DEF Turned
<1>3. \A s \in S : UndoTurn(level, s, time) \in S  BY UndoTurnTyped
<1>4. T \in [S -> S]  BY <1>3
<1>5. RevertTo(level, tree, time) = after[N]  BY DEF RevertTo
<1> HIDE DEF N, b
<1>6. \E f : Is(f)
  <2> HIDE DEF S
  <2>1. PICK f \in [0..N -> S] : f[0] = b /\ \A n \in 1..N : f[n] = T[f[n - 1]]
    <3> HIDE DEF T
    <3>1. Iterable(S, T, b, N)  BY <1>1, <1>2, <1>4, Iterated
    <3> QED  BY <3>1 DEF Iterable
  <2>2. ASSUME NEW n \in 0..N
        PROVE  f[n] = IF n = 0 THEN b ELSE UndoTurn(level, f[n - 1], time)
    <3>1. CASE n = 0  BY <2>1, <3>1
    <3>2. CASE n # 0
      <4>1. n \in 1..N /\ n - 1 \in 0..N  BY <1>1, <3>2
      <4>2. f[n - 1] \in S  BY <2>1, <4>1
      <4> QED  BY <2>1, <3>2, <4>1, <4>2
    <3> QED  BY <3>1, <3>2
  <2>3. Is(f)  BY <2>1, <2>2
  <2> QED  BY <2>3
<1>7. Is(after)  BY <1>6
<1> HIDE DEF after, S
<1>8. after[0] = b /\ \A n \in 1..N : after[n] = UndoTurn(level, after[n - 1], time)
  <2>1. 0 \in 0..N /\ \A n \in 1..N : n \in 0..N /\ n # 0  BY <1>1
  <2> QED  BY <1>7, <2>1
<1>9. UndoLoop(after, level, tree, time)  BY <1>5, <1>8 DEF UndoLoop, N, b
<1> QED  BY <1>9

\* It leaves a tree.
LEMMA RevertTyped ==
  ASSUME NEW level, NEW V, Holdable(level, V), NEW tree \in TreeOf(V), NEW time
  PROVE  RevertTo(level, tree, time) \in Turned(V)
<1>1. PICK f : UndoLoop(f, level, tree, time)  BY RevertLoops
<1> DEFINE N == Len(tree.ops)
           Good == {n \in 0..N : f[n] \in Turned(V)}
<1>2. N \in Nat /\ 0 \in 0..N /\ N \in 0..N  BY DEF TreeOf
<1>3. /\ f[0] = [tree |-> tree, threw |-> FALSE]
      /\ \A n \in 1..N : f[n] = UndoTurn(level, f[n - 1], time)
      /\ RevertTo(level, tree, time) = f[N]
  BY <1>1 DEF UndoLoop
<1> HIDE DEF N
<1>4. 0 \in Good
  <2>1. f[0] \in Turned(V)  BY <1>3 DEF Turned
  <2> QED  BY <1>2, <2>1
<1>5. ASSUME NEW n \in 1..N, n - 1 \in Good PROVE n \in Good
  <2>1. n \in 0..N /\ f[n - 1] \in Turned(V)  BY <1>2, <1>5
  <2>2. f[n] \in Turned(V)  BY <1>3, <2>1, UndoTurnTyped
  <2> QED  BY <2>1, <2>2
<1> HIDE DEF Good
<1>6. \A n \in 0..N : n \in Good  BY <1>2, <1>4, <1>5, UpTo
<1>7. N \in Good  BY <1>2, <1>6
<1> QED  BY <1>3, <1>7 DEF Good

\* The loop of redo_all.
RedoLoop(f, level, tree) ==
  /\ f[0] = [tree |-> tree, threw |-> FALSE]
  /\ \A n \in 1..Len(tree.undone) : f[n] = RedoTurn(level, f[n - 1])
  /\ RedoAll(level, tree) = f[Len(tree.undone)]

\* redo_all is that loop.
LEMMA RedoAllLoops ==
  ASSUME NEW level, NEW V, Holdable(level, V), NEW tree \in TreeOf(V)
  PROVE  \E f : RedoLoop(f, level, tree)
<1> DEFINE N == Len(tree.undone)
           b == [tree |-> tree, threw |-> FALSE]
           S == Turned(V)
           T == [s \in S |-> RedoTurn(level, s)]
           Is(f) == f = [n \in 0..N |-> IF n = 0 THEN b ELSE RedoTurn(level, f[n - 1])]
           after == CHOOSE f : Is(f)
<1>1. N \in Nat  BY DEF TreeOf
<1>2. b \in S  BY DEF Turned
<1>3. \A s \in S : RedoTurn(level, s) \in S  BY RedoTurnTyped
<1>4. T \in [S -> S]  BY <1>3
<1>5. RedoAll(level, tree) = after[N]  BY DEF RedoAll
<1> HIDE DEF N, b
<1>6. \E f : Is(f)
  <2> HIDE DEF S
  <2>1. PICK f \in [0..N -> S] : f[0] = b /\ \A n \in 1..N : f[n] = T[f[n - 1]]
    <3> HIDE DEF T
    <3>1. Iterable(S, T, b, N)  BY <1>1, <1>2, <1>4, Iterated
    <3> QED  BY <3>1 DEF Iterable
  <2>2. ASSUME NEW n \in 0..N
        PROVE  f[n] = IF n = 0 THEN b ELSE RedoTurn(level, f[n - 1])
    <3>1. CASE n = 0  BY <2>1, <3>1
    <3>2. CASE n # 0
      <4>1. n \in 1..N /\ n - 1 \in 0..N  BY <1>1, <3>2
      <4>2. f[n - 1] \in S  BY <2>1, <4>1
      <4> QED  BY <2>1, <3>2, <4>1, <4>2
    <3> QED  BY <3>1, <3>2
  <2>3. Is(f)  BY <2>1, <2>2
  <2> QED  BY <2>3
<1>7. Is(after)  BY <1>6
<1> HIDE DEF after, S
<1>8. after[0] = b /\ \A n \in 1..N : after[n] = RedoTurn(level, after[n - 1])
  <2>1. 0 \in 0..N /\ \A n \in 1..N : n \in 0..N /\ n # 0  BY <1>1
  <2> QED  BY <1>7, <2>1
<1>9. RedoLoop(after, level, tree)  BY <1>5, <1>8 DEF RedoLoop, N, b
<1> QED  BY <1>9

\* It leaves a tree too.
LEMMA RedoAllTyped ==
  ASSUME NEW level, NEW V, Holdable(level, V), NEW tree \in TreeOf(V)
  PROVE  RedoAll(level, tree) \in Turned(V)
<1>1. PICK f : RedoLoop(f, level, tree)  BY RedoAllLoops
<1> DEFINE N == Len(tree.undone)
           Good == {n \in 0..N : f[n] \in Turned(V)}
<1>2. N \in Nat /\ 0 \in 0..N /\ N \in 0..N  BY DEF TreeOf
<1>3. /\ f[0] = [tree |-> tree, threw |-> FALSE]
      /\ \A n \in 1..N : f[n] = RedoTurn(level, f[n - 1])
      /\ RedoAll(level, tree) = f[N]
  BY <1>1 DEF RedoLoop
<1> HIDE DEF N
<1>4. 0 \in Good
  <2>1. f[0] \in Turned(V)  BY <1>3 DEF Turned
  <2> QED  BY <1>2, <2>1
<1>5. ASSUME NEW n \in 1..N, n - 1 \in Good PROVE n \in Good
  <2>1. n \in 0..N /\ f[n - 1] \in Turned(V)  BY <1>2, <1>5
  <2>2. f[n] \in Turned(V)  BY <1>3, <2>1, RedoTurnTyped
  <2> QED  BY <2>1, <2>2
<1> HIDE DEF Good
<1>6. \A n \in 0..N : n \in Good  BY <1>2, <1>4, <1>5, UpTo
<1>7. N \in Good  BY <1>2, <1>6
<1> QED  BY <1>3, <1>7 DEF Good

-------------------------------------------------------------------------------
\* A read of the past, level by level.
Found(V) == [tree : TreeOf(V), answer : Val \cup {"missing", "threw", "terminated"}]

\* What the destructor of perst_helper leaves on each level.
LEMMA EndedTyped ==
  ASSUME NEW level, NEW V, Holdable(level, V), NEW reverted \in Turned(V), NEW found,
         ~reverted.threw => found \in Found(V)
  PROVE  Ended(level, reverted, found) \in Found(V)
<1>1. CASE reverted.threw
  <2>1. Ended(level, reverted, found) = [tree |-> reverted.tree, answer |-> "threw"]
    BY <1>1 DEF Ended
  <2> QED  BY <2>1 DEF Found, Turned
<1>2. CASE ~reverted.threw
  <2> DEFINE redone == RedoAll(level, found.tree)
  <2>1. redone.tree \in TreeOf(V)  BY <1>2, RedoAllTyped DEF Turned, Found
  <2>2. Ended(level, reverted, found) =
          IF found.answer = "terminated" THEN found
          ELSE [tree |-> redone.tree,
                answer |-> IF redone.threw THEN "terminated" ELSE found.answer]
    BY <1>2 DEF Ended
  <2> HIDE DEF redone
  <2> QED  BY <1>2, <2>1, <2>2 DEF Found
<1> QED  BY <1>1, <1>2

\* What a read leaves on the level above.
LEMMA WithinTyped ==
  ASSUME NEW W, NEW tree \in TreeOf(TreeOf(W)), NEW k, NEW found,
         Has(tree, k) => found \in Found(W)
  PROVE  Within(tree, k, found) \in Found(TreeOf(W))
<1>1. CASE Has(tree, k)
  <2>1. Within(tree, k, found) = [found EXCEPT !.tree = SetValueAt(tree, k, found.tree)]
    BY <1>1 DEF Within
  <2>2. SetValueAt(tree, k, found.tree) \in TreeOf(TreeOf(W))
    BY <1>1, SetValue DEF Found
  <2> QED  BY <1>1, <2>1, <2>2 DEF Found
<1>2. CASE ~Has(tree, k)  BY <1>2 DEF Within, Found
<1> QED  BY <1>1, <1>2

\* A read of the past leaves pools, schemes and collections, whatever it throws.
LEMMA ReadPastTyped ==
  ASSUME NEW top \in TreeOf(Contents(0)), NEW path, NEW k, NEW time
  PROVE  ReadPast(top, path, k, time) \in Found(Contents(0))
<1> DEFINE V3 == Val
           V2 == TreeOf(V3)
           V1 == TreeOf(V2)
           V0 == TreeOf(V1)
<1>1. V3 = Contents(3) /\ V2 = Contents(2) /\ V1 = Contents(1) /\ V0 = Contents(0)
  BY DEF Contents
<1>2. Holdable(0, V0) /\ Holdable(1, V1) /\ Holdable(2, V2) /\ Holdable(3, V3)
  BY <1>1, ContentsHoldable
<1>3. ASSUME NEW c \in TreeOf(V3) PROVE ReadCollection(c, k, time) \in Found(V3)
  <2> DEFINE reverted == RevertTo(3, c, time)
             t == reverted.tree
             found == [tree |-> t, answer |-> IF Has(t, k) THEN ValueAt(t, k) ELSE "missing"]
  <2>1. reverted \in Turned(V3)  BY <1>2, RevertTyped
  <2>2. t \in TreeOf(V3)  BY <2>1 DEF Turned
  <2>3. Has(t, k) => ValueAt(t, k) \in Val  BY <2>2, Place
  <2>4. found \in Found(V3)  BY <2>2, <2>3 DEF Found
  <2>5. ReadCollection(c, k, time) = Ended(3, reverted, found)  BY DEF ReadCollection
  <2> HIDE DEF reverted, found, V3
  <2> QED  BY <1>2, <2>1, <2>4, <2>5, EndedTyped
<1> HIDE DEF V3
<1>4. ASSUME NEW s \in TreeOf(V2) PROVE ReadScheme(s, path, k, time) \in Found(V2)
  <2> DEFINE reverted == RevertTo(2, s, time)
             t == reverted.tree
             found == ReadCollection(ValueAt(t, path[3]), k, time)
  <2>1. reverted \in Turned(V2)  BY <1>2, RevertTyped
  <2>2. t \in TreeOf(V2)  BY <2>1 DEF Turned
  <2>3. Has(t, path[3]) => found \in Found(V3)  BY <1>3, <2>2, Place
  <2>4. Within(t, path[3], found) \in Found(V2)  BY <2>2, <2>3, WithinTyped
  <2>5. ReadScheme(s, path, k, time) = Ended(2, reverted, Within(t, path[3], found))
    BY DEF ReadScheme
  <2> HIDE DEF reverted, found, V2
  <2> QED  BY <1>2, <2>1, <2>4, <2>5, EndedTyped
<1> HIDE DEF V2
<1>5. ASSUME NEW p \in TreeOf(V1) PROVE ReadPool(p, path, k, time) \in Found(V1)
  <2> DEFINE reverted == RevertTo(1, p, time)
             t == reverted.tree
             found == ReadScheme(ValueAt(t, path[2]), path, k, time)
  <2>1. reverted \in Turned(V1)  BY <1>2, RevertTyped
  <2>2. t \in TreeOf(V1)  BY <2>1 DEF Turned
  <2>3. Has(t, path[2]) => found \in Found(V2)  BY <1>4, <2>2, Place
  <2>4. Within(t, path[2], found) \in Found(V1)  BY <2>2, <2>3, WithinTyped
  <2>5. ReadPool(p, path, k, time) = Ended(1, reverted, Within(t, path[2], found))
    BY DEF ReadPool
  <2> HIDE DEF reverted, found, V1
  <2> QED  BY <1>2, <2>1, <2>4, <2>5, EndedTyped
<1> HIDE DEF V1
<1>6. ReadPast(top, path, k, time) \in Found(V0)
  <2> DEFINE reverted == RevertTo(0, top, time)
             t == reverted.tree
             found == ReadPool(ValueAt(t, path[1]), path, k, time)
  <2>1. reverted \in Turned(V0)  BY <1>1, <1>2, RevertTyped
  <2>2. t \in TreeOf(V0)  BY <2>1 DEF Turned
  <2>3. Has(t, path[1]) => found \in Found(V1)  BY <1>5, <2>2, Place
  <2>4. Within(t, path[1], found) \in Found(V0)  BY <2>2, <2>3, WithinTyped
  <2>5. ReadPast(top, path, k, time) = Ended(0, reverted, Within(t, path[1], found))
    BY DEF ReadPast
  <2> HIDE DEF reverted, found, V0
  <2> QED  BY <1>2, <2>1, <2>4, <2>5, EndedTyped
<1> QED  BY <1>1, <1>6

(***************************************************************************)
(* Trees in trees.                                                         *)
(***************************************************************************)

\* What _root can be: a tree of pools.
Roots == TreeOf(Contents(0))

\* Pools hold schemes, schemes collections, collections values.
LEMMA TreesAreHeld ==
  /\ Contents(0) = TreeOf(Contents(1)) /\ Contents(1) = TreeOf(Contents(2))
  /\ Contents(2) = TreeOf(Contents(3)) /\ Contents(3) = Val
BY DEF Contents

\* Beginnings of a path, and prefixes.
LEMMA Beginnings ==
  ASSUME NEW path \in Seq(Nat), NEW n \in 0..Len(path)
  PROVE  /\ SubSeq(path, 1, n) \in Seq(Nat) /\ Len(SubSeq(path, 1, n)) = n
         /\ \A i \in 1..n : SubSeq(path, 1, n)[i] = path[i]
OBVIOUS

\* A prefix, name by name.
LEMMA PrefixBy ==
  ASSUME NEW p \in Seq(Nat), NEW q \in Seq(Nat), Len(p) <= Len(q),
         \A i \in 1..Len(p) : p[i] = q[i]
  PROVE  IsPrefix(p, q)
<1>1. Len(p) \in 0..Len(q) /\ Len(p) \in 0..Len(p)  OBVIOUS
<1>2. /\ SubSeq(p, 1, Len(p)) \in Seq(Nat) /\ Len(SubSeq(p, 1, Len(p))) = Len(p)
      /\ SubSeq(q, 1, Len(p)) \in Seq(Nat) /\ Len(SubSeq(q, 1, Len(p))) = Len(p)
      /\ \A i \in 1..Len(p) : SubSeq(p, 1, Len(p))[i] = SubSeq(q, 1, Len(p))[i]
  BY <1>1, Beginnings
<1>3. SubSeq(p, 1, Len(p)) = SubSeq(q, 1, Len(p))  BY <1>2
<1> QED  BY <1>3 DEF IsPrefix

\* The trees on a path that exists.
LEMMA OnTheWay ==
  ASSUME NEW top \in Roots, NEW path \in Seq(Nat), Len(path) \in 0..3, Exists(top, path)
  PROVE  /\ Len(path) >= 1 => /\ Has(top, path[1])
                              /\ ValueAt(top, path[1]) \in Contents(0)
         /\ Len(path) >= 2 => /\ Has(ValueAt(top, path[1]), path[2])
                              /\ ValueAt(ValueAt(top, path[1]), path[2]) \in Contents(1)
         /\ Len(path) >= 3 =>
              /\ Has(ValueAt(ValueAt(top, path[1]), path[2]), path[3])
              /\ ValueAt(ValueAt(ValueAt(top, path[1]), path[2]), path[3]) \in Contents(2)
<1> DEFINE to(n) == SubSeq(path, 1, n)
<1>1. Len(path) \in 0..3 /\ \A n \in 1..Len(path) : Has(TreeAt(top, to(n - 1)), path[n])
  BY DEF Exists
<1>2. \A n \in 0..Len(path) : Len(to(n)) = n /\ \A i \in 1..n : to(n)[i] = path[i]
  BY Beginnings
<1> HIDE DEF to
<1>3. ASSUME Len(path) >= 1
      PROVE Has(top, path[1]) /\ ValueAt(top, path[1]) \in Contents(0)
  <2>1. Len(to(0)) = 0  BY <1>2, <1>3
  <2>2. TreeAt(top, to(0)) = top  BY <2>1 DEF TreeAt
  <2>3. Has(TreeAt(top, to(1 - 1)), path[1])  BY <1>1, <1>3
  <2>4. Has(top, path[1])  BY <2>2, <2>3
  <2> QED  BY <2>4, Place DEF Roots
<1>4. ASSUME Len(path) >= 2
      PROVE /\ Has(ValueAt(top, path[1]), path[2])
            /\ ValueAt(ValueAt(top, path[1]), path[2]) \in Contents(1)
  <2>0. 1 \in 0..Len(path) /\ 1 \in 1..1  BY <1>1, <1>4
  <2>1. Len(to(1)) = 1 /\ to(1)[1] = path[1]  BY <1>2, <2>0, Zenon
  <2>2. TreeAt(top, to(1)) = ValueAt(top, path[1])  BY <2>1 DEF TreeAt
  <2>3. Has(TreeAt(top, to(2 - 1)), path[2])  BY <1>1, <1>4
  <2>4. Has(ValueAt(top, path[1]), path[2])  BY <2>2, <2>3
  <2>5. ValueAt(top, path[1]) \in TreeOf(Contents(1))  BY <1>1, <1>3, <1>4, TreesAreHeld
  <2> QED  BY <2>4, <2>5, Place
<1>5. ASSUME Len(path) >= 3
      PROVE /\ Has(ValueAt(ValueAt(top, path[1]), path[2]), path[3])
            /\ ValueAt(ValueAt(ValueAt(top, path[1]), path[2]), path[3]) \in Contents(2)
  <2>0. 2 \in 0..Len(path) /\ 1 \in 1..2 /\ 2 \in 1..2  BY <1>1, <1>5
  <2>1. Len(to(2)) = 2 /\ to(2)[1] = path[1] /\ to(2)[2] = path[2]  BY <1>2, <2>0, Zenon
  <2>2. TreeAt(top, to(2)) = ValueAt(ValueAt(top, path[1]), path[2])  BY <2>1 DEF TreeAt
  <2>3. Has(TreeAt(top, to(3 - 1)), path[3])  BY <1>1, <1>5
  <2>4. Has(ValueAt(ValueAt(top, path[1]), path[2]), path[3])  BY <2>2, <2>3
  <2>5. ValueAt(ValueAt(top, path[1]), path[2]) \in TreeOf(Contents(2))
    BY <1>1, <1>4, <1>5, TreesAreHeld
  <2> QED  BY <2>4, <2>5, Place
<1> QED  BY <1>3, <1>4, <1>5

\* What is found on a path is of its level.
LEMMA TreeTyped ==
  ASSUME NEW top \in Roots, NEW path \in Seq(Nat), Len(path) \in 0..3, Exists(top, path)
  PROVE  TreeAt(top, path) \in TreeOf(Contents(Len(path)))
<1>0. Len(path) \in 0..3  OBVIOUS
<1>1. CASE Len(path) = 0  BY <1>1 DEF TreeAt, Roots
<1>2. CASE Len(path) = 1
  <2>1. TreeAt(top, path) = ValueAt(top, path[1])  BY <1>2 DEF TreeAt
  <2>2. ValueAt(top, path[1]) \in Contents(0)  BY <1>2, OnTheWay
  <2> QED  BY <1>2, <2>1, <2>2, TreesAreHeld
<1>3. CASE Len(path) = 2
  <2>1. TreeAt(top, path) = ValueAt(ValueAt(top, path[1]), path[2])  BY <1>3 DEF TreeAt
  <2>2. ValueAt(ValueAt(top, path[1]), path[2]) \in Contents(1)  BY <1>3, OnTheWay
  <2> QED  BY <1>3, <2>1, <2>2, TreesAreHeld
<1>4. CASE Len(path) = 3
  <2>0. Len(path) >= 3  BY <1>4
  <2>1. TreeAt(top, path) = ValueAt(ValueAt(ValueAt(top, path[1]), path[2]), path[3])
    BY <1>4 DEF TreeAt
  <2>2. ValueAt(ValueAt(ValueAt(top, path[1]), path[2]), path[3]) \in Contents(2)
    BY <2>0, OnTheWay, Zenon
  <2> QED  BY <1>4, <2>1, <2>2, TreesAreHeld
<1> QED  BY <1>0, <1>1, <1>2, <1>3, <1>4

\* The tree at path replaced: the trees on the way get the new one beneath, and
\* keep their keys and the other trees beneath.
LEMMA ReplacedIs ==
  ASSUME NEW top \in Roots, NEW path \in Seq(Nat), Len(path) \in 1..3, Exists(top, path),
         NEW new \in TreeOf(Contents(Len(path)))
  PROVE  \E x1 \in Contents(0) :
           /\ Replaced(top, path, new) = SetValueAt(top, path[1], x1)
           /\ Len(path) = 1 => x1 = new
           /\ Len(path) >= 2 =>
                \E x2 \in Contents(1) :
                  /\ x1 = SetValueAt(ValueAt(top, path[1]), path[2], x2)
                  /\ Len(path) = 2 => x2 = new
                  /\ Len(path) >= 3 =>
                       x2 = SetValueAt(ValueAt(ValueAt(top, path[1]), path[2]), path[3], new)
<1> DEFINE to(n) == SubSeq(path, 1, n)
           V1 == ValueAt(top, path[1])
           V2 == ValueAt(V1, path[2])
<1>1. \A n \in 0..Len(path) : Len(to(n)) = n /\ \A i \in 1..n : to(n)[i] = path[i]
  BY Beginnings
<1>2. /\ Has(top, path[1]) /\ V1 \in TreeOf(Contents(1))
      /\ Len(path) >= 2 => Has(V1, path[2]) /\ V2 \in TreeOf(Contents(2))
      /\ Len(path) >= 3 => Has(V2, path[3])
  BY OnTheWay, TreesAreHeld
<1> DEFINE In(n, below) == SetValueAt(TreeAt(top, to(n)), path[n + 1], below)
<1>3. Replaced(top, path, new) =
        CASE Len(path) = 0 -> new
          [] Len(path) = 1 -> In(0, new)
          [] Len(path) = 2 -> In(0, In(1, new))
          [] Len(path) = 3 -> In(0, In(1, In(2, new)))
  BY DEF Replaced
<1> HIDE DEF to
<1>4. \A below : In(0, below) = SetValueAt(top, path[1], below)
  <2>1. Len(to(0)) = 0  BY <1>1
  <2>2. TreeAt(top, to(0)) = top  BY <2>1 DEF TreeAt
  <2> QED  BY <2>2
<1>5. \A below : In(1, below) = SetValueAt(V1, path[2], below)
  <2>0. 1 \in 0..Len(path) /\ 1 \in 1..1  OBVIOUS
  <2>1. Len(to(1)) = 1 /\ to(1)[1] = path[1]  BY <1>1, <2>0, Zenon
  <2>2. TreeAt(top, to(1)) = V1  BY <2>1 DEF TreeAt
  <2> QED  BY <2>2
<1>6. Len(path) >= 2 => \A below : In(2, below) = SetValueAt(V2, path[3], below)
  <2> SUFFICES ASSUME Len(path) >= 2 PROVE \A below : In(2, below) = SetValueAt(V2, path[3], below)
    OBVIOUS
  <2>0. 2 \in 0..Len(path) /\ 1 \in 1..2 /\ 2 \in 1..2  OBVIOUS
  <2>1. Len(to(2)) = 2 /\ to(2)[1] = path[1] /\ to(2)[2] = path[2]  BY <1>1, <2>0, Zenon
  <2>2. TreeAt(top, to(2)) = V2  BY <2>1 DEF TreeAt
  <2> QED  BY <2>2
<1> HIDE DEF In, V1, V2
<1>7. CASE Len(path) = 1
  <2>1. Replaced(top, path, new) = SetValueAt(top, path[1], new)  BY <1>3, <1>4, <1>7
  <2>2. new \in Contents(0)  BY <1>7, TreesAreHeld
  <2> QED  BY <1>7, <2>1, <2>2
<1>8. CASE Len(path) = 2
  <2>1. new \in Contents(1)  BY <1>8, TreesAreHeld
  <2>2. SetValueAt(V1, path[2], new) \in Contents(0)  BY <1>2, <1>8, <2>1, SetValue, TreesAreHeld
  <2>3. Replaced(top, path, new) = SetValueAt(top, path[1], SetValueAt(V1, path[2], new))
    BY <1>3, <1>4, <1>5, <1>8
  <2> QED  BY <1>8, <2>1, <2>2, <2>3 DEF V1
<1>9. CASE Len(path) = 3
  <2>1. new \in Contents(2)  BY <1>9, TreesAreHeld
  <2>2. SetValueAt(V2, path[3], new) \in Contents(1)  BY <1>2, <1>9, <2>1, SetValue, TreesAreHeld
  <2>3. SetValueAt(V1, path[2], SetValueAt(V2, path[3], new)) \in Contents(0)
    BY <1>2, <1>9, <2>2, SetValue, TreesAreHeld
  <2>4. Replaced(top, path, new) =
          SetValueAt(top, path[1], SetValueAt(V1, path[2], SetValueAt(V2, path[3], new)))
    BY <1>3, <1>4, <1>5, <1>6, <1>9
  <2> QED  BY <1>9, <2>2, <2>3, <2>4 DEF V1, V2
<1> QED  BY <1>7, <1>8, <1>9

\* The root with a tree replaced is a root.
LEMMA ReplacedTyped ==
  ASSUME NEW top \in Roots, NEW path \in Seq(Nat), Len(path) \in 0..3, Exists(top, path),
         NEW new \in TreeOf(Contents(Len(path)))
  PROVE  Replaced(top, path, new) \in Roots
<1>1. CASE Len(path) = 0  BY <1>1 DEF Replaced, Roots
<1>2. CASE Len(path) \in 1..3
  <2>1. PICK x \in Contents(0) : Replaced(top, path, new) = SetValueAt(top, path[1], x)
    BY <1>2, ReplacedIs
  <2>2. Has(top, path[1])  BY <1>2, OnTheWay
  <2> QED  BY <2>1, <2>2, SetValue DEF Roots
<1> QED  BY <1>1, <1>2

\* Two paths that agree begin alike.
LEMMA SameBeginning ==
  ASSUME NEW p \in Seq(Nat), NEW q \in Seq(Nat), NEW n, n \in 0..Len(p), n \in 0..Len(q),
         \A i \in 1..n : p[i] = q[i]
  PROVE  SubSeq(p, 1, n) = SubSeq(q, 1, n)
<1>1. /\ SubSeq(p, 1, n) \in Seq(Nat) /\ Len(SubSeq(p, 1, n)) = n
      /\ SubSeq(q, 1, n) \in Seq(Nat) /\ Len(SubSeq(q, 1, n)) = n
      /\ \A i \in 1..n : SubSeq(p, 1, n)[i] = p[i] /\ SubSeq(q, 1, n)[i] = q[i]
  BY Beginnings
<1> QED  BY <1>1

\* A tree that does not lie below path keeps its keys.
LEMMA KeysElsewhere ==
  ASSUME NEW top \in Roots, NEW path \in Seq(Nat), Len(path) \in 0..3, Exists(top, path),
         NEW new \in TreeOf(Contents(Len(path))),
         NEW q \in Seq(Nat), Len(q) \in 0..2, ~IsPrefix(path, q), Exists(top, q)
  PROVE  KeysOf(TreeAt(Replaced(top, path, new), q)) = KeysOf(TreeAt(top, q))
<1> DEFINE V1 == ValueAt(top, path[1])
           V2 == ValueAt(V1, path[2])
           made == Replaced(top, path, new)
<1>0. /\ Len(path) = 0 \/ Len(path) = 1 \/ Len(path) = 2 \/ Len(path) = 3
      /\ Len(q) = 0 \/ Len(q) = 1 \/ Len(q) = 2
  OBVIOUS
<1>1. Len(path) = 1 \/ Len(path) = 2 \/ Len(path) = 3
  <2>1. CASE Len(path) = 0
    <3>1. Len(path) <= Len(q) /\ \A i \in 1..Len(path) : path[i] = q[i]  BY <1>0, <2>1
    <3>2. IsPrefix(path, q)  BY <3>1, PrefixBy
    <3> QED  BY <3>2
  <2> QED  BY <1>0, <2>1
<1>2. PICK x1 \in Contents(0) :
        /\ made = SetValueAt(top, path[1], x1)
        /\ Len(path) = 1 => x1 = new
        /\ Len(path) >= 2 =>
             \E x2 \in Contents(1) :
               /\ x1 = SetValueAt(V1, path[2], x2)
               /\ Len(path) = 2 => x2 = new
               /\ Len(path) >= 3 => x2 = SetValueAt(V2, path[3], new)
  BY <1>1, ReplacedIs
<1>3. Has(top, path[1]) /\ V1 \in TreeOf(Contents(1))  BY <1>1, OnTheWay, TreesAreHeld
<1>4. /\ KeysOf(made) = KeysOf(top) /\ ValueAt(made, path[1]) = x1
      /\ \A j : j # path[1] /\ Has(top, j) => ValueAt(made, j) = ValueAt(top, j)
  BY <1>2, <1>3, SetValue DEF Roots
<1> HIDE DEF made, V1
<1>5. CASE Len(q) = 0  BY <1>4, <1>5 DEF TreeAt, made
<1>6. ASSUME Len(q) >= 1, q[1] # path[1]
      PROVE  KeysOf(TreeAt(made, q)) = KeysOf(TreeAt(top, q))
  <2>1. Has(top, q[1])  BY <1>6, OnTheWay
  <2>2. ValueAt(made, q[1]) = ValueAt(top, q[1])  BY <1>4, <1>6, <2>1
  <2>3. Len(q) = 1 \/ Len(q) = 2  BY <1>6
  <2>4. TreeAt(made, q) = TreeAt(top, q)
    <3>1. CASE Len(q) = 1
      <4>1. TreeAt(made, q) = ValueAt(made, q[1]) /\ TreeAt(top, q) = ValueAt(top, q[1])
        BY <3>1 DEF TreeAt
      <4> QED  BY <2>2, <4>1
    <3>2. CASE Len(q) = 2
      <4>1. /\ TreeAt(made, q) = ValueAt(ValueAt(made, q[1]), q[2])
            /\ TreeAt(top, q) = ValueAt(ValueAt(top, q[1]), q[2])
        BY <3>2 DEF TreeAt
      <4> QED  BY <2>2, <4>1
    <3> QED  BY <2>3, <3>1, <3>2
  <2> QED  BY <2>4
<1>7. ASSUME Len(q) >= 1, q[1] = path[1]
      PROVE  KeysOf(TreeAt(made, q)) = KeysOf(TreeAt(top, q))
  <2>1. Len(path) >= 2
    <3>1. CASE Len(path) = 1
      <4>1. Len(path) <= Len(q) /\ \A i \in 1..Len(path) : path[i] = q[i]  BY <1>0, <1>7, <3>1
      <4>2. IsPrefix(path, q)  BY <4>1, PrefixBy
      <4> QED  BY <4>2
    <3>2. CASE Len(path) = 2  BY <3>2
    <3>3. CASE Len(path) = 3  BY <3>3
    <3> QED  BY <1>1, <3>1, <3>2, <3>3
  <2>2. PICK x2 \in Contents(1) :
          /\ x1 = SetValueAt(V1, path[2], x2)
          /\ Len(path) >= 3 => x2 = SetValueAt(V2, path[3], new)
    BY <1>2, <2>1
  <2>3. Has(V1, path[2]) /\ V2 \in TreeOf(Contents(2))  BY <2>1, OnTheWay, TreesAreHeld DEF V1
  <2>4. /\ KeysOf(x1) = KeysOf(V1) /\ ValueAt(x1, path[2]) = x2
        /\ \A j : j # path[2] /\ Has(V1, j) => ValueAt(x1, j) = ValueAt(V1, j)
    BY <1>3, <2>2, <2>3, SetValue
  <2>5. ValueAt(made, q[1]) = x1 /\ ValueAt(top, q[1]) = V1  BY <1>4, <1>7 DEF V1
  <2>6. CASE Len(q) = 1
    <3>1. TreeAt(made, q) = x1 /\ TreeAt(top, q) = V1  BY <2>5, <2>6 DEF TreeAt
    <3> QED  BY <2>4, <3>1
  <2>7. CASE Len(q) = 2
    <3>1. TreeAt(made, q) = ValueAt(x1, q[2]) /\ TreeAt(top, q) = ValueAt(V1, q[2])
      BY <2>5, <2>7 DEF TreeAt
    <3>2. CASE q[2] # path[2]
      <4>1. Has(V1, q[2])  BY <2>5, <2>7, OnTheWay
      <4> QED  BY <2>4, <3>1, <3>2, <4>1
    <3>3. CASE q[2] = path[2]
      <4>0. Len(path) = 3
        <5>1. CASE Len(path) = 1  BY <2>1, <5>1
        <5>2. CASE Len(path) = 2
          <6>1. Len(path) <= Len(q) /\ \A i \in 1..Len(path) : path[i] = q[i]
            BY <1>7, <2>7, <3>3, <5>2
          <6>2. IsPrefix(path, q)  BY <6>1, PrefixBy
          <6> QED  BY <6>2
        <5> QED  BY <1>1, <5>1, <5>2
      <4>1. Len(path) >= 3  BY <4>0
      <4>2. Has(V2, path[3])  BY <4>1, OnTheWay DEF V1
      <4>3. new \in Contents(2)
        <5> QED  BY <4>0, TreesAreHeld
      <4>4. x2 = SetValueAt(V2, path[3], new)  BY <2>2, <4>1
      <4>5. KeysOf(x2) = KeysOf(V2)  BY <2>3, <4>2, <4>3, <4>4, SetValue
      <4> QED  BY <2>4, <3>1, <3>3, <4>5
    <3> QED  BY <3>2, <3>3
  <2> QED  BY <1>7, <2>6, <2>7
<1> QED  BY <1>5, <1>6, <1>7 DEF made

\* What exists goes on existing, unless it lies below path.
LEMMA ExistsElsewhere ==
  ASSUME NEW top \in Roots, NEW path \in Seq(Nat), Len(path) \in 0..3, Exists(top, path),
         NEW new \in TreeOf(Contents(Len(path))),
         NEW q \in Seq(Nat), Len(q) \in 0..3, Exists(top, q),
         \A n \in 0..(Len(q) - 1) : ~IsPrefix(path, SubSeq(q, 1, n))
  PROVE  Exists(Replaced(top, path, new), q)
<1> SUFFICES ASSUME NEW n \in 1..Len(q)
             PROVE  Has(TreeAt(Replaced(top, path, new), SubSeq(q, 1, n - 1)), q[n])
  BY DEF Exists
<1> DEFINE p == SubSeq(q, 1, n - 1)
<1>1. n - 1 \in 0..Len(q) /\ n - 1 \in 0..2 /\ n - 1 \in 0..(Len(q) - 1) /\ n \in Nat
  <2>1. PICK l \in 0..3 : l = Len(q)  OBVIOUS
  <2>2. n \in 1..l  BY <2>1
  <2>3. n - 1 \in 0..l /\ n - 1 \in 0..2 /\ n - 1 \in 0..(l - 1) /\ n \in Nat  BY <2>2
  <2> QED  BY <2>1, <2>3
<1>2. p \in Seq(Nat) /\ Len(p) = n - 1 /\ \A i \in 1..(n - 1) : p[i] = q[i]
  BY <1>1, Beginnings
<1>3. ~IsPrefix(path, p)  BY <1>1
<1>4. Has(TreeAt(top, p), q[n])  BY DEF Exists
<1>5. Exists(top, p)
  <2> SUFFICES ASSUME NEW m \in 1..Len(p) PROVE Has(TreeAt(top, SubSeq(p, 1, m - 1)), p[m])
    BY DEF Exists
  <2>1. m \in 1..(n - 1) /\ m \in 1..Len(q) /\ m - 1 \in 0..Len(p) /\ m - 1 \in 0..Len(q)
    BY <1>2
  <2>2. SubSeq(p, 1, m - 1) = SubSeq(q, 1, m - 1)
    <3>1. \A i \in 1..(m - 1) : p[i] = q[i]  BY <1>2, <2>1
    <3> HIDE DEF p
    <3> QED  BY <1>2, <2>1, <3>1, SameBeginning
  <2>3. p[m] = q[m]  BY <1>2, <2>1
  <2> QED  BY <2>1, <2>2, <2>3 DEF Exists
<1>6. KeysOf(TreeAt(Replaced(top, path, new), p)) = KeysOf(TreeAt(top, p))
  BY <1>1, <1>2, <1>3, <1>5, KeysElsewhere
<1> QED  BY <1>4, <1>6, SameKeys

(***************************************************************************)
(* Changes.                                                                *)
(***************************************************************************)

\* Prefixes of prefixes, and beginnings.
LEMMA PrefixOfPrefix ==
  ASSUME NEW a \in Seq(Nat), NEW b \in Seq(Nat), NEW c \in Seq(Nat), IsPrefix(a, b), IsPrefix(b, c)
  PROVE  IsPrefix(a, c) /\ Len(a) <= Len(b)
<1>1. Len(a) \in 0..Len(a) /\ Len(b) \in 0..Len(b)  OBVIOUS
<1>2. Len(a) <= Len(b) /\ Len(b) <= Len(c)  BY DEF IsPrefix
<1>3. Len(a) \in 0..Len(b) /\ Len(b) \in 0..Len(c)  BY <1>2
<1>4. \A i \in 1..Len(a) : a[i] = b[i]
  <2> SUFFICES ASSUME NEW i \in 1..Len(a) PROVE a[i] = b[i]  OBVIOUS
  <2>1. SubSeq(a, 1, Len(a)) = SubSeq(b, 1, Len(a))  BY DEF IsPrefix
  <2>2. SubSeq(a, 1, Len(a))[i] = a[i]  BY <1>1, Beginnings
  <2>3. SubSeq(b, 1, Len(a))[i] = b[i]  BY <1>3, Beginnings
  <2> QED  BY <2>1, <2>2, <2>3
<1>5. \A i \in 1..Len(b) : b[i] = c[i]
  <2> SUFFICES ASSUME NEW i \in 1..Len(b) PROVE b[i] = c[i]  OBVIOUS
  <2>1. SubSeq(b, 1, Len(b)) = SubSeq(c, 1, Len(b))  BY DEF IsPrefix
  <2>2. SubSeq(b, 1, Len(b))[i] = b[i]  BY <1>1, Beginnings
  <2>3. SubSeq(c, 1, Len(b))[i] = c[i]  BY <1>3, Beginnings
  <2> QED  BY <2>1, <2>2, <2>3
<1>6. Len(a) <= Len(c) /\ \A i \in 1..Len(a) : a[i] = c[i]  BY <1>2, <1>4, <1>5
<1> QED  BY <1>2, <1>6, PrefixBy

\* The first names of a path lead to a tree above.
LEMMA BeginningIsPrefix ==
  ASSUME NEW path \in Seq(Nat), NEW n \in 0..Len(path)
  PROVE  IsPrefix(SubSeq(path, 1, n), path)
<1>1. /\ SubSeq(path, 1, n) \in Seq(Nat) /\ Len(SubSeq(path, 1, n)) = n
      /\ \A i \in 1..n : SubSeq(path, 1, n)[i] = path[i]
  BY Beginnings
<1>2. n <= Len(path)  OBVIOUS
<1> QED  BY <1>1, <1>2, PrefixBy

\* Where a change is made.
LEMMA Containers ==
  ASSUME NEW c \in ChangeType
  PROVE  /\ Container(c) \in Seq(Nat) /\ Len(Container(c)) \in 0..3
         /\ Len(Container(c)) = Depth(c.op) - 1
         /\ Container(c) = SubSeq(c.path, 1, Depth(c.op) - 1)
         /\ c.op \in AddOps => Len(Container(c)) \in 0..2
         /\ c.op \in DataOps => Len(Container(c)) = 3
         /\ KeyIn(c) \in Nat
         /\ c.op \in {"insert", "update"} => c.val \in Val
<1>1. /\ c.op \in DirOps \cup DataOps /\ c.path \in Seq(Nat) /\ Given(c)
  BY NamesAssumption DEF ChangeType
<1>2. CASE c.op \in DirOps
  <2>1. Len(c.path) = Depth(c.op) /\ Depth(c.op) \in 1..3
    BY <1>1, <1>2 DEF Given, Depth, DirOps, AddOps, RemoveOps
  <2>2. PICK n \in 0..2 : Depth(c.op) = n + 1 /\ Len(c.path) = n + 1 /\ n = Depth(c.op) - 1
    <3>1. Depth(c.op) - 1 \in 0..2  BY <2>1
    <3> QED  BY <2>1, <3>1
  <2>3. n \in 0..Len(c.path) /\ Len(c.path) - 1 = n  BY <2>2
  <2>4. Container(c) = SubSeq(c.path, 1, n)  BY <1>2, <2>3 DEF Container, Parent
  <2>5. Container(c) \in Seq(Nat) /\ Len(Container(c)) = n  BY <1>1, <2>3, <2>4, Beginnings
  <2>6. KeyIn(c) \in Nat
    <3>1. Last(c.path) = c.path[n + 1] /\ n + 1 \in 1..Len(c.path)  BY <2>2 DEF Last
    <3> QED  BY <1>1, <1>2, <3>1 DEF KeyIn
  <2>7. c.op \notin DataOps /\ c.op \notin {"insert", "update"}
    BY <1>2 DEF DirOps, AddOps, RemoveOps, DataOps
  <2> QED  BY <2>2, <2>4, <2>5, <2>6, <2>7
<1>3. CASE c.op \in DataOps
  <2>1. c.op \notin DirOps /\ c.op \notin AddOps /\ Depth(c.op) = 4
    BY <1>3 DEF DirOps, AddOps, RemoveOps, DataOps, Depth
  <2>2. Len(c.path) = 3 /\ c.key \in Key /\ (c.op \in {"insert", "update"} => c.val \in Val)
    BY <1>1, <2>1 DEF Given
  <2>3. Container(c) = c.path /\ KeyIn(c) = c.key  BY <2>1 DEF Container, KeyIn
  <2>4. c.path = SubSeq(c.path, 1, 3)  BY <1>1, <2>2
  <2>5. Depth(c.op) - 1 = 3  BY <2>1
  <2>6. Container(c) \in Seq(Nat) /\ Len(Container(c)) = 3 /\ KeyIn(c) \in Nat
    BY <1>1, <2>2, <2>3, NamesAssumption
  <2>7. Container(c) = SubSeq(c.path, 1, Depth(c.op) - 1)  BY <2>3, <2>4, <2>5
  <2> QED  BY <2>1, <2>2, <2>5, <2>6, <2>7
<1> QED  BY <1>1, <1>2, <1>3

\* A new tree is empty, with two empty stacks.
LEMMA NewTreeTyped == ASSUME NEW V PROVE NewTree \in TreeOf(V)
<1>1. <<>> \in Seq(SlotOf(V)) /\ <<>> \in Seq(OperationOn(V))  OBVIOUS
<1> QED  BY <1>1 DEF NewTree, TreeOf

\* An operation noted in a tree.
LEMMA PushTyped ==
  ASSUME NEW V, NEW tree \in TreeOf(V), NEW kind \in {"insert", "update", "remove"},
         NEW k \in Nat, NEW v \in V, NEW time \in Nat
  PROVE  /\ Push(tree, kind, k, v, time) \in TreeOf(V)
         /\ Push(tree, kind, k, v, time).slots = tree.slots
         /\ KeysOf(Push(tree, kind, k, v, time)) = KeysOf(tree)
<1> DEFINE op == [kind |-> kind, key |-> k, val |-> v, time |-> time]
           pushed == Push(tree, kind, k, v, time)
<1>1. op \in OperationOn(V)  BY DEF OperationOn
<1>2. pushed = [tree EXCEPT !.ops = Append(tree.ops, op)]  BY DEF Push, TreeOf
<1> HIDE DEF op, pushed
<1>3. Append(tree.ops, op) \in Seq(OperationOn(V))  BY <1>1 DEF TreeOf
<1>4. pushed \in TreeOf(V) /\ pushed.slots = tree.slots  BY <1>2, <1>3 DEF TreeOf
<1>5. KeysOf(pushed) = KeysOf(tree)  BY <1>4 DEF KeysOf
<1> QED  BY <1>4, <1>5 DEF pushed

\* The tree a change makes of its container.
LEMMA MadeIs ==
  ASSUME NEW top \in Roots, NEW c \in ChangeType, Possible(top, c), NEW time \in Nat
  PROVE  \E new \in TreeOf(Contents(Len(Container(c)))) :
           Made(top, c, time) = Replaced(top, Container(c), new)
<1> DEFINE level == Len(Container(c))
           container == TreeAt(top, Container(c))
           k == KeyIn(c)
           V == Contents(level)
<1>1. /\ Container(c) \in Seq(Nat) /\ level \in 0..3 /\ k \in Nat
      /\ c.op \in AddOps => level \in 0..2
      /\ c.op \in DataOps => level = 3
      /\ c.op \in {"insert", "update"} => c.val \in Val
  BY Containers
<1>2. Exists(top, Container(c))  BY DEF Possible
<1>3. container \in TreeOf(V) /\ Holdable(level, V)  BY <1>1, <1>2, TreeTyped, ContentsHoldable
<1>4. c.op \in AddOps \cup RemoveOps \cup {"insert", "update", "remove"}
  BY DEF ChangeType, DirOps, DataOps
<1>5. Has(container, k) <=> c.op \notin AddOps \cup {"insert"}  BY DEF Possible
<1> DEFINE new ==
          CASE c.op \in AddOps -> InsertKey(level, container, k, NewTree, time)
            [] c.op = "insert" -> InsertKey(level, container, k, c.val, time)
            [] c.op \in RemoveOps \cup {"remove"} -> EraseKey(level, container, k, time)
            [] c.op = "update" -> UpdateKey(container, k, c.val, time)
<1>6. Made(top, c, time) = Replaced(top, Container(c), new)
  BY DEF Made
<1> HIDE DEF level, container, k, V
<1>7. ASSUME NEW v \in V PROVE InsertKey(level, container, k, v, time) \in TreeOf(V)
  <2>1. Copy(level, v) \in V  BY <1>3, <1>7 DEF Holdable
  <2>2. Push(container, "insert", k, Copy(level, v), time) \in TreeOf(V)
    BY <1>1, <1>3, <2>1, PushTyped
  <2> QED  BY <1>1, <1>3, <2>1, <2>2, InsertTyped DEF InsertKey
<1>8. ASSUME c.op \in AddOps PROVE new \in TreeOf(V)
  <2>1. NewTree \in V
    <3>1. level = 0 \/ level = 1 \/ level = 2  BY <1>1, <1>8
    <3> QED  BY <3>1, NewTreeTyped, TreesAreHeld DEF V
  <2>2. InsertKey(level, container, k, NewTree, time) \in TreeOf(V)  BY <1>7, <2>1
  <2>3. new = InsertKey(level, container, k, NewTree, time)  BY <1>8 DEF AddOps, RemoveOps
  <2> QED  BY <2>2, <2>3
<1>9. ASSUME c.op = "insert" PROVE new \in TreeOf(V)
  <2>1. c.val \in V  BY <1>1, <1>9, TreesAreHeld DEF V, DataOps
  <2>2. InsertKey(level, container, k, c.val, time) \in TreeOf(V)  BY <1>7, <2>1
  <2>3. c.op \notin AddOps  BY <1>9 DEF AddOps
  <2>4. new = InsertKey(level, container, k, c.val, time)  BY <1>9 DEF AddOps, RemoveOps
  <2> QED  BY <2>2, <2>4
<1>10. ASSUME c.op \in RemoveOps \cup {"remove"} PROVE new \in TreeOf(V)
  <2>1. c.op \notin AddOps /\ c.op # "insert"  BY <1>10 DEF AddOps, RemoveOps
  <2>2. Has(container, k)  BY <1>5, <2>1
  <2>3. Copy(level, ValueAt(container, k)) \in V
    <3>1. ValueAt(container, k) \in V  BY <1>3, <2>2, Place
    <3> QED  BY <1>3, <3>1 DEF Holdable
  <2> DEFINE v == Copy(level, ValueAt(container, k))
             pushed == Push(container, "remove", k, v, time)
  <2>11. v \in V  BY <2>3
  <2> HIDE DEF v
  <2>12. k \in Nat /\ container \in TreeOf(V)  BY <1>1, <1>3
  <2>13. pushed \in TreeOf(V)  BY <2>11, <2>12, PushTyped
  <2>14. KeysOf(pushed) = KeysOf(container)  BY <2>11, <2>12, PushTyped
  <2>5. Has(pushed, k)  BY <2>2, <2>14, SameKeys
  <2>6. EraseKey(level, container, k, time) \in TreeOf(V)
    BY <1>3, <2>13, <2>5, EraseTyped DEF EraseKey, v
  <2>7. new = EraseKey(level, container, k, time)  BY <1>10 DEF AddOps, RemoveOps
  <2> QED  BY <2>6, <2>7
<1>11. ASSUME c.op = "update" PROVE new \in TreeOf(V)
  <2>1. c.op \notin AddOps /\ c.op # "insert" /\ c.op \notin RemoveOps \cup {"remove"}
    BY <1>11 DEF AddOps, RemoveOps
  <2>2. Has(container, k)  BY <1>5, <2>1
  <2>3. ValueAt(container, k) \in V  BY <1>3, <2>2, Place
  <2> DEFINE v == ValueAt(container, k)
             pushed == Push(container, "update", k, v, time)
  <2>11. v \in V  BY <2>3
  <2> HIDE DEF v
  <2>12. k \in Nat /\ container \in TreeOf(V)  BY <1>1, <1>3
  <2>13. pushed \in TreeOf(V)  BY <2>11, <2>12, PushTyped
  <2>14. KeysOf(pushed) = KeysOf(container)  BY <2>11, <2>12, PushTyped
  <2>5. Has(pushed, k)  BY <2>2, <2>14, SameKeys
  <2>6. c.val \in V  BY <1>1, <1>11, TreesAreHeld DEF V, DataOps
  <2>7. UpdateKey(container, k, c.val, time) \in TreeOf(V)
    BY <2>13, <2>5, <2>6, SetValue DEF UpdateKey, v
  <2>8. new = UpdateKey(container, k, c.val, time)  BY <1>11 DEF AddOps, RemoveOps
  <2> QED  BY <2>7, <2>8
<1>12. new \in TreeOf(V)  BY <1>4, <1>8, <1>9, <1>10, <1>11
<1> HIDE DEF new
<1> QED  BY <1>6, <1>12 DEF level, V

\* So a change leaves pools, schemes and collections.
LEMMA MadeTyped ==
  ASSUME NEW top \in Roots, NEW c \in ChangeType, Possible(top, c), NEW time \in Nat
  PROVE  Made(top, c, time) \in Roots
<1>1. PICK new \in TreeOf(Contents(Len(Container(c)))) :
        Made(top, c, time) = Replaced(top, Container(c), new)
  BY MadeIs
<1>2. Container(c) \in Seq(Nat) /\ Len(Container(c)) \in 0..3  BY Containers
<1>3. Exists(top, Container(c))  BY DEF Possible
<1> QED  BY <1>1, <1>2, <1>3, ReplacedTyped

(***************************************************************************)
(* Who holds which mutex.                                                  *)
(***************************************************************************)

\* How many mutexes a task has at each place of its function.
Counted(t) ==
  /\ pc[t] \in {"new", "publish", "finished"} => depth[t] = 0
  /\ pc[t] = "lock" => depth[t] < Depth(request[t].op)
  /\ pc[t] = "act" => depth[t] = Depth(request[t].op)
  /\ pc[t] = "unlock" => depth[t] >= 1
  /\ depth[t] <= Depth(request[t].op)

\* Every task counts its mutexes as its place in its code says.
ControlInv ==
  /\ depth \in [Task -> Nat]
  /\ pc \in [Task -> Labels]
  /\ request \in [Task -> Request]
  /\ \A t \in Task : Counted(t)

\* MutexesExclude, for whatever name.
Exclude ==
  \A t, u \in Task : t # u =>
    \A p \in Seq(Nat) : HoldsMutexUniquely(t, p) => ~HoldsMutex(u, p)

\* A request goes no further down than its path leads.
LEMMA DepthRange ==
  ASSUME NEW r \in Request
  PROVE  /\ Depth(r.op) \in 1..4 /\ Depth(r.op) <= Len(r.path) + 1
         /\ r.path \in Seq(Nat)
<1>1. r.op \in DirOps \cup DataOps \cup ReadOps /\ r.path \in Path
  BY RequestAssumption DEF RequestType
<1>2. Depth(r.op) \in 1..4
  BY <1>1 DEF DirOps, AddOps, RemoveOps, DataOps, ReadOps, Depth
<1>3. Len(r.path) = IF r.op \in DirOps THEN Depth(r.op) ELSE 3
  BY NamesGiven DEF Given
<1>4. Depth(r.op) <= Len(r.path) + 1
  <2>1. CASE r.op \in DirOps  BY <1>2, <1>3, <2>1
  <2>2. CASE r.op \notin DirOps  BY <1>2, <1>3, <2>2
  <2> QED  BY <2>1, <2>2
<1> QED  BY <1>1, <1>2, <1>4, NamesAssumption

\* It is more than the type invariant.
LEMMA TypesFollow == ControlInv => TypeOK
<1> SUFFICES ASSUME ControlInv PROVE TypeOK  OBVIOUS
<1>1. \A t \in Task : depth[t] \in 0..4 /\ depth[t] <= Depth(request[t].op)
  <2> SUFFICES ASSUME NEW t \in Task PROVE depth[t] \in 0..4 /\ depth[t] <= Depth(request[t].op)
    OBVIOUS
  <2>1. Depth(request[t].op) \in 1..4  BY DepthRange DEF ControlInv
  <2>2. depth[t] <= Depth(request[t].op)  BY DEF ControlInv, Counted
  <2> QED  BY <2>1, <2>2 DEF ControlInv
<1>2. request \in [Task -> RequestType]  BY RequestAssumption DEF ControlInv
<1> QED  BY <1>1, <1>2 DEF ControlInv, TypeOK

-------------------------------------------------------------------------------
(* The two invariants are inductive. *)

\* At the start no task holds a mutex.
LEMMA InitHolds == Init => ControlInv /\ Exclude
<1> SUFFICES ASSUME Init PROVE ControlInv /\ Exclude  OBVIOUS
<1>1. \A t \in Task : depth[t] = 0 /\ pc[t] = "new" /\ request[t] \in Request
  BY RequestAssumption DEF Init
<1>2. depth \in [Task -> Nat] /\ pc \in [Task -> Labels] /\ request \in [Task -> Request]
  BY RequestAssumption DEF Init, Labels
<1>3. \A t \in Task : Counted(t)
  <2> SUFFICES ASSUME NEW t \in Task PROVE Counted(t)  OBVIOUS
  <2>1. Depth(request[t].op) \in 1..4  BY <1>1, DepthRange
  <2> QED  BY <1>1, <2>1 DEF Counted
<1>4. \A t \in Task, p \in Seq(Nat) : ~HoldsMutex(t, p)  BY <1>1 DEF HoldsMutex
<1> QED  BY <1>2, <1>3, <1>4 DEF ControlInv, Exclude

\* A task other than t keeps what it has; t gains no mutex.
LEMMA OneMoves ==
  ASSUME ControlInv, Exclude, NEW t \in Task,
         depth' \in [Task -> Nat], pc' \in [Task -> Labels], request' \in [Task -> Request],
         \A u \in Task \ {t} : /\ depth'[u] = depth[u] /\ request'[u] = request[u]
                               /\ pc'[u] = pc[u],
         Counted(t)',
         \/ request'[t] = request[t] /\ depth'[t] <= depth[t]
         \/ depth'[t] = 0
  PROVE  ControlInv' /\ Exclude'
<1>1. \A u \in Task : Counted(u)'
  <2> SUFFICES ASSUME NEW u \in Task, u # t PROVE Counted(u)'  OBVIOUS
  <2>1. Counted(u)  BY DEF ControlInv
  <2> QED  BY <2>1 DEF Counted
<1>2. ASSUME NEW u \in Task, NEW p \in Seq(Nat), HoldsMutex(u, p)'
      PROVE HoldsMutex(u, p) /\ request'[u] = request[u]
  <2>1. depth'[u] \in Nat /\ depth[u] \in Nat /\ Len(p) \in Nat  BY DEF ControlInv
  <2>2. depth'[u] # 0  BY <1>2, <2>1 DEF HoldsMutex
  <2>3. request'[u] = request[u] /\ depth'[u] <= depth[u]  BY <2>1, <2>2
  <2> QED  BY <1>2, <2>1, <2>3 DEF HoldsMutex
<1>3. Exclude'
  <2> SUFFICES ASSUME NEW u \in Task, NEW w \in Task, u # w, NEW p \in Seq(Nat),
                      HoldsMutexUniquely(u, p)', HoldsMutex(w, p)'
               PROVE FALSE
    BY DEF Exclude
  <2>1. HoldsMutex(u, p)' /\ UniqueMutex(request'[u].op, Len(p) + 1)
    BY DEF HoldsMutexUniquely, UniqueMutex
  <2>2. HoldsMutexUniquely(u, p)  BY <1>2, <2>1 DEF HoldsMutexUniquely
  <2>3. HoldsMutex(w, p)  BY <1>2
  <2> QED  BY <2>2, <2>3 DEF Exclude
<1> QED  BY <1>1, <1>3 DEF ControlInv

\* A name that is a prefix of another is the beginning of it of its length.
LEMMA PrefixIs ==
  ASSUME NEW p \in Seq(Nat), NEW q \in Seq(Nat), IsPrefix(p, q)
  PROVE  p = SubSeq(q, 1, Len(p)) /\ Len(p) <= Len(q)
<1>1. SubSeq(p, 1, Len(p)) = SubSeq(q, 1, Len(p)) /\ Len(p) <= Len(q)  BY DEF IsPrefix
<1>2. p = SubSeq(p, 1, Len(p))  OBVIOUS
<1> QED  BY <1>1, <1>2

\* A mutex is taken only when no other task is in its way.
LEMMA TakeMutexKeeps ==
  ASSUME ControlInv, Exclude, NEW t \in Task, TakeMutex(t)
  PROVE  ControlInv' /\ Exclude'
<1> DEFINE r == request[t]
           own == SubSeq(r.path, 1, depth[t])
           n == depth[t] + 1
<1>1. r \in Request /\ depth[t] \in Nat /\ pc[t] = "lock"  BY DEF ControlInv, TakeMutex
<1>2. depth[t] < Depth(r.op) /\ Depth(r.op) \in 1..4 /\ Depth(r.op) <= Len(r.path) + 1
      /\ r.path \in Seq(Nat)
  BY <1>1, DepthRange DEF ControlInv, Counted
<1>3. own \in Seq(Nat) /\ Len(own) = depth[t]  BY <1>1, <1>2
<1>4. MayTake(t, own, UniqueMutex(r.op, n))  BY DEF TakeMutex
<1>5. /\ depth' = [depth EXCEPT ![t] = n] /\ request' = request
      /\ \E l \in {"lock", "act", "unlock"} :
           /\ pc' = [pc EXCEPT ![t] = l]
           /\ l = "lock" => n < Depth(r.op)
           /\ l = "act" => ~(n < Depth(r.op))
  BY DEF TakeMutex, Goto
<1>6. PICK l \in {"lock", "act", "unlock"} :
        /\ pc' = [pc EXCEPT ![t] = l]
        /\ l = "lock" => n < Depth(r.op)
        /\ l = "act" => ~(n < Depth(r.op))
  BY <1>5
<1>7. depth' \in [Task -> Nat] /\ pc' \in [Task -> Labels] /\ request' \in [Task -> Request]
  BY <1>1, <1>5, <1>6 DEF ControlInv, Labels
<1>8. \A u \in Task : Counted(u)'
  <2> SUFFICES ASSUME NEW u \in Task PROVE Counted(u)'  OBVIOUS
  <2>1. CASE u = t
    <3>1. pc'[t] = l /\ depth'[t] = n /\ request'[t] = r  BY <1>5, <1>6 DEF ControlInv
    <3> QED  BY <2>1, <3>1, <1>1, <1>2, <1>6 DEF Counted
  <2>2. CASE u # t
    <3>1. pc'[u] = pc[u] /\ depth'[u] = depth[u] /\ request'[u] = request[u]
      BY <2>2, <1>5, <1>6 DEF ControlInv
    <3>2. Counted(u)  BY DEF ControlInv
    <3> QED  BY <3>1, <3>2 DEF Counted
  <2> QED  BY <2>1, <2>2
<1>9. ASSUME NEW u \in Task, NEW p \in Seq(Nat), HoldsMutex(u, p)'
      PROVE HoldsMutex(u, p) \/ (u = t /\ p = own)
  <2>1. CASE u # t
    <3>1. depth'[u] = depth[u] /\ request'[u] = request[u]  BY <2>1, <1>5 DEF ControlInv
    <3> QED  BY <1>9, <3>1 DEF HoldsMutex
  <2>2. CASE u = t
    <3>1. Len(p) < n /\ IsPrefix(p, r.path)  BY <2>2, <1>9, <1>5 DEF HoldsMutex, ControlInv
    <3>2. p = SubSeq(r.path, 1, Len(p))  BY <3>1, <1>2, PrefixIs
    <3>3. CASE Len(p) = depth[t]  BY <2>2, <3>2, <3>3
    <3>4. CASE Len(p) < depth[t]  BY <2>2, <3>1, <3>4 DEF HoldsMutex
    <3> QED  BY <3>1, <3>3, <3>4, <1>1
  <2> QED  BY <2>1, <2>2
<1>10. Exclude'
  <2> SUFFICES ASSUME NEW u \in Task, NEW w \in Task, u # w, NEW p \in Seq(Nat),
                      HoldsMutexUniquely(u, p)', HoldsMutex(w, p)'
               PROVE FALSE
    BY DEF Exclude
  <2>1. HoldsMutex(u, p)' /\ UniqueMutex(request[u].op, Len(p) + 1)
    BY <1>5 DEF HoldsMutexUniquely, UniqueMutex
  <2>2. HoldsMutex(u, p) \/ (u = t /\ p = own)  BY <1>9, <2>1
  <2>3. HoldsMutex(w, p) \/ (w = t /\ p = own)  BY <1>9
  <2>4. CASE HoldsMutex(u, p) /\ HoldsMutex(w, p)
    BY <2>1, <2>4 DEF Exclude, HoldsMutexUniquely
  <2>5. CASE u = t /\ p = own /\ HoldsMutex(w, p)
    <3>1. UniqueMutex(r.op, n)  BY <2>1, <2>5, <1>3
    <3> QED  BY <2>5, <3>1, <1>4 DEF MayTake
  <2>6. CASE w = t /\ p = own /\ HoldsMutex(u, p)
    <3>1. HoldsMutexUniquely(u, p)  BY <2>1, <2>6 DEF HoldsMutexUniquely
    <3> QED  BY <2>6, <3>1, <1>4 DEF MayTake
  <2> QED  BY <2>2, <2>3, <2>4, <2>5, <2>6
<1> QED  BY <1>7, <1>8, <1>10 DEF ControlInv

\* Acting in a tree.
Acts(t) ==
  \/ AddPool(t) \/ RemovePool(t) \/ AddScheme(t) \/ RemoveScheme(t)
  \/ AddCollection(t) \/ RemoveCollection(t)
  \/ Insert(t) \/ Update(t) \/ RemoveKey(t) \/ Read(t)

\* A task that acts goes on to give its mutexes back.
LEMMA ActFrames ==
  ASSUME NEW t \in Task, Acts(t)
  PROVE  pc[t] = "act" /\ pc' = [pc EXCEPT ![t] = "unlock"] /\ UNCHANGED <<depth, request>>
<1> USE DEF Acting, ActFrame, Goto
<1>1. CASE \E op \in DirOps \cup DataOps : OnNewKey(t, op) \/ OnOldKey(t, op)
  BY <1>1 DEF OnNewKey, OnOldKey
<1>2. CASE Read(t)  BY <1>2 DEF Read
<1> QED  BY <1>1, <1>2 DEF Acts, AddPool, AddScheme, AddCollection, RemovePool, RemoveScheme,
       RemoveCollection, Insert, Update, RemoveKey, DirOps, AddOps, RemoveOps, DataOps

\* Steps that leave the mutexes alone: t goes on elsewhere, or every task is lost.
LEMMA ActsKeep ==
  ASSUME ControlInv, Exclude, NEW t \in Task, Acts(t) \/ ReadAt(t)
  PROVE  ControlInv' /\ Exclude'
<1>1. pc[t] = "act" /\ UNCHANGED <<depth, request>>
  BY ActFrames DEF ReadAt, Acting
<1>2. \/ pc' = [pc EXCEPT ![t] = "unlock"]
      \/ pc' = [u \in Task |-> "lost"]
  BY ActFrames DEF ReadAt, Goto
<1>3. depth[t] >= 1
  <2>1. Depth(request[t].op) \in 1..4  BY DepthRange DEF ControlInv
  <2>2. depth[t] = Depth(request[t].op)  BY <1>1 DEF ControlInv, Counted
  <2> QED  BY <2>1, <2>2
<1>4. \A u \in Task : Counted(u)'
  <2> SUFFICES ASSUME NEW u \in Task PROVE Counted(u)'  OBVIOUS
  <2>1. pc'[u] = pc[u] \/ (u = t /\ pc'[u] = "unlock") \/ pc'[u] = "lost"
    BY <1>2 DEF ControlInv
  <2>2. Counted(u)  BY DEF ControlInv
  <2> QED  BY <1>1, <1>3, <2>1, <2>2 DEF Counted
<1>5. pc' \in [Task -> Labels]  BY <1>2 DEF ControlInv, Labels
<1>6. Exclude'  BY <1>1 DEF Exclude, HoldsMutexUniquely, HoldsMutex, UniqueMutex
<1> QED  BY <1>1, <1>4, <1>5, <1>6 DEF ControlInv

\* Giving a mutex back is in nobody's way.
LEMMA ReleaseKeeps ==
  ASSUME ControlInv, Exclude, NEW t \in Task, ReleaseMutex(t)
  PROVE  ControlInv' /\ Exclude'
<1>1. /\ pc[t] = "unlock" /\ depth[t] \in Nat /\ depth[t] >= 1
      /\ depth[t] <= Depth(request[t].op)
  BY DEF ReleaseMutex, ControlInv, Counted
<1>2. /\ depth' = [depth EXCEPT ![t] = depth[t] - 1] /\ request' = request
      /\ \E l \in {"unlock", "lost", "publish"} :
           pc' = [pc EXCEPT ![t] = l] /\ (l = "unlock" <=> depth[t] > 1)
  BY DEF ReleaseMutex, Goto, taskVars
<1>3. PICK l \in {"unlock", "lost", "publish"} :
        pc' = [pc EXCEPT ![t] = l] /\ (l = "unlock" <=> depth[t] > 1)
  BY <1>2
<1>4. depth' \in [Task -> Nat] /\ pc' \in [Task -> Labels] /\ request' \in [Task -> Request]
  BY <1>1, <1>2, <1>3 DEF ControlInv, Labels
<1>5. \A u \in Task \ {t} : /\ depth'[u] = depth[u] /\ request'[u] = request[u]
                            /\ pc'[u] = pc[u]
  BY <1>2, <1>3 DEF ControlInv
<1>6. depth'[t] = depth[t] - 1 /\ pc'[t] = l /\ request'[t] = request[t]
  BY <1>2, <1>3 DEF ControlInv
<1>7. Depth(request[t].op) \in 1..4  BY DepthRange DEF ControlInv
<1>8. Counted(t)'  BY <1>1, <1>3, <1>6, <1>7 DEF Counted
<1>9. depth'[t] <= depth[t]  BY <1>1, <1>6
<1> QED  BY <1>4, <1>5, <1>6, <1>8, <1>9, OneMoves

\* Nor is a task that holds none.
LEMMA OthersKeep ==
  ASSUME ControlInv, Exclude, NEW t \in Task, Start(t) \/ Publish(t) \/ Get(t)
  PROVE  ControlInv' /\ Exclude'
<1>1. CASE Start(t)
  <2>1. PICK q \in Request : request' = [request EXCEPT ![t] = q]  BY <1>1 DEF Start
  <2>2. depth' = depth /\ pc' = [pc EXCEPT ![t] = "lock"] /\ depth[t] = 0
    BY <1>1 DEF Start, Goto, ControlInv, Counted
  <2>3. depth' \in [Task -> Nat] /\ pc' \in [Task -> Labels] /\ request' \in [Task -> Request]
    BY <2>1, <2>2 DEF ControlInv, Labels
  <2>4. \A u \in Task \ {t} : /\ depth'[u] = depth[u] /\ request'[u] = request[u]
                              /\ pc'[u] = pc[u]
    BY <2>1, <2>2 DEF ControlInv
  <2>5. depth'[t] = 0 /\ pc'[t] = "lock" /\ request'[t] = q  BY <2>1, <2>2 DEF ControlInv
  <2>6. Depth(q.op) \in 1..4  BY DepthRange
  <2>7. Counted(t)'  BY <2>5, <2>6 DEF Counted
  <2> QED  BY <2>3, <2>4, <2>5, <2>7, OneMoves
<1>2. CASE Publish(t)
  <2>1. pc[t] = "publish" /\ pc' = [pc EXCEPT ![t] = "finished"] /\ UNCHANGED <<depth, request>>
    BY <1>2 DEF Publish, Goto
  <2>2. depth' \in [Task -> Nat] /\ pc' \in [Task -> Labels] /\ request' \in [Task -> Request]
    BY <2>1 DEF ControlInv, Labels
  <2>3. \A u \in Task \ {t} : /\ depth'[u] = depth[u] /\ request'[u] = request[u]
                              /\ pc'[u] = pc[u]
    BY <2>1 DEF ControlInv
  <2>4. depth[t] = 0 /\ depth'[t] = 0 /\ pc'[t] = "finished" /\ request'[t] = request[t]
    BY <2>1 DEF ControlInv, Counted
  <2>5. Depth(request[t].op) \in 1..4  BY DepthRange DEF ControlInv
  <2>6. Counted(t)'  BY <2>4, <2>5 DEF Counted
  <2> QED  BY <2>2, <2>3, <2>4, <2>6, OneMoves
<1>3. CASE Get(t)
  <2>1. UNCHANGED <<depth, request, pc>>  BY <1>3 DEF Get
  <2> QED  BY <2>1 DEF ControlInv, Counted, Exclude, HoldsMutexUniquely, HoldsMutex, UniqueMutex
<1> QED  BY <1>1, <1>2, <1>3

\* So every step keeps the count and the exclusion.
LEMMA StepKeeps == ControlInv /\ Exclude /\ [Next]_vars => ControlInv' /\ Exclude'
<1> SUFFICES ASSUME ControlInv, Exclude, [Next]_vars PROVE ControlInv' /\ Exclude'
  OBVIOUS
<1>1. ASSUME NEW t \in Task, Start(t) \/ Publish(t) \/ Get(t) PROVE ControlInv' /\ Exclude'
  BY <1>1, OthersKeep
<1>2. ASSUME NEW t \in Task, Acts(t) \/ ReadAt(t) PROVE ControlInv' /\ Exclude'
  BY <1>2, ActsKeep
<1>3. ASSUME NEW t \in Task, TakeMutex(t) PROVE ControlInv' /\ Exclude'
  BY <1>3, TakeMutexKeeps
<1>4. ASSUME NEW t \in Task, ReleaseMutex(t) PROVE ControlInv' /\ Exclude'
  BY <1>4, ReleaseKeeps
<1>5. CASE UNCHANGED vars
  BY <1>5 DEF vars, ControlInv, Counted, Exclude, HoldsMutexUniquely, HoldsMutex, UniqueMutex
<1> QED  BY <1>1, <1>2, <1>3, <1>4, <1>5 DEF Next, Finished, TaskStep, Acts

\* The inductive invariant: the mutexes a task has are counted right where it is, and
\* they exclude.
THEOREM ControlCorrect == Spec => [](ControlInv /\ Exclude)
BY InitHolds, StepKeeps, PTL DEF Spec

-------------------------------------------------------------------------------

\* Types, and no task holds more mutexes than its operation takes.
THEOREM MemoryTypeCorrect == Spec => []TypeOK
BY ControlCorrect, TypesFollow, PTL

\* lock_guard and shared_lock on mutexes that are found on the way down exclude each
\* other for any number of tasks.
THEOREM MutualExclusion == Spec => []MutexesExclude
<1>1. ControlInv /\ Exclude => MutexesExclude
  <2> SUFFICES ASSUME ControlInv, Exclude, NEW t \in Task, NEW u \in Task, t # u,
                      NEW n \in 0..depth[t] - 1
               PROVE HoldsMutexUniquely(t, SubSeq(request[t].path, 1, n)) =>
                       ~HoldsMutex(u, SubSeq(request[t].path, 1, n))
    BY DEF MutexesExclude
  <2>1. request[t] \in Request /\ depth[t] \in Nat  BY DEF ControlInv
  <2>2. depth[t] <= Depth(request[t].op)  BY DEF ControlInv, Counted
  <2>3. n <= Len(request[t].path) /\ request[t].path \in Seq(Nat)
    BY <2>1, <2>2, DepthRange
  <2>4. SubSeq(request[t].path, 1, n) \in Seq(Nat)  BY <2>1, <2>3
  <2> QED  BY <2>4 DEF Exclude
<1> QED  BY <1>1, ControlCorrect, PTL

\* The last mutex, unique, keeps all others out of the tree and of those below.
LEMMA ChangersAlone == ControlInv /\ Exclude => ChangesAlone
<1> SUFFICES ASSUME ControlInv, Exclude, NEW t \in Task, NEW u \in Task, t # u,
                    pc[t] = "act", request[t].op # "read",
                    NEW p, p = SubSeq(request[t].path, 1, Depth(request[t].op) - 1),
                    IsPrefix(p, request[u].path)
             PROVE depth[u] <= Len(p)
  BY DEF ChangesAlone
<1>1. request[t] \in Request /\ depth[u] \in Nat  BY DEF ControlInv
<1>2. depth[t] = Depth(request[t].op)  BY DEF ControlInv, Counted
<1>3. /\ Depth(request[t].op) \in 1..4 /\ request[t].path \in Seq(Nat)
      /\ Depth(request[t].op) - 1 <= Len(request[t].path)
  BY <1>1, DepthRange
<1>4. p \in Seq(Nat) /\ Len(p) = Depth(request[t].op) - 1
  <2> DEFINE d == Depth(request[t].op) - 1
  <2>1. d \in 0..Len(request[t].path)  BY <1>3
  <2> HIDE DEF d
  <2>2. SubSeq(request[t].path, 1, d) \in Seq(Nat) /\ Len(SubSeq(request[t].path, 1, d)) = d
    BY <1>3, <2>1
  <2> QED  BY <2>2 DEF d
<1>5. IsPrefix(p, request[t].path)
  <2>1. SubSeq(p, 1, Len(p)) = p  BY <1>4
  <2> QED  BY <2>1, <1>3, <1>4 DEF IsPrefix
<1>6. HoldsMutexUniquely(t, p)
  BY <1>2, <1>3, <1>4, <1>5 DEF HoldsMutexUniquely, HoldsMutex, UniqueMutex
<1>7. ~HoldsMutex(u, p)  BY <1>4, <1>6 DEF Exclude
<1> QED  BY <1>1, <1>4, <1>7 DEF HoldsMutex

\* A task that is about to change a tree, in remove, insert or add of any level, has it
\* and the trees below it for itself.
THEOREM ActsAlone == Spec => []ChangesAlone
BY ChangersAlone, ControlCorrect, PTL

(***************************************************************************)
(* The trees of the controller.                                            *)
(***************************************************************************)

\* Where a task waits for a mutex or acts, the trees are that it came through.
Reached(t) ==
  pc[t] \in {"lock", "act"} =>
    \A n \in 1..depth[t] :
      n < Depth(request[t].op) =>
        Has(TreeAt(root, SubSeq(request[t].path, 1, n - 1)), request[t].path[n])

\* The root is a root, the journal one of changes, and tasks find what they came through.
TreesInv ==
  /\ root \in Roots
  /\ journal \in Seq(ChangeType)
  /\ \A t \in Task : Reached(t)

\* The trees of the first changes.
LEMMA BuiltIs ==
  \A n \in 0..Len(Before) :
    Built[n] = IF n = 0 THEN NewTree ELSE Made(Built[n - 1], Before[n], n)
<1> DEFINE N == Len(Before)
           Is(f, n) == /\ DOMAIN f = 0..n /\ f[0] = NewTree
                       /\ \A m \in 1..n : f[m] = Made(f[m - 1], Before[m], m)
           good == {n \in Nat : \E f : Is(f, n)}
           Rec(f) == f = [n \in 0..N |-> IF n = 0 THEN NewTree ELSE Made(f[n - 1], Before[n], n)]
<1>0. N \in Nat  BY BeforeAssumption
<1> HIDE DEF N
<1>1. 0 \in good
  <2>1. Is([n \in 0..0 |-> NewTree], 0)  OBVIOUS
  <2> QED  BY <2>1
<1>2. ASSUME NEW n \in 1..N, n - 1 \in good PROVE n \in good
  <2>1. PICK f : Is(f, n - 1)  BY <1>2
  <2> DEFINE g == [m \in 0..n |-> IF m = n THEN Made(f[n - 1], Before[n], n) ELSE f[m]]
  <2>2. n \in Nat /\ n # 0 /\ n - 1 \in 0..n /\ n - 1 # n /\ 0 \in 0..n  BY <1>0
  <2>3. \A m \in 1..n : g[m] = Made(g[m - 1], Before[m], m)
    <3> SUFFICES ASSUME NEW m \in 1..n PROVE g[m] = Made(g[m - 1], Before[m], m)  OBVIOUS
    <3>1. m - 1 \in 0..n /\ m - 1 # n /\ g[m - 1] = f[m - 1]  BY <2>2
    <3>2. CASE m = n  BY <2>2, <3>1, <3>2
    <3>3. CASE m # n
      <4>1. m \in 1..(n - 1) /\ m \in 0..n  BY <2>2, <3>3
      <4>2. g[m] = f[m]  BY <3>3, <4>1
      <4>3. f[m] = Made(f[m - 1], Before[m], m)  BY <2>1, <4>1
      <4> QED  BY <3>1, <4>2, <4>3
    <3> QED  BY <3>2, <3>3
  <2>4. g[0] = NewTree  BY <2>1, <2>2
  <2>5. DOMAIN g = 0..n  OBVIOUS
  <2> HIDE DEF g
  <2>6. Is(g, n)  BY <2>3, <2>4, <2>5
  <2> HIDE DEF Is
  <2> QED  BY <2>2, <2>6
<1>3. N \in good
  <2> HIDE DEF good
  <2> QED  BY <1>0, <1>1, <1>2, UpTo
<1>4. \E f : Rec(f)
  <2>1. PICK f : Is(f, N)  BY <1>3
  <2> DEFINE g == [n \in 0..N |-> f[n]]
  <2>2. ASSUME NEW n \in 0..N
        PROVE g[n] = IF n = 0 THEN NewTree ELSE Made(g[n - 1], Before[n], n)
    <3>1. CASE n = 0  BY <1>0, <2>1, <3>1
    <3>2. CASE n # 0
      <4>1. n \in 1..N /\ n - 1 \in 0..N  BY <1>0, <3>2
      <4>2. f[n] = Made(f[n - 1], Before[n], n)  BY <2>1, <4>1
      <4> QED  BY <3>2, <4>1, <4>2
    <3> QED  BY <3>1, <3>2
  <2>3. g = [n \in 0..N |-> g[n]]  OBVIOUS
  <2> HIDE DEF g
  <2>4. Rec(g)  BY <2>2, <2>3
  <2> QED  BY <2>4
<1>5. Built = CHOOSE f : Rec(f)  BY DEF Built, N
<1>6. Rec(Built)
  <2> HIDE DEF Rec
  <2> QED  BY <1>4, <1>5
<1> QED  BY <1>6 DEF N

\* What Before builds are such trees.
LEMMA BuiltTyped == Built[Len(Before)] \in Roots
<1> DEFINE N == Len(Before)
           Good == {n \in 0..N : Built[n] \in Roots}
<1>1. N \in Nat /\ \A n \in 1..N : Before[n] \in ChangeType /\ Possible(Built[n - 1], Before[n])
  BY BeforeAssumption
<1>2. \A n \in 0..N : Built[n] = IF n = 0 THEN NewTree ELSE Made(Built[n - 1], Before[n], n)
  BY BuiltIs
<1> HIDE DEF N
<1>3. 0 \in Good
  <2>1. Built[0] = NewTree  BY <1>1, <1>2
  <2> QED  BY <1>1, <2>1, NewTreeTyped DEF Roots
<1>4. ASSUME NEW n \in 1..N, n - 1 \in Good PROVE n \in Good
  <2>1. n \in 0..N /\ n # 0 /\ n \in Nat /\ Built[n - 1] \in Roots  BY <1>1, <1>4
  <2>2. Built[n] = Made(Built[n - 1], Before[n], n)  BY <1>2, <2>1
  <2>3. Built[n] \in Roots  BY <1>1, <2>1, <2>2, MadeTyped
  <2> QED  BY <2>1, <2>3
<1> HIDE DEF Good
<1>5. N \in Good  BY <1>1, <1>3, <1>4, UpTo
<1> QED  BY <1>5 DEF Good, N

\* At the start there are trees, and nobody is on the way.
LEMMA InitTrees == Init => TreesInv
<1> SUFFICES ASSUME Init PROVE TreesInv  OBVIOUS
<1>1. root \in Roots  BY BuiltTyped DEF Init
<1>2. journal \in Seq(ChangeType)  BY BeforeAssumption DEF Init
<1>3. \A t \in Task : pc[t] = "new"  BY DEF Init
<1> QED  BY <1>1, <1>2, <1>3 DEF TreesInv, Reached

\* Every operation that changes something.
ChangeOps == DirOps \cup DataOps

\* What a request asks for is a change, in the same container.
LEMMA RequestsAsk ==
  ASSUME NEW r \in Request, r.op \in ChangeOps
  PROVE  /\ ChangeOf(r) \in ChangeType
         /\ ChangeOf(r).op = r.op
         /\ Container(ChangeOf(r)) = Container(r) /\ KeyIn(ChangeOf(r)) = KeyIn(r)
         /\ Container(r) = SubSeq(r.path, 1, Depth(r.op) - 1)
         /\ Container(r) \in Seq(Nat) /\ Len(Container(r)) \in 0..3
         /\ Len(Container(r)) = Depth(r.op) - 1
<1> DEFINE c == ChangeOf(r)
<1>1. r \in RequestType /\ Given(r)  BY RequestAssumption, NamesGiven
<1>2. c.op = r.op /\ c.path = r.path /\ c.key = r.key /\ c.val = r.val  BY DEF ChangeOf
<1>3. c \in [op : DirOps \cup DataOps, path : Path, key : Key \cup {NoVal}, val : Val \cup {NoVal}]
  BY <1>1 DEF ChangeOf, RequestType, ChangeOps
<1> HIDE DEF c
<1>4. Given(c)  BY <1>1, <1>2 DEF Given
<1>5. c \in ChangeType  BY <1>3, <1>4 DEF ChangeType
<1>6. Container(c) = Container(r) /\ KeyIn(c) = KeyIn(r)  BY <1>2 DEF Container, KeyIn
<1>7. /\ Container(c) \in Seq(Nat) /\ Len(Container(c)) \in 0..3
      /\ Len(Container(c)) = Depth(c.op) - 1
      /\ Container(c) = SubSeq(c.path, 1, Depth(c.op) - 1)
  BY <1>5, Containers
<1> QED  BY <1>2, <1>5, <1>6, <1>7 DEF c

\* Task t makes its change, or has refused it.
ChangeMade(t) ==
  /\ pc[t] = "act" /\ request[t].op \in ChangeOps
  /\ \/ UNCHANGED <<root, journal>>
     \/ /\ Possible(root, ChangeOf(request[t]))
        /\ root' = Made(root, ChangeOf(request[t]), Len(journal) + 1)
        /\ journal' = Append(journal, ChangeOf(request[t]))

\* The tree t is about to change is there.
LEMMA ContainerExists ==
  ASSUME ControlInv, TreesInv, NEW t \in Task, pc[t] = "act", request[t].op \in ChangeOps
  PROVE  Exists(root, Container(request[t]))
<1> DEFINE r == request[t]
           C == Container(r)
<1>1. r \in Request /\ depth[t] = Depth(r.op)  BY DEF ControlInv, Counted
<1>2. /\ C = SubSeq(r.path, 1, Depth(r.op) - 1) /\ C \in Seq(Nat) /\ Len(C) = Depth(r.op) - 1
  BY <1>1, RequestsAsk
<1>3. Depth(r.op) \in 1..4 /\ r.path \in Seq(Nat) /\ Depth(r.op) <= Len(r.path) + 1
  BY <1>1, DepthRange
<1>4. PICK d \in 0..Len(r.path) : d = Depth(r.op) - 1 /\ Depth(r.op) = d + 1
  <2>1. Len(r.path) \in Nat  BY <1>3, LenProperties
  <2>2. PICK l \in Nat, e \in 1..4 : l = Len(r.path) /\ e = Depth(r.op)  BY <1>3, <2>1
  <2>3. e <= l + 1  BY <1>3, <2>2
  <2>4. e - 1 \in 0..l /\ e = (e - 1) + 1  BY <2>2, <2>3
  <2> HIDE DEF r
  <2> QED  BY <2>2, <2>4
<1>5. \A n \in 1..d : Has(TreeAt(root, SubSeq(r.path, 1, n - 1)), r.path[n])
  <2>1. \A n \in 1..d : n \in 1..depth[t] /\ n < Depth(r.op)  BY <1>1, <1>4
  <2> QED  BY <2>1 DEF TreesInv, Reached
<1>6. /\ C = SubSeq(r.path, 1, d) /\ Len(C) = d
      /\ \A i \in 1..d : C[i] = r.path[i]
  BY <1>2, <1>3, <1>4, Beginnings
<1> HIDE DEF r, C
<1>7. ASSUME NEW n \in 1..Len(C) PROVE Has(TreeAt(root, SubSeq(C, 1, n - 1)), C[n])
  <2>1. n \in 1..d  BY <1>6
  <2>2. n - 1 \in 0..Len(C) /\ n - 1 \in 0..Len(r.path) /\ \A i \in 1..(n - 1) : i \in 1..d
    <3>1. PICK l \in Nat : l = Len(r.path)  BY <1>3, LenProperties
    <3>2. d \in 0..l  BY <1>4, <3>1
    <3>3. n - 1 \in 0..d /\ n - 1 \in 0..l /\ \A i \in 1..(n - 1) : i \in 1..d  BY <2>1, <3>1, <3>2
    <3> QED  BY <1>6, <3>1, <3>3
  <2>3. SubSeq(C, 1, n - 1) = SubSeq(r.path, 1, n - 1)
    <3>1. \A i \in 1..(n - 1) : C[i] = r.path[i]  BY <1>6, <2>2
    <3> QED  BY <1>2, <1>3, <2>2, <3>1, SameBeginning
  <2> QED  BY <1>5, <1>6, <2>1, <2>3
<1> QED  BY <1>7 DEF Exists, r, C

\* Every handler that changes something makes that change, or none.
LEMMA ChangesMake ==
  ASSUME ControlInv, TreesInv, NEW t \in Task,
         \/ AddPool(t) \/ RemovePool(t) \/ AddScheme(t) \/ RemoveScheme(t)
         \/ AddCollection(t) \/ RemoveCollection(t)
         \/ Insert(t) \/ Update(t) \/ RemoveKey(t)
  PROVE  ChangeMade(t)
<1> USE DEF AddPool, AddScheme, AddCollection, RemovePool, RemoveScheme, RemoveCollection,
            Insert, Update, RemoveKey
<1>1. PICK op \in ChangeOps :
        \/ OnNewKey(t, op) /\ op \in AddOps \cup {"insert"}
        \/ OnOldKey(t, op) /\ op \notin AddOps \cup {"insert"}
  <2>1. /\ {"add_pool", "add_scheme", "add_collection", "insert"} \subseteq
           ChangeOps \cap (AddOps \cup {"insert"})
        /\ {"remove_pool", "remove_scheme", "remove_collection", "update", "remove"} \subseteq
           ChangeOps \ (AddOps \cup {"insert"})
    BY DEF ChangeOps, DirOps, AddOps, RemoveOps, DataOps
  <2> QED  BY <2>1
<1>2. pc[t] = "act" /\ request[t].op = op  BY <1>1 DEF OnNewKey, OnOldKey, Acting
<1>3. request[t] \in Request  BY DEF ControlInv
<1> DEFINE c == ChangeOf(request[t])
<1>4. /\ Container(c) = Container(request[t]) /\ KeyIn(c) = KeyIn(request[t]) /\ c.op = op
  BY <1>2, <1>3, RequestsAsk
<1>5. Exists(root, Container(c))  BY <1>2, <1>4, ContainerExists
<1>6. InContainer(t) <=> Has(TreeAt(root, Container(c)), KeyIn(c))  BY <1>4 DEF InContainer
<1> HIDE DEF c
<1>7. CASE OnNewKey(t, op) /\ op \in AddOps \cup {"insert"}
  <2>1. ~InContainer(t) => Possible(root, c)  BY <1>4, <1>5, <1>6, <1>7 DEF Possible
  <2> QED  BY <1>2, <1>7, <2>1 DEF OnNewKey, Change, ChangeMade, c
<1>8. CASE OnOldKey(t, op) /\ op \notin AddOps \cup {"insert"}
  <2>1. InContainer(t) => Possible(root, c)  BY <1>4, <1>5, <1>6, <1>8 DEF Possible
  <2> QED  BY <1>2, <1>8, <2>1 DEF OnOldKey, Change, ChangeMade, c
<1> QED  BY <1>1, <1>7, <1>8

\* A task acting in a tree has all others out of the trees below.
LEMMA OthersAbove ==
  ASSUME ControlInv, ChangesAlone, NEW t \in Task, NEW u \in Task \ {t},
         pc[t] = "act", request[t].op \in ChangeOps,
         NEW q \in Seq(Nat), IsPrefix(q, request[u].path), Len(q) < depth[u]
  PROVE  ~IsPrefix(Container(request[t]), q)
<1> SUFFICES ASSUME IsPrefix(Container(request[t]), q) PROVE FALSE  OBVIOUS
<1>1. request[t] \in Request /\ request[u] \in Request /\ depth[u] \in Nat  BY DEF ControlInv
<1>2. /\ Container(request[t]) = SubSeq(request[t].path, 1, Depth(request[t].op) - 1)
      /\ Container(request[t]) \in Seq(Nat)
  BY <1>1, RequestsAsk
<1>3. request[u].path \in Seq(Nat)  BY <1>1, DepthRange
<1>4. /\ IsPrefix(Container(request[t]), request[u].path)
      /\ Len(Container(request[t])) <= Len(q)
  BY <1>2, <1>3, PrefixOfPrefix
<1>5. request[t].op # "read"  BY DEF ChangeOps, DirOps, AddOps, RemoveOps, DataOps
<1>6. depth[u] <= Len(Container(request[t]))  BY <1>2, <1>4, <1>5 DEF ChangesAlone
<1>7. Len(q) \in Nat /\ Len(Container(request[t])) \in Nat  BY <1>2
<1> QED  BY <1>1, <1>4, <1>6, <1>7

\* A change leaves the trees where others wait, and their keys, alone.
LEMMA ChangeElsewhere ==
  ASSUME ControlInv, ChangesAlone, TreesInv, NEW t \in Task, ChangeMade(t), root' # root,
         NEW q \in Seq(Nat), Len(q) \in 0..3, Exists(root, q)
  PROVE  /\ Len(q) # 3 /\ ~IsPrefix(Container(request[t]), q)
              => KeysOf(TreeAt(root', q)) = KeysOf(TreeAt(root, q))
         /\ ~IsPrefix(Container(request[t]), q) => Exists(root', q)
<1> DEFINE c == ChangeOf(request[t])
           C == Container(request[t])
<1>1. request[t] \in Request /\ request[t].op \in ChangeOps  BY DEF ControlInv, ChangeMade
<1>2. /\ c \in ChangeType /\ Container(c) = C
      /\ C \in Seq(Nat) /\ Len(C) \in 0..3
  BY <1>1, RequestsAsk
<1>3. /\ Possible(root, c) /\ root' = Made(root, c, Len(journal) + 1)
      /\ root \in Roots /\ Len(journal) + 1 \in Nat
  BY DEF ChangeMade, TreesInv
<1> HIDE DEF c, C
<1>4. PICK new \in TreeOf(Contents(Len(C))) : root' = Replaced(root, C, new)
  BY <1>2, <1>3, MadeIs
<1>5. Exists(root, C)  BY <1>2, <1>3 DEF Possible
<1>6. ASSUME Len(q) # 3, ~IsPrefix(C, q)
      PROVE KeysOf(TreeAt(root', q)) = KeysOf(TreeAt(root, q))
  <2>1. Len(q) \in 0..2
    <3>1. PICK l \in 0..3 : l = Len(q)  OBVIOUS
    <3> QED  BY <1>6, <3>1
  <2> QED  BY <1>2, <1>3, <1>4, <1>5, <1>6, <2>1, KeysElsewhere
<1>7. ASSUME ~IsPrefix(C, q) PROVE Exists(root', q)
  <2>1. ASSUME NEW n \in 0..(Len(q) - 1) PROVE ~IsPrefix(C, SubSeq(q, 1, n))
    <3>1. n \in 0..Len(q)
      <4>1. PICK l \in 0..3 : l = Len(q)  OBVIOUS
      <4> QED  BY <4>1
    <3>2. SubSeq(q, 1, n) \in Seq(Nat) /\ IsPrefix(SubSeq(q, 1, n), q)
      BY <3>1, Beginnings, BeginningIsPrefix
    <3> QED  BY <1>2, <1>7, <3>2, PrefixOfPrefix
  <2> QED  BY <1>2, <1>3, <1>4, <1>5, <2>1, ExistsElsewhere
<1> QED  BY <1>6, <1>7 DEF C

\* A change keeps the trees trees, and leaves what others came through.
LEMMA ChangeKeepsTrees ==
  ASSUME ControlInv, Exclude, TreesInv, NEW t \in Task, ChangeMade(t),
         UNCHANGED <<depth, request>>, pc' = [pc EXCEPT ![t] = "unlock"]
  PROVE  TreesInv'
<1>1. CASE UNCHANGED <<root, journal>>
  BY <1>1 DEF TreesInv, Reached, ControlInv
<1>2. CASE ~UNCHANGED <<root, journal>>
  <2> DEFINE c == ChangeOf(request[t])
  <2>1. /\ Possible(root, c) /\ root' = Made(root, c, Len(journal) + 1)
        /\ journal' = Append(journal, c)
        /\ request[t] \in Request /\ request[t].op \in ChangeOps
    BY <1>2 DEF ChangeMade, ControlInv
  <2>2. c \in ChangeType  BY <2>1, RequestsAsk
  <2>3. root' \in Roots
    <3>1. Len(journal) + 1 \in Nat /\ root \in Roots  BY DEF TreesInv
    <3> QED  BY <2>1, <2>2, <3>1, MadeTyped
  <2>4. journal' \in Seq(ChangeType)  BY <2>1, <2>2 DEF TreesInv
  <2>5. ChangesAlone  BY ChangersAlone
  <2>6. ASSUME NEW u \in Task PROVE Reached(u)'
    <3>1. CASE u = t  BY <3>1 DEF Reached, ControlInv
    <3>2. CASE u # t
      <4>1. Reached(u) /\ pc'[u] = pc[u]  BY <3>2 DEF TreesInv, ControlInv
      <4> SUFFICES ASSUME pc[u] \in {"lock", "act"}, NEW n \in 1..depth[u],
                          n < Depth(request[u].op)
                   PROVE  Has(TreeAt(root', SubSeq(request[u].path, 1, n - 1)),
                              request[u].path[n])
        BY <4>1 DEF Reached
      <4> DEFINE path == request[u].path
                 q == SubSeq(path, 1, n - 1)
      <4>2. Has(TreeAt(root, q), path[n])  BY <4>1 DEF Reached
      <4>3. /\ path \in Seq(Nat) /\ depth[u] \in Nat /\ Depth(request[u].op) \in 1..4
            /\ Depth(request[u].op) <= Len(path) + 1
        BY DepthRange DEF ControlInv
      <4>4. n \in Nat /\ n - 1 \in 0..2 /\ n - 1 \in 0..Len(path)
        <5>1. PICK l \in Nat, d \in 1..4, e \in Nat :
                l = Len(path) /\ d = Depth(request[u].op) /\ e = depth[u]
          BY <4>3, LenProperties
        <5>2. n \in 1..e /\ n < d /\ d <= l + 1  BY <4>3, <5>1
        <5>3. n \in Nat /\ n - 1 \in 0..2 /\ n - 1 \in 0..l  BY <5>2
        <5> QED  BY <5>1, <5>3
      <4>5. /\ q \in Seq(Nat) /\ Len(q) = n - 1 /\ IsPrefix(q, path)
            /\ \A i \in 1..(n - 1) : q[i] = path[i]
        BY <4>3, <4>4, Beginnings, BeginningIsPrefix
      <4>6. Exists(root, q)
        <5> SUFFICES ASSUME NEW m \in 1..Len(q)
                     PROVE  Has(TreeAt(root, SubSeq(q, 1, m - 1)), q[m])
          BY DEF Exists
        <5>1. m \in 1..(n - 1)  BY <4>5
        <5>2. m \in 1..depth[u] /\ m < Depth(request[u].op) /\ m - 1 \in 0..(n - 1)
          BY <4>3, <4>4, <5>1
        <5>3. Has(TreeAt(root, SubSeq(path, 1, m - 1)), path[m])  BY <4>1, <5>2 DEF Reached
        <5>4. SubSeq(q, 1, m - 1) = SubSeq(path, 1, m - 1)
          <6>1. m - 1 \in 0..Len(q)  BY <4>5, <5>2
          <6>2. m - 1 \in 0..Len(path)
            <7>1. PICK l \in Nat : l = Len(path)  BY <4>3, LenProperties
            <7>2. n - 1 \in 0..l  BY <4>4, <7>1
            <7>3. m - 1 \in 0..l  BY <5>2, <7>1, <7>2
            <7> QED  BY <7>1, <7>3
          <6>3. \A i \in 1..(m - 1) : q[i] = path[i]  BY <4>4, <4>5, <5>1
          <6> HIDE DEF q, path
          <6> QED  BY <4>3, <4>5, <6>1, <6>2, <6>3, SameBeginning
        <5> QED  BY <4>5, <5>1, <5>3, <5>4
      <4>7. ~IsPrefix(Container(request[t]), q)
        <5>1. Len(q) < depth[u]  BY <4>3, <4>4, <4>5
        <5>2. pc[t] = "act"  BY DEF ChangeMade
        <5> HIDE DEF q
        <5> QED  BY <2>1, <2>5, <3>2, <4>5, <5>1, <5>2, OthersAbove
      <4>8. KeysOf(TreeAt(root', q)) = KeysOf(TreeAt(root, q))
        <5>1. CASE root' = root  BY <5>1
        <5>2. CASE root' # root
          <6>1. Len(q) \in 0..3 /\ Len(q) # 3  BY <4>4, <4>5
          <6> HIDE DEF q
          <6> QED  BY <2>5, <4>5, <4>6, <4>7, <5>2, <6>1, ChangeElsewhere
        <5> QED  BY <5>1, <5>2
      <4> HIDE DEF q
      <4>9. Has(TreeAt(root', q), path[n])  BY <4>2, <4>8, SameKeys
      <4> QED  BY <4>9 DEF q
    <3> QED  BY <3>1, <3>2
  <2> QED  BY <2>3, <2>4, <2>6 DEF TreesInv
<1> QED  BY <1>1, <1>2

\* A read of the past has the root for itself: all others are before their first mutex.
LEMMA ReaderAlone ==
  ASSUME ControlInv, Exclude, NEW t \in Task, ReadAt(t), NEW u \in Task \ {t}
  PROVE  depth[u] = 0
<1>1. pc[t] = "act" /\ request[t].op = "read_at"  BY DEF ReadAt, Acting
<1>2. depth[t] = 1  BY <1>1 DEF ControlInv, Counted, Depth
<1>3. <<>> \in Seq(Nat) /\ Len(<<>>) = 0  OBVIOUS
<1>4. \A w \in Task : IsPrefix(<<>>, request[w].path)
  <2> SUFFICES ASSUME NEW w \in Task PROVE IsPrefix(<<>>, request[w].path)  OBVIOUS
  <2>1. request[w].path \in Seq(Nat)  BY DepthRange DEF ControlInv
  <2>2. 0 \in 0..Len(request[w].path)
    <3>1. PICK l \in Nat : l = Len(request[w].path)  BY <2>1, LenProperties
    <3> QED  BY <3>1
  <2>3. IsPrefix(SubSeq(request[w].path, 1, 0), request[w].path)  BY <2>1, <2>2, BeginningIsPrefix
  <2>4. SubSeq(request[w].path, 1, 0) = <<>>
    <3>1. /\ SubSeq(request[w].path, 1, 0) \in Seq(Nat)
          /\ Len(SubSeq(request[w].path, 1, 0)) = 0
      BY <2>1, <2>2, Beginnings
    <3> QED  BY <3>1, EmptySeq
  <2> QED  BY <2>3, <2>4
<1>5. HoldsMutexUniquely(t, <<>>)
  BY <1>1, <1>2, <1>3, <1>4 DEF HoldsMutexUniquely, HoldsMutex, UniqueMutex, Depth
<1>6. ~HoldsMutex(u, <<>>)  BY <1>3, <1>5 DEF Exclude
<1>7. ~(0 < depth[u])  BY <1>3, <1>4, <1>6 DEF HoldsMutex
<1> QED  BY <1>7 DEF ControlInv

\* A read of the past keeps them, and nobody has come through anything.
LEMMA ReadAtKeepsTrees ==
  ASSUME ControlInv, Exclude, TreesInv, NEW t \in Task, ReadAt(t)
  PROVE  TreesInv'
<1>1. root' = ReadPast(root, request[t].path, request[t].key, request[t].time).tree
  BY DEF ReadAt
<1>2. root' \in Roots  BY <1>1, ReadPastTyped DEF TreesInv, Roots, Found
<1>3. journal' = journal /\ UNCHANGED <<depth, request>>  BY DEF ReadAt
<1>4. pc'[t] \notin {"lock", "act"}  BY DEF ReadAt, Goto, ControlInv
<1>5. \A u \in Task \ {t} : depth'[u] = 0  BY <1>3, ReaderAlone
<1> QED  BY <1>2, <1>3, <1>4, <1>5 DEF TreesInv, Reached

\* A task goes on down only through what it has found.
LEMMA TakeMutexKeepsTrees ==
  ASSUME ControlInv, TreesInv, NEW t \in Task, TakeMutex(t)
  PROVE  TreesInv'
<1> DEFINE r == request[t]
           n == depth[t] + 1
<1>1. UNCHANGED <<root, journal, request>> /\ depth' = [depth EXCEPT ![t] = n]
  BY DEF TakeMutex, dataVars
<1>2. depth[t] \in Nat /\ pc[t] = "lock"  BY DEF ControlInv, TakeMutex
<1>3. \/ pc' = [pc EXCEPT ![t] = "unlock"]
      \/ /\ \/ pc' = [pc EXCEPT ![t] = "lock"]
            \/ pc' = [pc EXCEPT ![t] = "act"]
         /\ n = Depth(r.op) \/ Has(TreeAt(root, SubSeq(r.path, 1, depth[t])), r.path[n])
  BY DEF TakeMutex, Goto
<1>4. \A u \in Task \ {t} : pc'[u] = pc[u] /\ depth'[u] = depth[u]  BY <1>1, <1>3 DEF ControlInv
<1>5. \A u \in Task \ {t} : Reached(u)'  BY <1>1, <1>4 DEF TreesInv, Reached
<1>6. Reached(t)'
  <2> SUFFICES ASSUME pc'[t] \in {"lock", "act"}, NEW m \in 1..n, m < Depth(r.op)
               PROVE  Has(TreeAt(root, SubSeq(r.path, 1, m - 1)), r.path[m])
    BY <1>1, <1>2 DEF Reached, ControlInv
  <2>1. CASE m = n
    <3>1. Has(TreeAt(root, SubSeq(r.path, 1, depth[t])), r.path[n])
      <4>1. n # Depth(r.op)
        <5>1. Depth(r.op) \in 1..4  BY DepthRange DEF ControlInv
        <5> QED  BY <2>1, <5>1
      <4> QED  BY <1>3, <4>1 DEF ControlInv
    <3>2. m - 1 = depth[t]  BY <1>2, <2>1
    <3> QED  BY <2>1, <3>1, <3>2
  <2>2. CASE m # n
    <3>1. m \in 1..depth[t]  BY <1>2, <2>2
    <3> QED  BY <1>2, <3>1 DEF TreesInv, Reached
  <2> QED  BY <2>1, <2>2
<1> QED  BY <1>1, <1>5, <1>6 DEF TreesInv

\* The other steps touch no tree, and bring no task further down.
LEMMA OthersKeepTrees ==
  ASSUME ControlInv, TreesInv, UNCHANGED <<root, journal>>,
         \A u \in Task : \/ pc'[u] \notin {"lock", "act"}
                         \/ depth'[u] = 0
                         \/ pc'[u] = pc[u] /\ depth'[u] = depth[u] /\ request'[u] = request[u]
  PROVE  TreesInv'
<1> SUFFICES ASSUME NEW u \in Task PROVE Reached(u)'  BY DEF TreesInv
<1>1. CASE pc'[u] \notin {"lock", "act"} \/ depth'[u] = 0  BY <1>1 DEF Reached
<1>2. CASE pc'[u] = pc[u] /\ depth'[u] = depth[u] /\ request'[u] = request[u]
  BY <1>2 DEF Reached, TreesInv
<1> QED  BY <1>1, <1>2

\* And so does every step.
LEMMA StepKeepsTrees == ControlInv /\ Exclude /\ TreesInv /\ [Next]_vars => TreesInv'
<1> SUFFICES ASSUME ControlInv, Exclude, TreesInv, [Next]_vars PROVE TreesInv'  OBVIOUS
<1>1. ASSUME NEW t \in Task, Start(t) PROVE TreesInv'
  <2>1. pc[t] = "new" /\ UNCHANGED <<root, journal, depth>>  BY <1>1 DEF Start, dataVars
  <2>2. depth'[t] = 0  BY <2>1 DEF ControlInv, Counted
  <2>3. \A u \in Task \ {t} : pc'[u] = pc[u] /\ request'[u] = request[u]
    BY <1>1 DEF Start, Goto, ControlInv
  <2> QED  BY <2>1, <2>2, <2>3, OthersKeepTrees
<1>2. ASSUME NEW t \in Task, ReleaseMutex(t) PROVE TreesInv'
  <2>1. UNCHANGED <<root, journal, request>>  BY <1>2 DEF ReleaseMutex, dataVars, taskVars
  <2>2. pc'[t] \notin {"lock", "act"}  BY <1>2 DEF ReleaseMutex, Goto, ControlInv
  <2>3. \A u \in Task \ {t} : pc'[u] = pc[u] /\ depth'[u] = depth[u]
    BY <1>2 DEF ReleaseMutex, Goto, ControlInv
  <2> QED  BY <2>1, <2>2, <2>3, OthersKeepTrees
<1>3. ASSUME NEW t \in Task, Publish(t) PROVE TreesInv'
  <2>1. UNCHANGED <<root, journal, depth, request>>  BY <1>3 DEF Publish, dataVars
  <2>2. pc'[t] \notin {"lock", "act"}  BY <1>3 DEF Publish, Goto, ControlInv
  <2>3. \A u \in Task \ {t} : pc'[u] = pc[u]  BY <1>3 DEF Publish, Goto, ControlInv
  <2> QED  BY <2>1, <2>2, <2>3, OthersKeepTrees
<1>4. ASSUME NEW t \in Task, Get(t) PROVE TreesInv'
  <2>1. UNCHANGED <<root, journal, depth, request, pc>>  BY <1>4 DEF Get, dataVars
  <2> QED  BY <2>1, OthersKeepTrees
<1>5. ASSUME NEW t \in Task, Read(t) PROVE TreesInv'
  <2>1. UNCHANGED <<root, journal>>  BY <1>5 DEF Read, dataVars
  <2>2. UNCHANGED <<depth, request>> /\ pc' = [pc EXCEPT ![t] = "unlock"]
    BY <1>5, ActFrames DEF Acts
  <2>3. pc'[t] \notin {"lock", "act"} /\ \A u \in Task \ {t} : pc'[u] = pc[u]
    BY <2>2 DEF ControlInv
  <2> QED  BY <2>1, <2>2, <2>3, OthersKeepTrees
<1>6. ASSUME NEW t \in Task, Acts(t), ~Read(t) PROVE TreesInv'
  <2>1. ChangeMade(t)  BY <1>6, ChangesMake DEF Acts
  <2>2. UNCHANGED <<depth, request>> /\ pc' = [pc EXCEPT ![t] = "unlock"]
    BY <1>6, ActFrames
  <2> QED  BY <2>1, <2>2, ChangeKeepsTrees
<1>7. ASSUME NEW t \in Task, ReadAt(t) PROVE TreesInv'  BY <1>7, ReadAtKeepsTrees
<1>8. ASSUME NEW t \in Task, TakeMutex(t) PROVE TreesInv'  BY <1>8, TakeMutexKeepsTrees
<1>9. CASE UNCHANGED vars  BY <1>9 DEF vars, TreesInv, Reached
<1> QED  BY <1>1, <1>2, <1>3, <1>4, <1>5, <1>6, <1>7, <1>8, <1>9 DEF Next, Finished, TaskStep, Acts

\* Every tree is a tree, and a task finds those it came through where it found them.
THEOREM TreesCorrect == Spec => []TreesInv
BY InitTrees, StepKeepsTrees, ControlCorrect, PTL DEF Spec

\* Whoever waits for a mutex in a tree, or holds one: the vectors on its way are neither
\* shifted nor reallocated, whatever is added, removed, undone or redone elsewhere.
THEOREM MutexesStay == Spec => MutexesStayPut
<1> DEFINE Stay(p) ==
      p \notin DOMAIN Layout(root') \/ Layout(root')[p] # Layout(root)[p] =>
        \A t \in Task :
          Len(p) < Len(request[t].path) /\ IsPrefix(p, request[t].path)
          /\ pc[t] \in {"lock", "act", "unlock"} /\ pc'[t] = pc[t]
          => depth[t] <= Len(p)
<1>1. ControlInv /\ Exclude /\ TreesInv /\ [Next]_vars =>
        [\A p \in DOMAIN Layout(root) : Stay(p)]_vars
  <2> SUFFICES ASSUME ControlInv, Exclude, TreesInv, [Next]_vars, NEW p \in DOMAIN Layout(root),
                      p \notin DOMAIN Layout(root') \/ Layout(root')[p] # Layout(root)[p],
                      NEW u \in Task, IsPrefix(p, request[u].path),
                      pc[u] \in {"lock", "act", "unlock"}, pc'[u] = pc[u], ~(depth[u] <= Len(p))
               PROVE FALSE
    OBVIOUS
  <2>1. /\ p \in Path \cup {<<>>} /\ Len(p) < 3 /\ Exists(root, p)
        /\ Layout(root)[p] = KeysOf(TreeAt(root, p))
    BY DEF Layout
  <2>2. p \in Seq(Nat)
    <3>1. <<>> \in Seq(Nat)  OBVIOUS
    <3>2. Path \subseteq Seq(Nat)  BY NamesAssumption
    <3>3. p \in Path \/ p = <<>>  BY <2>1
    <3> QED  BY <3>1, <3>2, <3>3
  <2>3. Len(p) \in 0..3 /\ Len(p) # 3
    <3>1. PICK l \in Nat : l = Len(p)  BY <2>2, LenProperties
    <3>2. l < 3  BY <2>1, <3>1
    <3>3. l \in 0..3 /\ l # 3  BY <3>2
    <3> QED  BY <3>1, <3>3
  <2>4. p \in DOMAIN Layout(root') <=> Exists(root', p)  BY <2>1 DEF Layout
  <2>5. Exists(root', p) => Layout(root')[p] = KeysOf(TreeAt(root', p))  BY <2>1 DEF Layout
  <2>6. root' # root  BY <2>1, <2>4, <2>5
  <2>7. PICK t \in Task : ReadAt(t) \/ (Acts(t) /\ ~Read(t))
    BY <2>6 DEF Next, Finished, TaskStep, Acts, vars, dataVars, Start, TakeMutex, Read,
       ReleaseMutex, Publish, Get
  <2>8. pc[t] = "act" /\ pc'[t] # "act"
    BY <2>7, ActFrames DEF ReadAt, Acting, Goto, ControlInv
  <2>9. u \in Task \ {t} /\ depth[u] \in Nat /\ Len(p) \in Nat  BY <2>3, <2>8 DEF ControlInv
  <2>10. Len(p) < depth[u]  BY <2>9
  <2>11. CASE ReadAt(t)
    <3>1. depth[u] = 0  BY <2>9, <2>11, ReaderAlone
    <3> QED  BY <2>9, <2>10, <3>1
  <2>12. CASE Acts(t) /\ ~Read(t)
    <3>1. ChangeMade(t)  BY <2>12, ChangesMake DEF Acts
    <3>2. ChangesAlone  BY ChangersAlone
    <3>3. ~IsPrefix(Container(request[t]), p)
      BY <2>2, <2>8, <2>9, <2>10, <3>1, <3>2, OthersAbove DEF ChangeMade
    <3>4. Exists(root', p) /\ KeysOf(TreeAt(root', p)) = KeysOf(TreeAt(root, p))
      BY <2>1, <2>2, <2>3, <2>6, <3>1, <3>2, <3>3, ChangeElsewhere
    <3> QED  BY <2>1, <2>4, <2>5, <3>4
  <2> QED  BY <2>7, <2>11, <2>12
<1> QED  BY <1>1, TreesCorrect, ControlCorrect, PTL DEF Spec, MutexesStayPut

-------------------------------------------------------------------------------
(***************************************************************************)
(* The memory controller keeps what it is told.  Its vectors move whole    *)
(* trees when a neighbour comes or goes, and leave the histories where     *)
(* they were, so that a directory or a collection may have the history of  *)
(* another, and a read of the past may undo what was never done there.     *)
(*                                                                         *)
(* What can be said nevertheless: the operations of a stack are of no use  *)
(* from the next change of directories on.  Kept says, for any set of      *)
(* tasks, requests, paths and values, what the stacks know until then.     *)
(* A read of a time after that change undoes the changes of its collection *)
(* alone, answers with the value of that time, and leaves what it found.   *)
(***************************************************************************)

(***************************************************************************)
(* What a tree holds, after its vector has moved some of it.               *)
(***************************************************************************)

\* A key has one slot.
Distinct(tree) == \A i, j \in DOMAIN tree.slots : tree.slots[i].key = tree.slots[j].key => i = j

\* a is v, or what the vector of tree made of it: v without its history, or with that of
\* another element.
Kin(a, v, tree) ==
  \/ a = v
  \/ v \notin Val /\ a = [v EXCEPT !.ops = <<>>, !.undone = <<>>]
  \/ v \notin Val /\ \E i \in DOMAIN tree.slots :
       a = [v EXCEPT !.ops = tree.slots[i].val.ops, !.undone = tree.slots[i].val.undone]

\* A key is there when a slot has it.
LEMMA SlotFound ==
  ASSUME NEW V, NEW tree \in TreeOf(V), Distinct(tree), NEW m \in 1..Len(tree.slots)
  PROVE  /\ Has(tree, tree.slots[m].key)
         /\ ValueAt(tree, tree.slots[m].key) = tree.slots[m].val
<1> DEFINE k == tree.slots[m].key
<1>1. /\ DOMAIN KeysOf(tree) = 1..Len(tree.slots) /\ DOMAIN tree.slots = 1..Len(tree.slots)
      /\ \A i \in 1..Len(tree.slots) : KeysOf(tree)[i] = tree.slots[i].key
  BY Keys
<1>2. Has(tree, k)  BY <1>1 DEF Has
<1>3. PlaceOf(tree, k) \in 1..Len(tree.slots) /\ KeysOf(tree)[PlaceOf(tree, k)] = k
  BY <1>2, Place
<1>4. PlaceOf(tree, k) = m  BY <1>1, <1>3 DEF Distinct
<1> QED  BY <1>2, <1>4 DEF ValueAt

\* The slot of a key, when no other has it.
LEMMA SlotOfKey ==
  ASSUME NEW V, NEW tree \in TreeOf(V), NEW k, Has(tree, k)
  PROVE  \E m \in 1..Len(tree.slots) :
           tree.slots[m].key = k /\ tree.slots[m].val = ValueAt(tree, k)
<1>1. PlaceOf(tree, k) \in 1..Len(tree.slots) /\ KeysOf(tree)[PlaceOf(tree, k)] = k
  BY Place
<1>2. tree.slots[PlaceOf(tree, k)].key = k  BY <1>1, Keys
<1> QED  BY <1>1, <1>2 DEF ValueAt

\* An element assigned or constructed from another is kin to that one.
LEMMA AssignedKin ==
  ASSUME NEW V, NEW tree \in TreeOf(V), NEW s \in SlotOf(V), NEW i \in 1..Len(tree.slots)
  PROVE  /\ MoveAssigned(tree.slots[i], s).key = s.key
         /\ Kin(MoveAssigned(tree.slots[i], s).val, s.val, tree)
         /\ Slot(s.key, Moved(s.val)).key = s.key
         /\ Kin(Slot(s.key, Moved(s.val)).val, s.val, tree)
<1>1. i \in DOMAIN tree.slots  BY Keys
<1>2. MoveAssigned(tree.slots[i], s).key = s.key /\ Kin(MoveAssigned(tree.slots[i], s).val, s.val, tree)
  BY <1>1 DEF MoveAssigned, Slot, Kin
<1>3. Slot(s.key, Moved(s.val)).key = s.key /\ Slot(s.key, Moved(s.val)).val = Moved(s.val)
  BY DEF Slot
<1>4. Kin(Moved(s.val), s.val, tree)  BY DEF Moved, Kin
<1> QED  BY <1>2, <1>3, <1>4

\* Where the slots go in remove_array.
LEMMA EraseSlots ==
  ASSUME NEW V, NEW tree \in TreeOf(V), NEW k, Has(tree, k)
  PROVE  LET i == PlaceOf(tree, k)
             n == Len(tree.slots)
             new == EraseSlot(tree, k)
         IN /\ new.ops = tree.ops /\ new.undone = tree.undone
            /\ DOMAIN new.slots = 1..(n - 1)
            /\ \A j \in 1..(n - 1) :
                 /\ j < i => new.slots[j] = tree.slots[j]
                 /\ ~(j < i) => /\ new.slots[j].key = tree.slots[j + 1].key
                                /\ Kin(new.slots[j].val, tree.slots[j + 1].val, tree)
<1> DEFINE i == PlaceOf(tree, k)
           old == tree.slots
           n == Len(old)
           slots == [j \in 1..(n - 1) |-> IF j < i THEN old[j] ELSE MoveAssigned(old[j], old[j + 1])]
           room == IF n = 1 THEN 0 ELSE tree.room
<1>1. i \in 1..n /\ n \in Nat /\ \A j \in 1..n : old[j] \in SlotOf(V)
  BY Place, Keys
<1>2. EraseSlot(tree, k) = [tree EXCEPT !.slots = slots, !.room = room]
  BY DEF EraseSlot, TreeOf
<1> HIDE DEF room
<1>3. /\ EraseSlot(tree, k).ops = tree.ops /\ EraseSlot(tree, k).undone = tree.undone
      /\ EraseSlot(tree, k).slots = slots
  BY <1>2 DEF TreeOf
<1> HIDE DEF i
<1>4. ASSUME NEW j \in 1..(n - 1), ~(j < i)
      PROVE  slots[j].key = old[j + 1].key /\ Kin(slots[j].val, old[j + 1].val, tree)
  <2>1. j \in 1..n /\ j + 1 \in 1..n  BY <1>1, <1>4
  <2>2. slots[j] = MoveAssigned(old[j], old[j + 1])  BY <1>4
  <2>3. old[j + 1] \in SlotOf(V)  BY <1>1, <2>1
  <2> QED  BY <2>1, <2>2, <2>3, AssignedKin
<1>5. \A j \in 1..(n - 1) : j < i => slots[j] = old[j]  OBVIOUS
<1> HIDE DEF slots
<1>6. DOMAIN slots = 1..(n - 1)  BY DEF slots
<1> QED  BY <1>3, <1>4, <1>5, <1>6 DEF i

\* insert of std::vector.
LEMMA InsertedAt ==
  ASSUME NEW S, NEW q \in Seq(S), NEW i \in 1..(Len(q) + 1), NEW x
  PROVE  /\ DOMAIN InsertAt(q, i, x) = 1..(Len(q) + 1)
         /\ InsertAt(q, i, x)[i] = x
         /\ \A j \in 1..(Len(q) + 1) : /\ j < i => InsertAt(q, i, x)[j] = q[j]
                                       /\ i < j => InsertAt(q, i, x)[j] = q[j - 1]
<1> DEFINE n == Len(q)
           a == SubSeq(q, 1, i - 1)
           b == SubSeq(q, i, n)
           T == S \cup {x}
<1>1. n \in Nat  OBVIOUS
<1>2. /\ a \in Seq(T) /\ Len(a) = i - 1 /\ \A j \in 1..(i - 1) : a[j] = q[j]
  OBVIOUS
<1>3. /\ b \in Seq(T) /\ Len(b) = n - i + 1 /\ \A j \in 1..(n - i + 1) : b[j] = q[i + j - 1]
  OBVIOUS
<1>4. InsertAt(q, i, x) = a \o <<x>> \o b  BY DEF InsertAt
<1> HIDE DEF n, a, b
<1>5. /\ a \o <<x>> \in Seq(T) /\ Len(a \o <<x>>) = i
      /\ \A j \in 1..(i - 1) : (a \o <<x>>)[j] = q[j]
      /\ (a \o <<x>>)[i] = x
  BY <1>2
<1> DEFINE c == a \o <<x>>
           d == c \o b
<1> HIDE DEF c
<1>6. /\ DOMAIN d = 1..(n + 1)
      /\ \A j \in 1..i : d[j] = c[j]
      /\ \A j \in (i + 1)..(n + 1) : d[j] = b[j - i]
  <2>1. c \in Seq(T) /\ Len(c) = i /\ b \in Seq(T) /\ Len(b) = n - i + 1  BY <1>3, <1>5 DEF c
  <2>2. /\ d \in Seq(T) /\ Len(d) = i + (n - i + 1)
        /\ \A j \in 1..(i + (n - i + 1)) : d[j] = IF j <= i THEN c[j] ELSE b[j - i]
    <3> HIDE DEF T
    <3>1. /\ d \in Seq(T) /\ Len(d) = Len(c) + Len(b)
          /\ \A j \in 1..(Len(c) + Len(b)) : d[j] = IF j <= Len(c) THEN c[j] ELSE b[j - Len(c)]
      BY <2>1, ConcatProperties
    <3> HIDE DEF d
    <3>2. Len(c) + Len(b) = i + (n - i + 1)  BY <2>1
    <3> QED  BY <2>1, <3>1, <3>2
  <2>3. i + (n - i + 1) = n + 1 /\ i \in 1..(n + 1)
    <3>1. i \in 1..(n + 1)  BY DEF n
    <3> QED  BY <1>1, <3>1
  <2> HIDE DEF d
  <2>4. DOMAIN d = 1..(n + 1)  BY <2>2, <2>3
  <2>5. \A j \in 1..i : d[j] = c[j]  BY <2>2, <2>3
  <2>6. \A j \in (i + 1)..(n + 1) : d[j] = b[j - i]  BY <2>2, <2>3
  <2> QED  BY <2>4, <2>5, <2>6
<1> HIDE DEF d
<1>7. \A j \in (i + 1)..(n + 1) : b[j - i] = q[j - 1]
  <2> SUFFICES ASSUME NEW j \in (i + 1)..(n + 1) PROVE b[j - i] = q[j - 1]  OBVIOUS
  <2>1. j - i \in 1..(n - i + 1) /\ i + (j - i) - 1 = j - 1  BY <1>1
  <2>2. b[j - i] = q[i + (j - i) - 1]  BY <1>3, <2>1
  <2> QED  BY <2>1, <2>2
<1>8. \A j \in 1..(n + 1) : /\ j < i => d[j] = q[j]
                            /\ i < j => d[j] = q[j - 1]
  <2> SUFFICES ASSUME NEW j \in 1..(n + 1)
               PROVE (j < i => d[j] = q[j]) /\ (i < j => d[j] = q[j - 1])
    OBVIOUS
  <2>1. CASE j < i
    <3>1. j \in 1..(i - 1) /\ j \in 1..i  BY <2>1
    <3> QED  BY <1>5, <1>6, <2>1, <3>1 DEF c
  <2>2. CASE i < j
    <3>1. j \in (i + 1)..(n + 1)  BY <1>1, <2>2
    <3> QED  BY <1>6, <1>7, <2>2, <3>1
  <2> QED  BY <2>1, <2>2
<1>9. d[i] = x  BY <1>5, <1>6 DEF c
<1> QED  BY <1>4, <1>6, <1>8, <1>9 DEF n, c, d

\* ... and in insert_array.
LEMMA InsertSlots ==
  ASSUME NEW V, NEW tree \in TreeOf(V), NEW k \in Nat, NEW v \in V
  PROVE  LET i == RankOf(tree, k)
             n == Len(tree.slots)
             new == InsertSlot(tree, k, v)
         IN /\ new.ops = tree.ops /\ new.undone = tree.undone
            /\ DOMAIN new.slots = 1..(n + 1)
            /\ new.slots[i].key = k /\ Kin(new.slots[i].val, v, tree)
            /\ \A j \in 1..(n + 1) :
                 /\ j < i => /\ new.slots[j].key = tree.slots[j].key
                             /\ Kin(new.slots[j].val, tree.slots[j].val, tree)
                 /\ i < j => /\ new.slots[j].key = tree.slots[j - 1].key
                             /\ Kin(new.slots[j].val, tree.slots[j - 1].val, tree)
<1> DEFINE i == RankOf(tree, k)
           old == tree.slots
           n == Len(old)
           constructed == [j \in 1..n |-> Slot(old[j].key, Moved(old[j].val))]
           wider == InsertAt(constructed, i, Slot(k, v))
           filled == [j \in 1..(n + 1) |->
             CASE j < i -> old[j]
               [] j = n + 1 -> IF i = n + 1 THEN Slot(k, v) ELSE constructed[n]
               [] j = i /\ j <= n -> MoveAssigned(old[j], Slot(k, v))
               [] i < j /\ j <= n -> MoveAssigned(old[j], old[j - 1])]
           Placed(slots) ==
             /\ DOMAIN slots = 1..(n + 1)
             /\ slots[i].key = k /\ Kin(slots[i].val, v, tree)
             /\ \A j \in 1..(n + 1) :
                  /\ j < i => slots[j].key = old[j].key /\ Kin(slots[j].val, old[j].val, tree)
                  /\ i < j => slots[j].key = old[j - 1].key /\ Kin(slots[j].val, old[j - 1].val, tree)
<1>1. /\ n \in Nat /\ i \in 1..(n + 1) /\ tree.room \in Nat
      /\ \A j \in 1..n : old[j] \in SlotOf(V)
  BY RankBound, Keys DEF TreeOf
<1>2. Slot(k, v) \in SlotOf(V) /\ Slot(k, v).key = k /\ Slot(k, v).val = v  BY DEF Slot, SlotOf
<1>3. InsertSlot(tree, k, v) =
        IF n = tree.room THEN [tree EXCEPT !.slots = wider, !.room = IF n = 0 THEN 1 ELSE 2 * n]
        ELSE [tree EXCEPT !.slots = filled]
  BY DEF InsertSlot
<1>4. \A j \in 1..n : /\ constructed[j].key = old[j].key
                      /\ Kin(constructed[j].val, old[j].val, tree)
  <2> SUFFICES ASSUME NEW j \in 1..n
               PROVE constructed[j].key = old[j].key /\ Kin(constructed[j].val, old[j].val, tree)
    OBVIOUS
  <2>1. constructed[j] = Slot(old[j].key, Moved(old[j].val))  OBVIOUS
  <2>2. old[j] \in SlotOf(V)  BY <1>1
  <2> QED  BY <2>1, <2>2, AssignedKin
<1>5. constructed \in Seq({constructed[j] : j \in 1..n}) /\ Len(constructed) = n
  BY <1>1
<1> HIDE DEF i, constructed
<1>6. Placed(wider)
  <2>1. /\ DOMAIN wider = 1..(n + 1)
        /\ wider[i] = Slot(k, v)
        /\ \A j \in 1..(n + 1) : /\ j < i => wider[j] = constructed[j]
                                 /\ i < j => wider[j] = constructed[j - 1]
    <3> DEFINE S == {constructed[j] : j \in 1..n}
               x == Slot(k, v)
    <3>1. i \in 1..(Len(constructed) + 1)  BY <1>1, <1>5
    <3>2. constructed \in Seq(S)  BY <1>5
    <3> HIDE DEF S, x, wider
    <3>3. /\ DOMAIN InsertAt(constructed, i, x) = 1..(Len(constructed) + 1)
          /\ InsertAt(constructed, i, x)[i] = x
          /\ \A j \in 1..(Len(constructed) + 1) :
               /\ j < i => InsertAt(constructed, i, x)[j] = constructed[j]
               /\ i < j => InsertAt(constructed, i, x)[j] = constructed[j - 1]
      BY <3>1, <3>2, InsertedAt
    <3>4. wider = InsertAt(constructed, i, x)  BY DEF wider, x
    <3>5. x = Slot(k, v)  BY DEF x
    <3> QED  BY <1>5, <3>3, <3>4, <3>5
  <2> HIDE DEF wider
  <2>2. \A j \in 1..(n + 1) : (j < i => j \in 1..n) /\ (i < j => j - 1 \in 1..n)
    BY <1>1
  <2>3. Kin(v, v, tree)  BY DEF Kin
  <2> HIDE DEF old
  <2> QED  BY <1>2, <1>4, <2>1, <2>2, <2>3
<1>7. Placed(filled)
  <2>1. filled[i].key = k /\ Kin(filled[i].val, v, tree)
    <3>1. CASE i = n + 1
      <4>1. filled[i] = Slot(k, v)  BY <1>1, <3>1
      <4> QED  BY <1>2, <4>1 DEF Kin
    <3>2. CASE i # n + 1
      <4>1. i \in 1..n  BY <1>1, <3>2
      <4>2. filled[i] = MoveAssigned(old[i], Slot(k, v))  BY <1>1, <3>2, <4>1
      <4> HIDE DEF filled
      <4> QED  BY <1>2, <4>1, <4>2, AssignedKin
    <3> QED  BY <3>1, <3>2
  <2>2. ASSUME NEW j \in 1..(n + 1), j < i
        PROVE  filled[j].key = old[j].key /\ Kin(filled[j].val, old[j].val, tree)
    <3>1. filled[j] = old[j]  BY <1>1, <2>2
    <3>2. Kin(old[j].val, old[j].val, tree)  BY DEF Kin
    <3> HIDE DEF filled, old
    <3> QED  BY <3>1, <3>2
  <2>3. ASSUME NEW j \in 1..(n + 1), i < j
        PROVE  filled[j].key = old[j - 1].key /\ Kin(filled[j].val, old[j - 1].val, tree)
    <3>1. j - 1 \in 1..n  BY <1>1, <2>3
    <3>2. CASE j = n + 1
      <4>1. filled[j] = constructed[j - 1]  BY <1>1, <2>3, <3>2
      <4> HIDE DEF filled
      <4> QED  BY <1>4, <3>1, <4>1
    <3>3. CASE j # n + 1
      <4>1. j \in 1..n  BY <1>1, <3>3
      <4>2. filled[j] = MoveAssigned(old[j], old[j - 1])  BY <1>1, <2>3, <3>3, <4>1
      <4>3. old[j - 1] \in SlotOf(V)  BY <1>1, <3>1
      <4> HIDE DEF filled
      <4> QED  BY <4>1, <4>2, <4>3, AssignedKin
    <3> QED  BY <3>2, <3>3
  <2>4. DOMAIN filled = 1..(n + 1)  OBVIOUS
  <2> HIDE DEF filled
  <2> QED  BY <2>1, <2>2, <2>3, <2>4
<1>8. /\ InsertSlot(tree, k, v).ops = tree.ops /\ InsertSlot(tree, k, v).undone = tree.undone
      /\ Placed(InsertSlot(tree, k, v).slots)
  <2> HIDE DEF wider, filled, Placed
  <2>1. CASE n = tree.room
    <3>1. InsertSlot(tree, k, v) = [tree EXCEPT !.slots = wider, !.room = IF n = 0 THEN 1 ELSE 2 * n]
      BY <1>3, <2>1
    <3> QED  BY <1>6, <3>1 DEF TreeOf
  <2>2. CASE n # tree.room
    <3>1. InsertSlot(tree, k, v) = [tree EXCEPT !.slots = filled]  BY <1>3, <2>2
    <3> QED  BY <1>7, <3>1 DEF TreeOf
  <2> QED  BY <2>1, <2>2
<1> QED  BY <1>8 DEF i

\* remove: the key is gone, and all others are where they were, as the vector left them.
LEMMA EraseIs ==
  ASSUME NEW level, NEW V, Holdable(level, V), NEW tree \in TreeOf(V), Distinct(tree),
         NEW k, Has(tree, k)
  PROVE  LET new == EraseSlot(tree, k)
         IN /\ new \in TreeOf(V) /\ Distinct(new)
            /\ new.ops = tree.ops /\ new.undone = tree.undone
            /\ \A j : Has(new, j) <=> Has(tree, j) /\ j # k
            /\ \A j : Has(tree, j) /\ j # k => Kin(ValueAt(new, j), ValueAt(tree, j), tree)
<1> DEFINE i == PlaceOf(tree, k)
           new == EraseSlot(tree, k)
           n == Len(tree.slots)
           from(j) == IF j < i THEN j ELSE j + 1
<1>1. new \in TreeOf(V)  BY EraseTyped
<1>2. /\ new.ops = tree.ops /\ new.undone = tree.undone
      /\ DOMAIN new.slots = 1..(n - 1)
      /\ \A j \in 1..(n - 1) :
           /\ j < i => new.slots[j] = tree.slots[j]
           /\ ~(j < i) => /\ new.slots[j].key = tree.slots[j + 1].key
                          /\ Kin(new.slots[j].val, tree.slots[j + 1].val, tree)
  BY EraseSlots
<1>3. n \in Nat /\ i \in 1..n /\ tree.slots[i].key = k /\ DOMAIN tree.slots = 1..n
  BY Place, Keys
<1>4. Len(new.slots) \in Nat /\ DOMAIN new.slots = 1..Len(new.slots)  BY <1>1, Keys
<1> HIDE DEF new, i, n
<1>5. 1..Len(new.slots) = 1..(n - 1)  BY <1>2, <1>4
<1>6. \A j \in 1..(n - 1) :
        /\ from(j) \in 1..n /\ from(j) # i
        /\ new.slots[j].key = tree.slots[from(j)].key
        /\ Kin(new.slots[j].val, tree.slots[from(j)].val, tree)
  <2> SUFFICES ASSUME NEW j \in 1..(n - 1)
               PROVE  /\ from(j) \in 1..n /\ from(j) # i
                      /\ new.slots[j].key = tree.slots[from(j)].key
                      /\ Kin(new.slots[j].val, tree.slots[from(j)].val, tree)
    OBVIOUS
  <2>1. CASE j < i
    <3>1. from(j) = j /\ j \in 1..n /\ j # i  BY <1>3, <2>1
    <3>2. Kin(tree.slots[j].val, tree.slots[j].val, tree)  BY DEF Kin
    <3> HIDE DEF from
    <3> QED  BY <1>2, <2>1, <3>1, <3>2
  <2>2. CASE ~(j < i)
    <3>1. from(j) = j + 1 /\ j + 1 \in 1..n /\ j + 1 # i  BY <1>3, <2>2
    <3> HIDE DEF from
    <3> QED  BY <1>2, <2>2, <3>1
  <2> QED  BY <2>1, <2>2
<1>7. \A m \in 1..n : m # i => \E j \in 1..(n - 1) : from(j) = m
  <2> SUFFICES ASSUME NEW m \in 1..n, m # i PROVE \E j \in 1..(n - 1) : from(j) = m  OBVIOUS
  <2>1. CASE m < i
    <3>1. m \in 1..(n - 1) /\ from(m) = m  BY <1>3, <2>1
    <3> QED  BY <3>1
  <2>2. CASE ~(m < i)
    <3>1. m - 1 \in 1..(n - 1) /\ from(m - 1) = m  BY <1>3, <2>2
    <3> QED  BY <3>1
  <2> QED  BY <2>1, <2>2
<1>8. \A a, b \in 1..(n - 1) : from(a) = from(b) => a = b  BY <1>3
<1> HIDE DEF from
<1>9. Distinct(new)
  <2> SUFFICES ASSUME NEW a \in 1..(n - 1), NEW b \in 1..(n - 1), new.slots[a].key = new.slots[b].key
               PROVE  a = b
    BY <1>2 DEF Distinct
  <2>1. tree.slots[from(a)].key = tree.slots[from(b)].key  BY <1>6
  <2>2. from(a) = from(b)  BY <1>3, <1>6, <2>1 DEF Distinct
  <2> QED  BY <1>8, <2>2
<1>10. ASSUME NEW j, Has(new, j) PROVE Has(tree, j) /\ j # k
  <2>1. PICK m \in 1..(n - 1) : new.slots[m].key = j
    <3>1. \E m \in 1..Len(new.slots) : new.slots[m].key = j  BY <1>1, <1>10, SlotOfKey
    <3> QED  BY <1>5, <3>1
  <2>2. tree.slots[from(m)].key = j /\ from(m) \in 1..n /\ from(m) # i  BY <1>6, <2>1
  <2>3. Has(tree, j)  BY <2>2, SlotFound DEF n
  <2>4. j # k  BY <1>3, <2>2 DEF Distinct
  <2> QED  BY <2>3, <2>4
<1>11. ASSUME NEW j, Has(tree, j), j # k
       PROVE  Has(new, j) /\ Kin(ValueAt(new, j), ValueAt(tree, j), tree)
  <2>1. PICK m \in 1..n : tree.slots[m].key = j /\ tree.slots[m].val = ValueAt(tree, j)
    BY <1>11, SlotOfKey DEF n
  <2>2. m # i  BY <1>3, <1>11, <2>1
  <2>3. PICK a \in 1..(n - 1) : from(a) = m  BY <1>7, <2>2
  <2>4. new.slots[a].key = j /\ Kin(new.slots[a].val, ValueAt(tree, j), tree)
    BY <1>6, <2>1, <2>3
  <2>5. a \in 1..Len(new.slots)  BY <1>5
  <2>6. Has(new, j) /\ ValueAt(new, j) = new.slots[a].val
    BY <1>1, <1>9, <2>4, <2>5, SlotFound
  <2> QED  BY <2>4, <2>6
<1> QED  BY <1>1, <1>2, <1>9, <1>10, <1>11 DEF new

\* insert: the key is there, and all others are where they were.
LEMMA InsertIs ==
  ASSUME NEW level, NEW V, Holdable(level, V), NEW tree \in TreeOf(V), Distinct(tree),
         NEW k \in Nat, ~Has(tree, k), NEW v \in V
  PROVE  LET new == InsertSlot(tree, k, v)
         IN /\ new \in TreeOf(V) /\ Distinct(new)
            /\ new.ops = tree.ops /\ new.undone = tree.undone
            /\ \A j : Has(new, j) <=> Has(tree, j) \/ j = k
            /\ \A j : Has(tree, j) => Kin(ValueAt(new, j), ValueAt(tree, j), tree)
            /\ Kin(ValueAt(new, k), v, tree)
<1> DEFINE i == RankOf(tree, k)
           new == InsertSlot(tree, k, v)
           n == Len(tree.slots)
           to(j) == IF j < i THEN j ELSE j + 1
           from(j) == IF j < i THEN j ELSE j - 1
<1>1. new \in TreeOf(V)  BY InsertTyped
<1>2. /\ new.ops = tree.ops /\ new.undone = tree.undone
      /\ DOMAIN new.slots = 1..(n + 1)
      /\ new.slots[i].key = k /\ Kin(new.slots[i].val, v, tree)
      /\ \A j \in 1..(n + 1) :
           /\ j < i => /\ new.slots[j].key = tree.slots[j].key
                       /\ Kin(new.slots[j].val, tree.slots[j].val, tree)
           /\ i < j => /\ new.slots[j].key = tree.slots[j - 1].key
                       /\ Kin(new.slots[j].val, tree.slots[j - 1].val, tree)
  BY InsertSlots
<1>3. n \in Nat /\ i \in 1..(n + 1) /\ DOMAIN tree.slots = 1..n
  BY RankBound, Keys
<1>4. Len(new.slots) \in Nat /\ DOMAIN new.slots = 1..Len(new.slots)  BY <1>1, Keys
<1>0. \A m \in 1..n : tree.slots[m].key # k  BY SlotFound
<1> HIDE DEF new, i, n
<1>5. 1..Len(new.slots) = 1..(n + 1)  BY <1>2, <1>4
<1>6. \A j \in 1..(n + 1) : j # i =>
        /\ from(j) \in 1..n
        /\ new.slots[j].key = tree.slots[from(j)].key
        /\ Kin(new.slots[j].val, tree.slots[from(j)].val, tree)
  <2> SUFFICES ASSUME NEW j \in 1..(n + 1), j # i
               PROVE  /\ from(j) \in 1..n
                      /\ new.slots[j].key = tree.slots[from(j)].key
                      /\ Kin(new.slots[j].val, tree.slots[from(j)].val, tree)
    OBVIOUS
  <2>1. CASE j < i
    <3>1. from(j) = j /\ j \in 1..n  BY <1>3, <2>1
    <3> HIDE DEF from
    <3> QED  BY <1>2, <2>1, <3>1
  <2>2. CASE ~(j < i)
    <3>1. from(j) = j - 1 /\ j - 1 \in 1..n /\ i < j  BY <1>3, <2>2
    <3> HIDE DEF from
    <3> QED  BY <1>2, <3>1
  <2> QED  BY <2>1, <2>2
<1>7. \A m \in 1..n : to(m) \in 1..(n + 1) /\ to(m) # i /\ from(to(m)) = m  BY <1>3
<1>8. \A a, b \in 1..(n + 1) : a # i /\ b # i /\ from(a) = from(b) => a = b  BY <1>3
<1> HIDE DEF from, to
<1>9. Distinct(new)
  <2> SUFFICES ASSUME NEW a \in 1..(n + 1), NEW b \in 1..(n + 1), new.slots[a].key = new.slots[b].key
               PROVE  a = b
    BY <1>2 DEF Distinct
  <2>1. CASE a # i /\ b # i
    <3>1. tree.slots[from(a)].key = tree.slots[from(b)].key  BY <1>6, <2>1
    <3>2. from(a) = from(b)  BY <1>3, <1>6, <2>1, <3>1 DEF Distinct
    <3> QED  BY <1>8, <2>1, <3>2
  <2>2. CASE a = i /\ b # i
    <3>1. tree.slots[from(b)].key = k /\ from(b) \in 1..n  BY <1>2, <1>6, <2>2
    <3> QED  BY <1>0, <3>1
  <2>3. CASE a # i /\ b = i
    <3>1. tree.slots[from(a)].key = k /\ from(a) \in 1..n  BY <1>2, <1>6, <2>3
    <3> QED  BY <1>0, <3>1
  <2> QED  BY <2>1, <2>2, <2>3
<1>10. ASSUME NEW j, Has(new, j) PROVE Has(tree, j) \/ j = k
  <2>1. PICK m \in 1..(n + 1) : new.slots[m].key = j
    <3>1. \E m \in 1..Len(new.slots) : new.slots[m].key = j  BY <1>1, <1>10, SlotOfKey
    <3> QED  BY <1>5, <3>1
  <2>2. CASE m = i  BY <1>2, <2>1, <2>2
  <2>3. CASE m # i
    <3>1. tree.slots[from(m)].key = j /\ from(m) \in 1..n  BY <1>6, <2>1, <2>3
    <3> QED  BY <3>1, SlotFound DEF n
  <2> QED  BY <2>2, <2>3
<1>11. ASSUME NEW j, Has(tree, j)
       PROVE  Has(new, j) /\ Kin(ValueAt(new, j), ValueAt(tree, j), tree)
  <2>1. PICK m \in 1..n : tree.slots[m].key = j /\ tree.slots[m].val = ValueAt(tree, j)
    BY <1>11, SlotOfKey DEF n
  <2>2. to(m) \in 1..(n + 1) /\ to(m) # i /\ from(to(m)) = m  BY <1>7
  <2>3. /\ new.slots[to(m)].key = j
        /\ Kin(new.slots[to(m)].val, ValueAt(tree, j), tree)
    BY <1>6, <2>1, <2>2
  <2>4. to(m) \in 1..Len(new.slots)  BY <1>5, <2>2
  <2>5. Has(new, j) /\ ValueAt(new, j) = new.slots[to(m)].val
    BY <1>1, <1>9, <2>3, <2>4, SlotFound
  <2> QED  BY <2>3, <2>5
<1>12. Has(new, k) /\ Kin(ValueAt(new, k), v, tree)
  <2>1. i \in 1..Len(new.slots)  BY <1>3, <1>5
  <2> QED  BY <1>1, <1>2, <1>9, <2>1, SlotFound
<1> QED  BY <1>1, <1>2, <1>9, <1>10, <1>11, <1>12 DEF new

\* update: as SetValue says, and with the same history.
LEMMA SetIs ==
  ASSUME NEW V, NEW tree \in TreeOf(V), NEW k, Has(tree, k), NEW v \in V
  PROVE  LET new == SetValueAt(tree, k, v)
         IN /\ Distinct(tree) => Distinct(new)
            /\ new.ops = tree.ops /\ new.undone = tree.undone
            /\ \A j : Has(new, j) <=> Has(tree, j)
            /\ Len(new.slots) = Len(tree.slots)
<1> DEFINE new == SetValueAt(tree, k, v)
<1>1. new \in TreeOf(V) /\ KeysOf(new) = KeysOf(tree)  BY SetValue
<1>2. new.ops = tree.ops /\ new.undone = tree.undone  BY DEF SetValueAt, TreeOf
<1> HIDE DEF new
<1>3. \A j : Has(new, j) <=> Has(tree, j)  BY <1>1, SameKeys
<1>4. /\ DOMAIN tree.slots = 1..Len(tree.slots) /\ DOMAIN new.slots = 1..Len(new.slots)
      /\ Len(tree.slots) \in Nat /\ Len(new.slots) \in Nat
      /\ 1..Len(tree.slots) = 1..Len(new.slots)
      /\ \A i \in 1..Len(tree.slots) : new.slots[i].key = tree.slots[i].key
  <2>1. /\ DOMAIN tree.slots = 1..Len(tree.slots) /\ DOMAIN KeysOf(tree) = 1..Len(tree.slots)
        /\ Len(tree.slots) \in Nat
        /\ \A i \in 1..Len(tree.slots) : KeysOf(tree)[i] = tree.slots[i].key
    BY Keys
  <2>2. /\ DOMAIN new.slots = 1..Len(new.slots) /\ DOMAIN KeysOf(new) = 1..Len(new.slots)
        /\ Len(new.slots) \in Nat
        /\ \A i \in 1..Len(new.slots) : KeysOf(new)[i] = new.slots[i].key
    BY <1>1, Keys
  <2>3. 1..Len(tree.slots) = 1..Len(new.slots)  BY <1>1, <2>1, <2>2
  <2>4. \A i \in 1..Len(tree.slots) : new.slots[i].key = tree.slots[i].key
    BY <1>1, <2>1, <2>2, <2>3
  <2> QED  BY <2>1, <2>2, <2>3, <2>4
<1>5. Distinct(tree) => Distinct(new)  BY <1>4 DEF Distinct
<1>6. Len(new.slots) = Len(tree.slots)
  <2>1. PICK a \in Nat, b \in Nat : a = Len(new.slots) /\ b = Len(tree.slots)  BY <1>4
  <2>2. 1..a = 1..b  BY <1>4, <2>1
  <2>3. a = b
    <3>1. (a \in 1..a \/ a = 0) /\ (b \in 1..b \/ b = 0)  OBVIOUS
    <3> QED  BY <2>2, <3>1
  <2> QED  BY <2>1, <2>3
<1> QED  BY <1>2, <1>3, <1>5, <1>6 DEF new

(***************************************************************************)
(* Trees by their paths, when one of them is replaced.                     *)
(***************************************************************************)

\* What a prefix is.
LEMMA PrefixMeans ==
  ASSUME NEW p \in Seq(Nat), NEW q \in Seq(Nat)
  PROVE  IsPrefix(p, q) <=> Len(p) <= Len(q) /\ \A i \in 1..Len(p) : p[i] = q[i]
<1>1. ASSUME IsPrefix(p, q) PROVE Len(p) <= Len(q) /\ \A i \in 1..Len(p) : p[i] = q[i]
  <2>1. Len(p) <= Len(q)  BY <1>1 DEF IsPrefix
  <2>2. Len(p) \in 0..Len(q) /\ Len(p) \in 0..Len(p)  BY <2>1
  <2>3. SubSeq(p, 1, Len(p)) = SubSeq(q, 1, Len(p))  BY <1>1 DEF IsPrefix
  <2>4. \A i \in 1..Len(p) : SubSeq(p, 1, Len(p))[i] = p[i] /\ SubSeq(q, 1, Len(p))[i] = q[i]
    BY <2>2, Beginnings
  <2> QED  BY <2>1, <2>3, <2>4
<1> QED  BY <1>1, PrefixBy

\* A path, and the one that is a name shorter.
LEMMA Parents ==
  ASSUME NEW q \in Seq(Nat), NEW l \in 1..3, Len(q) = l
  PROVE  /\ Parent(q) \in Seq(Nat) /\ Len(Parent(q)) = l - 1
         /\ \A i \in 1..(l - 1) : Parent(q)[i] = q[i]
         /\ \A n \in 0..(l - 1) : SubSeq(Parent(q), 1, n) = SubSeq(q, 1, n)
         /\ Parent(q) = SubSeq(q, 1, l - 1)
         /\ Last(q) = q[l] /\ q[l] \in Nat
<1>1. l - 1 \in 0..Len(q) /\ l \in 1..Len(q)  OBVIOUS
<1>2. Parent(q) = SubSeq(q, 1, l - 1)  BY DEF Parent
<1>3. /\ Parent(q) \in Seq(Nat) /\ Len(Parent(q)) = l - 1
      /\ \A i \in 1..(l - 1) : Parent(q)[i] = q[i]
  BY <1>1, <1>2, Beginnings
<1>4. ASSUME NEW n \in 0..(l - 1) PROVE SubSeq(Parent(q), 1, n) = SubSeq(q, 1, n)
  <2>1. n \in 0..Len(Parent(q)) /\ n \in 0..Len(q) /\ \A i \in 1..n : i \in 1..(l - 1)
    BY <1>3, <1>4
  <2>2. \A i \in 1..n : Parent(q)[i] = q[i]  BY <1>3, <2>1
  <2> QED  BY <1>3, <2>1, <2>2, SameBeginning
<1>5. Last(q) = q[l] /\ q[l] \in Nat  BY <1>1 DEF Last
<1> QED  BY <1>2, <1>3, <1>4, <1>5

\* One step down.
LEMMA Deeper ==
  ASSUME NEW top, NEW q \in Seq(Nat), NEW l \in 1..3, Len(q) = l
  PROVE  /\ TreeAt(top, q) = ValueAt(TreeAt(top, Parent(q)), q[l])
         /\ Exists(top, q) <=> Exists(top, Parent(q)) /\ Has(TreeAt(top, Parent(q)), q[l])
<1> DEFINE p == Parent(q)
<1>1. /\ p \in Seq(Nat) /\ Len(p) = l - 1
      /\ \A i \in 1..(l - 1) : p[i] = q[i]
      /\ \A n \in 0..(l - 1) : SubSeq(p, 1, n) = SubSeq(q, 1, n)
      /\ p = SubSeq(q, 1, l - 1)
  BY Parents
<1> HIDE DEF p
<1>2. TreeAt(top, q) = ValueAt(TreeAt(top, p), q[l])
  <2>1. CASE l = 1
    <3>1. Len(p) = 0 /\ Len(q) = 1  BY <1>1, <2>1
    <3>2. TreeAt(top, p) = top /\ TreeAt(top, q) = ValueAt(top, q[1])  BY <3>1 DEF TreeAt
    <3> QED  BY <2>1, <3>2
  <2>2. CASE l = 2
    <3>1. Len(p) = 1 /\ Len(q) = 2 /\ p[1] = q[1]  BY <1>1, <2>2
    <3>2. /\ TreeAt(top, p) = ValueAt(top, q[1])
          /\ TreeAt(top, q) = ValueAt(ValueAt(top, q[1]), q[2])
      BY <3>1 DEF TreeAt
    <3> QED  BY <2>2, <3>2
  <2>3. CASE l = 3
    <3>1. Len(p) = 2 /\ Len(q) = 3 /\ p[1] = q[1] /\ p[2] = q[2]  BY <1>1, <2>3
    <3>2. /\ TreeAt(top, p) = ValueAt(ValueAt(top, q[1]), q[2])
          /\ TreeAt(top, q) = ValueAt(ValueAt(ValueAt(top, q[1]), q[2]), q[3])
      BY <3>1 DEF TreeAt
    <3> QED  BY <2>3, <3>2
  <2> QED  BY <2>1, <2>2, <2>3
<1>3. Exists(top, q) <=> \A n \in 1..l : Has(TreeAt(top, SubSeq(q, 1, n - 1)), q[n])
  BY DEF Exists
<1>4. Exists(top, p) <=> \A n \in 1..(l - 1) : Has(TreeAt(top, SubSeq(q, 1, n - 1)), q[n])
  <2>1. \A n \in 1..(l - 1) : SubSeq(p, 1, n - 1) = SubSeq(q, 1, n - 1) /\ p[n] = q[n]
    <3> SUFFICES ASSUME NEW n \in 1..(l - 1)
                 PROVE SubSeq(p, 1, n - 1) = SubSeq(q, 1, n - 1) /\ p[n] = q[n]
      OBVIOUS
    <3>1. n - 1 \in 0..(l - 1)  OBVIOUS
    <3> QED  BY <1>1, <3>1
  <2>2. Exists(top, p) <=> \A n \in 1..(l - 1) : Has(TreeAt(top, SubSeq(p, 1, n - 1)), p[n])
    BY <1>1 DEF Exists
  <2> QED  BY <2>1, <2>2
<1>5. \A n : n \in 1..l <=> n \in 1..(l - 1) \/ n = l  OBVIOUS
<1>6. Exists(top, q) <=> Exists(top, p) /\ Has(TreeAt(top, SubSeq(q, 1, l - 1)), q[l])
  BY <1>3, <1>4, <1>5
<1> QED  BY <1>1, <1>2, <1>6 DEF p

\* The tree n names along path is changed only where path goes on.
OnlyAhead(top, path, new, n) ==
  \E below \in Contents(n) :
    /\ TreeAt(Replaced(top, path, new), SubSeq(path, 1, n)) =
         SetValueAt(TreeAt(top, SubSeq(path, 1, n)), path[n + 1], below)
    /\ TreeAt(Replaced(top, path, new), SubSeq(path, 1, n + 1)) = below
    /\ n + 1 = Len(path) => below = new

\* The trees from the root to the one that is replaced.
LEMMA Along ==
  ASSUME NEW top \in Roots, NEW path \in Seq(Nat), NEW l \in 1..3, Len(path) = l, Exists(top, path),
         NEW new \in TreeOf(Contents(Len(path))), NEW n \in 0..(l - 1)
  PROVE  OnlyAhead(top, path, new, n)
<1> SUFFICES \E below \in Contents(n) :
               /\ TreeAt(Replaced(top, path, new), SubSeq(path, 1, n)) =
                    SetValueAt(TreeAt(top, SubSeq(path, 1, n)), path[n + 1], below)
               /\ TreeAt(Replaced(top, path, new), SubSeq(path, 1, n + 1)) = below
               /\ n + 1 = l => below = new
  BY DEF OnlyAhead
<1> DEFINE V1 == ValueAt(top, path[1])
           V2 == ValueAt(V1, path[2])
           made == Replaced(top, path, new)
           to(m) == SubSeq(path, 1, m)
<1>0. Len(path) \in 1..3 /\ Len(path) \in 0..3  OBVIOUS
<1>1. PICK x1 \in Contents(0) :
        /\ made = SetValueAt(top, path[1], x1)
        /\ Len(path) = 1 => x1 = new
        /\ Len(path) >= 2 =>
             \E x2 \in Contents(1) :
               /\ x1 = SetValueAt(V1, path[2], x2)
               /\ Len(path) = 2 => x2 = new
               /\ Len(path) >= 3 => x2 = SetValueAt(V2, path[3], new)
  BY <1>0, ReplacedIs
<1>2. /\ Has(top, path[1])
      /\ Len(path) >= 2 => Has(V1, path[2]) /\ V1 \in Contents(0)
      /\ Len(path) >= 3 => Has(V2, path[3]) /\ V2 \in Contents(1)
  <2>1. /\ Len(path) >= 1 => Has(top, path[1]) /\ V1 \in Contents(0)
        /\ Len(path) >= 2 => Has(V1, path[2]) /\ V2 \in Contents(1)
        /\ Len(path) >= 3 => Has(V2, path[3])
    BY <1>0, OnTheWay
  <2> HIDE DEF V1, V2
  <2>2. Len(path) >= 1 /\ (Len(path) >= 3 => Len(path) >= 2)  BY <1>0
  <2> QED  BY <2>1, <2>2
<1>3. \A m \in 0..l : Len(to(m)) = m /\ \A i \in 1..m : to(m)[i] = path[i]
  BY Beginnings
<1>4. ValueAt(made, path[1]) = x1  BY <1>1, <1>2, SetValue DEF Roots
<1> HIDE DEF made, V1, V2, to
<1>5. /\ TreeAt(top, to(0)) = top /\ TreeAt(made, to(0)) = made
      /\ TreeAt(top, to(1)) = V1 /\ TreeAt(made, to(1)) = x1
  <2>1. Len(to(0)) = 0  BY <1>3
  <2>2. 1 \in 0..l /\ 1 \in 1..1  OBVIOUS
  <2>3. Len(to(1)) = 1 /\ to(1)[1] = path[1]  BY <1>3, <2>2, Zenon
  <2> QED  BY <1>4, <2>1, <2>3 DEF TreeAt, V1
<1>6. CASE n = 0  BY <1>1, <1>5, <1>6 DEF made, to
<1>7. CASE n = 1
  <2>1. PICK x2 \in Contents(1) :
          /\ x1 = SetValueAt(V1, path[2], x2)
          /\ l = 2 => x2 = new
    BY <1>1, <1>7
  <2>2. ValueAt(x1, path[2]) = x2
    <3>1. V1 \in TreeOf(Contents(1)) /\ Has(V1, path[2])  BY <1>2, <1>7, TreesAreHeld
    <3> QED  BY <2>1, <3>1, SetValue
  <2>3. TreeAt(made, to(2)) = x2
    <3>1. 2 \in 0..l /\ 1 \in 1..2 /\ 2 \in 1..2  BY <1>7
    <3>2. Len(to(2)) = 2 /\ to(2)[1] = path[1] /\ to(2)[2] = path[2]  BY <1>3, <3>1, Zenon
    <3> QED  BY <1>4, <2>2, <3>2 DEF TreeAt
  <2> QED  BY <1>5, <1>7, <2>1, <2>3 DEF made, to
<1>8. CASE n = 2
  <2>1. PICK x2 \in Contents(1) :
          /\ x1 = SetValueAt(V1, path[2], x2)
          /\ x2 = SetValueAt(V2, path[3], new)
    BY <1>1, <1>8
  <2>2. ValueAt(x1, path[2]) = x2
    <3>1. V1 \in TreeOf(Contents(1)) /\ Has(V1, path[2])  BY <1>2, <1>8, TreesAreHeld
    <3> QED  BY <2>1, <3>1, SetValue
  <2>3. new \in Contents(2) /\ l = 3  BY <1>8, TreesAreHeld
  <2>4. ValueAt(x2, path[3]) = new
    <3>1. V2 \in TreeOf(Contents(2)) /\ Has(V2, path[3])  BY <1>2, <2>3, TreesAreHeld
    <3> QED  BY <2>1, <2>3, <3>1, SetValue
  <2>5. TreeAt(made, to(2)) = x2 /\ TreeAt(top, to(2)) = V2
    <3>1. 2 \in 0..l /\ 1 \in 1..2 /\ 2 \in 1..2  BY <2>3
    <3>2. Len(to(2)) = 2 /\ to(2)[1] = path[1] /\ to(2)[2] = path[2]  BY <1>3, <3>1, Zenon
    <3> QED  BY <1>4, <2>2, <3>2 DEF TreeAt, V1, V2
  <2>6. TreeAt(made, to(3)) = new
    <3>1. 3 \in 0..l /\ 1 \in 1..3 /\ 2 \in 1..3 /\ 3 \in 1..3  BY <2>3
    <3>2. Len(to(3)) = 3 /\ to(3)[1] = path[1] /\ to(3)[2] = path[2] /\ to(3)[3] = path[3]
      BY <1>3, <3>1, Zenon
    <3> QED  BY <1>4, <2>2, <2>4, <3>2 DEF TreeAt
  <2> QED  BY <1>8, <2>1, <2>3, <2>5, <2>6 DEF made, to
<1> QED  BY <1>6, <1>7, <1>8

\* The tree at path replaced, the one at q is as it was; or it leads to path.
Unreplaced(top, made, path, q) ==
  /\ Exists(made, q) <=> Exists(top, q)
  /\ Exists(top, q) /\ ~IsPrefix(q, path) => TreeAt(made, q) = TreeAt(top, q)
  /\ IsPrefix(q, path) =>
       \E k \in Nat, below \in Contents(Len(q)) :
         Has(TreeAt(top, q), k) /\ TreeAt(made, q) = SetValueAt(TreeAt(top, q), k, below)

\* The trees on the way to a tree there is are there, and stay when it is replaced.
LEMMA AlongExists ==
  ASSUME NEW top \in Roots, NEW path \in Seq(Nat), NEW l \in 1..3, Len(path) = l, Exists(top, path),
         NEW new \in TreeOf(Contents(Len(path)))
  PROVE  \A n \in 0..l : /\ Exists(top, SubSeq(path, 1, n))
                         /\ Exists(Replaced(top, path, new), SubSeq(path, 1, n))
<1> DEFINE to(m) == SubSeq(path, 1, m)
           made == Replaced(top, path, new)
           Good == {n \in 0..l : Exists(top, to(n)) /\ Exists(made, to(n))}
<1>1. \A n \in 0..l : to(n) \in Seq(Nat) /\ Len(to(n)) = n /\ \A i \in 1..n : to(n)[i] = path[i]
  BY Beginnings
<1>2. ASSUME NEW n \in 0..(l - 1)
      PROVE  /\ Has(TreeAt(top, to(n)), path[n + 1])
             /\ \E below \in Contents(n) : TreeAt(made, to(n)) =
                  SetValueAt(TreeAt(top, to(n)), path[n + 1], below)
  <2>1. n + 1 \in 1..Len(path) /\ (n + 1) - 1 = n  BY <1>2
  <2>2. Has(TreeAt(top, to((n + 1) - 1)), path[n + 1])  BY <2>1 DEF Exists
  <2>3. OnlyAhead(top, path, new, n)  BY Along
  <2>4. \E below \in Contents(n) : TreeAt(made, to(n)) =
          SetValueAt(TreeAt(top, to(n)), path[n + 1], below)
    BY <2>3 DEF OnlyAhead
  <2>5. to((n + 1) - 1) = to(n)  BY <2>1
  <2> HIDE DEF to, made
  <2> QED  BY <2>2, <2>4, <2>5
<1> HIDE DEF to, made
<1>3. 0 \in Good
  <2>1. Len(to(0)) = 0  BY <1>1
  <2> QED  BY <2>1 DEF Exists
<1>4. ASSUME NEW n \in 1..l, n - 1 \in Good PROVE n \in Good
  <2>1. n \in 0..l /\ n - 1 \in 0..(l - 1) /\ n \in 1..3 /\ n \in 1..n /\ (n - 1) + 1 = n
    OBVIOUS
  <2>2. /\ to(n) \in Seq(Nat) /\ Len(to(n)) = n /\ to(n)[n] = path[n]
        /\ to(n - 1) \in Seq(Nat) /\ Len(to(n - 1)) = n - 1
    BY <1>1, <2>1
  <2>3. Parent(to(n)) = to(n - 1)
    <3>1. Parent(to(n)) \in Seq(Nat) /\ Len(Parent(to(n))) = n - 1
          /\ \A i \in 1..(n - 1) : Parent(to(n))[i] = to(n)[i]
      BY <2>1, <2>2, Parents
    <3>2. \A i \in 1..(n - 1) : to(n)[i] = path[i] /\ to(n - 1)[i] = path[i]
      <4>1. n - 1 \in 0..l /\ n \in 0..l /\ \A i \in 1..(n - 1) : i \in 1..n  OBVIOUS
      <4> QED  BY <1>1, <4>1
    <3>3. \A i \in 1..(n - 1) : Parent(to(n))[i] = to(n - 1)[i]  BY <3>1, <3>2
    <3> QED  BY <2>2, <3>1, <3>3
  <2>4. Exists(top, to(n - 1)) /\ Exists(made, to(n - 1))  BY <1>4
  <2>5. Has(TreeAt(top, to(n - 1)), path[n])  BY <1>2, <2>1
  <2>6. PICK below \in Contents(n - 1) :
          TreeAt(made, to(n - 1)) = SetValueAt(TreeAt(top, to(n - 1)), path[n], below)
    <3>1. \E below \in Contents(n - 1) :
            TreeAt(made, to(n - 1)) = SetValueAt(TreeAt(top, to(n - 1)), path[(n - 1) + 1], below)
      BY <1>2, <2>1
    <3> QED  BY <2>1, <3>1
  <2>7. TreeAt(top, to(n - 1)) \in TreeOf(Contents(n - 1))
    <3>1. n - 1 \in 0..3  OBVIOUS
    <3> QED  BY <2>2, <2>4, <3>1, TreeTyped, Zenon
  <2>8. Has(TreeAt(made, to(n - 1)), path[n])  BY <2>5, <2>6, <2>7, SetIs
  <2>9. Exists(top, to(n)) /\ Exists(made, to(n))
    <3>1. /\ Exists(top, to(n)) <=> Exists(top, to(n - 1)) /\ Has(TreeAt(top, to(n - 1)), path[n])
          /\ Exists(made, to(n)) <=> Exists(made, to(n - 1)) /\ Has(TreeAt(made, to(n - 1)), path[n])
      BY <2>1, <2>2, <2>3, Deeper
    <3> QED  BY <2>4, <2>5, <2>8, <3>1
  <2> QED  BY <2>1, <2>9
<1> HIDE DEF Good
<1>5. \A n \in 0..l : n \in Good  BY <1>3, <1>4, UpTo
<1> QED  BY <1>5 DEF Good, to, made

\* What replacing a tree does to all others.
LEMMA Elsewhere ==
  ASSUME NEW top \in Roots, NEW path \in Seq(Nat), Len(path) \in 0..3, Exists(top, path),
         NEW new \in TreeOf(Contents(Len(path)))
  PROVE  /\ Exists(Replaced(top, path, new), path)
         /\ TreeAt(Replaced(top, path, new), path) = new
         /\ \A q \in Seq(Nat) : Len(q) \in 0..3 /\ ~IsPrefix(path, q) =>
              Unreplaced(top, Replaced(top, path, new), path, q)
<1>1. PICK l \in 0..3 : l = Len(path)  OBVIOUS
<1> DEFINE made == Replaced(top, path, new)
           to(m) == SubSeq(path, 1, m)
<1>2. CASE l = 0
  <2>1. Len(path) = 0  BY <1>1, <1>2
  <2>2. made = new  BY <2>1 DEF Replaced
  <2>3. Exists(made, path) /\ TreeAt(made, path) = new  BY <2>1, <2>2 DEF Exists, TreeAt
  <2>4. \A q \in Seq(Nat) : IsPrefix(path, q)
    <3> SUFFICES ASSUME NEW q \in Seq(Nat) PROVE IsPrefix(path, q)  OBVIOUS
    <3>1. Len(path) <= Len(q) /\ \A i \in 1..Len(path) : path[i] = q[i]
      <4>1. PICK m \in Nat : m = Len(q)  BY LenProperties
      <4>2. 0 <= m  OBVIOUS
      <4> QED  BY <2>1, <4>1, <4>2
    <3> QED  BY <3>1, PrefixBy
  <2> QED  BY <2>3, <2>4
<1>3. CASE l # 0
  <2>0. l \in 1..3 /\ Len(path) = l /\ l - 1 \in 0..(l - 1) /\ l \in 0..l /\ (l - 1) + 1 = l
    BY <1>1, <1>3
  <2>1. to(l) = path
    <3>1. to(l) \in Seq(Nat) /\ Len(to(l)) = l /\ \A i \in 1..l : to(l)[i] = path[i]
      BY <2>0, Beginnings
    <3> HIDE DEF to
    <3> QED  BY <2>0, <3>1
  <2>2. \A n \in 0..l : Exists(top, to(n)) /\ Exists(made, to(n))  BY <2>0, AlongExists
  <2>3. \A n \in 0..(l - 1) :
          \E below \in Contents(n) :
            /\ TreeAt(made, to(n)) = SetValueAt(TreeAt(top, to(n)), path[n + 1], below)
            /\ TreeAt(made, to(n + 1)) = below
            /\ n + 1 = l => below = new
    <3> SUFFICES ASSUME NEW n \in 0..(l - 1)
                 PROVE \E below \in Contents(n) :
                         /\ TreeAt(made, to(n)) = SetValueAt(TreeAt(top, to(n)), path[n + 1], below)
                         /\ TreeAt(made, to(n + 1)) = below
                         /\ n + 1 = l => below = new
      OBVIOUS
    <3>1. l \in 1..3 /\ Len(path) = l  BY <2>0
    <3>2. OnlyAhead(top, path, new, n)  BY <3>1, Along
    <3> QED  BY <3>1, <3>2 DEF OnlyAhead
  <2>4. \A n \in 0..l : /\ to(n) \in Seq(Nat) /\ Len(to(n)) = n
                        /\ \A i \in 1..n : to(n)[i] = path[i]
    BY <2>0, Beginnings
  <2> HIDE DEF made, to
  <2>5. Exists(made, path) /\ TreeAt(made, path) = new
    <3>1. TreeAt(made, to((l - 1) + 1)) = new  BY <2>0, <2>3
    <3> QED  BY <2>0, <2>1, <2>2, <3>1
  <2> DEFINE Outside(q) == Len(q) \in 0..3 /\ ~IsPrefix(path, q)
             Good == {n \in 0..3 : \A q \in Seq(Nat) : Len(q) = n /\ Outside(q) =>
                        Unreplaced(top, made, path, q)}
  <2>6. \A q \in Seq(Nat) : Outside(q) /\ IsPrefix(q, path) =>
          /\ Unreplaced(top, made, path, q) /\ Exists(top, q)
          /\ Len(q) \in 0..(l - 1) /\ q = to(Len(q))
    <3> SUFFICES ASSUME NEW q \in Seq(Nat), Outside(q), IsPrefix(q, path)
                 PROVE  /\ Unreplaced(top, made, path, q) /\ Exists(top, q)
                        /\ Len(q) \in 0..(l - 1) /\ q = to(Len(q))
      OBVIOUS
    <3>1. PICK m \in 0..3 : m = Len(q)  OBVIOUS
    <3>2. m <= l /\ \A i \in 1..m : q[i] = path[i]  BY <2>0, <3>1, PrefixMeans
    <3>3. m # l
      <4> SUFFICES ASSUME m = l PROVE FALSE  OBVIOUS
      <4>1. Len(path) <= Len(q) /\ \A i \in 1..Len(path) : path[i] = q[i]  BY <2>0, <3>1, <3>2
      <4> QED  BY <4>1, PrefixBy
    <3>4. m \in 0..(l - 1) /\ m \in 0..l /\ m + 1 \in 1..l  BY <2>0, <3>2, <3>3
    <3>5. q = to(m)
      <4>1. to(m) \in Seq(Nat) /\ Len(to(m)) = m /\ \A i \in 1..m : to(m)[i] = path[i]
        BY <2>4, <3>4
      <4>2. \A i \in 1..m : q[i] = to(m)[i]  BY <3>2, <4>1
      <4> QED  BY <3>1, <4>1, <4>2, SeqEqual
    <3>6. Exists(top, q) /\ Exists(made, q)  BY <2>2, <3>4, <3>5
    <3>7. PICK below \in Contents(m) :
            TreeAt(made, q) = SetValueAt(TreeAt(top, q), path[m + 1], below)
      BY <2>3, <3>4, <3>5
    <3>8. Has(TreeAt(top, q), path[m + 1]) /\ path[m + 1] \in Nat
      <4>1. m + 1 \in 1..Len(path) /\ (m + 1) - 1 = m  BY <2>0, <3>4
      <4>2. Has(TreeAt(top, to((m + 1) - 1)), path[m + 1])  BY <4>1 DEF Exists, to
      <4> QED  BY <3>5, <4>1, <4>2
    <3> QED  BY <3>1, <3>4, <3>5, <3>6, <3>7, <3>8 DEF Unreplaced
  <2>7. 0 \in Good
    <3> SUFFICES ASSUME NEW q \in Seq(Nat), Len(q) = 0, Outside(q)
                 PROVE  IsPrefix(q, path)
      BY <2>6
    <3>1. Len(q) <= Len(path) /\ \A i \in 1..Len(q) : q[i] = path[i]
      <4>1. 0 <= l  BY <2>0
      <4> QED  BY <2>0, <4>1
    <3> QED  BY <3>1, PrefixBy
  <2>8. ASSUME NEW n \in 1..3, n - 1 \in Good PROVE n \in Good
    <3> SUFFICES ASSUME NEW q \in Seq(Nat), Len(q) = n, ~IsPrefix(path, q), ~IsPrefix(q, path)
                 PROVE  Unreplaced(top, made, path, q)
      <4>1. n \in 0..3  OBVIOUS
      <4> QED  BY <2>6, <4>1
    <3> DEFINE p == Parent(q)
               k == q[n]
    <3>1. /\ p \in Seq(Nat) /\ Len(p) = n - 1 /\ \A i \in 1..(n - 1) : p[i] = q[i]
          /\ k \in Nat
      BY Parents
    <3>2. /\ TreeAt(made, q) = ValueAt(TreeAt(made, p), k)
          /\ TreeAt(top, q) = ValueAt(TreeAt(top, p), k)
          /\ Exists(made, q) <=> Exists(made, p) /\ Has(TreeAt(made, p), k)
          /\ Exists(top, q) <=> Exists(top, p) /\ Has(TreeAt(top, p), k)
      BY Deeper
    <3> HIDE DEF p
    <3>3. Outside(p)
      <4>1. n - 1 \in 0..3 /\ n - 1 <= n  OBVIOUS
      <4>2. SUFFICES ASSUME IsPrefix(path, p) PROVE FALSE  BY <3>1, <4>1
      <4>3. IsPrefix(p, q)
        <5>1. Len(p) <= Len(q) /\ \A i \in 1..Len(p) : p[i] = q[i]  BY <3>1, <4>1
        <5> QED  BY <3>1, <5>1, PrefixBy
      <4> QED  BY <3>1, <4>2, <4>3, PrefixOfPrefix
    <3>4. CASE IsPrefix(p, path)
      <4>1. Exists(top, p) /\ Exists(made, p) /\ n - 1 \in 0..(l - 1) /\ p = to(n - 1)
        BY <2>6, <3>1, <3>3, <3>4 DEF Unreplaced
      <4>2. n <= l /\ n \in 1..l  BY <2>0, <4>1
      <4>3. PICK below \in Contents(n - 1) :
              TreeAt(made, p) = SetValueAt(TreeAt(top, p), path[n], below)
        <5>1. (n - 1) + 1 = n  OBVIOUS
        <5> QED  BY <2>3, <4>1, <5>1
      <4>4. k # path[n]
        <5> SUFFICES ASSUME k = path[n] PROVE FALSE  OBVIOUS
        <5>1. \A i \in 1..(n - 1) : q[i] = path[i]
          <6>0. n - 1 \in 0..l  BY <2>0, <4>1
          <6>1. \A i \in 1..(n - 1) : p[i] = path[i]  BY <2>4, <6>0, <4>1
          <6> QED  BY <3>1, <6>1
        <5>2. Len(q) <= Len(path) /\ \A i \in 1..Len(q) : q[i] = path[i]  BY <2>0, <4>2, <5>1
        <5> QED  BY <5>2, PrefixBy
      <4>5. TreeAt(top, p) \in TreeOf(Contents(n - 1)) /\ Has(TreeAt(top, p), path[n])
        <5>1. Len(p) \in 0..3  BY <3>3
        <5>2. TreeAt(top, p) \in TreeOf(Contents(n - 1))  BY <3>1, <4>1, <5>1, TreeTyped
        <5>3. Has(TreeAt(top, to(n - 1)), path[n])  BY <2>0, <4>2 DEF Exists, to
        <5> QED  BY <4>1, <5>2, <5>3
      <4>6. /\ Has(TreeAt(made, p), k) <=> Has(TreeAt(top, p), k)
            /\ Has(TreeAt(top, p), k) => ValueAt(TreeAt(made, p), k) = ValueAt(TreeAt(top, p), k)
        BY <4>3, <4>4, <4>5, SetIs, SetValue
      <4> QED  BY <3>2, <4>1, <4>6 DEF Unreplaced
    <3>5. CASE ~IsPrefix(p, path)
      <4>1. Unreplaced(top, made, path, p)  BY <2>8, <3>1, <3>3
      <4> QED  BY <3>2, <3>5, <4>1 DEF Unreplaced
    <3> QED  BY <3>4, <3>5
  <2> HIDE DEF Good
  <2>9. \A n \in 0..3 : n \in Good  BY <2>7, <2>8, UpTo
  <2>10. \A q \in Seq(Nat) : Outside(q) => Unreplaced(top, made, path, q)  BY <2>9 DEF Good
  <2> QED  BY <2>5, <2>10 DEF made
<1> QED  BY <1>2, <1>3

\* What a change of key k makes of a tree, the value at k aside: a note of it on top of
\* its stack, and the vector has moved the elements.
Altered(tree, new, k, kind, v, time) ==
  /\ Distinct(new)
  /\ new.undone = tree.undone
  /\ new.ops = Append(tree.ops, [kind |-> kind, key |-> k, val |-> v, time |-> time])
  /\ \A j : j # k => (Has(new, j) <=> Has(tree, j))
  /\ \A j : j # k /\ Has(tree, j) => Kin(ValueAt(new, j), ValueAt(tree, j), tree)

\* A note on the stack, and nothing else.
LEMMA PushIs ==
  ASSUME NEW V, NEW tree \in TreeOf(V), NEW kind \in {"insert", "update", "remove"},
         NEW k \in Nat, NEW v \in V, NEW time \in Nat
  PROVE  LET pushed == Push(tree, kind, k, v, time)
         IN /\ pushed \in TreeOf(V) /\ pushed.undone = tree.undone
            /\ pushed.ops = Append(tree.ops, [kind |-> kind, key |-> k, val |-> v, time |-> time])
            /\ Distinct(pushed) <=> Distinct(tree)
            /\ \A j : (Has(pushed, j) <=> Has(tree, j)) /\ ValueAt(pushed, j) = ValueAt(tree, j)
            /\ \A a, b : Kin(a, b, pushed) <=> Kin(a, b, tree)
<1> DEFINE op == [kind |-> kind, key |-> k, val |-> v, time |-> time]
           pushed == Push(tree, kind, k, v, time)
<1>1. pushed \in TreeOf(V) /\ pushed.slots = tree.slots /\ KeysOf(pushed) = KeysOf(tree)
  BY PushTyped
<1>2. pushed = [tree EXCEPT !.ops = Append(tree.ops, op)]  BY DEF Push, TreeOf
<1> HIDE DEF op, pushed
<1>3. pushed.undone = tree.undone /\ pushed.ops = Append(tree.ops, op)  BY <1>2 DEF TreeOf
<1>4. Distinct(pushed) <=> Distinct(tree)  BY <1>1 DEF Distinct
<1>5. \A j : (Has(pushed, j) <=> Has(tree, j)) /\ ValueAt(pushed, j) = ValueAt(tree, j)
  <2> SUFFICES ASSUME NEW j
               PROVE (Has(pushed, j) <=> Has(tree, j)) /\ ValueAt(pushed, j) = ValueAt(tree, j)
    OBVIOUS
  <2>1. (Has(pushed, j) <=> Has(tree, j)) /\ PlaceOf(pushed, j) = PlaceOf(tree, j)
    BY <1>1, SameKeys
  <2> QED  BY <1>1, <2>1 DEF ValueAt
<1>6. \A a, b : Kin(a, b, pushed) <=> Kin(a, b, tree)  BY <1>1 DEF Kin
<1> QED  BY <1>1, <1>3, <1>4, <1>5, <1>6 DEF op, pushed

\* A key inserted by a handler, with its operation.
LEMMA InsertKeyIs ==
  ASSUME NEW level, NEW V, Holdable(level, V), NEW tree \in TreeOf(V), Distinct(tree),
         NEW k \in Nat, ~Has(tree, k), NEW v \in V, NEW time \in Nat
  PROVE  LET new == InsertKey(level, tree, k, v, time)
         IN /\ new \in TreeOf(V) /\ Copy(level, v) \in V
            /\ Altered(tree, new, k, "insert", Copy(level, v), time)
            /\ Has(new, k) /\ Kin(ValueAt(new, k), Copy(level, v), tree)
<1> DEFINE x == Copy(level, v)
           pushed == Push(tree, "insert", k, x, time)
           new == InsertSlot(pushed, k, x)
<1>1. x \in V  BY DEF Holdable
<1>2. InsertKey(level, tree, k, v, time) = new  BY DEF InsertKey
<1> HIDE DEF x
<1>3. /\ pushed \in TreeOf(V) /\ pushed.undone = tree.undone
      /\ pushed.ops = Append(tree.ops, [kind |-> "insert", key |-> k, val |-> x, time |-> time])
      /\ Distinct(pushed) <=> Distinct(tree)
      /\ \A j : (Has(pushed, j) <=> Has(tree, j)) /\ ValueAt(pushed, j) = ValueAt(tree, j)
      /\ \A a, b : Kin(a, b, pushed) <=> Kin(a, b, tree)
  BY <1>1, PushIs
<1> HIDE DEF pushed
<1>4. ~Has(pushed, k) /\ Distinct(pushed)  BY <1>3
<1>5. /\ new \in TreeOf(V) /\ Distinct(new)
      /\ new.ops = pushed.ops /\ new.undone = pushed.undone
      /\ \A j : Has(new, j) <=> Has(pushed, j) \/ j = k
      /\ \A j : Has(pushed, j) => Kin(ValueAt(new, j), ValueAt(pushed, j), pushed)
      /\ Kin(ValueAt(new, k), x, pushed)
  BY <1>1, <1>3, <1>4, InsertIs
<1> HIDE DEF new
<1>6. Altered(tree, new, k, "insert", x, time)  BY <1>3, <1>5 DEF Altered
<1>7. Has(new, k) /\ Kin(ValueAt(new, k), x, tree)  BY <1>3, <1>5
<1> QED  BY <1>1, <1>2, <1>5, <1>6, <1>7 DEF x

\* ... one removed ...
LEMMA EraseKeyIs ==
  ASSUME NEW level, NEW V, Holdable(level, V), NEW tree \in TreeOf(V), Distinct(tree),
         NEW k \in Nat, Has(tree, k), NEW time \in Nat
  PROVE  LET new == EraseKey(level, tree, k, time)
         IN /\ new \in TreeOf(V) /\ Copy(level, ValueAt(tree, k)) \in V
            /\ Altered(tree, new, k, "remove", Copy(level, ValueAt(tree, k)), time)
            /\ ~Has(new, k)
<1> DEFINE x == Copy(level, ValueAt(tree, k))
           pushed == Push(tree, "remove", k, x, time)
           new == EraseSlot(pushed, k)
<1>1. x \in V  BY Place DEF Holdable
<1>2. EraseKey(level, tree, k, time) = new  BY DEF EraseKey
<1> HIDE DEF x
<1>3. /\ pushed \in TreeOf(V) /\ pushed.undone = tree.undone
      /\ pushed.ops = Append(tree.ops, [kind |-> "remove", key |-> k, val |-> x, time |-> time])
      /\ Distinct(pushed) <=> Distinct(tree)
      /\ \A j : (Has(pushed, j) <=> Has(tree, j)) /\ ValueAt(pushed, j) = ValueAt(tree, j)
      /\ \A a, b : Kin(a, b, pushed) <=> Kin(a, b, tree)
  BY <1>1, PushIs
<1> HIDE DEF pushed
<1>4. Has(pushed, k) /\ Distinct(pushed)  BY <1>3
<1>5. /\ new \in TreeOf(V) /\ Distinct(new)
      /\ new.ops = pushed.ops /\ new.undone = pushed.undone
      /\ \A j : Has(new, j) <=> Has(pushed, j) /\ j # k
      /\ \A j : Has(pushed, j) /\ j # k => Kin(ValueAt(new, j), ValueAt(pushed, j), pushed)
  BY <1>1, <1>3, <1>4, EraseIs
<1> HIDE DEF new
<1>6. Altered(tree, new, k, "remove", x, time)  BY <1>3, <1>5 DEF Altered
<1>7. ~Has(new, k)  BY <1>3, <1>5
<1> QED  BY <1>1, <1>2, <1>5, <1>6, <1>7 DEF x

\* ... and one updated.
LEMMA UpdateKeyIs ==
  ASSUME NEW V, NEW tree \in TreeOf(V), Distinct(tree),
         NEW k \in Nat, Has(tree, k), NEW v \in V, NEW time \in Nat
  PROVE  LET new == UpdateKey(tree, k, v, time)
         IN /\ new \in TreeOf(V) /\ ValueAt(tree, k) \in V
            /\ Altered(tree, new, k, "update", ValueAt(tree, k), time)
            /\ Has(new, k) /\ ValueAt(new, k) = v
<1> DEFINE x == ValueAt(tree, k)
           pushed == Push(tree, "update", k, x, time)
           new == SetValueAt(pushed, k, v)
<1>1. x \in V  BY Place
<1>2. UpdateKey(tree, k, v, time) = new  BY DEF UpdateKey
<1> HIDE DEF x
<1>3. /\ pushed \in TreeOf(V) /\ pushed.undone = tree.undone
      /\ pushed.ops = Append(tree.ops, [kind |-> "update", key |-> k, val |-> x, time |-> time])
      /\ Distinct(pushed) <=> Distinct(tree)
      /\ \A j : (Has(pushed, j) <=> Has(tree, j)) /\ ValueAt(pushed, j) = ValueAt(tree, j)
      /\ \A a, b : Kin(a, b, pushed) <=> Kin(a, b, tree)
  BY <1>1, PushIs
<1> HIDE DEF pushed
<1>4. Has(pushed, k) /\ Distinct(pushed)  BY <1>3
<1>5. /\ new \in TreeOf(V) /\ ValueAt(new, k) = v
      /\ \A j : j # k /\ Has(pushed, j) => ValueAt(new, j) = ValueAt(pushed, j)
  BY <1>3, <1>4, SetValue
<1>6. /\ Distinct(new) /\ new.ops = pushed.ops /\ new.undone = pushed.undone
      /\ \A j : Has(new, j) <=> Has(pushed, j)
  BY <1>3, <1>4, SetIs
<1> HIDE DEF new
<1>7. \A a : Kin(a, a, tree)  BY DEF Kin
<1>8. Altered(tree, new, k, "update", x, time)  BY <1>3, <1>5, <1>6, <1>7 DEF Altered
<1> QED  BY <1>1, <1>2, <1>3, <1>4, <1>5, <1>6, <1>8 DEF x

\* new is what change c makes of its container, and kind, v what it notes there.
ChangesTo(top, c, time, new, kind, v) ==
  LET tree == TreeAt(top, Container(c))
      k == KeyIn(c)
      level == Len(Container(c))
  IN
  /\ Made(top, c, time) = Replaced(top, Container(c), new)
  /\ Altered(tree, new, k, kind, v, time)
  /\ c.op \in AddOps =>
       ~Has(tree, k) /\ Has(new, k) /\ Kin(ValueAt(new, k), Copy(level, NewTree), tree)
  /\ c.op \in RemoveOps => Has(tree, k) /\ ~Has(new, k)
  /\ c.op \in DataOps => c.op = kind
  /\ c.op = "insert" => ~Has(tree, k) /\ Has(new, k) /\ ValueAt(new, k) = c.val /\ v = c.val
  /\ c.op = "update" =>
       Has(tree, k) /\ Has(new, k) /\ ValueAt(new, k) = c.val /\ v = ValueAt(tree, k)
  /\ c.op = "remove" => Has(tree, k) /\ ~Has(new, k) /\ v = ValueAt(tree, k)

\* A possible change alters its container in one key.
LEMMA Changes ==
  ASSUME NEW top \in Roots, NEW c \in ChangeType, Possible(top, c), NEW time \in Nat,
         Distinct(TreeAt(top, Container(c)))
  PROVE  \E new \in TreeOf(Contents(Len(Container(c)))), kind \in {"insert", "update", "remove"},
            v \in Contents(Len(Container(c))) : ChangesTo(top, c, time, new, kind, v)
<1> DEFINE level == Len(Container(c))
           tree == TreeAt(top, Container(c))
           k == KeyIn(c)
           V == Contents(level)
<1>1. /\ Container(c) \in Seq(Nat) /\ level \in 0..3 /\ k \in Nat
      /\ c.op \in AddOps => level \in 0..2
      /\ c.op \in DataOps => level = 3
      /\ c.op \in {"insert", "update"} => c.val \in Val
  BY Containers
<1>2. Exists(top, Container(c))  BY DEF Possible
<1>3. tree \in TreeOf(V) /\ Holdable(level, V)  BY <1>1, <1>2, TreeTyped, ContentsHoldable
<1>4. c.op \in AddOps \cup RemoveOps \cup {"insert", "update", "remove"}
  BY DEF ChangeType, DirOps, DataOps
<1>5. (Has(tree, k) <=> c.op \notin AddOps \cup {"insert"}) /\ Distinct(tree)  BY DEF Possible
<1>6. Made(top, c, time) = Replaced(top, Container(c),
          CASE c.op \in AddOps -> InsertKey(level, tree, k, NewTree, time)
            [] c.op = "insert" -> InsertKey(level, tree, k, c.val, time)
            [] c.op \in RemoveOps \cup {"remove"} -> EraseKey(level, tree, k, time)
            [] c.op = "update" -> UpdateKey(tree, k, c.val, time))
  BY DEF Made
<1> SUFFICES \E new \in TreeOf(V), kind \in {"insert", "update", "remove"}, v \in V :
               ChangesTo(top, c, time, new, kind, v)
  OBVIOUS
<1>7. \A new, kind, v : ChangesTo(top, c, time, new, kind, v) <=>
        /\ Made(top, c, time) = Replaced(top, Container(c), new)
        /\ Altered(tree, new, k, kind, v, time)
        /\ c.op \in AddOps =>
             ~Has(tree, k) /\ Has(new, k) /\ Kin(ValueAt(new, k), Copy(level, NewTree), tree)
        /\ c.op \in RemoveOps => Has(tree, k) /\ ~Has(new, k)
        /\ c.op \in DataOps => c.op = kind
        /\ c.op = "insert" => ~Has(tree, k) /\ Has(new, k) /\ ValueAt(new, k) = c.val /\ v = c.val
        /\ c.op = "update" =>
             Has(tree, k) /\ Has(new, k) /\ ValueAt(new, k) = c.val /\ v = ValueAt(tree, k)
        /\ c.op = "remove" => Has(tree, k) /\ ~Has(new, k) /\ v = ValueAt(tree, k)
  BY DEF ChangesTo
<1> HIDE DEF level, tree, k, V
<1>8. CASE c.op \in AddOps
  <2>1. NewTree \in V
    <3>1. level = 0 \/ level = 1 \/ level = 2  BY <1>1, <1>8
    <3> QED  BY <3>1, NewTreeTyped, TreesAreHeld DEF V
  <2> DEFINE new == InsertKey(level, tree, k, NewTree, time)
             v == Copy(level, NewTree)
  <2>2. ~Has(tree, k) /\ Distinct(tree)  BY <1>5, <1>8
  <2>3. /\ new \in TreeOf(V) /\ v \in V
        /\ Altered(tree, new, k, "insert", v, time)
        /\ Has(new, k) /\ Kin(ValueAt(new, k), v, tree)
    BY <1>1, <1>3, <2>1, <2>2, InsertKeyIs
  <2>4. Made(top, c, time) = Replaced(top, Container(c), new)  BY <1>6, <1>8 DEF AddOps, RemoveOps
  <2>5. c.op \notin RemoveOps /\ c.op \notin DataOps /\ c.op \notin {"insert", "update", "remove"}
    BY <1>8 DEF AddOps, RemoveOps, DataOps
  <2>6. ChangesTo(top, c, time, new, "insert", v)
    <3> HIDE DEF new
    <3> QED  BY <1>7, <2>2, <2>3, <2>4, <2>5
  <2> HIDE DEF new, v
  <2> QED  BY <2>3, <2>6
<1>9. CASE c.op = "insert"
  <2>1. c.op \notin AddOps /\ c.op \notin RemoveOps /\ c.op \in DataOps
    BY <1>9 DEF AddOps, RemoveOps, DataOps
  <2>2. c.val \in V /\ level = 3 /\ V = Val  BY <1>1, <1>9, <2>1, TreesAreHeld DEF V
  <2> DEFINE new == InsertKey(level, tree, k, c.val, time)
             v == Copy(level, c.val)
  <2>3. ~Has(tree, k) /\ Distinct(tree)  BY <1>5, <1>9
  <2>4. /\ new \in TreeOf(V) /\ v \in V
        /\ Altered(tree, new, k, "insert", v, time)
        /\ Has(new, k) /\ Kin(ValueAt(new, k), v, tree)
    BY <1>1, <1>3, <2>2, <2>3, InsertKeyIs
  <2>5. v = c.val  BY <2>2 DEF Copy
  <2>6. Made(top, c, time) = Replaced(top, Container(c), new)  BY <1>6, <1>9, <2>1
  <2> HIDE DEF new, v
  <2>7. ValueAt(new, k) = c.val  BY <2>2, <2>4, <2>5 DEF Kin
  <2>8. ChangesTo(top, c, time, new, "insert", v)
    BY <1>7, <1>9, <2>1, <2>3, <2>4, <2>5, <2>6, <2>7
  <2> QED  BY <2>4, <2>8
<1>10. CASE c.op \in RemoveOps \cup {"remove"}
  <2>1. c.op \notin AddOps /\ c.op # "insert" /\ c.op # "update" /\ (c.op \in DataOps => c.op = "remove")
    BY <1>10 DEF AddOps, RemoveOps, DataOps
  <2>2. Has(tree, k) /\ Distinct(tree)  BY <1>5, <2>1
  <2> DEFINE new == EraseKey(level, tree, k, time)
             v == Copy(level, ValueAt(tree, k))
  <2>3. /\ new \in TreeOf(V) /\ v \in V
        /\ Altered(tree, new, k, "remove", v, time)
        /\ ~Has(new, k)
    BY <1>1, <1>3, <2>2, EraseKeyIs
  <2>4. Made(top, c, time) = Replaced(top, Container(c), new)  BY <1>6, <1>10, <2>1
  <2>5. c.op = "remove" => v = ValueAt(tree, k)
    <3>1. c.op = "remove" => level = 3  BY <1>1 DEF DataOps
    <3> QED  BY <3>1 DEF Copy
  <2> HIDE DEF new, v
  <2>6. ChangesTo(top, c, time, new, "remove", v)
    BY <1>7, <1>10, <2>1, <2>2, <2>3, <2>4, <2>5
  <2> QED  BY <2>3, <2>6
<1>11. CASE c.op = "update"
  <2>1. c.op \notin AddOps /\ c.op \notin RemoveOps /\ c.op \in DataOps
        /\ c.op \notin RemoveOps \cup {"remove"}
    BY <1>11 DEF AddOps, RemoveOps, DataOps
  <2>2. c.val \in V /\ Has(tree, k) /\ Distinct(tree)
    BY <1>1, <1>5, <1>11, <2>1, TreesAreHeld DEF V
  <2> DEFINE new == UpdateKey(tree, k, c.val, time)
             v == ValueAt(tree, k)
  <2>3. /\ new \in TreeOf(V) /\ v \in V
        /\ Altered(tree, new, k, "update", v, time)
        /\ Has(new, k) /\ ValueAt(new, k) = c.val
    BY <1>1, <1>3, <2>2, UpdateKeyIs
  <2>4. Made(top, c, time) = Replaced(top, Container(c), new)  BY <1>6, <1>11, <2>1
  <2> HIDE DEF new
  <2>5. ChangesTo(top, c, time, new, "update", v)
    BY <1>7, <1>11, <2>1, <2>2, <2>3, <2>4
  <2> HIDE DEF v
  <2> QED  BY <2>3, <2>5
<1> QED  BY <1>4, <1>8, <1>9, <1>10, <1>11

\* The ways to trees, the root's among them.
Ways == {q \in Seq(Nat) : Len(q) \in 0..3}

\* a has no history, or the one of a tree there is.
Inherits(top, a) ==
  \/ a.ops = <<>> /\ a.undone = <<>>
  \/ \E s \in Ways : /\ Exists(top, s)
                     /\ a.ops = TreeAt(top, s).ops /\ a.undone = TreeAt(top, s).undone

\* One name more.
LEMMA Child ==
  ASSUME NEW top, NEW p \in Seq(Nat), NEW n \in 0..2, Len(p) = n, NEW j \in Nat
  PROVE  /\ Append(p, j) \in Ways /\ Len(Append(p, j)) = n + 1
         /\ Parent(Append(p, j)) = p
         /\ TreeAt(top, Append(p, j)) = ValueAt(TreeAt(top, p), j)
         /\ Exists(top, Append(p, j)) <=> Exists(top, p) /\ Has(TreeAt(top, p), j)
<1> DEFINE s == Append(p, j)
<1>1. /\ s \in Seq(Nat) /\ Len(s) = n + 1 /\ s[n + 1] = j
      /\ \A i \in 1..n : s[i] = p[i]
  OBVIOUS
<1>2. n + 1 \in 1..3 /\ (n + 1) - 1 = n /\ n + 1 \in 0..3  OBVIOUS
<1> HIDE DEF s
<1>3. /\ Parent(s) \in Seq(Nat) /\ Len(Parent(s)) = (n + 1) - 1
      /\ \A i \in 1..((n + 1) - 1) : Parent(s)[i] = s[i]
  BY <1>1, <1>2, Parents
<1>4. Parent(s) = p
  <2>1. Len(Parent(s)) = Len(p)  BY <1>2, <1>3
  <2>2. \A i \in 1..Len(Parent(s)) : Parent(s)[i] = p[i]  BY <1>1, <1>2, <1>3
  <2> QED  BY <1>3, <2>1, <2>2, SeqEqual
<1>5. /\ TreeAt(top, s) = ValueAt(TreeAt(top, Parent(s)), s[n + 1])
      /\ Exists(top, s) <=> Exists(top, Parent(s)) /\ Has(TreeAt(top, Parent(s)), s[n + 1])
  BY <1>1, <1>2, Deeper
<1>6. s \in Ways  BY <1>1, <1>2 DEF Ways
<1> QED  BY <1>1, <1>4, <1>5, <1>6 DEF s

\* What the vector makes of an element keeps its slots, and has some history there was.
LEMMA KinIs ==
  ASSUME NEW top \in Roots, NEW p \in Ways, Len(p) \in 0..2, Exists(top, p),
         Distinct(TreeAt(top, p)), NEW W, NEW v \in TreeOf(W), Inherits(top, v),
         NEW a, Kin(a, v, TreeAt(top, p))
  PROVE  a.slots = v.slots /\ Inherits(top, a)
<1> DEFINE tree == TreeAt(top, p)
<1>1. CASE a = v  BY <1>1
<1>2. CASE a = [v EXCEPT !.ops = <<>>, !.undone = <<>>]
  BY <1>2 DEF TreeOf, Inherits
<1>3. ASSUME NEW i \in DOMAIN tree.slots,
             a = [v EXCEPT !.ops = tree.slots[i].val.ops, !.undone = tree.slots[i].val.undone]
      PROVE  a.slots = v.slots /\ Inherits(top, a)
  <2>1. PICK n \in 0..2 : n = Len(p)  OBVIOUS
  <2>2. p \in Seq(Nat) /\ Len(p) \in 0..3  BY <2>1 DEF Ways
  <2>3. tree \in TreeOf(Contents(Len(p)))  BY <2>2, TreeTyped
  <2> HIDE DEF tree
  <2>4. i \in 1..Len(tree.slots) /\ tree.slots[i].key \in Nat
    BY <1>3, <2>3, Keys DEF SlotOf
  <2>5. Has(tree, tree.slots[i].key) /\ ValueAt(tree, tree.slots[i].key) = tree.slots[i].val
    BY <2>3, <2>4, SlotFound DEF tree
  <2> DEFINE s == Append(p, tree.slots[i].key)
  <2>6. s \in Ways /\ Exists(top, s) /\ TreeAt(top, s) = tree.slots[i].val
    BY <2>1, <2>2, <2>4, <2>5, Child DEF tree
  <2>7. a.slots = v.slots /\ a.ops = tree.slots[i].val.ops /\ a.undone = tree.slots[i].val.undone
    BY <1>3 DEF TreeOf
  <2> HIDE DEF s
  <2> QED  BY <2>6, <2>7 DEF Inherits
<1> QED  BY <1>1, <1>2, <1>3 DEF Kin

\* Slots say what a tree leads to.
LEMMA SameSlots ==
  ASSUME NEW a, NEW b, a.slots = b.slots, NEW k
  PROVE  (Has(a, k) <=> Has(b, k)) /\ ValueAt(a, k) = ValueAt(b, k)
<1>1. KeysOf(a) = KeysOf(b)  BY DEF KeysOf
<1>2. (Has(a, k) <=> Has(b, k)) /\ PlaceOf(a, k) = PlaceOf(b, k)  BY <1>1, SameKeys
<1> QED  BY <1>2 DEF ValueAt

\* The tree at q, below the container of c, when c has added or removed a directory there.
Settles(top, made, c, q) ==
  /\ q[Len(Container(c)) + 1] # KeyIn(c) =>
       /\ Exists(made, q) <=> Exists(top, q)
       /\ Exists(top, q) =>
            TreeAt(made, q).slots = TreeAt(top, q).slots /\ Inherits(top, TreeAt(made, q))
  /\ q[Len(Container(c)) + 1] = KeyIn(c) /\ c.op \in AddOps =>
       /\ ~Exists(top, q)
       /\ Exists(made, q) <=> Len(q) = Len(Container(c)) + 1
       /\ Exists(made, q) => TreeAt(made, q).slots = <<>> /\ Inherits(top, TreeAt(made, q))
  /\ q[Len(Container(c)) + 1] = KeyIn(c) /\ c.op \in RemoveOps => ~Exists(made, q)

\* A new tree, copied.
LEMMA NewCopied ==
  ASSUME NEW level \in 0..2
  PROVE  LET v == Copy(level, NewTree)
         IN v.slots = <<>> /\ v.ops = <<>> /\ v.undone = <<>>
<1>1. /\ CopyPool(NewTree).slots = <<>> /\ CopyPool(NewTree).ops = <<>>
      /\ CopyPool(NewTree).undone = <<>>
  BY DEF CopyPool, Copied, NewTree
<1>2. /\ CopyScheme(NewTree).slots = <<>> /\ CopyScheme(NewTree).ops = <<>>
      /\ CopyScheme(NewTree).undone = <<>>
  BY DEF CopyScheme, Copied, NewTree
<1>3. /\ CopyCollection(NewTree).slots = <<>> /\ CopyCollection(NewTree).ops = <<>>
      /\ CopyCollection(NewTree).undone = <<>>
  BY DEF CopyCollection, Copied, NewTree
<1>4. level = 0 \/ level = 1 \/ level = 2  OBVIOUS
<1> QED  BY <1>1, <1>2, <1>3, <1>4 DEF Copy

\* What a change of directories does to a tree beneath its container.
LEMMA ChildSettles ==
  ASSUME NEW top \in Roots, NEW c \in ChangeType, c.op \in DirOps, Possible(top, c), NEW time \in Nat,
         NEW new \in TreeOf(Contents(Len(Container(c)))), NEW kind, NEW v,
         Distinct(TreeAt(top, Container(c))), ChangesTo(top, c, time, new, kind, v),
         NEW q \in Ways, NEW l \in 1..3, Len(q) = l, Parent(q) = Container(c)
  PROVE  Settles(top, Made(top, c, time), c, q)
<1> DEFINE p == Container(c)
           k == KeyIn(c)
           j == q[l]
           tree == TreeAt(top, p)
           made == Made(top, c, time)
           level == Len(p)
<1>1. /\ p \in Seq(Nat) /\ p \in Ways /\ Len(p) = l - 1 /\ Len(p) + 1 = l /\ Len(p) \in 0..2
      /\ j \in Nat /\ q \in Seq(Nat)
  <2>1. q \in Seq(Nat)  BY DEF Ways
  <2>2. Parent(q) \in Seq(Nat) /\ Len(Parent(q)) = l - 1 /\ q[l] \in Nat  BY <2>1, Parents
  <2>3. l - 1 \in 0..2 /\ l - 1 \in 0..3 /\ (l - 1) + 1 = l  OBVIOUS
  <2>4. Parent(q) \in Ways  BY <2>2, <2>3 DEF Ways
  <2> QED  BY <2>1, <2>2, <2>3, <2>4
<1>2. Exists(top, p)  BY DEF Possible
<1>3. made = Replaced(top, p, new)  BY DEF ChangesTo
<1>4. Exists(made, p) /\ TreeAt(made, p) = new
  <2>1. Len(p) \in 0..3  BY <1>1
  <2>2. /\ Exists(Replaced(top, p, new), p) /\ TreeAt(Replaced(top, p, new), p) = new
    BY <1>1, <1>2, <2>1, Elsewhere
  <2> QED  BY <1>3, <2>2
<1>5. /\ TreeAt(top, q) = ValueAt(tree, j) /\ TreeAt(made, q) = ValueAt(new, j)
      /\ Exists(top, q) <=> Has(tree, j)
      /\ Exists(made, q) <=> Has(new, j)
  <2>1. /\ TreeAt(top, q) = ValueAt(TreeAt(top, Parent(q)), q[l])
        /\ Exists(top, q) <=> Exists(top, Parent(q)) /\ Has(TreeAt(top, Parent(q)), q[l])
    BY <1>1, Deeper
  <2>2. /\ TreeAt(made, q) = ValueAt(TreeAt(made, Parent(q)), q[l])
        /\ Exists(made, q) <=> Exists(made, Parent(q)) /\ Has(TreeAt(made, Parent(q)), q[l])
    BY <1>1, Deeper
  <2> QED  BY <1>2, <1>4, <2>1, <2>2
<1>6. tree \in TreeOf(Contents(level)) /\ Distinct(tree)
  <2>1. Len(p) \in 0..3  BY <1>1
  <2> QED  BY <1>1, <1>2, <2>1, TreeTyped
<1>7. \E W : Contents(level) = TreeOf(W)
  <2>1. level = 0 \/ level = 1 \/ level = 2  BY <1>1
  <2> QED  BY <2>1, TreesAreHeld
<1>8. PICK W : Contents(level) = TreeOf(W)  BY <1>7
<1>9. /\ Altered(tree, new, k, kind, v, time)
      /\ c.op \in AddOps =>
           ~Has(tree, k) /\ Has(new, k) /\ Kin(ValueAt(new, k), Copy(level, NewTree), tree)
      /\ c.op \in RemoveOps => Has(tree, k) /\ ~Has(new, k)
  BY DEF ChangesTo
<1> HIDE DEF made
<1>10. ASSUME j # k
       PROVE /\ Exists(made, q) <=> Exists(top, q)
             /\ Exists(top, q) =>
                  TreeAt(made, q).slots = TreeAt(top, q).slots /\ Inherits(top, TreeAt(made, q))
  <2>1. Exists(made, q) <=> Exists(top, q)  BY <1>5, <1>9, <1>10 DEF Altered
  <2>2. ASSUME Exists(top, q)
        PROVE  TreeAt(made, q).slots = TreeAt(top, q).slots /\ Inherits(top, TreeAt(made, q))
    <3>1. Has(tree, j)  BY <1>5, <2>2
    <3>2. Kin(TreeAt(made, q), TreeAt(top, q), tree)  BY <1>5, <1>9, <1>10, <3>1 DEF Altered
    <3>3. TreeAt(top, q) \in TreeOf(W)  BY <1>5, <1>6, <1>8, <3>1, Place
    <3>4. Inherits(top, TreeAt(top, q))  BY <2>2 DEF Inherits
    <3> QED  BY <1>1, <1>2, <1>6, <3>2, <3>3, <3>4, KinIs
  <2> QED  BY <2>1, <2>2
<1>11. ASSUME j = k, c.op \in AddOps
       PROVE  /\ ~Exists(top, q) /\ Exists(made, q)
              /\ TreeAt(made, q).slots = <<>> /\ Inherits(top, TreeAt(made, q))
  <2>1. ~Exists(top, q) /\ Exists(made, q)  BY <1>5, <1>9, <1>11
  <2> DEFINE copy == Copy(level, NewTree)
  <2>2. Kin(TreeAt(made, q), copy, tree)  BY <1>5, <1>9, <1>11
  <2>3. copy.slots = <<>> /\ copy.ops = <<>> /\ copy.undone = <<>>  BY <1>1, NewCopied
  <2>4. copy \in TreeOf(W)
    <3>1. level \in 0..3  BY <1>1
    <3>2. Holdable(level, Contents(level))  BY <3>1, ContentsHoldable
    <3>3. NewTree \in Contents(level)  BY <1>8, NewTreeTyped
    <3> QED  BY <1>8, <3>2, <3>3 DEF Holdable
  <2> HIDE DEF copy
  <2>5. Inherits(top, copy)  BY <2>3 DEF Inherits
  <2>6. TreeAt(made, q).slots = copy.slots /\ Inherits(top, TreeAt(made, q))
    BY <1>1, <1>2, <1>6, <2>2, <2>4, <2>5, KinIs
  <2> QED  BY <2>1, <2>3, <2>6
<1>12. ASSUME j = k, c.op \in RemoveOps PROVE ~Exists(made, q)
  BY <1>5, <1>9, <1>12
<1> QED  BY <1>1, <1>10, <1>11, <1>12 DEF Settles, made

\* The way to a directory that is added or removed.
LEMMA WayOf ==
  ASSUME NEW c \in ChangeType, c.op \in DirOps
  PROVE  \E l \in 1..3 : /\ Len(c.path) = l /\ c.path \in Path /\ c.path \in Ways /\ c.path \in Seq(Nat)
                         /\ Container(c) \in Seq(Nat) /\ Container(c) \in Ways
                         /\ Len(Container(c)) = l - 1 /\ Len(Container(c)) + 1 = l
                         /\ KeyIn(c) = c.path[l]
                         /\ \A i \in 1..(l - 1) : Container(c)[i] = c.path[i]
<1>1. c.path \in Path /\ c.path \in Seq(Nat) /\ Given(c)  BY NamesAssumption DEF ChangeType
<1>2. PICK l \in 1..3 : Len(c.path) = l
  <2>1. Len(c.path) = Depth(c.op) /\ Depth(c.op) \in 1..3
    BY <1>1 DEF Given, Depth, DirOps, AddOps, RemoveOps
  <2> QED  BY <2>1
<1>3. /\ Parent(c.path) \in Seq(Nat) /\ Len(Parent(c.path)) = l - 1
      /\ \A i \in 1..(l - 1) : Parent(c.path)[i] = c.path[i]
      /\ Last(c.path) = c.path[l]
  BY <1>1, <1>2, Parents
<1>4. l \in 0..3 /\ l - 1 \in 0..3 /\ (l - 1) + 1 = l  OBVIOUS
<1>5. Container(c) = Parent(c.path) /\ KeyIn(c) = Last(c.path)  BY DEF Container, KeyIn
<1> QED  BY <1>1, <1>2, <1>3, <1>4, <1>5 DEF Ways

\* What is below it.
LEMMA BelowIt ==
  ASSUME NEW c \in ChangeType, c.op \in DirOps, NEW q \in Ways
  PROVE  LET p == Container(c)
             l == Len(p) + 1
         IN /\ IsPrefix(c.path, q) <=> IsPrefix(p, q) /\ q # p /\ q[l] = KeyIn(c)
            /\ IsPrefix(c.path, q) /\ Len(q) = l => q = c.path
            /\ IsPrefix(p, q) /\ q # p => Len(q) >= l
<1>1. PICK l \in 1..3 : /\ Len(c.path) = l /\ c.path \in Seq(Nat) /\ Container(c) \in Seq(Nat)
                        /\ Len(Container(c)) = l - 1 /\ Len(Container(c)) + 1 = l
                        /\ KeyIn(c) = c.path[l]
                        /\ \A i \in 1..(l - 1) : Container(c)[i] = c.path[i]
  BY WayOf
<1> DEFINE p == Container(c)
           way == c.path
<1>2. q \in Seq(Nat) /\ Len(q) \in 0..3  BY DEF Ways
<1>3. PICK n \in 0..3 : n = Len(q)  BY <1>2
<1> HIDE DEF p, way
<1>4. /\ way \in Seq(Nat) /\ p \in Seq(Nat) /\ Len(way) = l /\ Len(p) = l - 1
      /\ KeyIn(c) = way[l] /\ \A i \in 1..(l - 1) : p[i] = way[i]
  BY <1>1 DEF p, way
<1>5. IsPrefix(way, q) <=> l <= n /\ \A i \in 1..l : way[i] = q[i]
  BY <1>2, <1>3, <1>4, PrefixMeans
<1>6. IsPrefix(p, q) <=> l - 1 <= n /\ \A i \in 1..(l - 1) : p[i] = q[i]
  BY <1>2, <1>3, <1>4, PrefixMeans
<1>7. IsPrefix(p, q) /\ n = l - 1 => q = p
  <2> SUFFICES ASSUME IsPrefix(p, q), n = l - 1 PROVE p = q  OBVIOUS
  <2>1. Len(p) = Len(q) /\ \A i \in 1..Len(p) : p[i] = q[i]  BY <1>3, <1>4, <1>6
  <2> QED  BY <1>2, <1>4, <2>1, SeqEqual
<1>8. IsPrefix(way, q) /\ n = l => q = way
  <2> SUFFICES ASSUME IsPrefix(way, q), n = l PROVE way = q  OBVIOUS
  <2>1. Len(way) = Len(q) /\ \A i \in 1..Len(way) : way[i] = q[i]  BY <1>3, <1>4, <1>5
  <2> QED  BY <1>2, <1>4, <2>1, SeqEqual
<1>9. IsPrefix(p, q) /\ q # p => n >= l  BY <1>6, <1>7
<1>10. ASSUME IsPrefix(way, q) PROVE IsPrefix(p, q) /\ q # p /\ q[l] = KeyIn(c)
  <2>1. l <= n /\ \A i \in 1..l : way[i] = q[i]  BY <1>5, <1>10
  <2>2. \A i \in 1..(l - 1) : i \in 1..l  OBVIOUS
  <2>3. l - 1 <= n /\ \A i \in 1..(l - 1) : p[i] = q[i]  BY <1>4, <2>1, <2>2
  <2>4. l \in 1..l  OBVIOUS
  <2>5. q[l] = way[l]  BY <2>1, <2>4
  <2>6. Len(q) # Len(p)  BY <1>3, <1>4, <2>1
  <2> QED  BY <1>4, <1>6, <2>3, <2>5, <2>6
<1>11. ASSUME IsPrefix(p, q), q # p, q[l] = KeyIn(c) PROVE IsPrefix(way, q)
  <2>1. \A i \in 1..l : i \in 1..(l - 1) \/ i = l  OBVIOUS
  <2> QED  BY <1>4, <1>5, <1>6, <1>9, <1>11, <2>1
<1>12. Len(p) + 1 = l  BY <1>4
<1> QED  BY <1>3, <1>8, <1>9, <1>10, <1>11, <1>12 DEF p, way

\* Settled above, settled below.
LEMMA BelowSettles ==
  ASSUME NEW top \in Roots, NEW c \in ChangeType, NEW made,
         c.op \in AddOps \/ c.op \in RemoveOps,
         NEW q \in Ways, NEW l \in 1..3, Len(q) = l, NEW m \in 1..(l - 1), Len(Container(c)) + 1 = m,
         Settles(top, made, c, Parent(q))
  PROVE  Settles(top, made, c, q)
<1> DEFINE u == Parent(q)
<1>1. q \in Seq(Nat)  BY DEF Ways
<1>2. /\ u \in Seq(Nat) /\ Len(u) = l - 1 /\ \A i \in 1..(l - 1) : u[i] = q[i]
  BY <1>1, Parents
<1>3. u[m] = q[m]  BY <1>2
<1>4. /\ TreeAt(top, q) = ValueAt(TreeAt(top, u), q[l])
      /\ Exists(top, q) <=> Exists(top, u) /\ Has(TreeAt(top, u), q[l])
      /\ TreeAt(made, q) = ValueAt(TreeAt(made, u), q[l])
      /\ Exists(made, q) <=> Exists(made, u) /\ Has(TreeAt(made, u), q[l])
  BY <1>1, Deeper
<1>5. Settles(top, made, c, u)  OBVIOUS
<1> HIDE DEF u
<1>6. Len(q) # Len(Container(c)) + 1  OBVIOUS
<1>7. ASSUME q[m] # KeyIn(c)
      PROVE  /\ Exists(made, q) <=> Exists(top, q)
             /\ Exists(top, q) =>
                  TreeAt(made, q).slots = TreeAt(top, q).slots /\ Inherits(top, TreeAt(made, q))
  <2>1. /\ Exists(made, u) <=> Exists(top, u)
        /\ Exists(top, u) => TreeAt(made, u).slots = TreeAt(top, u).slots
    BY <1>3, <1>5, <1>7 DEF Settles
  <2>2. Exists(top, u) => /\ Has(TreeAt(made, u), q[l]) <=> Has(TreeAt(top, u), q[l])
                          /\ ValueAt(TreeAt(made, u), q[l]) = ValueAt(TreeAt(top, u), q[l])
    BY <2>1, SameSlots
  <2>3. (Exists(made, q) <=> Exists(top, q)) /\ (Exists(top, q) => TreeAt(made, q) = TreeAt(top, q))
    BY <1>4, <2>1, <2>2
  <2>4. Exists(top, q) => Inherits(top, TreeAt(top, q))  BY DEF Inherits
  <2> QED  BY <2>3, <2>4
<1>8. ASSUME q[m] = KeyIn(c), c.op \in AddOps PROVE ~Exists(top, q) /\ ~Exists(made, q)
  <2>1. ~Exists(top, u) /\ (Exists(made, u) => TreeAt(made, u).slots = <<>>)
    BY <1>3, <1>5, <1>8 DEF Settles
  <2>2. ASSUME Exists(made, u) PROVE ~Has(TreeAt(made, u), q[l])
    <3>1. DOMAIN TreeAt(made, u).slots = {}  BY <2>1, <2>2
    <3>2. DOMAIN KeysOf(TreeAt(made, u)) = {}  BY <3>1 DEF KeysOf
    <3> QED  BY <3>2 DEF Has
  <2> QED  BY <1>4, <2>1, <2>2
<1>9. ASSUME q[m] = KeyIn(c), c.op \in RemoveOps PROVE ~Exists(made, q)
  BY <1>3, <1>4, <1>5, <1>9 DEF Settles
<1> QED  BY <1>6, <1>7, <1>8, <1>9 DEF Settles

\* All below the container of c.
LEMMA AllBelowSettle ==
  ASSUME NEW top \in Roots, NEW c \in ChangeType, c.op \in DirOps, Possible(top, c), NEW time \in Nat,
         NEW new \in TreeOf(Contents(Len(Container(c)))), NEW kind, NEW v,
         Distinct(TreeAt(top, Container(c))), ChangesTo(top, c, time, new, kind, v)
  PROVE  \A q \in Ways : IsPrefix(Container(c), q) /\ q # Container(c) =>
           Settles(top, Made(top, c, time), c, q)
<1> DEFINE p == Container(c)
           made == Made(top, c, time)
           Good == {n \in 0..3 : \A q \in Ways : Len(q) = n /\ IsPrefix(p, q) /\ q # p =>
                      Settles(top, made, c, q)}
<1>1. PICK m \in 1..3 : p \in Seq(Nat) /\ Len(p) = m - 1 /\ Len(p) + 1 = m  BY WayOf
<1>2. \A q \in Ways : IsPrefix(p, q) /\ q # p => Len(q) >= m  BY <1>1, BelowIt
<1>3. 0 \in Good  BY <1>2
<1>4. ASSUME NEW n \in 1..3, n - 1 \in Good PROVE n \in Good
  <2> SUFFICES ASSUME NEW q \in Ways, Len(q) = n, IsPrefix(p, q), q # p
               PROVE Settles(top, made, c, q)
    OBVIOUS
  <2>1. n >= m /\ q \in Seq(Nat)  BY <1>2 DEF Ways
  <2>2. /\ Parent(q) \in Seq(Nat) /\ Len(Parent(q)) = n - 1
        /\ \A i \in 1..(n - 1) : Parent(q)[i] = q[i]
        /\ Parent(q) = SubSeq(q, 1, n - 1)
    BY <2>1, Parents
  <2>3. Len(p) <= Len(q) /\ \A i \in 1..Len(p) : p[i] = q[i]  BY <1>1, <2>1, PrefixMeans
  <2>4. CASE n = m
    <3>1. Len(Parent(q)) = Len(p)  BY <1>1, <2>2, <2>4
    <3>2. \A i \in 1..Len(Parent(q)) : Parent(q)[i] = p[i]  BY <1>1, <2>2, <2>3, <2>4
    <3>3. Parent(q) = p  BY <1>1, <2>2, <3>1, <3>2, SeqEqual
    <3> QED  BY <3>3, ChildSettles
  <2>5. CASE n # m
    <3>1. m \in 1..(n - 1) /\ n - 1 \in 0..3 /\ m - 1 <= n - 1 /\ m - 1 # n - 1
          /\ \A i \in 1..(m - 1) : i \in 1..(n - 1)
      BY <2>1, <2>5
    <3>2. Parent(q) \in Ways  BY <2>2, <3>1 DEF Ways
    <3>3. IsPrefix(p, Parent(q))
      <4>1. Len(p) <= Len(Parent(q)) /\ \A i \in 1..Len(p) : p[i] = Parent(q)[i]
        BY <1>1, <2>2, <2>3, <3>1
      <4> QED  BY <1>1, <2>2, <4>1, PrefixBy
    <3>4. Parent(q) # p  BY <1>1, <2>2, <3>1
    <3>5. Settles(top, made, c, Parent(q))  BY <1>4, <2>2, <3>2, <3>3, <3>4
    <3>6. c.op \in AddOps \/ c.op \in RemoveOps  BY DEF DirOps
    <3> HIDE DEF made
    <3> QED  BY <1>1, <3>1, <3>5, <3>6, BelowSettles
  <2> QED  BY <2>4, <2>5
<1> HIDE DEF Good
<1>5. \A n \in 0..3 : n \in Good  BY <1>3, <1>4, UpTo
<1> QED  BY <1>5 DEF Good, Ways

\* One slot a key, nothing undone, and the times of changes there have been.
Tidy(tree, N) ==
  /\ Distinct(tree)
  /\ tree.undone = <<>>
  /\ \A i \in DOMAIN tree.ops : tree.ops[i].time \in 1..N

\* All trees are.
AllTidy(top, N) == \A q \in Ways : Exists(top, q) => Tidy(TreeAt(top, q), N)

\* The row of a tree: the values of its keys, when it is a collection.
RowAt(top, q) ==
  [k \in Key |-> IF Len(q) = 3 /\ Has(TreeAt(top, q), k) THEN ValueAt(TreeAt(top, q), k) ELSE NoVal]

\* A changed container is tidy.
LEMMA AlteredTidy ==
  ASSUME NEW V, NEW tree \in TreeOf(V), NEW N \in Nat, Tidy(tree, N), NEW new, NEW k, NEW kind, NEW v,
         NEW time, time = N + 1, Altered(tree, new, k, kind, v, time)
  PROVE  Tidy(new, N + 1)
<1> DEFINE op == [kind |-> kind, key |-> k, val |-> v, time |-> time]
<1>1. Distinct(new) /\ new.undone = <<>> /\ new.ops = Append(tree.ops, op)
  BY DEF Altered, Tidy
<1>2. op.time = N + 1  OBVIOUS
<1> HIDE DEF op
<1>3. PICK n \in Nat : n = Len(tree.ops) /\ DOMAIN tree.ops = 1..n /\ tree.ops \in Seq(OperationOn(V))
  <2>1. tree.ops \in Seq(OperationOn(V))  BY DEF TreeOf
  <2> QED  BY <2>1, LenProperties
<1>4. \A i \in DOMAIN new.ops : new.ops[i].time \in 1..(N + 1)
  <2>1. /\ DOMAIN new.ops = 1..(n + 1) /\ new.ops[n + 1] = op
        /\ \A i \in 1..n : new.ops[i] = tree.ops[i]
    <3> DEFINE A == OperationOn(V) \cup {op}
    <3>1. tree.ops \in Seq(A) /\ op \in A  BY <1>3
    <3> HIDE DEF A
    <3> QED  BY <1>1, <1>3, <3>1, AppendProperties
  <2>2. \A i \in 1..n : tree.ops[i].time \in 1..N  BY <1>3 DEF Tidy
  <2>3. \A i \in 1..(n + 1) : i \in 1..n \/ i = n + 1  OBVIOUS
  <2>4. N + 1 \in 1..(N + 1) /\ \A t \in 1..N : t \in 1..(N + 1)  OBVIOUS
  <2> QED  BY <1>2, <2>1, <2>2, <2>3, <2>4
<1> QED  BY <1>1, <1>4 DEF Tidy

\* So is what inherits the history of a tidy tree.
LEMMA InheritsTidy ==
  ASSUME NEW top, NEW N \in Nat, AllTidy(top, N), NEW a, Distinct(a), Inherits(top, a)
  PROVE  Tidy(a, N + 1)
<1>1. \A t \in 1..N : t \in 1..(N + 1)  OBVIOUS
<1>2. CASE a.ops = <<>> /\ a.undone = <<>>  BY <1>2 DEF Tidy
<1>3. ASSUME NEW s \in Ways, Exists(top, s),
             a.ops = TreeAt(top, s).ops, a.undone = TreeAt(top, s).undone
      PROVE  Tidy(a, N + 1)
  BY <1>1, <1>3 DEF AllTidy, Tidy
<1> QED  BY <1>2, <1>3 DEF Inherits

\* A tree a change of directories finds or leaves.
MovedTo(top, made, c, q, N) ==
  /\ Exists(made, q) <=> \/ Exists(top, q) /\ ~(c.op \in RemoveOps /\ IsPrefix(c.path, q))
                         \/ c.op \in AddOps /\ q = c.path
  /\ Exists(made, q) => Tidy(TreeAt(made, q), N + 1)
  /\ Exists(made, q) /\ Exists(top, q) /\ Len(q) = 3 => TreeAt(made, q).slots = TreeAt(top, q).slots
  /\ c.op \in AddOps /\ q = c.path => ~Exists(top, q) /\ TreeAt(made, q).slots = <<>>

\* What a change of directories does to any tree.
LEMMA DirsMove ==
  ASSUME NEW top \in Roots, NEW c \in ChangeType, c.op \in DirOps, Possible(top, c),
         NEW N \in Nat, AllTidy(top, N)
  PROVE  \A q \in Ways : MovedTo(top, Made(top, c, N + 1), c, q, N)
<1> DEFINE p == Container(c)
           made == Made(top, c, N + 1)
           k == KeyIn(c)
<1>1. PICK l \in 1..3 : /\ p \in Seq(Nat) /\ p \in Ways /\ Len(p) = l - 1 /\ Len(p) + 1 = l
                        /\ Len(c.path) = l /\ c.path \in Ways /\ k = c.path[l]
  BY WayOf
<1>2. Exists(top, p) /\ Len(p) \in 0..3 /\ N + 1 \in Nat /\ l - 1 # 3 /\ l - 1 < 3 /\ l # l - 1
      /\ ~(l <= l - 1)
  BY <1>1 DEF Possible, Ways
<1>3. TreeAt(top, p) \in TreeOf(Contents(Len(p))) /\ Tidy(TreeAt(top, p), N)
      /\ Distinct(TreeAt(top, p))
  BY <1>1, <1>2, TreeTyped DEF AllTidy, Tidy
<1>4. PICK new \in TreeOf(Contents(Len(p))), kind \in {"insert", "update", "remove"},
           v \in Contents(Len(p)) : ChangesTo(top, c, N + 1, new, kind, v)
  BY <1>2, <1>3, Changes
<1>5. made = Replaced(top, p, new) /\ Altered(TreeAt(top, p), new, k, kind, v, N + 1)
  BY <1>4 DEF ChangesTo
<1>6. /\ Exists(made, p) /\ TreeAt(made, p) = new
      /\ \A q \in Seq(Nat) : Len(q) \in 0..3 /\ ~IsPrefix(p, q) => Unreplaced(top, made, p, q)
  <2>1. /\ Exists(Replaced(top, p, new), p)
        /\ TreeAt(Replaced(top, p, new), p) = new
        /\ \A q \in Seq(Nat) : Len(q) \in 0..3 /\ ~IsPrefix(p, q) =>
             Unreplaced(top, Replaced(top, p, new), p, q)
    BY <1>1, <1>2, Elsewhere
  <2> QED  BY <1>5, <2>1
<1>7. \A q \in Ways : IsPrefix(p, q) /\ q # p => Settles(top, made, c, q)
  BY <1>2, <1>3, <1>4, AllBelowSettle
<1>8. \A q \in Ways : /\ IsPrefix(c.path, q) <=> IsPrefix(p, q) /\ q # p /\ q[l] = k
                      /\ IsPrefix(c.path, q) /\ Len(q) = l => q = c.path
  BY <1>1, BelowIt
<1>9. IsPrefix(c.path, c.path)
  <2>1. c.path \in Seq(Nat)  BY <1>1 DEF Ways
  <2>2. Len(c.path) <= Len(c.path) /\ \A i \in 1..Len(c.path) : c.path[i] = c.path[i]  BY <1>1
  <2> QED  BY <2>1, <2>2, PrefixBy
<1>10. ~IsPrefix(c.path, p) /\ c.path # p
  BY <1>1, <1>2 DEF IsPrefix
<1>11. c.op \in AddOps \/ c.op \in RemoveOps  BY DEF DirOps
<1>12. ~(c.op \in AddOps /\ c.op \in RemoveOps)  BY DEF AddOps, RemoveOps
<1> HIDE DEF p, made, k
<1> SUFFICES ASSUME NEW q \in Ways PROVE MovedTo(top, made, c, q, N)  BY DEF made
<1>13. CASE q = p
  <2>1. Tidy(new, N + 1)  BY <1>3, <1>5, AlteredTidy
  <2> QED  BY <1>1, <1>2, <1>6, <1>10, <1>13, <2>1 DEF MovedTo
<1>14. CASE IsPrefix(p, q) /\ q # p
  <2>1. Settles(top, made, c, q)  BY <1>7, <1>14
  <2>2. q[l] = k <=> IsPrefix(c.path, q)  BY <1>8, <1>14
  <2>3. CASE q[l] # k
    <3>1. /\ Exists(made, q) <=> Exists(top, q)
          /\ Exists(top, q) =>
               TreeAt(made, q).slots = TreeAt(top, q).slots /\ Inherits(top, TreeAt(made, q))
      BY <1>1, <2>1, <2>3 DEF Settles, p, k
    <3>2. ~IsPrefix(c.path, q) /\ q # c.path  BY <1>9, <2>2, <2>3
    <3>3. Exists(top, q) => Tidy(TreeAt(made, q), N + 1)
      <4> SUFFICES ASSUME Exists(top, q) PROVE Tidy(TreeAt(made, q), N + 1)  OBVIOUS
      <4>1. Distinct(TreeAt(top, q))  BY DEF AllTidy, Tidy
      <4>2. Distinct(TreeAt(made, q))  BY <3>1, <4>1 DEF Distinct
      <4> QED  BY <3>1, <4>2, InheritsTidy
    <3> QED  BY <3>1, <3>2, <3>3 DEF MovedTo
  <2>4. CASE q[l] = k /\ c.op \in AddOps
    <3>1. /\ ~Exists(top, q)
          /\ Exists(made, q) <=> Len(q) = l
          /\ Exists(made, q) => TreeAt(made, q).slots = <<>> /\ Inherits(top, TreeAt(made, q))
      BY <1>1, <2>1, <2>4 DEF Settles, p, k
    <3>2. Len(q) = l <=> q = c.path  BY <1>1, <1>8, <2>2, <2>4
    <3>3. Exists(made, q) => Tidy(TreeAt(made, q), N + 1)
      <4> SUFFICES ASSUME Exists(made, q) PROVE Tidy(TreeAt(made, q), N + 1)  OBVIOUS
      <4>1. Distinct(TreeAt(made, q))  BY <3>1 DEF Distinct
      <4> QED  BY <3>1, <4>1, InheritsTidy
    <3> QED  BY <1>12, <2>4, <3>1, <3>2, <3>3 DEF MovedTo
  <2>5. CASE q[l] = k /\ c.op \in RemoveOps
    <3>1. ~Exists(made, q)  BY <1>1, <2>1, <2>5 DEF Settles, p, k
    <3> QED  BY <1>12, <2>2, <2>5, <3>1 DEF MovedTo
  <2> QED  BY <1>11, <2>3, <2>4, <2>5
<1>15. CASE ~IsPrefix(p, q)
  <2>0. q \in Seq(Nat) /\ Len(q) \in 0..3  BY DEF Ways
  <2>1. Unreplaced(top, made, p, q)  BY <1>6, <1>15, <2>0
  <2>2. ~IsPrefix(c.path, q) /\ q # c.path  BY <1>8, <1>9, <1>15
  <2>3. Exists(made, q) <=> Exists(top, q)  BY <2>1 DEF Unreplaced
  <2>4. \A t \in 1..N : t \in 1..(N + 1)  OBVIOUS
  <2>5. Exists(top, q) => Tidy(TreeAt(top, q), N)  BY DEF AllTidy
  <2>6. CASE ~IsPrefix(q, p)
    <3>1. Exists(top, q) => TreeAt(made, q) = TreeAt(top, q)  BY <2>1, <2>6 DEF Unreplaced
    <3>2. Exists(made, q) => Tidy(TreeAt(made, q), N + 1)  BY <2>3, <2>4, <2>5, <3>1 DEF Tidy
    <3> QED  BY <2>2, <2>3, <3>1, <3>2 DEF MovedTo
  <2>7. CASE IsPrefix(q, p)
    <3>1. PICK j \in Nat, below \in Contents(Len(q)) :
            Has(TreeAt(top, q), j) /\ TreeAt(made, q) = SetValueAt(TreeAt(top, q), j, below)
      BY <2>1, <2>7 DEF Unreplaced
    <3>2. Len(q) # 3
      <4>1. Len(q) <= Len(p)  BY <2>7 DEF IsPrefix
      <4>2. PICK n \in 0..3 : n = Len(q)  BY <2>0
      <4>3. n <= l - 1  BY <1>1, <4>1, <4>2
      <4>4. n # 3  BY <4>3
      <4> QED  BY <4>2, <4>4
    <3>3. Exists(made, q) => Tidy(TreeAt(made, q), N + 1)
      <4> SUFFICES ASSUME Exists(top, q) PROVE Tidy(TreeAt(made, q), N + 1)  BY <2>3
      <4>1. TreeAt(top, q) \in TreeOf(Contents(Len(q)))  BY <2>0, TreeTyped
      <4>2. /\ Distinct(TreeAt(top, q)) => Distinct(TreeAt(made, q))
            /\ TreeAt(made, q).ops = TreeAt(top, q).ops /\ TreeAt(made, q).undone = TreeAt(top, q).undone
        BY <3>1, <4>1, SetIs
      <4> QED  BY <2>4, <2>5, <4>2 DEF Tidy
    <3> QED  BY <2>2, <2>3, <3>2, <3>3 DEF MovedTo
  <2> QED  BY <2>6, <2>7
<1> QED  BY <1>13, <1>14, <1>15

\* What the trees hold, row by row.
LEMMA Rows ==
  ASSUME NEW top
  PROVE  /\ DataOf(top) = [q \in {p \in Path : Exists(top, p)} |-> RowAt(top, q)]
         /\ DOMAIN DataOf(top) = {p \in Path : Exists(top, p)}
         /\ \A q \in Path : Exists(top, q) => DataOf(top)[q] = RowAt(top, q)
BY DEF DataOf, RowAt

\* Every path is a way.
LEMMA PathsAreWays == Path \subseteq Ways
<1>1. \A n \in 1..3 : n \in 0..3  OBVIOUS
<1> QED  BY <1>1, NamesAssumption DEF Ways

\* So a change of directories does with the data what it should.
LEMMA DirsAreRecorded ==
  ASSUME NEW top \in Roots, NEW c \in ChangeType, c.op \in DirOps, Possible(top, c),
         NEW N \in Nat, AllTidy(top, N)
  PROVE  DataOf(Made(top, c, N + 1)) = Changed(DataOf(top), c)
<1> DEFINE made == Made(top, c, N + 1)
           d == DataOf(top)
           e == DataOf(made)
<1>1. c.path \in Path  BY WayOf
<1>2. \A q \in Path : MovedTo(top, made, c, q, N)  BY DirsMove, PathsAreWays
<1> HIDE DEF made
<1>3. /\ e = [q \in {p \in Path : Exists(made, p)} |-> RowAt(made, q)]
      /\ DOMAIN d = {p \in Path : Exists(top, p)}
      /\ \A q \in Path : Exists(top, q) => d[q] = RowAt(top, q)
  BY Rows
<1>4. \A q \in Path : Exists(made, q) /\ Exists(top, q) => RowAt(made, q) = RowAt(top, q)
  <2> SUFFICES ASSUME NEW q \in Path, Exists(made, q), Exists(top, q)
               PROVE  RowAt(made, q) = RowAt(top, q)
    OBVIOUS
  <2>1. CASE Len(q) = 3
    <3>1. TreeAt(made, q).slots = TreeAt(top, q).slots  BY <1>2, <2>1 DEF MovedTo
    <3>2. \A k : /\ Has(TreeAt(made, q), k) <=> Has(TreeAt(top, q), k)
                 /\ ValueAt(TreeAt(made, q), k) = ValueAt(TreeAt(top, q), k)
      BY <3>1, SameSlots
    <3> QED  BY <3>2 DEF RowAt
  <2>2. CASE Len(q) # 3  BY <2>2 DEF RowAt
  <2> QED  BY <2>1, <2>2
<1> HIDE DEF d, e
<1>5. CASE c.op \in AddOps
  <2>1. \A q \in Path : Exists(made, q) <=> Exists(top, q) \/ q = c.path
    BY <1>2, <1>5 DEF MovedTo, AddOps, RemoveOps
  <2>2. ~Exists(top, c.path) /\ TreeAt(made, c.path).slots = <<>>
    BY <1>1, <1>2, <1>5 DEF MovedTo
  <2>3. RowAt(made, c.path) = NoData
    <3>1. \A k : ~Has(TreeAt(made, c.path), k)
      <4>1. DOMAIN TreeAt(made, c.path).slots = {}  BY <2>2
      <4>2. DOMAIN KeysOf(TreeAt(made, c.path)) = {}  BY <4>1 DEF KeysOf
      <4> QED  BY <4>2 DEF Has
    <3> QED  BY <3>1 DEF RowAt, NoData
  <2>4. {p \in Path : Exists(made, p)} = DOMAIN d \cup {c.path}  BY <1>1, <1>3, <2>1
  <2>5. e = [q \in DOMAIN d \cup {c.path} |-> RowAt(made, q)]  BY <1>3, <2>4
  <2>6. \A q \in DOMAIN d \cup {c.path} :
          RowAt(made, q) = IF q = c.path THEN NoData ELSE d[q]
    BY <1>1, <1>3, <1>4, <2>1, <2>2, <2>3
  <2>7. e = With(d, c.path, NoData)  BY <2>5, <2>6 DEF With
  <2>8. Changed(d, c) = With(d, c.path, NoData)  BY <1>5 DEF Changed, AddOps, RemoveOps
  <2> QED  BY <2>7, <2>8 DEF made, d, e
<1>6. CASE c.op \in RemoveOps
  <2>0. c.op \notin AddOps  BY <1>6 DEF AddOps, RemoveOps
  <2>1. \A q \in Path : Exists(made, q) <=> Exists(top, q) /\ ~IsPrefix(c.path, q)
    BY <1>2, <1>6, <2>0 DEF MovedTo
  <2>2. {p \in Path : Exists(made, p)} = DOMAIN d \ Below(d, c.path)
    BY <1>3, <2>1 DEF Below
  <2>3. e = [q \in DOMAIN d \ Below(d, c.path) |-> RowAt(made, q)]  BY <1>3, <2>2
  <2>4. \A q \in DOMAIN d \ Below(d, c.path) : RowAt(made, q) = d[q]
    BY <1>3, <1>4, <2>2
  <2>5. e = Without(d, c.path)
    <3>1. e = [q \in DOMAIN d \ Below(d, c.path) |-> d[q]]  BY <2>3, <2>4
    <3> QED  BY <3>1 DEF Without, Restrict
  <2>6. Changed(d, c) = Without(d, c.path)
    <3>1. c.op \in RemoveOps /\ c.op \notin AddOps  BY <1>6, <2>0
    <3> QED  BY <3>1 DEF Changed, AddOps, RemoveOps
  <2> QED  BY <2>5, <2>6 DEF made, d, e
<1> QED  BY <1>5, <1>6 DEF DirOps

(***************************************************************************)
(* What a sequence of changes makes, change by change.                     *)
(***************************************************************************)

\* f[n] is what the first n changes of J make of d.
Traces(f, d, J, N) == f[0] = d /\ \A n \in 1..N : f[n] = Changed(f[n - 1], J[n])

\* There is one, and AfterAll is its end.
LEMMA TraceExists ==
  ASSUME NEW d, NEW J, NEW N \in Nat, N = Len(J)
  PROVE  \E f : Traces(f, d, J, N) /\ f[N] = AfterAll(d, J)
<1> DEFINE Is(f, n) == DOMAIN f = 0..n /\ Traces(f, d, J, n)
           good == {n \in Nat : \E f : Is(f, n)}
           Rec(f) == f = [n \in 0..N |-> IF n = 0 THEN d ELSE Changed(f[n - 1], J[n])]
<1>1. 0 \in good
  <2>1. Is([n \in 0..0 |-> d], 0)  BY DEF Traces
  <2> QED  BY <2>1
<1>2. ASSUME NEW n \in 1..N, n - 1 \in good PROVE n \in good
  <2>1. PICK f : Is(f, n - 1)  BY <1>2
  <2> DEFINE g == [m \in 0..n |-> IF m = n THEN Changed(f[n - 1], J[n]) ELSE f[m]]
  <2>2. n \in Nat /\ n # 0 /\ n - 1 \in 0..n /\ n - 1 # n /\ 0 \in 0..n  OBVIOUS
  <2>3. \A m \in 1..n : g[m] = Changed(g[m - 1], J[m])
    <3> SUFFICES ASSUME NEW m \in 1..n PROVE g[m] = Changed(g[m - 1], J[m])  OBVIOUS
    <3>1. m - 1 \in 0..n /\ m - 1 # n /\ g[m - 1] = f[m - 1]  BY <2>2
    <3>2. CASE m = n  BY <2>2, <3>1, <3>2
    <3>3. CASE m # n
      <4>1. m \in 1..(n - 1) /\ m \in 0..n  BY <2>2, <3>3
      <4>2. g[m] = f[m]  BY <3>3, <4>1
      <4>3. f[m] = Changed(f[m - 1], J[m])  BY <2>1, <4>1 DEF Traces
      <4> QED  BY <3>1, <4>2, <4>3
    <3> QED  BY <3>2, <3>3
  <2>4. g[0] = d  BY <2>1, <2>2 DEF Traces
  <2>5. DOMAIN g = 0..n  OBVIOUS
  <2> HIDE DEF g
  <2>6. Is(g, n)  BY <2>3, <2>4, <2>5 DEF Traces
  <2> HIDE DEF Is
  <2> QED  BY <2>2, <2>6
<1>3. N \in good
  <2> HIDE DEF good
  <2>1. \A n \in 0..N : n \in good  BY <1>1, <1>2, UpTo
  <2>2. N \in 0..N  OBVIOUS
  <2> QED  BY <2>1, <2>2
<1>4. \E f : Rec(f)
  <2>1. PICK f : Is(f, N)  BY <1>3
  <2> DEFINE g == [n \in 0..N |-> f[n]]
  <2>2. ASSUME NEW n \in 0..N
        PROVE g[n] = IF n = 0 THEN d ELSE Changed(g[n - 1], J[n])
    <3>1. CASE n = 0  BY <2>1, <3>1 DEF Traces
    <3>2. CASE n # 0
      <4>1. n \in 1..N /\ n - 1 \in 0..N  BY <3>2
      <4>2. f[n] = Changed(f[n - 1], J[n])  BY <2>1, <4>1 DEF Traces
      <4> QED  BY <3>2, <4>1, <4>2
    <3> QED  BY <3>1, <3>2
  <2>3. g = [n \in 0..N |-> g[n]]  OBVIOUS
  <2> HIDE DEF g
  <2>4. Rec(g)  BY <2>2, <2>3
  <2> QED  BY <2>4
<1> DEFINE after == CHOOSE f : Rec(f)
<1>5. AfterAll(d, J) = after[N]  BY DEF AfterAll
<1>6. Rec(after)
  <2> HIDE DEF Rec
  <2> QED  BY <1>4
<1> HIDE DEF after
<1>7. Traces(after, d, J, N)
  <2>1. after[0] = d  BY <1>6
  <2>2. ASSUME NEW n \in 1..N PROVE after[n] = Changed(after[n - 1], J[n])
    <3>1. n \in 0..N /\ n # 0  OBVIOUS
    <3> QED  BY <1>6, <3>1
  <2> QED  BY <2>1, <2>2 DEF Traces
<1> QED  BY <1>5, <1>7

\* There is no other.
LEMMA TraceUnique ==
  ASSUME NEW d, NEW J, NEW K, NEW N \in Nat, N = Len(K), \A n \in 1..N : J[n] = K[n],
         NEW f, Traces(f, d, J, N)
  PROVE  f[N] = AfterAll(d, K)
<1>1. PICK g : Traces(g, d, K, N) /\ g[N] = AfterAll(d, K)  BY TraceExists
<1> DEFINE Good == {n \in 0..N : f[n] = g[n]}
<1>2. 0 \in Good  BY <1>1 DEF Traces
<1>3. ASSUME NEW n \in 1..N, n - 1 \in Good PROVE n \in Good
  <2>1. f[n] = Changed(f[n - 1], J[n]) /\ g[n] = Changed(g[n - 1], K[n])  BY <1>1 DEF Traces
  <2>2. n \in 0..N /\ J[n] = K[n] /\ f[n - 1] = g[n - 1]  BY <1>3
  <2> QED  BY <2>1, <2>2
<1> HIDE DEF Good
<1>4. N \in Good  BY <1>2, <1>3, UpTo
<1> QED  BY <1>1, <1>4 DEF Good

\* The data the first n changes of a journal make.
AsOfIn(J, n) == AfterAll(NoDirs, SubSeq(J, 1, n))

\* The data of a journal, change by change.
LEMMA AsOfSteps ==
  ASSUME NEW J \in Seq(ChangeType), NEW N \in Nat, N = Len(J)
  PROVE  /\ AsOfIn(J, 0) = NoDirs
         /\ \A n \in 1..N : AsOfIn(J, n) = Changed(AsOfIn(J, n - 1), J[n])
         /\ AsOfIn(J, N) = AfterAll(NoDirs, J)
<1>1. PICK f : Traces(f, NoDirs, J, N) /\ f[N] = AfterAll(NoDirs, J)  BY TraceExists
<1>2. ASSUME NEW n \in 0..N PROVE f[n] = AsOfIn(J, n)
  <2> DEFINE K == SubSeq(J, 1, n)
  <2>1. Len(K) = n /\ n \in Nat /\ \A i \in 1..n : J[i] = K[i]  OBVIOUS
  <2>2. \A i \in 1..n : i \in 1..N  OBVIOUS
  <2>3. Traces(f, NoDirs, J, n)  BY <1>1, <2>2 DEF Traces
  <2> HIDE DEF K
  <2>4. f[n] = AfterAll(NoDirs, K)  BY <2>1, <2>3, TraceUnique
  <2> QED  BY <2>4 DEF AsOfIn, K
<1>3. ASSUME NEW n \in 1..N PROVE AsOfIn(J, n) = Changed(AsOfIn(J, n - 1), J[n])
  <2>1. n \in 0..N /\ n - 1 \in 0..N  OBVIOUS
  <2> QED  BY <1>1, <1>2, <2>1 DEF Traces
<1>4. 0 \in 0..N /\ N \in 0..N  OBVIOUS
<1> QED  BY <1>1, <1>2, <1>3, <1>4 DEF Traces

\* One more change leaves the data of the earlier times.
LEMMA AsOfAppend ==
  ASSUME NEW J \in Seq(ChangeType), NEW N \in Nat, N = Len(J), NEW c \in ChangeType
  PROVE  /\ Append(J, c) \in Seq(ChangeType) /\ Len(Append(J, c)) = N + 1
         /\ Append(J, c)[N + 1] = c /\ \A n \in 1..N : Append(J, c)[n] = J[n]
         /\ \A n \in 0..N : AsOfIn(Append(J, c), n) = AsOfIn(J, n)
         /\ AfterAll(NoDirs, Append(J, c)) = Changed(AfterAll(NoDirs, J), c)
<1> DEFINE K == Append(J, c)
<1>1. K \in Seq(ChangeType) /\ Len(K) = N + 1 /\ K[N + 1] = c /\ \A n \in 1..N : K[n] = J[n]
  OBVIOUS
<1>2. ASSUME NEW n \in 0..N PROVE AsOfIn(K, n) = AsOfIn(J, n)
  <2>1. /\ SubSeq(K, 1, n) \in Seq(ChangeType) /\ Len(SubSeq(K, 1, n)) = n
        /\ SubSeq(J, 1, n) \in Seq(ChangeType) /\ Len(SubSeq(J, 1, n)) = n
        /\ \A i \in 1..n : SubSeq(K, 1, n)[i] = SubSeq(J, 1, n)[i]
    <3> HIDE DEF K
    <3>1. n \in 0..(N + 1) /\ \A i \in 1..n : i \in 1..N  OBVIOUS
    <3>2. /\ SubSeq(K, 1, n) \in Seq(ChangeType) /\ Len(SubSeq(K, 1, n)) = n
          /\ \A i \in 1..n : SubSeq(K, 1, n)[i] = K[i]
      BY <1>1, <3>1
    <3>3. /\ SubSeq(J, 1, n) \in Seq(ChangeType) /\ Len(SubSeq(J, 1, n)) = n
          /\ \A i \in 1..n : SubSeq(J, 1, n)[i] = J[i]
      OBVIOUS
    <3> QED  BY <1>1, <3>1, <3>2, <3>3
  <2>2. SubSeq(K, 1, n) = SubSeq(J, 1, n)  BY <2>1, SeqEqual
  <2> QED  BY <2>2 DEF AsOfIn
<1> HIDE DEF K
<1>3. AfterAll(NoDirs, K) = Changed(AfterAll(NoDirs, J), c)
  <2>1. N + 1 \in Nat /\ N + 1 \in 1..(N + 1) /\ (N + 1) - 1 = N /\ N \in 0..N  OBVIOUS
  <2>2. /\ AsOfIn(K, N + 1) = Changed(AsOfIn(K, (N + 1) - 1), K[N + 1])
        /\ AsOfIn(K, N + 1) = AfterAll(NoDirs, K)
    BY <1>1, <2>1, AsOfSteps
  <2>3. AsOfIn(J, N) = AfterAll(NoDirs, J)  BY AsOfSteps
  <2> QED  BY <1>1, <1>2, <2>1, <2>2, <2>3
<1> QED  BY <1>1, <1>2, <1>3 DEF K

(***************************************************************************)
(* What the histories know.  A vector moves collections without theirs, so *)
(* only what happened after the last change of directories is known.       *)
(***************************************************************************)

\* No directory has changed since the n-th change.
Settled(J, n) == \A m \in n..Len(J) : J[m].op \notin DirOps

\* op, in the stack of the collection at q, is the change of its time, and remembers what
\* that found there.
Noted(J, q, op) ==
  LET c == J[op.time]
      before == AsOfIn(J, op.time - 1)[q]
  IN
  /\ c.op = op.kind /\ c.path = q /\ c.key = op.key
  /\ op.kind = "insert" => op.val = c.val /\ before[op.key] = NoVal
  /\ op.kind # "insert" => op.val = before[op.key] /\ op.val \in Val

\* The settled changes of the collection at q, and no others, are in its stack in order.
Remembers(J, q, ops) ==
  /\ \A i, j \in DOMAIN ops :
       i < j /\ (Settled(J, ops[i].time) \/ Settled(J, ops[j].time)) => ops[i].time < ops[j].time
  /\ \A i \in DOMAIN ops : Settled(J, ops[i].time) => Noted(J, q, ops[i])
  /\ \A n \in DOMAIN J : J[n].path = q /\ Settled(J, n) => \E i \in DOMAIN ops : ops[i].time = n

\* Directories hold no settled operation; collections remember their settled changes.
Histories(top, J) ==
  \A q \in Ways : Exists(top, q) =>
    /\ Len(q) # 3 => \A i \in DOMAIN TreeAt(top, q).ops : ~Settled(J, TreeAt(top, q).ops[i].time)
    /\ Len(q) = 3 => Remembers(J, q, TreeAt(top, q).ops)

\* The trees agree with the journal: the inductive invariant of the data.
Kept(top, J) ==
  AllTidy(top, Len(J)) /\ Histories(top, J) /\ DataOf(top) = AfterAll(NoDirs, J)

\* Settled or not, before and after one more change.
LEMMA SettledAppend ==
  ASSUME NEW J \in Seq(ChangeType), NEW N \in Nat, N = Len(J), NEW c \in ChangeType
  PROVE  /\ c.op \in DirOps => \A n \in 1..(N + 1) : ~Settled(Append(J, c), n)
         /\ c.op \notin DirOps => /\ Settled(Append(J, c), N + 1)
                                  /\ \A n \in 1..N : Settled(Append(J, c), n) <=> Settled(J, n)
<1> DEFINE K == Append(J, c)
<1>1. Len(K) = N + 1 /\ K[N + 1] = c /\ \A n \in 1..N : K[n] = J[n]  BY AsOfAppend
<1> HIDE DEF K
<1>2. ASSUME c.op \in DirOps, NEW n \in 1..(N + 1) PROVE ~Settled(K, n)
  <2>1. N + 1 \in n..(N + 1)  OBVIOUS
  <2> QED  BY <1>1, <1>2, <2>1 DEF Settled
<1>3. ASSUME c.op \notin DirOps PROVE Settled(K, N + 1)
  <2>1. \A m \in (N + 1)..(N + 1) : m = N + 1  OBVIOUS
  <2> QED  BY <1>1, <1>3, <2>1 DEF Settled
<1>4. ASSUME c.op \notin DirOps, NEW n \in 1..N PROVE Settled(K, n) <=> Settled(J, n)
  <2>1. \A m \in n..(N + 1) : (m \in n..N /\ m \in 1..N) \/ m = N + 1  OBVIOUS
  <2>2. \A m \in n..N : m \in n..(N + 1) /\ m \in 1..N  OBVIOUS
  <2> QED  BY <1>1, <1>4, <2>1, <2>2 DEF Settled
<1> QED  BY <1>2, <1>3, <1>4 DEF K

\* What is noted stays so.
LEMMA NotedAppend ==
  ASSUME NEW J \in Seq(ChangeType), NEW N \in Nat, N = Len(J), NEW c \in ChangeType,
         NEW q, NEW op, op.time \in 1..N, Noted(J, q, op)
  PROVE  Noted(Append(J, c), q, op)
<1> DEFINE K == Append(J, c)
<1>1. op.time - 1 \in 0..N  OBVIOUS
<1>2. K[op.time] = J[op.time] /\ AsOfIn(K, op.time - 1) = AsOfIn(J, op.time - 1)
  BY <1>1, AsOfAppend
<1> HIDE DEF K
<1>3. Noted(K, q, op)  BY <1>2 DEF Noted
<1> QED  BY <1>3 DEF K

\* A change of directories unsettles all.
LEMMA DirKeeps ==
  ASSUME NEW top \in Roots, NEW J \in Seq(ChangeType), NEW c \in ChangeType, c.op \in DirOps,
         Possible(top, c), Kept(top, J)
  PROVE  Kept(Made(top, c, Len(J) + 1), Append(J, c))
<1>0. PICK N \in Nat : N = Len(J)  BY LenProperties
<1> DEFINE K == Append(J, c)
           made == Made(top, c, N + 1)
<1>1. /\ K \in Seq(ChangeType) /\ Len(K) = N + 1
      /\ AfterAll(NoDirs, K) = Changed(AfterAll(NoDirs, J), c)
  BY <1>0, AsOfAppend
<1>2. \A n \in 1..(N + 1) : ~Settled(K, n)  BY <1>0, SettledAppend
<1>3. AllTidy(top, N)  BY <1>0 DEF Kept
<1>4. AllTidy(made, N + 1)
  <2>1. \A q \in Ways : MovedTo(top, made, c, q, N)  BY <1>3, DirsMove
  <2> HIDE DEF made
  <2> QED  BY <2>1 DEF MovedTo, AllTidy
<1>5. DataOf(made) = Changed(DataOf(top), c)  BY <1>3, DirsAreRecorded
<1>6. DataOf(top) = AfterAll(NoDirs, J)  BY DEF Kept
<1> HIDE DEF K, made
<1>7. Histories(made, K)
  <2> SUFFICES ASSUME NEW q \in Ways, Exists(made, q)
               PROVE  /\ \A i \in DOMAIN TreeAt(made, q).ops : ~Settled(K, TreeAt(made, q).ops[i].time)
                      /\ Remembers(K, q, TreeAt(made, q).ops)
    BY DEF Histories
  <2>1. \A i \in DOMAIN TreeAt(made, q).ops : ~Settled(K, TreeAt(made, q).ops[i].time)
    BY <1>2, <1>4 DEF AllTidy, Tidy
  <2>2. \A n \in DOMAIN K : ~Settled(K, n)
    <3>1. DOMAIN K = 1..(N + 1)  BY <1>1
    <3> QED  BY <1>2, <3>1
  <2> QED  BY <2>1, <2>2 DEF Remembers
<1>8. Kept(made, K)  BY <1>1, <1>4, <1>5, <1>6, <1>7 DEF Kept
<1> QED  BY <1>0, <1>8 DEF K, made

\* A change of a collection is noted there.
LEMMA RemembersNew ==
  ASSUME NEW J \in Seq(ChangeType), NEW N \in Nat, N = Len(J), NEW c \in ChangeType, c.op \notin DirOps,
         NEW ops \in Seq(OperationOn(Val)), \A i \in DOMAIN ops : ops[i].time \in 1..N,
         Remembers(J, c.path, ops),
         NEW op \in OperationOn(Val), op.time = N + 1, Noted(Append(J, c), c.path, op)
  PROVE  Remembers(Append(J, c), c.path, Append(ops, op))
<1> DEFINE K == Append(J, c)
           new == Append(ops, op)
           q == c.path
<1>1. /\ Len(K) = N + 1 /\ K \in Seq(ChangeType) /\ K[N + 1] = c
      /\ \A n \in 1..N : K[n] = J[n]
  BY AsOfAppend
<1>2. Settled(K, N + 1) /\ \A n \in 1..N : Settled(K, n) <=> Settled(J, n)
  BY SettledAppend
<1>3. PICK l \in Nat : l = Len(ops) /\ DOMAIN ops = 1..l  BY LenProperties
<1>4. /\ DOMAIN new = 1..(l + 1) /\ new[l + 1] = op /\ \A i \in 1..l : new[i] = ops[i]
  BY <1>3, AppendProperties
<1>5. \A i \in 1..l : Settled(J, ops[i].time) => Noted(K, q, ops[i])
  <2> SUFFICES ASSUME NEW i \in 1..l, Settled(J, ops[i].time) PROVE Noted(K, q, ops[i])  OBVIOUS
  <2>1. Noted(J, q, ops[i]) /\ ops[i].time \in 1..N  BY <1>3 DEF Remembers
  <2> QED  BY <2>1, NotedAppend
<1>6. Noted(K, q, op)  OBVIOUS
<1>7. DOMAIN J = 1..N /\ DOMAIN K = 1..(N + 1)  BY <1>1
<1> HIDE DEF K, new, q
<1>8. \A i \in 1..(l + 1) : i \in 1..l \/ i = l + 1  BY <1>3
<1>9. \A i, j \in 1..(l + 1) : i < j /\ (Settled(K, new[i].time) \/ Settled(K, new[j].time)) =>
        new[i].time < new[j].time
  <2> SUFFICES ASSUME NEW i \in 1..(l + 1), NEW j \in 1..(l + 1), i < j,
                      Settled(K, new[i].time) \/ Settled(K, new[j].time)
               PROVE  new[i].time < new[j].time
    OBVIOUS
  <2>1. i \in 1..l /\ ops[i].time \in 1..N  BY <1>3
  <2>2. CASE j = l + 1  BY <1>4, <2>1, <2>2
  <2>3. CASE j # l + 1
    <3>1. j \in 1..l /\ ops[j].time \in 1..N  BY <1>3, <1>8, <2>3
    <3>2. Settled(J, ops[i].time) \/ Settled(J, ops[j].time)  BY <1>2, <1>4, <2>1, <3>1
    <3>3. ops[i].time < ops[j].time  BY <1>3, <2>1, <3>1, <3>2 DEF Remembers
    <3> QED  BY <1>4, <2>1, <3>1, <3>3
  <2> QED  BY <2>2, <2>3
<1>10. \A i \in 1..(l + 1) : Settled(K, new[i].time) => Noted(K, q, new[i])
  <2> SUFFICES ASSUME NEW i \in 1..(l + 1), Settled(K, new[i].time) PROVE Noted(K, q, new[i])
    OBVIOUS
  <2>1. CASE i = l + 1  BY <1>4, <1>6, <2>1
  <2>2. CASE i # l + 1
    <3>1. i \in 1..l /\ ops[i].time \in 1..N  BY <1>3, <1>8, <2>2
    <3> QED  BY <1>2, <1>4, <1>5, <3>1
  <2> QED  BY <2>1, <2>2
<1>11. \A n \in 1..(N + 1) : K[n].path = q /\ Settled(K, n) => \E i \in 1..(l + 1) : new[i].time = n
  <2> SUFFICES ASSUME NEW n \in 1..(N + 1), K[n].path = q, Settled(K, n)
               PROVE  \E i \in 1..(l + 1) : new[i].time = n
    OBVIOUS
  <2>1. CASE n = N + 1
    <3>1. l + 1 \in 1..(l + 1)  BY <1>3
    <3> QED  BY <1>4, <2>1, <3>1
  <2>2. CASE n # N + 1
    <3>1. n \in 1..N  BY <2>2
    <3>2. PICK i \in 1..l : ops[i].time = n  BY <1>1, <1>2, <1>3, <1>7, <3>1 DEF Remembers, q
    <3>3. i \in 1..(l + 1)  BY <1>3
    <3> QED  BY <1>4, <3>2, <3>3
  <2> QED  BY <2>1, <2>2
<1>12. Remembers(K, q, new)  BY <1>4, <1>7, <1>9, <1>10, <1>11 DEF Remembers
<1> QED  BY <1>12 DEF K, new, q

\* It says nothing of the others.
LEMMA RemembersOther ==
  ASSUME NEW J \in Seq(ChangeType), NEW N \in Nat, N = Len(J), NEW c \in ChangeType, c.op \notin DirOps,
         NEW q, q # c.path, NEW ops, \A i \in DOMAIN ops : ops[i].time \in 1..N,
         Remembers(J, q, ops)
  PROVE  Remembers(Append(J, c), q, ops)
<1> DEFINE K == Append(J, c)
<1>1. /\ Len(K) = N + 1 /\ K \in Seq(ChangeType) /\ K[N + 1] = c
      /\ \A n \in 1..N : K[n] = J[n]
  BY AsOfAppend
<1>2. \A n \in 1..N : Settled(K, n) <=> Settled(J, n)  BY SettledAppend
<1>3. DOMAIN J = 1..N /\ DOMAIN K = 1..(N + 1)  BY <1>1
<1>4. \A i \in DOMAIN ops : Settled(K, ops[i].time) => Noted(K, q, ops[i])
  <2> SUFFICES ASSUME NEW i \in DOMAIN ops, Settled(K, ops[i].time) PROVE Noted(K, q, ops[i])
    OBVIOUS
  <2>1. ops[i].time \in 1..N  OBVIOUS
  <2>2. Noted(J, q, ops[i])  BY <1>2, <2>1 DEF Remembers
  <2> QED  BY <2>1, <2>2, NotedAppend
<1> HIDE DEF K
<1>5. \A n \in DOMAIN K : K[n].path = q /\ Settled(K, n) => \E i \in DOMAIN ops : ops[i].time = n
  <2> SUFFICES ASSUME NEW n \in 1..(N + 1), K[n].path = q, Settled(K, n)
               PROVE  \E i \in DOMAIN ops : ops[i].time = n
    BY <1>3
  <2>1. n # N + 1  BY <1>1
  <2>2. n \in 1..N  BY <2>1
  <2> QED  BY <1>1, <1>2, <1>3, <2>2 DEF Remembers
<1>6. \A i, j \in DOMAIN ops :
        i < j /\ (Settled(K, ops[i].time) \/ Settled(K, ops[j].time)) => ops[i].time < ops[j].time
  BY <1>2 DEF Remembers
<1>7. Remembers(K, q, ops)  BY <1>4, <1>5, <1>6 DEF Remembers
<1> QED  BY <1>7 DEF K

\* A collection replaced: its tree alone is another.
LEMMA DataElsewhere ==
  ASSUME NEW top \in Roots, NEW p \in Seq(Nat), Len(p) = 3, Exists(top, p),
         NEW new \in TreeOf(Val), NEW made, made = Replaced(top, p, new)
  PROVE  /\ Exists(made, p) /\ TreeAt(made, p) = new
         /\ \A q \in Ways : q # p =>
              /\ Exists(made, q) <=> Exists(top, q)
              /\ Exists(top, q) =>
                   /\ Len(q) = 3 => TreeAt(made, q) = TreeAt(top, q)
                   /\ Distinct(TreeAt(top, q)) => Distinct(TreeAt(made, q))
                   /\ TreeAt(made, q).ops = TreeAt(top, q).ops
                   /\ TreeAt(made, q).undone = TreeAt(top, q).undone
<1>1. p \in Seq(Nat) /\ Len(p) = 3  OBVIOUS
<1>2. Exists(top, p)  OBVIOUS
<1>3. new \in TreeOf(Contents(Len(p))) /\ Len(p) \in 0..3  BY <1>1, TreesAreHeld
<1>4. /\ Exists(Replaced(top, p, new), p)
      /\ TreeAt(Replaced(top, p, new), p) = new
      /\ \A q \in Seq(Nat) : Len(q) \in 0..3 /\ ~IsPrefix(p, q) =>
           Unreplaced(top, Replaced(top, p, new), p, q)
  BY <1>1, <1>2, <1>3, Elsewhere
<1>5. /\ Exists(made, p) /\ TreeAt(made, p) = new
      /\ \A q \in Seq(Nat) : Len(q) \in 0..3 /\ ~IsPrefix(p, q) => Unreplaced(top, made, p, q)
  BY <1>4
<1>6. ASSUME NEW q \in Ways, q # p
      PROVE  /\ Exists(made, q) <=> Exists(top, q)
             /\ Exists(top, q) =>
                  /\ Len(q) = 3 => TreeAt(made, q) = TreeAt(top, q)
                  /\ Distinct(TreeAt(top, q)) => Distinct(TreeAt(made, q))
                  /\ TreeAt(made, q).ops = TreeAt(top, q).ops
                  /\ TreeAt(made, q).undone = TreeAt(top, q).undone
  <2>1. q \in Seq(Nat) /\ Len(q) \in 0..3  BY DEF Ways
  <2>2. Len(q) = 3 \/ IsPrefix(p, q) => ~IsPrefix(q, p) /\ ~IsPrefix(p, q)
    <3>1. PICK n \in 0..3 : n = Len(q)  BY <2>1
    <3>2. IsPrefix(p, q) => n = 3
      <4> SUFFICES ASSUME IsPrefix(p, q) PROVE n = 3  OBVIOUS
      <4>1. Len(p) <= Len(q)  BY DEF IsPrefix
      <4>2. 3 <= n  BY <1>1, <3>1, <4>1
      <4> QED  BY <4>2
    <3>3. n = 3 /\ IsPrefix(p, q) => p = q
      <4>1. n = 3 /\ IsPrefix(p, q) => \A i \in 1..3 : p[i] = q[i]  BY <1>1, <2>1, <3>1, PrefixMeans
      <4> QED  BY <1>1, <2>1, <3>1, <4>1, SeqEqual
    <3>4. n = 3 /\ IsPrefix(q, p) => q = p
      <4>1. n = 3 /\ IsPrefix(q, p) => \A i \in 1..3 : q[i] = p[i]  BY <1>1, <2>1, <3>1, PrefixMeans
      <4> QED  BY <1>1, <2>1, <3>1, <4>1, SeqEqual
    <3> QED  BY <1>6, <3>1, <3>2, <3>3, <3>4
  <2>3. Unreplaced(top, made, p, q)  BY <1>5, <2>1, <2>2
  <2>4. CASE ~IsPrefix(q, p)  BY <2>3, <2>4 DEF Unreplaced
  <2>5. CASE IsPrefix(q, p)
    <3>1. PICK j \in Nat, below \in Contents(Len(q)) :
            Has(TreeAt(top, q), j) /\ TreeAt(made, q) = SetValueAt(TreeAt(top, q), j, below)
      BY <2>3, <2>5 DEF Unreplaced
    <3>2. Len(q) # 3  BY <2>2, <2>5
    <3>3. ASSUME Exists(top, q)
          PROVE  /\ Distinct(TreeAt(top, q)) => Distinct(TreeAt(made, q))
                 /\ TreeAt(made, q).ops = TreeAt(top, q).ops
                 /\ TreeAt(made, q).undone = TreeAt(top, q).undone
      <4>1. TreeAt(top, q) \in TreeOf(Contents(Len(q)))  BY <2>1, <3>3, TreeTyped
      <4> QED  BY <3>1, <4>1, SetIs
    <3> QED  BY <2>3, <3>2, <3>3 DEF Unreplaced
  <2> QED  BY <2>4, <2>5
<1> QED  BY <1>5, <1>6

\* The row of a collection one of whose keys has changed.
LEMMA RowChanges ==
  ASSUME NEW tree \in TreeOf(Val), NEW new, NEW k \in Key, NEW top, NEW made, NEW p,
         Len(p) = 3, TreeAt(top, p) = tree, TreeAt(made, p) = new,
         NEW kind, NEW v, NEW time, Altered(tree, new, k, kind, v, time)
  PROVE  RowAt(made, p) = [RowAt(top, p) EXCEPT ![k] = IF Has(new, k) THEN ValueAt(new, k) ELSE NoVal]
<1>1. \A j : j # k /\ Has(tree, j) => ValueAt(new, j) = ValueAt(tree, j)
  <2> SUFFICES ASSUME NEW j, j # k, Has(tree, j) PROVE ValueAt(new, j) = ValueAt(tree, j)
    OBVIOUS
  <2>1. ValueAt(tree, j) \in Val  BY Place
  <2> QED  BY <2>1 DEF Altered, Kin
<1>2. \A j : j # k => (Has(new, j) <=> Has(tree, j))  BY DEF Altered
<1> QED  BY <1>1, <1>2 DEF RowAt

\* A change of a collection keeps what is kept.
LEMMA DataKeeps ==
  ASSUME NEW top \in Roots, NEW J \in Seq(ChangeType), NEW c \in ChangeType, c.op \in DataOps,
         Possible(top, c), Kept(top, J)
  PROVE  Kept(Made(top, c, Len(J) + 1), Append(J, c))
<1>0. PICK N \in Nat : N = Len(J)  BY LenProperties
<1> DEFINE K == Append(J, c)
           made == Made(top, c, N + 1)
           p == c.path
           k == c.key
           tree == TreeAt(top, p)
<1>1. /\ K \in Seq(ChangeType) /\ Len(K) = N + 1 /\ K[N + 1] = c
      /\ \A n \in 0..N : AsOfIn(K, n) = AsOfIn(J, n)
      /\ AfterAll(NoDirs, K) = Changed(AfterAll(NoDirs, J), c)
  BY <1>0, AsOfAppend
<1>2. /\ c.op \notin DirOps /\ c.op \in {"insert", "update", "remove"}
      /\ Container(c) = p /\ KeyIn(c) = k /\ Len(p) = 3 /\ k \in Key /\ k \in Nat
      /\ p \in Path /\ p \in Ways /\ p \in Seq(Nat)
      /\ c.op \in {"insert", "update"} => c.val \in Val
  <2>1. c.op \notin DirOps /\ c.op \in {"insert", "update", "remove"}
    BY DEF DirOps, AddOps, RemoveOps, DataOps
  <2> QED  BY <2>1, NamesAssumption, PathsAreWays DEF ChangeType, Given, Container, KeyIn
<1>3. Exists(top, p)  BY <1>2 DEF Possible
<1>4. AllTidy(top, N) /\ Histories(top, J) /\ DataOf(top) = AfterAll(NoDirs, J)
  BY <1>0 DEF Kept
<1>5. tree \in TreeOf(Val) /\ Tidy(tree, N)
  <2>1. Len(p) \in 0..3  BY <1>2
  <2>2. tree \in TreeOf(Contents(Len(p)))  BY <1>2, <1>3, <2>1, TreeTyped
  <2> QED  BY <1>2, <1>3, <1>4, <2>2, TreesAreHeld DEF AllTidy
<1>6. PICK new \in TreeOf(Val), kind \in {"insert", "update", "remove"}, v \in Val :
        ChangesTo(top, c, N + 1, new, kind, v)
  <2>1. N + 1 \in Nat /\ Distinct(TreeAt(top, Container(c)))  BY <1>2, <1>5 DEF Tidy
  <2>2. \E new \in TreeOf(Contents(Len(Container(c)))), kind \in {"insert", "update", "remove"},
            v \in Contents(Len(Container(c))) : ChangesTo(top, c, N + 1, new, kind, v)
    BY <2>1, Changes
  <2>3. Contents(Len(Container(c))) = Val  BY <1>2, TreesAreHeld
  <2> QED  BY <2>2, <2>3
<1>7. /\ made = Replaced(top, p, new)
      /\ Altered(tree, new, k, kind, v, N + 1)
      /\ c.op = kind
      /\ kind = "insert" => ~Has(tree, k) /\ Has(new, k) /\ ValueAt(new, k) = c.val /\ v = c.val
      /\ kind = "update" =>
           Has(tree, k) /\ Has(new, k) /\ ValueAt(new, k) = c.val /\ v = ValueAt(tree, k)
      /\ kind = "remove" => Has(tree, k) /\ ~Has(new, k) /\ v = ValueAt(tree, k)
  BY <1>2, <1>6 DEF ChangesTo
<1>8. /\ Exists(made, p) /\ TreeAt(made, p) = new
      /\ \A q \in Ways : q # p =>
           /\ Exists(made, q) <=> Exists(top, q)
           /\ Exists(top, q) =>
                /\ Len(q) = 3 => TreeAt(made, q) = TreeAt(top, q)
                /\ Distinct(TreeAt(top, q)) => Distinct(TreeAt(made, q))
                /\ TreeAt(made, q).ops = TreeAt(top, q).ops
                /\ TreeAt(made, q).undone = TreeAt(top, q).undone
  <2> HIDE DEF p, made, tree
  <2> QED  BY <1>2, <1>3, <1>7, DataElsewhere
<1> DEFINE op == [kind |-> kind, key |-> k, val |-> v, time |-> N + 1]
<1>9. op \in OperationOn(Val) /\ op.time = N + 1 /\ op.kind = kind /\ op.key = k /\ op.val = v
  <2>1. N + 1 \in Nat  OBVIOUS
  <2> QED  BY <1>2, <2>1 DEF OperationOn
<1>10. new.ops = Append(tree.ops, op)  BY <1>7 DEF Altered
<1> HIDE DEF made, op
<1>11. AllTidy(made, N + 1)
  <2> SUFFICES ASSUME NEW q \in Ways, Exists(made, q) PROVE Tidy(TreeAt(made, q), N + 1)
    BY DEF AllTidy
  <2>1. CASE q = p
    <3>1. Tidy(new, N + 1)  BY <1>5, <1>7, AlteredTidy
    <3> QED  BY <1>8, <2>1, <3>1
  <2>2. CASE q # p
    <3>1. \A t \in 1..N : t \in 1..(N + 1)  OBVIOUS
    <3>2. Tidy(TreeAt(top, q), N)  BY <1>4, <1>8, <2>2 DEF AllTidy
    <3> QED  BY <1>8, <2>2, <3>1, <3>2 DEF Tidy
  <2> QED  BY <2>1, <2>2
<1> DEFINE d == DataOf(top)
           new_d == DataOf(made)
<1>12. /\ d = [q \in {x \in Path : Exists(top, x)} |-> RowAt(top, q)]
       /\ DOMAIN d = {x \in Path : Exists(top, x)}
       /\ \A q \in Path : Exists(top, q) => d[q] = RowAt(top, q)
  BY Rows
<1>13. new_d = [q \in {x \in Path : Exists(made, x)} |-> RowAt(made, q)]  BY Rows
<1>14. d[p] = RowAt(top, p)  BY <1>2, <1>3, <1>12
<1>15. \A j \in Key : d[p][j] = IF Has(tree, j) THEN ValueAt(tree, j) ELSE NoVal
  BY <1>2, <1>14 DEF RowAt
<1>16. new_d = Changed(d, c)
  <2> HIDE DEF d, new_d
  <2> DEFINE w == IF Has(new, k) THEN ValueAt(new, k) ELSE NoVal
  <2>1. RowAt(made, p) = [RowAt(top, p) EXCEPT ![k] = w]  BY <1>2, <1>5, <1>7, <1>8, RowChanges
  <2>2. \A q \in Path : Exists(made, q) <=> Exists(top, q)
    BY <1>3, <1>8, PathsAreWays
  <2>3. \A q \in Path : Exists(top, q) /\ q # p => RowAt(made, q) = RowAt(top, q)
    BY <1>8, PathsAreWays DEF RowAt
  <2>4. {x \in Path : Exists(made, x)} = DOMAIN d  BY <1>12, <2>2
  <2>5. new_d = [q \in DOMAIN d |-> RowAt(made, q)]  BY <1>13, <2>4
  <2>6. \A q \in DOMAIN d : RowAt(made, q) = IF q = p THEN [d[p] EXCEPT ![k] = w] ELSE d[q]
    BY <1>12, <1>14, <2>1, <2>3
  <2>7. new_d = [d EXCEPT ![p][k] = w]
    <3>1. new_d = [q \in DOMAIN d |-> IF q = p THEN [d[p] EXCEPT ![k] = w] ELSE d[q]]
      BY <2>5, <2>6
    <3> HIDE DEF w
    <3> QED  BY <3>1
  <2>8. CASE kind \in {"insert", "update"}
    <3>1. w = c.val  BY <1>7, <2>8
    <3>2. Changed(d, c) = [d EXCEPT ![c.path][c.key] = c.val]
      BY <1>7, <2>8 DEF Changed, AddOps, RemoveOps
    <3> HIDE DEF w
    <3> QED  BY <2>7, <3>1, <3>2
  <2>9. CASE kind = "remove"
    <3>1. w = NoVal  BY <1>7, <2>9
    <3>2. Changed(d, c) = [d EXCEPT ![c.path][c.key] = NoVal]
      BY <1>7, <2>9 DEF Changed, AddOps, RemoveOps
    <3> HIDE DEF w
    <3> QED  BY <2>7, <3>1, <3>2
  <2> QED  BY <2>8, <2>9
<1>17. DataOf(made) = AfterAll(NoDirs, K)  BY <1>1, <1>4, <1>16
<1>18. Noted(K, p, op)
  <2>1. (N + 1) - 1 = N /\ N \in 0..N  OBVIOUS
  <2>2. AsOfIn(K, (N + 1) - 1) = d
    <3>1. AsOfIn(J, N) = AfterAll(NoDirs, J)  BY <1>0, AsOfSteps
    <3> HIDE DEF K
    <3> QED  BY <1>1, <1>4, <2>1, <3>1
  <2> HIDE DEF K, d, tree
  <2>3. kind = "insert" => v = c.val /\ d[p][k] = NoVal  BY <1>2, <1>7, <1>15
  <2>4. kind # "insert" => v = d[p][k]  BY <1>2, <1>7, <1>15
  <2> QED  BY <1>1, <1>7, <1>9, <2>2, <2>3, <2>4 DEF Noted
<1>19. Histories(made, K)
  <2> SUFFICES ASSUME NEW q \in Ways, Exists(made, q)
               PROVE  /\ Len(q) # 3 => \A i \in DOMAIN TreeAt(made, q).ops :
                                         ~Settled(K, TreeAt(made, q).ops[i].time)
                      /\ Len(q) = 3 => Remembers(K, q, TreeAt(made, q).ops)
    BY DEF Histories
  <2>1. CASE q = p
    <3>1. Remembers(J, p, tree.ops)  BY <1>2, <1>3, <1>4 DEF Histories
    <3>2. tree.ops \in Seq(OperationOn(Val)) /\ \A i \in DOMAIN tree.ops : tree.ops[i].time \in 1..N
      BY <1>5 DEF TreeOf, Tidy
    <3> HIDE DEF tree
    <3>3. Remembers(K, p, new.ops)  BY <1>0, <1>2, <1>9, <1>10, <1>18, <3>1, <3>2, RemembersNew
    <3> QED  BY <1>2, <1>8, <2>1, <3>3
  <2>2. CASE q # p
    <3>1. Exists(top, q) /\ TreeAt(made, q).ops = TreeAt(top, q).ops  BY <1>8, <2>2
    <3>2. \A i \in DOMAIN TreeAt(top, q).ops : TreeAt(top, q).ops[i].time \in 1..N
      BY <1>4, <3>1 DEF AllTidy, Tidy
    <3>3. CASE Len(q) = 3
      <4>1. Remembers(J, q, TreeAt(top, q).ops)  BY <1>4, <3>1, <3>3 DEF Histories
      <4>2. Remembers(K, q, TreeAt(top, q).ops)  BY <1>0, <1>2, <2>2, <3>2, <4>1, RemembersOther
      <4> QED  BY <3>1, <3>3, <4>2
    <3>4. CASE Len(q) # 3
      <4>1. \A i \in DOMAIN TreeAt(top, q).ops : ~Settled(J, TreeAt(top, q).ops[i].time)
        BY <1>4, <3>1, <3>4 DEF Histories
      <4>2. \A n \in 1..N : Settled(K, n) <=> Settled(J, n)  BY <1>0, <1>2, SettledAppend
      <4> HIDE DEF K
      <4> QED  BY <3>1, <3>2, <3>4, <4>1, <4>2
    <3> QED  BY <3>3, <3>4
  <2> QED  BY <2>1, <2>2
<1> HIDE DEF K
<1>20. Kept(made, K)  BY <1>1, <1>11, <1>17, <1>19 DEF Kept
<1> QED  BY <1>0, <1>20 DEF K, made

\* Any change keeps what is kept.
LEMMA ChangeKeeps ==
  ASSUME NEW top \in Roots, NEW J \in Seq(ChangeType), NEW c \in ChangeType,
         Possible(top, c), Kept(top, J)
  PROVE  Kept(Made(top, c, Len(J) + 1), Append(J, c))
<1>1. c.op \in DirOps \/ c.op \in DataOps  BY DEF ChangeType
<1> QED  BY <1>1, DirKeeps, DataKeeps

\* Nothing was ever changed.
LEMMA KeptFirst == Kept(NewTree, <<>>)
<1>1. NewTree.slots = <<>> /\ NewTree.ops = <<>> /\ NewTree.undone = <<>>  BY DEF NewTree
<1>2. \A k : ~Has(NewTree, k)
  <2>1. DOMAIN NewTree.slots = {}  BY <1>1
  <2>2. DOMAIN KeysOf(NewTree) = {}  BY <2>1 DEF KeysOf
  <2> QED  BY <2>2 DEF Has
<1>3. \A q \in Ways : Exists(NewTree, q) => Len(q) = 0 /\ TreeAt(NewTree, q) = NewTree
  <2> SUFFICES ASSUME NEW q \in Ways, Exists(NewTree, q)
               PROVE  Len(q) = 0 /\ TreeAt(NewTree, q) = NewTree
    OBVIOUS
  <2>1. PICK l \in 0..3 : l = Len(q)  BY DEF Ways
  <2>2. q \in Seq(Nat)  BY DEF Ways
  <2>3. l = 0
    <3> SUFFICES ASSUME l # 0 PROVE FALSE  OBVIOUS
    <3>1. 1 \in 1..Len(q) /\ 1 - 1 = 0  BY <2>1
    <3>2. Has(TreeAt(NewTree, SubSeq(q, 1, 0)), q[1])  BY <3>1 DEF Exists
    <3>3. 0 \in 0..Len(q)  BY <2>1
    <3>4. Len(SubSeq(q, 1, 0)) = 0  BY <2>2, <3>3, Beginnings
    <3>5. TreeAt(NewTree, SubSeq(q, 1, 0)) = NewTree  BY <3>4 DEF TreeAt
    <3> QED  BY <1>2, <3>2, <3>5
  <2> QED  BY <2>1, <2>3 DEF TreeAt
<1>4. Len(<<>>) = 0 /\ DOMAIN <<>> = {} /\ <<>> \in Seq(ChangeType)  OBVIOUS
<1>5. Distinct(NewTree)  BY <1>1 DEF Distinct
<1>6. AllTidy(NewTree, Len(<<>>))  BY <1>1, <1>3, <1>5 DEF AllTidy, Tidy
<1>7. Histories(NewTree, <<>>)
  <2>1. \A q \in Ways : Exists(NewTree, q) => Len(q) # 3 /\ DOMAIN TreeAt(NewTree, q).ops = {}
    BY <1>1, <1>3
  <2> QED  BY <2>1 DEF Histories
<1>8. DataOf(NewTree) = NoDirs
  <2>1. {q \in Path : Exists(NewTree, q)} = {}
    <3>0. \A n \in 1..3 : n # 0  OBVIOUS
    <3>1. \A q \in Path : Len(q) # 0  BY <3>0, NamesAssumption
    <3> QED  BY <1>3, <3>1, PathsAreWays
  <2> QED  BY <2>1, Rows DEF NoDirs
<1>9. AfterAll(NoDirs, <<>>) = NoDirs
  <2>1. 0 \in Nat  OBVIOUS
  <2>2. AsOfIn(<<>>, 0) = NoDirs /\ AsOfIn(<<>>, 0) = AfterAll(NoDirs, <<>>)
    BY <1>4, <2>1, AsOfSteps
  <2> QED  BY <2>2
<1> QED  BY <1>6, <1>7, <1>8, <1>9 DEF Kept

\* What the first changes built is recorded.
LEMMA KeptBuilt == Kept(Built[Len(Before)], Before)
<1> DEFINE N == Len(Before)
           first(n) == SubSeq(Before, 1, n)
           Good == {n \in 0..N : Built[n] \in Roots /\ Kept(Built[n], first(n))}
<1>1. /\ N \in Nat /\ Before \in Seq(ChangeType) /\ 0 \in 0..N /\ N \in 0..N
      /\ \A n \in 1..N : Before[n] \in ChangeType /\ Possible(Built[n - 1], Before[n])
  <2>1. Before \in Seq(ChangeType) /\ \A n \in 1..Len(Before) : Possible(Built[n - 1], Before[n])
    BY BeforeAssumption
  <2> QED  BY <2>1
<1>2. \A n \in 0..N : Built[n] = IF n = 0 THEN NewTree ELSE Made(Built[n - 1], Before[n], n)
  BY BuiltIs
<1>3. ASSUME NEW n \in 0..N
      PROVE  first(n) \in Seq(ChangeType) /\ Len(first(n)) = n /\ \A i \in 1..n : first(n)[i] = Before[i]
  BY <1>1
<1>4. ASSUME NEW n \in 1..N PROVE first(n) = Append(first(n - 1), Before[n])
  <2>1. n \in Nat /\ n - 1 \in Nat /\ n - 1 \in 0..N /\ n \in 0..N /\ (n - 1) + 1 = n  BY <1>1
  <2>2. /\ first(n) \in Seq(ChangeType) /\ Len(first(n)) = n
        /\ first(n - 1) \in Seq(ChangeType) /\ Len(first(n - 1)) = n - 1
        /\ \A i \in 1..n : first(n)[i] = Before[i]
        /\ \A i \in 1..(n - 1) : first(n - 1)[i] = Before[i]
    BY <1>3, <2>1
  <2> DEFINE a == Append(first(n - 1), Before[n])
  <2> HIDE DEF first
  <2>3. /\ a \in Seq(ChangeType) /\ Len(a) = (n - 1) + 1 /\ a[(n - 1) + 1] = Before[n]
        /\ \A i \in 1..(n - 1) : a[i] = first(n - 1)[i]
    BY <1>1, <2>1, <2>2, AsOfAppend
  <2> HIDE DEF a
  <2>4. \A i \in 1..n : i \in 1..(n - 1) \/ i = n  BY <2>1
  <2>5. \A i \in 1..n : first(n)[i] = a[i]  BY <2>1, <2>2, <2>3, <2>4
  <2>6. first(n) = a  BY <2>1, <2>2, <2>3, <2>5, SeqEqual
  <2> QED  BY <2>6 DEF a
<1>5. first(N) = Before
  <2>1. first(N) \in Seq(ChangeType) /\ Len(first(N)) = N /\ \A i \in 1..N : first(N)[i] = Before[i]
    BY <1>1, <1>3
  <2> HIDE DEF first
  <2> QED  BY <1>1, <2>1, SeqEqual
<1>6. first(0) = <<>>  OBVIOUS
<1> HIDE DEF N, first
<1>7. 0 \in Good
  <2>1. Built[0] = NewTree  BY <1>1, <1>2
  <2>2. NewTree \in Roots  BY NewTreeTyped DEF Roots
  <2> QED  BY <1>1, <1>6, <2>1, <2>2, KeptFirst
<1>8. ASSUME NEW n \in 1..N, n - 1 \in Good PROVE n \in Good
  <2>1. n \in Nat /\ n # 0 /\ n \in 0..N /\ n - 1 \in 0..N /\ (n - 1) + 1 = n  BY <1>1
  <2>2. Built[n - 1] \in Roots /\ Kept(Built[n - 1], first(n - 1))  BY <1>8
  <2>3. Built[n] = Made(Built[n - 1], Before[n], n)  BY <1>2, <2>1
  <2>4. first(n - 1) \in Seq(ChangeType) /\ Len(first(n - 1)) = n - 1  BY <1>3, <2>1
  <2>5. Before[n] \in ChangeType /\ Possible(Built[n - 1], Before[n])  BY <1>1
  <2>6. Kept(Made(Built[n - 1], Before[n], Len(first(n - 1)) + 1), Append(first(n - 1), Before[n]))
    BY <2>2, <2>4, <2>5, ChangeKeeps
  <2>7. Kept(Built[n], first(n))  BY <1>4, <2>1, <2>3, <2>4, <2>6
  <2>8. Built[n] \in Roots  BY <2>1, <2>2, <2>3, <2>5, MadeTyped
  <2> QED  BY <2>1, <2>7, <2>8
<1> HIDE DEF Good
<1>9. \A n \in 0..N : n \in Good  BY <1>1, <1>7, <1>8, UpTo
<1>10. N \in Good  BY <1>1, <1>9
<1> QED  BY <1>5, <1>10 DEF Good, N

(***************************************************************************)
(* The row of a collection, undone and redone.                             *)
(***************************************************************************)

\* The row of a collection: what each key has there.
RowOf(tree) == [k \in Key |-> IF Has(tree, k) THEN ValueAt(tree, k) ELSE NoVal]
\* What a row can be.
RowType == [Key -> Val \cup {NoVal}]

\* A row says what is there.
LEMMA RowMeans ==
  ASSUME NEW tree \in TreeOf(Val)
  PROVE  /\ RowOf(tree) \in RowType
         /\ \A k \in Key : /\ Has(tree, k) <=> RowOf(tree)[k] # NoVal
                           /\ Has(tree, k) => ValueAt(tree, k) = RowOf(tree)[k] /\ ValueAt(tree, k) \in Val
<1>1. \A k \in Key : Has(tree, k) => ValueAt(tree, k) \in Val  BY Place
<1> QED  BY <1>1, NoValAssumption DEF RowOf, RowType

\* A key erased, inserted or set, and no other.
LEMMA RowErased ==
  ASSUME NEW tree \in TreeOf(Val), Distinct(tree), NEW k \in Key, Has(tree, k)
  PROVE  LET new == EraseSlot(tree, k)
         IN /\ new \in TreeOf(Val) /\ Distinct(new) /\ new.ops = tree.ops /\ new.undone = tree.undone
            /\ RowOf(new) = [RowOf(tree) EXCEPT ![k] = NoVal]
<1> DEFINE new == EraseSlot(tree, k)
<1>1. Holdable(3, Val)  BY ContentsHoldable, TreesAreHeld
<1>2. /\ new \in TreeOf(Val) /\ Distinct(new) /\ new.ops = tree.ops /\ new.undone = tree.undone
      /\ \A j : Has(new, j) <=> Has(tree, j) /\ j # k
      /\ \A j : Has(tree, j) /\ j # k => Kin(ValueAt(new, j), ValueAt(tree, j), tree)
  BY <1>1, EraseIs
<1> HIDE DEF new
<1>3. \A j \in Key : Has(tree, j) /\ j # k => ValueAt(new, j) = ValueAt(tree, j)
  BY <1>2, RowMeans DEF Kin
<1>4. RowOf(new) = [RowOf(tree) EXCEPT ![k] = NoVal]  BY <1>2, <1>3 DEF RowOf
<1> QED  BY <1>2, <1>4 DEF new

\* Its row with a key inserted ...
LEMMA RowInserted ==
  ASSUME NEW tree \in TreeOf(Val), Distinct(tree), NEW k \in Key, ~Has(tree, k), NEW v \in Val
  PROVE  LET new == InsertSlot(tree, k, v)
         IN /\ new \in TreeOf(Val) /\ Distinct(new) /\ new.ops = tree.ops /\ new.undone = tree.undone
            /\ RowOf(new) = [RowOf(tree) EXCEPT ![k] = v]
<1> DEFINE new == InsertSlot(tree, k, v)
<1>1. Holdable(3, Val) /\ k \in Nat  BY ContentsHoldable, TreesAreHeld, NamesAssumption
<1>2. /\ new \in TreeOf(Val) /\ Distinct(new) /\ new.ops = tree.ops /\ new.undone = tree.undone
      /\ \A j : Has(new, j) <=> Has(tree, j) \/ j = k
      /\ \A j : Has(tree, j) => Kin(ValueAt(new, j), ValueAt(tree, j), tree)
      /\ Kin(ValueAt(new, k), v, tree)
  BY <1>1, InsertIs
<1> HIDE DEF new
<1>3. \A j \in Key : Has(tree, j) => ValueAt(new, j) = ValueAt(tree, j)
  BY <1>2, RowMeans DEF Kin
<1>4. ValueAt(new, k) = v  BY <1>2 DEF Kin
<1>5. RowOf(new) = [RowOf(tree) EXCEPT ![k] = v]  BY <1>2, <1>3, <1>4 DEF RowOf
<1> QED  BY <1>2, <1>5 DEF new

\* ... and with one updated.
LEMMA RowSet ==
  ASSUME NEW tree \in TreeOf(Val), Distinct(tree), NEW k \in Key, Has(tree, k), NEW v \in Val
  PROVE  LET new == SetValueAt(tree, k, v)
         IN /\ new \in TreeOf(Val) /\ Distinct(new) /\ new.ops = tree.ops /\ new.undone = tree.undone
            /\ RowOf(new) = [RowOf(tree) EXCEPT ![k] = v]
<1> DEFINE new == SetValueAt(tree, k, v)
<1>1. /\ new \in TreeOf(Val) /\ ValueAt(new, k) = v
      /\ \A j : j # k /\ Has(tree, j) => ValueAt(new, j) = ValueAt(tree, j)
  BY SetValue
<1>2. /\ Distinct(new) /\ new.ops = tree.ops /\ new.undone = tree.undone
      /\ \A j : Has(new, j) <=> Has(tree, j)
  BY SetIs
<1> HIDE DEF new
<1>3. RowOf(new) = [RowOf(tree) EXCEPT ![k] = v]  BY <1>1, <1>2 DEF RowOf
<1> QED  BY <1>1, <1>2, <1>3 DEF new

-------------------------------------------------------------------------------
\* What an operation on a stack wrote, and what it remembers once undone.
Written(J, op) == IF op.kind = "remove" THEN NoVal ELSE J[op.time].val
\* The operation redo_all finds: undoing an update leaves the value that was written.
Flipped(J, op) == IF op.kind = "update" THEN [op EXCEPT !.val = J[op.time].val] ELSE op

\* The row op makes of the one before it.
Taken(J, op, before) == [before EXCEPT ![op.key] = Written(J, op)]

\* tree is a sound collection with this row.
Shows(tree, row) == tree \in TreeOf(Val) /\ Distinct(tree) /\ RowOf(tree) = row

\* The row before op, and what op must be to have made the row after it.
Explains(J, op, before) ==
  /\ op \in OperationOn(Val) /\ op.key \in Key /\ before \in RowType
  /\ op.kind = "insert" => before[op.key] = NoVal /\ op.val = Written(J, op)
  /\ op.kind # "insert" => op.val = before[op.key]
  /\ op.kind # "remove" => Written(J, op) \in Val

\* Undone, op leaves the row it met.
LEMMA UndoIs ==
  ASSUME NEW J, NEW op, NEW before, Explains(J, op, before),
         NEW row, row = Taken(J, op, before),
         NEW tree, Shows(tree, row)
  PROVE  /\ ~UndoThrows(tree, op)
         /\ LET u == Undo(3, tree, op)
            IN /\ Shows(u.tree, before) /\ u.tree.ops = tree.ops /\ u.tree.undone = tree.undone
               /\ u.op = Flipped(J, op)
<1> DEFINE k == op.key
           w == Written(J, op)
           u == Undo(3, tree, op)
<1>1. /\ op \in OperationOn(Val) /\ k \in Key /\ before \in RowType
      /\ op.kind \in {"insert", "update", "remove"} /\ op.val \in Val
      /\ tree \in TreeOf(Val) /\ Distinct(tree) /\ RowOf(tree) = [before EXCEPT ![k] = w]
  BY DEF Explains, Shows, OperationOn, Taken
<1>2. RowOf(tree)[k] = w /\ [RowOf(tree) EXCEPT ![k] = before[k]] = before
  BY <1>1 DEF RowType
<1>3. op.kind # "remove" => Has(tree, k) /\ ValueAt(tree, k) = w
  <2>1. op.kind # "remove" => w \in Val /\ w # NoVal  BY NoValAssumption DEF Explains
  <2> HIDE DEF w
  <2> QED  BY <1>1, <1>2, <2>1, RowMeans
<1>4. op.kind = "remove" => ~Has(tree, k)  BY <1>1, <1>2, RowMeans DEF Written
<1>5. ~UndoThrows(tree, op)  BY <1>3 DEF UndoThrows
<1>6. \A x : Copy(3, x) = x  BY DEF Copy
<1>7. op = [op EXCEPT !.val = op.val]  BY <1>1 DEF OperationOn
<1>8. CASE op.kind = "insert"
  <2>1. u = [tree |-> EraseSlot(tree, k), op |-> [op EXCEPT !.val = ValueAt(tree, k)]]
    BY <1>6, <1>8 DEF Undo
  <2>2. Shows(EraseSlot(tree, k), before)
    <3>1. before[k] = NoVal  BY <1>8 DEF Explains
    <3> QED  BY <1>1, <1>2, <1>3, <1>8, <3>1, RowErased DEF Shows
  <2>3. EraseSlot(tree, k).ops = tree.ops /\ EraseSlot(tree, k).undone = tree.undone
    BY <1>1, <1>3, <1>8, RowErased
  <2>4. [op EXCEPT !.val = ValueAt(tree, k)] = Flipped(J, op)
    <3>1. op.val = w  BY <1>8 DEF Explains
    <3> HIDE DEF w
    <3> QED  BY <1>3, <1>7, <1>8, <3>1 DEF Flipped
  <2> QED  BY <1>5, <2>1, <2>2, <2>3, <2>4
<1>9. CASE op.kind = "update"
  <2>1. u = [tree |-> SetValueAt(tree, k, op.val), op |-> [op EXCEPT !.val = ValueAt(tree, k)]]
    BY <1>9 DEF Undo
  <2>2. op.val = before[k]  BY <1>9 DEF Explains
  <2>3. Shows(SetValueAt(tree, k, op.val), before)
    BY <1>1, <1>2, <1>3, <1>9, <2>2, RowSet DEF Shows
  <2>4. SetValueAt(tree, k, op.val).ops = tree.ops /\ SetValueAt(tree, k, op.val).undone = tree.undone
    BY <1>1, <1>3, <1>9, RowSet
  <2>5. [op EXCEPT !.val = ValueAt(tree, k)] = Flipped(J, op)
    BY <1>3, <1>9 DEF Flipped, Written
  <2> QED  BY <1>5, <2>1, <2>3, <2>4, <2>5
<1>10. CASE op.kind = "remove"
  <2>1. u = [tree |-> InsertSlot(tree, k, op.val), op |-> op]
    BY <1>4, <1>6, <1>10 DEF Undo
  <2>2. op.val = before[k]  BY <1>10 DEF Explains
  <2>3. Shows(InsertSlot(tree, k, op.val), before)
    BY <1>1, <1>2, <1>4, <1>10, <2>2, RowInserted DEF Shows
  <2>4. InsertSlot(tree, k, op.val).ops = tree.ops /\ InsertSlot(tree, k, op.val).undone = tree.undone
    BY <1>1, <1>4, <1>10, RowInserted
  <2>5. op = Flipped(J, op)  BY <1>10 DEF Flipped
  <2> QED  BY <1>5, <2>1, <2>3, <2>4, <2>5
<1> QED  BY <1>1, <1>8, <1>9, <1>10

\* Redone, it writes again what it had written.
LEMMA RedoIs ==
  ASSUME NEW J, NEW op, NEW before, Explains(J, op, before),
         NEW row, row = Taken(J, op, before),
         NEW tree, Shows(tree, before)
  PROVE  /\ ~RedoThrows(tree, Flipped(J, op))
         /\ LET r == Redo(3, tree, Flipped(J, op))
            IN /\ Shows(r.tree, row)
               /\ r.tree.ops = tree.ops /\ r.tree.undone = tree.undone
               /\ r.op = op
<1> DEFINE k == op.key
           w == Written(J, op)
           f == Flipped(J, op)
           r == Redo(3, tree, f)
<1>1. /\ op \in OperationOn(Val) /\ k \in Key /\ before \in RowType
      /\ op.kind \in {"insert", "update", "remove"} /\ op.val \in Val
      /\ tree \in TreeOf(Val) /\ Distinct(tree) /\ RowOf(tree) = before
  BY DEF Explains, Shows, OperationOn
<1>0. row = [RowOf(tree) EXCEPT ![k] = w]  BY <1>1 DEF Taken
<1>2. f.kind = op.kind /\ f.key = k  BY <1>1 DEF Flipped, OperationOn
<1>3. op.kind = "insert" => ~Has(tree, k)  BY <1>1, RowMeans DEF Explains
<1>4. op.kind # "insert" => Has(tree, k) /\ ValueAt(tree, k) = op.val
  <2>1. op.kind # "insert" => op.val = before[k]  BY DEF Explains
  <2>2. op.val # NoVal  BY <1>1, NoValAssumption
  <2> QED  BY <1>1, <2>1, <2>2, RowMeans
<1>5. ~RedoThrows(tree, f)  BY <1>2, <1>4 DEF RedoThrows
<1>6. \A x : Copy(3, x) = x  BY DEF Copy
<1>7. op = [op EXCEPT !.val = op.val]  BY <1>1 DEF OperationOn
<1>8. CASE op.kind = "insert"
  <2>1. f = op  BY <1>8 DEF Flipped
  <2>2. op.val = w /\ w \in Val  BY <1>8 DEF Explains
  <2> HIDE DEF w, f
  <2>3. r = [tree |-> InsertSlot(tree, k, w), op |-> op]
    BY <1>3, <1>6, <1>8, <2>1, <2>2 DEF Redo
  <2>4. /\ Shows(InsertSlot(tree, k, w), row)
        /\ InsertSlot(tree, k, w).ops = tree.ops /\ InsertSlot(tree, k, w).undone = tree.undone
    <3> DEFINE new == InsertSlot(tree, k, w)
    <3>1. /\ new \in TreeOf(Val) /\ Distinct(new) /\ new.ops = tree.ops /\ new.undone = tree.undone
          /\ RowOf(new) = [RowOf(tree) EXCEPT ![k] = w]
      BY <1>1, <1>3, <1>8, <2>2, RowInserted
    <3> HIDE DEF new
    <3> QED  BY <1>0, <3>1 DEF Shows, new
  <2> QED  BY <1>5, <2>3, <2>4 DEF w, f
<1>9. CASE op.kind = "update"
  <2>1. f = [op EXCEPT !.val = w] /\ w \in Val  BY <1>9 DEF Flipped, Written, Explains
  <2> HIDE DEF w, f
  <2>2. f.val = w  BY <1>1, <2>1 DEF OperationOn
  <2>3. r = [tree |-> SetValueAt(tree, k, w), op |-> [f EXCEPT !.val = ValueAt(tree, k)]]
    BY <1>2, <1>9, <2>2 DEF Redo
  <2>4. /\ Shows(SetValueAt(tree, k, w), row)
        /\ SetValueAt(tree, k, w).ops = tree.ops /\ SetValueAt(tree, k, w).undone = tree.undone
    BY <1>0, <1>1, <1>4, <1>9, <2>1, RowSet DEF Shows
  <2>5. [f EXCEPT !.val = ValueAt(tree, k)] = op
    BY <1>1, <1>4, <1>9, <2>1 DEF OperationOn
  <2> QED  BY <1>5, <2>3, <2>4, <2>5 DEF w, f
<1>10. CASE op.kind = "remove"
  <2>1. f = op /\ w = NoVal  BY <1>10 DEF Flipped, Written
  <2> HIDE DEF w, f
  <2>2. r = [tree |-> EraseSlot(tree, k), op |-> op]  BY <1>4, <1>10, <2>1 DEF Redo
  <2>3. /\ Shows(EraseSlot(tree, k), row)
        /\ EraseSlot(tree, k).ops = tree.ops /\ EraseSlot(tree, k).undone = tree.undone
    BY <1>0, <1>1, <1>4, <1>10, <2>1, RowErased DEF Shows
  <2> QED  BY <1>5, <2>2, <2>3 DEF w, f
<1> QED  BY <1>1, <1>8, <1>9, <1>10

(***************************************************************************)
(* The rows of a collection in the course of a journal.                    *)
(***************************************************************************)

\* A change of a collection leaves the directories, and all other rows.
LEMMA DataChanged ==
  ASSUME NEW d, NEW c \in ChangeType, c.op \notin DirOps
  PROVE  /\ DOMAIN Changed(d, c) = DOMAIN d
         /\ \A q \in DOMAIN d : q # c.path => Changed(d, c)[q] = d[q]
         /\ c.path \in DOMAIN d =>
              Changed(d, c)[c.path] =
                [d[c.path] EXCEPT ![c.key] = IF c.op = "remove" THEN NoVal ELSE c.val]
         /\ c.op \in {"insert", "update", "remove"} /\ c.key \in Key
         /\ c.op # "remove" => c.val \in Val
<1>1. /\ c.op \in {"insert", "update", "remove"} /\ c.op \notin AddOps \cup RemoveOps
      /\ c.key \in Key /\ (c.op # "remove" => c.val \in Val)
  BY DEF ChangeType, DirOps, DataOps, Given
<1>2. CASE c.op = "remove"
  <2>1. Changed(d, c) = [d EXCEPT ![c.path][c.key] = NoVal]
    BY <1>1, <1>2 DEF Changed, AddOps, RemoveOps
  <2> QED  BY <1>1, <1>2, <2>1
<1>3. CASE c.op # "remove"
  <2>1. Changed(d, c) = [d EXCEPT ![c.path][c.key] = c.val]
    BY <1>1, <1>3 DEF Changed, AddOps, RemoveOps
  <2> QED  BY <1>1, <1>3, <2>1
<1> QED  BY <1>2, <1>3

\* In short, with nothing said of the collection itself.
LEMMA OthersUnchanged ==
  ASSUME NEW d, NEW c \in ChangeType, c.op \notin DirOps
  PROVE  /\ DOMAIN Changed(d, c) = DOMAIN d
         /\ \A q \in DOMAIN d : q # c.path => Changed(d, c)[q] = d[q]
BY DataChanged

\* The data of a time: rows by their paths.
Typed(d) == \A q \in DOMAIN d : d[q] \in RowType

\* They stay so.
LEMMA ChangedTyped ==
  ASSUME NEW d, Typed(d), NEW c \in ChangeType
  PROVE  Typed(Changed(d, c))
<1>1. CASE c.op \in AddOps
  <2>1. Changed(d, c) = With(d, c.path, NoData)  BY <1>1 DEF Changed, AddOps, RemoveOps
  <2>2. NoData \in RowType  BY DEF NoData, RowType
  <2> QED  BY <2>1, <2>2 DEF With, Typed
<1>2. CASE c.op \in RemoveOps
  <2>1. Changed(d, c) = Without(d, c.path)  BY <1>2 DEF Changed, AddOps, RemoveOps
  <2> QED  BY <2>1 DEF Without, Restrict, Typed
<1>3. CASE c.op \notin DirOps
  <2>1. /\ DOMAIN Changed(d, c) = DOMAIN d
        /\ \A q \in DOMAIN d : q # c.path => Changed(d, c)[q] = d[q]
        /\ c.path \in DOMAIN d =>
             Changed(d, c)[c.path] =
               [d[c.path] EXCEPT ![c.key] = IF c.op = "remove" THEN NoVal ELSE c.val]
        /\ c.op # "remove" => c.val \in Val
    BY <1>3, DataChanged
  <2>2. ASSUME c.path \in DOMAIN d PROVE Changed(d, c)[c.path] \in RowType
    <3> DEFINE w == IF c.op = "remove" THEN NoVal ELSE c.val
    <3>1. w \in Val \cup {NoVal}  BY <2>1
    <3>2. d[c.path] \in RowType  BY <2>2 DEF Typed
    <3>3. Changed(d, c)[c.path] = [d[c.path] EXCEPT ![c.key] = w]  BY <2>1, <2>2
    <3> HIDE DEF w
    <3> QED  BY <3>1, <3>2, <3>3 DEF RowType
  <2> QED  BY <2>1, <2>2 DEF Typed
<1> QED  BY <1>1, <1>2, <1>3 DEF DirOps

\* They are so at any time.
LEMMA AsOfTyped ==
  ASSUME NEW J \in Seq(ChangeType), NEW N \in Nat, N = Len(J)
  PROVE  \A n \in 0..N : Typed(AsOfIn(J, n))
<1> DEFINE Good == {n \in 0..N : Typed(AsOfIn(J, n))}
<1>1. /\ AsOfIn(J, 0) = NoDirs
      /\ \A n \in 1..N : AsOfIn(J, n) = Changed(AsOfIn(J, n - 1), J[n])
  BY AsOfSteps
<1>2. \A n \in 1..N : J[n] \in ChangeType  OBVIOUS
<1>3. 0 \in Good
  <2>1. Typed(NoDirs)  BY DEF Typed, NoDirs
  <2> QED  BY <1>1, <2>1
<1>4. ASSUME NEW n \in 1..N, n - 1 \in Good PROVE n \in Good
  <2>1. n \in 0..N /\ Typed(AsOfIn(J, n - 1))  BY <1>4
  <2>2. Typed(Changed(AsOfIn(J, n - 1), J[n]))  BY <1>2, <2>1, ChangedTyped
  <2> QED  BY <1>1, <2>1, <2>2
<1> HIDE DEF Good
<1>5. \A n \in 0..N : n \in Good  BY <1>3, <1>4, UpTo
<1> QED  BY <1>5 DEF Good

\* While directories are not changed, there are the same.
LEMMA SameDirs ==
  ASSUME NEW J \in Seq(ChangeType), NEW N \in Nat, N = Len(J), NEW a \in 0..N,
         \A n \in (a + 1)..N : J[n].op \notin DirOps
  PROVE  \A b \in a..N : DOMAIN AsOfIn(J, b) = DOMAIN AsOfIn(J, a)
<1> DEFINE Good == {m \in 0..(N - a) : DOMAIN AsOfIn(J, a + m) = DOMAIN AsOfIn(J, a)}
<1>1. \A n \in 1..N : AsOfIn(J, n) = Changed(AsOfIn(J, n - 1), J[n])  BY AsOfSteps
<1>2. \A n \in 1..N : J[n] \in ChangeType  OBVIOUS
<1>3. N - a \in Nat /\ 0 \in 0..(N - a) /\ a + 0 = a  OBVIOUS
<1>4. 0 \in Good  BY <1>3
<1>5. ASSUME NEW m \in 1..(N - a), m - 1 \in Good PROVE m \in Good
  <2>1. /\ m \in 0..(N - a) /\ a + m \in 1..N /\ a + m \in (a + 1)..N /\ (a + m) - 1 = a + (m - 1)
    BY <1>3
  <2>2. DOMAIN AsOfIn(J, a + (m - 1)) = DOMAIN AsOfIn(J, a)  BY <1>5
  <2>3. AsOfIn(J, a + m) = Changed(AsOfIn(J, a + (m - 1)), J[a + m])  BY <1>1, <2>1
  <2>4. J[a + m] \in ChangeType /\ J[a + m].op \notin DirOps  BY <1>2, <2>1
  <2>5. DOMAIN AsOfIn(J, a + m) = DOMAIN AsOfIn(J, a + (m - 1))  BY <2>3, <2>4, OthersUnchanged
  <2> QED  BY <2>1, <2>2, <2>5
<1> HIDE DEF Good
<1>6. \A m \in 0..(N - a) : m \in Good  BY <1>3, <1>4, <1>5, UpTo
<1>7. \A b \in a..N : b - a \in 0..(N - a) /\ a + (b - a) = b  OBVIOUS
<1> QED  BY <1>6, <1>7 DEF Good

\* ... and the row of a collection that is not changed either.
LEMMA SameRow ==
  ASSUME NEW J \in Seq(ChangeType), NEW N \in Nat, N = Len(J), NEW a \in 0..N, NEW b \in a..N,
         NEW q, q \in DOMAIN AsOfIn(J, a),
         \A n \in (a + 1)..N : J[n].op \notin DirOps,
         \A n \in (a + 1)..b : J[n].path # q
  PROVE  AsOfIn(J, b)[q] = AsOfIn(J, a)[q]
<1> DEFINE Good == {m \in 0..(b - a) : AsOfIn(J, a + m)[q] = AsOfIn(J, a)[q]}
<1>1. \A n \in 1..N : AsOfIn(J, n) = Changed(AsOfIn(J, n - 1), J[n])  BY AsOfSteps
<1>2. \A n \in 1..N : J[n] \in ChangeType  OBVIOUS
<1>3. b - a \in Nat /\ 0 \in 0..(b - a) /\ a + 0 = a /\ b - a \in 0..(b - a) /\ a + (b - a) = b
  OBVIOUS
<1>4. 0 \in Good  BY <1>3
<1>5. ASSUME NEW m \in 1..(b - a), m - 1 \in Good PROVE m \in Good
  <2>1. /\ m \in 0..(b - a) /\ a + m \in 1..N /\ a + m \in (a + 1)..N /\ a + m \in (a + 1)..b
        /\ (a + m) - 1 = a + (m - 1) /\ a + (m - 1) \in a..N
    BY <1>3
  <2>2. AsOfIn(J, a + (m - 1))[q] = AsOfIn(J, a)[q]  BY <1>5
  <2>3. AsOfIn(J, a + m) = Changed(AsOfIn(J, a + (m - 1)), J[a + m])  BY <1>1, <2>1
  <2>4. J[a + m] \in ChangeType /\ J[a + m].op \notin DirOps /\ J[a + m].path # q  BY <1>2, <2>1
  <2>5. q \in DOMAIN AsOfIn(J, a + (m - 1))  BY <2>1, SameDirs
  <2>6. AsOfIn(J, a + m)[q] = AsOfIn(J, a + (m - 1))[q]
    <3> DEFINE d == AsOfIn(J, a + (m - 1))
               c == J[a + m]
    <3>1. q \in DOMAIN d /\ c \in ChangeType /\ c.op \notin DirOps /\ q # c.path  BY <2>4, <2>5
    <3> HIDE DEF d, c
    <3>2. Changed(d, c)[q] = d[q]  BY <3>1, OthersUnchanged
    <3> QED  BY <2>3, <3>2 DEF d, c
  <2> QED  BY <2>1, <2>2, <2>6
<1> HIDE DEF Good
<1>6. \A m \in 0..(b - a) : m \in Good  BY <1>3, <1>4, <1>5, UpTo
<1>7. b - a \in Good  BY <1>3, <1>6
<1> QED  BY <1>3, <1>7 DEF Good

\* A noted operation explains the row after it by the row before.
LEMMA Explained ==
  ASSUME NEW J \in Seq(ChangeType), NEW N \in Nat, N = Len(J), NEW q,
         NEW op \in OperationOn(Val), NEW t \in 1..N, t = op.time, Noted(J, q, op),
         q \in DOMAIN AsOfIn(J, t - 1)
  PROVE  /\ Explains(J, op, AsOfIn(J, t - 1)[q])
         /\ AsOfIn(J, t)[q] = Taken(J, op, AsOfIn(J, t - 1)[q])
<1> DEFINE c == J[t]
           d == AsOfIn(J, t - 1)
<1>1. c \in ChangeType /\ t \in 1..N /\ t - 1 \in 0..N  OBVIOUS
<1>2. AsOfIn(J, t) = Changed(d, c)  BY <1>1, AsOfSteps
<1>3. /\ c.op = op.kind /\ c.path = q /\ c.key = op.key
      /\ op.kind = "insert" => op.val = c.val /\ d[q][op.key] = NoVal
      /\ op.kind # "insert" => op.val = d[q][op.key] /\ op.val \in Val
  BY DEF Noted
<1>4. c.op \notin DirOps
  <2>1. op.kind \in {"insert", "update", "remove"}  BY DEF OperationOn
  <2> QED  BY <1>3, <2>1 DEF DirOps, AddOps, RemoveOps
<1>5. Typed(d)  BY <1>1, AsOfTyped
<1> HIDE DEF c, d
<1>6. /\ Changed(d, c)[q] = [d[q] EXCEPT ![op.key] = IF c.op = "remove" THEN NoVal ELSE c.val]
      /\ c.key \in Key /\ (c.op # "remove" => c.val \in Val)
  <2>1. c.path \in DOMAIN d  BY <1>3 DEF d
  <2>2. c \in ChangeType  BY <1>1 DEF c
  <2>3. /\ Changed(d, c)[c.path] =
             [d[c.path] EXCEPT ![c.key] = IF c.op = "remove" THEN NoVal ELSE c.val]
        /\ c.key \in Key /\ (c.op # "remove" => c.val \in Val)
    BY <1>4, <2>1, <2>2, DataChanged
  <2> QED  BY <1>3, <2>3
<1>7. Written(J, op) = IF c.op = "remove" THEN NoVal ELSE c.val  BY <1>3 DEF Written, c
<1>8. d[q] \in RowType  BY <1>5 DEF Typed, d
<1>9. Explains(J, op, d[q])  BY <1>3, <1>6, <1>7, <1>8 DEF Explains
<1> QED  BY <1>2, <1>6, <1>7, <1>9 DEF d, Taken

\* The first p of a sequence, as a stack.
LEMMA Stacks ==
  ASSUME NEW S, NEW q \in Seq(S), NEW l \in Nat, l = Len(q), NEW p \in 1..l
  PROVE  /\ SubSeq(q, 1, p) # <<>>
         /\ Last(SubSeq(q, 1, p)) = q[p]
         /\ Front(SubSeq(q, 1, p)) = SubSeq(q, 1, p - 1)
         /\ Append(SubSeq(q, 1, p - 1), q[p]) = SubSeq(q, 1, p)
<1> DEFINE a == SubSeq(q, 1, p)
           b == SubSeq(q, 1, p - 1)
<1>1. a \in Seq(S) /\ Len(a) = p /\ \A i \in 1..p : a[i] = q[i]  OBVIOUS
<1>2. p - 1 \in 0..l /\ p - 1 \in Nat /\ p \in Nat /\ p # 0 /\ p \in 1..p  OBVIOUS
<1>3. b \in Seq(S) /\ Len(b) = p - 1 /\ \A i \in 1..(p - 1) : b[i] = q[i]
  <2>1. \A n \in 0..l : /\ SubSeq(q, 1, n) \in Seq(S) /\ Len(SubSeq(q, 1, n)) = n
                        /\ \A i \in 1..n : SubSeq(q, 1, n)[i] = q[i]
    OBVIOUS
  <2> QED  BY <1>2, <2>1
<1> HIDE DEF a, b
<1>4. q[p] \in S  OBVIOUS
<1>5. a # <<>>  BY <1>1, <1>2
<1>6. Last(a) = q[p]  BY <1>1, <1>2 DEF Last
<1>7. Front(a) = b
  <2> DEFINE c == SubSeq(a, 1, p - 1)
  <2>1. Front(a) = c  BY <1>1 DEF Front
  <2>2. c \in Seq(S) /\ Len(c) = p - 1 /\ \A i \in 1..(p - 1) : c[i] = a[i]
    <3>1. \A n \in 0..p : /\ SubSeq(a, 1, n) \in Seq(S) /\ Len(SubSeq(a, 1, n)) = n
                          /\ \A i \in 1..n : SubSeq(a, 1, n)[i] = a[i]
      BY <1>1, <1>2
    <3>2. p - 1 \in 0..p  BY <1>2
    <3> QED  BY <3>1, <3>2
  <2> HIDE DEF c
  <2>3. \A i \in 1..(p - 1) : i \in 1..p  OBVIOUS
  <2>4. \A i \in 1..(p - 1) : c[i] = b[i]  BY <1>1, <1>3, <2>2, <2>3
  <2>5. c = b  BY <1>3, <2>2, <2>4, SeqEqual
  <2> QED  BY <2>1, <2>5
<1>8. Append(b, q[p]) = a
  <2> DEFINE c == Append(b, q[p])
  <2>1. /\ c \in Seq(S) /\ Len(c) = Len(b) + 1 /\ c[Len(b) + 1] = q[p]
        /\ \A i \in 1..Len(b) : c[i] = b[i]
    BY <1>3, <1>4, AppendProperties
  <2> HIDE DEF c
  <2>2. Len(c) = p /\ c[p] = q[p] /\ \A i \in 1..(p - 1) : c[i] = q[i]
    <3>1. (p - 1) + 1 = p  OBVIOUS
    <3> QED  BY <1>3, <2>1, <3>1
  <2>3. \A i \in 1..p : i \in 1..(p - 1) \/ i = p  OBVIOUS
  <2>4. \A i \in 1..p : c[i] = a[i]  BY <1>1, <1>2, <2>2, <2>3
  <2>5. c = a  BY <1>1, <2>1, <2>2, <2>4, SeqEqual
  <2> QED  BY <2>5 DEF c
<1> QED  BY <1>5, <1>6, <1>7, <1>8 DEF a, b

\* ops is the history of the collection at q, whose changes after T are settled.
Recorded(J, T, q, ops) ==
  /\ J \in Seq(ChangeType) /\ T \in Nat
  /\ \A n \in 1..Len(J) : T < n => J[n].op \notin DirOps
  /\ q \in DOMAIN AsOfIn(J, Len(J))
  /\ ops \in Seq(OperationOn(Val)) /\ \A i \in 1..Len(ops) : ops[i].time \in 1..Len(J)
  /\ Remembers(J, q, ops)

\* The row when p operations are left.
RowAfter(J, q, ops, p) ==
  IF p = Len(ops) THEN AsOfIn(J, Len(J))[q] ELSE AsOfIn(J, ops[p + 1].time - 1)[q]

\* No change of the collection falls between two operations on its stack.
LEMMA NoneBetween ==
  ASSUME NEW J, NEW T, NEW q, NEW ops, Recorded(J, T, q, ops),
         NEW l \in Nat, l = Len(ops), NEW N \in Nat, N = Len(J), NEW p \in 0..l,
         NEW a \in 0..N, T <= a, p # 0 => ops[p].time <= a,
         NEW b \in a..N, p # l => b < ops[p + 1].time
  PROVE  \A n \in (a + 1)..b : J[n].path # q
<1> SUFFICES ASSUME NEW n \in (a + 1)..b, J[n].path = q PROVE FALSE  OBVIOUS
<1>1. /\ J \in Seq(ChangeType) /\ T \in Nat
      /\ \A m \in 1..N : T < m => J[m].op \notin DirOps
      /\ DOMAIN ops = 1..l /\ \A i \in 1..l : ops[i].time \in 1..N
      /\ Remembers(J, q, ops) /\ DOMAIN J = 1..N
  BY LenProperties DEF Recorded
<1>2. \A m \in 1..N : T < m => Settled(J, m)
  <2> SUFFICES ASSUME NEW m \in 1..N, T < m PROVE Settled(J, m)  OBVIOUS
  <2>1. \A x \in m..N : x \in 1..N /\ T < x  BY <1>1
  <2> QED  BY <1>1, <2>1 DEF Settled
<1>3. n \in 1..N /\ T < n /\ a < n /\ n <= b  BY <1>1
<1>4. Settled(J, n)  BY <1>2, <1>3
<1>5. PICK i \in 1..l : ops[i].time = n  BY <1>1, <1>3, <1>4 DEF Remembers
<1>6. \A x, y \in 1..l : x < y /\ (Settled(J, ops[x].time) \/ Settled(J, ops[y].time)) =>
        ops[x].time < ops[y].time
  BY <1>1 DEF Remembers
<1>7. CASE i <= p
  <2>1. p \in 1..l /\ ops[p].time \in 1..N /\ ops[p].time <= a  BY <1>1, <1>7
  <2>2. i # p  BY <1>3, <1>5, <2>1
  <2>3. n < ops[p].time
    <3>1. i < p  BY <1>7, <2>2
    <3> QED  BY <1>4, <1>5, <1>6, <2>1, <3>1
  <2> QED  BY <1>3, <2>1, <2>3
<1>8. CASE p < i
  <2>1. p + 1 \in 1..l /\ p # l /\ b < ops[p + 1].time /\ ops[p + 1].time \in 1..N
    BY <1>1, <1>8
  <2>2. i # p + 1  BY <1>3, <1>5, <2>1
  <2>3. p + 1 < i  BY <1>8, <2>2
  <2>4. ops[p + 1].time < n  BY <1>4, <1>5, <1>6, <2>1, <2>3
  <2> QED  BY <1>3, <2>1, <2>4
<1> QED  BY <1>7, <1>8

\* An operation made after T takes the row before it to the row after it.
LEMMA OpRows ==
  ASSUME NEW J, NEW T, NEW q, NEW ops, Recorded(J, T, q, ops),
         NEW l \in Nat, l = Len(ops), NEW p \in 1..l, T < ops[p].time
  PROVE  /\ Explains(J, ops[p], RowAfter(J, q, ops, p - 1))
         /\ RowAfter(J, q, ops, p) = Taken(J, ops[p], RowAfter(J, q, ops, p - 1))
         /\ p # l => T < ops[p + 1].time
<1>0. J \in Seq(ChangeType) /\ T \in Nat  BY DEF Recorded
<1>1. PICK N \in Nat : N = Len(J)  BY <1>0, LenProperties
<1> DEFINE op == ops[p]
<1>2. /\ \A m \in 1..N : T < m => J[m].op \notin DirOps
      /\ DOMAIN ops = 1..l /\ \A i \in 1..l : ops[i].time \in 1..N /\ ops[i] \in OperationOn(Val)
      /\ Remembers(J, q, ops) /\ q \in DOMAIN AsOfIn(J, N)
  BY <1>1, LenProperties, ElementOfSeq DEF Recorded
<1>a. op.time \in 1..N /\ T < op.time /\ op \in OperationOn(Val)  BY <1>2
<1>b. PICK t \in 1..N : t = op.time  BY <1>a
<1>3. T < t /\ op \in OperationOn(Val)  BY <1>a, <1>b
<1>4. Settled(J, t)
  <2>1. \A x \in t..N : x \in 1..N /\ T < x  BY <1>0, <1>3
  <2> QED  BY <1>1, <1>2, <2>1 DEF Settled
<1>5. Noted(J, q, op)  BY <1>2, <1>4, <1>b DEF Remembers
<1> HIDE DEF op
<1>6. /\ \A n \in t..N : J[n].op \notin DirOps
      /\ t - 1 \in 0..N /\ (t - 1) + 1 = t /\ N \in (t - 1)..N /\ t \in (t - 1)..N /\ t \in 0..N
  BY <1>0, <1>2, <1>3
<1>7. q \in DOMAIN AsOfIn(J, t - 1) /\ q \in DOMAIN AsOfIn(J, t)
  <2>1. \A b \in (t - 1)..N : DOMAIN AsOfIn(J, b) = DOMAIN AsOfIn(J, t - 1)
    BY <1>0, <1>1, <1>6, SameDirs
  <2> QED  BY <1>2, <1>6, <2>1
<1>8. /\ Explains(J, op, AsOfIn(J, t - 1)[q])
      /\ AsOfIn(J, t)[q] = Taken(J, op, AsOfIn(J, t - 1)[q])
  BY <1>0, <1>1, <1>3, <1>5, <1>7, <1>b, Explained
<1>9. RowAfter(J, q, ops, p - 1) = AsOfIn(J, t - 1)[q]
  <2>1. p - 1 # Len(ops) /\ (p - 1) + 1 = p  OBVIOUS
  <2> QED  BY <1>b, <2>1 DEF RowAfter, op
<1>10. p # l => t < ops[p + 1].time
  <2> SUFFICES ASSUME p # l PROVE t < ops[p + 1].time  OBVIOUS
  <2>1. p + 1 \in 1..l /\ p < p + 1  OBVIOUS
  <2> QED  BY <1>2, <1>4, <1>b, <2>1 DEF Remembers, op
<1>11. RowAfter(J, q, ops, p) = AsOfIn(J, t)[q]
  <2> DEFINE b == IF p = l THEN N ELSE ops[p + 1].time - 1
  <2>1. b \in t..N /\ (p # l => b < ops[p + 1].time)
    <3>1. CASE p = l  BY <1>3, <3>1
    <3>2. CASE p # l
      <4>1. p + 1 \in 1..l  BY <3>2
      <4>2. ops[p + 1].time \in 1..N  BY <1>2, <4>1
      <4>3. t < ops[p + 1].time  BY <1>10, <3>2
      <4>4. ops[p + 1].time - 1 \in t..N /\ ops[p + 1].time - 1 < ops[p + 1].time
        BY <1>3, <4>2, <4>3
      <4> QED  BY <3>2, <4>4
    <3> QED  BY <3>1, <3>2
  <2>2. RowAfter(J, q, ops, p) = AsOfIn(J, b)[q]  BY <1>1 DEF RowAfter
  <2> HIDE DEF b
  <2>3. p \in 0..l /\ T <= t /\ ops[p].time <= t  BY <1>0, <1>3, <1>b DEF op
  <2>4. \A n \in (t + 1)..b : J[n].path # q
    BY <1>1, <1>6, <2>1, <2>3, NoneBetween
  <2>5. \A n \in (t + 1)..N : J[n].op \notin DirOps
    <3>1. \A n \in (t + 1)..N : n \in t..N  BY <1>3
    <3> QED  BY <1>6, <3>1
  <2>6. AsOfIn(J, b)[q] = AsOfIn(J, t)[q]
    BY <1>0, <1>1, <1>6, <1>7, <2>1, <2>4, <2>5, SameRow
  <2> QED  BY <2>2, <2>6
<1>12. p # l => T < ops[p + 1].time
  <2> SUFFICES ASSUME p # l PROVE T < ops[p + 1].time  OBVIOUS
  <2>1. p + 1 \in 1..l  OBVIOUS
  <2>2. ops[p + 1].time \in 1..N /\ t < ops[p + 1].time  BY <1>2, <1>10, <2>1
  <2> QED  BY <1>0, <1>3, <2>2
<1> QED  BY <1>8, <1>9, <1>11, <1>12 DEF op

\* The operations of a stack, from its top, as they are remembered once undone.
Flips(J, ops) == [i \in 1..Len(ops) |-> Flipped(J, ops[Len(ops) - i + 1])]

\* s is a turn of one of the loops, with p operations left.
Turns(J, q, ops, s, p) ==
  /\ s \in Turned(Val) /\ ~s.threw
  /\ Shows(s.tree, RowAfter(J, q, ops, p))
  /\ s.tree.ops = SubSeq(ops, 1, p)
  /\ s.tree.undone = SubSeq(Flips(J, ops), 1, Len(ops) - p)

\* A tree with other stacks.
Restacked(tree, ops, undone) == [tree EXCEPT !.ops = ops, !.undone = undone]

\* A row does not depend on the stacks.
LEMMA StacksAside ==
  ASSUME NEW tree \in TreeOf(Val), NEW a, NEW b, NEW row, Shows(tree, row),
         NEW new, new = Restacked(tree, a, b), new \in TreeOf(Val)
  PROVE  Shows(new, row) /\ new.ops = a /\ new.undone = b
<1>1. new.slots = tree.slots /\ new.ops = a /\ new.undone = b  BY DEF TreeOf, Restacked
<1>2. Distinct(new)  BY <1>1 DEF Distinct, Shows
<1>3. \A k : (Has(new, k) <=> Has(tree, k)) /\ ValueAt(new, k) = ValueAt(tree, k)
  BY <1>1, SameSlots
<1>4. RowOf(new) = RowOf(tree)  BY <1>3 DEF RowOf
<1> QED  BY <1>1, <1>2, <1>4 DEF Shows

\* They are a sequence, as long as the stack, in its opposite order.
FlipsIn(S, f, J, ops, l) ==
  /\ f \in Seq(S) /\ Len(f) = l
  /\ \A p \in 1..l : /\ l - p + 1 \in 1..l /\ l - (p - 1) = l - p + 1
                     /\ f[l - p + 1] = Flipped(J, ops[p])

\* They are indeed.
LEMMA FlipsAre ==
  ASSUME NEW J, NEW ops, NEW l \in Nat, l = Len(ops)
  PROVE  \E S : FlipsIn(S, Flips(J, ops), J, ops, l)
<1> DEFINE f == Flips(J, ops)
           S == {f[i] : i \in 1..l}
<1>1. f = [i \in 1..l |-> Flipped(J, ops[l - i + 1])]  BY DEF Flips
<1>2. \A p \in 1..l : /\ l - p + 1 \in 1..l /\ l - (p - 1) = l - p + 1
                      /\ l - (l - p + 1) + 1 = p
  OBVIOUS
<1> HIDE DEF f
<1>3. f \in [1..l -> S]  BY <1>1
<1>4. f \in Seq(S) /\ Len(f) = l
  <2> HIDE DEF S
  <2> QED  BY <1>3
<1>5. \A p \in 1..l : f[l - p + 1] = Flipped(J, ops[p])
  <2> SUFFICES ASSUME NEW p \in 1..l PROVE f[l - p + 1] = Flipped(J, ops[p])  OBVIOUS
  <2>1. l - p + 1 \in 1..l  OBVIOUS
  <2>2. f[l - p + 1] = Flipped(J, ops[l - (l - p + 1) + 1])  BY <1>1, <2>1
  <2> QED  BY <1>2, <2>2
<1> HIDE DEF S
<1>6. FlipsIn(S, f, J, ops, l)  BY <1>2, <1>4, <1>5 DEF FlipsIn
<1> QED  BY <1>6 DEF f

\* One turn of revert_to.
LEMMA UndoTurns ==
  ASSUME NEW J, NEW T, NEW q, NEW ops, Recorded(J, T, q, ops),
         NEW l \in Nat, l = Len(ops), NEW p \in 0..l, NEW s, Turns(J, q, ops, s, p)
  PROVE  /\ p # 0 /\ T < ops[p].time => Turns(J, q, ops, UndoTurn(3, s, T), p - 1)
         /\ ~(p # 0 /\ T < ops[p].time) => UndoTurn(3, s, T) = s
<1> DEFINE new == UndoTurn(3, s, T)
           op == ops[p]
           before == RowAfter(J, q, ops, p - 1)
<1>1. /\ ops \in Seq(OperationOn(Val)) /\ T \in Nat
      /\ \A i \in 1..l : ops[i].time \in Nat
  <2>1. /\ ops \in Seq(OperationOn(Val)) /\ T \in Nat
        /\ \A i \in 1..l : ops[i].time \in 1..Len(J)
    BY DEF Recorded
  <2> QED  BY <2>1
<1>2. p # 0 => /\ p \in 1..l /\ s.tree.ops # <<>> /\ Last(s.tree.ops) = op
               /\ Front(s.tree.ops) = SubSeq(ops, 1, p - 1)
  <2> SUFFICES ASSUME p # 0
               PROVE  /\ p \in 1..l /\ s.tree.ops # <<>> /\ Last(s.tree.ops) = op
                      /\ Front(s.tree.ops) = SubSeq(ops, 1, p - 1)
    OBVIOUS
  <2>1. p \in 1..l  OBVIOUS
  <2>2. /\ SubSeq(ops, 1, p) # <<>> /\ Last(SubSeq(ops, 1, p)) = ops[p]
        /\ Front(SubSeq(ops, 1, p)) = SubSeq(ops, 1, p - 1)
    BY <1>1, <2>1, Stacks
  <2> QED  BY <2>1, <2>2 DEF Turns
<1>3. p = 0 => s.tree.ops = <<>>
  <2> SUFFICES ASSUME p = 0 PROVE s.tree.ops = <<>>  OBVIOUS
  <2>1. s.tree.ops = SubSeq(ops, 1, 0)  BY DEF Turns
  <2>2. SubSeq(ops, 1, 0) = <<>>  BY <1>1
  <2> QED  BY <2>1, <2>2
<1>4. ~s.threw /\ s \in Turned(Val)  BY DEF Turns
<1>5. CASE ~(p # 0 /\ T < ops[p].time)
  <2>1. p # 0 => ~(op.time > T)
    <3>1. p # 0 => p \in 1..l  OBVIOUS
    <3> QED  BY <1>1, <1>5, <3>1
  <2>2. ~MustUndo(s.tree, T)
    <3> HIDE DEF op
    <3> QED  BY <1>2, <1>3, <2>1 DEF MustUndo
  <2>3. new = s  BY <2>2 DEF UndoTurn
  <2> QED  BY <1>5, <2>3
<1>6. CASE p # 0 /\ T < ops[p].time
  <2>1. p \in 1..l /\ op.time > T  BY <1>1, <1>6
  <2>2. /\ Explains(J, op, before)
        /\ RowAfter(J, q, ops, p) = Taken(J, op, before)
    BY <1>6, <2>1, OpRows
  <2>3. Shows(s.tree, RowAfter(J, q, ops, p)) /\ s.tree \in TreeOf(Val)  BY DEF Turns, Shows
  <2> DEFINE u == Undo(3, s.tree, op)
  <2> HIDE DEF op, before
  <2>4. /\ ~UndoThrows(s.tree, op)
        /\ Shows(u.tree, before) /\ u.tree.ops = s.tree.ops /\ u.tree.undone = s.tree.undone
        /\ u.op = Flipped(J, op)
    <3> DEFINE row == RowAfter(J, q, ops, p)
    <3>1. Shows(s.tree, row) /\ row = Taken(J, op, before)  BY <2>2, <2>3
    <3> HIDE DEF row
    <3> HIDE DEF u
    <3>2. /\ ~UndoThrows(s.tree, op)
          /\ Shows(Undo(3, s.tree, op).tree, before)
          /\ Undo(3, s.tree, op).tree.ops = s.tree.ops
          /\ Undo(3, s.tree, op).tree.undone = s.tree.undone
          /\ Undo(3, s.tree, op).op = Flipped(J, op)
      BY <2>2, <3>1, UndoIs
    <3> QED  BY <3>2 DEF u
  <2>5. MustUndo(s.tree, T)  BY <1>2, <1>6, <2>1 DEF MustUndo
  <2>6. new = [s EXCEPT !.tree = [u.tree EXCEPT !.ops = Front(@), !.undone = Append(@, u.op)]]
    BY <1>2, <1>4, <1>6, <2>4, <2>5 DEF UndoTurn
  <2> DEFINE moved == [u.tree EXCEPT !.ops = Front(u.tree.ops), !.undone = Append(u.tree.undone, u.op)]
  <2> HIDE DEF u
  <2>7. new \in Turned(Val)
    <3>1. Holdable(3, Val)  BY ContentsHoldable, TreesAreHeld
    <3> QED  BY <1>4, <3>1, UndoTurnTyped
  <2>8. u.tree \in TreeOf(Val)  BY <2>4 DEF Shows
  <2>9. new = [s EXCEPT !.tree = moved]
    <3>1. moved = [u.tree EXCEPT !.ops = Front(@), !.undone = Append(@, u.op)]
      BY <2>8 DEF TreeOf
    <3> QED  BY <2>6, <3>1
  <2> HIDE DEF new
  <2>10. new.tree = moved /\ ~new.threw /\ moved \in TreeOf(Val)
    <3> HIDE DEF moved
    <3> QED  BY <1>4, <2>7, <2>9 DEF Turned
  <2>11. /\ Shows(moved, before) /\ moved.ops = Front(u.tree.ops)
         /\ moved.undone = Append(u.tree.undone, u.op)
    <3> DEFINE a == Front(u.tree.ops)
               b == Append(u.tree.undone, u.op)
    <3>1. moved = Restacked(u.tree, a, b)  BY DEF Restacked
    <3> HIDE DEF a, b, moved
    <3>2. Shows(moved, before) /\ moved.ops = a /\ moved.undone = b
      BY <2>4, <2>8, <2>10, <3>1, StacksAside
    <3> QED  BY <3>2 DEF a, b
  <2> HIDE DEF moved
  <2>12. new.tree.ops = SubSeq(ops, 1, p - 1)  BY <1>2, <1>6, <2>4, <2>10, <2>11
  <2>13. new.tree.undone = SubSeq(Flips(J, ops), 1, l - (p - 1))
    <3> DEFINE f == Flips(J, ops)
    <3>0. PICK S : FlipsIn(S, f, J, ops, l)  BY FlipsAre
    <3>1. /\ f \in Seq(S) /\ Len(f) = l
          /\ \A n \in 1..l : /\ l - n + 1 \in 1..l /\ l - (n - 1) = l - n + 1
                             /\ f[l - n + 1] = Flipped(J, ops[n])
      BY <3>0 DEF FlipsIn
    <3>2. /\ l - p + 1 \in 1..l /\ l - (p - 1) = l - p + 1 /\ (l - p + 1) - 1 = l - p
          /\ f[l - p + 1] = Flipped(J, op)
      BY <2>1, <3>1 DEF op
    <3> HIDE DEF f
    <3>3. Append(SubSeq(f, 1, (l - p + 1) - 1), f[l - p + 1]) = SubSeq(f, 1, l - p + 1)
      BY <3>1, <3>2, Stacks
    <3>4. s.tree.undone = SubSeq(f, 1, l - p)  BY DEF Turns, f
    <3> QED  BY <2>4, <2>10, <2>11, <3>2, <3>3, <3>4 DEF f
  <2>14. Turns(J, q, ops, new, p - 1)
    BY <2>7, <2>10, <2>11, <2>12, <2>13 DEF Turns, before
  <2> QED  BY <1>6, <2>14 DEF new
<1> QED  BY <1>5, <1>6

\* One turn of redo_all.
LEMMA RedoTurns ==
  ASSUME NEW J, NEW T, NEW q, NEW ops, Recorded(J, T, q, ops),
         NEW l \in Nat, l = Len(ops), NEW p \in 1..l, T < ops[p].time,
         NEW s, Turns(J, q, ops, s, p - 1)
  PROVE  Turns(J, q, ops, RedoTurn(3, s), p)
<1> DEFINE new == RedoTurn(3, s)
           op == ops[p]
           before == RowAfter(J, q, ops, p - 1)
           f == Flips(J, ops)
<1>1. ops \in Seq(OperationOn(Val))  BY DEF Recorded
<1>2. ~s.threw /\ s \in Turned(Val)  BY DEF Turns
<1>0. PICK S : FlipsIn(S, f, J, ops, l)  BY FlipsAre
<1>3. /\ f \in Seq(S) /\ Len(f) = l
      /\ \A n \in 1..l : /\ l - n + 1 \in 1..l /\ l - (n - 1) = l - n + 1
                         /\ f[l - n + 1] = Flipped(J, ops[n])
  BY <1>0 DEF FlipsIn
<1>4. /\ l - p + 1 \in 1..l /\ l - (p - 1) = l - p + 1 /\ (l - p + 1) - 1 = l - p
      /\ f[l - p + 1] = Flipped(J, op)
  BY <1>3
<1>5. s.tree.undone = SubSeq(f, 1, l - p + 1)  BY <1>4 DEF Turns
<1> HIDE DEF f
<1>6. /\ s.tree.undone # <<>> /\ Last(s.tree.undone) = Flipped(J, op)
      /\ Front(s.tree.undone) = SubSeq(f, 1, l - p)
  <2>1. /\ SubSeq(f, 1, l - p + 1) # <<>> /\ Last(SubSeq(f, 1, l - p + 1)) = f[l - p + 1]
        /\ Front(SubSeq(f, 1, l - p + 1)) = SubSeq(f, 1, (l - p + 1) - 1)
    BY <1>3, <1>4, Stacks
  <2> QED  BY <1>4, <1>5, <2>1
<1>7. /\ Explains(J, op, before)
      /\ RowAfter(J, q, ops, p) = Taken(J, op, before)
  BY OpRows
<1>8. Shows(s.tree, before) /\ s.tree \in TreeOf(Val)  BY DEF Turns, Shows
<1> DEFINE r == Redo(3, s.tree, Flipped(J, op))
<1> HIDE DEF op, before
<1>9. /\ ~RedoThrows(s.tree, Flipped(J, op))
      /\ Shows(r.tree, Taken(J, op, before))
      /\ r.tree.ops = s.tree.ops /\ r.tree.undone = s.tree.undone
      /\ r.op = op
  <2> DEFINE row == RowAfter(J, q, ops, p)
  <2>0. row = Taken(J, op, before)  BY <1>7
  <2> HIDE DEF r, row
  <2>1. /\ ~RedoThrows(s.tree, Flipped(J, op))
        /\ Shows(Redo(3, s.tree, Flipped(J, op)).tree, row)
        /\ Redo(3, s.tree, Flipped(J, op)).tree.ops = s.tree.ops
        /\ Redo(3, s.tree, Flipped(J, op)).tree.undone = s.tree.undone
        /\ Redo(3, s.tree, Flipped(J, op)).op = op
    BY <1>7, <1>8, <2>0, RedoIs
  <2> QED  BY <2>0, <2>1 DEF r
<1>10. new = [s EXCEPT !.tree = [r.tree EXCEPT !.undone = Front(@), !.ops = Append(@, r.op)]]
  BY <1>2, <1>6, <1>9 DEF RedoTurn
<1> DEFINE moved == [r.tree EXCEPT !.ops = Append(r.tree.ops, r.op), !.undone = Front(r.tree.undone)]
<1> HIDE DEF r
<1>11. new \in Turned(Val)
  <2>1. Holdable(3, Val)  BY ContentsHoldable, TreesAreHeld
  <2> QED  BY <1>2, <2>1, RedoTurnTyped
<1>12. r.tree \in TreeOf(Val)  BY <1>9 DEF Shows
<1>13. new = [s EXCEPT !.tree = moved]
  <2>1. moved = [r.tree EXCEPT !.undone = Front(@), !.ops = Append(@, r.op)]
    BY <1>12 DEF TreeOf
  <2> QED  BY <1>10, <2>1
<1> HIDE DEF new
<1>14. new.tree = moved /\ ~new.threw /\ moved \in TreeOf(Val)
  <2> HIDE DEF moved
  <2> QED  BY <1>2, <1>11, <1>13 DEF Turned
<1>15. /\ Shows(moved, RowAfter(J, q, ops, p)) /\ moved.ops = Append(r.tree.ops, r.op)
       /\ moved.undone = Front(r.tree.undone)
  <2> DEFINE a == Append(r.tree.ops, r.op)
             b == Front(r.tree.undone)
  <2>1. moved = Restacked(r.tree, a, b)  BY DEF Restacked
  <2>2. Shows(r.tree, RowAfter(J, q, ops, p))  BY <1>7, <1>9
  <2> HIDE DEF a, b, moved
  <2>3. Shows(moved, RowAfter(J, q, ops, p)) /\ moved.ops = a /\ moved.undone = b
    BY <1>12, <1>14, <2>1, <2>2, StacksAside
  <2> QED  BY <2>3 DEF a, b
<1> HIDE DEF moved
<1>16. new.tree.ops = SubSeq(ops, 1, p)
  <2>1. Append(SubSeq(ops, 1, p - 1), op) = SubSeq(ops, 1, p)  BY <1>1, Stacks DEF op
  <2>2. s.tree.ops = SubSeq(ops, 1, p - 1)  BY DEF Turns
  <2> QED  BY <1>9, <1>14, <1>15, <2>1, <2>2
<1>17. new.tree.undone = SubSeq(f, 1, l - p)  BY <1>6, <1>9, <1>14, <1>15
<1>18. Turns(J, q, ops, new, p)  BY <1>11, <1>14, <1>15, <1>16, <1>17 DEF Turns, f
<1> QED  BY <1>18 DEF new

\* revert_to goes back to the last operation that is not after T.
LEMMA RevertGoes ==
  ASSUME NEW J, NEW T, NEW q, NEW c, Recorded(J, T, q, c.ops),
         NEW l \in Nat, l = Len(c.ops), Shows(c, AsOfIn(J, Len(J))[q]), c.undone = <<>>
  PROVE  \E p \in 0..l : /\ Turns(J, q, c.ops, RevertTo(3, c, T), p)
                         /\ p # 0 => ~(T < c.ops[p].time)
                         /\ p # l => T < c.ops[p + 1].time
<1> DEFINE ops == c.ops
           Stopped(s, p, n) == /\ Turns(J, q, ops, s, p)
                               /\ p = l - n \/ (p # 0 => ~(T < ops[p].time))
                               /\ p # l => T < ops[p + 1].time
<1>1. c \in TreeOf(Val) /\ Holdable(3, Val)  BY ContentsHoldable, TreesAreHeld DEF Shows
<1>2. PICK f : UndoLoop(f, 3, c, T)  BY <1>1, RevertLoops
<1>3. /\ f[0] = [tree |-> c, threw |-> FALSE]
      /\ \A n \in 1..l : f[n] = UndoTurn(3, f[n - 1], T)
      /\ RevertTo(3, c, T) = f[l]
  BY <1>2 DEF UndoLoop
<1> DEFINE Good == {n \in 0..l : \E p \in 0..l : Stopped(f[n], p, n)}
<1>4. 0 \in Good
  <2>1. Turns(J, q, ops, f[0], l)
    <3>1. f[0] \in Turned(Val) /\ f[0].tree = c /\ ~f[0].threw  BY <1>1, <1>3 DEF Turned
    <3>2. RowAfter(J, q, ops, l) = AsOfIn(J, Len(J))[q]  BY DEF RowAfter
    <3>3. SubSeq(ops, 1, l) = ops
      <4>1. ops \in Seq(OperationOn(Val)) /\ l = Len(ops)  BY DEF Recorded
      <4> HIDE DEF ops
      <4> QED  BY <4>1
    <3>4. SubSeq(Flips(J, ops), 1, Len(ops) - l) = <<>>
      <4>1. PICK S : FlipsIn(S, Flips(J, ops), J, ops, l)  BY FlipsAre
      <4>2. Flips(J, ops) \in Seq(S)  BY <4>1 DEF FlipsIn
      <4>3. Len(ops) - l = 0  OBVIOUS
      <4> QED  BY <4>2, <4>3
    <3> QED  BY <3>1, <3>2, <3>3, <3>4 DEF Turns
  <2>2. l \in 0..l /\ 0 \in 0..l /\ l = l - 0  OBVIOUS
  <2> QED  BY <2>1, <2>2
<1>5. ASSUME NEW n \in 1..l, n - 1 \in Good PROVE n \in Good
  <2>1. PICK p \in 0..l : Stopped(f[n - 1], p, n - 1)  BY <1>5
  <2>2. f[n] = UndoTurn(3, f[n - 1], T) /\ n \in 0..l  BY <1>3
  <2>3. Turns(J, q, ops, f[n - 1], p)  BY <2>1
  <2> HIDE DEF ops
  <2>4. /\ p # 0 /\ T < ops[p].time => Turns(J, q, ops, UndoTurn(3, f[n - 1], T), p - 1)
        /\ ~(p # 0 /\ T < ops[p].time) => UndoTurn(3, f[n - 1], T) = f[n - 1]
    BY <2>3, UndoTurns DEF ops
  <2>5. CASE p # 0 /\ T < ops[p].time
    <3>1. p - 1 \in 0..l /\ p - 1 = l - n /\ p - 1 # l /\ (p - 1) + 1 = p
      <4>1. p = l - (n - 1)  BY <2>1, <2>5
      <4> QED  BY <2>5, <4>1
    <3>2. Stopped(f[n], p - 1, n)  BY <2>2, <2>4, <2>5, <3>1
    <3> HIDE DEF Stopped
    <3> QED  BY <2>2, <3>1, <3>2
  <2>6. CASE ~(p # 0 /\ T < ops[p].time)
    <3>1. Stopped(f[n], p, n)  BY <2>1, <2>2, <2>4, <2>6
    <3> HIDE DEF Stopped
    <3> QED  BY <2>2, <3>1
  <2> QED  BY <2>5, <2>6
<1>6. l \in Good
  <2> HIDE DEF Good
  <2>1. \A n \in 0..l : n \in Good  BY <1>4, <1>5, UpTo
  <2>2. l \in 0..l  OBVIOUS
  <2> QED  BY <2>1, <2>2
<1>7. PICK p \in 0..l : Stopped(f[l], p, l)  BY <1>6
<1>8. p = l - l => p = 0  OBVIOUS
<1> QED  BY <1>3, <1>7, <1>8

\* The row there is the one of T.
LEMMA RowThere ==
  ASSUME NEW J, NEW T, NEW q, NEW ops, Recorded(J, T, q, ops),
         NEW l \in Nat, l = Len(ops), NEW p \in 0..l,
         p # 0 => ~(T < ops[p].time), p # l => T < ops[p + 1].time,
         NEW n, n = IF T < Len(J) THEN T ELSE Len(J)
  PROVE  RowAfter(J, q, ops, p) = AsOfIn(J, n)[q] /\ q \in DOMAIN AsOfIn(J, n)
<1>0. J \in Seq(ChangeType) /\ T \in Nat  BY DEF Recorded
<1>1. PICK N \in Nat : N = Len(J)  BY <1>0, LenProperties
<1>2. /\ \A m \in 1..N : T < m => J[m].op \notin DirOps
      /\ \A i \in 1..l : ops[i].time \in 1..N
      /\ q \in DOMAIN AsOfIn(J, N)
  BY <1>1 DEF Recorded
<1>3. n \in 0..N /\ (n = T \/ n = N) /\ n <= T /\ (\A m \in (n + 1)..N : m \in 1..N /\ T < m)
  BY <1>0, <1>1
<1>4. \A m \in (n + 1)..N : J[m].op \notin DirOps  BY <1>2, <1>3
<1>5. q \in DOMAIN AsOfIn(J, n)
  <2>1. N \in n..N  BY <1>3
  <2> QED  BY <1>0, <1>1, <1>2, <1>3, <1>4, <2>1, SameDirs
<1>6. CASE n = N
  <2>1. p = l
    <3> SUFFICES ASSUME p # l PROVE FALSE  OBVIOUS
    <3>1. p + 1 \in 1..l  OBVIOUS
    <3>2. ops[p + 1].time \in 1..N  BY <1>2, <3>1
    <3> QED  BY <1>0, <1>3, <1>6, <3>2
  <2> QED  BY <1>1, <1>5, <1>6, <2>1 DEF RowAfter
<1>7. CASE n # N
  <2> DEFINE b == IF p = l THEN N ELSE ops[p + 1].time - 1
  <2>1. n = T  BY <1>3, <1>7
  <2>2. b \in n..N /\ (p # l => b < ops[p + 1].time)
    <3>1. CASE p = l  BY <1>3, <3>1
    <3>2. CASE p # l
      <4>1. p + 1 \in 1..l  BY <3>2
      <4>2. ops[p + 1].time \in 1..N /\ T < ops[p + 1].time  BY <1>2, <3>2, <4>1
      <4>3. ops[p + 1].time - 1 \in n..N /\ ops[p + 1].time - 1 < ops[p + 1].time
        BY <1>0, <2>1, <4>2
      <4> QED  BY <3>2, <4>3
    <3> QED  BY <3>1, <3>2
  <2>3. RowAfter(J, q, ops, p) = AsOfIn(J, b)[q]  BY <1>1 DEF RowAfter
  <2>4. p # 0 => ops[p].time <= n
    <3> SUFFICES ASSUME p # 0 PROVE ops[p].time <= n  OBVIOUS
    <3>1. p \in 1..l  OBVIOUS
    <3>2. ops[p].time \in 1..N /\ ~(T < ops[p].time)  BY <1>2, <3>1
    <3> QED  BY <1>0, <2>1, <3>2
  <2> HIDE DEF b
  <2>5. T <= n  BY <1>0, <2>1
  <2>6. \A m \in (n + 1)..b : J[m].path # q
    BY <1>1, <1>3, <2>2, <2>4, <2>5, NoneBetween
  <2>7. AsOfIn(J, b)[q] = AsOfIn(J, n)[q]
    BY <1>0, <1>1, <1>3, <1>4, <1>5, <2>2, <2>6, SameRow
  <2> QED  BY <1>5, <2>3, <2>7
<1> QED  BY <1>6, <1>7

\* redo_all brings back all operations, and the row of now.
LEMMA RedoGoes ==
  ASSUME NEW J, NEW T, NEW q, NEW ops, Recorded(J, T, q, ops),
         NEW l \in Nat, l = Len(ops), NEW p \in 0..l, p # l => T < ops[p + 1].time,
         NEW s, Turns(J, q, ops, s, p)
  PROVE  /\ ~RedoAll(3, s.tree).threw
         /\ Shows(RedoAll(3, s.tree).tree, AsOfIn(J, Len(J))[q])
         /\ RedoAll(3, s.tree).tree.ops = ops /\ RedoAll(3, s.tree).tree.undone = <<>>
<1> DEFINE tree == s.tree
           N == l - p
<1>1. tree \in TreeOf(Val) /\ Holdable(3, Val)  BY ContentsHoldable, TreesAreHeld DEF Turns, Shows
<1>2. PICK f : RedoLoop(f, 3, tree)  BY <1>1, RedoAllLoops
<1>3. PICK S : FlipsIn(S, Flips(J, ops), J, ops, l)  BY FlipsAre
<1>4. Flips(J, ops) \in Seq(S) /\ Len(Flips(J, ops)) = l  BY <1>3 DEF FlipsIn
<1>5. N \in Nat /\ N \in 0..l /\ Len(tree.undone) = N
  <2>1. tree.undone = SubSeq(Flips(J, ops), 1, N)  BY DEF Turns
  <2>2. N \in 0..l  OBVIOUS
  <2>3. \A n \in 0..l : Len(SubSeq(Flips(J, ops), 1, n)) = n  BY <1>4
  <2> QED  BY <2>1, <2>2, <2>3
<1>6. /\ f[0] = [tree |-> tree, threw |-> FALSE]
      /\ \A n \in 1..N : f[n] = RedoTurn(3, f[n - 1])
      /\ RedoAll(3, tree) = f[N]
  BY <1>2, <1>5 DEF RedoLoop
<1> DEFINE Fine(n, m) == /\ Turns(J, q, ops, f[n], m)
                         /\ m # l => T < ops[m + 1].time
           Good == {n \in 0..N : Fine(n, p + n)}
<1>7. 0 \in Good
  <2>1. f[0] = s
    <3>1. s \in Turned(Val) /\ ~s.threw  BY DEF Turns
    <3>2. s = [tree |-> tree, threw |-> FALSE]  BY <3>1 DEF Turned
    <3> QED  BY <1>6, <3>2
  <2>2. p + 0 = p /\ 0 \in 0..N  BY <1>5
  <2>3. Fine(0, p)  BY <2>1
  <2> HIDE DEF Fine
  <2> QED  BY <2>2, <2>3
<1>8. ASSUME NEW n \in 1..N, n - 1 \in Good PROVE n \in Good
  <2> DEFINE m == p + n
  <2>1. n \in 0..N /\ m \in 1..l /\ p + (n - 1) = m - 1 /\ m - 1 # l /\ (m - 1) + 1 = m
    BY <1>5
  <2>2. Fine(n - 1, m - 1)
    <3> HIDE DEF Fine
    <3>1. Fine(n - 1, p + (n - 1))  BY <1>8
    <3> HIDE DEF m
    <3> QED  BY <2>1, <3>1, Zenon
  <2> HIDE DEF m
  <2>3. Turns(J, q, ops, f[n - 1], m - 1)  BY <2>2
  <2>4. T < ops[m].time
    <3>1. T < ops[(m - 1) + 1].time  BY <2>1, <2>2
    <3> QED  BY <2>1, <3>1, Zenon
  <2>5. f[n] = RedoTurn(3, f[n - 1])  BY <1>6
  <2>6. Turns(J, q, ops, f[n], m)  BY <2>1, <2>3, <2>4, <2>5, RedoTurns
  <2>7. m # l => T < ops[m + 1].time  BY <2>1, <2>4, OpRows
  <2>8. Fine(n, m)  BY <2>6, <2>7
  <2> HIDE DEF Fine
  <2> QED  BY <2>1, <2>8 DEF m
<1> HIDE DEF Good, N
<1>9. \A n \in 0..N : n \in Good  BY <1>5, <1>7, <1>8, UpTo
<1>10. N \in Good
  <2>1. N \in 0..N  BY <1>5
  <2> QED  BY <1>9, <2>1
<1>11. Turns(J, q, ops, f[N], l)
  <2>1. p + N = l  BY DEF N
  <2> HIDE DEF Fine
  <2>2. Fine(N, p + N)  BY <1>10 DEF Good
  <2>3. Fine(N, l)  BY <2>1, <2>2, Zenon
  <2> QED  BY <2>3 DEF Fine
<1>12. RowAfter(J, q, ops, l) = AsOfIn(J, Len(J))[q]  BY DEF RowAfter
<1>13. SubSeq(ops, 1, l) = ops
  <2>1. ops \in Seq(OperationOn(Val))  BY DEF Recorded
  <2> QED  BY <2>1
<1>14. SubSeq(Flips(J, ops), 1, Len(ops) - l) = <<>>
  <2>1. Len(ops) - l = 0  OBVIOUS
  <2> QED  BY <1>4, <2>1
<1> HIDE DEF tree
<1> QED  BY <1>6, <1>11, <1>12, <1>13, <1>14 DEF Turns, tree

(***************************************************************************)
(* A read of the past.                                                     *)
(***************************************************************************)

\* What a row answers for a key.
Entry(row, k) == IF row[k] # NoVal THEN row[k] ELSE "missing"

\* The collection after a read, and the answer for the row of then.
ReadRow(c, found, now, then, k) ==
  /\ Shows(found.tree, now) /\ found.tree.ops = c.ops /\ found.tree.undone = <<>>
  /\ found.answer = Entry(then, k) /\ found.answer \notin {"threw", "terminated"}
  /\ found \in Found(Val)

\* In a collection: back to the row of T, its value, and forth.
LEMMA CollectionRead ==
  ASSUME NEW J, NEW T, NEW q, NEW c, Recorded(J, T, q, c.ops), Shows(c, AsOfIn(J, Len(J))[q]),
         c.undone = <<>>, NEW k \in Key, NEW n, n = IF T < Len(J) THEN T ELSE Len(J)
  PROVE  /\ ReadRow(c, ReadCollection(c, k, T), AsOfIn(J, Len(J))[q], AsOfIn(J, n)[q], k)
         /\ q \in DOMAIN AsOfIn(J, n)
<1> DEFINE ops == c.ops
           s == RevertTo(3, c, T)
           t == s.tree
           found == [tree |-> t, answer |-> IF Has(t, k) THEN ValueAt(t, k) ELSE "missing"]
           redone == RedoAll(3, t)
<1>1. ops \in Seq(OperationOn(Val))  BY DEF Recorded
<1>2. PICK l \in Nat : l = Len(ops)  BY <1>1, LenProperties
<1>3. PICK p \in 0..l : /\ Turns(J, q, ops, s, p)
                        /\ p # 0 => ~(T < ops[p].time)
                        /\ p # l => T < ops[p + 1].time
  BY <1>2, RevertGoes
<1>4. RowAfter(J, q, ops, p) = AsOfIn(J, n)[q] /\ q \in DOMAIN AsOfIn(J, n)
  BY <1>2, <1>3, RowThere
<1>5. /\ ~redone.threw
      /\ Shows(redone.tree, AsOfIn(J, Len(J))[q])
      /\ redone.tree.ops = ops /\ redone.tree.undone = <<>>
  BY <1>2, <1>3, RedoGoes
<1>6. ~s.threw /\ Shows(t, AsOfIn(J, n)[q])  BY <1>3, <1>4 DEF Turns
<1>7. ReadCollection(c, k, T) = Ended(3, s, found)  BY DEF ReadCollection
<1> HIDE DEF s, redone
<1>8. t \in TreeOf(Val) /\ RowOf(t) = AsOfIn(J, n)[q]  BY <1>6 DEF Shows
<1>9. /\ Has(t, k) <=> AsOfIn(J, n)[q][k] # NoVal
      /\ Has(t, k) => ValueAt(t, k) = AsOfIn(J, n)[q][k] /\ ValueAt(t, k) \in Val
  BY <1>8, RowMeans
<1> HIDE DEF t
<1>10. found.answer = Entry(AsOfIn(J, n)[q], k) /\ found.answer \in Val \cup {"missing"}
  BY <1>9 DEF Entry
<1>11. found.answer \notin {"threw", "terminated"}  BY <1>10, AnswersAssumption
<1>12. Ended(3, s, found) = [tree |-> redone.tree, answer |-> found.answer]
  <2>1. found.tree = t  OBVIOUS
  <2> HIDE DEF found
  <2> QED  BY <1>5, <1>6, <1>11, <2>1 DEF Ended, redone
<1> HIDE DEF found
<1>13. redone.tree \in TreeOf(Val)  BY <1>5 DEF Shows
<1> QED  BY <1>4, <1>5, <1>7, <1>10, <1>11, <1>12, <1>13 DEF ReadRow, Found

\* Nothing was done in it after T, and nothing is undone.
Quiet(tree, T) == tree.undone = <<>> /\ \A i \in 1..Len(tree.ops) : ~(tree.ops[i].time > T)

\* Such a tree is read as it is.
LEMMA QuietStays ==
  ASSUME NEW level, NEW V, Holdable(level, V), NEW tree \in TreeOf(V), NEW T
  PROVE  /\ Quiet(tree, T) => RevertTo(level, tree, T) = [tree |-> tree, threw |-> FALSE]
         /\ tree.undone = <<>> => RedoAll(level, tree) = [tree |-> tree, threw |-> FALSE]
<1> DEFINE b == [tree |-> tree, threw |-> FALSE]
<1>1. ASSUME Quiet(tree, T) PROVE RevertTo(level, tree, T) = b
  <2>1. PICK f : UndoLoop(f, level, tree, T)  BY RevertLoops
  <2>2. PICK l \in Nat : l = Len(tree.ops)  BY LenProperties DEF TreeOf
  <2>3. /\ f[0] = b
        /\ \A n \in 1..l : f[n] = UndoTurn(level, f[n - 1], T)
        /\ RevertTo(level, tree, T) = f[l]
    BY <2>1, <2>2 DEF UndoLoop
  <2> DEFINE Good == {n \in 0..l : f[n] = b}
  <2>4. 0 \in Good  BY <2>3
  <2>5. ~MustUndo(tree, T)
    <3> SUFFICES ASSUME tree.ops # <<>> PROVE ~(Last(tree.ops).time > T)  BY DEF MustUndo
    <3>1. l # 0
      <4>1. tree.ops \in Seq(OperationOn(V))  BY DEF TreeOf
      <4> QED  BY <2>2, <4>1
    <3>2. Last(tree.ops) = tree.ops[l]  BY <2>2 DEF Last
    <3>3. l \in 1..l  BY <3>1
    <3> QED  BY <1>1, <2>2, <3>2, <3>3 DEF Quiet
  <2>6. UndoTurn(level, b, T) = b  BY <2>5 DEF UndoTurn
  <2>7. ASSUME NEW n \in 1..l, n - 1 \in Good PROVE n \in Good
    <3>1. n \in 0..l /\ f[n - 1] = b  BY <2>7
    <3> QED  BY <2>3, <2>6, <3>1
  <2> HIDE DEF Good
  <2>8. \A n \in 0..l : n \in Good  BY <2>4, <2>7, UpTo
  <2>9. l \in Good
    <3>1. l \in 0..l  OBVIOUS
    <3> QED  BY <2>8, <3>1
  <2> QED  BY <2>3, <2>9 DEF Good
<1>2. ASSUME tree.undone = <<>> PROVE RedoAll(level, tree) = b
  <2>1. PICK f : RedoLoop(f, level, tree)  BY RedoAllLoops
  <2>2. Len(tree.undone) = 0  BY <1>2
  <2> QED  BY <2>1, <2>2 DEF RedoLoop
<1> QED  BY <1>1, <1>2

\* What a quiet directory leaves of a read below it.
LEMMA Through ==
  ASSUME NEW level \in 0..2, NEW tree \in TreeOf(Contents(level)), NEW T, Quiet(tree, T),
         NEW k, NEW reverted, reverted = RevertTo(level, tree, T), NEW found,
         Has(tree, k) => found \in Found(Contents(level + 1)) /\ found.answer # "terminated"
  PROVE  /\ reverted.tree = tree
         /\ Has(tree, k) => Ended(level, reverted, Within(tree, k, found)) =
                              [tree |-> SetValueAt(tree, k, found.tree), answer |-> found.answer]
         /\ ~Has(tree, k) => Ended(level, reverted, Within(tree, k, found)) =
                               [tree |-> tree, answer |-> "missing"]
<1>1. Holdable(level, Contents(level)) /\ Contents(level) = TreeOf(Contents(level + 1))
  <2>1. level \in 0..3 /\ (level = 0 \/ level = 1 \/ level = 2)  OBVIOUS
  <2> QED  BY <2>1, ContentsHoldable, TreesAreHeld
<1>2. reverted = [tree |-> tree, threw |-> FALSE] /\ tree.undone = <<>>
  BY <1>1, QuietStays DEF Quiet
<1>3. ASSUME NEW new \in TreeOf(Contents(level)), new.undone = <<>>, NEW a, a # "terminated",
             NEW w, w = [tree |-> new, answer |-> a]
      PROVE  Ended(level, reverted, w) = [tree |-> new, answer |-> a]
  <2>1. RedoAll(level, w.tree) = [tree |-> new, threw |-> FALSE]  BY <1>1, <1>3, QuietStays
  <2>2. ~reverted.threw /\ w.answer = a  BY <1>2, <1>3
  <2> QED  BY <1>3, <2>1, <2>2 DEF Ended
<1>4. CASE Has(tree, k)
  <2> DEFINE new == SetValueAt(tree, k, found.tree)
  <2>1. found.tree \in Contents(level)  BY <1>1, <1>4 DEF Found
  <2>2. new \in TreeOf(Contents(level)) /\ new.undone = <<>>
    <3>1. new \in TreeOf(Contents(level))  BY <1>4, <2>1, SetValue
    <3>2. new.undone = tree.undone  BY <1>4, <2>1, SetIs
    <3> QED  BY <1>2, <3>1, <3>2
  <2>3. Within(tree, k, found) = [tree |-> new, answer |-> found.answer]
    BY <1>4 DEF Within, Found
  <2> HIDE DEF new
  <2>4. Ended(level, reverted, Within(tree, k, found)) = [tree |-> new, answer |-> found.answer]
    BY <1>3, <1>4, <2>2, <2>3
  <2> QED  BY <1>2, <1>4, <2>4 DEF new
<1>5. CASE ~Has(tree, k)
  <2>1. Within(tree, k, found) = [tree |-> tree, answer |-> "missing"]  BY <1>5 DEF Within
  <2>2. Ended(level, reverted, Within(tree, k, found)) = [tree |-> tree, answer |-> "missing"]
    <3>1. tree \in TreeOf(Contents(level)) /\ tree.undone = <<>> /\ "missing" # "terminated"  BY <1>2
    <3> QED  BY <1>3, <2>1, <3>1
  <2> QED  BY <1>2, <1>5, <2>2
<1> QED  BY <1>4, <1>5

\* Setting what is there changes nothing.
LEMMA SetSame ==
  ASSUME NEW V, NEW tree \in TreeOf(V), NEW k, Has(tree, k)
  PROVE  SetValueAt(tree, k, ValueAt(tree, k)) = tree
<1> DEFINE i == PlaceOf(tree, k)
<1>1. i \in 1..Len(tree.slots) /\ tree.slots[i] \in SlotOf(V)  BY Place
<1>2. tree.slots \in Seq(SlotOf(V)) /\ ValueAt(tree, k) = tree.slots[i].val
  BY DEF TreeOf, ValueAt
<1> HIDE DEF i
<1>3. [tree.slots EXCEPT ![i].val = tree.slots[i].val] = tree.slots
  BY <1>1, <1>2 DEF SlotOf
<1> QED  BY <1>2, <1>3 DEF SetValueAt, TreeOf, i

\* All directories on the way are quiet, and the collection answers found.
QuietTo(top, path, T) ==
  \A n \in 0..2 : Exists(top, SubSeq(path, 1, n)) => Quiet(TreeAt(top, SubSeq(path, 1, n)), T)

\* A read on a quiet way: the collection alone is read, and set to what is left of it.
LEMMA ReadPastIs ==
  ASSUME NEW top \in Roots, NEW path \in Seq(Nat), Len(path) = 3, NEW k, NEW T, QuietTo(top, path, T),
         NEW found, found = ReadCollection(TreeAt(top, path), k, T),
         Exists(top, path) => found \in Found(Val) /\ found.answer # "terminated"
  PROVE  /\ Exists(top, path) =>
              ReadPast(top, path, k, T) =
                [tree |-> Replaced(top, path, found.tree), answer |-> found.answer]
         /\ ~Exists(top, path) => ReadPast(top, path, k, T) = [tree |-> top, answer |-> "missing"]
<1> DEFINE to(n) == SubSeq(path, 1, n)
           k1 == path[1]
           k2 == path[2]
           k3 == path[3]
           pool == ValueAt(top, k1)
           scheme == ValueAt(pool, k2)
           collection == ValueAt(scheme, k3)
           inScheme == ReadScheme(scheme, path, k, T)
           inPool == ReadPool(pool, path, k, T)
<1>1. /\ to(0) \in Seq(Nat) /\ Len(to(0)) = 0
      /\ to(1) \in Seq(Nat) /\ Len(to(1)) = 1 /\ to(1)[1] = k1
      /\ to(2) \in Seq(Nat) /\ Len(to(2)) = 2 /\ to(2)[1] = k1 /\ to(2)[2] = k2
      /\ to(3) = path
  OBVIOUS
<1> HIDE DEF to
<1>2. /\ TreeAt(top, to(0)) = top /\ TreeAt(top, to(1)) = pool /\ TreeAt(top, to(2)) = scheme
      /\ TreeAt(top, path) = collection
  <2> DEFINE a == to(1)
             b == to(2)
             z == to(0)
  <2>1. Len(z) = 0 /\ Len(a) = 1 /\ a[1] = k1 /\ Len(b) = 2 /\ b[1] = k1 /\ b[2] = k2  BY <1>1
  <2> HIDE DEF z, a, b
  <2>2. TreeAt(top, z) = top  BY <2>1 DEF TreeAt
  <2>3. TreeAt(top, a) = pool  BY <2>1 DEF TreeAt
  <2>4. TreeAt(top, b) = scheme  BY <2>1 DEF TreeAt
  <2>5. TreeAt(top, path) = collection  BY DEF TreeAt
  <2> QED  BY <2>2, <2>3, <2>4, <2>5 DEF z, a, b
<1> HIDE DEF k1, k2, k3
<1>3. /\ Exists(top, to(0))
      /\ Exists(top, to(1)) <=> Has(top, k1)
      /\ Exists(top, to(2)) <=> Has(top, k1) /\ Has(pool, k2)
      /\ Exists(top, path) <=> Has(top, k1) /\ Has(pool, k2) /\ Has(scheme, k3)
  <2>1. \A n \in 1..3 : SubSeq(path, 1, n - 1) = to(n - 1)  BY DEF to
  <2>2. Exists(top, to(0))  BY <1>1 DEF Exists
  <2>3. Parent(to(1)) = to(0) /\ Parent(to(2)) = to(1) /\ Parent(path) = to(2)
    <3>1. SubSeq(to(1), 1, 0) = to(0) /\ SubSeq(to(2), 1, 1) = to(1)  BY DEF to
    <3> QED  BY <1>1, <3>1 DEF Parent, to
  <2>4. /\ Exists(top, to(1)) <=> Exists(top, to(0)) /\ Has(top, k1)
        /\ Exists(top, to(2)) <=> Exists(top, to(1)) /\ Has(pool, k2)
        /\ Exists(top, path) <=> Exists(top, to(2)) /\ Has(scheme, k3)
    <3>1. 1 \in 1..3 /\ 2 \in 1..3 /\ 3 \in 1..3  OBVIOUS
    <3>2. Exists(top, to(1)) <=> Exists(top, Parent(to(1))) /\ Has(TreeAt(top, Parent(to(1))), to(1)[1])
      BY <1>1, <3>1, Deeper
    <3>3. Exists(top, to(2)) <=> Exists(top, Parent(to(2))) /\ Has(TreeAt(top, Parent(to(2))), to(2)[2])
      BY <1>1, <3>1, Deeper
    <3>4. Exists(top, path) <=> Exists(top, Parent(path)) /\ Has(TreeAt(top, Parent(path)), path[3])
      BY <1>1, <3>1, Deeper
    <3> HIDE DEF pool, scheme, collection
    <3> QED  BY <1>1, <1>2, <2>3, <3>2, <3>3, <3>4 DEF k3
  <2> QED  BY <2>2, <2>4
<1>4. /\ Quiet(top, T)
      /\ Has(top, k1) => Quiet(pool, T)
      /\ Has(top, k1) /\ Has(pool, k2) => Quiet(scheme, T)
  <2>1. 0 \in 0..2 /\ 1 \in 0..2 /\ 2 \in 0..2  OBVIOUS
  <2>2. \A n \in 0..2 : Exists(top, to(n)) => Quiet(TreeAt(top, to(n)), T)  BY DEF QuietTo, to
  <2> HIDE DEF pool, scheme, collection
  <2> QED  BY <1>2, <1>3, <2>1, <2>2
<1>5. /\ top \in TreeOf(Contents(0))
      /\ Has(top, k1) => pool \in TreeOf(Contents(1))
      /\ Has(top, k1) /\ Has(pool, k2) => scheme \in TreeOf(Contents(2))
      /\ Has(top, k1) /\ Has(pool, k2) /\ Has(scheme, k3) => collection \in TreeOf(Contents(3))
  <2>1. top \in TreeOf(Contents(0))  BY DEF Roots
  <2>2. Has(top, k1) => pool \in TreeOf(Contents(1))  BY <2>1, Place, TreesAreHeld
  <2>3. Has(top, k1) /\ Has(pool, k2) => scheme \in TreeOf(Contents(2))
    BY <2>2, Place, TreesAreHeld
  <2>4. Has(top, k1) /\ Has(pool, k2) /\ Has(scheme, k3) => collection \in TreeOf(Contents(3))
    <3> HIDE DEF scheme
    <3> QED  BY <2>3, Place, TreesAreHeld
  <2> QED  BY <2>1, <2>2, <2>3, <2>4
<1> DEFINE s1 == SetValueAt(scheme, k3, found.tree)
           p1 == SetValueAt(pool, k2, s1)
           t1 == SetValueAt(top, k1, p1)
<1> HIDE DEF pool, scheme, collection, inScheme, inPool
<1>6. ASSUME Has(top, k1), Has(pool, k2)
      PROVE  /\ Has(scheme, k3) => inScheme = [tree |-> s1, answer |-> found.answer]
             /\ ~Has(scheme, k3) => inScheme = [tree |-> scheme, answer |-> "missing"]
  <2> DEFINE reverted == RevertTo(2, scheme, T)
             f == ReadCollection(ValueAt(reverted.tree, k3), k, T)
  <2>1. inScheme = Ended(2, reverted, Within(reverted.tree, k3, f))
    BY DEF inScheme, ReadScheme, k3
  <2>2. reverted.tree = scheme
    <3>1. Holdable(2, Contents(2))  BY ContentsHoldable
    <3> QED  BY <1>4, <1>5, <1>6, <3>1, QuietStays
  <2> HIDE DEF reverted
  <2>3. f = found  BY <1>2, <2>2 DEF collection
  <2>4. Has(scheme, k3) => found \in Found(Contents(3)) /\ found.answer # "terminated"
    BY <1>3, <1>6, TreesAreHeld
  <2> HIDE DEF f
  <2>5. 2 \in 0..2 /\ 2 + 1 = 3  OBVIOUS
  <2>6. /\ Has(scheme, k3) => Ended(2, reverted, Within(scheme, k3, found)) =
                                [tree |-> s1, answer |-> found.answer]
        /\ ~Has(scheme, k3) => Ended(2, reverted, Within(scheme, k3, found)) =
                                 [tree |-> scheme, answer |-> "missing"]
    <3>1. scheme \in TreeOf(Contents(2)) /\ Quiet(scheme, T)  BY <1>4, <1>5, <1>6
    <3>2. reverted = RevertTo(2, scheme, T)  BY DEF reverted
    <3>3. Has(scheme, k3) => found \in Found(Contents(2 + 1)) /\ found.answer # "terminated"
      BY <2>4, <2>5
    <3> QED  BY <2>5, <3>1, <3>2, <3>3, Through
  <2> QED  BY <2>1, <2>2, <2>3, <2>6
<1>7. ASSUME Has(top, k1)
      PROVE  /\ Has(pool, k2) => inPool = [tree |-> SetValueAt(pool, k2, inScheme.tree),
                                           answer |-> inScheme.answer]
             /\ ~Has(pool, k2) => inPool = [tree |-> pool, answer |-> "missing"]
  <2> DEFINE reverted == RevertTo(1, pool, T)
             f == ReadScheme(ValueAt(reverted.tree, k2), path, k, T)
  <2>1. inPool = Ended(1, reverted, Within(reverted.tree, k2, f))
    BY DEF inPool, ReadPool, k2
  <2>2. reverted.tree = pool
    <3>1. Holdable(1, Contents(1))  BY ContentsHoldable
    <3> QED  BY <1>4, <1>5, <1>7, <3>1, QuietStays
  <2> HIDE DEF reverted
  <2>3. f = inScheme  BY <2>2 DEF inScheme, scheme
  <2>4. Has(pool, k2) => inScheme \in Found(Contents(2)) /\ inScheme.answer # "terminated"
    <3> SUFFICES ASSUME Has(pool, k2)
                 PROVE  inScheme \in Found(Contents(2)) /\ inScheme.answer # "terminated"
      OBVIOUS
    <3>1. scheme \in TreeOf(Contents(2)) /\ Contents(2) = TreeOf(Val)  BY <1>5, <1>7, TreesAreHeld
    <3>2. CASE Has(scheme, k3)
      <4>1. found \in Found(Val) /\ found.answer # "terminated"  BY <1>3, <1>7, <3>2
      <4>2. s1 \in TreeOf(Contents(2))  BY <3>1, <3>2, <4>1, SetValue DEF Found
      <4> HIDE DEF s1
      <4> QED  BY <1>6, <1>7, <3>2, <4>1, <4>2 DEF Found
    <3>3. CASE ~Has(scheme, k3)
      BY <1>6, <1>7, <3>1, <3>3 DEF Found
    <3> QED  BY <3>2, <3>3
  <2> HIDE DEF f
  <2>5. 1 \in 0..2 /\ 1 + 1 = 2  OBVIOUS
  <2>6. /\ Has(pool, k2) => Ended(1, reverted, Within(pool, k2, inScheme)) =
                              [tree |-> SetValueAt(pool, k2, inScheme.tree), answer |-> inScheme.answer]
        /\ ~Has(pool, k2) => Ended(1, reverted, Within(pool, k2, inScheme)) =
                               [tree |-> pool, answer |-> "missing"]
    <3>1. pool \in TreeOf(Contents(1)) /\ Quiet(pool, T)  BY <1>4, <1>5, <1>7
    <3>2. reverted = RevertTo(1, pool, T)  BY DEF reverted
    <3>3. Has(pool, k2) => inScheme \in Found(Contents(1 + 1)) /\ inScheme.answer # "terminated"
      BY <2>4, <2>5
    <3> QED  BY <2>5, <3>1, <3>2, <3>3, Through
  <2> QED  BY <2>1, <2>2, <2>3, <2>6
<1>8. /\ Has(top, k1) => ReadPast(top, path, k, T) = [tree |-> SetValueAt(top, k1, inPool.tree),
                                                   answer |-> inPool.answer]
      /\ ~Has(top, k1) => ReadPast(top, path, k, T) = [tree |-> top, answer |-> "missing"]
  <2> DEFINE reverted == RevertTo(0, top, T)
             f == ReadPool(ValueAt(reverted.tree, k1), path, k, T)
  <2>1. ReadPast(top, path, k, T) = Ended(0, reverted, Within(reverted.tree, k1, f))
    BY DEF ReadPast, k1
  <2>2. reverted.tree = top
    <3>1. Holdable(0, Contents(0))  BY ContentsHoldable
    <3> QED  BY <1>4, <1>5, <3>1, QuietStays
  <2> HIDE DEF reverted
  <2>3. f = inPool  BY <2>2 DEF inPool, pool
  <2>4. Has(top, k1) => inPool \in Found(Contents(1)) /\ inPool.answer # "terminated"
    <3> SUFFICES ASSUME Has(top, k1)
                 PROVE  inPool \in Found(Contents(1)) /\ inPool.answer # "terminated"
      OBVIOUS
    <3>1. pool \in TreeOf(Contents(1)) /\ Contents(1) = TreeOf(Contents(2)) /\ Contents(2) = TreeOf(Val)
      BY <1>5, TreesAreHeld
    <3>2. CASE Has(pool, k2)
      <4>1. inScheme \in Found(Contents(2)) /\ inScheme.answer # "terminated"
        <5>1. scheme \in TreeOf(Contents(2)) /\ Contents(2) = TreeOf(Val)  BY <1>5, <3>2, TreesAreHeld
        <5>2. CASE Has(scheme, k3)
          <6>1. found \in Found(Val) /\ found.answer # "terminated"  BY <1>3, <3>2, <5>2
          <6>2. s1 \in TreeOf(Contents(2))  BY <5>1, <5>2, <6>1, SetValue DEF Found
          <6> HIDE DEF s1
          <6> QED  BY <1>6, <3>2, <5>2, <6>1, <6>2 DEF Found
        <5>3. CASE ~Has(scheme, k3)  BY <1>6, <3>2, <5>1, <5>3 DEF Found
        <5> QED  BY <5>2, <5>3
      <4> DEFINE w == SetValueAt(pool, k2, inScheme.tree)
      <4>2. w \in TreeOf(Contents(1))
        <5>1. inScheme.tree \in TreeOf(Contents(2))  BY <4>1 DEF Found
        <5> QED  BY <3>1, <3>2, <5>1, SetValue
      <4> HIDE DEF w
      <4>3. inPool = [tree |-> w, answer |-> inScheme.answer]  BY <1>7, <3>2 DEF w
      <4> QED  BY <4>1, <4>2, <4>3 DEF Found
    <3>3. CASE ~Has(pool, k2)  BY <1>7, <3>1, <3>3 DEF Found
    <3> QED  BY <3>2, <3>3
  <2> HIDE DEF f
  <2>5. 0 \in 0..2 /\ 0 + 1 = 1  OBVIOUS
  <2>6. /\ Has(top, k1) => Ended(0, reverted, Within(top, k1, inPool)) =
                             [tree |-> SetValueAt(top, k1, inPool.tree), answer |-> inPool.answer]
        /\ ~Has(top, k1) => Ended(0, reverted, Within(top, k1, inPool)) =
                              [tree |-> top, answer |-> "missing"]
    <3>1. top \in TreeOf(Contents(0)) /\ Quiet(top, T)  BY <1>4, <1>5
    <3>2. reverted = RevertTo(0, top, T)  BY DEF reverted
    <3>3. Has(top, k1) => inPool \in Found(Contents(0 + 1)) /\ inPool.answer # "terminated"
      BY <2>4, <2>5
    <3> QED  BY <2>5, <3>1, <3>2, <3>3, Through
  <2> QED  BY <2>1, <2>2, <2>3, <2>6
<1>9. Exists(top, path) => Replaced(top, path, found.tree) = t1
  <2>1. /\ TreeAt(top, SubSeq(path, 1, 0)) = top /\ TreeAt(top, SubSeq(path, 1, 1)) = pool
        /\ TreeAt(top, SubSeq(path, 1, 2)) = scheme
    BY <1>2 DEF to
  <2> QED  BY <2>1 DEF Replaced, k1, k2, k3
<1>10. CASE Exists(top, path)
  <2>1. Has(top, k1) /\ Has(pool, k2) /\ Has(scheme, k3)  BY <1>3, <1>10
  <2>2. inScheme.tree = s1 /\ inScheme.answer = found.answer  BY <1>6, <2>1
  <2> HIDE DEF s1
  <2>3. inPool.tree = p1 /\ inPool.answer = found.answer  BY <1>7, <2>1, <2>2
  <2> HIDE DEF p1
  <2>4. ReadPast(top, path, k, T) = [tree |-> t1, answer |-> found.answer]  BY <1>8, <2>1, <2>3
  <2> HIDE DEF t1
  <2> QED  BY <1>9, <1>10, <2>4
<1>11. CASE ~Exists(top, path)
  <2>1. CASE ~Has(top, k1)  BY <1>8, <1>11, <2>1
  <2>2. CASE Has(top, k1) /\ ~Has(pool, k2)
    <3>1. inPool.tree = pool /\ inPool.answer = "missing"  BY <1>7, <2>2
    <3>2. SetValueAt(top, k1, pool) = top  BY <1>5, <2>2, SetSame DEF pool
    <3> QED  BY <1>8, <1>11, <2>2, <3>1, <3>2
  <2>3. CASE Has(top, k1) /\ Has(pool, k2)
    <3>1. ~Has(scheme, k3)  BY <1>3, <1>11, <2>3
    <3>2. inScheme.tree = scheme /\ inScheme.answer = "missing"  BY <1>6, <2>3, <3>1
    <3>3. SetValueAt(pool, k2, scheme) = pool  BY <1>5, <2>3, SetSame DEF scheme
    <3>4. inPool.tree = pool /\ inPool.answer = "missing"  BY <1>7, <2>3, <3>2, <3>3
    <3>5. SetValueAt(top, k1, pool) = top  BY <1>5, <2>3, SetSame DEF pool
    <3> QED  BY <1>8, <1>11, <2>3, <3>4, <3>5
  <2> QED  BY <2>1, <2>2, <2>3
<1> QED  BY <1>10, <1>11

\* A collection replaced by one with the same row and history.
LEMMA SameKept ==
  ASSUME NEW top \in Roots, NEW J \in Seq(ChangeType), Kept(top, J),
         NEW p \in Path, Len(p) = 3, Exists(top, p),
         NEW new, Shows(new, RowOf(TreeAt(top, p))),
         new.ops = TreeAt(top, p).ops, new.undone = <<>>,
         NEW made, made = Replaced(top, p, new)
  PROVE  Kept(made, J)
<1>0. PICK N \in Nat : N = Len(J)  BY LenProperties
<1>1. p \in Ways /\ p \in Seq(Nat)  BY PathsAreWays, NamesAssumption
<1>2. AllTidy(top, N) /\ Histories(top, J) /\ DataOf(top) = AfterAll(NoDirs, J)
  BY <1>0 DEF Kept
<1>3. new \in TreeOf(Val) /\ Distinct(new) /\ RowOf(new) = RowOf(TreeAt(top, p))  BY DEF Shows
<1>4. /\ Exists(made, p) /\ TreeAt(made, p) = new
      /\ \A q \in Ways : q # p =>
           /\ Exists(made, q) <=> Exists(top, q)
           /\ Exists(top, q) =>
                /\ Len(q) = 3 => TreeAt(made, q) = TreeAt(top, q)
                /\ Distinct(TreeAt(top, q)) => Distinct(TreeAt(made, q))
                /\ TreeAt(made, q).ops = TreeAt(top, q).ops
                /\ TreeAt(made, q).undone = TreeAt(top, q).undone
  BY <1>1, <1>3, DataElsewhere
<1>5. \A q \in Ways : /\ Exists(made, q) <=> Exists(top, q)
                      /\ Exists(top, q) => TreeAt(made, q).ops = TreeAt(top, q).ops
  BY <1>4
<1>6. AllTidy(made, N)
  <2> SUFFICES ASSUME NEW q \in Ways, Exists(made, q) PROVE Tidy(TreeAt(made, q), N)
    BY DEF AllTidy
  <2>1. Exists(top, q) /\ Tidy(TreeAt(top, q), N)  BY <1>2, <1>5 DEF AllTidy
  <2>2. CASE q = p  BY <1>3, <1>4, <2>1, <2>2 DEF Tidy
  <2>3. CASE q # p  BY <1>4, <2>1, <2>3 DEF Tidy
  <2> QED  BY <2>2, <2>3
<1>7. Histories(made, J)
  <2> SUFFICES ASSUME NEW q \in Ways, Exists(made, q)
               PROVE  /\ Len(q) # 3 => \A i \in DOMAIN TreeAt(made, q).ops :
                                         ~Settled(J, TreeAt(made, q).ops[i].time)
                      /\ Len(q) = 3 => Remembers(J, q, TreeAt(made, q).ops)
    BY DEF Histories
  <2>1. Exists(top, q) /\ TreeAt(made, q).ops = TreeAt(top, q).ops  BY <1>5
  <2> QED  BY <1>2, <2>1 DEF Histories
<1>8. DataOf(made) = DataOf(top)
  <2>1. \A q \in Path : Exists(top, q) => RowAt(made, q) = RowAt(top, q)
    <3> SUFFICES ASSUME NEW q \in Path, Exists(top, q) PROVE RowAt(made, q) = RowAt(top, q)
      OBVIOUS
    <3>1. CASE q = p
      <4>1. RowAt(made, q) = RowOf(new) /\ RowAt(top, q) = RowOf(TreeAt(top, p))
        BY <1>4, <3>1 DEF RowAt, RowOf
      <4> QED  BY <1>3, <4>1
    <3>2. CASE q # p
      <4>1. q \in Ways  BY PathsAreWays
      <4>2. Len(q) = 3 => TreeAt(made, q) = TreeAt(top, q)  BY <1>4, <3>2, <4>1
      <4> QED  BY <4>2 DEF RowAt
    <3> QED  BY <3>1, <3>2
  <2>2. {x \in Path : Exists(made, x)} = {x \in Path : Exists(top, x)}  BY <1>5, PathsAreWays
  <2>3. /\ DataOf(top) = [q \in {x \in Path : Exists(top, x)} |-> RowAt(top, q)]
        /\ DataOf(made) = [q \in {x \in Path : Exists(made, x)} |-> RowAt(made, q)]
    BY Rows
  <2> QED  BY <2>1, <2>2, <2>3
<1> QED  BY <1>0, <1>2, <1>6, <1>7, <1>8 DEF Kept

\* What a read of the past should answer with, from the data of its time.
Answered(d, p, k) == IF p \in DOMAIN d THEN Entry(d[p], k) ELSE "missing"

\* A read of a time after the last change of directories answers with the value of that time,
\* and keeps what is kept.
LEMMA PastRead ==
  ASSUME NEW top \in Roots, NEW J \in Seq(ChangeType), Kept(top, J),
         NEW p \in Path, Len(p) = 3, NEW k \in Key, NEW T \in Nat,
         \A n \in 1..Len(J) : T < n => J[n].op \notin DirOps,
         NEW n, n = IF T < Len(J) THEN T ELSE Len(J)
  PROVE  /\ Kept(ReadPast(top, p, k, T).tree, J)
         /\ ReadPast(top, p, k, T).answer = Answered(AsOfIn(J, n), p, k)
         /\ ReadPast(top, p, k, T).answer \notin {"threw", "terminated"}
<1>0. PICK N \in Nat : N = Len(J)  BY LenProperties
<1>1. p \in Ways /\ p \in Seq(Nat)  BY PathsAreWays, NamesAssumption
<1>2. AllTidy(top, N) /\ Histories(top, J) /\ DataOf(top) = AfterAll(NoDirs, J)
  BY <1>0 DEF Kept
<1>3. \A m \in 1..N : T < m => Settled(J, m)
  <2> SUFFICES ASSUME NEW m \in 1..N, T < m PROVE Settled(J, m)  OBVIOUS
  <2>1. \A x \in m..N : x \in 1..N /\ T < x  OBVIOUS
  <2> QED  BY <1>0, <2>1 DEF Settled
<1>4. QuietTo(top, p, T)
  <2> SUFFICES ASSUME NEW i \in 0..2, Exists(top, SubSeq(p, 1, i))
               PROVE  Quiet(TreeAt(top, SubSeq(p, 1, i)), T)
    BY DEF QuietTo
  <2> DEFINE q == SubSeq(p, 1, i)
  <2>1. q \in Seq(Nat) /\ Len(q) = i
    <3>1. i \in 0..Len(p)  OBVIOUS
    <3> QED  BY <1>1, <3>1, Beginnings
  <2>2. i \in 0..3 /\ i # 3  OBVIOUS
  <2> HIDE DEF q
  <2>3. q \in Ways /\ Len(q) # 3 /\ Len(q) \in 0..3  BY <2>1, <2>2 DEF Ways
  <2>4. Tidy(TreeAt(top, q), N)  BY <1>2, <2>3 DEF AllTidy, q
  <2>5. \A x \in DOMAIN TreeAt(top, q).ops : ~Settled(J, TreeAt(top, q).ops[x].time)
    BY <1>2, <2>3 DEF Histories, q
  <2>6. DOMAIN TreeAt(top, q).ops = 1..Len(TreeAt(top, q).ops)
    <3>1. TreeAt(top, q) \in TreeOf(Contents(Len(q)))  BY <2>1, <2>3, TreeTyped DEF q
    <3> QED  BY <3>1, LenProperties DEF TreeOf
  <2>7. \A x \in 1..Len(TreeAt(top, q).ops) : ~(TreeAt(top, q).ops[x].time > T)
    <3> SUFFICES ASSUME NEW x \in 1..Len(TreeAt(top, q).ops), TreeAt(top, q).ops[x].time > T
                 PROVE  FALSE
      OBVIOUS
    <3> DEFINE t == TreeAt(top, q).ops[x].time
    <3>1. t \in 1..N /\ ~Settled(J, t)  BY <2>4, <2>5, <2>6 DEF Tidy
    <3>2. t > T  OBVIOUS
    <3> HIDE DEF t
    <3>3. T < t  BY <3>1, <3>2
    <3> QED  BY <1>3, <3>1, <3>3
  <2> QED  BY <2>4, <2>7 DEF Quiet, Tidy, q
<1>5. /\ AfterAll(NoDirs, J) = AsOfIn(J, N)
      /\ n \in 0..N /\ N \in n..N /\ \A m \in (n + 1)..N : J[m].op \notin DirOps
  <2>1. AfterAll(NoDirs, J) = AsOfIn(J, N)  BY <1>0, AsOfSteps
  <2>2. n \in 0..N /\ N \in n..N /\ \A m \in (n + 1)..N : m \in 1..N /\ T < m  BY <1>0
  <2> QED  BY <1>0, <2>1, <2>2
<1>6. p \in DOMAIN AsOfIn(J, N) <=> Exists(top, p)
  <2>1. DOMAIN DataOf(top) = {x \in Path : Exists(top, x)}  BY Rows
  <2> QED  BY <1>2, <1>5, <2>1
<1> DEFINE c == TreeAt(top, p)
           found == ReadCollection(c, k, T)
           seen == ReadPast(top, p, k, T)
<1>7. ASSUME Exists(top, p)
      PROVE  ReadRow(c, found, RowOf(c), AsOfIn(J, n)[p], k) /\ p \in DOMAIN AsOfIn(J, n)
  <2>1. c \in TreeOf(Val) /\ Tidy(c, N)
    <3>1. Len(p) \in 0..3  OBVIOUS
    <3>2. c \in TreeOf(Contents(Len(p)))  BY <1>1, <1>7, <3>1, TreeTyped
    <3> QED  BY <1>1, <1>2, <1>7, <3>2, TreesAreHeld DEF AllTidy
  <2>2. Remembers(J, p, c.ops)  BY <1>1, <1>2, <1>7 DEF Histories
  <2>3. RowOf(c) = AsOfIn(J, N)[p]
    <3>1. RowAt(top, p) = DataOf(top)[p]  BY <1>7, Rows
    <3>2. RowAt(top, p) = RowOf(c)  BY DEF RowAt, RowOf
    <3> QED  BY <1>2, <1>5, <3>1, <3>2
  <2> HIDE DEF c
  <2>4. c.ops \in Seq(OperationOn(Val)) /\ DOMAIN c.ops = 1..Len(c.ops)
    BY <2>1, LenProperties DEF TreeOf
  <2>5. \A i \in 1..Len(c.ops) : c.ops[i].time \in 1..N  BY <2>1, <2>4 DEF Tidy
  <2>6. Recorded(J, T, p, c.ops)  BY <1>0, <1>6, <1>7, <2>2, <2>4, <2>5 DEF Recorded
  <2>7. Shows(c, AsOfIn(J, Len(J))[p]) /\ c.undone = <<>>
    BY <1>0, <2>1, <2>3 DEF Shows, Tidy
  <2>8. /\ ReadRow(c, ReadCollection(c, k, T), AsOfIn(J, Len(J))[p], AsOfIn(J, n)[p], k)
        /\ p \in DOMAIN AsOfIn(J, n)
    BY <2>6, <2>7, CollectionRead
  <2> QED  BY <1>0, <2>3, <2>8
<1> HIDE DEF found
<1>8. /\ Exists(top, p) => seen = [tree |-> Replaced(top, p, found.tree), answer |-> found.answer]
      /\ ~Exists(top, p) => seen = [tree |-> top, answer |-> "missing"]
  <2>1. Exists(top, p) => found \in Found(Val) /\ found.answer # "terminated"
    BY <1>7 DEF ReadRow
  <2> QED  BY <1>1, <1>4, <2>1, ReadPastIs DEF found
<1> HIDE DEF c, seen
<1>9. CASE Exists(top, p)
  <2>1. /\ Shows(found.tree, RowOf(c)) /\ found.tree.ops = c.ops /\ found.tree.undone = <<>>
        /\ found.answer = Entry(AsOfIn(J, n)[p], k) /\ found.answer \notin {"threw", "terminated"}
    BY <1>7, <1>9 DEF ReadRow
  <2>2. Kept(Replaced(top, p, found.tree), J)  BY <1>9, <2>1, SameKept DEF c
  <2>3. seen.tree = Replaced(top, p, found.tree) /\ seen.answer = found.answer  BY <1>8, <1>9
  <2>4. Answered(AsOfIn(J, n), p, k) = Entry(AsOfIn(J, n)[p], k)  BY <1>7, <1>9 DEF Answered
  <2> QED  BY <2>1, <2>2, <2>3, <2>4 DEF seen
<1>10. CASE ~Exists(top, p)
  <2>1. DOMAIN AsOfIn(J, N) = DOMAIN AsOfIn(J, n)  BY <1>0, <1>5, SameDirs
  <2>2. p \notin DOMAIN AsOfIn(J, n)  BY <1>6, <1>10, <2>1
  <2>3. Answered(AsOfIn(J, n), p, k) = "missing"  BY <2>2 DEF Answered
  <2>4. seen.tree = top /\ seen.answer = "missing"  BY <1>8, <1>10
  <2> QED  BY <2>3, <2>4 DEF seen
<1> QED  BY <1>9, <1>10

(***************************************************************************)
(* What the controller answers.                                            *)
(***************************************************************************)

\* A set of numbers up to a bound has a greatest.
LEMMA MaxIs ==
  ASSUME NEW N \in Nat, NEW S, S \subseteq 0..N, S # {}
  PROVE  Max(S) \in S /\ \A y \in S : Max(S) >= y
<1> DEFINE upTo(n) == {y \in S : y <= n}
           Greatest(R) == \E x \in R : \A y \in R : x >= y
           Good == {n \in 0..N : upTo(n) # {} => Greatest(upTo(n))}
<1>1. 0 \in Good
  <2>1. \A y \in upTo(0) : y \in 0..N /\ y <= 0  OBVIOUS
  <2>2. \A y \in 0..N : y <= 0 => y = 0  OBVIOUS
  <2> HIDE DEF upTo
  <2>3. \A x, y \in upTo(0) : x >= y
    <3>1. 0 >= 0  OBVIOUS
    <3> QED  BY <2>1, <2>2, <3>1
  <2> QED  BY <2>3
<1>2. ASSUME NEW n \in 1..N, n - 1 \in Good PROVE n \in Good
  <2>1. n \in 0..N /\ n - 1 \in 0..N  OBVIOUS
  <2>2. CASE n \in S
    <3>1. n \in upTo(n) /\ \A y \in upTo(n) : n >= y  BY <2>2
    <3> QED  BY <2>1, <3>1
  <2>3. CASE n \notin S
    <3>1. upTo(n) = upTo(n - 1)
      <4>1. \A y \in S : y <= n <=> y <= n - 1  BY <2>3
      <4> QED  BY <4>1
    <3> HIDE DEF upTo, Greatest
    <3> QED  BY <1>2, <2>1, <3>1
  <2> QED  BY <2>2, <2>3
<1> HIDE DEF Good
<1>3. N \in Good
  <2>1. \A n \in 0..N : n \in Good  BY <1>1, <1>2, UpTo
  <2>2. N \in 0..N  OBVIOUS
  <2> QED  BY <2>1, <2>2
<1>4. Greatest(S)
  <2>1. upTo(N) = S
    <3>1. \A y \in S : y \in 0..N  OBVIOUS
    <3>2. \A y \in 0..N : y <= N  OBVIOUS
    <3>3. \A y \in S : y <= N  BY <3>1, <3>2
    <3> QED  BY <3>3
  <2> HIDE DEF upTo, Greatest
  <2> QED  BY <1>3, <2>1 DEF Good
<1> QED  BY <1>4 DEF Max

\* A read that goes not so far back is not behind any change of directories.
LEMMA AfterMoves ==
  ASSUME journal \in Seq(ChangeType), NEW T \in Nat, ~(T < LastMove)
  PROVE  \A n \in 1..Len(journal) : T < n => journal[n].op \notin DirOps
<1> DEFINE moves == {n \in DOMAIN journal : journal[n].op \in DirOps}
<1>1. PICK N \in Nat : N = Len(journal) /\ DOMAIN journal = 1..N  BY LenProperties
<1> SUFFICES ASSUME NEW n \in 1..N, T < n, journal[n].op \in DirOps PROVE FALSE  BY <1>1
<1>2. n \in moves /\ moves \subseteq 0..N  BY <1>1
<1>3. LastMove = Max(moves)  BY <1>2 DEF LastMove
<1> HIDE DEF moves
<1>4. Max(moves) \in moves /\ Max(moves) >= n  BY <1>2, MaxIs
<1>5. Max(moves) \in 0..N  BY <1>2, <1>4
<1> QED  BY <1>3, <1>4, <1>5

\* What holds until a read goes back behind a change of directories: the trees agree
\* with the journal, no lost task has a mutex, those that read the past answer right.
RecordsInv ==
  /\ DOMAIN answer = Task
  /\ ~deepRead =>
       /\ Kept(root, journal)
       /\ \A t \in Task : pc[t] = "lost" => depth[t] = 0
       /\ \A t \in Task : HasReadPast(t) => answer[t] = Expected(t)

\* At the start there are the first changes.
LEMMA InitRecords == Init => RecordsInv
<1> SUFFICES ASSUME Init PROVE RecordsInv  OBVIOUS
<1>1. Kept(root, journal)  BY KeptBuilt DEF Init
<1>2. DOMAIN answer = Task /\ \A t \in Task : pc[t] = "new"  BY DEF Init
<1> QED  BY <1>1, <1>2 DEF RecordsInv, HasReadPast

\* Whoever has read the past has the root to itself.
LEMMA PastAlone ==
  ASSUME ControlInv, Exclude, NEW t \in Task, HasReadPast(t), NEW u \in Task \ {t}
  PROVE  depth[u] = 0
<1>1. request[t].op = "read_at" /\ depth[t] = 1  BY DEF HasReadPast
<1>2. <<>> \in Seq(Nat) /\ Len(<<>>) = 0  OBVIOUS
<1>3. \A w \in Task : IsPrefix(<<>>, request[w].path)
  <2> SUFFICES ASSUME NEW w \in Task PROVE IsPrefix(<<>>, request[w].path)  OBVIOUS
  <2>1. request[w].path \in Seq(Nat)  BY DepthRange DEF ControlInv
  <2>2. PICK l \in Nat : l = Len(request[w].path)  BY <2>1, LenProperties
  <2>3. Len(<<>>) <= Len(request[w].path) /\ \A i \in 1..Len(<<>>) : <<>>[i] = request[w].path[i]
    BY <1>2, <2>2
  <2> QED  BY <1>2, <2>1, <2>3, PrefixBy
<1>4. HoldsMutexUniquely(t, <<>>)
  BY <1>1, <1>2, <1>3 DEF HoldsMutexUniquely, HoldsMutex, UniqueMutex, Depth
<1>5. ~HoldsMutex(u, <<>>)  BY <1>2, <1>4 DEF Exclude
<1>6. ~(0 < depth[u])  BY <1>2, <1>3, <1>5 DEF HoldsMutex
<1> QED  BY <1>6 DEF ControlInv

\* What is expected depends on the request and the journal.
LEMMA ExpectedSame ==
  ASSUME NEW u \in Task, journal' = journal, request'[u] = request[u]
  PROVE  Expected(u)' = Expected(u)
<1>1. Requested(u)' = Requested(u)  BY DEF Requested
<1>2. \A n : AsOf(n)' = AsOf(n)  BY DEF AsOf
<1> QED  BY <1>1, <1>2 DEF Expected

\* Steps that leave the data.
LEMMA OthersKeepRecords ==
  ASSUME RecordsInv, UNCHANGED dataVars, DOMAIN answer' = Task,
         \A u \in Task : pc'[u] = "lost" => depth'[u] = 0 \/ (pc[u] = "lost" /\ depth'[u] = depth[u]),
         \A u \in Task : HasReadPast(u)' =>
           HasReadPast(u) /\ answer'[u] = answer[u] /\ request'[u] = request[u]
  PROVE  RecordsInv'
<1>1. root' = root /\ journal' = journal /\ deepRead' = deepRead  BY DEF dataVars
<1> SUFFICES ASSUME ~deepRead
             PROVE  /\ Kept(root, journal)'
                    /\ \A t \in Task : pc'[t] = "lost" => depth'[t] = 0
                    /\ \A t \in Task : HasReadPast(t)' => answer'[t] = Expected(t)'
  BY <1>1 DEF RecordsInv
<1>2. Kept(root, journal)'  BY <1>1 DEF RecordsInv
<1>3. \A t \in Task : pc'[t] = "lost" => depth'[t] = 0  BY DEF RecordsInv
<1>4. ASSUME NEW t \in Task, HasReadPast(t)' PROVE answer'[t] = Expected(t)'
  <2>1. HasReadPast(t) /\ answer'[t] = answer[t] /\ request'[t] = request[t]  BY <1>4
  <2>2. answer[t] = Expected(t)  BY <2>1 DEF RecordsInv
  <2>3. Expected(t)' = Expected(t)  BY <1>1, <2>1, ExpectedSame
  <2> QED  BY <2>1, <2>2, <2>3
<1> QED  BY <1>2, <1>3, <1>4

\* A change is recorded, and found by no one who has read before.
LEMMA ChangeKeepsRecords ==
  ASSUME ControlInv, Exclude, TreesInv, RecordsInv, NEW t \in Task, ChangeMade(t),
         UNCHANGED <<depth, request, deepRead>>, pc' = [pc EXCEPT ![t] = "unlock"],
         DOMAIN answer' = Task
  PROVE  RecordsInv'
<1> SUFFICES ASSUME ~deepRead
             PROVE  /\ Kept(root', journal')
                    /\ \A u \in Task : pc'[u] = "lost" => depth'[u] = 0
                    /\ \A u \in Task : HasReadPast(u)' => answer'[u] = Expected(u)'
  BY DEF RecordsInv
<1>1. pc[t] = "act" /\ request[t].op \in ChangeOps /\ request[t] \in Request
  BY DEF ChangeMade, ControlInv
<1>2. Kept(root', journal')
  <2>1. CASE UNCHANGED <<root, journal>>  BY <2>1 DEF RecordsInv
  <2>2. CASE /\ Possible(root, ChangeOf(request[t]))
             /\ root' = Made(root, ChangeOf(request[t]), Len(journal) + 1)
             /\ journal' = Append(journal, ChangeOf(request[t]))
    <3>1. ChangeOf(request[t]) \in ChangeType  BY <1>1, RequestsAsk
    <3>2. root \in Roots /\ journal \in Seq(ChangeType) /\ Kept(root, journal)
      BY DEF TreesInv, RecordsInv
    <3> QED  BY <2>2, <3>1, <3>2, ChangeKeeps
  <2> QED  BY <2>1, <2>2 DEF ChangeMade
<1>3. \A u \in Task : pc'[u] = "lost" => depth'[u] = 0
  BY DEF RecordsInv, ControlInv
<1>4. ASSUME NEW u \in Task, HasReadPast(u)' PROVE FALSE
  <2>1. request[u].op = "read_at" /\ depth[u] = 1 /\ pc'[u] \in {"unlock", "lost"}
    BY <1>4 DEF HasReadPast
  <2>2. "read_at" \notin ChangeOps  BY DEF ChangeOps, DirOps, AddOps, RemoveOps, DataOps
  <2>3. u # t  BY <1>1, <2>1, <2>2
  <2>4. pc'[u] = pc[u]  BY <2>3 DEF ControlInv
  <2>5. HasReadPast(u)  BY <2>1, <2>4 DEF HasReadPast
  <2>6. depth[t] = 0  BY <2>3, <2>5, PastAlone
  <2>7. depth[t] \in 1..4  BY <1>1, DepthRange DEF ControlInv, Counted
  <2> QED  BY <2>6, <2>7
<1> QED  BY <1>2, <1>3, <1>4

\* A read of the past finds what is recorded, or goes behind a change of directories.
LEMMA ReadAtKeepsRecords ==
  ASSUME ControlInv, Exclude, TreesInv, RecordsInv, NEW t \in Task, ReadAt(t)
  PROVE  RecordsInv'
<1> DEFINE r == request[t]
           seen == ReadPast(root, r.path, r.key, r.time)
<1>1. /\ pc[t] = "act" /\ r.op = "read_at"
      /\ root' = seen.tree /\ answer' = [answer EXCEPT ![t] = seen.answer]
      /\ deepRead' = (deepRead \/ r.time < LastMove)
      /\ IF seen.answer = "terminated"
         THEN pc' = [u \in Task |-> "lost"] ELSE pc' = [pc EXCEPT ![t] = "unlock"]
      /\ UNCHANGED <<depth, request, results, journal>>
  BY DEF ReadAt, Acting, Answer, Goto
<1> HIDE DEF seen, r
<1>2. DOMAIN answer' = Task  BY <1>1 DEF RecordsInv
<1> SUFFICES ASSUME ~deepRead'
             PROVE  /\ Kept(root', journal')
                    /\ \A u \in Task : pc'[u] = "lost" => depth'[u] = 0
                    /\ \A u \in Task : HasReadPast(u)' => answer'[u] = Expected(u)'
  BY <1>2 DEF RecordsInv
<1>3. ~deepRead /\ ~(r.time < LastMove)  BY <1>1
<1>4. r.path \in Path /\ Len(r.path) = 3 /\ r.key \in Key /\ r.time \in Nat
  <2>1. r \in Request  BY DEF ControlInv, r
  <2>2. r \in RequestType /\ Given(r)  BY <2>1, RequestAssumption, NamesGiven
  <2>3. r.op \notin DirOps  BY <1>1 DEF DirOps, AddOps, RemoveOps
  <2> QED  BY <2>2, <2>3 DEF RequestType, Given
<1> DEFINE n == IF r.time < Len(journal) THEN r.time ELSE Len(journal)
<1>5. /\ Kept(seen.tree, journal)
      /\ seen.answer = Answered(AsOfIn(journal, n), r.path, r.key)
      /\ seen.answer \notin {"threw", "terminated"}
  <2>1. \A m \in 1..Len(journal) : r.time < m => journal[m].op \notin DirOps
    BY <1>3, <1>4, AfterMoves DEF TreesInv
  <2>2. root \in Roots /\ journal \in Seq(ChangeType) /\ Kept(root, journal)
    BY <1>3 DEF TreesInv, RecordsInv
  <2> HIDE DEF n
  <2>3. n = IF r.time < Len(journal) THEN r.time ELSE Len(journal)  BY DEF n
  <2> QED  BY <1>4, <2>1, <2>2, <2>3, PastRead DEF seen
<1>6. pc' = [pc EXCEPT ![t] = "unlock"]  BY <1>1, <1>5
<1>7. \A u \in Task : pc'[u] = "lost" => depth'[u] = 0
  BY <1>1, <1>3, <1>6 DEF RecordsInv, ControlInv
<1>8. ASSUME NEW u \in Task, HasReadPast(u)' PROVE answer'[u] = Expected(u)'
  <2>1. CASE u = t
    <3>1. answer'[t] = seen.answer  BY <1>1 DEF RecordsInv
    <3>2. Expected(t) = Answered(AsOfIn(journal, n), r.path, r.key)
      <4>1. Requested(t) = n  BY DEF Requested, r
      <4> HIDE DEF n
      <4>2. AsOf(Requested(t)) = AsOfIn(journal, n)  BY <4>1 DEF AsOf, AsOfIn
      <4> QED  BY <4>2 DEF Expected, Answered, Entry, r
    <3>3. Expected(t)' = Expected(t)  BY <1>1, ExpectedSame
    <3> QED  BY <1>5, <2>1, <3>1, <3>2, <3>3
  <2>2. CASE u # t
    <3>1. depth[u] = 0  BY <2>2, ReaderAlone
    <3> QED  BY <1>1, <1>8, <3>1 DEF HasReadPast
  <2> QED  BY <2>1, <2>2
<1> QED  BY <1>1, <1>5, <1>7, <1>8

\* No step forgets a change or answers with anything else.
LEMMA StepKeepsRecords ==
  ControlInv /\ Exclude /\ TreesInv /\ RecordsInv /\ [Next]_vars => RecordsInv'
<1> SUFFICES ASSUME ControlInv, Exclude, TreesInv, RecordsInv, [Next]_vars PROVE RecordsInv'
  OBVIOUS
<1>0. DOMAIN answer = Task  BY DEF RecordsInv
<1>1. ASSUME NEW t \in Task, Start(t) PROVE RecordsInv'
  <2>1. pc' = [pc EXCEPT ![t] = "lock"] /\ UNCHANGED <<depth, answer>> /\ UNCHANGED dataVars
    BY <1>1 DEF Start, Goto
  <2>2. \A u \in Task \ {t} : pc'[u] = pc[u] /\ request'[u] = request[u]
    BY <1>1 DEF Start, Goto, ControlInv
  <2>3. pc'[t] = "lock"  BY <2>1 DEF ControlInv
  <2>4. \A u \in Task : HasReadPast(u)' => u # t  BY <2>3 DEF HasReadPast
  <2>5. \A u \in Task \ {t} : HasReadPast(u)' => HasReadPast(u)  BY <2>1, <2>2 DEF HasReadPast
  <2> QED  BY <1>0, <2>1, <2>2, <2>3, <2>4, <2>5, OthersKeepRecords
<1>2. ASSUME NEW t \in Task, ReleaseMutex(t) PROVE RecordsInv'
  <2>1. /\ pc[t] = "unlock" /\ UNCHANGED dataVars /\ UNCHANGED <<request, answer>>
        /\ depth' = [depth EXCEPT ![t] = @ - 1]
        /\ \A u \in Task \ {t} : pc'[u] = pc[u] /\ depth'[u] = depth[u]
        /\ pc'[t] = "lost" => ~(depth[t] > 1)
    BY <1>2 DEF ReleaseMutex, Goto, ControlInv, taskVars
  <2>2. depth'[t] = depth[t] - 1 /\ depth[t] \in Nat /\ depth[t] >= 1 /\ depth[t] <= Depth(request[t].op)
    BY <2>1 DEF ControlInv, Counted
  <2>3. pc'[t] = "lost" => depth'[t] = 0  BY <2>1, <2>2
  <2>4. ~HasReadPast(t)'
    <3> SUFFICES ASSUME HasReadPast(t)' PROVE FALSE  OBVIOUS
    <3>1. request[t].op = "read_at" /\ depth'[t] = 1  BY <2>1 DEF HasReadPast
    <3>2. Depth(request[t].op) = 1  BY <3>1 DEF Depth
    <3> QED  BY <2>2, <3>1, <3>2
  <2>5. \A u \in Task \ {t} : HasReadPast(u)' => HasReadPast(u)  BY <2>1 DEF HasReadPast
  <2>6. \A u \in Task : pc'[u] = "lost" =>
          depth'[u] = 0 \/ (pc[u] = "lost" /\ depth'[u] = depth[u])
    BY <2>1, <2>3
  <2>7. \A u \in Task : HasReadPast(u)' =>
          HasReadPast(u) /\ answer'[u] = answer[u] /\ request'[u] = request[u]
    BY <2>1, <2>4, <2>5
  <2>8. DOMAIN answer' = Task  BY <1>0, <2>1
  <2> QED  BY <2>1, <2>6, <2>7, <2>8, OthersKeepRecords
<1>3. ASSUME NEW t \in Task, Publish(t) PROVE RecordsInv'
  <2>1. UNCHANGED <<depth, request, answer>> /\ UNCHANGED dataVars  BY <1>3 DEF Publish
  <2>2. pc'[t] = "finished" /\ \A u \in Task \ {t} : pc'[u] = pc[u]
    BY <1>3 DEF Publish, Goto, ControlInv
  <2>3. \A u \in Task : HasReadPast(u)' => HasReadPast(u)  BY <2>1, <2>2 DEF HasReadPast
  <2> QED  BY <1>0, <2>1, <2>2, <2>3, OthersKeepRecords
<1>4. ASSUME NEW t \in Task, Get(t) PROVE RecordsInv'
  <2>1. UNCHANGED <<depth, request, answer, pc>> /\ UNCHANGED dataVars  BY <1>4 DEF Get
  <2>2. \A u \in Task : HasReadPast(u)' => HasReadPast(u)  BY <2>1 DEF HasReadPast
  <2> QED  BY <1>0, <2>1, <2>2, OthersKeepRecords
<1>5. ASSUME NEW t \in Task, Read(t) PROVE RecordsInv'
  <2>1. UNCHANGED dataVars /\ request[t].op = "read"
    BY <1>5 DEF Read, Acting
  <2>2. UNCHANGED <<depth, request>> /\ pc' = [pc EXCEPT ![t] = "unlock"]
    BY <1>5, ActFrames DEF Acts
  <2>3. pc'[t] = "unlock" /\ \A u \in Task \ {t} : pc'[u] = pc[u]  BY <2>2 DEF ControlInv
  <2>4. DOMAIN answer' = Task /\ \A u \in Task \ {t} : answer'[u] = answer[u]
    BY <1>0, <1>5 DEF Read, Answer
  <2>5. ~HasReadPast(t)'  BY <2>1, <2>2 DEF HasReadPast
  <2>6. \A u \in Task \ {t} : HasReadPast(u)' => HasReadPast(u)  BY <2>2, <2>3 DEF HasReadPast
  <2> QED  BY <2>1, <2>2, <2>3, <2>4, <2>5, <2>6, OthersKeepRecords
<1>6. ASSUME NEW t \in Task, Acts(t), ~Read(t) PROVE RecordsInv'
  <2>1. ChangeMade(t)  BY <1>6, ChangesMake DEF Acts
  <2>2. UNCHANGED <<depth, request>> /\ pc' = [pc EXCEPT ![t] = "unlock"]
    BY <1>6, ActFrames
  <2>3. UNCHANGED deepRead /\ DOMAIN answer' = Task
    <3>1. \A possible : Change(t, possible) => UNCHANGED deepRead /\ DOMAIN answer' = Task
      BY <1>0 DEF Change, Answer
    <3> QED  BY <1>6, <3>1 DEF Acts, AddPool, AddScheme, AddCollection, RemovePool, RemoveScheme,
          RemoveCollection, Insert, Update, RemoveKey, OnNewKey, OnOldKey
  <2> QED  BY <2>1, <2>2, <2>3, ChangeKeepsRecords
<1>7. ASSUME NEW t \in Task, ReadAt(t) PROVE RecordsInv'  BY <1>7, ReadAtKeepsRecords
<1>8. ASSUME NEW t \in Task, TakeMutex(t) PROVE RecordsInv'
  <2>1. /\ pc[t] = "lock" /\ UNCHANGED dataVars /\ UNCHANGED request
        /\ \A u \in Task \ {t} : pc'[u] = pc[u] /\ depth'[u] = depth[u] /\ answer'[u] = answer[u]
        /\ pc'[t] # "lost" /\ DOMAIN answer' = Task
    BY <1>0, <1>8 DEF TakeMutex, Goto, Answer, ControlInv
  <2>2. ~HasReadPast(t)'
    <3> SUFFICES ASSUME HasReadPast(t)' PROVE FALSE  OBVIOUS
    <3>1. request[t].op = "read_at" /\ pc'[t] \in {"unlock", "lost"}  BY <2>1 DEF HasReadPast
    <3>2. Depth(request[t].op) = 1  BY <3>1 DEF Depth
    <3>3. depth[t] \in Nat /\ depth[t] < 1  BY <2>1, <3>2 DEF ControlInv, Counted
    <3>4. depth[t] + 1 = 1  BY <3>3
    <3>5. pc'[t] = "act"  BY <1>8, <3>2, <3>4 DEF TakeMutex, Goto, ControlInv
    <3> QED  BY <3>1, <3>5
  <2>3. \A u \in Task \ {t} : HasReadPast(u)' => HasReadPast(u)  BY <2>1 DEF HasReadPast
  <2>4. \A u \in Task : pc'[u] = "lost" =>
          depth'[u] = 0 \/ (pc[u] = "lost" /\ depth'[u] = depth[u])
    BY <2>1
  <2>5. \A u \in Task : HasReadPast(u)' =>
          HasReadPast(u) /\ answer'[u] = answer[u] /\ request'[u] = request[u]
    BY <2>1, <2>2, <2>3
  <2> QED  BY <2>1, <2>4, <2>5, OthersKeepRecords
<1>9. CASE UNCHANGED vars
  <2>1. UNCHANGED <<depth, pc, request, answer>> /\ UNCHANGED dataVars  BY <1>9 DEF vars, dataVars
  <2>2. \A u \in Task : HasReadPast(u)' => HasReadPast(u)  BY <2>1 DEF HasReadPast
  <2> QED  BY <1>0, <2>1, <2>2, OthersKeepRecords
<1> QED  BY <1>1, <1>2, <1>3, <1>4, <1>5, <1>6, <1>7, <1>8, <1>9 DEF Next, Finished, TaskStep, Acts

\* The trees and the answers are those of the recorded changes.
THEOREM RecordsCorrect == Spec => []RecordsInv
BY InitRecords, StepKeepsRecords, ControlCorrect, TreesCorrect, PTL DEF Spec

\* The trees hold what the recorded changes make, until a read goes back behind a change of
\* directories, whatever the vectors do to the histories.
THEOREM ContentsRecorded == Spec => []ContentsAreRecorded
<1>1. RecordsInv => ContentsAreRecorded  BY DEF RecordsInv, Kept, ContentsAreRecorded, Current
<1> QED  BY <1>1, RecordsCorrect, PTL

\* Until then, a read of the past answers with the value of its time.
THEOREM PastRight == Spec => []PastReadsAreRight
<1>1. RecordsInv => PastReadsAreRight  BY DEF RecordsInv, PastReadsAreRight
<1> QED  BY <1>1, RecordsCorrect, PTL
===============================================================================

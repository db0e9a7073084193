------------------------------- MODULE BTreeProofs -------------------------------
(***************************************************************************)
(* Theorems about BTree for every set of integer keys and all degrees from *)
(* 2: at every step of insertion and erasure the tree holds the right keys *)
(* in order (KeysInOrder), between operations it is balanced (Balanced),   *)
(* and find_path finds each key it holds (Finds).                          *)
(*                                                                         *)
(* A tree of a height is defined from those a level lower (Trees), with    *)
(* the set of its keys and the way to the one node, if any, that may have  *)
(* too many keys or too few: the node at which the loop stands.  Each step *)
(* of a loop gives that node, or its parent, up for another tree of the    *)
(* same height and keys (Descend, Climb).  Heights and paths are what the  *)
(* inductions go over, as sets of numbers (Numbers) and of paths (Ways).   *)
(***************************************************************************)
EXTENDS BTree, SequenceTheorems, FiniteSetTheorems, WellFoundedInduction, TLAPS

\* What holds at the first of the numbers up to N, and at each when at the one before.
LEMMA UpTo ==
  ASSUME NEW N \in Nat, NEW Good, 0 \in Good, \A n \in 1..N : n - 1 \in Good => n \in Good
  PROVE  \A n \in 0..N : n \in Good
<1> DEFINE bad == {n \in 0..N : n \notin Good}
<1>1. SUFFICES ASSUME bad # {} PROVE FALSE  OBVIOUS
<1>2. bad \in SUBSET Nat  OBVIOUS
<1>3. PICK n \in bad : \A m \in bad : ~(m < n)
  <2> DEFINE R == OpToRel(<, Nat)
  <2>1. IsWellFoundedOn(R, Nat)  BY NatLessThanWellFounded
  <2>2. \A i, j \in Nat : i < j => <<i, j>> \in R  BY DEF OpToRel
  <2> HIDE DEF bad, R
  <2>3. \E n \in bad : \A m \in bad : ~(<<m, n>> \in R)  BY <1>1, <1>2, <2>1, WFMin
  <2> QED  BY <1>2, <2>2, <2>3
<1>4. n \in 1..N /\ n - 1 \in 0..N  BY <1>3
<1>5. n - 1 \notin bad  BY <1>3, <1>4
<1> QED  BY <1>3, <1>4, <1>5

\* And of all numbers.
LEMMA Numbers ==
  ASSUME NEW Good, 0 \in Good, \A n \in Nat : n \in Good => n + 1 \in Good
  PROVE  \A n \in Nat : n \in Good
<1> SUFFICES ASSUME NEW n \in Nat PROVE n \in Good  OBVIOUS
<1>1. \A m \in 1..n : m - 1 \in Good => m \in Good
  <2> SUFFICES ASSUME NEW m \in 1..n, m - 1 \in Good PROVE m \in Good  OBVIOUS
  <2>1. m - 1 \in Nat /\ (m - 1) + 1 = m  OBVIOUS
  <2> QED  BY <2>1
<1> QED  BY <1>1, UpTo

(***************************************************************************)
(* Sequences.                                                              *)
(***************************************************************************)

\* One sequence after another.
LEMMA After ==
  ASSUME NEW S, NEW p \in Seq(S), NEW q \in Seq(S)
  PROVE  /\ p \o q \in Seq(S) /\ Len(p \o q) = Len(p) + Len(q)
         /\ \A i \in 1..Len(p) : (p \o q)[i] = p[i]
         /\ \A i \in 1..Len(q) : (p \o q)[Len(p) + i] = q[i]
<1>1. /\ p \o q \in Seq(S) /\ Len(p \o q) = Len(p) + Len(q)
      /\ \A i \in 1..Len(p) + Len(q) : (p \o q)[i] = IF i <= Len(p) THEN p[i] ELSE q[i - Len(p)]
  BY ConcatProperties
<1>2. Len(p) \in Nat /\ Len(q) \in Nat  OBVIOUS
<1>3. ASSUME NEW i \in 1..Len(q) PROVE (p \o q)[Len(p) + i] = q[i]
  <2>1. Len(p) + i \in 1..Len(p) + Len(q) /\ ~(Len(p) + i <= Len(p)) /\ (Len(p) + i) - Len(p) = i
    BY <1>2
  <2> QED  BY <1>1, <2>1
<1> QED  BY <1>1, <1>2, <1>3

\* A part of a sequence.
LEMMA PartOf ==
  ASSUME NEW S, NEW q \in Seq(S), NEW a \in 1..Len(q) + 1, NEW b \in a - 1..Len(q)
  PROVE  /\ SubSeq(q, a, b) \in Seq(S) /\ Len(SubSeq(q, a, b)) = b - a + 1
         /\ \A i \in 1..b - a + 1 : SubSeq(q, a, b)[i] = q[a + i - 1]
<1>1. Len(q) \in Nat /\ a \in Int /\ b \in Int /\ \A i \in a..b : q[i] \in S
  <2>1. Len(q) \in Nat  OBVIOUS
  <2> QED  BY <2>1, ElementOfSeq
<1>2. /\ SubSeq(q, a, b) \in Seq(S)
      /\ Len(SubSeq(q, a, b)) = IF a <= b THEN b - a + 1 ELSE 0
      /\ \A i \in 1..b - a + 1 : SubSeq(q, a, b)[i] = q[a + i - 1]
  BY <1>1, SubSeqProperties
<1>3. (IF a <= b THEN b - a + 1 ELSE 0) = b - a + 1  BY <1>1
<1> QED  BY <1>2, <1>3

\* A sequence is known by its elements.
LEMMA SameSeq ==
  ASSUME NEW S, NEW T, NEW p \in Seq(S), NEW q \in Seq(T), Len(p) = Len(q),
         \A i \in 1..Len(p) : p[i] = q[i]
  PROVE  p = q
<1>1. p \in Seq(S \cup T) /\ q \in Seq(S \cup T)  BY SeqMonotonic
<1> QED  BY <1>1, SeqEqual

\* insert of std::vector.
LEMMA InsertedAt ==
  ASSUME NEW S, NEW q \in Seq(S), NEW i \in 1..(Len(q) + 1), NEW x \in S
  PROVE  /\ InsertAt(q, i, x) \in Seq(S) /\ Len(InsertAt(q, i, x)) = Len(q) + 1
         /\ InsertAt(q, i, x)[i] = x
         /\ \A j \in 1..(Len(q) + 1) : /\ j < i => InsertAt(q, i, x)[j] = q[j]
                                       /\ i < j => InsertAt(q, i, x)[j] = q[j - 1]
<1> DEFINE n == Len(q)
           a == SubSeq(q, 1, i - 1)
           b == SubSeq(q, i, n)
           c == a \o <<x>>
           d == c \o b
<1>1. n \in Nat /\ i \in 1..n + 1  OBVIOUS
<1>2. a \in Seq(S) /\ Len(a) = i - 1 /\ \A j \in 1..i - 1 : a[j] = q[j]
  <2>1. 1 \in 1..n + 1 /\ i - 1 \in 1 - 1..n /\ (i - 1) - 1 + 1 = i - 1  BY <1>1
  <2>2. /\ a \in Seq(S) /\ Len(a) = (i - 1) - 1 + 1
        /\ \A j \in 1..(i - 1) - 1 + 1 : a[j] = q[1 + j - 1]
    BY <2>1, PartOf
  <2> HIDE DEF a, n
  <2>3. \A j \in 1..i - 1 : 1 + j - 1 = j  BY <1>1
  <2> QED  BY <2>1, <2>2, <2>3
<1>3. b \in Seq(S) /\ Len(b) = n - i + 1 /\ \A j \in 1..n - i + 1 : b[j] = q[i + j - 1]
  <2>1. i \in 1..n + 1 /\ n \in i - 1..n  BY <1>1
  <2> QED  BY <2>1, PartOf
<1>4. /\ c \in Seq(S) /\ Len(c) = i /\ c[i] = x
      /\ \A j \in 1..i - 1 : c[j] = q[j]
  <2> HIDE DEF a, n
  <2>1. <<x>> \in Seq(S) /\ Len(<<x>>) = 1 /\ <<x>>[1] = x  OBVIOUS
  <2>2. /\ c \in Seq(S) /\ Len(c) = (i - 1) + 1
        /\ \A j \in 1..i - 1 : c[j] = a[j]
        /\ \A j \in 1..1 : c[(i - 1) + j] = <<x>>[j]
    BY <1>2, <2>1, After
  <2> HIDE DEF c
  <2>3. (i - 1) + 1 = i /\ 1 \in 1..1  BY <1>1
  <2> QED  BY <1>2, <2>1, <2>2, <2>3
<1> HIDE DEF a, b, c, n
<1>5. /\ d \in Seq(S) /\ Len(d) = i + (n - i + 1)
      /\ \A j \in 1..i : d[j] = c[j]
      /\ \A j \in 1..n - i + 1 : d[i + j] = b[j]
  <2>1. /\ d \in Seq(S) /\ Len(d) = Len(c) + Len(b)
        /\ \A j \in 1..Len(c) : d[j] = c[j]
        /\ \A j \in 1..Len(b) : d[Len(c) + j] = b[j]
    <3>1. c \in Seq(S) /\ b \in Seq(S)  BY <1>3, <1>4
    <3> QED  BY <3>1, After
  <2> HIDE DEF d
  <2> QED  BY <1>3, <1>4, <2>1
<1>6. InsertAt(q, i, x) = d  BY DEF InsertAt, a, b, c, n
<1> HIDE DEF d
<1>7. i + (n - i + 1) = n + 1  BY <1>1
<1>8. ASSUME NEW j \in 1..n + 1, i < j PROVE d[j] = q[j - 1]
  <2>1. j - i \in 1..n - i + 1 /\ i + (j - i) = j /\ i + (j - i) - 1 = j - 1  BY <1>1, <1>8
  <2> QED  BY <1>3, <1>5, <2>1
<1>9. ASSUME NEW j \in 1..n + 1, j < i PROVE d[j] = q[j]
  <2>1. j \in 1..i - 1 /\ j \in 1..i  BY <1>1, <1>9
  <2> QED  BY <1>4, <1>5, <2>1
<1>10. d[i] = x
  <2>1. i \in 1..i  BY <1>1
  <2> QED  BY <1>4, <1>5, <2>1
<1> QED  BY <1>5, <1>6, <1>7, <1>8, <1>9, <1>10 DEF n

\* erase of std::vector.
LEMMA RemovedAt ==
  ASSUME NEW S, NEW q \in Seq(S), NEW i \in 1..Len(q)
  PROVE  /\ RemoveAt(q, i) \in Seq(S) /\ Len(RemoveAt(q, i)) = Len(q) - 1
         /\ \A j \in 1..(Len(q) - 1) : RemoveAt(q, i)[j] = IF j < i THEN q[j] ELSE q[j + 1]
<1> DEFINE n == Len(q)
           a == SubSeq(q, 1, i - 1)
           b == SubSeq(q, i + 1, n)
           d == a \o b
<1>1. n \in Nat /\ i \in 1..n  OBVIOUS
<1>2. a \in Seq(S) /\ Len(a) = i - 1 /\ \A j \in 1..i - 1 : a[j] = q[j]
  <2>1. 1 \in 1..n + 1 /\ i - 1 \in 1 - 1..n /\ (i - 1) - 1 + 1 = i - 1  BY <1>1
  <2>2. /\ a \in Seq(S) /\ Len(a) = (i - 1) - 1 + 1
        /\ \A j \in 1..(i - 1) - 1 + 1 : a[j] = q[1 + j - 1]
    BY <2>1, PartOf
  <2> HIDE DEF a, n
  <2>3. \A j \in 1..i - 1 : 1 + j - 1 = j  BY <1>1
  <2> QED  BY <2>1, <2>2, <2>3
<1>3. b \in Seq(S) /\ Len(b) = n - i /\ \A j \in 1..n - i : b[j] = q[i + j]
  <2>1. i + 1 \in 1..n + 1 /\ n \in (i + 1) - 1..n /\ n - (i + 1) + 1 = n - i  BY <1>1
  <2>2. /\ b \in Seq(S) /\ Len(b) = n - (i + 1) + 1
        /\ \A j \in 1..n - (i + 1) + 1 : b[j] = q[(i + 1) + j - 1]
    BY <2>1, PartOf
  <2> HIDE DEF b, n
  <2>3. \A j \in 1..n - i : (i + 1) + j - 1 = i + j  BY <1>1
  <2> QED  BY <2>1, <2>2, <2>3, SMTT(60)
<1> HIDE DEF a, b, n
<1>5. /\ d \in Seq(S) /\ Len(d) = (i - 1) + (n - i)
      /\ \A j \in 1..i - 1 : d[j] = a[j]
      /\ \A j \in 1..n - i : d[(i - 1) + j] = b[j]
  <2>1. /\ d \in Seq(S) /\ Len(d) = Len(a) + Len(b)
        /\ \A j \in 1..Len(a) : d[j] = a[j]
        /\ \A j \in 1..Len(b) : d[Len(a) + j] = b[j]
    <3>1. a \in Seq(S) /\ b \in Seq(S)  BY <1>2, <1>3
    <3> QED  BY <3>1, After
  <2> HIDE DEF d
  <2> QED  BY <1>2, <1>3, <2>1
<1>6. RemoveAt(q, i) = d  BY DEF RemoveAt, a, b, n
<1> HIDE DEF d
<1>7. (i - 1) + (n - i) = n - 1  BY <1>1
<1>8. ASSUME NEW j \in 1..n - 1, ~(j < i) PROVE d[j] = q[j + 1]
  <2>1. j - i + 1 \in 1..n - i /\ (i - 1) + (j - i + 1) = j /\ i + (j - i + 1) = j + 1
    BY <1>1, <1>8
  <2> QED  BY <1>3, <1>5, <2>1
<1>9. ASSUME NEW j \in 1..n - 1, j < i PROVE d[j] = q[j]
  <2>1. j \in 1..i - 1  BY <1>1, <1>9
  <2> QED  BY <1>2, <1>5, <2>1
<1> QED  BY <1>5, <1>6, <1>7, <1>8, <1>9 DEF n

(***************************************************************************)
(* Nodes at the ends of paths.                                             *)
(***************************************************************************)

\* The nodes on the way along a path.
Way(f, node, p) ==
  /\ DOMAIN f = 0..Len(p) /\ f[0] = node
  /\ \A n \in 1..Len(p) : f[n] = KidAt(f[n - 1], p[n])

\* There is a way, and NodeAt is its end.
LEMMA WayExists ==
  ASSUME NEW node, NEW p \in Seq(Nat)
  PROVE  \E f : Way(f, node, p) /\ f[Len(p)] = NodeAt(node, p)
<1> DEFINE N == Len(p)
           Is(f, n) == DOMAIN f = 0..n /\ f[0] = node
                       /\ \A m \in 1..n : f[m] = KidAt(f[m - 1], p[m])
           good == {n \in Nat : \E f : Is(f, n)}
           Rec(f) == f = [n \in 0..N |-> IF n = 0 THEN node ELSE KidAt(f[n - 1], p[n])]
<1>0. N \in Nat  OBVIOUS
<1>1. 0 \in good
  <2>1. Is([n \in 0..0 |-> node], 0)  OBVIOUS
  <2> QED  BY <2>1
<1> HIDE DEF N
<1>2. ASSUME NEW n \in 1..N, n - 1 \in good PROVE n \in good
  <2>1. PICK f : Is(f, n - 1)  BY <1>2
  <2> DEFINE g == [m \in 0..n |-> IF m = n THEN KidAt(f[n - 1], p[n]) ELSE f[m]]
  <2>2. n \in Nat /\ n # 0 /\ n - 1 \in 0..n /\ n - 1 # n /\ 0 \in 0..n  BY <1>0
  <2>3. \A m \in 1..n : g[m] = KidAt(g[m - 1], p[m])
    <3> SUFFICES ASSUME NEW m \in 1..n PROVE g[m] = KidAt(g[m - 1], p[m])  OBVIOUS
    <3>1. m - 1 \in 0..n /\ m - 1 # n /\ g[m - 1] = f[m - 1]  BY <2>2
    <3>2. CASE m = n  BY <2>2, <3>1, <3>2
    <3>3. CASE m # n
      <4>1. m \in 1..(n - 1) /\ m \in 0..n  BY <2>2, <3>3
      <4>2. g[m] = f[m]  BY <3>3, <4>1
      <4>3. f[m] = KidAt(f[m - 1], p[m])  BY <2>1, <4>1
      <4> QED  BY <3>1, <4>2, <4>3
    <3> QED  BY <3>2, <3>3
  <2>4. g[0] = node  BY <2>1, <2>2
  <2>5. DOMAIN g = 0..n  OBVIOUS
  <2> HIDE DEF g
  <2>6. Is(g, n)  BY <2>3, <2>4, <2>5
  <2> HIDE DEF Is
  <2> QED  BY <2>2, <2>6
<1>3. N \in good
  <2> HIDE DEF good
  <2>1. \A n \in 0..N : n \in good  BY <1>0, <1>1, <1>2, UpTo
  <2>2. N \in 0..N  BY <1>0
  <2> QED  BY <2>1, <2>2
<1>4. \E f : Rec(f)
  <2>1. PICK f : Is(f, N)  BY <1>3
  <2> DEFINE g == [n \in 0..N |-> f[n]]
  <2>2. ASSUME NEW n \in 0..N
        PROVE g[n] = IF n = 0 THEN node ELSE KidAt(g[n - 1], p[n])
    <3>1. CASE n = 0  BY <2>1, <3>1
    <3>2. CASE n # 0
      <4>1. n \in 1..N /\ n - 1 \in 0..N  BY <1>0, <3>2
      <4>2. f[n] = KidAt(f[n - 1], p[n])  BY <2>1, <4>1
      <4> QED  BY <3>2, <4>1, <4>2
    <3> QED  BY <3>1, <3>2
  <2>3. g = [n \in 0..N |-> g[n]]  OBVIOUS
  <2> HIDE DEF g
  <2>4. Rec(g)  BY <2>2, <2>3
  <2> QED  BY <2>4
<1> DEFINE at == CHOOSE f : Rec(f)
<1>5. NodeAt(node, p) = at[N]  BY DEF NodeAt, N
<1>6. Rec(at)
  <2> HIDE DEF Rec
  <2> QED  BY <1>4
<1> HIDE DEF at
<1>7. Way(at, node, p)
  <2>0. DOMAIN at = 0..N  BY <1>6
  <2>1. at[0] = node
    <3>1. 0 \in 0..N  BY <1>0
    <3> QED  BY <1>6, <3>1
  <2>2. ASSUME NEW n \in 1..N PROVE at[n] = KidAt(at[n - 1], p[n])
    <3>1. n \in 0..N /\ n # 0  BY <1>0
    <3> QED  BY <1>6, <3>1
  <2> QED  BY <2>0, <2>1, <2>2 DEF Way, N
<1> QED  BY <1>5, <1>7 DEF N

\* There is only one.
LEMMA WayUnique ==
  ASSUME NEW node, NEW p \in Seq(Nat), NEW f, NEW g, Way(f, node, p), Way(g, node, p)
  PROVE  \A n \in 0..Len(p) : f[n] = g[n]
<1> DEFINE good == {n \in 0..Len(p) : f[n] = g[n]}
<1>1. Len(p) \in Nat  OBVIOUS
<1>2. 0 \in good  BY <1>1 DEF Way
<1>3. ASSUME NEW n \in 1..Len(p), n - 1 \in good PROVE n \in good
  <2>1. n \in 0..Len(p) /\ f[n - 1] = g[n - 1]  BY <1>1, <1>3
  <2>2. f[n] = KidAt(f[n - 1], p[n]) /\ g[n] = KidAt(g[n - 1], p[n])  BY DEF Way
  <2> QED  BY <2>1, <2>2
<1> HIDE DEF good
<1>4. \A n \in 0..Len(p) : n \in good  BY <1>1, <1>2, <1>3, UpTo
<1> QED  BY <1>4 DEF good

\* The nodes met on the way along a path are the ones NodeAt goes through.
LEMMA WayIs ==
  ASSUME NEW node, NEW p \in Seq(Nat), NEW f, Way(f, node, p)
  PROVE  f[Len(p)] = NodeAt(node, p)
<1>1. PICK g : Way(g, node, p) /\ g[Len(p)] = NodeAt(node, p)  BY WayExists
<1>2. Len(p) \in 0..Len(p)  OBVIOUS
<1> QED  BY <1>1, <1>2, WayUnique

\* The end of the empty path, and of a path after a path.
LEMMA NodeAtHere ==
  ASSUME NEW node
  PROVE  NodeAt(node, <<>>) = node
<1>1. <<>> \in Seq(Nat) /\ Len(<<>>) = 0  OBVIOUS
<1>2. PICK g : Way(g, node, <<>>) /\ g[Len(<<>>)] = NodeAt(node, <<>>)  BY <1>1, WayExists
<1> QED  BY <1>1, <1>2 DEF Way

\* NodeAt along two paths, one after the other.
LEMMA NodeAtAfter ==
  ASSUME NEW node, NEW p \in Seq(Nat), NEW q \in Seq(Nat)
  PROVE  NodeAt(node, p \o q) = NodeAt(NodeAt(node, p), q)
<1> DEFINE M == Len(p)
           N == Len(q)
           r == p \o q
<1>1. PICK f : Way(f, node, p) /\ f[M] = NodeAt(node, p)  BY WayExists
<1>2. PICK g : Way(g, NodeAt(node, p), q) /\ g[N] = NodeAt(NodeAt(node, p), q)  BY WayExists
<1> DEFINE h == [n \in 0..M + N |-> IF n <= M THEN f[n] ELSE g[n - M]]
<1>3. M \in Nat /\ N \in Nat  OBVIOUS
<1>4. /\ r \in Seq(Nat) /\ Len(r) = M + N
      /\ \A i \in 1..M : r[i] = p[i]
      /\ \A i \in 1..N : r[M + i] = q[i]
  BY After
<1>5. /\ f[0] = node /\ \A n \in 1..M : f[n] = KidAt(f[n - 1], p[n])
      /\ g[0] = f[M] /\ \A n \in 1..N : g[n] = KidAt(g[n - 1], q[n])
  BY <1>1, <1>2 DEF Way
<1> HIDE DEF M, N, r
<1>6. h[0] = node  BY <1>3, <1>5
<1>7. ASSUME NEW n \in 1..M + N PROVE h[n] = KidAt(h[n - 1], r[n])
  <2>1. n \in 0..M + N /\ n - 1 \in 0..M + N  BY <1>3
  <2>2. CASE n <= M
    <3>1. n \in 1..M /\ n - 1 <= M  BY <1>3, <2>2
    <3>2. h[n] = f[n] /\ h[n - 1] = f[n - 1]  BY <2>1, <3>1, <2>2
    <3> QED  BY <1>4, <1>5, <3>1, <3>2
  <2>3. CASE ~(n <= M)
    <3>1. n - M \in 1..N /\ M + (n - M) = n /\ (n - 1) - M = (n - M) - 1  BY <1>3, <2>3
    <3>2. h[n] = g[n - M]  BY <2>1, <2>3
    <3>3. h[n - 1] = g[(n - M) - 1]
      <4>1. CASE n - 1 <= M
        <5>1. n - 1 = M /\ (n - M) - 1 = 0  BY <1>3, <2>3, <4>1
        <5> QED  BY <1>5, <2>1, <5>1, <4>1
      <4>2. CASE ~(n - 1 <= M)  BY <2>1, <3>1, <4>2
      <4> QED  BY <4>1, <4>2
    <3>4. r[n] = q[n - M]  BY <1>4, <3>1
    <3>5. g[n - M] = KidAt(g[(n - M) - 1], q[n - M])  BY <1>5, <3>1
    <3> QED  BY <3>2, <3>3, <3>4, <3>5
  <2> QED  BY <2>2, <2>3
<1>8. DOMAIN h = 0..M + N  OBVIOUS
<1>9. h[M + N] = g[N]
  <2>1. M + N \in 0..M + N  BY <1>3
  <2>2. CASE N = 0
    <3>1. M + N = M  BY <1>3, <2>2
    <3> QED  BY <1>5, <2>1, <2>2, <3>1
  <2>3. CASE N # 0
    <3>1. ~(M + N <= M) /\ (M + N) - M = N  BY <1>3, <2>3
    <3> QED  BY <2>1, <3>1
  <2> QED  BY <2>2, <2>3
<1> HIDE DEF h
<1>10. Way(h, node, r)  BY <1>4, <1>6, <1>7, <1>8 DEF Way
<1>11. h[Len(r)] = NodeAt(node, r)  BY <1>4, <1>10, WayIs
<1> QED  BY <1>2, <1>4, <1>9, <1>11 DEF r

\* The end of a path of one step.
LEMMA NodeAtStep ==
  ASSUME NEW node, NEW i \in Nat
  PROVE  NodeAt(node, <<i>>) = KidAt(node, i)
<1>1. <<i>> \in Seq(Nat) /\ Len(<<i>>) = 1 /\ <<i>>[1] = i  OBVIOUS
<1>2. PICK g : Way(g, node, <<i>>) /\ g[Len(<<i>>)] = NodeAt(node, <<i>>)  BY <1>1, WayExists
<1>3. g[0] = node /\ g[1] = KidAt(g[1 - 1], <<i>>[1])
  <2>1. 1 \in 1..Len(<<i>>)  BY <1>1
  <2> QED  BY <1>2, <2>1 DEF Way
<1> QED  BY <1>1, <1>2, <1>3

\* NodeAt from the first child on.
LEMMA NodeAtHead ==
  ASSUME NEW node, NEW i \in Nat, NEW p \in Seq(Nat)
  PROVE  NodeAt(node, <<i>> \o p) = NodeAt(KidAt(node, i), p)
<1>1. <<i>> \in Seq(Nat)  OBVIOUS
<1>2. NodeAt(node, <<i>> \o p) = NodeAt(NodeAt(node, <<i>>), p)  BY <1>1, NodeAtAfter
<1>3. NodeAt(node, <<i>>) = KidAt(node, i)  BY NodeAtStep
<1> QED  BY <1>2, <1>3

\* A path that begins with a step.
LEMMA Stepped ==
  ASSUME NEW i \in Nat, NEW p \in Seq(Nat)
  PROVE  /\ <<i>> \o p \in Seq(Nat) /\ Len(<<i>> \o p) = Len(p) + 1 /\ <<i>> \o p # <<>>
         /\ (<<i>> \o p)[1] = i /\ Tail(<<i>> \o p) = p
         /\ \A n \in 1..Len(p) : (<<i>> \o p)[n + 1] = p[n]
         /\ \A n \in 0..Len(p) : SubSeq(<<i>> \o p, 1, n + 1) = <<i>> \o SubSeq(p, 1, n)
<1> DEFINE o == <<i>>
           r == o \o p
<1>1. o \in Seq(Nat) /\ Len(o) = 1 /\ o[1] = i  OBVIOUS
<1>2. Len(p) \in Nat  OBVIOUS
<1> HIDE DEF o
<1>3. /\ r \in Seq(Nat) /\ Len(r) = 1 + Len(p)
      /\ \A n \in 1..1 : r[n] = o[n]
      /\ \A n \in 1..Len(p) : r[1 + n] = p[n]
  <2>1. o \in Seq(Nat)  BY <1>1
  <2>2. /\ r \in Seq(Nat) /\ Len(r) = Len(o) + Len(p)
        /\ \A n \in 1..Len(o) : r[n] = o[n]
        /\ \A n \in 1..Len(p) : r[Len(o) + n] = p[n]
    BY <2>1, After
  <2> HIDE DEF r
  <2> QED  BY <1>1, <2>2
<1> HIDE DEF r
<1>4. r[1] = i /\ Len(r) = Len(p) + 1 /\ \A n \in 1..Len(p) : r[n + 1] = p[n]
  <2>1. 1 \in 1..1 /\ 1 + Len(p) = Len(p) + 1 /\ \A n \in 1..Len(p) : 1 + n = n + 1  BY <1>2
  <2> QED  BY <1>1, <1>3, <2>1
<1>5. r # <<>>  BY <1>2, <1>4
<1>6. Tail(r) = p
  <2>1. /\ Tail(r) \in Seq(Nat) /\ Len(Tail(r)) = Len(r) - 1
        /\ \A n \in 1..Len(Tail(r)) : Tail(r)[n] = r[n + 1]
    BY <1>3, <1>5, HeadTailProperties
  <2>2. Len(Tail(r)) = Len(p) /\ \A n \in 1..Len(Tail(r)) : Tail(r)[n] = p[n]
    BY <1>2, <1>4, <2>1, SMTT(60)
  <2> QED  BY <2>1, <2>2, SameSeq
<1>7. ASSUME NEW n \in 0..Len(p) PROVE SubSeq(r, 1, n + 1) = o \o SubSeq(p, 1, n)
  <2> DEFINE a == SubSeq(r, 1, n + 1)
             b == SubSeq(p, 1, n)
             c == o \o b
  <2>1. /\ 1 \in 1..Len(r) + 1 /\ n + 1 \in 1 - 1..Len(r) /\ (n + 1) - 1 + 1 = n + 1
        /\ 1 \in 1..Len(p) + 1 /\ n \in 1 - 1..Len(p) /\ n - 1 + 1 = n
    BY <1>2, <1>4
  <2>2. a \in Seq(Nat) /\ Len(a) = n + 1 /\ \A m \in 1..n + 1 : a[m] = r[m]
    <3>1. a \in Seq(Nat) /\ Len(a) = (n + 1) - 1 + 1 /\ \A m \in 1..(n + 1) - 1 + 1 : a[m] = r[1 + m - 1]
      BY <1>3, <2>1, PartOf
    <3> HIDE DEF a
    <3>2. \A m \in 1..n + 1 : 1 + m - 1 = m  OBVIOUS
    <3> QED  BY <2>1, <3>1, <3>2
  <2>3. b \in Seq(Nat) /\ Len(b) = n /\ \A m \in 1..n : b[m] = p[m]
    <3>1. b \in Seq(Nat) /\ Len(b) = n - 1 + 1 /\ \A m \in 1..n - 1 + 1 : b[m] = p[1 + m - 1]
      BY <1>3, <2>1, PartOf
    <3> HIDE DEF b
    <3>2. \A m \in 1..n : 1 + m - 1 = m  OBVIOUS
    <3> QED  BY <2>1, <3>1, <3>2
  <2> HIDE DEF a, b
  <2>4. /\ c \in Seq(Nat) /\ Len(c) = 1 + Len(b)
        /\ \A m \in 1..1 : c[m] = o[m]
        /\ \A m \in 1..Len(b) : c[1 + m] = b[m]
    <3>1. b \in Seq(Nat) /\ o \in Seq(Nat)  BY <1>1, <2>3
    <3>2. /\ c \in Seq(Nat) /\ Len(c) = Len(o) + Len(b)
          /\ \A m \in 1..Len(o) : c[m] = o[m]
          /\ \A m \in 1..Len(b) : c[Len(o) + m] = b[m]
      BY <3>1, After
    <3> HIDE DEF c
    <3> QED  BY <1>1, <3>2
  <2> HIDE DEF c
  <2>5. ASSUME NEW m \in 1..n + 1 PROVE a[m] = c[m]
    <3>1. CASE m = 1  BY <1>1, <1>4, <2>2, <2>4, <3>1
    <3>2. CASE m # 1
      <4>1. m - 1 \in 1..n /\ m - 1 \in 1..Len(p) /\ (m - 1) + 1 = m /\ 1 + (m - 1) = m
        BY <1>2, <3>2
      <4>2. a[m] = p[m - 1]  BY <1>4, <2>2, <4>1
      <4>3. c[m] = b[m - 1]  BY <2>3, <2>4, <4>1
      <4> QED  BY <2>3, <4>1, <4>2, <4>3
    <3> QED  BY <3>1, <3>2
  <2>6. Len(c) = n + 1  BY <2>3, <2>4
  <2>7. a = c  BY <2>2, <2>4, <2>5, <2>6, SameSeq
  <2> QED  BY <2>7 DEF a, b, c
<1> QED  BY <1>3, <1>4, <1>5, <1>6, <1>7 DEF r, o

\* A path that is not empty is a step and the rest.
LEMMA FirstStep ==
  ASSUME NEW p \in Seq(Nat), p # <<>>
  PROVE  p[1] \in Nat /\ Tail(p) \in Seq(Nat) /\ p = <<p[1]>> \o Tail(p) /\ Len(p) = Len(Tail(p)) + 1
<1>1. /\ Tail(p) \in Seq(Nat) /\ Len(Tail(p)) = Len(p) - 1
      /\ \A i \in 1..Len(Tail(p)) : Tail(p)[i] = p[i + 1]
  BY HeadTailProperties
<1>2. Len(p) \in Nat \ {0}  BY EmptySeq
<1>3. p[1] \in Nat
  <2>1. 1 \in 1..Len(p)  BY <1>2
  <2> QED  BY <2>1, ElementOfSeq
<1> DEFINE c == <<p[1]>> \o Tail(p)
<1>4. /\ c \in Seq(Nat) /\ Len(c) = Len(Tail(p)) + 1 /\ c[1] = p[1]
      /\ \A n \in 1..Len(Tail(p)) : c[n + 1] = Tail(p)[n]
  BY <1>1, <1>3, Stepped
<1> HIDE DEF c
<1>5. ASSUME NEW m \in 1..Len(p) PROVE p[m] = c[m]
  <2>1. CASE m = 1  BY <1>4, <2>1
  <2>2. CASE m # 1
    <3>1. m - 1 \in 1..Len(Tail(p)) /\ (m - 1) + 1 = m  BY <1>1, <1>2, <2>2
    <3> QED  BY <1>1, <1>4, <3>1
  <2> QED  BY <2>1, <2>2
<1>6. Len(p) = Len(c)  BY <1>1, <1>2, <1>4
<1>7. p = c  BY <1>4, <1>5, <1>6, SameSeq
<1> QED  BY <1>1, <1>2, <1>3, <1>7 DEF c

\* The nodes of a tree with another node at the end of a path, from the end up.
Chain(c, node, p, new) ==
  /\ DOMAIN c = 0..Len(p) /\ c[Len(p)] = new
  /\ \A n \in 0..Len(p) - 1 :
       c[n] = [NodeAt(node, SubSeq(p, 1, n)) EXCEPT !.kids[p[n + 1] + 1] = c[n + 1]]

\* The function PutAt builds from the end of a path upwards exists.
LEMMA ChainExists ==
  ASSUME NEW node, NEW p \in Seq(Nat), NEW new
  PROVE  \E c : Chain(c, node, p, new) /\ c[0] = PutAt(node, p, new)
<1> DEFINE N == Len(p)
           Over(n, x) == [NodeAt(node, SubSeq(p, 1, n)) EXCEPT !.kids[p[n + 1] + 1] = x]
           Is(c, n) == /\ DOMAIN c = N - n..N /\ c[N] = new
                       /\ \A m \in N - n..N - 1 : c[m] = Over(m, c[m + 1])
           good == {n \in Nat : \E c : Is(c, n)}
           Rec(c) == c = [n \in 0..N |-> IF n = N THEN new
                           ELSE [NodeAt(node, SubSeq(p, 1, n)) EXCEPT !.kids[p[n + 1] + 1] = c[n + 1]]]
<1>0. N \in Nat  OBVIOUS
<1> HIDE DEF N, Over
<1>1. 0 \in good
  <2>1. Is([n \in N..N |-> new], 0)  BY <1>0
  <2> HIDE DEF Is
  <2> QED  BY <2>1
<1>2. ASSUME NEW n \in 1..N, n - 1 \in good PROVE n \in good
  <2>1. PICK c : Is(c, n - 1)  BY <1>2
  <2> DEFINE k == N - n
             g == [m \in k..N |-> IF m = k THEN Over(k, c[k + 1]) ELSE c[m]]
  <2>2. k \in 0..N - 1 /\ N - (n - 1) = k + 1 /\ N # k /\ N \in k..N /\ n \in Nat /\ N - n = k  BY <1>0
  <2> HIDE DEF k
  <2>3. ASSUME NEW m \in k..N - 1 PROVE g[m] = Over(m, g[m + 1])
    <3>1. m + 1 \in k..N /\ m + 1 # k /\ g[m + 1] = c[m + 1] /\ m \in k..N  BY <1>0, <2>2
    <3>2. CASE m = k  BY <3>1, <3>2
    <3>3. CASE m # k
      <4>1. m \in k + 1..N - 1  BY <2>2, <3>3
      <4>2. g[m] = c[m]  BY <3>1, <3>3
      <4>3. c[m] = Over(m, c[m + 1])  BY <2>1, <2>2, <4>1
      <4> QED  BY <3>1, <4>2, <4>3
    <3> QED  BY <3>2, <3>3
  <2>4. g[N] = new  BY <2>1, <2>2
  <2>5. DOMAIN g = k..N  OBVIOUS
  <2> HIDE DEF g
  <2>6. Is(g, n)  BY <2>2, <2>3, <2>4, <2>5
  <2> HIDE DEF Is
  <2> QED  BY <2>2, <2>6
<1>3. N \in good
  <2> HIDE DEF good
  <2>1. \A n \in 0..N : n \in good  BY <1>0, <1>1, <1>2, UpTo
  <2>2. N \in 0..N  BY <1>0
  <2> QED  BY <2>1, <2>2
<1>4. \E c : Rec(c)
  <2>1. PICK c : Is(c, N)  BY <1>3
  <2>0. N - N = 0  BY <1>0
  <2> DEFINE g == [n \in 0..N |-> c[n]]
  <2>2. ASSUME NEW n \in 0..N
        PROVE g[n] = IF n = N THEN new
                     ELSE [NodeAt(node, SubSeq(p, 1, n)) EXCEPT !.kids[p[n + 1] + 1] = g[n + 1]]
    <3>1. CASE n = N  BY <2>1, <3>1
    <3>2. CASE n # N
      <4>1. n \in 0..N - 1 /\ n + 1 \in 0..N  BY <1>0, <3>2
      <4>2. c[n] = Over(n, c[n + 1])  BY <2>0, <2>1, <4>1
      <4>3. g[n] = c[n] /\ g[n + 1] = c[n + 1]  BY <4>1
      <4> HIDE DEF g
      <4> QED  BY <3>2, <4>1, <4>2, <4>3 DEF Over
    <3> QED  BY <3>1, <3>2
  <2>3. g = [n \in 0..N |-> g[n]]  OBVIOUS
  <2> HIDE DEF g
  <2>4. Rec(g)  BY <2>2, <2>3
  <2> QED  BY <2>4
<1> DEFINE from == CHOOSE c : Rec(c)
<1>5. PutAt(node, p, new) = from[0]  BY DEF PutAt, N
<1>6. Rec(from)
  <2> HIDE DEF Rec
  <2> QED  BY <1>4
<1> HIDE DEF from
<1>7. Chain(from, node, p, new)
  <2>0. DOMAIN from = 0..N  BY <1>6
  <2>1. from[N] = new
    <3>1. N \in 0..N  BY <1>0
    <3> QED  BY <1>6, <3>1
  <2>2. ASSUME NEW n \in 0..N - 1
        PROVE from[n] = [NodeAt(node, SubSeq(p, 1, n)) EXCEPT !.kids[p[n + 1] + 1] = from[n + 1]]
    <3>1. n \in 0..N /\ n # N  BY <1>0
    <3> QED  BY <1>6, <3>1
  <2> QED  BY <2>0, <2>1, <2>2 DEF Chain, N
<1> QED  BY <1>5, <1>7

\* There is only one such function.
LEMMA ChainUnique ==
  ASSUME NEW node, NEW p \in Seq(Nat), NEW new, NEW c, NEW d,
         Chain(c, node, p, new), Chain(d, node, p, new)
  PROVE  c[0] = d[0]
<1> DEFINE N == Len(p)
           good == {n \in 0..N : c[N - n] = d[N - n]}
<1>1. N \in Nat  OBVIOUS
<1> HIDE DEF N
<1>2. 0 \in good
  <2>1. 0 \in 0..N /\ N - 0 = N  BY <1>1
  <2> QED  BY <2>1 DEF Chain, N
<1>3. ASSUME NEW n \in 1..N, n - 1 \in good PROVE n \in good
  <2>1. n \in 0..N /\ N - n \in 0..N - 1 /\ (N - n) + 1 = N - (n - 1)  BY <1>1
  <2>2. c[(N - n) + 1] = d[(N - n) + 1]  BY <1>3, <2>1
  <2>3. /\ c[N - n] = [NodeAt(node, SubSeq(p, 1, N - n)) EXCEPT !.kids[p[(N - n) + 1] + 1] = c[(N - n) + 1]]
        /\ d[N - n] = [NodeAt(node, SubSeq(p, 1, N - n)) EXCEPT !.kids[p[(N - n) + 1] + 1] = d[(N - n) + 1]]
    BY <2>1 DEF Chain, N
  <2>4. c[N - n] = d[N - n]  BY <2>2, <2>3
  <2> QED  BY <2>1, <2>4
<1> HIDE DEF good
<1>4. \A n \in 0..N : n \in good  BY <1>1, <1>2, <1>3, UpTo
<1>5. N \in good /\ N - N = 0  BY <1>1, <1>4
<1> QED  BY <1>5 DEF good

\* A node put at the root of a tree is the tree.
LEMMA PutAtHere ==
  ASSUME NEW node, NEW new
  PROVE  PutAt(node, <<>>, new) = new
<1>1. <<>> \in Seq(Nat) /\ Len(<<>>) = 0  OBVIOUS
<1>2. PICK c : Chain(c, node, <<>>, new) /\ c[0] = PutAt(node, <<>>, new)  BY <1>1, ChainExists
<1> QED  BY <1>1, <1>2 DEF Chain

WithKid(node, i, kid) == [node EXCEPT !.kids[i + 1] = kid]

\* A node put below a child changes that child only.
LEMMA PutAtHead ==
  ASSUME NEW node, NEW i \in Nat, NEW p \in Seq(Nat), NEW new
  PROVE  PutAt(node, <<i>> \o p, new) = WithKid(node, i, PutAt(KidAt(node, i), p, new))
<1> DEFINE N == Len(p)
           r == <<i>> \o p
           kid == KidAt(node, i)
<1>1. PICK c : Chain(c, kid, p, new) /\ c[0] = PutAt(kid, p, new)  BY ChainExists
<1> DEFINE d == [n \in 0..N + 1 |-> IF n = 0 THEN [node EXCEPT !.kids[i + 1] = c[0]] ELSE c[n - 1]]
<1>2. N \in Nat  OBVIOUS
<1>3. /\ r \in Seq(Nat) /\ Len(r) = N + 1 /\ r[1] = i
      /\ \A n \in 1..N : r[n + 1] = p[n]
      /\ \A n \in 0..N : SubSeq(r, 1, n + 1) = <<i>> \o SubSeq(p, 1, n)
  BY Stepped, ZenonT(60)
<1>4. /\ c[N] = new
      /\ \A n \in 0..N - 1 : c[n] = [NodeAt(kid, SubSeq(p, 1, n)) EXCEPT !.kids[p[n + 1] + 1] = c[n + 1]]
  BY <1>1 DEF Chain
<1>5. ASSUME NEW n \in 0..N PROVE NodeAt(kid, SubSeq(p, 1, n)) = NodeAt(node, SubSeq(r, 1, n + 1))
  <2>1. 1 \in 1..N + 1 /\ n \in 1 - 1..N  BY <1>2
  <2>2. SubSeq(p, 1, n) \in Seq(Nat)  BY <2>1, PartOf
  <2> HIDE DEF kid
  <2>3. NodeAt(node, <<i>> \o SubSeq(p, 1, n)) = NodeAt(kid, SubSeq(p, 1, n))  BY <2>2, NodeAtHead DEF kid
  <2> QED  BY <1>3, <2>3
<1> HIDE DEF N, r, kid
<1>6. DOMAIN d = 0..N + 1  OBVIOUS
<1>7. d[N + 1] = new
  <2>1. N + 1 \in 0..N + 1 /\ N + 1 # 0 /\ (N + 1) - 1 = N  BY <1>2
  <2> QED  BY <1>4, <2>1
<1>8. d[0] = [node EXCEPT !.kids[i + 1] = c[0]]
  <2>1. 0 \in 0..N + 1  BY <1>2
  <2> QED  BY <2>1
<1>9. ASSUME NEW n \in 0..N PROVE d[n + 1] = c[n]
  <2>1. n + 1 \in 0..N + 1 /\ n + 1 # 0 /\ (n + 1) - 1 = n  BY <1>2
  <2> QED  BY <2>1
<1> HIDE DEF d
<1>10. ASSUME NEW n \in 0..N
       PROVE d[n] = [NodeAt(node, SubSeq(r, 1, n)) EXCEPT !.kids[r[n + 1] + 1] = d[n + 1]]
  <2>1. CASE n = 0
    <3>1. SubSeq(r, 1, 0) = <<>>  BY SubSeqEmpty
    <3>2. NodeAt(node, SubSeq(r, 1, 0)) = node  BY <3>1, NodeAtHere
    <3>3. 0 \in 0..N  BY <1>2
    <3>4. d[0 + 1] = c[0]  BY <1>9, <3>3
    <3>6. r[0 + 1] + 1 = i + 1 /\ d[0 + 1] = c[0]  BY <1>3, <3>4
    <3>5. d[0] = [node EXCEPT !.kids[r[0 + 1] + 1] = d[0 + 1]]  BY <1>8, <3>6
    <3> QED  BY <2>1, <3>2, <3>5
  <2>2. CASE n # 0
    <3> DEFINE m == n - 1
    <3>1. m \in 0..N - 1 /\ m \in 0..N /\ m + 1 = n /\ m + 1 \in 1..N /\ m + 1 \in 0..N  BY <1>2, <2>2
    <3> HIDE DEF m
    <3>2. c[m] = [NodeAt(kid, SubSeq(p, 1, m)) EXCEPT !.kids[p[m + 1] + 1] = c[m + 1]]  BY <1>4, <3>1
    <3>3. d[n] = c[m] /\ d[n + 1] = c[m + 1]  BY <1>9, <3>1
    <3>4. NodeAt(kid, SubSeq(p, 1, m)) = NodeAt(node, SubSeq(r, 1, n))  BY <1>5, <3>1
    <3>5. r[n + 1] = p[m + 1]  BY <1>3, <3>1
    <3> QED  BY <3>2, <3>3, <3>4, <3>5
  <2> QED  BY <2>1, <2>2
<1>11. Chain(d, node, r, new)
  <2>1. \A n \in 0..Len(r) - 1 : n \in 0..N  BY <1>2, <1>3
  <2> QED  BY <1>3, <1>6, <1>7, <1>10, <2>1 DEF Chain
<1>12. PICK e : Chain(e, node, r, new) /\ e[0] = PutAt(node, r, new)  BY <1>3, ChainExists
<1>13. d[0] = e[0]  BY <1>3, <1>11, <1>12, ChainUnique
<1>14. d[0] = WithKid(node, i, c[0])  BY <1>8 DEF WithKid
<1> QED  BY <1>1, <1>12, <1>13, <1>14 DEF r, kid

(***************************************************************************)
(* All ways down from a node.                                              *)
(***************************************************************************)

\* Each step of a path is to one of the children there.
Real(node, p) == \A n \in 1..Len(p) : p[n] \in 0..Len(NodeAt(node, SubSeq(p, 1, n - 1)).kids) - 1

\* The empty path is one of every tree.
LEMMA RealHere ==
  ASSUME NEW node
  PROVE  Real(node, <<>>)
BY DEF Real

\* A path of a tree is a child and a path of the child.
LEMMA RealHead ==
  ASSUME NEW node, NEW i \in Nat, NEW p \in Seq(Nat)
  PROVE  Real(node, <<i>> \o p) <=> i \in 0..Len(node.kids) - 1 /\ Real(KidAt(node, i), p)
<1> DEFINE N == Len(p)
           r == <<i>> \o p
           kid == KidAt(node, i)
<1>1. N \in Nat  OBVIOUS
<1>2. /\ r \in Seq(Nat) /\ Len(r) = N + 1 /\ r[1] = i
      /\ \A n \in 1..N : r[n + 1] = p[n]
      /\ \A n \in 0..N : SubSeq(r, 1, n + 1) = <<i>> \o SubSeq(p, 1, n)
  BY Stepped
<1>3. ASSUME NEW n \in 0..N PROVE NodeAt(kid, SubSeq(p, 1, n)) = NodeAt(node, SubSeq(r, 1, n + 1))
  <2>1. 1 \in 1..N + 1 /\ n \in 1 - 1..N  BY <1>1
  <2>2. SubSeq(p, 1, n) \in Seq(Nat)  BY <2>1, PartOf
  <2> HIDE DEF kid
  <2>3. NodeAt(node, <<i>> \o SubSeq(p, 1, n)) = NodeAt(kid, SubSeq(p, 1, n))  BY <2>2, NodeAtHead DEF kid
  <2> QED  BY <1>2, <2>3
<1>4. NodeAt(node, SubSeq(r, 1, 1 - 1)) = node
  <2>1. SubSeq(r, 1, 1 - 1) = <<>>  BY SubSeqEmpty
  <2> QED  BY <2>1, NodeAtHere
<1> HIDE DEF N, r, kid
<1>5. Real(node, r) <=> \A n \in 1..N + 1 : r[n] \in 0..Len(NodeAt(node, SubSeq(r, 1, n - 1)).kids) - 1
  BY <1>2 DEF Real
<1>6. Real(kid, p) <=> \A n \in 1..N : p[n] \in 0..Len(NodeAt(kid, SubSeq(p, 1, n - 1)).kids) - 1
  BY DEF Real, N
<1>7. ASSUME NEW n \in 1..N
      PROVE  /\ n + 1 \in 1..N + 1 /\ r[n + 1] = p[n]
             /\ NodeAt(kid, SubSeq(p, 1, n - 1)) = NodeAt(node, SubSeq(r, 1, (n + 1) - 1))
  <2>1. n - 1 \in 0..N /\ (n - 1) + 1 = (n + 1) - 1 /\ n + 1 \in 1..N + 1  BY <1>1
  <2> QED  BY <1>2, <1>3, <2>1
<1>8. ASSUME Real(node, r) PROVE i \in 0..Len(node.kids) - 1 /\ Real(kid, p)
  <2>1. 1 \in 1..N + 1  BY <1>1
  <2>2. r[1] \in 0..Len(NodeAt(node, SubSeq(r, 1, 1 - 1)).kids) - 1  BY <1>5, <1>8, <2>1
  <2>3. i \in 0..Len(node.kids) - 1  BY <1>2, <1>4, <2>2
  <2>4. ASSUME NEW n \in 1..N PROVE p[n] \in 0..Len(NodeAt(kid, SubSeq(p, 1, n - 1)).kids) - 1
    <3>1. r[n + 1] \in 0..Len(NodeAt(node, SubSeq(r, 1, (n + 1) - 1)).kids) - 1  BY <1>5, <1>7, <1>8
    <3> QED  BY <1>7, <3>1
  <2> QED  BY <1>6, <2>3, <2>4
<1>9. ASSUME i \in 0..Len(node.kids) - 1, Real(kid, p) PROVE Real(node, r)
  <2> SUFFICES ASSUME NEW m \in 1..N + 1
               PROVE  r[m] \in 0..Len(NodeAt(node, SubSeq(r, 1, m - 1)).kids) - 1
    BY <1>5
  <2>1. CASE m = 1  BY <1>2, <1>4, <1>9, <2>1
  <2>2. CASE m # 1
    <3> DEFINE n == m - 1
    <3>1. n \in 1..N /\ n + 1 = m  BY <1>1, <2>2
    <3> HIDE DEF n
    <3>2. p[n] \in 0..Len(NodeAt(kid, SubSeq(p, 1, n - 1)).kids) - 1  BY <1>6, <1>9, <3>1
    <3>3. r[n + 1] = p[n] /\ NodeAt(kid, SubSeq(p, 1, n - 1)) = NodeAt(node, SubSeq(r, 1, (n + 1) - 1))
      BY <1>7, <3>1
    <3> QED  BY <3>1, <3>2, <3>3
  <2> QED  BY <2>1, <2>2
<1> QED  BY <1>8, <1>9 DEF r, kid

\* A path is a real one and a step more.
LEMMA RealAppend ==
  ASSUME NEW node, NEW p \in Seq(Nat), NEW i \in Nat
  PROVE  Real(node, Append(p, i)) <=> Real(node, p) /\ i \in 0..Len(NodeAt(node, p).kids) - 1
<1> DEFINE N == Len(p)
           r == Append(p, i)
<1>1. N \in Nat  OBVIOUS
<1>2. /\ r \in Seq(Nat) /\ Len(r) = N + 1 /\ r[N + 1] = i
      /\ \A n \in 1..N : r[n] = p[n]
  BY AppendProperties
<1> HIDE DEF N, r
<1>3. ASSUME NEW n \in 0..N PROVE SubSeq(r, 1, n) = SubSeq(p, 1, n)
  <2> DEFINE a == SubSeq(r, 1, n)
             b == SubSeq(p, 1, n)
  <2>1. 1 \in 1..Len(r) + 1 /\ n \in 1 - 1..Len(r) /\ n - 1 + 1 = n  BY <1>1, <1>2
  <2>2. a \in Seq(Nat) /\ Len(a) = n - 1 + 1 /\ \A m \in 1..n - 1 + 1 : a[m] = r[1 + m - 1]
    BY <1>2, <2>1, PartOf
  <2>3. 1 \in 1..Len(p) + 1 /\ n \in 1 - 1..Len(p)  BY <1>1 DEF N
  <2>4. b \in Seq(Nat) /\ Len(b) = n - 1 + 1 /\ \A m \in 1..n - 1 + 1 : b[m] = p[1 + m - 1]
    BY <2>3, PartOf
  <2> HIDE DEF a, b
  <2>5. ASSUME NEW m \in 1..Len(a) PROVE a[m] = b[m]
    <3>1. m \in 1..n - 1 + 1 /\ 1 + m - 1 = m /\ m \in 1..N  BY <1>1, <2>1, <2>2
    <3>2. a[m] = r[m] /\ b[m] = p[m]  BY <2>2, <2>4, <3>1
    <3> QED  BY <1>2, <3>1, <3>2
  <2>6. a = b  BY <2>2, <2>4, <2>5, SameSeq
  <2> QED  BY <2>6 DEF a, b
<1>4. SubSeq(p, 1, N) = p  BY SubSeqFull DEF N
<1>5. Real(node, r) <=> \A n \in 1..N + 1 : r[n] \in 0..Len(NodeAt(node, SubSeq(r, 1, n - 1)).kids) - 1
  BY <1>2 DEF Real
<1>6. Real(node, p) <=> \A n \in 1..N : p[n] \in 0..Len(NodeAt(node, SubSeq(p, 1, n - 1)).kids) - 1
  BY DEF Real, N
<1>7. ASSUME NEW n \in 1..N + 1 PROVE SubSeq(r, 1, n - 1) = SubSeq(p, 1, n - 1)
  <2>1. n - 1 \in 0..N  BY <1>1
  <2> QED  BY <1>3, <2>1
<1>8. NodeAt(node, SubSeq(r, 1, (N + 1) - 1)) = NodeAt(node, p)
  <2>1. N + 1 \in 1..N + 1 /\ (N + 1) - 1 = N  BY <1>1
  <2> QED  BY <1>4, <1>7, <2>1
<1>9. \A n \in 1..N + 1 : n \in 1..N \/ n = N + 1  BY <1>1
<1>10. N + 1 \in 1..N + 1 /\ \A n \in 1..N : n \in 1..N + 1  BY <1>1
<1>11. ASSUME Real(node, r) PROVE Real(node, p) /\ i \in 0..Len(NodeAt(node, p).kids) - 1
  <2>1. r[N + 1] \in 0..Len(NodeAt(node, SubSeq(r, 1, (N + 1) - 1)).kids) - 1  BY <1>5, <1>10, <1>11
  <2>2. ASSUME NEW n \in 1..N PROVE p[n] \in 0..Len(NodeAt(node, SubSeq(p, 1, n - 1)).kids) - 1
    <3>1. r[n] \in 0..Len(NodeAt(node, SubSeq(r, 1, n - 1)).kids) - 1  BY <1>5, <1>10, <1>11
    <3> QED  BY <1>2, <1>7, <1>10, <3>1
  <2> QED  BY <1>2, <1>6, <1>8, <2>1, <2>2
<1>12. ASSUME Real(node, p), i \in 0..Len(NodeAt(node, p).kids) - 1 PROVE Real(node, r)
  <2> SUFFICES ASSUME NEW n \in 1..N + 1
               PROVE  r[n] \in 0..Len(NodeAt(node, SubSeq(r, 1, n - 1)).kids) - 1
    BY <1>5
  <2>1. CASE n = N + 1  BY <1>2, <1>8, <1>12, <2>1
  <2>2. CASE n \in 1..N
    <3>1. p[n] \in 0..Len(NodeAt(node, SubSeq(p, 1, n - 1)).kids) - 1  BY <1>6, <1>12, <2>2
    <3> QED  BY <1>2, <1>7, <2>2, <3>1
  <2> QED  BY <1>9, <2>1, <2>2
<1> QED  BY <1>11, <1>12 DEF r

Reals(node, n) == {p \in Seq(Nat) : Len(p) = n /\ Real(node, p)}

\* Real paths grow by a step.
LEMMA RealsGrow ==
  ASSUME NEW node, NEW n \in Nat \ {0}
  PROVE  Reals(node, n)
           = UNION {{Append(p, i) : i \in 0..Len(NodeAt(node, p).kids) - 1} : p \in Reals(node, n - 1)}
<1>1. ASSUME NEW r \in Reals(node, n)
      PROVE  \E p \in Reals(node, n - 1) : \E i \in 0..Len(NodeAt(node, p).kids) - 1 : r = Append(p, i)
  <2>1. r \in Seq(Nat) /\ Len(r) = n /\ Real(node, r)  BY DEF Reals
  <2>2. r # <<>>  BY <2>1
  <2>3. PICK p \in Seq(Nat), i \in Nat : r = Append(p, i)  BY <2>1, <2>2, SequenceEmptyOrAppend
  <2>4. Real(node, p) /\ i \in 0..Len(NodeAt(node, p).kids) - 1  BY <2>1, <2>3, RealAppend
  <2>5. Len(p) = n - 1
    <3>1. Len(r) = Len(p) + 1 /\ Len(p) \in Nat  BY <2>3, AppendProperties
    <3> QED  BY <2>1, <3>1
  <2> QED  BY <2>3, <2>4, <2>5 DEF Reals
<1>2. ASSUME NEW p \in Reals(node, n - 1), NEW i \in 0..Len(NodeAt(node, p).kids) - 1
      PROVE  Append(p, i) \in Reals(node, n)
  <2>1. p \in Seq(Nat) /\ Len(p) = n - 1 /\ Real(node, p) /\ i \in Nat  BY DEF Reals
  <2>2. Append(p, i) \in Seq(Nat) /\ Len(Append(p, i)) = n
    <3>1. Append(p, i) \in Seq(Nat) /\ Len(Append(p, i)) = Len(p) + 1  BY <2>1, AppendProperties
    <3> QED  BY <2>1, <3>1
  <2>3. Real(node, Append(p, i))  BY <2>1, RealAppend
  <2> QED  BY <2>2, <2>3 DEF Reals
<1> DEFINE On(p) == {Append(p, i) : i \in 0..Len(NodeAt(node, p).kids) - 1}
           P == Reals(node, n - 1)
           R == Reals(node, n)
<1>3. \A r \in R : \E p \in P : r \in On(p)  BY <1>1
<1>4. \A p \in P : \A r \in On(p) : r \in R  BY <1>2
<1> HIDE DEF On, P, R
<1>5. R = UNION {On(p) : p \in P}  BY <1>3, <1>4
<1> QED  BY <1>5 DEF On, P, R

\* If they end, they end for good.
LEMMA RealsEnd ==
  ASSUME NEW node, NEW n \in Nat, Reals(node, n) = {}
  PROVE  Reals(node, n + 1) = {}
<1>1. n + 1 \in Nat \ {0} /\ (n + 1) - 1 = n  OBVIOUS
<1>2. Reals(node, n + 1)
        = UNION {{Append(p, i) : i \in 0..Len(NodeAt(node, p).kids) - 1} : p \in Reals(node, (n + 1) - 1)}
  BY <1>1, RealsGrow
<1> QED  BY <1>1, <1>2

\* The paths of a tree that is not infinitely deep.
LEMMA PathsAre ==
  ASSUME NEW node, NEW N \in Nat, \A p \in Seq(Nat) : Real(node, p) => Len(p) < N
  PROVE  Paths(node) = {p \in Seq(Nat) : Real(node, p)}
<1> DEFINE On(P) == UNION {{Append(p, i) : i \in 0..Len(NodeAt(node, p).kids) - 1} : p \in P}
           RecLevel(f) == f = [n \in Nat |-> IF n = 0 THEN {<<>>}
                 ELSE UNION {{Append(p, i) : i \in 0..Len(NodeAt(node, p).kids) - 1} : p \in f[n - 1]}]
           level == CHOOSE f : RecLevel(f)
           RecFrom(f) == f = [n \in Nat |-> IF level[n] = {} THEN {} ELSE level[n] \cup f[n + 1]]
           from == CHOOSE f : RecFrom(f)
           G(n) == {p \in Seq(Nat) : n <= Len(p) /\ Real(node, p)}
<1>1. Paths(node) = from[0]  BY DEF Paths
<1>2. Reals(node, 0) = {<<>>}
  <2>1. \A p \in Seq(Nat) : Len(p) = 0 => p = <<>>  BY EmptySeq
  <2>2. <<>> \in Seq(Nat) /\ Len(<<>>) = 0  OBVIOUS
  <2> QED  BY <2>1, <2>2, RealHere DEF Reals
<1>3. RecLevel(level)
  <2> DEFINE f == [n \in Nat |-> Reals(node, n)]
  <2>1. ASSUME NEW n \in Nat
        PROVE f[n] = IF n = 0 THEN {<<>>} ELSE On(f[n - 1])
    <3>1. CASE n = 0  BY <1>2, <3>1
    <3>2. CASE n # 0
      <4>1. n \in Nat \ {0} /\ n - 1 \in Nat  BY <3>2
      <4>2. f[n] = Reals(node, n) /\ f[n - 1] = Reals(node, n - 1)  BY <4>1
      <4>3. Reals(node, n) = On(Reals(node, n - 1))  BY <4>1, RealsGrow
      <4> HIDE DEF f, On
      <4>4. f[n] = On(f[n - 1])  BY <4>2, <4>3
      <4> QED  BY <3>2, <4>4
    <3> QED  BY <3>1, <3>2
  <2>2. f = [n \in Nat |-> f[n]]  OBVIOUS
  <2> HIDE DEF f
  <2>3. RecLevel(f)  BY <2>1, <2>2
  <2> HIDE DEF RecLevel
  <2> QED  BY <2>3
<1> HIDE DEF level
<1>4. \A n \in Nat : level[n] = Reals(node, n)
  <2> DEFINE good == {n \in Nat : level[n] = Reals(node, n)}
  <2>1. 0 \in good  BY <1>2, <1>3
  <2>2. ASSUME NEW n \in Nat, n \in good PROVE n + 1 \in good
    <3>1. n + 1 \in Nat \ {0} /\ (n + 1) - 1 = n /\ n + 1 # 0  OBVIOUS
    <3>2. level[n + 1] = On(level[n])  BY <1>3, <3>1
    <3>3. Reals(node, n + 1) = On(Reals(node, (n + 1) - 1))  BY <3>1, RealsGrow
    <3>4. level[n] = Reals(node, n)  BY <2>2
    <3> HIDE DEF On
    <3> QED  BY <3>1, <3>2, <3>3, <3>4
  <2> HIDE DEF good
  <2>3. \A n \in Nat : n \in good  BY <2>1, <2>2, Numbers
  <2> QED  BY <2>3 DEF good
<1> HIDE DEF On, RecLevel
<1>5. \A n \in Nat : N <= n => level[n] = {}  BY <1>4 DEF Reals
<1>6. ASSUME NEW n \in Nat, level[n] = {} PROVE G(n) = {}
  <2> DEFINE good == {k \in Nat : Reals(node, n + k) = {}}
  <2>1. 0 \in good
    <3>1. n + 0 = n  OBVIOUS
    <3> QED  BY <1>4, <1>6, <3>1
  <2>2. ASSUME NEW k \in Nat, k \in good PROVE k + 1 \in good
    <3>1. n + k \in Nat /\ (n + k) + 1 = n + (k + 1)  OBVIOUS
    <3>2. Reals(node, (n + k) + 1) = {}  BY <2>2, <3>1, RealsEnd
    <3> QED  BY <3>1, <3>2
  <2> HIDE DEF good
  <2>3. \A k \in Nat : k \in good  BY <2>1, <2>2, Numbers
  <2>4. ASSUME NEW p \in G(n) PROVE FALSE
    <3>1. p \in Seq(Nat) /\ Len(p) \in Nat /\ n <= Len(p) /\ Real(node, p)  OBVIOUS
    <3>2. Len(p) - n \in Nat /\ n + (Len(p) - n) = Len(p)  BY <3>1
    <3>3. Reals(node, n + (Len(p) - n)) = {}  BY <2>3, <3>2 DEF good
    <3> QED  BY <3>1, <3>2, <3>3 DEF Reals
  <2> QED  BY <2>4
<1>7. ASSUME NEW n \in Nat PROVE G(n) = IF level[n] = {} THEN {} ELSE level[n] \cup G(n + 1)
  <2>1. CASE level[n] = {}  BY <1>6, <2>1
  <2>2. CASE level[n] # {}
    <3>1. G(n) = Reals(node, n) \cup G(n + 1)
      <4>1. \A p \in Seq(Nat) : Len(p) \in Nat  OBVIOUS
      <4>2. \A l \in Nat : n <= l <=> l = n \/ n + 1 <= l  OBVIOUS
      <4> QED  BY <4>1, <4>2 DEF Reals
    <3> HIDE DEF G
    <3> QED  BY <1>4, <2>2, <3>1
  <2> QED  BY <2>1, <2>2
<1> HIDE DEF G
<1>8. RecFrom(from)
  <2> DEFINE f == [n \in Nat |-> G(n)]
  <2>1. ASSUME NEW n \in Nat
        PROVE f[n] = IF level[n] = {} THEN {} ELSE level[n] \cup f[n + 1]
    <3>1. f[n] = G(n) /\ f[n + 1] = G(n + 1)  OBVIOUS
    <3> QED  BY <1>7, <3>1
  <2>2. f = [n \in Nat |-> f[n]]  OBVIOUS
  <2> HIDE DEF f
  <2>3. RecFrom(f)  BY <2>1, <2>2
  <2> HIDE DEF RecFrom
  <2> QED  BY <2>3
<1> HIDE DEF from
<1>9. \A k \in 0..N : from[N - k] = G(N - k)
  <2> DEFINE good == {k \in 0..N : from[N - k] = G(N - k)}
  <2>1. 0 \in good
    <3>1. N - 0 = N /\ level[N] = {} /\ 0 \in 0..N  BY <1>5
    <3> QED  BY <1>7, <1>8, <3>1
  <2>2. ASSUME NEW k \in 1..N, k - 1 \in good PROVE k \in good
    <3>1. k \in 0..N /\ N - k \in Nat /\ N - (k - 1) = (N - k) + 1  OBVIOUS
    <3>2. from[N - k] = IF level[N - k] = {} THEN {} ELSE level[N - k] \cup from[(N - k) + 1]
      BY <1>8, <3>1
    <3>3. from[(N - k) + 1] = G((N - k) + 1)  BY <2>2, <3>1
    <3> QED  BY <1>7, <3>1, <3>2, <3>3
  <2> HIDE DEF good
  <2>3. \A k \in 0..N : k \in good  BY <2>1, <2>2, UpTo
  <2> QED  BY <2>3 DEF good
<1>10. from[0] = G(0)
  <2>1. N \in 0..N /\ N - N = 0  OBVIOUS
  <2> QED  BY <1>9, <2>1
<1>11. G(0) = {p \in Seq(Nat) : Real(node, p)}
  <2>1. \A p \in Seq(Nat) : 0 <= Len(p)  OBVIOUS
  <2> QED  BY <2>1 DEF G
<1> QED  BY <1>1, <1>10, <1>11

(***************************************************************************)
(* Trees.                                                                  *)
(***************************************************************************)

\* Keys in ascending order, and between them what is below the children.
Ordered(keys, parts) ==
  /\ keys \in Seq(Key) /\ parts \in Seq(SUBSET Key) /\ Len(parts) = Len(keys) + 1
  /\ \A i, j \in 1..Len(keys) : i < j => keys[i] < keys[j]
  /\ \A i \in 1..Len(parts), j \in 1..Len(keys) :
       \A k \in parts[i] : IF i <= j THEN k < keys[j] ELSE keys[j] < k

All(keys, parts) == Range(keys) \cup UNION Range(parts)

\* What is left of a path below the child of a number, from 1.
Below(e, i) == IF e # <<>> /\ e[1] = i - 1 THEN Tail(e) ELSE <<>>

\* A tree is a node, the keys in it, and a path to the one node below it that may have any
\* number of keys: the others have one of the numbers in W.
Nodes(X) == {x[1] : x \in X}

Lowest(node, S) ==
  \E parts \in Seq(SUBSET Key) :
    /\ Ordered(node.keys, parts) /\ S = All(node.keys, parts)
    /\ \A i \in 1..Len(parts) : parts[i] = {}
Higher(W, X, node, S, e) ==
  \E parts \in Seq(SUBSET Key) :
    /\ Ordered(node.keys, parts) /\ S = All(node.keys, parts)
    /\ Len(node.kids) = Len(parts)
    /\ e = <<>> \/ e[1] \in 0..Len(node.keys)
    /\ \A i \in 1..Len(parts) :
         /\ <<node.kids[i], parts[i], Below(e, i)>> \in X
         /\ e = <<i - 1>> \/ Size(node.kids[i]) \in W

Bottom ==
  {x \in [keys : Seq(Key), kids : {<<>>}] \X (SUBSET Key) \X {<<>>} : Lowest(x[1], x[2])}
Above(W, X) ==
  {x \in [keys : Seq(Key), kids : Seq(Nodes(X))] \X (SUBSET Key) \X Seq(Nat) :
     Higher(W, X, x[1], x[2], x[3])}

\* The trees of a height.
Tower(f, W, h) ==
  /\ DOMAIN f = 0..h /\ f[0] = Bottom
  /\ \A n \in 1..h : f[n] = Above(W, f[n - 1])
Trees(W, h) == CHOOSE X : \E f : Tower(f, W, h) /\ X = f[h]

In(W, h, node, S, e) == h \in Nat /\ <<node, S, e>> \in Trees(W, h)

\* The same, with what is below each child.
Holds(W, h, node, parts, e) ==
  /\ h \in Nat /\ node = [keys |-> node.keys, kids |-> node.kids] /\ Ordered(node.keys, parts)
  /\ IF h = 0
     THEN node.kids = <<>> /\ e = <<>> /\ \A i \in 1..Len(parts) : parts[i] = {}
     ELSE /\ node.kids \in Seq(Nodes(Trees(W, h - 1))) /\ Len(node.kids) = Len(parts)
          /\ e \in Seq(Nat) /\ (e = <<>> \/ e[1] \in 0..Len(node.keys))
          /\ \A i \in 1..Len(parts) :
               /\ In(W, h - 1, node.kids[i], parts[i], Below(e, i))
               /\ e = <<i - 1>> \/ Size(node.kids[i]) \in W

\* What the trees of height 0 are.
LEMMA BottomIs ==
  ASSUME NEW node, NEW S, NEW e
  PROVE  <<node, S, e>> \in Bottom
           <=> /\ node \in [keys : Seq(Key), kids : {<<>>}] /\ S \subseteq Key /\ e = <<>>
               /\ Lowest(node, S)
<1>1. <<node, S, e>>[1] = node /\ <<node, S, e>>[2] = S  OBVIOUS
<1> DEFINE N == [keys : Seq(Key), kids : {<<>>}]
           x == <<node, S, e>>
<1>2. x \in N \X (SUBSET Key) \X {<<>>} <=> node \in N /\ S \subseteq Key /\ e = <<>>
  <2> HIDE DEF N
  <2> QED  OBVIOUS
<1>3. x \in Bottom <=> x \in N \X (SUBSET Key) \X {<<>>} /\ Lowest(x[1], x[2])  BY DEF Bottom
<1> HIDE DEF N, x
<1> QED  BY <1>1, <1>2, <1>3 DEF N, x

\* What the trees a level higher are.
LEMMA AboveIs ==
  ASSUME NEW W, NEW X, NEW node, NEW S, NEW e
  PROVE  <<node, S, e>> \in Above(W, X)
           <=> /\ node \in [keys : Seq(Key), kids : Seq(Nodes(X))] /\ S \subseteq Key
               /\ e \in Seq(Nat) /\ Higher(W, X, node, S, e)
<1>1. <<node, S, e>>[1] = node /\ <<node, S, e>>[2] = S /\ <<node, S, e>>[3] = e  OBVIOUS
<1> DEFINE N == [keys : Seq(Key), kids : Seq(Nodes(X))]
           x == <<node, S, e>>
<1>2. x \in N \X (SUBSET Key) \X Seq(Nat) <=> node \in N /\ S \subseteq Key /\ e \in Seq(Nat)
  <2> HIDE DEF N
  <2> QED  OBVIOUS
<1>3. x \in Above(W, X)
        <=> x \in N \X (SUBSET Key) \X Seq(Nat) /\ Higher(W, X, x[1], x[2], x[3])
  BY DEF Above
<1> HIDE DEF N, x
<1> QED  BY <1>1, <1>2, <1>3 DEF N, x

\* The trees of every height, as a function.
LEMMA TowerExists ==
  ASSUME NEW W, NEW h \in Nat
  PROVE  \E f : Tower(f, W, h)
<1> DEFINE good == {n \in Nat : \E f : Tower(f, W, n)}
<1>1. 0 \in good
  <2>1. Tower([n \in 0..0 |-> Bottom], W, 0)  BY DEF Tower
  <2> QED  BY <2>1
<1>2. ASSUME NEW n \in 1..h, n - 1 \in good PROVE n \in good
  <2>1. PICK f : Tower(f, W, n - 1)  BY <1>2
  <2> DEFINE g == [m \in 0..n |-> IF m = n THEN Above(W, f[n - 1]) ELSE f[m]]
  <2>2. n \in Nat /\ n # 0 /\ n - 1 \in 0..n /\ n - 1 # n /\ 0 \in 0..n  OBVIOUS
  <2>3. ASSUME NEW m \in 1..n PROVE g[m] = Above(W, g[m - 1])
    <3>1. m - 1 \in 0..n /\ m - 1 # n /\ g[m - 1] = f[m - 1]  BY <2>2
    <3>2. CASE m = n  BY <2>2, <3>1, <3>2
    <3>3. CASE m # n
      <4>1. m \in 1..(n - 1) /\ m \in 0..n  BY <2>2, <3>3
      <4>2. g[m] = f[m]  BY <3>3, <4>1
      <4>3. f[m] = Above(W, f[m - 1])  BY <2>1, <4>1 DEF Tower
      <4> QED  BY <3>1, <4>2, <4>3
    <3> QED  BY <3>2, <3>3
  <2>4. g[0] = Bottom  BY <2>1, <2>2 DEF Tower
  <2>5. DOMAIN g = 0..n  OBVIOUS
  <2> HIDE DEF g
  <2>6. Tower(g, W, n)  BY <2>3, <2>4, <2>5 DEF Tower
  <2> QED  BY <2>2, <2>6
<1> HIDE DEF good
<1>3. \A n \in 0..h : n \in good  BY <1>1, <1>2, UpTo
<1>4. h \in good  BY <1>3
<1> QED  BY <1>4 DEF good

\* There is only one such function.
LEMMA TowerUnique ==
  ASSUME NEW W, NEW h \in Nat, NEW k \in Nat, k <= h, NEW f, NEW g, Tower(f, W, h), Tower(g, W, k)
  PROVE  \A n \in 0..k : f[n] = g[n]
<1> DEFINE good == {n \in 0..k : f[n] = g[n]}
<1>1. 0 \in good  BY DEF Tower
<1>2. ASSUME NEW n \in 1..k, n - 1 \in good PROVE n \in good
  <2>1. n \in 0..k /\ f[n - 1] = g[n - 1] /\ n \in 1..h  BY <1>2
  <2>2. f[n] = Above(W, f[n - 1]) /\ g[n] = Above(W, g[n - 1])  BY <2>1 DEF Tower
  <2> QED  BY <2>1, <2>2
<1> HIDE DEF good
<1>3. \A n \in 0..k : n \in good  BY <1>1, <1>2, UpTo
<1> QED  BY <1>3 DEF good

\* Trees gives the trees of a height.
LEMMA TreesAre ==
  ASSUME NEW W, NEW h \in Nat, NEW f, Tower(f, W, h), NEW k \in 0..h
  PROVE  Trees(W, k) = f[k]
<1>1. \E X : \E g : Tower(g, W, k) /\ X = g[k]
  <2>1. PICK g : Tower(g, W, k)  BY TowerExists
  <2> QED  BY <2>1
<1>2. PICK g : Tower(g, W, k) /\ Trees(W, k) = g[k]  BY <1>1 DEF Trees
<1>3. f[k] = g[k]
  <2>1. k \in Nat /\ k <= h /\ k \in 0..k  OBVIOUS
  <2> QED  BY <1>2, <2>1, TowerUnique
<1> QED  BY <1>2, <1>3

\* The trees of a height from those of the one below.
LEMMA TreesGrow ==
  ASSUME NEW W
  PROVE  /\ Trees(W, 0) = Bottom
         /\ \A h \in Nat : Trees(W, h + 1) = Above(W, Trees(W, h))
<1>1. Trees(W, 0) = Bottom
  <2>1. PICK f : Tower(f, W, 0)  BY TowerExists
  <2>2. 0 \in 0..0  OBVIOUS
  <2>3. Trees(W, 0) = f[0]  BY <2>1, <2>2, TreesAre
  <2> QED  BY <2>1, <2>3 DEF Tower
<1>2. ASSUME NEW h \in Nat PROVE Trees(W, h + 1) = Above(W, Trees(W, h))
  <2>1. h + 1 \in Nat /\ h \in 0..h + 1 /\ h + 1 \in 0..h + 1 /\ h + 1 \in 1..h + 1 /\ (h + 1) - 1 = h
    OBVIOUS
  <2>2. PICK f : Tower(f, W, h + 1)  BY <2>1, TowerExists
  <2>3. Trees(W, h) = f[h] /\ Trees(W, h + 1) = f[h + 1]  BY <2>1, <2>2, TreesAre
  <2>4. f[h + 1] = Above(W, f[(h + 1) - 1])  BY <2>1, <2>2 DEF Tower
  <2> QED  BY <2>1, <2>3, <2>4
<1> QED  BY <1>1, <1>2

\* All keys of a node are keys.
LEMMA AllKeys ==
  ASSUME NEW keys, NEW parts, Ordered(keys, parts)
  PROVE  All(keys, parts) \subseteq Key
<1>1. keys \in Seq(Key) /\ parts \in Seq(SUBSET Key)  BY DEF Ordered
<1>2. Range(keys) \subseteq Key /\ Range(parts) \subseteq SUBSET Key  BY <1>1, RangeOfSeq
<1> QED  BY <1>2 DEF All

\* The keys of a node and below it, one by one.
LEMMA AllIs ==
  ASSUME NEW keys, NEW parts, Ordered(keys, parts), NEW k
  PROVE  k \in All(keys, parts) <=> \/ \E i \in 1..Len(keys) : k = keys[i]
                                    \/ \E i \in 1..Len(parts) : k \in parts[i]
<1>1. keys \in Seq(Key) /\ parts \in Seq(SUBSET Key)  BY DEF Ordered
<1>2. Range(keys) = {keys[i] : i \in 1..Len(keys)}  BY <1>1, RangeEquality
<1>3. Range(parts) = {parts[i] : i \in 1..Len(parts)}  BY <1>1, RangeEquality
<1> QED  BY <1>2, <1>3 DEF All

\* A tree with what is below each child.
LEMMA InHolds ==
  ASSUME NEW W, NEW h, NEW node, NEW S, NEW e, In(W, h, node, S, e)
  PROVE  \E parts : Holds(W, h, node, parts, e) /\ S = All(node.keys, parts)
<1>1. h \in Nat  BY DEF In
<1>2. CASE h = 0
  <2>1. <<node, S, e>> \in Bottom  BY <1>2, TreesGrow DEF In
  <2>2. PICK parts \in Seq(SUBSET Key) :
          /\ Ordered(node.keys, parts) /\ S = All(node.keys, parts)
          /\ \A i \in 1..Len(parts) : parts[i] = {}
    BY <2>1, BottomIs DEF Lowest
  <2>3. node \in [keys : Seq(Key), kids : {<<>>}] /\ e = <<>>  BY <2>1, BottomIs
  <2>4. node = [keys |-> node.keys, kids |-> node.kids] /\ node.kids = <<>>  BY <2>3
  <2>5. Holds(W, h, node, parts, e)  BY <1>1, <1>2, <2>2, <2>3, <2>4 DEF Holds
  <2> QED  BY <2>2, <2>5
<1>3. CASE h # 0
  <2> DEFINE g == h - 1
             X == Trees(W, g)
  <2>1. g \in Nat /\ g + 1 = h  BY <1>1, <1>3
  <2>2. <<node, S, e>> \in Above(W, X)
    <3> HIDE DEF g
    <3> QED  BY <2>1, TreesGrow DEF In
  <2> HIDE DEF X, g
  <2>3. PICK parts \in Seq(SUBSET Key) :
       /\ Ordered(node.keys, parts) /\ S = All(node.keys, parts)
       /\ Len(node.kids) = Len(parts)
       /\ e = <<>> \/ e[1] \in 0..Len(node.keys)
       /\ \A i \in 1..Len(parts) :
            /\ <<node.kids[i], parts[i], Below(e, i)>> \in X
            /\ e = <<i - 1>> \/ Size(node.kids[i]) \in W
    BY <2>2, AboveIs, ZenonT(60) DEF Higher
  <2>4. node \in [keys : Seq(Key), kids : Seq(Nodes(X))] /\ e \in Seq(Nat)  BY <2>2, AboveIs
  <2>5. node = [keys |-> node.keys, kids |-> node.kids] /\ node.kids \in Seq(Nodes(X))  BY <2>4
  <2>6. \A i \in 1..Len(parts) : In(W, h - 1, node.kids[i], parts[i], Below(e, i))
    BY <2>1, <2>3 DEF In, X, g
  <2>7. Holds(W, h, node, parts, e)  BY <1>1, <1>3, <2>3, <2>4, <2>5, <2>6 DEF Holds, X, g
  <2> QED  BY <2>3, <2>7
<1> QED  BY <1>2, <1>3

\* And back.
LEMMA HoldsIn ==
  ASSUME NEW W, NEW h, NEW node, NEW parts, NEW e, Holds(W, h, node, parts, e)
  PROVE  In(W, h, node, All(node.keys, parts), e)
<1> DEFINE S == All(node.keys, parts)
<1>1. h \in Nat /\ Ordered(node.keys, parts)  BY DEF Holds
<1>2. S \subseteq Key /\ parts \in Seq(SUBSET Key) /\ node.keys \in Seq(Key)
  BY <1>1, AllKeys DEF Ordered
<1> HIDE DEF S
<1>3. node = [keys |-> node.keys, kids |-> node.kids]  BY DEF Holds
<1>4. CASE h = 0
  <2>1. node.kids = <<>> /\ e = <<>> /\ \A i \in 1..Len(parts) : parts[i] = {}  BY <1>4 DEF Holds
  <2>2. node \in [keys : Seq(Key), kids : {<<>>}]  BY <1>2, <1>3, <2>1
  <2>3. Lowest(node, S)  BY <1>1, <1>2, <2>1 DEF Lowest, S
  <2>4. <<node, S, e>> \in Bottom  BY <1>2, <2>1, <2>2, <2>3, BottomIs
  <2> QED  BY <1>4, <2>4, TreesGrow DEF In, S
<1>5. CASE h # 0
  <2> DEFINE g == h - 1
             X == Trees(W, g)
  <2>1. g \in Nat /\ g + 1 = h  BY <1>1, <1>5
  <2>2. /\ node.kids \in Seq(Nodes(X)) /\ Len(node.kids) = Len(parts)
        /\ e \in Seq(Nat) /\ (e = <<>> \/ e[1] \in 0..Len(node.keys))
        /\ \A i \in 1..Len(parts) :
             /\ In(W, g, node.kids[i], parts[i], Below(e, i))
             /\ e = <<i - 1>> \/ Size(node.kids[i]) \in W
    BY <1>5 DEF Holds
  <2>3. Trees(W, h) = Above(W, X)
    <3> HIDE DEF g
    <3> QED  BY <2>1, TreesGrow
  <2>4. \A i \in 1..Len(parts) : <<node.kids[i], parts[i], Below(e, i)>> \in X  BY <2>2 DEF In
  <2> HIDE DEF X, g
  <2>5. node \in [keys : Seq(Key), kids : Seq(Nodes(X))]
    <3> DEFINE a == node.keys
               b == node.kids
               B == Seq(Nodes(X))
    <3>1. a \in Seq(Key) /\ b \in B /\ node = [keys |-> a, kids |-> b]  BY <1>2, <1>3, <2>2
    <3> HIDE DEF a, b, B
    <3>2. node \in [keys : Seq(Key), kids : B]  BY <3>1
    <3> QED  BY <3>2 DEF B
  <2>6. Higher(W, X, node, S, e)  BY <1>1, <1>2, <2>2, <2>4 DEF Higher, S
  <2>7. <<node, S, e>> \in Above(W, X)  BY <1>2, <2>2, <2>5, <2>6, AboveIs
  <2> QED  BY <1>1, <2>3, <2>7 DEF In, S
<1> QED  BY <1>4, <1>5

\* The plain facts of a tree.
LEMMA Facts ==
  ASSUME NEW W, NEW h, NEW node, NEW S, NEW e, In(W, h, node, S, e)
  PROVE  /\ h \in Nat /\ S \subseteq Key /\ e \in Seq(Nat) /\ node \in Nodes(Trees(W, h))
         /\ node = [keys |-> node.keys, kids |-> node.kids]
         /\ node.keys \in Seq(Key) /\ Size(node) = Len(node.keys) /\ Size(node) \in Nat
         /\ IsLeaf(node) <=> h = 0
         /\ h # 0 => Len(node.kids) = Size(node) + 1
         /\ Range(node.keys) \subseteq S
<1>1. PICK parts : Holds(W, h, node, parts, e) /\ S = All(node.keys, parts)  BY InHolds
<1>2. h \in Nat /\ Ordered(node.keys, parts) /\ node = [keys |-> node.keys, kids |-> node.kids]
  BY <1>1 DEF Holds
<1>3. S \subseteq Key /\ Range(node.keys) \subseteq S  BY <1>1, <1>2, AllKeys DEF All
<1>4. node.keys \in Seq(Key) /\ Len(parts) = Len(node.keys) + 1 /\ Size(node) = Len(node.keys)
  BY <1>2 DEF Ordered, Size
<1>5. Size(node) \in Nat  BY <1>4
<1>6. node \in Nodes(Trees(W, h))
  <2>1. <<node, S, e>> \in Trees(W, h)  BY DEF In
  <2>2. <<node, S, e>>[1] = node  OBVIOUS
  <2> QED  BY <2>1, <2>2 DEF Nodes
<1>7. CASE h = 0
  <2>1. node.kids = <<>> /\ e = <<>>  BY <1>1, <1>7 DEF Holds
  <2>2. e \in Seq(Nat)  BY <2>1
  <2> QED  BY <1>2, <1>3, <1>4, <1>5, <1>6, <1>7, <2>1, <2>2 DEF IsLeaf
<1>8. CASE h # 0
  <2>1. e \in Seq(Nat) /\ Len(node.kids) = Len(parts)  BY <1>1, <1>8 DEF Holds
  <2>2. Len(node.kids) = Size(node) + 1  BY <1>4, <2>1
  <2>3. node.kids # <<>>  BY <1>5, <2>2
  <2> QED  BY <1>2, <1>3, <1>4, <1>5, <1>6, <1>8, <2>1, <2>2, <2>3 DEF IsLeaf
<1> QED  BY <1>7, <1>8

(***************************************************************************)
(* A node cut in two at a key, and two nodes joined by a key.              *)
(***************************************************************************)

\* The keys of a node and those below a child are among all.
LEMMA AllHas ==
  ASSUME NEW keys, NEW parts, Ordered(keys, parts)
  PROVE  /\ \A i \in 1..Len(keys) : keys[i] \in All(keys, parts)
         /\ \A i \in 1..Len(parts) : \A x \in parts[i] : x \in All(keys, parts)
BY AllIs

\* The keys of a node, and what is below its children, on the sides of a key.
Sides(keys, parts, n, s, lk, lp, rk, rp) ==
  /\ n = Len(keys) /\ n \in Nat /\ s \in 1..n
  /\ lk \in Seq(Key) /\ Len(lk) = s - 1 /\ \A i \in 1..s - 1 : lk[i] = keys[i]
  /\ lp \in Seq(SUBSET Key) /\ Len(lp) = s /\ \A i \in 1..s : lp[i] = parts[i]
  /\ rk \in Seq(Key) /\ Len(rk) = n - s /\ \A i \in 1..n - s : rk[i] = keys[s + i]
  /\ rp \in Seq(SUBSET Key) /\ Len(rp) = n - s + 1 /\ \A i \in 1..n - s + 1 : rp[i] = parts[s + i]

\* What lies before and after a key of a node.
LEMMA SidesAre ==
  ASSUME NEW keys, NEW parts, Ordered(keys, parts), NEW n, n = Len(keys), NEW s \in 1..n,
         NEW lk, lk = SubSeq(keys, 1, s - 1), NEW lp, lp = SubSeq(parts, 1, s),
         NEW rk, rk = SubSeq(keys, s + 1, n), NEW rp, rp = SubSeq(parts, s + 1, n + 1)
  PROVE  Sides(keys, parts, n, s, lk, lp, rk, rp)
<1>1. keys \in Seq(Key) /\ parts \in Seq(SUBSET Key) /\ Len(parts) = n + 1  BY DEF Ordered
<1>2. n \in Nat  BY <1>1
<1>3. lk \in Seq(Key) /\ Len(lk) = s - 1 /\ \A i \in 1..s - 1 : lk[i] = keys[i]
  <2>1. 1 \in 1..n + 1 /\ s - 1 \in 1 - 1..n /\ (s - 1) - 1 + 1 = s - 1  BY <1>2
  <2>2. lk \in Seq(Key) /\ Len(lk) = (s - 1) - 1 + 1 /\ \A i \in 1..(s - 1) - 1 + 1 : lk[i] = keys[1 + i - 1]
    BY <1>1, <2>1, PartOf
  <2>3. \A i \in 1..s - 1 : 1 + i - 1 = i  BY <1>2
  <2> QED  BY <2>1, <2>2, <2>3
<1>4. lp \in Seq(SUBSET Key) /\ Len(lp) = s /\ \A i \in 1..s : lp[i] = parts[i]
  <2>1. 1 \in 1..(n + 1) + 1 /\ s \in 1 - 1..n + 1 /\ s - 1 + 1 = s  BY <1>2
  <2>2. lp \in Seq(SUBSET Key) /\ Len(lp) = s - 1 + 1 /\ \A i \in 1..s - 1 + 1 : lp[i] = parts[1 + i - 1]
    BY <1>1, <2>1, PartOf, SMTT(60)
  <2>3. \A i \in 1..s : 1 + i - 1 = i  BY <1>2
  <2> QED  BY <2>1, <2>2, <2>3
<1>5. rk \in Seq(Key) /\ Len(rk) = n - s /\ \A i \in 1..n - s : rk[i] = keys[s + i]
  <2>1. s + 1 \in 1..n + 1 /\ n \in (s + 1) - 1..n /\ n - (s + 1) + 1 = n - s  BY <1>2
  <2>2. /\ rk \in Seq(Key) /\ Len(rk) = n - (s + 1) + 1
        /\ \A i \in 1..n - (s + 1) + 1 : rk[i] = keys[(s + 1) + i - 1]
    BY <1>1, <2>1, PartOf
  <2>3. \A i \in 1..n - s : (s + 1) + i - 1 = s + i  BY <1>2
  <2> QED  BY <2>1, <2>2, <2>3
<1>6. rp \in Seq(SUBSET Key) /\ Len(rp) = n - s + 1 /\ \A i \in 1..n - s + 1 : rp[i] = parts[s + i]
  <2>1. /\ s + 1 \in 1..Len(parts) + 1 /\ n + 1 \in (s + 1) - 1..Len(parts)
        /\ (n + 1) - (s + 1) + 1 = n - s + 1
    BY <1>1, <1>2
  <2>2. /\ rp \in Seq(SUBSET Key) /\ Len(rp) = (n + 1) - (s + 1) + 1
        /\ \A i \in 1..(n + 1) - (s + 1) + 1 : rp[i] = parts[(s + 1) + i - 1]
    BY <1>1, <2>1, PartOf
  <2>3. \A i \in 1..n - s + 1 : (s + 1) + i - 1 = s + i  BY <1>2
  <2> QED  BY <2>1, <2>2, <2>3
<1>7. n = Len(keys) /\ n \in Nat /\ s \in 1..n  BY <1>2
<1> QED  BY <1>3, <1>4, <1>5, <1>6, <1>7 DEF Sides

\* The keys and parts before and after a key are in order.
LEMMA CutOrdered ==
  ASSUME NEW keys, NEW parts, Ordered(keys, parts), NEW n, NEW s,
         NEW lk, NEW lp, NEW rk, NEW rp, Sides(keys, parts, n, s, lk, lp, rk, rp)
  PROVE  /\ Ordered(lk, lp) /\ Len(lk) = s - 1 /\ Len(lp) = s
         /\ \A i \in 1..s : lp[i] = parts[i]
         /\ Ordered(rk, rp) /\ Len(rk) = n - s /\ Len(rp) = n - s + 1
         /\ \A i \in 1..n - s + 1 : rp[i] = parts[s + i]
         /\ keys[s] \in Key
         /\ \A x \in All(lk, lp) : x < keys[s]
         /\ \A x \in All(rk, rp) : keys[s] < x
         /\ All(keys, parts) = All(lk, lp) \cup {keys[s]} \cup All(rk, rp)
<1>a. n = Len(keys) /\ n \in Nat /\ s \in 1..n  BY DEF Sides
<1> USE <1>a
<1>1. /\ keys \in Seq(Key) /\ parts \in Seq(SUBSET Key) /\ Len(parts) = n + 1
      /\ \A i, j \in 1..n : i < j => keys[i] < keys[j]
      /\ \A i \in 1..n + 1, j \in 1..n : \A k \in parts[i] : IF i <= j THEN k < keys[j] ELSE keys[j] < k
  BY <1>a DEF Ordered
<1>2. n \in Nat /\ s \in 1..n  BY <1>a
<1>3. lk \in Seq(Key) /\ Len(lk) = s - 1 /\ \A i \in 1..s - 1 : lk[i] = keys[i]  BY DEF Sides
<1>4. lp \in Seq(SUBSET Key) /\ Len(lp) = s /\ \A i \in 1..s : lp[i] = parts[i]  BY DEF Sides
<1>5. rk \in Seq(Key) /\ Len(rk) = n - s /\ \A i \in 1..n - s : rk[i] = keys[s + i]  BY DEF Sides
<1>6. rp \in Seq(SUBSET Key) /\ Len(rp) = n - s + 1 /\ \A i \in 1..n - s + 1 : rp[i] = parts[s + i]
  BY DEF Sides
<1>7. Ordered(lk, lp)
  <2>1. Len(lp) = Len(lk) + 1  BY <1>2, <1>3, <1>4
  <2>2. \A i \in 1..s - 1 : i \in 1..n  BY <1>2
  <2>3. \A i, j \in 1..s - 1 : i < j => lk[i] < lk[j]  BY <1>1, <1>3, <2>2
  <2>4. \A i \in 1..s : i \in 1..n + 1  BY <1>2
  <2>5. \A i \in 1..s, j \in 1..s - 1 : \A k \in lp[i] : IF i <= j THEN k < lk[j] ELSE lk[j] < k
    BY <1>1, <1>3, <1>4, <2>2, <2>4
  <2> QED  BY <1>3, <1>4, <2>1, <2>3, <2>5 DEF Ordered
<1>8. Ordered(rk, rp)
  <2>1. Len(rp) = Len(rk) + 1  BY <1>2, <1>5, <1>6
  <2>2. \A i \in 1..n - s : s + i \in 1..n  BY <1>2
  <2>3. ASSUME NEW i \in 1..n - s, NEW j \in 1..n - s, i < j PROVE rk[i] < rk[j]
    <3>1. s + i < s + j  BY <1>2, <2>3
    <3> QED  BY <1>1, <1>5, <2>2, <3>1
  <2>4. \A i \in 1..n - s + 1 : s + i \in 1..n + 1  BY <1>2
  <2>5. ASSUME NEW i \in 1..n - s + 1, NEW j \in 1..n - s, NEW k \in rp[i]
        PROVE IF i <= j THEN k < rk[j] ELSE rk[j] < k
    <3>1. s + i <= s + j <=> i <= j  BY <1>2
    <3>2. k \in parts[s + i] /\ rk[j] = keys[s + j]  BY <1>5, <1>6
    <3> QED  BY <1>1, <2>2, <2>4, <3>1, <3>2
  <2> QED  BY <1>5, <1>6, <2>1, <2>3, <2>5 DEF Ordered
<1>9. keys[s] \in Key /\ s \in 1..n + 1  BY <1>1, <1>2, ElementOfSeq
<1>10. ASSUME NEW x \in All(lk, lp) PROVE x < keys[s] /\ x \in All(keys, parts)
  <2>1. CASE \E i \in 1..s - 1 : x = lk[i]
    <3>1. PICK i \in 1..s - 1 : x = lk[i]  BY <2>1
    <3>2. i \in 1..n /\ i < s /\ x = keys[i]  BY <1>2, <1>3, <3>1
    <3>3. x < keys[s]  BY <1>1, <3>2
    <3> QED  BY <3>2, <3>3, AllHas
  <2>2. CASE \E i \in 1..s : x \in lp[i]
    <3>1. PICK i \in 1..s : x \in lp[i]  BY <2>2
    <3>2. i \in 1..n + 1 /\ i <= s /\ x \in parts[i]  BY <1>2, <1>4, <3>1
    <3>3. x < keys[s]  BY <1>1, <3>2
    <3> QED  BY <1>1, <3>2, <3>3, AllHas
  <2>3. (\E i \in 1..s - 1 : x = lk[i]) \/ \E i \in 1..s : x \in lp[i]  BY <1>3, <1>4, <1>7, AllIs
  <2> QED  BY <2>1, <2>2, <2>3
<1>11. ASSUME NEW x \in All(rk, rp) PROVE keys[s] < x /\ x \in All(keys, parts)
  <2>1. CASE \E i \in 1..n - s : x = rk[i]
    <3>1. PICK i \in 1..n - s : x = rk[i]  BY <2>1
    <3>2. s + i \in 1..n /\ s < s + i /\ x = keys[s + i]  BY <1>2, <1>5, <3>1
    <3>3. keys[s] < x  BY <1>1, <3>2
    <3> QED  BY <3>2, <3>3, AllHas
  <2>2. CASE \E i \in 1..n - s + 1 : x \in rp[i]
    <3>1. PICK i \in 1..n - s + 1 : x \in rp[i]  BY <2>2
    <3>2. s + i \in 1..n + 1 /\ ~(s + i <= s) /\ x \in parts[s + i]  BY <1>2, <1>6, <3>1
    <3>3. keys[s] < x  BY <1>1, <3>2
    <3> QED  BY <1>1, <3>2, <3>3, AllHas
  <2>3. (\E i \in 1..n - s : x = rk[i]) \/ \E i \in 1..n - s + 1 : x \in rp[i]
    <3>1. (\E i \in 1..Len(rk) : x = rk[i]) \/ \E i \in 1..Len(rp) : x \in rp[i]  BY <1>8, AllIs
    <3>2. Len(rk) = n - s /\ Len(rp) = n - s + 1  BY <1>5, <1>6
    <3> QED  BY <3>1, <3>2
  <2> QED  BY <2>1, <2>2, <2>3
<1>12. ASSUME NEW x \in All(keys, parts) PROVE x \in All(lk, lp) \cup {keys[s]} \cup All(rk, rp)
  <2>1. CASE \E i \in 1..n : x = keys[i]
    <3>1. PICK i \in 1..n : x = keys[i]  BY <2>1
    <3>2. CASE i < s
      <4>1. i \in 1..s - 1 /\ x = lk[i]  BY <1>2, <1>3, <3>1, <3>2
      <4> QED  BY <1>3, <1>7, <4>1, AllIs
    <3>3. CASE s < i
      <4>1. i - s \in 1..n - s /\ s + (i - s) = i  BY <1>2, <3>3
      <4>2. x = rk[i - s]  BY <1>5, <3>1, <4>1
      <4> QED  BY <1>5, <1>8, <4>1, <4>2, AllIs
    <3>4. CASE i = s  BY <3>1, <3>4
    <3> QED  BY <1>2, <3>2, <3>3, <3>4
  <2>2. CASE \E i \in 1..n + 1 : x \in parts[i]
    <3>1. PICK i \in 1..n + 1 : x \in parts[i]  BY <2>2
    <3>2. CASE i <= s
      <4>1. i \in 1..s /\ x \in lp[i]  BY <1>2, <1>4, <3>1, <3>2
      <4> QED  BY <1>4, <1>7, <4>1, AllIs
    <3>3. CASE s < i
      <4>1. i - s \in 1..n - s + 1 /\ s + (i - s) = i  BY <1>2, <3>3
      <4>2. x \in rp[i - s]  BY <1>6, <3>1, <4>1
      <4> QED  BY <1>6, <1>8, <4>1, <4>2, AllIs
    <3> QED  BY <1>2, <3>2, <3>3
  <2> QED  BY <1>1, <2>1, <2>2, AllIs
<1>13. keys[s] \in All(keys, parts)  BY AllIs
<1> QED  BY <1>3, <1>4, <1>5, <1>6, <1>7, <1>8, <1>9, <1>10, <1>11, <1>12, <1>13

\* Two rows of keys with a key between them.
Row(lk, lp, k, rk, rp, a, b, keys, parts) ==
  /\ keys \in Seq(Key) /\ Len(keys) = a + 1 + b
  /\ \A i \in 1..a : keys[i] = lk[i]
  /\ keys[a + 1] = k
  /\ \A i \in 1..b : keys[a + 1 + i] = rk[i]
  /\ parts \in Seq(SUBSET Key) /\ Len(parts) = a + 1 + b + 1
  /\ \A i \in 1..a + 1 : parts[i] = lp[i]
  /\ \A i \in 1..b + 1 : parts[a + 1 + i] = rp[i]

\* The keys and parts of two nodes and the key between them, one by one.
LEMMA RowIs ==
  ASSUME NEW lk, NEW lp, Ordered(lk, lp), NEW rk, NEW rp, Ordered(rk, rp), NEW k \in Key,
         NEW keys, keys = lk \o <<k>> \o rk, NEW parts, parts = lp \o rp,
         NEW a, a = Len(lk), NEW b, b = Len(rk)
  PROVE  Row(lk, lp, k, rk, rp, a, b, keys, parts)
<1>1. lk \in Seq(Key) /\ lp \in Seq(SUBSET Key) /\ Len(lp) = a + 1  BY DEF Ordered
<1>2. rk \in Seq(Key) /\ rp \in Seq(SUBSET Key) /\ Len(rp) = b + 1  BY DEF Ordered
<1>3. a \in Nat /\ b \in Nat  BY <1>1, <1>2
<1>6. /\ keys \in Seq(Key) /\ Len(keys) = a + 1 + b
      /\ \A i \in 1..a : keys[i] = lk[i]
      /\ keys[a + 1] = k
      /\ \A i \in 1..b : keys[a + 1 + i] = rk[i]
  <2> DEFINE o == <<k>>
             c == lk \o o
             d == c \o rk
  <2>1. o \in Seq(Key) /\ Len(o) = 1 /\ o[1] = k  OBVIOUS
  <2>2. keys = d  OBVIOUS
  <2> HIDE DEF o
  <2>3. /\ c \in Seq(Key) /\ Len(c) = Len(lk) + Len(o)
        /\ \A i \in 1..Len(lk) : c[i] = lk[i]
        /\ \A i \in 1..Len(o) : c[Len(lk) + i] = o[i]
    <3>1. lk \in Seq(Key) /\ o \in Seq(Key)  BY <1>1, <2>1
    <3> QED  BY <3>1, After
  <2> HIDE DEF c
  <2>4. c \in Seq(Key) /\ Len(c) = a + 1 /\ \A i \in 1..a : c[i] = lk[i]  BY <2>1, <2>3
  <2>5. c[a + 1] = k
    <3>1. 1 \in 1..Len(o)  BY <2>1
    <3> QED  BY <2>1, <2>3, <3>1
  <2>6. /\ d \in Seq(Key) /\ Len(d) = Len(c) + Len(rk)
        /\ \A i \in 1..Len(c) : d[i] = c[i]
        /\ \A i \in 1..Len(rk) : d[Len(c) + i] = rk[i]
    <3>1. c \in Seq(Key) /\ rk \in Seq(Key)  BY <1>2, <2>4
    <3> QED  BY <3>1, After
  <2> HIDE DEF d
  <2>7. \A i \in 1..a : i \in 1..a + 1  BY <1>3
  <2>8. a + 1 \in 1..a + 1  BY <1>3
  <2> QED  BY <2>2, <2>4, <2>5, <2>6, <2>7, <2>8
<1>7. /\ parts \in Seq(SUBSET Key) /\ Len(parts) = a + 1 + b + 1
      /\ \A i \in 1..a + 1 : parts[i] = lp[i]
      /\ \A i \in 1..b + 1 : parts[a + 1 + i] = rp[i]
  <2>1. /\ parts \in Seq(SUBSET Key) /\ Len(parts) = Len(lp) + Len(rp)
        /\ \A i \in 1..Len(lp) : parts[i] = lp[i]
        /\ \A i \in 1..Len(rp) : parts[Len(lp) + i] = rp[i]
    <3>1. lp \in Seq(SUBSET Key) /\ rp \in Seq(SUBSET Key)  BY <1>1, <1>2
    <3> QED  BY <3>1, After
  <2>2. (a + 1) + (b + 1) = a + 1 + b + 1  BY <1>3
  <2> QED  BY <1>1, <1>2, <2>1, <2>2
<1> QED  BY <1>6, <1>7 DEF Row

\* They are in order.
LEMMA JoinOrdered ==
  ASSUME BTreeParameters,
         NEW lk, NEW lp, Ordered(lk, lp), NEW rk, NEW rp, Ordered(rk, rp), NEW k \in Key,
         \A x \in All(lk, lp) : x < k, \A x \in All(rk, rp) : k < x,
         NEW a \in Nat, a = Len(lk), NEW b \in Nat, b = Len(rk),
         NEW keys, NEW parts, Row(lk, lp, k, rk, rp, a, b, keys, parts)
  PROVE  /\ Ordered(keys, parts)
         /\ All(keys, parts) = All(lk, lp) \cup {k} \cup All(rk, rp)
<1>1. /\ lk \in Seq(Key) /\ lp \in Seq(SUBSET Key) /\ Len(lp) = a + 1
      /\ \A i, j \in 1..a : i < j => lk[i] < lk[j]
      /\ \A i \in 1..a + 1, j \in 1..a : \A x \in lp[i] : IF i <= j THEN x < lk[j] ELSE lk[j] < x
  BY DEF Ordered
<1>2. /\ rk \in Seq(Key) /\ rp \in Seq(SUBSET Key) /\ Len(rp) = b + 1
      /\ \A i, j \in 1..b : i < j => rk[i] < rk[j]
      /\ \A i \in 1..b + 1, j \in 1..b : \A x \in rp[i] : IF i <= j THEN x < rk[j] ELSE rk[j] < x
  BY DEF Ordered
<1>3. a \in Nat /\ b \in Nat /\ Key \subseteq Int /\ k \in Int  BY <1>1, <1>2 DEF BTreeParameters
<1>4. /\ \A i \in 1..a : lk[i] < k /\ lk[i] \in Int /\ lk[i] \in Key
      /\ \A i \in 1..b : k < rk[i] /\ rk[i] \in Int /\ rk[i] \in Key
  BY <1>1, <1>2, <1>3, AllIs, ElementOfSeq
<1>5. /\ \A i \in 1..a + 1 : lp[i] \subseteq Key /\ \A x \in lp[i] : x < k /\ x \in Int
      /\ \A i \in 1..b + 1 : rp[i] \subseteq Key /\ \A x \in rp[i] : k < x /\ x \in Int
  <2>1. ASSUME NEW i \in 1..a + 1 PROVE lp[i] \subseteq Key /\ \A x \in lp[i] : x < k /\ x \in Int
    <3>1. lp[i] \in SUBSET Key  BY <1>1, ElementOfSeq
    <3> QED  BY <1>1, <1>3, <3>1, AllIs
  <2>2. ASSUME NEW i \in 1..b + 1 PROVE rp[i] \subseteq Key /\ \A x \in rp[i] : k < x /\ x \in Int
    <3>1. rp[i] \in SUBSET Key  BY <1>2, ElementOfSeq
    <3> QED  BY <1>2, <1>3, <3>1, AllIs
  <2> QED  BY <2>1, <2>2
<1>6. /\ keys \in Seq(Key) /\ Len(keys) = a + 1 + b
      /\ \A i \in 1..a : keys[i] = lk[i]
      /\ keys[a + 1] = k
      /\ \A i \in 1..b : keys[a + 1 + i] = rk[i]
  BY DEF Row
<1>7. /\ parts \in Seq(SUBSET Key) /\ Len(parts) = a + 1 + b + 1
      /\ \A i \in 1..a + 1 : parts[i] = lp[i]
      /\ \A i \in 1..b + 1 : parts[a + 1 + i] = rp[i]
  BY DEF Row
<1> DEFINE n == a + 1 + b
<1>8. \A i \in 1..n : i \in 1..a \/ i = a + 1 \/ (a + 1 < i /\ i - (a + 1) \in 1..b /\ a + 1 + (i - (a + 1)) = i)
  BY <1>3
<1>9. \A i \in 1..n + 1 : i \in 1..a + 1 \/ (a + 1 < i /\ i - (a + 1) \in 1..b + 1 /\ a + 1 + (i - (a + 1)) = i)
  BY <1>3
<1>10. n \in Nat  BY <1>3
<1> HIDE DEF n
<1>11. ASSUME NEW i \in 1..n, a + 1 < i PROVE i - (a + 1) \in 1..b /\ keys[i] = rk[i - (a + 1)]
  <2>1. i - (a + 1) \in 1..b /\ a + 1 + (i - (a + 1)) = i  BY <1>3, <1>8, <1>11
  <2> QED  BY <1>6, <2>1
<1>12. ASSUME NEW i \in 1..n + 1, a + 1 < i PROVE i - (a + 1) \in 1..b + 1 /\ parts[i] = rp[i - (a + 1)]
  <2>1. i - (a + 1) \in 1..b + 1 /\ a + 1 + (i - (a + 1)) = i  BY <1>3, <1>9, <1>12
  <2> QED  BY <1>7, <2>1
<1>13. ASSUME NEW i \in 1..n, NEW j \in 1..n, i < j PROVE keys[i] < keys[j]
  <2>1. CASE j \in 1..a
    <3>1. i \in 1..a  BY <1>3, <1>13, <2>1
    <3> QED  BY <1>1, <1>6, <1>13, <2>1, <3>1
  <2>2. CASE j = a + 1
    <3>1. i \in 1..a  BY <1>3, <1>13, <2>2
    <3> QED  BY <1>4, <1>6, <2>2, <3>1
  <2>3. CASE a + 1 < j
    <3>1. j - (a + 1) \in 1..b /\ keys[j] = rk[j - (a + 1)]  BY <1>11, <2>3
    <3>2. k < keys[j] /\ keys[j] \in Int  BY <1>4, <3>1
    <3>3. CASE i \in 1..a
      <4>1. keys[i] < k /\ keys[i] \in Int  BY <1>4, <1>6, <3>3
      <4> QED  BY <1>3, <3>2, <4>1
    <3>4. CASE i = a + 1  BY <1>6, <3>2, <3>4
    <3>5. CASE a + 1 < i
      <4> DEFINE p == i - (a + 1)
                 q == j - (a + 1)
      <4>1. p \in 1..b /\ keys[i] = rk[p] /\ q \in 1..b /\ keys[j] = rk[q]  BY <1>11, <3>1, <3>5
      <4>2. p < q  BY <1>3, <1>13
      <4> HIDE DEF p, q
      <4> QED  BY <1>2, <4>1, <4>2
    <3> QED  BY <1>8, <3>3, <3>4, <3>5
  <2> QED  BY <1>8, <2>1, <2>2, <2>3
<1>14. ASSUME NEW i \in 1..n + 1, NEW j \in 1..n, NEW x \in parts[i]
       PROVE IF i <= j THEN x < keys[j] ELSE keys[j] < x
  <2>1. CASE i \in 1..a + 1
    <3>1. x \in lp[i] /\ x < k /\ x \in Int  BY <1>5, <1>7, <2>1
    <3>2. CASE j \in 1..a  BY <1>1, <1>6, <2>1, <3>1, <3>2
    <3>3. CASE j = a + 1
      <4>1. i <= j  BY <1>3, <2>1, <3>3
      <4> QED  BY <1>6, <3>1, <3>3, <4>1
    <3>4. CASE a + 1 < j
      <4>1. i <= j  BY <1>3, <2>1, <3>4
      <4>2. j - (a + 1) \in 1..b /\ keys[j] = rk[j - (a + 1)]  BY <1>11, <3>4
      <4>3. k < keys[j] /\ keys[j] \in Int  BY <1>4, <4>2
      <4>4. x < keys[j]  BY <1>3, <3>1, <4>3
      <4> QED  BY <4>1, <4>4
    <3> QED  BY <1>8, <3>2, <3>3, <3>4
  <2>2. CASE a + 1 < i
    <3>0. i - (a + 1) \in 1..b + 1 /\ parts[i] = rp[i - (a + 1)]  BY <1>12, <2>2
    <3>1. x \in rp[i - (a + 1)] /\ k < x /\ x \in Int  BY <1>5, <3>0
    <3>2. CASE j \in 1..a
      <4>1. ~(i <= j)  BY <1>3, <2>2, <3>2
      <4>2. keys[j] < k /\ keys[j] \in Int  BY <1>4, <1>6, <3>2
      <4>3. keys[j] < x  BY <1>3, <3>1, <4>2
      <4> QED  BY <4>1, <4>3
    <3>3. CASE j = a + 1
      <4>1. ~(i <= j)  BY <1>3, <2>2, <3>3
      <4> QED  BY <1>6, <3>1, <3>3, <4>1
    <3>4. CASE a + 1 < j
      <4> DEFINE p == i - (a + 1)
                 q == j - (a + 1)
      <4>1. i <= j <=> p <= q  BY <1>3
      <4>2. q \in 1..b /\ keys[j] = rk[q]  BY <1>11, <3>4
      <4>3. p \in 1..b + 1 /\ x \in rp[p]  BY <3>0, <3>1
      <4> HIDE DEF p, q
      <4> QED  BY <1>2, <4>1, <4>2, <4>3
    <3> QED  BY <1>8, <3>2, <3>3, <3>4
  <2> QED  BY <1>9, <2>1, <2>2
<1>15. Ordered(keys, parts)
  <2>1. Len(keys) = n /\ Len(parts) = n + 1  BY <1>6, <1>7 DEF n
  <2> QED  BY <1>6, <1>7, <1>13, <1>14, <2>1 DEF Ordered
<1>16. ASSUME NEW x PROVE x \in All(keys, parts) <=> x \in All(lk, lp) \cup {k} \cup All(rk, rp)
  <2>1. /\ \A i \in 1..a : i \in 1..Len(keys)
        /\ a + 1 \in 1..Len(keys)
        /\ \A i \in 1..b : a + 1 + i \in 1..Len(keys)
        /\ \A i \in 1..a + 1 : i \in 1..Len(parts)
        /\ \A i \in 1..b + 1 : a + 1 + i \in 1..Len(parts)
    BY <1>3, <1>6, <1>7
  <2>2. ASSUME x \in All(lk, lp) \cup {k} \cup All(rk, rp) PROVE x \in All(keys, parts)
    <3>1. k \in All(keys, parts)  BY <1>6, <1>15, <2>1, AllHas
    <3>2. CASE x \in All(lk, lp)
      <4>1. CASE \E i \in 1..a : x = lk[i]
        <5>1. PICK i \in 1..a : x = lk[i]  BY <4>1
        <5>2. x = keys[i] /\ i \in 1..Len(keys)  BY <1>6, <2>1, <5>1
        <5> QED  BY <1>15, <5>2, AllHas
      <4>2. CASE \E i \in 1..a + 1 : x \in lp[i]
        <5>1. PICK i \in 1..a + 1 : x \in lp[i]  BY <4>2
        <5>2. x \in parts[i] /\ i \in 1..Len(parts)  BY <1>7, <2>1, <5>1
        <5> QED  BY <1>15, <5>2, AllHas
      <4> QED  BY <1>1, <3>2, <4>1, <4>2, AllIs
    <3>3. CASE x \in All(rk, rp)
      <4>1. CASE \E i \in 1..b : x = rk[i]
        <5>1. PICK i \in 1..b : x = rk[i]  BY <4>1
        <5>2. x = keys[a + 1 + i] /\ a + 1 + i \in 1..Len(keys)  BY <1>6, <2>1, <5>1
        <5> QED  BY <1>15, <5>2, AllHas
      <4>2. CASE \E i \in 1..b + 1 : x \in rp[i]
        <5>1. PICK i \in 1..b + 1 : x \in rp[i]  BY <4>2
        <5>2. x \in parts[a + 1 + i] /\ a + 1 + i \in 1..Len(parts)  BY <1>7, <2>1, <5>1
        <5> QED  BY <1>15, <5>2, AllHas
      <4> QED  BY <1>2, <3>3, <4>1, <4>2, AllIs
    <3> QED  BY <2>2, <3>1, <3>2, <3>3
  <2>3. ASSUME x \in All(keys, parts) PROVE x \in All(lk, lp) \cup {k} \cup All(rk, rp)
    <3>1. CASE \E i \in 1..n : x = keys[i]
      <4>1. PICK i \in 1..n : x = keys[i]  BY <3>1
      <4>2. CASE i \in 1..a  BY <1>6, <4>1, <4>2, AllHas
      <4>3. CASE i = a + 1  BY <1>6, <4>1, <4>3
      <4>4. CASE a + 1 < i
        <5>1. i - (a + 1) \in 1..b /\ x = rk[i - (a + 1)]  BY <1>11, <4>1, <4>4
        <5> QED  BY <5>1, AllHas
      <4> QED  BY <1>8, <4>2, <4>3, <4>4
    <3>2. CASE \E i \in 1..n + 1 : x \in parts[i]
      <4>1. PICK i \in 1..n + 1 : x \in parts[i]  BY <3>2
      <4>2. CASE i \in 1..a + 1  BY <1>1, <1>7, <4>1, <4>2, AllHas
      <4>4. CASE a + 1 < i
        <5>1. i - (a + 1) \in 1..b + 1 /\ x \in rp[i - (a + 1)]  BY <1>12, <4>1, <4>4
        <5> QED  BY <1>2, <5>1, AllHas
      <4> QED  BY <1>9, <4>2, <4>4
    <3>3. Len(keys) = n /\ Len(parts) = n + 1  BY <1>6, <1>7 DEF n
    <3>4. (\E i \in 1..n : x = keys[i]) \/ \E i \in 1..n + 1 : x \in parts[i]
      BY <1>15, <2>3, <3>3, AllIs
    <3> QED  BY <3>1, <3>2, <3>4
  <2> QED  BY <2>2, <2>3
<1> QED  BY <1>15, <1>16

\* With no node below that may have any number of keys.
LEMMA FullHolds ==
  ASSUME NEW W, NEW h \in Nat, NEW node, NEW parts
  PROVE  Holds(W, h, node, parts, <<>>)
           <=> /\ node = [keys |-> node.keys, kids |-> node.kids] /\ Ordered(node.keys, parts)
               /\ h = 0 => node.kids = <<>> /\ \A i \in 1..Len(parts) : parts[i] = {}
               /\ h # 0 => /\ node.kids \in Seq(Nodes(Trees(W, h - 1))) /\ Len(node.kids) = Len(parts)
                           /\ \A i \in 1..Len(parts) :
                                /\ In(W, h - 1, node.kids[i], parts[i], <<>>)
                                /\ Size(node.kids[i]) \in W
<1>1. \A i : Below(<<>>, i) = <<>>  BY DEF Below
<1>2. \A i : <<>> # <<i>>
  <2> SUFFICES ASSUME NEW i, <<>> = <<i>> PROVE FALSE  OBVIOUS
  <2>1. Len(<<>>) = 0 /\ Len(<<i>>) = 1  OBVIOUS
  <2> QED  BY <2>1
<1>3. <<>> \in Seq(Nat)  OBVIOUS
<1>4. CASE h = 0  BY <1>4 DEF Holds
<1>5. CASE h # 0
  <2>1. Holds(W, h, node, parts, <<>>)
           <=> /\ node = [keys |-> node.keys, kids |-> node.kids] /\ Ordered(node.keys, parts)
               /\ node.kids \in Seq(Nodes(Trees(W, h - 1))) /\ Len(node.kids) = Len(parts)
               /\ \A i \in 1..Len(parts) :
                    /\ In(W, h - 1, node.kids[i], parts[i], Below(<<>>, i))
                    /\ <<>> = <<i - 1>> \/ Size(node.kids[i]) \in W
    BY <1>3, <1>5 DEF Holds
  <2> QED  BY <1>1, <1>2, <1>5, <2>1
<1> QED  BY <1>4, <1>5

\* Upto and From: a node cut in two at a key gives two trees of the same height.
LEMMA Cut ==
  ASSUME BTreeParameters, NEW W, NEW h, NEW node, NEW S, In(W, h, node, S, <<>>),
         NEW s \in 1..Size(node)
  PROVE  \E L, R :
           /\ In(W, h, Upto(node, s - 1), L, <<>>) /\ Size(Upto(node, s - 1)) = s - 1
           /\ In(W, h, From(node, s), R, <<>>) /\ Size(From(node, s)) = Size(node) - s
           /\ KeyAt(node, s - 1) \in Key /\ S = L \cup {KeyAt(node, s - 1)} \cup R
           /\ \A x \in L : x < KeyAt(node, s - 1)
           /\ \A x \in R : KeyAt(node, s - 1) < x
<1>0. PICK parts : Holds(W, h, node, parts, <<>>) /\ S = All(node.keys, parts)  BY InHolds
<1> DEFINE keys == node.keys
           n == Len(keys)
           lk == SubSeq(keys, 1, s - 1)
           lp == SubSeq(parts, 1, s)
           rk == SubSeq(keys, s + 1, n)
           rp == SubSeq(parts, s + 1, n + 1)
           left == Upto(node, s - 1)
           right == From(node, s)
<1>1. /\ h \in Nat /\ Ordered(keys, parts)
      /\ h = 0 => node.kids = <<>> /\ \A i \in 1..Len(parts) : parts[i] = {}
      /\ h # 0 => /\ node.kids \in Seq(Nodes(Trees(W, h - 1))) /\ Len(node.kids) = Len(parts)
                  /\ \A i \in 1..Len(parts) :
                       /\ In(W, h - 1, node.kids[i], parts[i], <<>>)
                       /\ Size(node.kids[i]) \in W
  BY <1>0, FullHolds DEF In
<1>2. n \in Nat /\ Size(node) = n /\ s \in 1..n /\ (IsLeaf(node) <=> h = 0)
  BY Facts DEF Size
<1>a. Len(parts) = n + 1  BY <1>1 DEF Ordered
<1>b. s - 1 + 1 = s  BY <1>2
<1>3. left = [keys |-> lk, kids |-> IF h = 0 THEN <<>> ELSE SubSeq(node.kids, 1, s)]
  BY <1>2, <1>b DEF Upto, Kids
<1>4. right = [keys |-> rk, kids |-> IF h = 0 THEN <<>> ELSE SubSeq(node.kids, s + 1, n + 1)]
  <2>1. h # 0 => Len(node.kids) = n + 1  BY <1>1, <1>a
  <2> QED  BY <1>2, <2>1 DEF From, Kids, Size
<1>5. KeyAt(node, s - 1) = keys[s]  BY <1>b DEF KeyAt
<1> HIDE DEF keys, n, lk, lp, rk, rp, left, right
<1>6. Sides(keys, parts, n, s, lk, lp, rk, rp)  BY <1>1, <1>2, SidesAre DEF lk, lp, rk, rp, n
<1>7. /\ Ordered(lk, lp) /\ Len(lk) = s - 1 /\ Len(lp) = s
      /\ \A i \in 1..s : lp[i] = parts[i]
      /\ Ordered(rk, rp) /\ Len(rk) = n - s /\ Len(rp) = n - s + 1
      /\ \A i \in 1..n - s + 1 : rp[i] = parts[s + i]
      /\ keys[s] \in Key
      /\ \A x \in All(lk, lp) : x < keys[s]
      /\ \A x \in All(rk, rp) : keys[s] < x
      /\ All(keys, parts) = All(lk, lp) \cup {keys[s]} \cup All(rk, rp)
  <2>1. Ordered(keys, parts)  BY <1>1
  <2> QED  BY <1>6, <2>1, CutOrdered
<1>8. /\ left.keys = lk /\ left.kids = IF h = 0 THEN <<>> ELSE SubSeq(node.kids, 1, s)
      /\ left = [keys |-> left.keys, kids |-> left.kids]
  BY <1>3
<1>9. /\ right.keys = rk /\ right.kids = IF h = 0 THEN <<>> ELSE SubSeq(node.kids, s + 1, n + 1)
      /\ right = [keys |-> right.keys, kids |-> right.kids]
  BY <1>4
<1>10. \A i \in 1..s : i \in 1..Len(parts)  BY <1>2, <1>a
<1>11. \A i \in 1..n - s + 1 : s + i \in 1..Len(parts)  BY <1>2, <1>a
<1>12. Holds(W, h, left, lp, <<>>)
  <2>1. CASE h = 0
    <3>1. \A i \in 1..Len(lp) : lp[i] = {}  BY <1>1, <1>7, <1>10, <2>1
    <3> QED  BY <1>1, <1>7, <1>8, <2>1, <3>1, FullHolds
  <2>2. CASE h # 0
    <3> DEFINE X == Nodes(Trees(W, h - 1))
               q == SubSeq(node.kids, 1, s)
    <3>1. q \in Seq(X) /\ Len(q) = s /\ \A i \in 1..s : q[i] = node.kids[i]
      <4>1. /\ 1 \in 1..Len(node.kids) + 1 /\ s \in 1 - 1..Len(node.kids) /\ s - 1 + 1 = s
        BY <1>1, <1>2, <1>a, <2>2
      <4>2. node.kids \in Seq(X)  BY <1>1, <2>2
      <4> HIDE DEF X
      <4>3. q \in Seq(X) /\ Len(q) = s - 1 + 1 /\ \A i \in 1..s - 1 + 1 : q[i] = node.kids[1 + i - 1]
        BY <4>1, <4>2, PartOf
      <4>4. \A i \in 1..s : 1 + i - 1 = i  BY <1>2
      <4> QED  BY <4>1, <4>3, <4>4
    <3>2. left.kids = q  BY <1>8, <2>2
    <3> HIDE DEF q
    <3>3. \A i \in 1..Len(lp) : In(W, h - 1, q[i], lp[i], <<>>) /\ Size(q[i]) \in W
      BY <1>1, <1>7, <1>10, <2>2, <3>1
    <3> QED  BY <1>1, <1>7, <1>8, <2>2, <3>1, <3>2, <3>3, FullHolds
  <2> QED  BY <2>1, <2>2
<1>13. Holds(W, h, right, rp, <<>>)
  <2>1. CASE h = 0
    <3>1. \A i \in 1..Len(rp) : rp[i] = {}  BY <1>1, <1>7, <1>11, <2>1
    <3> QED  BY <1>1, <1>7, <1>9, <2>1, <3>1, FullHolds
  <2>2. CASE h # 0
    <3> DEFINE X == Nodes(Trees(W, h - 1))
               q == SubSeq(node.kids, s + 1, n + 1)
    <3>1. q \in Seq(X) /\ Len(q) = n - s + 1 /\ \A i \in 1..n - s + 1 : q[i] = node.kids[s + i]
      <4>1. /\ s + 1 \in 1..Len(node.kids) + 1 /\ n + 1 \in (s + 1) - 1..Len(node.kids)
            /\ (n + 1) - (s + 1) + 1 = n - s + 1
        BY <1>1, <1>2, <1>a, <2>2
      <4>2. node.kids \in Seq(X)  BY <1>1, <2>2
      <4> HIDE DEF X
      <4>3. /\ q \in Seq(X) /\ Len(q) = (n + 1) - (s + 1) + 1
            /\ \A i \in 1..(n + 1) - (s + 1) + 1 : q[i] = node.kids[(s + 1) + i - 1]
        BY <4>1, <4>2, PartOf
      <4>4. \A i \in 1..n - s + 1 : (s + 1) + i - 1 = s + i  BY <1>2
      <4> HIDE DEF q
      <4> QED  BY <4>1, <4>3, <4>4
    <3>2. right.kids = q  BY <1>9, <2>2
    <3> HIDE DEF q
    <3>3. \A i \in 1..Len(rp) : In(W, h - 1, q[i], rp[i], <<>>) /\ Size(q[i]) \in W
      BY <1>1, <1>7, <1>11, <2>2, <3>1, ZenonT(60)
    <3> QED  BY <1>1, <1>7, <1>9, <2>2, <3>1, <3>2, <3>3, FullHolds
  <2> QED  BY <2>1, <2>2
<1>14. In(W, h, left, All(lk, lp), <<>>) /\ Size(left) = s - 1
  BY <1>7, <1>8, <1>12, HoldsIn DEF Size
<1>15. In(W, h, right, All(rk, rp), <<>>) /\ Size(right) = Size(node) - s
  BY <1>2, <1>7, <1>9, <1>13, HoldsIn DEF Size
<1>16. S = All(keys, parts)  BY <1>0 DEF keys
<1> QED  BY <1>5, <1>7, <1>14, <1>15, <1>16 DEF left, right

\* Joined: two trees of one height and a key between them give one.
LEMMA Join ==
  ASSUME BTreeParameters, NEW W, NEW h, NEW left, NEW L, In(W, h, left, L, <<>>),
         NEW right, NEW R, In(W, h, right, R, <<>>), NEW k \in Key,
         \A x \in L : x < k, \A x \in R : k < x
  PROVE  /\ In(W, h, Joined(left, k, right), L \cup {k} \cup R, <<>>)
         /\ Size(Joined(left, k, right)) = Size(left) + 1 + Size(right)
<1>0. PICK lp, rp : /\ Holds(W, h, left, lp, <<>>) /\ L = All(left.keys, lp)
                    /\ Holds(W, h, right, rp, <<>>) /\ R = All(right.keys, rp)
  BY InHolds
<1> DEFINE lk == left.keys
           rk == right.keys
           a == Len(lk)
           b == Len(rk)
           keys == lk \o <<k>> \o rk
           parts == lp \o rp
           node == Joined(left, k, right)
           kids == left.kids \o right.kids
<1>1. /\ h \in Nat /\ Ordered(lk, lp)
      /\ h = 0 => left.kids = <<>> /\ \A i \in 1..Len(lp) : lp[i] = {}
      /\ h # 0 => /\ left.kids \in Seq(Nodes(Trees(W, h - 1))) /\ Len(left.kids) = Len(lp)
                  /\ \A i \in 1..Len(lp) :
                       /\ In(W, h - 1, left.kids[i], lp[i], <<>>)
                       /\ Size(left.kids[i]) \in W
  BY <1>0, FullHolds DEF In
<1>2. /\ Ordered(rk, rp)
      /\ h = 0 => right.kids = <<>> /\ \A i \in 1..Len(rp) : rp[i] = {}
      /\ h # 0 => /\ right.kids \in Seq(Nodes(Trees(W, h - 1))) /\ Len(right.kids) = Len(rp)
                  /\ \A i \in 1..Len(rp) :
                       /\ In(W, h - 1, right.kids[i], rp[i], <<>>)
                       /\ Size(right.kids[i]) \in W
  BY <1>0, FullHolds DEF In
<1>3. node = [keys |-> keys, kids |-> kids]  BY DEF Joined
<1>4. Size(left) = a /\ Size(right) = b /\ a \in Nat /\ b \in Nat  BY Facts DEF Size
<1>5. Len(lp) = a + 1 /\ Len(rp) = b + 1  BY <1>1, <1>2 DEF Ordered
<1>6. L = All(lk, lp) /\ R = All(rk, rp)  BY <1>0
<1> HIDE DEF lk, rk, a, b, keys, parts, node, kids
<1>7. Row(lk, lp, k, rk, rp, a, b, keys, parts)
  BY <1>1, <1>2, RowIs DEF keys, parts, a, b
<1>8. Ordered(keys, parts) /\ All(keys, parts) = L \cup {k} \cup R
  <2>1. a = Len(lk) /\ b = Len(rk)  BY DEF a, b
  <2>2. /\ Ordered(keys, parts)
        /\ All(keys, parts) = All(lk, lp) \cup {k} \cup All(rk, rp)
    BY <1>1, <1>2, <1>4, <1>6, <1>7, <2>1, JoinOrdered
  <2> QED  BY <1>6, <2>2
<1>9. /\ Len(keys) = a + 1 + b /\ Len(parts) = a + 1 + b + 1
      /\ \A i \in 1..a + 1 : parts[i] = lp[i]
      /\ \A i \in 1..b + 1 : parts[a + 1 + i] = rp[i]
  BY <1>7 DEF Row
<1>10. \A i \in 1..Len(parts) : \/ i \in 1..a + 1
                                \/ i - (a + 1) \in 1..b + 1 /\ a + 1 + (i - (a + 1)) = i
  BY <1>4, <1>9
<1>11. node.keys = keys /\ node.kids = kids /\ node = [keys |-> node.keys, kids |-> node.kids]
  BY <1>3
<1>12. Holds(W, h, node, parts, <<>>)
  <2>1. CASE h = 0
    <3>1. kids = <<>>
      <4>1. left.kids = <<>> /\ right.kids = <<>>  BY <1>1, <1>2, <2>1
      <4>2. <<>> \in Seq(Nat)  OBVIOUS
      <4> QED  BY <4>1, <4>2, ConcatEmptySeq DEF kids
    <3>2. ASSUME NEW i \in 1..Len(parts) PROVE parts[i] = {}
      <4>1. CASE i \in 1..a + 1  BY <1>1, <1>5, <1>9, <2>1, <4>1
      <4>2. CASE i - (a + 1) \in 1..b + 1 /\ a + 1 + (i - (a + 1)) = i
        <5>1. parts[i] = rp[i - (a + 1)]  BY <1>9, <4>2
        <5> QED  BY <1>2, <1>5, <2>1, <4>2, <5>1
      <4> QED  BY <1>10, <4>1, <4>2
    <3> QED  BY <1>1, <1>8, <1>11, <2>1, <3>1, <3>2, FullHolds
  <2>2. CASE h # 0
    <3> DEFINE X == Nodes(Trees(W, h - 1))
    <3>1. /\ kids \in Seq(X) /\ Len(kids) = a + 1 + b + 1
          /\ \A i \in 1..a + 1 : kids[i] = left.kids[i]
          /\ \A i \in 1..b + 1 : kids[a + 1 + i] = right.kids[i]
      <4>1. left.kids \in Seq(X) /\ right.kids \in Seq(X)  BY <1>1, <1>2, <2>2
      <4>2. Len(left.kids) = a + 1 /\ Len(right.kids) = b + 1  BY <1>1, <1>2, <1>5, <2>2
      <4> HIDE DEF X
      <4>3. /\ kids \in Seq(X) /\ Len(kids) = Len(left.kids) + Len(right.kids)
            /\ \A i \in 1..Len(left.kids) : kids[i] = left.kids[i]
            /\ \A i \in 1..Len(right.kids) : kids[Len(left.kids) + i] = right.kids[i]
        <5> DEFINE p == left.kids
                   q == right.kids
        <5>1. p \in Seq(X) /\ q \in Seq(X) /\ kids = p \o q  BY <4>1 DEF kids
        <5> HIDE DEF p, q
        <5>2. /\ p \o q \in Seq(X) /\ Len(p \o q) = Len(p) + Len(q)
              /\ \A i \in 1..Len(p) : (p \o q)[i] = p[i]
              /\ \A i \in 1..Len(q) : (p \o q)[Len(p) + i] = q[i]
          BY <5>1, After
        <5> QED  BY <5>1, <5>2 DEF p, q
      <4>4. (a + 1) + (b + 1) = a + 1 + b + 1  BY <1>4
      <4> QED  BY <4>2, <4>3, <4>4
    <3> HIDE DEF X
    <3>2. ASSUME NEW i \in 1..Len(parts)
          PROVE  In(W, h - 1, kids[i], parts[i], <<>>) /\ Size(kids[i]) \in W
      <4>1. CASE i \in 1..a + 1
        <5>1. parts[i] = lp[i] /\ kids[i] = left.kids[i]  BY <1>9, <3>1, <4>1
        <5> QED  BY <1>1, <1>5, <2>2, <4>1, <5>1
      <4>2. CASE i - (a + 1) \in 1..b + 1 /\ a + 1 + (i - (a + 1)) = i
        <5>1. parts[i] = rp[i - (a + 1)] /\ kids[i] = right.kids[i - (a + 1)]  BY <1>9, <3>1, <4>2
        <5> QED  BY <1>2, <1>5, <2>2, <4>2, <5>1
      <4> QED  BY <1>10, <4>1, <4>2
    <3>3. Len(kids) = Len(parts)  BY <1>9, <3>1
    <3> QED  BY <1>1, <1>8, <1>11, <2>2, <3>1, <3>2, <3>3, FullHolds DEF X
  <2> QED  BY <2>1, <2>2
<1>13. In(W, h, node, L \cup {k} \cup R, <<>>)
  <2>1. In(W, h, node, All(node.keys, parts), <<>>)  BY <1>12, HoldsIn
  <2> QED  BY <1>8, <1>11, <2>1
<1>14. Size(node) = Size(left) + 1 + Size(right)  BY <1>4, <1>9, <1>11 DEF Size
<1> QED  BY <1>13, <1>14 DEF node

\* A sequence with the elements from i + 1 to i + m given up for those of c.
Instead(q, i, m, c, r) ==
  /\ Len(r) = Len(q) - m + Len(c)
  /\ \A j \in 1..i : r[j] = q[j]
  /\ \A j \in 1..Len(c) : r[i + j] = c[j]
  /\ \A j \in 1..Len(q) - m - i : r[i + Len(c) + j] = q[i + m + j]

\* The same keys as there are in a part of a node.
Covers(keys, parts, i, m, ck, cp) ==
  \A x : x \in All(ck, cp) <=> \/ \E j \in 1..m : x = keys[i + j]
                               \/ \E j \in 1..m + 1 : x \in parts[i + j]

\* Some keys of a node, and what is below the children beside them, in another order.
LEMMA InsteadOrdered ==
  ASSUME BTreeParameters,
         NEW keys, NEW parts, Ordered(keys, parts), NEW i \in Nat, NEW m \in Nat, i + m <= Len(keys),
         NEW ck, NEW cp, Ordered(ck, cp),
         Covers(keys, parts, i, m, ck, cp),
         NEW rk, rk \in Seq(Key), Instead(keys, i, m, ck, rk),
         NEW rp, rp \in Seq(SUBSET Key), Instead(parts, i, m + 1, cp, rp)
  PROVE  Ordered(rk, rp) /\ All(rk, rp) = All(keys, parts)
<1> DEFINE N == All(ck, cp)
           n == Len(keys)
           l == Len(ck)
           z == n - m - i
<1>0. \A x : x \in All(ck, cp) <=> \/ \E j \in 1..m : x = keys[i + j]
                                   \/ \E j \in 1..m + 1 : x \in parts[i + j]
  BY DEF Covers
<1> HIDE DEF N
<1>1. /\ keys \in Seq(Key) /\ parts \in Seq(SUBSET Key) /\ Len(parts) = n + 1
      /\ \A a, b \in 1..n : a < b => keys[a] < keys[b]
      /\ \A a \in 1..n + 1, b \in 1..n : \A k \in parts[a] : IF a <= b THEN k < keys[b] ELSE keys[b] < k
  BY DEF Ordered
<1>2. /\ ck \in Seq(Key) /\ cp \in Seq(SUBSET Key) /\ Len(cp) = l + 1
      /\ \A a, b \in 1..l : a < b => ck[a] < ck[b]
      /\ \A a \in 1..l + 1, b \in 1..l : \A k \in cp[a] : IF a <= b THEN k < ck[b] ELSE ck[b] < k
  BY DEF Ordered
<1>3. n \in Nat /\ l \in Nat /\ z \in Nat /\ i + m + z = n /\ Key \subseteq Int
  BY <1>1, <1>2 DEF BTreeParameters
<1>a. Len(keys) = n /\ Len(ck) = l  OBVIOUS
<1> HIDE DEF n, l, z
<1>4. /\ Len(rk) = i + l + z
      /\ \A j \in 1..i : rk[j] = keys[j]
      /\ \A j \in 1..l : rk[i + j] = ck[j]
      /\ \A j \in 1..z : rk[i + l + j] = keys[i + m + j]
  <2>1. n - m + l = i + l + z /\ n - m - i = z  BY <1>3
  <2> QED  BY <1>a, <2>1 DEF Instead
<1>5. /\ Len(rp) = i + l + z + 1
      /\ \A j \in 1..i : rp[j] = parts[j]
      /\ \A j \in 1..l + 1 : rp[i + j] = cp[j]
      /\ \A j \in 1..z : rp[i + l + 1 + j] = parts[i + m + 1 + j]
  <2>1. /\ (n + 1) - (m + 1) + (l + 1) = i + l + z + 1 /\ (n + 1) - (m + 1) - i = z
        /\ i + (l + 1) = i + l + 1 /\ i + (m + 1) = i + m + 1
    BY <1>3
  <2>2. /\ Len(rp) = (n + 1) - (m + 1) + (l + 1)
        /\ \A j \in 1..i : rp[j] = parts[j]
        /\ \A j \in 1..l + 1 : rp[i + j] = cp[j]
        /\ \A j \in 1..(n + 1) - (m + 1) - i : rp[i + (l + 1) + j] = parts[i + (m + 1) + j]
    BY <1>1, <1>2 DEF Instead
  <2> QED  BY <2>1, <2>2
<1>6. /\ \A a \in 1..n : keys[a] \in Int
      /\ \A a \in 1..n + 1 : \A x \in parts[a] : x \in Int
      /\ \A a \in 1..l : ck[a] \in Int /\ ck[a] \in N
      /\ \A a \in 1..l + 1 : \A x \in cp[a] : x \in Int /\ x \in N
  <2>1. \A a \in 1..n : keys[a] \in Int  BY <1>a, <1>1, <1>3, ElementOfSeq
  <2>2. ASSUME NEW a \in 1..n + 1, NEW x \in parts[a] PROVE x \in Int
    <3>1. parts[a] \in SUBSET Key  BY <1>a, <1>1, ElementOfSeq
    <3> QED  BY <1>a, <1>3, <3>1
  <2>3. \A a \in 1..l : ck[a] \in Int /\ ck[a] \in N  BY <1>2, <1>3, <1>a, ElementOfSeq, AllHas DEF N
  <2>4. ASSUME NEW a \in 1..l + 1, NEW x \in cp[a] PROVE x \in Int /\ x \in N
    <3>1. cp[a] \in SUBSET Key  BY <1>a, <1>2, ElementOfSeq
    <3> QED  BY <1>a, <1>2, <1>3, <3>1, AllHas DEF N
  <2> QED  BY <2>1, <2>2, <2>3, <2>4
<1>7. ASSUME NEW x \in N, NEW j \in 1..i
      PROVE  j \in 1..n /\ keys[j] < x /\ \A y \in parts[j] : y < x
  <2>0. j \in 1..n /\ j \in 1..n + 1 /\ j <= j  BY <1>3
  <2>1. keys[j] < x /\ x \in Int
    <3>1. CASE \E b \in 1..m : x = keys[i + b]
      <4>1. PICK b \in 1..m : x = keys[i + b]  BY <3>1
      <4>2. i + b \in 1..n /\ j < i + b  BY <1>3
      <4> QED  BY <1>1, <1>6, <2>0, <4>1, <4>2
    <3>2. CASE \E b \in 1..m + 1 : x \in parts[i + b]
      <4>1. PICK b \in 1..m + 1 : x \in parts[i + b]  BY <3>2
      <4>2. i + b \in 1..n + 1 /\ ~(i + b <= j)  BY <1>3
      <4> QED  BY <1>1, <1>6, <2>0, <4>1, <4>2
    <3> QED  BY <1>0, <3>1, <3>2 DEF N
  <2>2. ASSUME NEW y \in parts[j] PROVE y < x
    <3>1. y < keys[j] /\ y \in Int /\ keys[j] \in Int  BY <1>1, <1>6, <2>0
    <3> QED  BY <2>1, <3>1
  <2> QED  BY <2>0, <2>1, <2>2
<1>8. ASSUME NEW x \in N, NEW j \in 1..z
      PROVE  i + m + j \in 1..n /\ x < keys[i + m + j] /\ \A y \in parts[i + m + 1 + j] : x < y
  <2> DEFINE p == i + m + j
  <2>0. p \in 1..n /\ p + 1 \in 1..n + 1 /\ ~(p + 1 <= p) /\ i + m + 1 + j = p + 1  BY <1>3
  <2>1. x < keys[p] /\ x \in Int
    <3>1. CASE \E b \in 1..m : x = keys[i + b]
      <4>1. PICK b \in 1..m : x = keys[i + b]  BY <3>1
      <4>2. i + b \in 1..n /\ i + b < p  BY <1>3
      <4> HIDE DEF p
      <4> QED  BY <1>1, <1>6, <2>0, <4>1, <4>2
    <3>2. CASE \E b \in 1..m + 1 : x \in parts[i + b]
      <4>1. PICK b \in 1..m + 1 : x \in parts[i + b]  BY <3>2
      <4>2. i + b \in 1..n + 1 /\ i + b <= p  BY <1>3
      <4> HIDE DEF p
      <4> QED  BY <1>1, <1>6, <2>0, <4>1, <4>2
    <3> QED  BY <1>0, <3>1, <3>2 DEF N
  <2> HIDE DEF p
  <2>2. ASSUME NEW y \in parts[p + 1] PROVE x < y
    <3>1. keys[p] < y /\ y \in Int /\ keys[p] \in Int  BY <1>1, <1>6, <2>0
    <3> QED  BY <2>1, <3>1
  <2>3. x < keys[p] /\ p \in 1..n  BY <2>0, <2>1
  <2> QED  BY <2>0, <2>2, <2>3 DEF p
<1> HIDE DEF N
<1>9. ASSUME NEW a \in 1..i + l + z
      PROVE  \/ a \in 1..i /\ a \in 1..n /\ rk[a] = keys[a]
             \/ \E j \in 1..l : a = i + j /\ rk[a] = ck[j]
             \/ \E j \in 1..z : a = i + l + j /\ i + m + j \in 1..n /\ rk[a] = keys[i + m + j]
  <2>1. CASE a <= i
    <3>1. a \in 1..i /\ a \in 1..n  BY <1>3, <2>1
    <3> QED  BY <1>4, <3>1
  <2>2. CASE i < a /\ a <= i + l
    <3> DEFINE j == a - i
    <3>1. j \in 1..l /\ a = i + j  BY <1>3, <2>2
    <3> HIDE DEF j
    <3> QED  BY <1>4, <3>1
  <2>3. CASE i + l < a
    <3> DEFINE j == a - (i + l)
    <3>1. j \in 1..z /\ a = i + l + j /\ i + m + j \in 1..n  BY <1>3, <2>3
    <3> HIDE DEF j
    <3> QED  BY <1>4, <3>1
  <2> QED  BY <1>3, <2>1, <2>2, <2>3
<1>10. ASSUME NEW a \in 1..i + l + z + 1
       PROVE  \/ a \in 1..i /\ a \in 1..n + 1 /\ rp[a] = parts[a]
              \/ \E j \in 1..l + 1 : a = i + j /\ rp[a] = cp[j]
              \/ \E j \in 1..z : a = i + l + 1 + j /\ i + m + 1 + j \in 1..n + 1 /\ rp[a] = parts[i + m + 1 + j]
  <2>1. CASE a <= i
    <3>1. a \in 1..i /\ a \in 1..n + 1  BY <1>3, <2>1
    <3> QED  BY <1>5, <3>1
  <2>2. CASE i < a /\ a <= i + l + 1
    <3> DEFINE j == a - i
    <3>1. j \in 1..l + 1 /\ a = i + j  BY <1>3, <2>2
    <3> HIDE DEF j
    <3> QED  BY <1>5, <3>1
  <2>3. CASE i + l + 1 < a
    <3> DEFINE j == a - (i + l + 1)
    <3>1. j \in 1..z /\ a = i + l + 1 + j /\ i + m + 1 + j \in 1..n + 1  BY <1>3, <2>3
    <3> HIDE DEF j
    <3> QED  BY <1>5, <3>1
  <2> QED  BY <1>3, <2>1, <2>2, <2>3
<1>11. ASSUME NEW a \in 1..i + l + z, NEW b \in 1..i + l + z, a < b PROVE rk[a] < rk[b]
  <2>1. CASE b \in 1..i /\ b \in 1..n /\ rk[b] = keys[b]
    <3>1. a \in 1..i /\ a \in 1..n  BY <1>3, <1>11, <2>1, SMTT(60)
    <3> QED  BY <1>1, <1>4, <1>11, <2>1, <3>1
  <2>2. CASE \E j \in 1..l : b = i + j /\ rk[b] = ck[j]
    <3>1. PICK j \in 1..l : b = i + j /\ rk[b] = ck[j]  BY <2>2
    <3>2. CASE a \in 1..i /\ a \in 1..n /\ rk[a] = keys[a]  BY <1>6, <1>7, <3>1, <3>2
    <3>3. CASE \E g \in 1..l : a = i + g /\ rk[a] = ck[g]
      <4>1. PICK g \in 1..l : a = i + g /\ rk[a] = ck[g]  BY <3>3
      <4>2. g < j  BY <1>3, <1>11, <3>1, <4>1, SMTT(60)
      <4> QED  BY <1>2, <3>1, <4>1, <4>2
    <3>4. CASE \E g \in 1..z : a = i + l + g  BY <1>3, <1>11, <3>1, <3>4
    <3> QED  BY <1>9, <3>2, <3>3, <3>4
  <2>3. CASE \E j \in 1..z : b = i + l + j /\ i + m + j \in 1..n /\ rk[b] = keys[i + m + j]
    <3>1. PICK j \in 1..z : b = i + l + j /\ i + m + j \in 1..n /\ rk[b] = keys[i + m + j]  BY <2>3
    <3>2. CASE a \in 1..i /\ a \in 1..n /\ rk[a] = keys[a]
      <4>1. a < i + m + j  BY <1>3, <3>2, SMTT(60)
      <4> QED  BY <1>1, <3>1, <3>2, <4>1
    <3>3. CASE \E g \in 1..l : a = i + g /\ rk[a] = ck[g]  BY <1>6, <1>8, <3>1, <3>3
    <3>4. CASE \E g \in 1..z : a = i + l + g /\ i + m + g \in 1..n /\ rk[a] = keys[i + m + g]
      <4>1. PICK g \in 1..z : a = i + l + g /\ i + m + g \in 1..n /\ rk[a] = keys[i + m + g]  BY <3>4
      <4>2. i + m + g < i + m + j
        <5>1. a = i + l + g /\ b = i + l + j  BY <3>1, <4>1
        <5>2. i + l + g < i + l + j  BY <1>11, <5>1
        <5> QED  BY <1>3, <5>2
      <4> QED  BY <1>1, <3>1, <4>1, <4>2
    <3> QED  BY <1>9, <3>2, <3>3, <3>4
  <2> QED  BY <1>9, <2>1, <2>2, <2>3
<1>12. ASSUME NEW a \in 1..i + l + z + 1, NEW b \in 1..i + l + z, NEW x \in rp[a]
       PROVE IF a <= b THEN x < rk[b] ELSE rk[b] < x
  <2>1. CASE a \in 1..i /\ a \in 1..n + 1 /\ rp[a] = parts[a]
    <3>1. CASE b \in 1..i /\ b \in 1..n /\ rk[b] = keys[b]  BY <1>1, <2>1, <3>1
    <3>2. CASE \E j \in 1..l : b = i + j /\ rk[b] = ck[j]
      <4>1. PICK j \in 1..l : b = i + j /\ rk[b] = ck[j]  BY <3>2
      <4>2. a <= b  BY <1>3, <2>1, <4>1
      <4> QED  BY <1>6, <1>7, <2>1, <4>1, <4>2
    <3>3. CASE \E j \in 1..z : b = i + l + j /\ i + m + j \in 1..n /\ rk[b] = keys[i + m + j]
      <4>1. PICK j \in 1..z : b = i + l + j /\ i + m + j \in 1..n /\ rk[b] = keys[i + m + j]  BY <3>3
      <4>2. a <= b /\ a <= i + m + j  BY <1>3, <2>1, <4>1
      <4> QED  BY <1>1, <2>1, <4>1, <4>2
    <3> QED  BY <1>9, <3>1, <3>2, <3>3
  <2>2. CASE \E j \in 1..l + 1 : a = i + j /\ rp[a] = cp[j]
    <3>0. PICK g \in 1..l + 1 : a = i + g /\ rp[a] = cp[g]  BY <2>2
    <3>1. CASE b \in 1..i /\ b \in 1..n /\ rk[b] = keys[b]
      <4>1. ~(a <= b)  BY <1>3, <3>0, <3>1
      <4> QED  BY <1>6, <1>7, <3>0, <3>1, <4>1
    <3>2. CASE \E j \in 1..l : b = i + j /\ rk[b] = ck[j]
      <4>1. PICK j \in 1..l : b = i + j /\ rk[b] = ck[j]  BY <3>2
      <4>2. a <= b <=> g <= j  BY <1>3, <3>0, <4>1, SMTT(60)
      <4> QED  BY <1>2, <3>0, <4>1, <4>2
    <3>3. CASE \E j \in 1..z : b = i + l + j /\ i + m + j \in 1..n /\ rk[b] = keys[i + m + j]
      <4>1. PICK j \in 1..z : b = i + l + j /\ i + m + j \in 1..n /\ rk[b] = keys[i + m + j]  BY <3>3
      <4>2. a = i + g /\ b = i + l + j  BY <3>0, <4>1
      <4>3. a <= b  BY <1>3, <4>2
      <4>4. x \in N  BY <1>6, <3>0
      <4>5. x < keys[i + m + j]  BY <1>8, <4>1, <4>4
      <4>6. x < rk[b]  BY <4>1, <4>5
      <4> QED  BY <4>3, <4>6
    <3> QED  BY <1>9, <3>1, <3>2, <3>3
  <2>3. CASE \E j \in 1..z : a = i + l + 1 + j /\ i + m + 1 + j \in 1..n + 1 /\ rp[a] = parts[i + m + 1 + j]
    <3>0. PICK g \in 1..z : a = i + l + 1 + g /\ i + m + 1 + g \in 1..n + 1 /\ rp[a] = parts[i + m + 1 + g]
      BY <2>3
    <3>1. CASE b \in 1..i /\ b \in 1..n /\ rk[b] = keys[b]
      <4>1. ~(a <= b) /\ ~(i + m + 1 + g <= b)
        <5>1. b \in Int /\ b <= i  BY <3>1
        <5>2. l \in Nat /\ g \in Nat  BY <1>3, <3>0
        <5>3. i < i + l + 1 + g /\ i < i + m + 1 + g  BY <5>2
        <5>4. ~(i + l + 1 + g <= b)  BY <5>1, <5>2, <5>3
        <5>5. ~(i + m + 1 + g <= b)  BY <5>1, <5>2, <5>3
        <5> QED  BY <3>0, <5>4, <5>5
      <4> QED  BY <1>1, <3>0, <3>1, <4>1
    <3>2. CASE \E j \in 1..l : b = i + j /\ rk[b] = ck[j]
      <4>1. PICK j \in 1..l : b = i + j /\ rk[b] = ck[j]  BY <3>2
      <4>2. ~(a <= b)  BY <1>3, <3>0, <4>1
      <4> QED  BY <1>6, <1>8, <3>0, <4>1, <4>2
    <3>3. CASE \E j \in 1..z : b = i + l + j /\ i + m + j \in 1..n /\ rk[b] = keys[i + m + j]
      <4>1. PICK j \in 1..z : b = i + l + j /\ i + m + j \in 1..n /\ rk[b] = keys[i + m + j]  BY <3>3
      <4>2. a <= b <=> i + m + 1 + g <= i + m + j  BY <1>3, <3>0, <4>1
      <4> QED  BY <1>1, <3>0, <4>1, <4>2
    <3> QED  BY <1>9, <3>1, <3>2, <3>3
  <2> QED  BY <1>10, <2>1, <2>2, <2>3
<1>13. Ordered(rk, rp)
  <2>1. Len(rp) = Len(rk) + 1  BY <1>3, <1>4, <1>5
  <2> QED  BY <1>4, <1>5, <1>11, <1>12, <2>1 DEF Ordered
<1>14. ASSUME NEW x \in All(rk, rp) PROVE x \in All(keys, parts)
  <2>0. ASSUME x \in N PROVE x \in All(keys, parts)
    <3>1. CASE \E b \in 1..m : x = keys[i + b]
      <4>1. PICK b \in 1..m : x = keys[i + b]  BY <3>1
      <4>2. i + b \in 1..n  BY <1>3
      <4> QED  BY <4>1, <4>2, AllHas
    <3>2. CASE \E b \in 1..m + 1 : x \in parts[i + b]
      <4>1. PICK b \in 1..m + 1 : x \in parts[i + b]  BY <3>2
      <4>2. i + b \in 1..Len(parts)  BY <1>1, <1>3
      <4> QED  BY <4>1, <4>2, AllHas
    <3> QED  BY <1>0, <2>0, <3>1, <3>2 DEF N
  <2>1. CASE \E a \in 1..Len(rk) : x = rk[a]
    <3>1. PICK a \in 1..i + l + z : x = rk[a]  BY <1>4, <2>1
    <3>2. CASE a \in 1..n /\ rk[a] = keys[a]  BY <1>a, <3>1, <3>2, AllHas
    <3>3. CASE \E j \in 1..l : rk[a] = ck[j]  BY <1>6, <2>0, <3>1, <3>3
    <3>4. CASE \E j \in 1..z : i + m + j \in 1..n /\ rk[a] = keys[i + m + j]  BY <1>a, <3>1, <3>4, AllHas
    <3> QED  BY <1>9, <3>2, <3>3, <3>4
  <2>2. CASE \E a \in 1..Len(rp) : x \in rp[a]
    <3>1. PICK a \in 1..i + l + z + 1 : x \in rp[a]  BY <1>5, <2>2
    <3>2. CASE a \in 1..n + 1 /\ rp[a] = parts[a]  BY <1>1, <3>1, <3>2, AllHas
    <3>3. CASE \E j \in 1..l + 1 : rp[a] = cp[j]  BY <1>6, <2>0, <3>1, <3>3
    <3>4. CASE \E j \in 1..z : i + m + 1 + j \in 1..n + 1 /\ rp[a] = parts[i + m + 1 + j]
      BY <1>1, <3>1, <3>4, AllHas
    <3> QED  BY <1>10, <3>2, <3>3, <3>4
  <2> QED  BY <1>13, <2>1, <2>2, AllIs
<1>15. ASSUME NEW x \in All(keys, parts) PROVE x \in All(rk, rp)
  <2>0. ASSUME x \in N PROVE x \in All(rk, rp)
    <3>1. CASE \E b \in 1..l : x = ck[b]
      <4>1. PICK b \in 1..l : x = ck[b]  BY <3>1
      <4>2. i + b \in 1..Len(rk) /\ x = rk[i + b]  BY <1>3, <1>4, <4>1
      <4> QED  BY <1>13, <4>2, AllHas
    <3>2. CASE \E b \in 1..l + 1 : x \in cp[b]
      <4>1. PICK b \in 1..l + 1 : x \in cp[b]  BY <3>2
      <4>2. i + b \in 1..Len(rp) /\ x \in rp[i + b]  BY <1>3, <1>5, <4>1
      <4> QED  BY <1>13, <4>2, AllHas
    <3>3. (\E b \in 1..Len(ck) : x = ck[b]) \/ \E b \in 1..Len(cp) : x \in cp[b]
      BY <1>0, <2>0, AllIs DEF N
    <3> QED  BY <1>a, <1>2, <3>1, <3>2, <3>3
  <2>1. CASE \E a \in 1..n : x = keys[a]
    <3>1. PICK a \in 1..n : x = keys[a]  BY <2>1
    <3>2. CASE a <= i
      <4>1. a \in 1..i /\ a \in 1..Len(rk)  BY <1>3, <1>4, <3>2
      <4> QED  BY <1>4, <1>13, <3>1, <4>1, AllHas
    <3>3. CASE i < a /\ a <= i + m
      <4> DEFINE j == a - i
      <4>1. j \in 1..m /\ a = i + j  BY <1>3, <3>3
      <4> HIDE DEF j
      <4> QED  BY <1>0, <2>0, <3>1, <4>1 DEF N
    <3>4. CASE i + m < a
      <4> DEFINE j == a - (i + m)
      <4>1. j \in 1..z /\ a = i + m + j /\ i + l + j \in 1..Len(rk)  BY <1>3, <1>4, <3>4
      <4> HIDE DEF j
      <4>2. x = rk[i + l + j]  BY <1>4, <3>1, <4>1
      <4> QED  BY <1>13, <4>1, <4>2, AllHas
    <3> QED  BY <1>3, <3>2, <3>3, <3>4
  <2>2. CASE \E a \in 1..n + 1 : x \in parts[a]
    <3>1. PICK a \in 1..n + 1 : x \in parts[a]  BY <2>2
    <3>2. CASE a <= i
      <4>1. a \in 1..i /\ a \in 1..Len(rp)  BY <1>3, <1>5, <3>2
      <4>2. x \in rp[a]  BY <1>5, <3>1, <4>1
      <4> QED  BY <1>13, <4>1, <4>2, AllHas
    <3>3. CASE i < a /\ a <= i + m + 1
      <4> DEFINE j == a - i
      <4>1. j \in 1..m + 1 /\ a = i + j  BY <1>3, <3>3
      <4> HIDE DEF j
      <4> QED  BY <1>0, <2>0, <3>1, <4>1 DEF N
    <3>4. CASE i + m + 1 < a
      <4> DEFINE j == a - (i + m + 1)
      <4>1. j \in 1..z /\ a = i + m + 1 + j /\ i + l + 1 + j \in 1..Len(rp)  BY <1>3, <1>5, <3>4
      <4> HIDE DEF j
      <4>2. x \in rp[i + l + 1 + j]  BY <1>5, <3>1, <4>1
      <4> QED  BY <1>13, <4>1, <4>2, AllHas
    <3> QED  BY <1>3, <3>2, <3>3, <3>4
  <2>3. (\E a \in 1..Len(keys) : x = keys[a]) \/ \E a \in 1..Len(parts) : x \in parts[a]  BY AllIs
  <2> QED  BY <1>a, <1>1, <2>1, <2>2, <2>3
<1> QED  BY <1>13, <1>14, <1>15

\* Where the elements come from.
LEMMA Places ==
  ASSUME NEW i \in Nat, NEW l \in Nat, NEW z \in Nat, NEW a \in 1..i + l + z
  PROVE  \/ a \in 1..i
         \/ \E j \in 1..l : a = i + j
         \/ \E j \in 1..z : a = i + l + j
<1>1. CASE a <= i  BY <1>1
<1>2. CASE i < a /\ a <= i + l
  <2>1. a - i \in 1..l /\ a = i + (a - i)  BY <1>2
  <2> QED  BY <2>1
<1>3. CASE i + l < a
  <2>1. a - (i + l) \in 1..z /\ a = i + l + (a - (i + l))  BY <1>3
  <2> QED  BY <2>1
<1> QED  BY <1>1, <1>2, <1>3

\* A row of nodes and parts with some of them replaced exists.
LEMMA InsteadExists ==
  ASSUME NEW S, NEW q \in Seq(S), NEW c \in Seq(S), NEW i \in Nat, NEW m \in Nat, i + m <= Len(q)
  PROVE  \E r \in Seq(S) : Instead(q, i, m, c, r)
<1> DEFINE l == Len(c)
           n == Len(q)
           z == n - m - i
           r == [j \in 1..i + l + z |-> IF j <= i THEN q[j]
                                        ELSE IF j <= i + l THEN c[j - i] ELSE q[j - l + m]]
<1>1. l \in Nat /\ n \in Nat /\ z \in Nat /\ i + m + z = n /\ n - m + l = i + l + z  OBVIOUS
<1>2. (\A j \in 1..n : q[j] \in S) /\ \A j \in 1..l : c[j] \in S  BY ElementOfSeq
<1> HIDE DEF l, n, z
<1>3. \A j \in 1..i : j \in 1..i + l + z /\ j <= i /\ j \in 1..n  BY <1>1
<1>4. \A j \in 1..l : i + j \in 1..i + l + z /\ ~(i + j <= i) /\ i + j <= i + l /\ (i + j) - i = j
  BY <1>1
<1>5. \A j \in 1..z : /\ i + l + j \in 1..i + l + z /\ ~(i + l + j <= i) /\ ~(i + l + j <= i + l)
                      /\ i + l + j - l + m = i + m + j /\ i + m + j \in 1..n
  BY <1>1
<1>6. \A j \in 1..i : r[j] = q[j]  BY <1>3
<1>7. \A j \in 1..l : r[i + j] = c[j]  BY <1>4
<1>8. ASSUME NEW j \in 1..z PROVE r[i + l + j] = q[i + m + j]
  <2> DEFINE a == i + l + j
  <2>1. a \in 1..i + l + z  BY <1>1
  <2>3. ~(a <= i) /\ ~(a <= i + l)  BY <1>1
  <2>4. a - l + m = i + m + j  BY <1>1
  <2> HIDE DEF a
  <2>2. r[a] = q[a - l + m]  BY <2>1, <2>3
  <2> QED  BY <2>2, <2>4 DEF a
<1>9. DOMAIN r = 1..i + l + z /\ r = [j \in 1..i + l + z |-> r[j]]  OBVIOUS
<1> HIDE DEF r
<1>10. ASSUME NEW a \in 1..i + l + z PROVE r[a] \in S
  <2>1. a \in 1..i \/ (\E j \in 1..l : a = i + j) \/ \E j \in 1..z : a = i + l + j  BY <1>1, Places
  <2> QED  BY <1>2, <1>3, <1>5, <1>6, <1>7, <1>8, <2>1
<1>11. r \in Seq(S) /\ Len(r) = i + l + z
  <2>1. r \in [1..i + l + z -> S] /\ i + l + z \in Nat  BY <1>1, <1>9, <1>10
  <2>2. r \in Seq(S)  BY <2>1, SeqDef
  <2> QED  BY <1>9, <2>1, <2>2
<1>12. Instead(q, i, m, c, r)  BY <1>1, <1>6, <1>7, <1>8, <1>11 DEF Instead, l, n, z
<1> QED  BY <1>11, <1>12

\* The children of a node around some that are to be replaced, and those that take their place.
Around(W, h, node, parts, i, m) ==
  /\ Ordered(node.keys, parts) /\ node.kids \in Seq(Nodes(Trees(W, h)))
  /\ Len(node.kids) = Len(node.keys) + 1 /\ i + m <= Len(node.keys)
  /\ \A j \in 1..Len(node.keys) + 1 :
       j <= i \/ i + m + 1 < j =>
         In(W, h, node.kids[j], parts[j], <<>>) /\ Size(node.kids[j]) \in W
Patch(W, h, ck, cp, cc) ==
  /\ Ordered(ck, cp) /\ Len(cc) = Len(ck) + 1
  /\ \A j \in 1..Len(ck) + 1 : In(W, h, cc[j], cp[j], <<>>) /\ Size(cc[j]) \in W

\* A node with other children in the place of some.
Splice(W, h, node, parts, i, m, ck, cp, cc, rk, rc) ==
  /\ h \in Nat /\ i \in Nat /\ m \in Nat
  /\ Around(W, h, node, parts, i, m) /\ Patch(W, h, ck, cp, cc)
  /\ Covers(node.keys, parts, i, m, ck, cp)
  /\ rk \in Seq(Key) /\ Instead(node.keys, i, m, ck, rk)
  /\ rc \in Seq(Nodes(Trees(W, h))) /\ Instead(node.kids, i, m + 1, cc, rc)

\* What a splice of a node's keys and children keeps in order.
LEMMA Spliced ==
  ASSUME BTreeParameters, NEW W, NEW h, NEW node, NEW parts, NEW i, NEW m,
         NEW ck, NEW cp, NEW cc, NEW rk, NEW rc, Splice(W, h, node, parts, i, m, ck, cp, cc, rk, rc)
  PROVE  /\ In(W, h + 1, [keys |-> rk, kids |-> rc], All(node.keys, parts), <<>>)
         /\ Len(rk) = Len(node.keys) - m + Len(ck)
<1>0. /\ h \in Nat /\ i \in Nat /\ m \in Nat
      /\ Around(W, h, node, parts, i, m) /\ Patch(W, h, ck, cp, cc)
      /\ Covers(node.keys, parts, i, m, ck, cp)
      /\ rk \in Seq(Key) /\ Instead(node.keys, i, m, ck, rk)
      /\ rc \in Seq(Nodes(Trees(W, h))) /\ Instead(node.kids, i, m + 1, cc, rc)
  BY DEF Splice
<1> DEFINE keys == node.keys
           kids == node.kids
           n == Len(keys)
           l == Len(ck)
           z == n - m - i
           res == [keys |-> rk, kids |-> rc]
<1>1. /\ keys \in Seq(Key) /\ parts \in Seq(SUBSET Key) /\ Len(parts) = n + 1
      /\ Len(kids) = n + 1 /\ i + m <= n /\ Ordered(keys, parts)
  BY <1>0 DEF Ordered, Around
<1>2. ck \in Seq(Key) /\ cp \in Seq(SUBSET Key) /\ Len(cp) = l + 1 /\ Len(cc) = l + 1 /\ Ordered(ck, cp)
  BY <1>0 DEF Ordered, Patch
<1>3. n \in Nat /\ l \in Nat /\ z \in Nat /\ i + m + z = n /\ n = Len(keys) /\ l = Len(ck)
  <2> HIDE DEF keys
  <2> QED  BY <1>0, <1>1, <1>2
<1>a. \A j \in 1..n + 1 : j <= i \/ i + m + 1 < j =>
        In(W, h, kids[j], parts[j], <<>>) /\ Size(kids[j]) \in W
  BY <1>0 DEF Around
<1>b. \A j \in 1..l + 1 : In(W, h, cc[j], cp[j], <<>>) /\ Size(cc[j]) \in W  BY <1>0 DEF Patch
<1>c. Covers(keys, parts, i, m, ck, cp)  BY <1>0
<1>d. Instead(keys, i, m, ck, rk) /\ Instead(kids, i, m + 1, cc, rc)  BY <1>0
<1>15. res.keys = rk /\ res.kids = rc /\ res = [keys |-> res.keys, kids |-> res.kids]  OBVIOUS
<1>16. h + 1 \in Nat /\ h + 1 # 0 /\ (h + 1) - 1 = h  BY <1>0
<1> HIDE DEF keys, kids, n, l, z, res
<1>4. /\ (n + 1) - (m + 1) + (l + 1) = i + (l + 1) + z /\ (n + 1) - (m + 1) - i = z
      /\ i + (m + 1) <= n + 1 /\ n - m + l = i + l + z /\ i + (l + 1) + z = i + l + z + 1
  BY <1>0, <1>3, SMTT(60)
<1>5. PICK rp \in Seq(SUBSET Key) : Instead(parts, i, m + 1, cp, rp)
  <2>1. m + 1 \in Nat /\ i + (m + 1) <= Len(parts)  BY <1>0, <1>1, <1>4
  <2> QED  BY <1>0, <1>1, <1>2, <2>1, InsteadExists
<1>6. Ordered(rk, rp) /\ All(rk, rp) = All(keys, parts)
  <2>1. i + m <= Len(keys)  BY <1>0, <1>1, <1>3
  <2> QED  BY <1>0, <1>1, <1>2, <1>c, <1>d, <1>5, <2>1, InsteadOrdered, SMTT(60)
<1>7. /\ Len(rp) = i + (l + 1) + z
      /\ \A j \in 1..i : rp[j] = parts[j]
      /\ \A j \in 1..l + 1 : rp[i + j] = cp[j]
      /\ \A j \in 1..z : rp[i + (l + 1) + j] = parts[i + (m + 1) + j]
  BY <1>0, <1>1, <1>2, <1>4, <1>5 DEF Instead
<1>8. /\ Len(rc) = i + (l + 1) + z
      /\ \A j \in 1..i : rc[j] = kids[j]
      /\ \A j \in 1..l + 1 : rc[i + j] = cc[j]
      /\ \A j \in 1..z : rc[i + (l + 1) + j] = kids[i + (m + 1) + j]
  BY <1>0, <1>1, <1>2, <1>4, <1>d DEF Instead
<1>9. Len(rk) = n - m + l  BY <1>0, <1>d DEF Instead, n, l
<1>10. \A j \in 1..i : j \in 1..n + 1 /\ j <= i  BY <1>0, <1>3
<1>11. \A j \in 1..z : i + (m + 1) + j \in 1..n + 1 /\ i + m + 1 < i + (m + 1) + j  BY <1>0, <1>3
<1>14. ASSUME NEW a \in 1..Len(rp) PROVE In(W, h, rc[a], rp[a], <<>>) /\ Size(rc[a]) \in W
  <2>0. \/ a \in 1..i
        \/ \E j \in 1..l + 1 : a = i + j
        \/ \E j \in 1..z : a = i + (l + 1) + j
    <3> DEFINE b == l + 1
    <3>1. b \in Nat /\ a \in 1..i + b + z /\ i \in Nat /\ z \in Nat  BY <1>0, <1>3, <1>7
    <3> HIDE DEF b
    <3>2. a \in 1..i \/ (\E j \in 1..b : a = i + j) \/ \E j \in 1..z : a = i + b + j
      BY <3>1, Places
    <3> QED  BY <1>0, <3>2 DEF b
  <2>1. CASE a \in 1..i
    <3>1. rc[a] = kids[a] /\ rp[a] = parts[a]  BY <1>0, <1>7, <1>8, <2>1
    <3> QED  BY <1>0, <1>a, <1>10, <2>1, <3>1
  <2>2. CASE \E j \in 1..l + 1 : a = i + j
    <3>1. PICK j \in 1..l + 1 : a = i + j  BY <1>0, <2>2
    <3>2. rc[a] = cc[j] /\ rp[a] = cp[j]  BY <1>0, <1>7, <1>8, <3>1
    <3> QED  BY <1>0, <1>b, <3>2
  <2>3. CASE \E j \in 1..z : a = i + (l + 1) + j
    <3>1. PICK j \in 1..z : a = i + (l + 1) + j  BY <1>0, <2>3
    <3> DEFINE b == i + (m + 1) + j
    <3>2. rc[a] = kids[b] /\ rp[a] = parts[b]  BY <1>0, <1>7, <1>8, <3>1
    <3>3. b \in 1..n + 1 /\ i + m + 1 < b  BY <1>0, <1>11
    <3> HIDE DEF b
    <3> QED  BY <1>0, <1>a, <3>2, <3>3
  <2> QED  BY <1>0, <2>0, <2>1, <2>2, <2>3
<1>17. Holds(W, h + 1, res, rp, <<>>)
  <2>1. Len(res.kids) = Len(rp)  BY <1>0, <1>7, <1>8, <1>15
  <2> DEFINE H == h + 1
  <2>2. H \in Nat /\ H # 0 /\ H - 1 = h  BY <1>0, <1>16
  <2> HIDE DEF H
  <2>3. /\ res.kids \in Seq(Nodes(Trees(W, H - 1)))
        /\ \A a \in 1..Len(rp) : In(W, H - 1, res.kids[a], rp[a], <<>>) /\ Size(res.kids[a]) \in W
    BY <1>0, <1>14, <1>15, <2>2
  <2>4. Ordered(res.keys, rp) /\ res = [keys |-> res.keys, kids |-> res.kids]  BY <1>0, <1>6, <1>15
  <2>5. Holds(W, H, res, rp, <<>>)  BY <1>0, <2>1, <2>2, <2>3, <2>4, FullHolds
  <2> QED  BY <1>0, <2>5 DEF H
<1>18. In(W, h + 1, res, All(keys, parts), <<>>)  BY <1>0, <1>6, <1>15, <1>17, HoldsIn
<1> QED  BY <1>0, <1>9, <1>18 DEF res, keys, n, l

(***************************************************************************)
(* What the vectors of the code make of a sequence.                        *)
(***************************************************************************)

\* A key for a key.
LEMMA OneForOne ==
  ASSUME NEW S, NEW q \in Seq(S), NEW i \in 0..Len(q) - 1, NEW x \in S
  PROVE  /\ [q EXCEPT ![i + 1] = x] \in Seq(S)
         /\ Instead(q, i, 1, <<x>>, [q EXCEPT ![i + 1] = x])
<1> DEFINE r == [q EXCEPT ![i + 1] = x]
<1>1. Len(q) \in Nat /\ i + 1 \in 1..Len(q)  OBVIOUS
<1>2. /\ r \in Seq(S) /\ Len(r) = Len(q)
      /\ \A j \in 1..Len(q) : r[j] = IF j = i + 1 THEN x ELSE q[j]
  BY <1>1, ExceptSeq
<1>3. Len(<<x>>) = 1 /\ <<x>>[1] = x /\ Len(q) - 1 + 1 = Len(q)  BY <1>1
<1> HIDE DEF r
<1>4. \A j \in 1..i : r[j] = q[j]  BY <1>1, <1>2
<1>5. \A j \in 1..1 : r[i + j] = <<x>>[j]  BY <1>1, <1>2, <1>3
<1>6. ASSUME NEW j \in 1..Len(q) - 1 - i PROVE r[i + 1 + j] = q[i + 1 + j]
  <2>1. i + 1 + j \in 1..Len(q) /\ i + 1 + j # i + 1  BY <1>1
  <2> QED  BY <1>2, <2>1
<1> QED  BY <1>2, <1>3, <1>4, <1>5, <1>6 DEF Instead, r

\* Two children for two.
LEMMA TwoForTwo ==
  ASSUME NEW S, NEW q \in Seq(S), NEW i \in 0..Len(q) - 2, NEW x \in S, NEW y \in S
  PROVE  /\ [q EXCEPT ![i + 1] = x, ![i + 2] = y] \in Seq(S)
         /\ Instead(q, i, 2, <<x, y>>, [q EXCEPT ![i + 1] = x, ![i + 2] = y])
<1> DEFINE p == [q EXCEPT ![i + 1] = x]
           r == [p EXCEPT ![i + 2] = y]
<1>1. Len(q) \in Nat /\ i + 1 \in 1..Len(q) /\ i + 2 \in 1..Len(q)  OBVIOUS
<1>2. /\ p \in Seq(S) /\ Len(p) = Len(q)
      /\ \A j \in 1..Len(q) : p[j] = IF j = i + 1 THEN x ELSE q[j]
  BY <1>1, ExceptSeq
<1>a. r = [q EXCEPT ![i + 1] = x, ![i + 2] = y]  OBVIOUS
<1> HIDE DEF p
<1>3. /\ r \in Seq(S) /\ Len(r) = Len(p)
      /\ \A j \in 1..Len(p) : r[j] = IF j = i + 2 THEN y ELSE p[j]
  <2>1. p \in Seq(S) /\ i + 2 \in 1..Len(p)  BY <1>1, <1>2
  <2> QED  BY <2>1, ExceptSeq
<1>4. Len(<<x, y>>) = 2 /\ <<x, y>>[1] = x /\ <<x, y>>[2] = y /\ Len(q) - 2 + 2 = Len(q)  BY <1>1
<1> HIDE DEF r
<1>5. ASSUME NEW j \in 1..i PROVE r[j] = q[j]
  <2>1. j \in 1..Len(q) /\ j # i + 1 /\ j # i + 2  BY <1>1
  <2> QED  BY <1>2, <1>3, <2>1
<1>6. ASSUME NEW j \in 1..2 PROVE r[i + j] = <<x, y>>[j]
  <2>1. CASE j = 1
    <3>1. i + 1 # i + 2  OBVIOUS
    <3> QED  BY <1>1, <1>2, <1>3, <1>4, <2>1, <3>1
  <2>2. CASE j = 2  BY <1>1, <1>2, <1>3, <1>4, <2>2
  <2> QED  BY <2>1, <2>2
<1>7. ASSUME NEW j \in 1..Len(q) - 2 - i PROVE r[i + 2 + j] = q[i + 2 + j]
  <2>1. i + 2 + j \in 1..Len(q) /\ i + 2 + j # i + 1 /\ i + 2 + j # i + 2  BY <1>1
  <2> QED  BY <1>2, <1>3, <2>1
<1>8. Instead(q, i, 2, <<x, y>>, r)  BY <1>2, <1>3, <1>4, <1>5, <1>6, <1>7 DEF Instead
<1> QED  BY <1>3, <1>8, <1>a

\* A key fewer.
LEMMA NoneForOne ==
  ASSUME NEW S, NEW q \in Seq(S), NEW i \in 0..Len(q) - 1
  PROVE  RemoveAt(q, i + 1) \in Seq(S) /\ Instead(q, i, 1, <<>>, RemoveAt(q, i + 1))
<1> DEFINE r == RemoveAt(q, i + 1)
<1>1. Len(q) \in Nat /\ i + 1 \in 1..Len(q)  OBVIOUS
<1>2. /\ r \in Seq(S) /\ Len(r) = Len(q) - 1
      /\ \A j \in 1..Len(q) - 1 : r[j] = IF j < i + 1 THEN q[j] ELSE q[j + 1]
  BY <1>1, RemovedAt
<1>3. Len(<<>>) = 0 /\ Len(q) - 1 + 0 = Len(q) - 1  BY <1>1
<1> HIDE DEF r
<1>4. ASSUME NEW j \in 1..i PROVE r[j] = q[j]
  <2>1. j \in 1..Len(q) - 1 /\ j < i + 1  BY <1>1
  <2> QED  BY <1>2, <2>1
<1>5. ASSUME NEW j \in 1..Len(q) - 1 - i PROVE r[i + 0 + j] = q[i + 1 + j]
  <2>1. i + j \in 1..Len(q) - 1 /\ ~(i + j < i + 1) /\ (i + j) + 1 = i + 1 + j /\ i + 0 + j = i + j  BY <1>1
  <2> QED  BY <1>2, <2>1
<1>6. \A j \in 1..0 : r[i + j] = <<>>[j]  OBVIOUS
<1> QED  BY <1>2, <1>3, <1>4, <1>5, <1>6 DEF Instead, r

\* A child for two.
LEMMA OneForTwo ==
  ASSUME NEW S, NEW q \in Seq(S), NEW i \in 0..Len(q) - 2, NEW x \in S
  PROVE  /\ RemoveAt([q EXCEPT ![i + 1] = x], i + 2) \in Seq(S)
         /\ Instead(q, i, 2, <<x>>, RemoveAt([q EXCEPT ![i + 1] = x], i + 2))
<1> DEFINE p == [q EXCEPT ![i + 1] = x]
           r == RemoveAt(p, i + 2)
<1>1. Len(q) \in Nat /\ i + 1 \in 1..Len(q) /\ i + 2 \in 1..Len(q)  OBVIOUS
<1>2. /\ p \in Seq(S) /\ Len(p) = Len(q)
      /\ \A j \in 1..Len(q) : p[j] = IF j = i + 1 THEN x ELSE q[j]
  BY <1>1, ExceptSeq
<1> HIDE DEF p
<1>3. /\ r \in Seq(S) /\ Len(r) = Len(p) - 1
      /\ \A j \in 1..Len(p) - 1 : r[j] = IF j < i + 2 THEN p[j] ELSE p[j + 1]
  <2>1. p \in Seq(S) /\ i + 2 \in 1..Len(p)  BY <1>1, <1>2
  <2> QED  BY <2>1, RemovedAt
<1>4. Len(<<x>>) = 1 /\ <<x>>[1] = x /\ Len(q) - 2 + 1 = Len(q) - 1  BY <1>1
<1> HIDE DEF r
<1>5. ASSUME NEW j \in 1..i PROVE r[j] = q[j]
  <2>1. j \in 1..Len(q) /\ j \in 1..Len(q) - 1 /\ j # i + 1 /\ j < i + 2  BY <1>1
  <2> QED  BY <1>2, <1>3, <2>1
<1>6. r[i + 1] = x
  <2>1. i + 1 \in 1..Len(q) - 1 /\ i + 1 < i + 2  BY <1>1
  <2> QED  BY <1>1, <1>2, <1>3, <2>1
<1>7. ASSUME NEW j \in 1..Len(q) - 2 - i PROVE r[i + 1 + j] = q[i + 2 + j]
  <2>1. /\ i + 1 + j \in 1..Len(q) - 1 /\ ~(i + 1 + j < i + 2) /\ (i + 1 + j) + 1 = i + 2 + j
        /\ i + 2 + j \in 1..Len(q) /\ i + 2 + j # i + 1
    BY <1>1
  <2> QED  BY <1>2, <1>3, <2>1
<1>9. \A j \in 1..1 : r[i + j] = <<x>>[j]  BY <1>4, <1>6
<1>8. Instead(q, i, 2, <<x>>, r)  BY <1>2, <1>3, <1>4, <1>5, <1>7, <1>9 DEF Instead
<1> QED  BY <1>3, <1>8 DEF r, p

\* A key more.
LEMMA OneForNone ==
  ASSUME NEW S, NEW q \in Seq(S), NEW i \in 0..Len(q), NEW x \in S
  PROVE  InsertAt(q, i + 1, x) \in Seq(S) /\ Instead(q, i, 0, <<x>>, InsertAt(q, i + 1, x))
<1> DEFINE r == InsertAt(q, i + 1, x)
<1>1. Len(q) \in Nat /\ i + 1 \in 1..Len(q) + 1 /\ i \in 0..Len(q)  OBVIOUS
<1>2. /\ r \in Seq(S) /\ Len(r) = Len(q) + 1 /\ r[i + 1] = x
      /\ \A j \in 1..Len(q) + 1 : (j < i + 1 => r[j] = q[j]) /\ (i + 1 < j => r[j] = q[j - 1])
  <2> DEFINE g == i + 1
  <2>1. g \in 1..(Len(q) + 1)  BY <1>1
  <2> HIDE DEF g
  <2>2. /\ InsertAt(q, g, x) \in Seq(S) /\ Len(InsertAt(q, g, x)) = Len(q) + 1
        /\ InsertAt(q, g, x)[g] = x
        /\ \A j \in 1..(Len(q) + 1) : /\ j < g => InsertAt(q, g, x)[j] = q[j]
                                      /\ g < j => InsertAt(q, g, x)[j] = q[j - 1]
    <3>1. InsertAt(q, g, x) \in Seq(S) /\ InsertAt(q, g, x)[g] = x  BY <2>1, InsertedAt
    <3>2. Len(InsertAt(q, g, x)) = Len(q) + 1  BY <2>1, InsertedAt
    <3>3. ASSUME NEW j \in 1..(Len(q) + 1)
          PROVE  /\ j < g => InsertAt(q, g, x)[j] = q[j]
                 /\ g < j => InsertAt(q, g, x)[j] = q[j - 1]
      BY <2>1, InsertedAt
    <3> QED  BY <3>1, <3>2, <3>3
  <2> QED  BY <2>2 DEF g
<1>3. Len(<<x>>) = 1 /\ <<x>>[1] = x /\ Len(q) - 0 + 1 = Len(q) + 1  BY <1>1
<1> HIDE DEF r
<1>4. ASSUME NEW j \in 1..i PROVE r[j] = q[j]
  <2>1. j \in 1..Len(q) + 1 /\ j < i + 1  BY <1>1
  <2> QED  BY <1>2, <2>1
<1>5. ASSUME NEW j \in 1..Len(q) - 0 - i PROVE r[i + 1 + j] = q[i + 0 + j]
  <2>1. i + 1 + j \in 1..Len(q) + 1 /\ i + 1 < i + 1 + j /\ (i + 1 + j) - 1 = i + 0 + j  BY <1>1
  <2> QED  BY <1>2, <2>1
<1>6. \A j \in 1..1 : r[i + j] = <<x>>[j]  BY <1>2, <1>3
<1> QED  BY <1>2, <1>3, <1>4, <1>5, <1>6 DEF Instead, r

\* Two children for one.
LEMMA TwoForOne ==
  ASSUME NEW S, NEW q \in Seq(S), NEW i \in 0..Len(q) - 1, NEW x \in S, NEW y \in S
  PROVE  /\ InsertAt([q EXCEPT ![i + 1] = x], i + 2, y) \in Seq(S)
         /\ Instead(q, i, 1, <<x, y>>, InsertAt([q EXCEPT ![i + 1] = x], i + 2, y))
<1> DEFINE p == [q EXCEPT ![i + 1] = x]
           r == InsertAt(p, i + 2, y)
<1>1. Len(q) \in Nat /\ i + 1 \in 1..Len(q) /\ i + 2 \in 1..Len(q) + 1  OBVIOUS
<1>2. /\ p \in Seq(S) /\ Len(p) = Len(q)
      /\ \A j \in 1..Len(q) : p[j] = IF j = i + 1 THEN x ELSE q[j]
  BY <1>1, ExceptSeq
<1> HIDE DEF p
<1>3. /\ r \in Seq(S) /\ Len(r) = Len(p) + 1 /\ r[i + 2] = y
      /\ \A j \in 1..Len(p) + 1 : (j < i + 2 => r[j] = p[j]) /\ (i + 2 < j => r[j] = p[j - 1])
  <2>1. p \in Seq(S) /\ i + 2 \in 1..Len(p) + 1  BY <1>1, <1>2
  <2> QED  BY <2>1, InsertedAt
<1>4. Len(<<x, y>>) = 2 /\ <<x, y>>[1] = x /\ <<x, y>>[2] = y /\ Len(q) - 1 + 2 = Len(q) + 1  BY <1>1
<1> HIDE DEF r
<1>5. ASSUME NEW j \in 1..i PROVE r[j] = q[j]
  <2>1. j \in 1..Len(q) /\ j \in 1..Len(q) + 1 /\ j # i + 1 /\ j < i + 2  BY <1>1
  <2> QED  BY <1>2, <1>3, <2>1
<1>6. ASSUME NEW j \in 1..2 PROVE r[i + j] = <<x, y>>[j]
  <2>1. CASE j = 1
    <3>1. i + 1 < i + 2 /\ i + 1 \in 1..Len(q) + 1  BY <1>1
    <3> QED  BY <1>1, <1>2, <1>3, <1>4, <2>1, <3>1
  <2>2. CASE j = 2  BY <1>1, <1>2, <1>3, <1>4, <2>2
  <2> QED  BY <2>1, <2>2
<1>7. ASSUME NEW j \in 1..Len(q) - 1 - i PROVE r[i + 2 + j] = q[i + 1 + j]
  <2>1. /\ i + 2 + j \in 1..Len(q) + 1 /\ i + 2 < i + 2 + j /\ (i + 2 + j) - 1 = i + 1 + j
        /\ i + 1 + j \in 1..Len(q) /\ i + 1 + j # i + 1
    BY <1>1
  <2> QED  BY <1>2, <1>3, <2>1
<1>8. Instead(q, i, 1, <<x, y>>, r)  BY <1>2, <1>3, <1>4, <1>5, <1>6, <1>7 DEF Instead
<1> QED  BY <1>3, <1>8 DEF r, p

(***************************************************************************)
(* A node and its children.                                                *)
(***************************************************************************)

\* A node over children, one of which may have any number of keys.
Open(W, h, node, parts, p) ==
  /\ h \in Nat /\ Ordered(node.keys, parts)
  /\ node.kids \in Seq(Nodes(Trees(W, h))) /\ Len(node.kids) = Len(node.keys) + 1
  /\ p \in 0..Len(node.keys)
  /\ \A j \in 1..Len(node.keys) + 1 :
       /\ In(W, h, node.kids[j], parts[j], <<>>)
       /\ j # p + 1 => Size(node.kids[j]) \in W

\* A tree whose exempted node is a child of the root.
LEMMA Opened ==
  ASSUME NEW W, NEW H, NEW node, NEW A, NEW p \in Nat, In(W, H, node, A, <<p>>)
  PROVE  \E parts : /\ Open(W, H - 1, node, parts, p) /\ A = All(node.keys, parts)
                    /\ H \in Nat \ {0}
<1>1. PICK parts : Holds(W, H, node, parts, <<p>>) /\ A = All(node.keys, parts)  BY InHolds
<1>2. Len(<<p>>) = 1 /\ <<p>>[1] = p /\ <<p>> # <<>> /\ Tail(<<p>>) = <<>>  OBVIOUS
<1>3. H \in Nat /\ Ordered(node.keys, parts)  BY <1>1 DEF Holds
<1>4. H # 0  BY <1>1, <1>2 DEF Holds
<1>5. /\ node.kids \in Seq(Nodes(Trees(W, H - 1))) /\ Len(node.kids) = Len(parts)
      /\ <<p>> = <<>> \/ <<p>>[1] \in 0..Len(node.keys)
      /\ \A i \in 1..Len(parts) :
           /\ In(W, H - 1, node.kids[i], parts[i], Below(<<p>>, i))
           /\ <<p>> = <<i - 1>> \/ Size(node.kids[i]) \in W
  BY <1>1, <1>4 DEF Holds
<1>6. \A i : Below(<<p>>, i) = <<>>  BY <1>2 DEF Below
<1>7. Len(parts) = Len(node.keys) + 1 /\ Len(node.keys) \in Nat  BY <1>3 DEF Ordered
<1>8. ASSUME NEW j \in 1..Len(parts), j # p + 1 PROVE Size(node.kids[j]) \in W
  <2>1. j - 1 # p  BY <1>7, <1>8
  <2> DEFINE g == j - 1
  <2>2. <<p>> = <<g>> \/ Size(node.kids[j]) \in W  BY <1>5
  <2>3. p # g  BY <2>1
  <2> HIDE DEF g
  <2>4. <<p>> # <<g>>
    <3> SUFFICES ASSUME <<p>> = <<g>> PROVE FALSE  OBVIOUS
    <3>1. <<p>>[1] = p /\ <<g>>[1] = g  OBVIOUS
    <3> QED  BY <2>3, <3>1
  <2> QED  BY <2>2, <2>4
<1>9. H - 1 \in Nat  BY <1>3, <1>4
<1>10. p \in 0..Len(node.keys)  BY <1>2, <1>5
<1>11. Open(W, H - 1, node, parts, p)  BY <1>3, <1>5, <1>6, <1>7, <1>8, <1>9, <1>10 DEF Open
<1> QED  BY <1>1, <1>3, <1>4, <1>11

\* The plain facts of such a node.
LEMMA OpenFacts ==
  ASSUME BTreeParameters, NEW W, NEW h, NEW node, NEW parts, NEW p, Open(W, h, node, parts, p)
  PROVE  /\ node.keys \in Seq(Key) /\ parts \in Seq(SUBSET Key) /\ Len(node.keys) \in Nat
         /\ Len(parts) = Len(node.keys) + 1
         /\ Size(node) = Len(node.keys)
         /\ \A i \in 1..Len(node.keys) : /\ node.keys[i] \in Key /\ i \in 1..Len(parts)
                                         /\ i + 1 \in 1..Len(parts)
                                         /\ \A x \in parts[i] : x < node.keys[i]
                                         /\ \A x \in parts[i + 1] : node.keys[i] < x
         /\ \A i \in 1..Len(parts) : parts[i] \subseteq Key
<1>1. /\ node.keys \in Seq(Key) /\ parts \in Seq(SUBSET Key) /\ Len(parts) = Len(node.keys) + 1
      /\ \A i \in 1..Len(parts), j \in 1..Len(node.keys) :
           \A k \in parts[i] : IF i <= j THEN k < node.keys[j] ELSE node.keys[j] < k
  BY DEF Open, Ordered
<1>2. Len(node.keys) \in Nat  BY <1>1
<1>3. \A i \in 1..Len(parts) : parts[i] \subseteq Key
  <2> SUFFICES ASSUME NEW i \in 1..Len(parts) PROVE parts[i] \in SUBSET Key  OBVIOUS
  <2> QED  BY <1>1, ElementOfSeq
<1>4. ASSUME NEW i \in 1..Len(node.keys)
      PROVE  /\ node.keys[i] \in Key /\ i \in 1..Len(parts) /\ i + 1 \in 1..Len(parts)
             /\ \A x \in parts[i] : x < node.keys[i]
             /\ \A x \in parts[i + 1] : node.keys[i] < x
  <2>1. i \in 1..Len(parts) /\ i + 1 \in 1..Len(parts) /\ i <= i /\ ~(i + 1 <= i)  BY <1>1, <1>2
  <2>2. node.keys[i] \in Key  BY <1>1, ElementOfSeq
  <2> QED  BY <1>1, <2>1, <2>2
<1> QED  BY <1>1, <1>2, <1>3, <1>4 DEF Size

\* A node without keys has one part.
LEMMA NoneOrdered ==
  ASSUME NEW M \in SUBSET Key
  PROVE  Ordered(<<>>, <<M>>) /\ All(<<>>, <<M>>) = M
<1>1. Len(<<>>) = 0 /\ Len(<<M>>) = 1 /\ <<M>>[1] = M  OBVIOUS
<1>2. <<>> \in Seq(Key) /\ <<M>> \in Seq(SUBSET Key)  OBVIOUS
<1>3. Ordered(<<>>, <<M>>)  BY <1>1, <1>2 DEF Ordered
<1>4. \A x : x \in All(<<>>, <<M>>) <=> x \in M  BY <1>1, <1>3, AllIs
<1> QED  BY <1>3, <1>4

\* A node of one key has two.
LEMMA OneOrdered ==
  ASSUME NEW L \in SUBSET Key, NEW R \in SUBSET Key, NEW k \in Key,
         \A x \in L : x < k, \A x \in R : k < x
  PROVE  Ordered(<<k>>, <<L, R>>) /\ All(<<k>>, <<L, R>>) = L \cup {k} \cup R
<1>1. Len(<<k>>) = 1 /\ <<k>>[1] = k /\ Len(<<L, R>>) = 2 /\ <<L, R>>[1] = L /\ <<L, R>>[2] = R
  OBVIOUS
<1>2. <<k>> \in Seq(Key) /\ <<L, R>> \in Seq(SUBSET Key)  OBVIOUS
<1> DEFINE ck == <<k>>
           cp == <<L, R>>
<1> HIDE DEF ck, cp
<1>3. \A i, j \in 1..Len(ck) : i < j => ck[i] < ck[j]  BY <1>1 DEF ck
<1>4. ASSUME NEW i \in 1..2, NEW j \in 1..1, NEW x \in cp[i]
      PROVE  IF i <= j THEN x < ck[j] ELSE ck[j] < x
  <2>1. CASE i = 1  BY <1>1, <2>1 DEF ck, cp
  <2>2. CASE i = 2  BY <1>1, <2>2 DEF ck, cp
  <2> QED  BY <2>1, <2>2
<1>5. Ordered(ck, cp)  BY <1>1, <1>2, <1>3, <1>4 DEF Ordered, ck, cp
<1>6. ASSUME NEW x PROVE x \in All(ck, cp) <=> x \in L \cup {k} \cup R
  <2>1. x \in All(ck, cp) <=> \/ \E i \in 1..Len(ck) : x = ck[i]
                              \/ \E i \in 1..Len(cp) : x \in cp[i]
    BY <1>5, AllIs
  <2>2. (\E i \in 1..Len(ck) : x = ck[i]) <=> x = k  BY <1>1 DEF ck
  <2>3. (\E i \in 1..Len(cp) : x \in cp[i]) <=> x \in L \/ x \in R
    <3>1. 1 \in 1..2 /\ 2 \in 1..2 /\ \A i \in 1..2 : i = 1 \/ i = 2  OBVIOUS
    <3> QED  BY <1>1, <3>1 DEF cp
  <2> QED  BY <2>1, <2>2, <2>3
<1> QED  BY <1>5, <1>6 DEF ck, cp

\* A child too large becomes two with a key between them.
LEMMA Splitting ==
  ASSUME BTreeParameters, NEW W, NEW h, NEW node, NEW parts, NEW p, Open(W, h, node, parts, p),
         NEW left, NEW L, In(W, h, left, L, <<>>), Size(left) \in W,
         NEW right, NEW R, In(W, h, right, R, <<>>), Size(right) \in W,
         NEW k \in Key, \A x \in L : x < k, \A x \in R : k < x,
         parts[p + 1] = L \cup {k} \cup R
  PROVE  /\ In(W, h + 1,
               [keys |-> InsertAt(node.keys, p + 1, k),
                kids |-> InsertAt([node.kids EXCEPT ![p + 1] = left], p + 2, right)],
               All(node.keys, parts), <<>>)
         /\ Len(InsertAt(node.keys, p + 1, k)) = Len(node.keys) + 1
<1> DEFINE rk == InsertAt(node.keys, p + 1, k)
           rc == InsertAt([node.kids EXCEPT ![p + 1] = left], p + 2, right)
           X == Nodes(Trees(W, h))
           ck == <<k>>
           cp == <<L, R>>
           cc == <<left, right>>
<1>1. /\ h \in Nat /\ Ordered(node.keys, parts) /\ node.kids \in Seq(X)
      /\ Len(node.kids) = Len(node.keys) + 1 /\ p \in 0..Len(node.keys)
      /\ \A j \in 1..Len(node.keys) + 1 :
           /\ In(W, h, node.kids[j], parts[j], <<>>)
           /\ j # p + 1 => Size(node.kids[j]) \in W
  BY DEF Open
<1>2. node.keys \in Seq(Key) /\ Len(node.keys) \in Nat /\ p \in Nat  BY <1>1, OpenFacts
<1>3. L \in SUBSET Key /\ R \in SUBSET Key /\ left \in X /\ right \in X  BY Facts
<1> HIDE DEF X
<1>4. rk \in Seq(Key) /\ Instead(node.keys, p, 0, ck, rk)
  <2>1. p \in 0..Len(node.keys)  BY <1>1
  <2> QED  BY <1>2, <2>1, OneForNone
<1>5. rc \in Seq(X) /\ Instead(node.kids, p, 1, cc, rc)
  <2>1. p \in 0..Len(node.kids) - 1  BY <1>1, <1>2
  <2> QED  BY <1>1, <1>3, <2>1, TwoForOne
<1>6. Ordered(ck, cp) /\ All(ck, cp) = L \cup {k} \cup R  BY <1>3, OneOrdered
<1>7. /\ Len(ck) = 1 /\ Len(cc) = 2 /\ cc[1] = left /\ cc[2] = right /\ cp[1] = L /\ cp[2] = R
  OBVIOUS
<1> HIDE DEF rk, rc, ck, cp, cc
<1>8. Patch(W, h, ck, cp, cc)
  <2>1. ASSUME NEW j \in 1..2 PROVE In(W, h, cc[j], cp[j], <<>>) /\ Size(cc[j]) \in W
    <3>1. j = 1 \/ j = 2  OBVIOUS
    <3> QED  BY <1>7, <3>1
  <2> QED  BY <1>6, <1>7, <2>1 DEF Patch
<1>9. Around(W, h, node, parts, p, 0)
  <2>1. p + 0 <= Len(node.keys)  BY <1>1, <1>2
  <2>2. \A j \in 1..Len(node.keys) + 1 : j <= p \/ p + 0 + 1 < j => j # p + 1  BY <1>2
  <2> QED  BY <1>1, <2>1, <2>2 DEF Around, X
<1>10. Covers(node.keys, parts, p, 0, ck, cp)
  <2>1. \A x : ~ \E j \in 1..0 : x = node.keys[p + j]  OBVIOUS
  <2>2. \A x : (\E j \in 1..0 + 1 : x \in parts[p + j]) <=> x \in parts[p + 1]
    <3>1. 1 \in 1..0 + 1 /\ \A j \in 1..0 + 1 : j = 1  OBVIOUS
    <3> QED  BY <3>1
  <2> QED  BY <1>6, <2>1, <2>2 DEF Covers
<1>11. /\ In(W, h + 1, [keys |-> rk, kids |-> rc], All(node.keys, parts), <<>>)
       /\ Len(rk) = Len(node.keys) - 0 + Len(ck)
  <2> DEFINE m == 0
  <2>1. m \in Nat /\ m + 1 = 1  OBVIOUS
  <2>2. Instead(node.kids, p, m + 1, cc, rc)  BY <1>5
  <2>3. Around(W, h, node, parts, p, m) /\ Covers(node.keys, parts, p, m, ck, cp)
        /\ Instead(node.keys, p, m, ck, rk)
    BY <1>4, <1>9, <1>10
  <2> HIDE DEF m
  <2>4. Splice(W, h, node, parts, p, m, ck, cp, cc, rk, rc)
    BY <1>1, <1>2, <1>4, <1>5, <1>8, <2>1, <2>2, <2>3 DEF Splice, X
  <2>5. /\ In(W, h + 1, [keys |-> rk, kids |-> rc], All(node.keys, parts), <<>>)
        /\ Len(rk) = Len(node.keys) - m + Len(ck)
    BY <2>4, Spliced
  <2> QED  BY <2>5 DEF m
<1> QED  BY <1>2, <1>7, <1>11 DEF rk, rc

\* Two neighbours and the key between them become two others.
LEMMA Rebalancing ==
  ASSUME BTreeParameters, NEW W, NEW h, NEW node, NEW parts, NEW p, Open(W, h, node, parts, p),
         NEW a \in Nat, a + 1 \in 1..Len(node.keys), p = a \/ p = a + 1,
         NEW left, NEW L, In(W, h, left, L, <<>>), Size(left) \in W,
         NEW right, NEW R, In(W, h, right, R, <<>>), Size(right) \in W,
         NEW k \in Key, \A x \in L : x < k, \A x \in R : k < x,
         parts[a + 1] \cup {node.keys[a + 1]} \cup parts[a + 2] = L \cup {k} \cup R
  PROVE  /\ In(W, h + 1,
               [keys |-> [node.keys EXCEPT ![a + 1] = k],
                kids |-> [node.kids EXCEPT ![a + 1] = left, ![a + 2] = right]],
               All(node.keys, parts), <<>>)
         /\ Len([node.keys EXCEPT ![a + 1] = k]) = Len(node.keys)
<1> DEFINE rk == [node.keys EXCEPT ![a + 1] = k]
           rc == [node.kids EXCEPT ![a + 1] = left, ![a + 2] = right]
           X == Nodes(Trees(W, h))
           ck == <<k>>
           cp == <<L, R>>
           cc == <<left, right>>
<1>1. /\ h \in Nat /\ Ordered(node.keys, parts) /\ node.kids \in Seq(X)
      /\ Len(node.kids) = Len(node.keys) + 1 /\ p \in 0..Len(node.keys)
      /\ \A j \in 1..Len(node.keys) + 1 :
           /\ In(W, h, node.kids[j], parts[j], <<>>)
           /\ j # p + 1 => Size(node.kids[j]) \in W
  BY DEF Open
<1>2. node.keys \in Seq(Key) /\ Len(node.keys) \in Nat /\ p \in Nat  BY <1>1, OpenFacts
<1>3. L \in SUBSET Key /\ R \in SUBSET Key /\ left \in X /\ right \in X  BY Facts
<1> HIDE DEF X
<1>4. rk \in Seq(Key) /\ Instead(node.keys, a, 1, ck, rk)
  <2>1. a \in 0..Len(node.keys) - 1  BY <1>2
  <2> QED  BY <1>2, <2>1, OneForOne
<1>5. rc \in Seq(X) /\ Instead(node.kids, a, 2, cc, rc)
  <2>1. a \in 0..Len(node.kids) - 2  BY <1>1, <1>2
  <2> QED  BY <1>1, <1>3, <2>1, TwoForTwo
<1>6. Ordered(ck, cp) /\ All(ck, cp) = L \cup {k} \cup R  BY <1>3, OneOrdered
<1>7. /\ Len(ck) = 1 /\ Len(cc) = 2 /\ cc[1] = left /\ cc[2] = right /\ cp[1] = L /\ cp[2] = R
  OBVIOUS
<1> HIDE DEF rk, rc, ck, cp, cc
<1>8. Patch(W, h, ck, cp, cc)
  <2>1. ASSUME NEW j \in 1..2 PROVE In(W, h, cc[j], cp[j], <<>>) /\ Size(cc[j]) \in W
    <3>1. j = 1 \/ j = 2  OBVIOUS
    <3> QED  BY <1>7, <3>1
  <2> QED  BY <1>6, <1>7, <2>1 DEF Patch
<1>9. Around(W, h, node, parts, a, 1)
  <2>1. a + 1 <= Len(node.keys)  BY <1>1, <1>2
  <2>2. \A j \in 1..Len(node.keys) + 1 : j <= a \/ a + 1 + 1 < j => j # p + 1  BY <1>2
  <2> QED  BY <1>1, <2>1, <2>2 DEF Around, X
<1>10. Covers(node.keys, parts, a, 1, ck, cp)
  <2>1. \A x : (\E j \in 1..1 : x = node.keys[a + j]) <=> x = node.keys[a + 1]
    <3>1. 1 \in 1..1 /\ \A j \in 1..1 : j = 1  OBVIOUS
    <3> QED  BY <3>1
  <2>2. \A x : (\E j \in 1..1 + 1 : x \in parts[a + j]) <=> x \in parts[a + 1] \/ x \in parts[a + 2]
    <3>1. 1 \in 1..1 + 1 /\ 2 \in 1..1 + 1 /\ \A j \in 1..1 + 1 : j = 1 \/ j = 2  OBVIOUS
    <3> QED  BY <3>1
  <2> QED  BY <1>6, <2>1, <2>2 DEF Covers
<1>11. /\ In(W, h + 1, [keys |-> rk, kids |-> rc], All(node.keys, parts), <<>>)
       /\ Len(rk) = Len(node.keys) - 1 + Len(ck)
  <2> DEFINE m == 1
  <2>1. m \in Nat /\ m + 1 = 2  OBVIOUS
  <2>2. Instead(node.kids, a, m + 1, cc, rc)  BY <1>5
  <2>3. Around(W, h, node, parts, a, m) /\ Covers(node.keys, parts, a, m, ck, cp)
        /\ Instead(node.keys, a, m, ck, rk)
    BY <1>4, <1>9, <1>10
  <2> HIDE DEF m
  <2>4. Splice(W, h, node, parts, a, m, ck, cp, cc, rk, rc)
    BY <1>1, <1>2, <1>4, <1>5, <1>8, <2>1, <2>2, <2>3 DEF Splice, X
  <2>5. /\ In(W, h + 1, [keys |-> rk, kids |-> rc], All(node.keys, parts), <<>>)
        /\ Len(rk) = Len(node.keys) - m + Len(ck)
    BY <2>4, Spliced
  <2> QED  BY <2>5 DEF m
<1> QED  BY <1>2, <1>7, <1>11 DEF rk, rc

\* Two neighbours and the key between them become one.
LEMMA Merging ==
  ASSUME BTreeParameters, NEW W, NEW h, NEW node, NEW parts, NEW p, Open(W, h, node, parts, p),
         NEW a \in Nat, a + 1 \in 1..Len(node.keys), p = a \/ p = a + 1,
         NEW kid, Size(kid) \in W,
         In(W, h, kid, parts[a + 1] \cup {node.keys[a + 1]} \cup parts[a + 2], <<>>)
  PROVE  /\ In(W, h + 1,
               [keys |-> RemoveAt(node.keys, a + 1),
                kids |-> RemoveAt([node.kids EXCEPT ![a + 1] = kid], a + 2)],
               All(node.keys, parts), <<>>)
         /\ Len(RemoveAt(node.keys, a + 1)) = Len(node.keys) - 1
<1> DEFINE rk == RemoveAt(node.keys, a + 1)
           rc == RemoveAt([node.kids EXCEPT ![a + 1] = kid], a + 2)
           X == Nodes(Trees(W, h))
           M == parts[a + 1] \cup {node.keys[a + 1]} \cup parts[a + 2]
           ck == <<>>
           cp == <<M>>
           cc == <<kid>>
<1>1. /\ h \in Nat /\ Ordered(node.keys, parts) /\ node.kids \in Seq(X)
      /\ Len(node.kids) = Len(node.keys) + 1 /\ p \in 0..Len(node.keys)
      /\ \A j \in 1..Len(node.keys) + 1 :
           /\ In(W, h, node.kids[j], parts[j], <<>>)
           /\ j # p + 1 => Size(node.kids[j]) \in W
  BY DEF Open
<1>2. node.keys \in Seq(Key) /\ Len(node.keys) \in Nat /\ p \in Nat  BY <1>1, OpenFacts
<1>a. In(W, h, kid, M, <<>>)  OBVIOUS
<1>b. \A x : x \in M <=> x = node.keys[a + 1] \/ x \in parts[a + 1] \/ x \in parts[a + 2]  OBVIOUS
<1> HIDE DEF M
<1>3. M \in SUBSET Key /\ kid \in X  BY <1>a, Facts
<1> HIDE DEF X
<1>4. rk \in Seq(Key) /\ Instead(node.keys, a, 1, ck, rk)
  <2>1. a \in 0..Len(node.keys) - 1  BY <1>2
  <2> QED  BY <1>2, <2>1, NoneForOne
<1>5. rc \in Seq(X) /\ Instead(node.kids, a, 2, cc, rc)
  <2>1. a \in 0..Len(node.kids) - 2  BY <1>1, <1>2
  <2> QED  BY <1>1, <1>3, <2>1, OneForTwo
<1>6. Ordered(ck, cp) /\ All(ck, cp) = M  BY <1>3, NoneOrdered
<1>7. Len(ck) = 0 /\ Len(cc) = 1 /\ cc[1] = kid /\ cp[1] = M  OBVIOUS
<1> HIDE DEF rk, rc, ck, cp, cc
<1>8. Patch(W, h, ck, cp, cc)
  <2>1. ASSUME NEW j \in 1..1 PROVE In(W, h, cc[j], cp[j], <<>>) /\ Size(cc[j]) \in W
    <3>1. j = 1  OBVIOUS
    <3> QED  BY <1>7, <1>a, <3>1
  <2> QED  BY <1>6, <1>7, <2>1 DEF Patch
<1>9. Around(W, h, node, parts, a, 1)
  <2>1. a + 1 <= Len(node.keys)  BY <1>1, <1>2
  <2>2. \A j \in 1..Len(node.keys) + 1 : j <= a \/ a + 1 + 1 < j => j # p + 1  BY <1>2
  <2> QED  BY <1>1, <2>1, <2>2 DEF Around, X
<1>10. Covers(node.keys, parts, a, 1, ck, cp)
  <2>1. \A x : (\E j \in 1..1 : x = node.keys[a + j]) <=> x = node.keys[a + 1]
    <3>1. 1 \in 1..1 /\ \A j \in 1..1 : j = 1  OBVIOUS
    <3> QED  BY <3>1
  <2>2. \A x : (\E j \in 1..1 + 1 : x \in parts[a + j]) <=> x \in parts[a + 1] \/ x \in parts[a + 2]
    <3>1. 1 \in 1..1 + 1 /\ 2 \in 1..1 + 1 /\ \A j \in 1..1 + 1 : j = 1 \/ j = 2  OBVIOUS
    <3> QED  BY <3>1
  <2> QED  BY <1>6, <1>b, <2>1, <2>2 DEF Covers
<1>11. /\ In(W, h + 1, [keys |-> rk, kids |-> rc], All(node.keys, parts), <<>>)
       /\ Len(rk) = Len(node.keys) - 1 + Len(ck)
  <2> DEFINE m == 1
  <2>1. m \in Nat /\ m + 1 = 2  OBVIOUS
  <2>2. Instead(node.kids, a, m + 1, cc, rc)  BY <1>5
  <2>3. Around(W, h, node, parts, a, m) /\ Covers(node.keys, parts, a, m, ck, cp)
        /\ Instead(node.keys, a, m, ck, rk)
    BY <1>4, <1>9, <1>10
  <2> HIDE DEF m
  <2>4. Splice(W, h, node, parts, a, m, ck, cp, cc, rk, rc)
    BY <1>1, <1>2, <1>4, <1>5, <1>8, <2>1, <2>2, <2>3 DEF Splice, X
  <2>5. /\ In(W, h + 1, [keys |-> rk, kids |-> rc], All(node.keys, parts), <<>>)
        /\ Len(rk) = Len(node.keys) - m + Len(ck)
    BY <2>4, Spliced
  <2> QED  BY <2>5 DEF m
<1> QED  BY <1>2, <1>7, <1>11 DEF rk, rc

\* A node without keys has one child, with all that it holds.
LEMMA OnlyKid ==
  ASSUME NEW W, NEW h \in Nat, NEW node, NEW A, In(W, h + 1, node, A, <<>>), node.keys = <<>>
  PROVE  In(W, h, node.kids[1], A, <<>>) /\ Size(node.kids[1]) \in W
<1> DEFINE H == h + 1
<1>0. H \in Nat /\ H # 0 /\ H - 1 = h  OBVIOUS
<1>a. In(W, H, node, A, <<>>)  OBVIOUS
<1> HIDE DEF H
<1>1. PICK parts : Holds(W, H, node, parts, <<>>) /\ A = All(node.keys, parts)  BY <1>a, InHolds
<1>2. /\ Ordered(<<>>, parts) /\ A = All(<<>>, parts)
      /\ \A i \in 1..Len(parts) : In(W, h, node.kids[i], parts[i], <<>>) /\ Size(node.kids[i]) \in W
  <2>1. /\ Ordered(node.keys, parts)
        /\ \A i \in 1..Len(parts) :
             In(W, H - 1, node.kids[i], parts[i], <<>>) /\ Size(node.kids[i]) \in W
    BY <1>0, <1>1, FullHolds
  <2> QED  BY <1>0, <1>1, <2>1
<1>3. Len(<<>>) = 0  OBVIOUS
<1>4. Len(parts) = 1 /\ 1 \in 1..Len(parts)  BY <1>2, <1>3 DEF Ordered
<1>5. \A x : x \in A <=> x \in parts[1]
  <2>1. \A x : x \in A <=> \/ \E i \in 1..Len(<<>>) : x = <<>>[i]
                         \/ \E i \in 1..Len(parts) : x \in parts[i]
    BY <1>2, AllIs
  <2>2. \A i \in 1..1 : i = 1  OBVIOUS
  <2> QED  BY <1>3, <1>4, <2>1, <2>2
<1>6. A = parts[1]
  <2>1. parts[1] \in SUBSET Key /\ A \subseteq Key  BY <1>2, <1>4, AllKeys, ElementOfSeq DEF Ordered
  <2> QED  BY <1>5, <2>1
<1> QED  BY <1>2, <1>4, <1>6

(***************************************************************************)
(* A child given up for another one.                                       *)
(***************************************************************************)

\* What can be below the child of a number, from 1.
Fits(keys, g, B) ==
  /\ B \subseteq Key
  /\ \A x \in B, j \in 1..Len(keys) : IF g <= j THEN x < keys[j] ELSE keys[j] < x

\* Keys taken away below a child leave it where it fits.
LEMMA PartFits ==
  ASSUME NEW keys, NEW parts, Ordered(keys, parts), NEW g \in 1..Len(parts), NEW B \in SUBSET parts[g]
  PROVE  Fits(keys, g, B)
<1>1. /\ parts \in Seq(SUBSET Key)
      /\ \A i \in 1..Len(parts), j \in 1..Len(keys) :
           \A k \in parts[i] : IF i <= j THEN k < keys[j] ELSE keys[j] < k
  BY DEF Ordered
<1>2. parts[g] \in SUBSET Key  BY <1>1, ElementOfSeq
<1> QED  BY <1>1, <1>2 DEF Fits

\* A part replaced by one that fits leaves the keys in order.
LEMMA PartReplaced ==
  ASSUME BTreeParameters, NEW keys, NEW parts, Ordered(keys, parts), NEW g \in 1..Len(parts),
         NEW B, Fits(keys, g, B)
  PROVE  /\ Ordered(keys, [parts EXCEPT ![g] = B])
         /\ All(keys, [parts EXCEPT ![g] = B]) = (All(keys, parts) \ parts[g]) \cup B
<1> DEFINE new == [parts EXCEPT ![g] = B]
           n == Len(keys)
<1>1. /\ keys \in Seq(Key) /\ parts \in Seq(SUBSET Key) /\ Len(parts) = n + 1
      /\ \A i, j \in 1..n : i < j => keys[i] < keys[j]
      /\ \A i \in 1..n + 1, j \in 1..n : \A k \in parts[i] : IF i <= j THEN k < keys[j] ELSE keys[j] < k
  BY DEF Ordered
<1>2. B \in SUBSET Key /\ \A x \in B, j \in 1..n : IF g <= j THEN x < keys[j] ELSE keys[j] < x
  BY DEF Fits
<1>a. n \in Nat /\ g \in 1..n + 1 /\ Key \subseteq Int  BY <1>1 DEF BTreeParameters
<1>3. /\ new \in Seq(SUBSET Key) /\ Len(new) = n + 1
      /\ \A j \in 1..n + 1 : new[j] = IF j = g THEN B ELSE parts[j]
  BY <1>1, <1>2, ExceptSeq
<1> HIDE DEF new, n
<1>4. ASSUME NEW i \in 1..n + 1, NEW j \in 1..n, NEW k \in new[i]
      PROVE  IF i <= j THEN k < keys[j] ELSE keys[j] < k
  <2>1. CASE i = g  BY <1>2, <1>3, <2>1
  <2>2. CASE i # g  BY <1>1, <1>3, <2>2
  <2> QED  BY <2>1, <2>2
<1>5. Ordered(keys, new)  BY <1>1, <1>3, <1>4 DEF Ordered, n
<1>6. \A j \in 1..n : keys[j] \in Int  BY <1>1, <1>a, ElementOfSeq DEF n
<1>7. \A i \in 1..n + 1 : \A x \in parts[i] : x \in Int
  <2> SUFFICES ASSUME NEW i \in 1..n + 1, NEW x \in parts[i] PROVE x \in Int  OBVIOUS
  <2>1. parts[i] \in SUBSET Key  BY <1>1, ElementOfSeq
  <2> QED  BY <1>a, <2>1
<1>8. ASSUME NEW i \in 1..n, NEW x \in parts[g] PROVE x # keys[i]
  <2>1. IF g <= i THEN x < keys[i] ELSE keys[i] < x  BY <1>1, <1>a
  <2>2. x \in Int /\ keys[i] \in Int  BY <1>6, <1>7, <1>a
  <2> QED  BY <2>1, <2>2
<1>9. ASSUME NEW i \in 1..n + 1, i # g, NEW x \in parts[g], NEW y \in parts[i] PROVE x # y
  <2>1. x \in Int /\ y \in Int  BY <1>7, <1>a
  <2>2. CASE i < g
    <3>1. i \in 1..n /\ i <= i /\ ~(g <= i)  BY <1>a, <2>2
    <3>2. y < keys[i] /\ keys[i] < x /\ keys[i] \in Int  BY <1>1, <1>6, <1>a, <3>1
    <3> QED  BY <2>1, <3>2
  <2>3. CASE g < i
    <3>1. g \in 1..n /\ g <= g /\ ~(i <= g)  BY <1>a, <2>3
    <3>2. x < keys[g] /\ keys[g] < y /\ keys[g] \in Int  BY <1>1, <1>6, <1>a, <3>1
    <3> QED  BY <2>1, <3>2
  <2> QED  BY <1>9, <1>a, <2>2, <2>3
<1>10. ASSUME NEW x PROVE x \in All(keys, new) <=> x \in (All(keys, parts) \ parts[g]) \cup B
  <2>1. x \in All(keys, new) <=> (\E i \in 1..n : x = keys[i]) \/ \E i \in 1..n + 1 : x \in new[i]
    <3>1. x \in All(keys, new) <=> \/ \E i \in 1..Len(keys) : x = keys[i]
                                   \/ \E i \in 1..Len(new) : x \in new[i]
      BY <1>5, AllIs
    <3> QED  BY <1>3, <3>1 DEF n
  <2>2. x \in All(keys, parts) <=> (\E i \in 1..n : x = keys[i]) \/ \E i \in 1..n + 1 : x \in parts[i]
    <3>1. x \in All(keys, parts) <=> \/ \E i \in 1..Len(keys) : x = keys[i]
                                     \/ \E i \in 1..Len(parts) : x \in parts[i]
      BY AllIs
    <3> QED  BY <1>1, <3>1 DEF n
  <2>3. ASSUME x \in All(keys, new) PROVE x \in (All(keys, parts) \ parts[g]) \cup B
    <3>1. CASE \E i \in 1..n : x = keys[i]  BY <1>8, <2>2, <3>1
    <3>2. CASE \E i \in 1..n + 1 : x \in new[i]
      <4>1. PICK i \in 1..n + 1 : x \in new[i]  BY <3>2
      <4>2. CASE i = g  BY <1>3, <4>1, <4>2
      <4>3. CASE i # g
        <5>1. x \in parts[i]  BY <1>3, <4>1, <4>3
        <5>2. x \notin parts[g]  BY <1>9, <4>3, <5>1
        <5> QED  BY <2>2, <5>1, <5>2
      <4> QED  BY <4>2, <4>3
    <3> QED  BY <2>1, <2>3, <3>1, <3>2
  <2>4. ASSUME x \in (All(keys, parts) \ parts[g]) \cup B PROVE x \in All(keys, new)
    <3>1. CASE x \in B  BY <1>3, <1>a, <2>1, <3>1
    <3>2. CASE \E i \in 1..n : x = keys[i]  BY <2>1, <3>2
    <3>3. CASE x \notin B /\ \E i \in 1..n + 1 : x \in parts[i]
      <4>1. PICK i \in 1..n + 1 : x \in parts[i]  BY <3>3
      <4>2. i # g  BY <2>4, <3>3, <4>1
      <4> QED  BY <1>3, <2>1, <4>1, <4>2
    <3> QED  BY <2>2, <2>4, <3>1, <3>2, <3>3
  <2> QED  BY <2>3, <2>4
<1> QED  BY <1>5, <1>10 DEF new

\* A node and the first step of a path.
Headed(W, h, node, parts, i, r) ==
  /\ node = [keys |-> node.keys, kids |-> node.kids] /\ Ordered(node.keys, parts)
  /\ node.kids \in Seq(Nodes(Trees(W, h))) /\ Len(node.kids) = Len(parts)
  /\ i \in 0..Len(node.keys)
  /\ In(W, h, node.kids[i + 1], parts[i + 1], r)
  /\ r = <<>> \/ Size(node.kids[i + 1]) \in W
  /\ \A j \in 1..Len(parts) :
       j # i + 1 => In(W, h, node.kids[j], parts[j], <<>>) /\ Size(node.kids[j]) \in W

\* A tree whose exempted node is at or below a child.
LEMMA HeadHolds ==
  ASSUME NEW W, NEW h \in Nat, NEW node, NEW parts, NEW i \in Nat, NEW r \in Seq(Nat)
  PROVE  Holds(W, h + 1, node, parts, <<i>> \o r) <=> Headed(W, h, node, parts, i, r)
<1> DEFINE e == <<i>> \o r
           H == h + 1
<1>1. e \in Seq(Nat) /\ Len(e) = Len(r) + 1 /\ e # <<>> /\ e[1] = i /\ Tail(e) = r  BY Stepped
<1>2. H \in Nat /\ H # 0 /\ H - 1 = h  OBVIOUS
<1>3. r = <<>> <=> e = <<i>>
  <2>1. Len(<<i>>) = 1 /\ Tail(<<i>>) = <<>>  OBVIOUS
  <2>2. ASSUME r = <<>> PROVE e = <<i>>
    <3>1. <<i>> \in Seq(Nat)  OBVIOUS
    <3> QED  BY <2>2, <3>1, ConcatEmptySeq
  <2> HIDE DEF e
  <2>3. ASSUME e = <<i>> PROVE r = <<>>  BY <1>1, <2>1, <2>3
  <2> QED  BY <2>2, <2>3
<1> HIDE DEF e, H
<1>4. Holds(W, H, node, parts, e)
        <=> /\ node = [keys |-> node.keys, kids |-> node.kids] /\ Ordered(node.keys, parts)
            /\ node.kids \in Seq(Nodes(Trees(W, h))) /\ Len(node.kids) = Len(parts)
            /\ i \in 0..Len(node.keys)
            /\ \A j \in 1..Len(parts) :
                 /\ In(W, h, node.kids[j], parts[j], Below(e, j))
                 /\ e = <<j - 1>> \/ Size(node.kids[j]) \in W
  BY <1>1, <1>2 DEF Holds
<1>5. ASSUME NEW j \in Nat, j # i + 1 PROVE Below(e, j) = <<>> /\ e # <<j - 1>>
  <2> DEFINE g == j - 1
  <2>1. i # g  BY <1>5
  <2>2. <<g>>[1] = g  OBVIOUS
  <2> HIDE DEF g
  <2>3. e # <<g>>  BY <1>1, <2>1, <2>2
  <2>4. Below(e, j) = <<>>  BY <1>1, <2>1 DEF Below, g
  <2> QED  BY <2>3, <2>4 DEF g
<1>6. Below(e, i + 1) = r /\ (i + 1) - 1 = i  BY <1>1 DEF Below
<1>7. Ordered(node.keys, parts) => Len(parts) = Len(node.keys) + 1 /\ Len(node.keys) \in Nat
  BY DEF Ordered
<1>8. ASSUME Holds(W, H, node, parts, e)
      PROVE  /\ In(W, h, node.kids[i + 1], parts[i + 1], r)
             /\ r = <<>> \/ Size(node.kids[i + 1]) \in W
             /\ \A j \in 1..Len(parts) :
                  j # i + 1 => In(W, h, node.kids[j], parts[j], <<>>) /\ Size(node.kids[j]) \in W
  <2>1. i + 1 \in 1..Len(parts)
    <3>1. i \in 0..Len(node.keys) /\ Len(parts) = Len(node.keys) + 1 /\ Len(node.keys) \in Nat
      BY <1>4, <1>7, <1>8
    <3> QED  BY <3>1
  <2> DEFINE g == i + 1
  <2>2. g \in 1..Len(parts) /\ g - 1 = i /\ Below(e, g) = r  BY <1>6, <2>1
  <2> HIDE DEF g
  <2>3. In(W, h, node.kids[g], parts[g], Below(e, g)) /\ (e = <<g - 1>> \/ Size(node.kids[g]) \in W)
    BY <1>4, <1>8, <2>2
  <2>4. In(W, h, node.kids[g], parts[g], r) /\ (r = <<>> \/ Size(node.kids[g]) \in W)
    BY <1>3, <2>2, <2>3
  <2>5. ASSUME NEW j \in 1..Len(parts), j # i + 1
        PROVE  In(W, h, node.kids[j], parts[j], <<>>) /\ Size(node.kids[j]) \in W
    <3>1. j \in Nat  BY <2>1
    <3> QED  BY <1>4, <1>5, <1>8, <2>5, <3>1
  <2> QED  BY <2>4, <2>5 DEF g
<1>9. ASSUME /\ node = [keys |-> node.keys, kids |-> node.kids] /\ Ordered(node.keys, parts)
             /\ node.kids \in Seq(Nodes(Trees(W, h))) /\ Len(node.kids) = Len(parts)
             /\ i \in 0..Len(node.keys),
             In(W, h, node.kids[i + 1], parts[i + 1], r),
             r = <<>> \/ Size(node.kids[i + 1]) \in W,
             \A j \in 1..Len(parts) :
               j # i + 1 => In(W, h, node.kids[j], parts[j], <<>>) /\ Size(node.kids[j]) \in W
      PROVE  Holds(W, H, node, parts, e)
  <2>0. Len(parts) \in Nat  BY <1>7, <1>9
  <2>1. ASSUME NEW j \in 1..Len(parts)
        PROVE  In(W, h, node.kids[j], parts[j], Below(e, j)) /\ (e = <<j - 1>> \/ Size(node.kids[j]) \in W)
    <3>1. CASE j = i + 1
      <4>1. Below(e, j) = r /\ j - 1 = i  BY <1>6, <3>1
      <4> QED  BY <1>3, <1>9, <3>1, <4>1
    <3>2. CASE j # i + 1
      <4>1. j \in Nat  BY <2>0
      <4> QED  BY <1>5, <1>9, <3>2, <4>1
    <3> QED  BY <3>1, <3>2
  <2> QED  BY <1>4, <1>9, <2>1
<1>10. Holds(W, H, node, parts, e)
        => /\ node = [keys |-> node.keys, kids |-> node.kids] /\ Ordered(node.keys, parts)
           /\ node.kids \in Seq(Nodes(Trees(W, h))) /\ Len(node.kids) = Len(parts)
           /\ i \in 0..Len(node.keys)
  BY <1>4
<1>11. Holds(W, H, node, parts, e) => Headed(W, h, node, parts, i, r)  BY <1>8, <1>10 DEF Headed
<1>12. Headed(W, h, node, parts, i, r) => Holds(W, H, node, parts, e)  BY <1>9 DEF Headed
<1> QED  BY <1>11, <1>12 DEF e, H

\* Any child of a node may be the one on the path.
LEMMA SomeChild ==
  ASSUME NEW W, NEW h \in Nat, NEW node, NEW parts, Holds(W, h + 1, node, parts, <<>>),
         NEW i \in 0..Len(node.keys)
  PROVE  Holds(W, h + 1, node, parts, <<i>> \o <<>>)
<1> DEFINE H == h + 1
<1>1. H \in Nat /\ H # 0 /\ H - 1 = h  OBVIOUS
<1>2. Holds(W, H, node, parts, <<>>)  OBVIOUS
<1> HIDE DEF H
<1>3. /\ node = [keys |-> node.keys, kids |-> node.kids] /\ Ordered(node.keys, parts)
      /\ node.kids \in Seq(Nodes(Trees(W, H - 1))) /\ Len(node.kids) = Len(parts)
      /\ \A j \in 1..Len(parts) : In(W, H - 1, node.kids[j], parts[j], <<>>) /\ Size(node.kids[j]) \in W
  BY <1>1, <1>2, FullHolds, ZenonT(60)
<1>4. Len(parts) = Len(node.keys) + 1 /\ Len(node.keys) \in Nat  BY <1>3 DEF Ordered
<1>5. i \in Nat /\ i + 1 \in 1..Len(parts) /\ <<>> \in Seq(Nat)  BY <1>4
<1> DEFINE g == i + 1
<1>6. In(W, h, node.kids[g], parts[g], <<>>)  BY <1>1, <1>3, <1>5
<1> HIDE DEF g
<1>7. Headed(W, h, node, parts, i, <<>>)  BY <1>1, <1>3, <1>5, <1>6 DEF Headed, g
<1> QED  BY <1>5, <1>7, HeadHolds

\* A child replaced by one that fits.
LEMMA KidReplaced ==
  ASSUME NEW W, NEW h \in Nat, NEW node, NEW parts, NEW i \in Nat, NEW r \in Seq(Nat),
         Holds(W, h + 1, node, parts, <<i>> \o r),
         NEW kid, NEW B, NEW q, In(W, h, kid, B, q), q = <<>> \/ Size(kid) \in W,
         NEW keys, Len(keys) = Len(node.keys), Ordered(keys, [parts EXCEPT ![i + 1] = B])
  PROVE  Holds(W, h + 1, [keys |-> keys, kids |-> [node.kids EXCEPT ![i + 1] = kid]],
               [parts EXCEPT ![i + 1] = B], <<i>> \o q)
<1> DEFINE X == Nodes(Trees(W, h))
           g == i + 1
           new == [parts EXCEPT ![g] = B]
           kids == [node.kids EXCEPT ![g] = kid]
           res == [keys |-> keys, kids |-> kids]
<1>1. /\ Ordered(node.keys, parts)
      /\ node.kids \in Seq(X) /\ Len(node.kids) = Len(parts)
      /\ i \in 0..Len(node.keys)
      /\ \A j \in 1..Len(parts) :
           j # g => In(W, h, node.kids[j], parts[j], <<>>) /\ Size(node.kids[j]) \in W
  <2>1. Headed(W, h, node, parts, i, r)  BY HeadHolds
  <2> QED  BY <2>1 DEF Headed
<1>2. parts \in Seq(SUBSET Key) /\ Len(parts) = Len(node.keys) + 1 /\ Len(node.keys) \in Nat
  BY <1>1 DEF Ordered
<1>3. g \in 1..Len(parts)  BY <1>1, <1>2
<1>4. B \in SUBSET Key /\ kid \in X /\ q \in Seq(Nat)  BY Facts
<1>5. res.keys = keys /\ res.kids = kids /\ res = [keys |-> res.keys, kids |-> res.kids]  OBVIOUS
<1>a. Ordered(keys, new)  OBVIOUS
<1> HIDE DEF X, g
<1>6. /\ new \in Seq(SUBSET Key) /\ Len(new) = Len(parts)
      /\ \A j \in 1..Len(parts) : new[j] = IF j = g THEN B ELSE parts[j]
  BY <1>2, <1>3, <1>4, ExceptSeq, SMTT(60)
<1>7. /\ kids \in Seq(X) /\ Len(kids) = Len(parts)
      /\ \A j \in 1..Len(parts) : kids[j] = IF j = g THEN kid ELSE node.kids[j]
  BY <1>1, <1>3, <1>4, ExceptSeq, SMTT(60)
<1> HIDE DEF new, kids, res
<1>8. ASSUME NEW j \in 1..Len(new), j # g
      PROVE  In(W, h, res.kids[j], new[j], <<>>) /\ Size(res.kids[j]) \in W
  BY <1>1, <1>5, <1>6, <1>7, <1>8
<1>9. In(W, h, res.kids[g], new[g], q) /\ (q = <<>> \/ Size(res.kids[g]) \in W)
  BY <1>3, <1>5, <1>6, <1>7
<1>10. i \in 0..Len(res.keys) /\ Len(res.kids) = Len(new) /\ res.kids \in Seq(X) /\ Ordered(res.keys, new)
  BY <1>1, <1>5, <1>6, <1>7, <1>a
<1>11. Headed(W, h, res, new, i, q)
  BY <1>4, <1>5, <1>8, <1>9, <1>10 DEF Headed, X, g
<1>12. Holds(W, h + 1, res, new, <<i>> \o q)  BY <1>4, <1>11, HeadHolds
<1> QED  BY <1>12 DEF res, new, kids, g

(***************************************************************************)
(* The node at the end of a path given up for another one.                 *)
(***************************************************************************)

\* Two paths in a row are longer than either.
LEMMA Longer ==
  ASSUME NEW i \in Nat, NEW p \in Seq(Nat), NEW r \in Seq(Nat)
  PROVE  /\ (<<i>> \o p) \o r = <<i>> \o (p \o r) /\ p \o r \in Seq(Nat)
         /\ <<>> \o r = r /\ r \o <<>> = r
         /\ p \o r = <<>> <=> p = <<>> /\ r = <<>>
<1>1. <<i>> \in Seq(Nat)  OBVIOUS
<1>2. (<<i>> \o p) \o r = <<i>> \o (p \o r)  BY <1>1, ConcatAssociative
<1>3. p \o r \in Seq(Nat) /\ Len(p \o r) = Len(p) + Len(r)  BY After
<1>4. <<>> \o r = r /\ r \o <<>> = r  BY ConcatEmptySeq
<1>5. p \o r = <<>> <=> p = <<>> /\ r = <<>>
  <2>1. ASSUME p \o r = <<>> PROVE p = <<>> /\ r = <<>>
    <3>1. Len(p) = 0 /\ Len(r) = 0
      <4>1. Len(<<>>) = 0  OBVIOUS
      <4>2. Len(p) \in Nat /\ Len(r) \in Nat  OBVIOUS
      <4> QED  BY <1>3, <2>1, <4>1, <4>2
    <3> QED  BY <3>1
  <2>2. ASSUME p = <<>>, r = <<>> PROVE p \o r = <<>>  BY <1>4, <2>2
  <2> QED  BY <2>1, <2>2
<1> QED  BY <1>2, <1>3, <1>4, <1>5

\* Another node at the end of a path is found there, and what is put below it goes into it.
Placed(node, p) ==
  /\ Real(node, p)
  /\ \A new : NodeAt(PutAt(node, p, new), p) = new
  /\ \A x, y : \A q \in Seq(Nat) :
       PutAt(PutAt(node, p, x), p \o q, y) = PutAt(node, p, PutAt(x, q, y))

\* What is put at the root can be read and replaced there.
LEMMA PlacedHere ==
  ASSUME NEW node
  PROVE  Placed(node, <<>>)
<1>1. \A x : PutAt(node, <<>>, x) = x /\ NodeAt(x, <<>>) = x  BY PutAtHere, NodeAtHere
<1>2. \A q \in Seq(Nat) : <<>> \o q = q  BY ConcatEmptySeq
<1> QED  BY <1>1, <1>2, RealHere DEF Placed

Plain(node) == node = [keys |-> node.keys, kids |-> node.kids]

\* The children of a node with another child.
LEMMA WithKidIs ==
  ASSUME NEW node, NEW X, NEW i \in Nat, Plain(node), node.kids \in Seq(X), i + 1 \in 1..Len(node.kids)
  PROVE  /\ \A x : KidAt(WithKid(node, i, x), i) = x
         /\ \A x, y : WithKid(WithKid(node, i, x), i, y) = WithKid(node, i, y)
<1> DEFINE a == node.keys
           b == node.kids
           g == i + 1
<1>1. node = [keys |-> a, kids |-> b] /\ g \in DOMAIN b  BY DEF Plain
<1> HIDE DEF a, b, g
<1>2. ASSUME NEW x PROVE KidAt(WithKid(node, i, x), i) = x
  <2>1. [node EXCEPT !.kids[g] = x].kids[g] = x  BY <1>1
  <2> QED  BY <2>1 DEF KidAt, WithKid, g
<1>3. ASSUME NEW x, NEW y PROVE WithKid(WithKid(node, i, x), i, y) = WithKid(node, i, y)
  <2>1. [[node EXCEPT !.kids[g] = x] EXCEPT !.kids[g] = y] = [node EXCEPT !.kids[g] = y]  BY <1>1
  <2> QED  BY <2>1 DEF WithKid, g
<1> QED  BY <1>2, <1>3

\* What is put below a child can be read and replaced there.
LEMMA PlacedStep ==
  ASSUME NEW node, NEW X, NEW i \in Nat, NEW p \in Seq(Nat),
         Plain(node), node.kids \in Seq(X), i + 1 \in 1..Len(node.kids), Placed(KidAt(node, i), p)
  PROVE  Placed(node, <<i>> \o p)
<1> DEFINE s == <<i>> \o p
           kid == KidAt(node, i)
<1>1. s \in Seq(Nat) /\ \A q \in Seq(Nat) : s \o q = <<i>> \o (p \o q) /\ p \o q \in Seq(Nat)
  <2>1. s \in Seq(Nat)  BY Stepped
  <2>2. ASSUME NEW q \in Seq(Nat) PROVE s \o q = <<i>> \o (p \o q) /\ p \o q \in Seq(Nat)  BY Longer, SMTT(60)
  <2> QED  BY <2>1, <2>2
<1>2. \A x : KidAt(WithKid(node, i, x), i) = x  BY WithKidIs
<1>3. \A x, y : WithKid(WithKid(node, i, x), i, y) = WithKid(node, i, y)  BY WithKidIs
<1>4. \A x : \A q \in Seq(Nat) : PutAt(node, <<i>> \o q, x) = WithKid(node, i, PutAt(kid, q, x))
  BY PutAtHead
<1>5. /\ Real(kid, p) /\ \A new : NodeAt(PutAt(kid, p, new), p) = new
      /\ \A x, y : \A q \in Seq(Nat) :
           PutAt(PutAt(kid, p, x), p \o q, y) = PutAt(kid, p, PutAt(x, q, y))
  BY DEF Placed
<1>6. Real(node, s)
  <2>1. i \in 0..Len(node.kids) - 1  OBVIOUS
  <2> QED  BY <1>5, <2>1, RealHead
<1>7. ASSUME NEW new PROVE NodeAt(PutAt(node, s, new), s) = new
  <2> DEFINE a == PutAt(node, s, new)
  <2>1. KidAt(a, i) = PutAt(kid, p, new)  BY <1>2, <1>4
  <2> HIDE DEF a
  <2>2. NodeAt(a, s) = NodeAt(KidAt(a, i), p)  BY NodeAtHead
  <2> QED  BY <1>5, <2>1, <2>2 DEF a
<1>8. ASSUME NEW x, NEW y, NEW q \in Seq(Nat)
      PROVE  PutAt(PutAt(node, s, x), s \o q, y) = PutAt(node, s, PutAt(x, q, y))
  <2> DEFINE a == PutAt(node, s, x)
             b == PutAt(kid, p, x)
             c == PutAt(kid, p, PutAt(x, q, y))
             u == p \o q
  <2>1. a = WithKid(node, i, b) /\ KidAt(a, i) = b  BY <1>2, <1>4
  <2>2. u \in Seq(Nat) /\ s \o q = <<i>> \o u  BY <1>1
  <2>3. PutAt(b, u, y) = c  BY <1>5
  <2>4. PutAt(node, s, PutAt(x, q, y)) = WithKid(node, i, c)  BY <1>4
  <2> HIDE DEF a, b, c, u
  <2>5. PutAt(a, <<i>> \o u, y) = WithKid(a, i, PutAt(KidAt(a, i), u, y))  BY <2>2, PutAtHead
  <2>6. WithKid(a, i, c) = WithKid(node, i, c)  BY <1>3, <2>1
  <2> QED  BY <2>1, <2>2, <2>3, <2>4, <2>5, <2>6 DEF a
<1> QED  BY <1>6, <1>7, <1>8 DEF Placed

\* What is at the end of a path, and what becomes of the tree with another node there.
Down(W, h, node, S, p, r, A) ==
  /\ Len(p) <= h /\ A \subseteq S /\ Placed(node, p)
  /\ In(W, h - Len(p), NodeAt(node, p), A, r)
  /\ p = <<>> \/ r = <<>> \/ Size(NodeAt(node, p)) \in W
  /\ \A new, B, q :
       /\ B \subseteq A /\ In(W, h - Len(p), new, B, q)
       /\ p = <<>> \/ q = <<>> \/ Size(new) \in W
       => /\ In(W, h, PutAt(node, p, new), (S \ A) \cup B, p \o q)
          /\ p # <<>> => Size(PutAt(node, p, new)) = Size(node)

\* The root may be given up for another tree of its height and of some of its keys.
LEMMA DownHere ==
  ASSUME NEW W, NEW h, NEW node, NEW S, NEW r, In(W, h, node, S, r)
  PROVE  Down(W, h, node, S, <<>>, r, S)
<1>1. h \in Nat /\ S \subseteq Key  BY Facts
<1>2. Len(<<>>) = 0 /\ h - Len(<<>>) = h  BY <1>1
<1>3. NodeAt(node, <<>>) = node  BY NodeAtHere
<1>4. ASSUME NEW new, NEW B, NEW q, B \subseteq S, In(W, h, new, B, q)
      PROVE  In(W, h, PutAt(node, <<>>, new), (S \ S) \cup B, <<>> \o q)
  <2>1. q \in Seq(Nat)  BY <1>4, Facts
  <2>2. <<>> \o q = q  BY <2>1, ConcatEmptySeq
  <2>3. PutAt(node, <<>>, new) = new /\ (S \ S) \cup B = B  BY PutAtHere
  <2> QED  BY <1>4, <2>2, <2>3
<1> QED  BY <1>1, <1>2, <1>3, <1>4, PlacedHere DEF Down

\* The child on the way to the exempted node is a tree.
LEMMA HeadIn ==
  ASSUME NEW W, NEW H, NEW node, NEW S, NEW i \in Nat, NEW r \in Seq(Nat),
         In(W, H, node, S, <<i>> \o r)
  PROVE  \E parts : /\ Holds(W, H, node, parts, <<i>> \o r) /\ S = All(node.keys, parts)
                    /\ H \in Nat \ {0}
<1>1. PICK parts : Holds(W, H, node, parts, <<i>> \o r) /\ S = All(node.keys, parts)  BY InHolds
<1>2. <<i>> \o r # <<>>  BY Stepped
<1>3. H \in Nat /\ H # 0  BY <1>1, <1>2 DEF Holds
<1> QED  BY <1>1, <1>3

\* What may be given up below a child may be below its parent.
LEMMA DownStep ==
  ASSUME BTreeParameters, NEW W, NEW h \in Nat, NEW node, NEW parts, NEW i \in Nat,
         NEW p \in Seq(Nat), NEW r \in Seq(Nat),
         Holds(W, h + 1, node, parts, <<i>> \o (p \o r)),
         NEW A, Down(W, h, node.kids[i + 1], parts[i + 1], p, r, A)
  PROVE  Down(W, h + 1, node, All(node.keys, parts), <<i>> \o p, r, A)
<1> DEFINE kid == node.kids[i + 1]
           T == parts[i + 1]
           S == All(node.keys, parts)
           s == <<i>> \o p
           k == h - Len(p)
<1>1. p \o r \in Seq(Nat) /\ (p \o r = <<>> <=> p = <<>> /\ r = <<>>)  BY Longer
<1>a. Headed(W, h, node, parts, i, p \o r)  BY <1>1, HeadHolds
<1>b. node = [keys |-> node.keys, kids |-> node.kids]  BY <1>a DEF Headed
<1>2. /\ Ordered(node.keys, parts)
      /\ node.kids \in Seq(Nodes(Trees(W, h))) /\ Len(node.kids) = Len(parts)
      /\ i \in 0..Len(node.keys)
      /\ p \o r = <<>> \/ Size(kid) \in W
  BY <1>a DEF Headed
<1>3. /\ Len(p) <= h /\ A \subseteq T
      /\ In(W, k, NodeAt(kid, p), A, r)
      /\ p = <<>> \/ r = <<>> \/ Size(NodeAt(kid, p)) \in W
      /\ \A new, B, q :
           /\ B \subseteq A /\ In(W, k, new, B, q)
           /\ p = <<>> \/ q = <<>> \/ Size(new) \in W
           => /\ In(W, h, PutAt(kid, p, new), (T \ A) \cup B, p \o q)
              /\ p # <<>> => Size(PutAt(kid, p, new)) = Size(kid)
  BY DEF Down
<1>4. s \in Seq(Nat) /\ Len(s) = Len(p) + 1 /\ s # <<>>  BY Stepped
<1>5. Len(p) \in Nat /\ (h + 1) - Len(s) = k /\ Len(s) <= h + 1
  <2>1. Len(p) \in Nat  OBVIOUS
  <2> HIDE DEF s
  <2> QED  BY <1>3, <1>4, <2>1, SMTT(60)
<1>6. Len(parts) = Len(node.keys) + 1 /\ i + 1 \in 1..Len(parts)
  <2>1. Len(parts) = Len(node.keys) + 1 /\ Len(node.keys) \in Nat  BY <1>2 DEF Ordered
  <2> QED  BY <1>2, <2>1
<1>7. T \subseteq S  BY <1>2, <1>6, AllHas
<1>8. NodeAt(node, s) = NodeAt(kid, p)  BY NodeAtHead DEF KidAt
<1>9. r = <<>> \/ Size(NodeAt(node, s)) \in W
  <2>1. CASE p = <<>>  BY <1>1, <1>2, <1>8, <2>1, NodeAtHere
  <2>2. CASE p # <<>>  BY <1>3, <1>8, <2>2
  <2> QED  BY <2>1, <2>2
<1>10. ASSUME NEW new, NEW B, NEW q, B \subseteq A, In(W, k, new, B, q), q = <<>> \/ Size(new) \in W
       PROVE  /\ In(W, h + 1, PutAt(node, s, new), (S \ A) \cup B, s \o q)
              /\ Size(PutAt(node, s, new)) = Size(node)
  <2> DEFINE sub == PutAt(kid, p, new)
             D == (T \ A) \cup B
             res == [keys |-> node.keys, kids |-> [node.kids EXCEPT ![i + 1] = sub]]
  <2>1. q \in Seq(Nat)  BY <1>10, Facts
  <2>2. p \o q \in Seq(Nat) /\ s \o q = <<i>> \o (p \o q) /\ (p \o q = <<>> <=> p = <<>> /\ q = <<>>)
    BY <2>1, Longer, SMTT(60)
  <2>3. In(W, h, sub, D, p \o q) /\ (p # <<>> => Size(sub) = Size(kid))  BY <1>3, <1>10
  <2>4. p \o q = <<>> \/ Size(sub) \in W
    <3>1. CASE p = <<>>
      <4>1. sub = new  BY <3>1, PutAtHere
      <4> QED  BY <1>10, <2>2, <3>1, <4>1
    <3>2. CASE p # <<>>  BY <1>1, <1>2, <2>3, <3>2
    <3> QED  BY <3>1, <3>2
  <2>5. PutAt(node, s, new) = res
    <3>1. PutAt(node, s, new) = [node EXCEPT !.kids[i + 1] = sub]  BY PutAtHead DEF KidAt, WithKid
    <3> HIDE DEF sub
    <3> QED  BY <1>b, <3>1
  <2>6. res.keys = node.keys /\ Size(res) = Size(node)  BY DEF Size
  <2>7. D \subseteq T  BY <1>3, <1>10
  <2>8. /\ Ordered(node.keys, [parts EXCEPT ![i + 1] = D])
        /\ All(node.keys, [parts EXCEPT ![i + 1] = D]) = (S \ T) \cup D
    <3> DEFINE g == i + 1
    <3>1. g \in 1..Len(parts) /\ D \in SUBSET parts[g]  BY <1>6, <2>7
    <3> HIDE DEF g, D
    <3>2. Fits(node.keys, g, D)  BY <1>2, <3>1, PartFits
    <3>3. Ordered(node.keys, parts) /\ g \in 1..Len(parts)  BY <1>2, <3>1
    <3>4. Ordered(node.keys, [parts EXCEPT ![g] = D])  BY <3>2, <3>3, PartReplaced
    <3>5. All(node.keys, [parts EXCEPT ![g] = D]) = (All(node.keys, parts) \ parts[g]) \cup D
      BY <3>2, <3>3, PartReplaced, SMTT(60)
    <3> QED  BY <3>4, <3>5 DEF g
  <2>9. (S \ T) \cup D = (S \ A) \cup B  BY <1>3, <1>7, <1>10
  <2> HIDE DEF sub, D
  <2>10. Holds(W, h + 1, res, [parts EXCEPT ![i + 1] = D], <<i>> \o (p \o q))
    BY <1>1, <2>2, <2>3, <2>4, <2>8, KidReplaced
  <2>11. In(W, h + 1, res, (S \ T) \cup D, <<i>> \o (p \o q))
    <3> HIDE DEF res, S
    <3>1. In(W, h + 1, res, All(res.keys, [parts EXCEPT ![i + 1] = D]), <<i>> \o (p \o q))
      BY <2>10, HoldsIn
    <3> QED  BY <2>6, <2>8, <3>1
  <2> QED  BY <2>2, <2>5, <2>6, <2>9, <2>11
<1> HIDE DEF s, S, T, kid
<1>11. A \subseteq S  BY <1>3, <1>7
<1>12. In(W, (h + 1) - Len(s), NodeAt(node, s), A, r)  BY <1>3, <1>5, <1>8
<1>13. \A new, B, q :
           /\ B \subseteq A /\ In(W, (h + 1) - Len(s), new, B, q)
           /\ s = <<>> \/ q = <<>> \/ Size(new) \in W
           => /\ In(W, h + 1, PutAt(node, s, new), (S \ A) \cup B, s \o q)
              /\ s # <<>> => Size(PutAt(node, s, new)) = Size(node)
  BY <1>4, <1>5, <1>10
<1>15. Placed(node, s)
  <2>1. Placed(KidAt(node, i), p)  BY DEF Down, KidAt
  <2>2. node.kids \in Seq(Nodes(Trees(W, h))) /\ i + 1 \in 1..Len(node.kids)  BY <1>2, <1>6
  <2>3. Plain(node)  BY <1>b DEF Plain
  <2> QED  BY <2>1, <2>2, <2>3, PlacedStep DEF s
<1>14. Down(W, h + 1, node, S, s, r, A)  BY <1>15, <1>5, <1>9, <1>11, <1>12, <1>13 DEF Down
<1> QED  BY <1>14 DEF s, S

\* The exempted node, or one above it, may be given up for another of its height.
LEMMA Descend ==
  ASSUME BTreeParameters, NEW W, NEW h, NEW node, NEW S, NEW p \in Seq(Nat), NEW r \in Seq(Nat),
         In(W, h, node, S, p \o r)
  PROVE  \E A : Down(W, h, node, S, p, r, A)
<1> DEFINE Claim(g, x, T, s) == In(W, g, x, T, s \o r) => \E A : Down(W, g, x, T, s, r, A)
           Good == {n \in Nat : \A s \in Seq(Nat) : Len(s) = n => \A g, x, T : Claim(g, x, T, s)}
<1>1. 0 \in Good
  <2>1. ASSUME NEW s \in Seq(Nat), Len(s) = 0, NEW g, NEW x, NEW T, In(W, g, x, T, s \o r)
        PROVE  \E A : Down(W, g, x, T, s, r, A)
    <3>1. s = <<>>  BY <2>1
    <3>2. <<>> \o r = r  BY ConcatEmptySeq
    <3>3. In(W, g, x, T, r)  BY <2>1, <3>1, <3>2
    <3> QED  BY <3>1, <3>3, DownHere
  <2> QED  BY <2>1
<1>2. ASSUME NEW n \in Nat, n \in Good PROVE n + 1 \in Good
  <2>1. ASSUME NEW s \in Seq(Nat), Len(s) = n + 1, NEW g, NEW x, NEW T, In(W, g, x, T, s \o r)
        PROVE  \E A : Down(W, g, x, T, s, r, A)
    <3> DEFINE i == s[1]
               u == Tail(s)
    <3>1. s # <<>>  BY <2>1
    <3>2. i \in Nat /\ u \in Seq(Nat) /\ s = <<i>> \o u /\ Len(s) = Len(u) + 1  BY <3>1, FirstStep
    <3> HIDE DEF i, u
    <3>3. Len(u) = n
      <4>1. Len(u) \in Nat  BY <3>2
      <4> QED  BY <2>1, <3>2, <4>1
    <3>4. s \o r = <<i>> \o (u \o r) /\ u \o r \in Seq(Nat)  BY <3>2, Longer, SMTT(60)
    <3>5. PICK parts : /\ Holds(W, g, x, parts, <<i>> \o (u \o r)) /\ T = All(x.keys, parts)
                       /\ g \in Nat \ {0}
      BY <2>1, <3>2, <3>4, HeadIn
    <3> DEFINE f == g - 1
    <3>6. f \in Nat /\ g = f + 1  BY <3>5
    <3> HIDE DEF f
    <3>7. In(W, f, x.kids[i + 1], parts[i + 1], u \o r)
      <4>1. Headed(W, f, x, parts, i, u \o r)  BY <3>2, <3>4, <3>5, <3>6, HeadHolds
      <4> QED  BY <4>1 DEF Headed
    <3>8. PICK A : Down(W, f, x.kids[i + 1], parts[i + 1], u, r, A)  BY <1>2, <3>2, <3>3, <3>7
    <3>9. Holds(W, f + 1, x, parts, <<i>> \o (u \o r))  BY <3>5, <3>6
    <3>10. Down(W, f + 1, x, All(x.keys, parts), <<i>> \o u, r, A)
      BY <3>2, <3>6, <3>8, <3>9, DownStep
    <3> QED  BY <3>2, <3>5, <3>6, <3>10
  <2> QED  BY <2>1
<1> HIDE DEF Good
<1>3. \A n \in Nat : n \in Good  BY <1>1, <1>2, Numbers
<1>4. Len(p) \in Good  BY <1>3
<1>5. Claim(h, node, S, p)  BY <1>4 DEF Good
<1> QED  BY <1>5

(***************************************************************************)
(* The nodes of a tree.                                                    *)
(***************************************************************************)

\* A child of a node is a tree.
LEMMA ChildIn ==
  ASSUME NEW W, NEW H, NEW node, NEW S, NEW e, In(W, H, node, S, e),
         NEW i \in Nat, i < Len(node.kids)
  PROVE  \E parts :
           /\ H \in Nat \ {0} /\ Holds(W, H, node, parts, e) /\ S = All(node.keys, parts)
           /\ i + 1 \in 1..Len(parts) /\ Len(parts) = Len(node.keys) + 1 /\ Len(node.kids) = Len(parts)
           /\ In(W, H - 1, KidAt(node, i), parts[i + 1], Below(e, i + 1))
           /\ e = <<i>> \/ Size(KidAt(node, i)) \in W
           /\ parts[i + 1] \subseteq S /\ Ordered(node.keys, parts)
<1>1. PICK parts : Holds(W, H, node, parts, e) /\ S = All(node.keys, parts)  BY InHolds
<1>2. H \in Nat /\ Ordered(node.keys, parts)  BY <1>1 DEF Holds
<1>3. H # 0
  <2> SUFFICES ASSUME H = 0 PROVE FALSE  OBVIOUS
  <2>1. node.kids = <<>>  BY <1>1 DEF Holds
  <2>2. Len(<<>>) = 0  OBVIOUS
  <2> QED  BY <2>1, <2>2
<1>4. /\ Len(node.kids) = Len(parts)
      /\ \A j \in 1..Len(parts) : /\ In(W, H - 1, node.kids[j], parts[j], Below(e, j))
                                  /\ e = <<j - 1>> \/ Size(node.kids[j]) \in W
  BY <1>1, <1>3 DEF Holds
<1>5. Len(parts) = Len(node.keys) + 1 /\ Len(node.keys) \in Nat  BY <1>2 DEF Ordered
<1>6. i + 1 \in 1..Len(parts)  BY <1>4, <1>5
<1>7. In(W, H - 1, KidAt(node, i), parts[i + 1], Below(e, i + 1)) /\ (e = <<i>> \/ Size(KidAt(node, i)) \in W)
  <2> DEFINE g == i + 1
  <2>1. g \in 1..Len(parts) /\ g - 1 = i /\ KidAt(node, i) = node.kids[g]  BY <1>6 DEF KidAt
  <2> HIDE DEF g
  <2>2. In(W, H - 1, node.kids[g], parts[g], Below(e, g)) /\ (e = <<g - 1>> \/ Size(node.kids[g]) \in W)
    BY <1>4, <2>1
  <2> QED  BY <2>1, <2>2 DEF g
<1>8. parts[i + 1] \subseteq S  BY <1>1, <1>2, <1>6, AllHas
<1> QED  BY <1>1, <1>2, <1>3, <1>4, <1>5, <1>6, <1>7, <1>8

\* Where a real path ends.
Inside(W, h, node, S, e, p) ==
  /\ Len(p) <= h
  /\ p = e \/ p = <<>> \/ Size(NodeAt(node, p)) \in W
  /\ \E A, f : A \subseteq S /\ In(W, h - Len(p), NodeAt(node, p), A, f)

\* A node below a child is one below its parent.
LEMMA InsideStep ==
  ASSUME NEW W, NEW H, NEW node, NEW S, NEW e, In(W, H, node, S, e),
         NEW i \in Nat, i < Len(node.kids), NEW u \in Seq(Nat),
         \A T, f : In(W, H - 1, KidAt(node, i), T, f) => Inside(W, H - 1, KidAt(node, i), T, f, u)
  PROVE  Inside(W, H, node, S, e, <<i>> \o u)
<1> DEFINE p == <<i>> \o u
           kid == KidAt(node, i)
           f == Below(e, i + 1)
<1>1. PICK parts :
        /\ H \in Nat \ {0} /\ In(W, H - 1, kid, parts[i + 1], f)
        /\ e = <<i>> \/ Size(kid) \in W
        /\ parts[i + 1] \subseteq S
  BY ChildIn
<1>2. Inside(W, H - 1, kid, parts[i + 1], f, u)  BY <1>1
<1>3. p \in Seq(Nat) /\ Len(p) = Len(u) + 1  BY Stepped
<1>4. NodeAt(node, p) = NodeAt(kid, u)  BY NodeAtHead
<1>5. e \in Seq(Nat)  BY Facts
<1>6. f # <<>> => e = <<i>> \o f
  <2>1. f = IF e # <<>> /\ e[1] = i THEN Tail(e) ELSE <<>>
    <3>1. (i + 1) - 1 = i  OBVIOUS
    <3> QED  BY <3>1 DEF Below
  <2> QED  BY <1>5, <2>1, FirstStep
<1>7. <<i>> \o <<>> = <<i>>
  <2>1. <<i>> \in Seq(Nat)  OBVIOUS
  <2> QED  BY <2>1, ConcatEmptySeq
<1> HIDE DEF p, kid, f
<1>8. /\ Len(u) <= H - 1
      /\ u = f \/ u = <<>> \/ Size(NodeAt(kid, u)) \in W
      /\ \E A, g : A \subseteq parts[i + 1] /\ In(W, (H - 1) - Len(u), NodeAt(kid, u), A, g)
  BY <1>2 DEF Inside
<1>9. Len(p) <= H /\ (H - 1) - Len(u) = H - Len(p)
  <2>1. Len(u) \in Nat  OBVIOUS
  <2> QED  BY <1>1, <1>3, <1>8, <2>1
<1>10. p = e \/ Size(NodeAt(node, p)) \in W
  <2>1. CASE u = <<>>
    <3>1. p = <<i>> /\ NodeAt(kid, u) = kid  BY <1>7, <2>1, NodeAtHere DEF p
    <3> QED  BY <1>1, <1>4, <3>1
  <2>2. CASE u = f /\ u # <<>>  BY <1>6, <2>2 DEF p
  <2>3. CASE Size(NodeAt(kid, u)) \in W  BY <1>4, <2>3
  <2> QED  BY <1>8, <2>1, <2>2, <2>3
<1>11. \E A, g : A \subseteq S /\ In(W, H - Len(p), NodeAt(node, p), A, g)
  BY <1>1, <1>4, <1>8, <1>9
<1> QED  BY <1>9, <1>10, <1>11 DEF Inside, p

\* Every node of a tree is a tree, of a height that its depth leaves.
LEMMA InsideAll ==
  ASSUME NEW W, NEW h, NEW node, NEW S, NEW e, In(W, h, node, S, e),
         NEW p \in Seq(Nat), Real(node, p)
  PROVE  Inside(W, h, node, S, e, p)
<1> DEFINE Claim(s) == \A g, x, T, f : In(W, g, x, T, f) /\ Real(x, s) => Inside(W, g, x, T, f, s)
           Good == {n \in Nat : \A s \in Seq(Nat) : Len(s) = n => Claim(s)}
<1>1. 0 \in Good
  <2>1. ASSUME NEW s \in Seq(Nat), Len(s) = 0, NEW g, NEW x, NEW T, NEW f, In(W, g, x, T, f)
        PROVE  Inside(W, g, x, T, f, s)
    <3>1. s = <<>> /\ NodeAt(x, <<>>) = x  BY <2>1, NodeAtHere
    <3>2. g \in Nat  BY <2>1, Facts
    <3>3. g - Len(s) = g /\ Len(s) <= g  BY <2>1, <3>2
    <3> QED  BY <2>1, <3>1, <3>3 DEF Inside
  <2> QED  BY <2>1
<1>2. ASSUME NEW n \in Nat, n \in Good PROVE n + 1 \in Good
  <2>1. ASSUME NEW s \in Seq(Nat), Len(s) = n + 1, NEW g, NEW x, NEW T, NEW f,
               In(W, g, x, T, f), Real(x, s)
        PROVE  Inside(W, g, x, T, f, s)
    <3> DEFINE i == s[1]
               u == Tail(s)
    <3>1. s # <<>>  BY <2>1
    <3>2. i \in Nat /\ u \in Seq(Nat) /\ s = <<i>> \o u /\ Len(s) = Len(u) + 1  BY <3>1, FirstStep
    <3> HIDE DEF i, u
    <3>3. Len(u) = n
      <4>1. Len(u) \in Nat  BY <3>2
      <4> QED  BY <2>1, <3>2, <4>1
    <3>4. i \in 0..Len(x.kids) - 1 /\ Real(KidAt(x, i), u)  BY <2>1, <3>2, RealHead
    <3>5. Claim(u)  BY <1>2, <3>2, <3>3
    <3>6. i < Len(x.kids)
      <4>1. Len(x.kids) \in Int \/ Len(x.kids) \notin Int  OBVIOUS
      <4>2. PICK parts : Holds(W, g, x, parts, f)  BY <2>1, InHolds
      <4>3. Len(x.kids) \in Nat
        <5>1. CASE g = 0
          <6>1. x.kids = <<>> /\ Len(<<>>) = 0  BY <4>2, <5>1 DEF Holds
          <6> QED  BY <6>1
        <5>2. CASE g # 0
          <6>1. x.kids \in Seq(Nodes(Trees(W, g - 1)))  BY <4>2, <5>2 DEF Holds
          <6> QED  BY <6>1
        <5> QED  BY <5>1, <5>2
      <4> QED  BY <3>4, <4>3
    <3>7. \A V, q : In(W, g - 1, KidAt(x, i), V, q) => Inside(W, g - 1, KidAt(x, i), V, q, u)
      BY <3>4, <3>5
    <3>8. Inside(W, g, x, T, f, <<i>> \o u)  BY <2>1, <3>2, <3>6, <3>7, InsideStep
    <3> QED  BY <3>2, <3>8
  <2> QED  BY <2>1
<1> HIDE DEF Good
<1>3. \A n \in Nat : n \in Good  BY <1>1, <1>2, Numbers
<1>4. Len(p) \in Good  BY <1>3
<1>5. Claim(p)  BY <1>4 DEF Good
<1> QED  BY <1>5

\* The paths of a tree are those that take a child at each step.
LEMMA PathsOf ==
  ASSUME NEW W, NEW h, NEW node, NEW S, NEW e, In(W, h, node, S, e)
  PROVE  Paths(node) = {p \in Seq(Nat) : Real(node, p)}
<1>1. h \in Nat /\ h + 1 \in Nat  BY Facts
<1>2. ASSUME NEW p \in Seq(Nat), Real(node, p) PROVE Len(p) < h + 1
  <2>1. Len(p) <= h /\ Len(p) \in Nat  BY <1>2, InsideAll DEF Inside
  <2> QED  BY <1>1, <2>1
<1> QED  BY <1>1, <1>2, PathsAre

\* The keys of a tree are those of its nodes.
LEMMA KeysBelow ==
  ASSUME NEW W, NEW h, NEW node, NEW S, NEW e, In(W, h, node, S, e), NEW k
  PROVE  k \in S <=> \E p \in Seq(Nat) : Real(node, p) /\ k \in Range(NodeAt(node, p).keys)
<1>1. ASSUME NEW p \in Seq(Nat), Real(node, p), k \in Range(NodeAt(node, p).keys) PROVE k \in S
  <2>1. Inside(W, h, node, S, e, p)  BY <1>1, InsideAll
  <2>2. PICK A, f : A \subseteq S /\ In(W, h - Len(p), NodeAt(node, p), A, f)  BY <2>1 DEF Inside
  <2>3. Range(NodeAt(node, p).keys) \subseteq A  BY <2>2, Facts
  <2> QED  BY <1>1, <2>2, <2>3
<1> DEFINE Below1(x) == \E p \in Seq(Nat) : Real(x, p) /\ k \in Range(NodeAt(x, p).keys)
           Claim(n) == \A x, T, f : In(W, n, x, T, f) /\ k \in T => Below1(x)
           Good == {n \in Nat : Claim(n)}
<1>2. ASSUME NEW n \in Nat, NEW x, NEW T, NEW f, In(W, n, x, T, f), k \in T,
             n = 0 \/ Claim(n - 1)
      PROVE  Below1(x)
  <2>1. PICK parts : Holds(W, n, x, parts, f) /\ T = All(x.keys, parts)  BY <1>2, InHolds
  <2>2. Ordered(x.keys, parts)  BY <2>1 DEF Holds
  <2>3. CASE \E i \in 1..Len(x.keys) : k = x.keys[i]
    <3>1. PICK i \in 1..Len(x.keys) : k = x.keys[i]  BY <2>3
    <3>2. k \in Range(x.keys)
      <4>1. x.keys \in Seq(Key)  BY <2>2 DEF Ordered
      <4>2. DOMAIN x.keys = 1..Len(x.keys)  BY <4>1
      <4> QED  BY <3>1, <4>2 DEF Range
    <3>3. <<>> \in Seq(Nat) /\ Real(x, <<>>) /\ NodeAt(x, <<>>) = x  BY RealHere, NodeAtHere
    <3>4. k \in Range(NodeAt(x, <<>>).keys)  BY <3>2, <3>3
    <3> QED  BY <3>3, <3>4
  <2>4. CASE \E i \in 1..Len(parts) : k \in parts[i]
    <3>1. PICK j \in 1..Len(parts) : k \in parts[j]  BY <2>4
    <3>2. n # 0  BY <2>1, <3>1 DEF Holds
    <3>3. In(W, n - 1, x.kids[j], parts[j], Below(f, j)) /\ Len(x.kids) = Len(parts)
      BY <2>1, <3>1, <3>2 DEF Holds
    <3> DEFINE i == j - 1
               kid == x.kids[j]
    <3>4. Len(parts) \in Nat  BY <2>2 DEF Ordered
    <3>5. i \in Nat /\ i \in 0..Len(x.kids) - 1 /\ i + 1 = j  BY <3>3, <3>4
    <3>6. Claim(n - 1)  BY <1>2, <3>2
    <3>7. Below1(kid)  BY <3>1, <3>3, <3>6
    <3>8. PICK q \in Seq(Nat) : Real(kid, q) /\ k \in Range(NodeAt(kid, q).keys)  BY <3>7
    <3>9. KidAt(x, i) = kid  BY <3>5 DEF KidAt
    <3> HIDE DEF i, kid
    <3>10. <<i>> \o q \in Seq(Nat)  BY <3>5, Stepped
    <3>11. Real(x, <<i>> \o q)  BY <3>5, <3>8, <3>9, RealHead
    <3>12. NodeAt(x, <<i>> \o q) = NodeAt(kid, q)  BY <3>5, <3>9, NodeAtHead
    <3>13. k \in Range(NodeAt(x, <<i>> \o q).keys)  BY <3>8, <3>12
    <3> QED  BY <3>10, <3>11, <3>13
  <2> QED  BY <1>2, <2>1, <2>2, <2>3, <2>4, AllIs
<1>3. 0 \in Good  BY <1>2
<1>4. ASSUME NEW n \in Nat, n \in Good PROVE n + 1 \in Good
  <2> DEFINE m == n + 1
  <2>1. m \in Nat /\ m - 1 = n  OBVIOUS
  <2> HIDE DEF m
  <2>2. Claim(m - 1)  BY <1>4, <2>1
  <2>3. Claim(m)  BY <1>2, <2>1, <2>2
  <2>4. m \in Good  BY <2>1, <2>3
  <2> QED  BY <2>4 DEF m
<1> HIDE DEF Good
<1>5. \A n \in Nat : n \in Good  BY <1>3, <1>4, Numbers
<1>6. h \in Nat  BY Facts
<1>7. Claim(h)  BY <1>5, <1>6 DEF Good
<1> QED  BY <1>1, <1>7

\* A child of a tree none of whose nodes is exempted.
LEMMA HeadFull ==
  ASSUME NEW W, NEW h \in Nat, NEW node, NEW parts, NEW i \in Nat, NEW r,
         Headed(W, h, node, parts, i, r),
         In(W, h, node.kids[i + 1], parts[i + 1], <<>>), Size(node.kids[i + 1]) \in W
  PROVE  Holds(W, h + 1, node, parts, <<>>)
<1> DEFINE g == i + 1
           H == h + 1
<1>1. /\ node = [keys |-> node.keys, kids |-> node.kids] /\ Ordered(node.keys, parts)
      /\ node.kids \in Seq(Nodes(Trees(W, h))) /\ Len(node.kids) = Len(parts)
      /\ \A j \in 1..Len(parts) :
           j # g => In(W, h, node.kids[j], parts[j], <<>>) /\ Size(node.kids[j]) \in W
  BY DEF Headed
<1>2. In(W, h, node.kids[g], parts[g], <<>>) /\ Size(node.kids[g]) \in W  OBVIOUS
<1>3. H \in Nat /\ H # 0 /\ H - 1 = h  OBVIOUS
<1> HIDE DEF g, H
<1>4. \A j \in 1..Len(parts) : In(W, H - 1, node.kids[j], parts[j], <<>>) /\ Size(node.kids[j]) \in W
  BY <1>1, <1>2, <1>3
<1>5. node.kids \in Seq(Nodes(Trees(W, H - 1))) /\ Len(node.kids) = Len(parts)  BY <1>1, <1>3
<1>6. Holds(W, H, node, parts, <<>>)  BY <1>1, <1>3, <1>4, <1>5, FullHolds
<1> QED  BY <1>6 DEF H

\* In a tree without a node of any other size, each node may become one.
LEMMA Exempt ==
  ASSUME NEW W, NEW h, NEW node, NEW S, In(W, h, node, S, <<>>), NEW p \in Seq(Nat), Real(node, p)
  PROVE  In(W, h, node, S, p)
<1> DEFINE Claim(s) == \A g, x, T : In(W, g, x, T, <<>>) /\ Real(x, s) => In(W, g, x, T, s)
           Good == {n \in Nat : \A s \in Seq(Nat) : Len(s) = n => Claim(s)}
<1>1. 0 \in Good  OBVIOUS
<1>2. ASSUME NEW n \in Nat, n \in Good PROVE n + 1 \in Good
  <2>1. ASSUME NEW s \in Seq(Nat), Len(s) = n + 1, NEW g, NEW x, NEW T,
               In(W, g, x, T, <<>>), Real(x, s)
        PROVE  In(W, g, x, T, s)
    <3> DEFINE i == s[1]
               u == Tail(s)
    <3>1. s # <<>>  BY <2>1
    <3>2. i \in Nat /\ u \in Seq(Nat) /\ s = <<i>> \o u /\ Len(s) = Len(u) + 1  BY <3>1, FirstStep
    <3> HIDE DEF i, u
    <3>3. Len(u) = n
      <4>1. Len(u) \in Nat  BY <3>2
      <4> QED  BY <2>1, <3>2, <4>1
    <3>4. i \in 0..Len(x.kids) - 1 /\ Real(KidAt(x, i), u)  BY <2>1, <3>2, RealHead
    <3>5. PICK parts : Holds(W, g, x, parts, <<>>) /\ T = All(x.keys, parts)  BY <2>1, InHolds
    <3>6. g \in Nat /\ g # 0 /\ Len(x.kids) = Len(parts) /\ Len(parts) = Len(x.keys) + 1 /\ Len(x.keys) \in Nat
      <4>1. g \in Nat /\ Ordered(x.keys, parts)  BY <3>5 DEF Holds
      <4>2. Len(parts) = Len(x.keys) + 1 /\ Len(x.keys) \in Nat  BY <4>1 DEF Ordered
      <4>3. g # 0
        <5> SUFFICES ASSUME g = 0 PROVE FALSE  OBVIOUS
        <5>1. x.kids = <<>>  BY <3>5 DEF Holds
        <5>2. Len(<<>>) = 0  OBVIOUS
        <5> QED  BY <3>4, <5>1, <5>2
      <4> QED  BY <3>5, <4>1, <4>2, <4>3 DEF Holds
    <3> DEFINE f == g - 1
               k == i + 1
    <3>7. f \in Nat /\ g = f + 1 /\ i \in 0..Len(x.keys) /\ k \in 1..Len(parts)
      BY <3>4, <3>6
    <3>8. KidAt(x, i) = x.kids[k]  BY DEF KidAt
    <3> HIDE DEF f, k
    <3>9. Holds(W, f + 1, x, parts, <<i>> \o <<>>)  BY <3>5, <3>7, SomeChild
    <3>10. <<>> \in Seq(Nat)  OBVIOUS
    <3>11. Headed(W, f, x, parts, i, <<>>)  BY <3>2, <3>7, <3>9, <3>10, HeadHolds
    <3>12. In(W, f, x.kids[k], parts[k], <<>>)  BY <3>11 DEF Headed, k
    <3>13. Size(x.kids[k]) \in W
      <4>1. f = g - 1  BY DEF f
      <4> QED  BY <3>5, <3>6, <3>7, FullHolds
    <3>14. In(W, f, x.kids[k], parts[k], u)  BY <1>2, <3>2, <3>3, <3>4, <3>8, <3>12
    <3>15. Headed(W, f, x, parts, i, u)  BY <3>11, <3>13, <3>14 DEF Headed, k
    <3>16. Holds(W, f + 1, x, parts, <<i>> \o u)  BY <3>2, <3>7, <3>15, HeadHolds
    <3> QED  BY <3>2, <3>5, <3>7, <3>16, HoldsIn
  <2> QED  BY <2>1
<1> HIDE DEF Good
<1>3. \A n \in Nat : n \in Good  BY <1>1, <1>2, Numbers
<1>4. Len(p) \in Good  BY <1>3
<1>5. Claim(p)  BY <1>4 DEF Good
<1> QED  BY <1>5

\* A node of the right size need not be one of any size.
LEMMA Settle ==
  ASSUME NEW W, NEW h, NEW node, NEW S, NEW e, In(W, h, node, S, e),
         e = <<>> \/ Size(NodeAt(node, e)) \in W
  PROVE  In(W, h, node, S, <<>>)
<1> DEFINE Claim(s) == \A g, x, T : In(W, g, x, T, s) /\ (s = <<>> \/ Size(NodeAt(x, s)) \in W)
                                    => In(W, g, x, T, <<>>)
           Good == {n \in Nat : \A s \in Seq(Nat) : Len(s) = n => Claim(s)}
<1>1. 0 \in Good  OBVIOUS
<1>2. ASSUME NEW n \in Nat, n \in Good PROVE n + 1 \in Good
  <2>1. ASSUME NEW s \in Seq(Nat), Len(s) = n + 1, NEW g, NEW x, NEW T,
               In(W, g, x, T, s), Size(NodeAt(x, s)) \in W
        PROVE  In(W, g, x, T, <<>>)
    <3> DEFINE i == s[1]
               u == Tail(s)
    <3>1. s # <<>>  BY <2>1
    <3>2. i \in Nat /\ u \in Seq(Nat) /\ s = <<i>> \o u /\ Len(s) = Len(u) + 1  BY <3>1, FirstStep
    <3> HIDE DEF i, u
    <3>3. Len(u) = n
      <4>1. Len(u) \in Nat  BY <3>2
      <4> QED  BY <2>1, <3>2, <4>1
    <3>4. PICK parts : Holds(W, g, x, parts, <<i>> \o u) /\ T = All(x.keys, parts) /\ g \in Nat \ {0}
      BY <2>1, <3>2, HeadIn
    <3> DEFINE f == g - 1
               k == i + 1
    <3>5. f \in Nat /\ g = f + 1  BY <3>4
    <3>6. KidAt(x, i) = x.kids[k]  BY DEF KidAt
    <3> HIDE DEF f, k
    <3>7. Headed(W, f, x, parts, i, u)  BY <3>2, <3>4, <3>5, HeadHolds
    <3>8. In(W, f, x.kids[k], parts[k], u) /\ (u = <<>> \/ Size(x.kids[k]) \in W)  BY <3>7 DEF Headed, k
    <3>9. NodeAt(x, s) = NodeAt(x.kids[k], u)  BY <3>2, <3>6, NodeAtHead
    <3>10. In(W, f, x.kids[k], parts[k], <<>>)  BY <1>2, <2>1, <3>2, <3>3, <3>8, <3>9
    <3>11. Size(x.kids[k]) \in W
      <4>1. CASE u = <<>>
        <5>1. NodeAt(x.kids[k], u) = x.kids[k]  BY <4>1, NodeAtHere
        <5> QED  BY <2>1, <3>9, <5>1
      <4>2. CASE u # <<>>  BY <3>8, <4>2
      <4> QED  BY <4>1, <4>2
    <3>12. Holds(W, f + 1, x, parts, <<>>)  BY <3>2, <3>5, <3>7, <3>10, <3>11, HeadFull DEF k
    <3> QED  BY <3>4, <3>5, <3>12, HoldsIn
  <2> QED  BY <2>1
<1> HIDE DEF Good
<1>3. \A n \in Nat : n \in Good  BY <1>1, <1>2, Numbers
<1>a. e \in Seq(Nat)  BY Facts
<1>4. Len(e) \in Good  BY <1>3, <1>a
<1>5. Claim(e)  BY <1>4, <1>a DEF Good
<1> QED  BY <1>5

(***************************************************************************)
(* Looking for a key.                                                      *)
(***************************************************************************)

\* find_index is the number of keys that are less.
LEMMA IndexIs ==
  ASSUME BTreeParameters, NEW node, node.keys \in Seq(Key),
         \A i, j \in 1..Len(node.keys) : i < j => node.keys[i] < node.keys[j], NEW key \in Key
  PROVE  /\ find_index(key, node) \in 0..Len(node.keys)
         /\ \A j \in 1..Len(node.keys) : node.keys[j] < key <=> j <= find_index(key, node)
<1> DEFINE q == node.keys
           n == Len(q)
           Good == {m \in 0..n : \E k \in 0..m : \A j \in 1..m : q[j] < key <=> j <= k}
<1>0. q \in Seq(Key) /\ Key \subseteq Int  BY DEF BTreeParameters
<1>2. \A i, j \in 1..n : i < j => q[i] < q[j]  OBVIOUS
<1> HIDE DEF q
<1>a. n \in Nat /\ DOMAIN q = 1..n  BY <1>0
<1>b. ASSUME NEW j \in 1..n PROVE q[j] \in Int
  <2>1. q[j] \in Key  BY <1>0, ElementOfSeq
  <2> QED  BY <1>0, <2>1
<1>1. n \in Nat /\ \A j \in 1..n : q[j] \in Int  BY <1>a, <1>b
<1>3. key \in Int /\ DOMAIN q = 1..n  BY <1>0, <1>a
<1> HIDE DEF q, n
<1>4. 0 \in Good
  <2>1. 0 \in 0..n /\ 0 \in 0..0 /\ \A j \in 1..0 : FALSE  BY <1>1
  <2> QED  BY <2>1
<1>5. ASSUME NEW m \in 1..n, m - 1 \in Good PROVE m \in Good
  <2>1. PICK k \in 0..m - 1 : \A j \in 1..m - 1 : q[j] < key <=> j <= k  BY <1>5
  <2>2. m \in 0..n /\ m \in 0..m /\ k \in 0..m /\ ~(m <= k) /\ \A j \in 1..m : j \in 1..n
    BY <1>1
  <2>3. \A j \in 1..m : j = m \/ (j \in 1..m - 1 /\ j < m)  BY <1>1
  <2>4. CASE q[m] < key
    <3>1. ASSUME NEW j \in 1..m PROVE q[j] < key /\ j <= m
      <4>1. CASE j = m  BY <1>1, <2>4, <4>1
      <4>2. CASE j < m
        <5>1. q[j] < q[m] /\ q[j] \in Int /\ q[m] \in Int  BY <1>1, <1>2, <2>2, <4>2
        <5> QED  BY <1>1, <1>3, <2>4, <4>2, <5>1
      <4> QED  BY <2>3, <4>1, <4>2
    <3> QED  BY <2>2, <3>1
  <2>5. CASE ~(q[m] < key)
    <3>1. ASSUME NEW j \in 1..m PROVE q[j] < key <=> j <= k
      <4>1. CASE j = m  BY <2>2, <2>5, <4>1
      <4>2. CASE j \in 1..m - 1  BY <2>1, <4>2
      <4> QED  BY <2>3, <4>1, <4>2
    <3> QED  BY <2>2, <3>1
  <2> QED  BY <2>4, <2>5
<1> HIDE DEF Good
<1>6. \A m \in 0..n : m \in Good  BY <1>1, <1>4, <1>5, UpTo
<1>7. n \in Good  BY <1>1, <1>6
<1>8. PICK k \in 0..n : \A j \in 1..n : q[j] < key <=> j <= k  BY <1>7 DEF Good
<1>9. {i \in DOMAIN q : q[i] < key} = 1..k  BY <1>1, <1>3, <1>8
<1>10. Cardinality(1..k) = k
  <2>1. k \in Int /\ 1 \in Int /\ 1 <= k + 1  BY <1>1
  <2>2. Cardinality(1..k) = IF 1 > k THEN 0 ELSE k - 1 + 1  BY <2>1, FS_Interval
  <2> QED  BY <1>1, <2>2
<1>11. find_index(key, node) = k  BY <1>9, <1>10 DEF find_index, q
<1> QED  BY <1>8, <1>11 DEF n, q

\* A way is a first step and the way from there.
LEMMA Steps ==
  ASSUME NEW node, NEW i \in Nat, NEW p \in Seq(Nat)
  PROVE  /\ <<i>> \o p \in Seq(Nat) /\ Len(<<i>> \o p) = Len(p) + 1
         /\ NodeAt(node, <<i>> \o p) = NodeAt(KidAt(node, i), p)
         /\ (<<i>> \o p)[1] = i /\ NodeAt(node, SubSeq(<<i>> \o p, 1, 1 - 1)) = node
         /\ \A n \in 1..Len(p) :
              /\ (<<i>> \o p)[n + 1] = p[n]
              /\ NodeAt(node, SubSeq(<<i>> \o p, 1, (n + 1) - 1))
                   = NodeAt(KidAt(node, i), SubSeq(p, 1, n - 1))
<1> DEFINE r == <<i>> \o p
<1>1. /\ r \in Seq(Nat) /\ Len(r) = Len(p) + 1 /\ r[1] = i
      /\ \A n \in 1..Len(p) : r[n + 1] = p[n]
      /\ \A n \in 0..Len(p) : SubSeq(r, 1, n + 1) = <<i>> \o SubSeq(p, 1, n)
  BY Stepped
<1>2. NodeAt(node, r) = NodeAt(KidAt(node, i), p)  BY NodeAtHead
<1>3. NodeAt(node, SubSeq(r, 1, 1 - 1)) = node
  <2>1. 1 - 1 = 0 /\ SubSeq(r, 1, 0) = <<>>  BY <1>1, SubSeqEmpty
  <2> QED  BY <2>1, NodeAtHere
<1>4. ASSUME NEW n \in 1..Len(p)
      PROVE  NodeAt(node, SubSeq(r, 1, (n + 1) - 1)) = NodeAt(KidAt(node, i), SubSeq(p, 1, n - 1))
  <2> DEFINE m == n - 1
  <2>1. m \in 0..Len(p) /\ m + 1 = (n + 1) - 1 /\ 1 \in 1..Len(p) + 1 /\ m \in 1 - 1..Len(p)  OBVIOUS
  <2> HIDE DEF m, r
  <2>2. SubSeq(r, 1, m + 1) = <<i>> \o SubSeq(p, 1, m)  BY <1>1, <2>1
  <2>3. SubSeq(p, 1, m) \in Seq(Nat)  BY <2>1, PartOf
  <2>4. NodeAt(node, <<i>> \o SubSeq(p, 1, m)) = NodeAt(KidAt(node, i), SubSeq(p, 1, m))
    BY <2>3, NodeAtHead
  <2> QED  BY <2>1, <2>2, <2>4 DEF m
<1> QED  BY <1>1, <1>2, <1>3, <1>4

\* find_path stops at a leaf or where the key is.
LEMMA LeadsHere ==
  ASSUME NEW node, NEW key
  PROVE  Leads(node, <<>>, key) <=> Found(key, node) \/ IsLeaf(node)
<1>1. Len(<<>>) = 0 /\ NodeAt(node, <<>>) = node  BY NodeAtHere
<1>2. \A n \in 1..0 : FALSE  OBVIOUS
<1> QED  BY <1>1, <1>2 DEF Leads

\* find_path goes on in the child find_index names.
LEMMA LeadsHead ==
  ASSUME NEW node, NEW i \in Nat, NEW p \in Seq(Nat), NEW key
  PROVE  Leads(node, <<i>> \o p, key)
           <=> ~Found(key, node) /\ i = find_index(key, node) /\ Leads(KidAt(node, i), p, key)
<1> DEFINE r == <<i>> \o p
           kid == KidAt(node, i)
           Right(x, q, n) == /\ ~Found(key, NodeAt(x, SubSeq(q, 1, n - 1)))
                             /\ q[n] = find_index(key, NodeAt(x, SubSeq(q, 1, n - 1)))
<1>1. /\ Len(r) = Len(p) + 1 /\ NodeAt(node, r) = NodeAt(kid, p)
      /\ r[1] = i /\ NodeAt(node, SubSeq(r, 1, 1 - 1)) = node
      /\ \A n \in 1..Len(p) :
           r[n + 1] = p[n] /\ NodeAt(node, SubSeq(r, 1, (n + 1) - 1)) = NodeAt(kid, SubSeq(p, 1, n - 1))
  BY Steps, SMTT(60)
<1>2. \A x, q : Leads(x, q, key) <=> /\ Found(key, NodeAt(x, q)) \/ IsLeaf(NodeAt(x, q))
                                     /\ \A n \in 1..Len(q) : Right(x, q, n)
  BY DEF Leads
<1>3. Len(p) \in Nat  OBVIOUS
<1> HIDE DEF r, kid
<1>4. Right(node, r, 1) <=> ~Found(key, node) /\ i = find_index(key, node)  BY <1>1
<1>5. ASSUME NEW n \in 1..Len(p) PROVE Right(node, r, n + 1) <=> Right(kid, p, n)  BY <1>1
<1>6. (\A n \in 1..Len(r) : Right(node, r, n))
        <=> Right(node, r, 1) /\ \A n \in 1..Len(p) : Right(node, r, n + 1)
  <2> HIDE DEF Right
  <2>1. 1 \in 1..Len(r) /\ \A n \in 1..Len(p) : n + 1 \in 1..Len(r)  BY <1>1, <1>3
  <2>2. ASSUME Right(node, r, 1), \A n \in 1..Len(p) : Right(node, r, n + 1), NEW n \in 1..Len(r)
        PROVE  Right(node, r, n)
    <3>1. CASE n = 1  BY <2>2, <3>1
    <3>2. CASE n # 1
      <4> DEFINE m == n - 1
      <4>1. m \in 1..Len(p) /\ m + 1 = n  BY <1>1, <1>3, <3>2
      <4> HIDE DEF m
      <4> QED  BY <2>2, <4>1
    <3> QED  BY <3>1, <3>2
  <2> QED  BY <2>1, <2>2
<1> HIDE DEF Right
<1>7. Leads(node, r, key)
        <=> /\ Found(key, NodeAt(kid, p)) \/ IsLeaf(NodeAt(kid, p))
            /\ Right(node, r, 1) /\ \A n \in 1..Len(p) : Right(node, r, n + 1)
  BY <1>1, <1>2, <1>6
<1>8. Leads(kid, p, key)
        <=> /\ Found(key, NodeAt(kid, p)) \/ IsLeaf(NodeAt(kid, p))
            /\ \A n \in 1..Len(p) : Right(kid, p, n)
  BY <1>2
<1>9. (\A n \in 1..Len(p) : Right(node, r, n + 1)) <=> \A n \in 1..Len(p) : Right(kid, p, n)
  BY <1>5
<1> QED  BY <1>4, <1>7, <1>8, <1>9 DEF r, kid

\* The last leaf of a leaf.
LEMMA EndsHere ==
  ASSUME NEW node
  PROVE  Ends(node, <<>>) <=> IsLeaf(node)
<1>1. Len(<<>>) = 0 /\ NodeAt(node, <<>>) = node  BY NodeAtHere
<1>2. \A n \in 1..0 : FALSE  OBVIOUS
<1> QED  BY <1>1, <1>2 DEF Ends

\* The last leaf is below the last child.
LEMMA EndsHead ==
  ASSUME NEW node, NEW i \in Nat, NEW p \in Seq(Nat)
  PROVE  Ends(node, <<i>> \o p) <=> i = Size(node) /\ Ends(KidAt(node, i), p)
<1> DEFINE r == <<i>> \o p
           kid == KidAt(node, i)
           Right(x, q, n) == q[n] = Size(NodeAt(x, SubSeq(q, 1, n - 1)))
<1>1. /\ Len(r) = Len(p) + 1 /\ NodeAt(node, r) = NodeAt(kid, p)
      /\ r[1] = i /\ NodeAt(node, SubSeq(r, 1, 1 - 1)) = node
      /\ \A n \in 1..Len(p) :
           r[n + 1] = p[n] /\ NodeAt(node, SubSeq(r, 1, (n + 1) - 1)) = NodeAt(kid, SubSeq(p, 1, n - 1))
  BY Steps
<1>2. \A x, q : Ends(x, q) <=> /\ IsLeaf(NodeAt(x, q))
                               /\ \A n \in 1..Len(q) : Right(x, q, n)
  BY DEF Ends
<1>3. Len(p) \in Nat  OBVIOUS
<1> HIDE DEF r, kid
<1>4. Right(node, r, 1) <=> i = Size(node)  BY <1>1
<1>5. ASSUME NEW n \in 1..Len(p) PROVE Right(node, r, n + 1) <=> Right(kid, p, n)  BY <1>1
<1>6. (\A n \in 1..Len(r) : Right(node, r, n))
        <=> Right(node, r, 1) /\ \A n \in 1..Len(p) : Right(node, r, n + 1)
  <2> HIDE DEF Right
  <2>1. 1 \in 1..Len(r) /\ \A n \in 1..Len(p) : n + 1 \in 1..Len(r)  BY <1>1, <1>3
  <2>2. ASSUME Right(node, r, 1), \A n \in 1..Len(p) : Right(node, r, n + 1), NEW n \in 1..Len(r)
        PROVE  Right(node, r, n)
    <3>1. CASE n = 1  BY <2>2, <3>1
    <3>2. CASE n # 1
      <4> DEFINE m == n - 1
      <4>1. m \in 1..Len(p) /\ m + 1 = n  BY <1>1, <1>3, <3>2
      <4> HIDE DEF m
      <4> QED  BY <2>2, <4>1
    <3> QED  BY <3>1, <3>2
  <2> QED  BY <2>1, <2>2
<1> HIDE DEF Right
<1> QED  BY <1>1, <1>2, <1>4, <1>5, <1>6 DEF r, kid

\* Induction on ways, from their first step.
LEMMA Ways ==
  ASSUME NEW Good, <<>> \in Good,
         \A i \in Nat : \A u \in Seq(Nat) : u \in Good => <<i>> \o u \in Good
  PROVE  \A p \in Seq(Nat) : p \in Good
<1> DEFINE Done == {n \in Nat : \A p \in Seq(Nat) : Len(p) = n => p \in Good}
<1>1. 0 \in Done
  <2>1. \A p \in Seq(Nat) : Len(p) = 0 => p = <<>>  OBVIOUS
  <2> QED  BY <2>1
<1>2. ASSUME NEW n \in Nat, n \in Done PROVE n + 1 \in Done
  <2>1. ASSUME NEW p \in Seq(Nat), Len(p) = n + 1 PROVE p \in Good
    <3>1. p # <<>>  BY <2>1
    <3> DEFINE i == p[1]
               u == Tail(p)
    <3>2. i \in Nat /\ u \in Seq(Nat) /\ p = <<i>> \o u /\ Len(p) = Len(u) + 1  BY <3>1, FirstStep
    <3> HIDE DEF i, u
    <3>3. Len(u) = n
      <4>1. Len(u) \in Nat  BY <3>2
      <4> QED  BY <2>1, <3>2, <4>1
    <3>4. u \in Good  BY <1>2, <3>2, <3>3
    <3>5. <<i>> \o u \in Good  BY <3>2, <3>4
    <3> QED  BY <3>2, <3>5
  <2> QED  BY <2>1
<1> HIDE DEF Done
<1>3. \A n \in Nat : n \in Done  BY <1>1, <1>2, Numbers
<1>4. ASSUME NEW p \in Seq(Nat) PROVE p \in Good
  <2>1. Len(p) \in Done  BY <1>3
  <2> QED  BY <2>1 DEF Done
<1> QED  BY <1>4

\* A child's number is in its bounds.
LEMMA KidBound ==
  ASSUME NEW W, NEW h, NEW node, NEW S, NEW e, In(W, h, node, S, e),
         NEW i \in Nat, i \in 0..Len(node.kids) - 1
  PROVE  i < Len(node.kids)
<1>1. h \in Nat  BY Facts
<1>2. Len(node.kids) \in Nat
  <2>1. CASE h = 0
    <3>1. node.kids = <<>> /\ Len(<<>>) = 0  BY <2>1, Facts DEF IsLeaf
    <3> QED  BY <3>1
  <2>2. CASE h # 0
    <3>1. Len(node.kids) = Size(node) + 1 /\ Size(node) \in Nat  BY <2>2, Facts
    <3> QED  BY <3>1
  <2> QED  BY <2>1, <2>2
<1> QED  BY <1>2

\* A key that is not in a node belongs below the child of its index, and nowhere else.
LEMMA Belongs ==
  ASSUME BTreeParameters, NEW node, NEW parts, Ordered(node.keys, parts),
         NEW key \in Key, ~Found(key, node)
  PROVE  /\ find_index(key, node) \in 0..Len(node.keys)
         /\ find_index(key, node) + 1 \in 1..Len(parts)
         /\ Fits(node.keys, find_index(key, node) + 1, parts[find_index(key, node) + 1] \cup {key})
         /\ key \in All(node.keys, parts) <=> key \in parts[find_index(key, node) + 1]
<1> DEFINE q == node.keys
           i == find_index(key, node)
<1>1. /\ q \in Seq(Key) /\ parts \in Seq(SUBSET Key) /\ Len(parts) = Len(q) + 1
      /\ \A a, b \in 1..Len(q) : a < b => q[a] < q[b]
      /\ \A a \in 1..Len(parts), b \in 1..Len(q) :
           \A x \in parts[a] : IF a <= b THEN x < q[b] ELSE q[b] < x
  BY DEF Ordered
<1>2. i \in 0..Len(q) /\ \A j \in 1..Len(q) : q[j] < key <=> j <= i
  <2>1. \A a, b \in 1..Len(q) : a < b => q[a] < q[b]  BY <1>1
  <2> QED  BY <1>1, <2>1, IndexIs
<1>3. \A j \in 1..Len(q) : q[j] # key
  <2>1. DOMAIN q = 1..Len(q)  BY <1>1
  <2> QED  BY <2>1 DEF Found
<1>4. Len(q) \in Nat  BY <1>1
<1>5. \A a, b \in 1..Len(q) : a < b => q[a] < q[b]  BY <1>1
<1>6. Key \subseteq Int /\ key \in Int  BY DEF BTreeParameters
<1>7. Ordered(q, parts)  OBVIOUS
<1> HIDE DEF q, i
<1> DEFINE g == i + 1
<1>8. g \in 1..Len(parts) /\ i \in Int  BY <1>1, <1>2, <1>4
<1>9. \A j \in 1..Len(q) : (g <= j => ~(j <= i)) /\ (~(g <= j) => j <= i)  BY <1>8
<1>10. ASSUME NEW j \in 1..Len(q) PROVE q[j] \in Int
  <2>1. q[j] \in Key  BY <1>1, ElementOfSeq
  <2> QED  BY <1>6, <2>1
<1>11. Fits(q, g, parts[g] \cup {key})
  <2>1. Fits(q, g, parts[g])
    <3> HIDE DEF g
    <3> QED  BY <1>7, <1>8, PartFits
  <2> HIDE DEF g
  <2>2. parts[g] \cup {key} \subseteq Key  BY <2>1 DEF Fits
  <2>3. ASSUME NEW x \in parts[g] \cup {key}, NEW j \in 1..Len(q)
        PROVE  IF g <= j THEN x < q[j] ELSE q[j] < x
    <3>1. CASE x \in parts[g]  BY <2>1, <2>3, <3>1 DEF Fits
    <3>2. CASE x = key
      <4>1. q[j] \in Int /\ q[j] # key /\ (q[j] < key <=> j <= i)  BY <1>2, <1>3, <1>10
      <4>2. q[j] < key \/ key < q[j]  BY <1>6, <4>1
      <4> QED  BY <1>9, <3>2, <4>1, <4>2
    <3> QED  BY <2>3, <3>1, <3>2
  <2> QED  BY <2>2, <2>3 DEF Fits
<1>12. ASSUME NEW j \in 1..Len(parts), key \in parts[j] PROVE j = g
  <2>1. \A b \in 1..Len(q) : (j <= b => key < q[b]) /\ (~(j <= b) => q[b] < key)  BY <1>1, <1>12
  <2>2. CASE j < g
    <3>1. i \in 1..Len(q) /\ j <= i /\ i <= i  BY <1>1, <1>2, <1>4, <1>8, <2>2
    <3>2. key < q[i] /\ q[i] < key /\ q[i] \in Int  BY <1>2, <1>10, <2>1, <3>1
    <3> QED  BY <1>6, <3>2
  <2>3. CASE g < j
    <3>1. g \in 1..Len(q) /\ ~(j <= g) /\ ~(g <= i)  BY <1>1, <1>2, <1>4, <1>8, <2>3
    <3> HIDE DEF g
    <3>2. q[g] < key  BY <2>1, <3>1
    <3> QED  BY <1>2, <3>1, <3>2
  <2> QED  BY <1>8, <2>2, <2>3
<1> HIDE DEF g
<1>13. key \in All(q, parts) <=> key \in parts[g]
  <2>1. key \in All(q, parts) <=> \/ \E a \in 1..Len(q) : key = q[a]
                                  \/ \E a \in 1..Len(parts) : key \in parts[a]
    BY <1>7, AllIs
  <2> QED  BY <1>3, <1>8, <1>12, <2>1
<1> QED  BY <1>2, <1>8, <1>11, <1>13 DEF q, i, g

\* The way to a key ends at it, if the tree has it.
LEMMA FoundIs ==
  ASSUME BTreeParameters, NEW W, NEW h, NEW node, NEW S, NEW e, In(W, h, node, S, e), NEW key \in Key,
         NEW p \in Seq(Nat), Real(node, p), Leads(node, p, key)
  PROVE  Found(key, NodeAt(node, p)) <=> key \in S
<1> DEFINE Claim(s) == \A g, x, T, f : In(W, g, x, T, f) /\ Real(x, s) /\ Leads(x, s, key)
                                         => (Found(key, NodeAt(x, s)) <=> key \in T)
           Good == {s \in Seq(Nat) : Claim(s)}
<1>1. <<>> \in Good
  <2>1. ASSUME NEW g, NEW x, NEW T, NEW f, In(W, g, x, T, f), Leads(x, <<>>, key)
        PROVE  Found(key, NodeAt(x, <<>>)) <=> key \in T
    <3>1. NodeAt(x, <<>>) = x /\ (Found(key, x) \/ IsLeaf(x))  BY <2>1, NodeAtHere, LeadsHere
    <3>2. PICK parts : Holds(W, g, x, parts, f) /\ T = All(x.keys, parts)  BY <2>1, InHolds
    <3>3. Ordered(x.keys, parts) /\ x.keys \in Seq(Key)  BY <3>2 DEF Holds, Ordered
    <3>4. DOMAIN x.keys = 1..Len(x.keys)  BY <3>3
    <3>5. Found(key, x) <=> \E j \in 1..Len(x.keys) : key = x.keys[j]  BY <3>4 DEF Found
    <3>6. Found(key, x) => key \in T  BY <3>2, <3>3, <3>5, AllIs
    <3>7. ASSUME IsLeaf(x), key \in T PROVE Found(key, x)
      <4>1. g = 0  BY <2>1, <3>7, Facts
      <4>2. \A j \in 1..Len(parts) : parts[j] = {}  BY <3>2, <4>1 DEF Holds
      <4>3. \/ \E j \in 1..Len(x.keys) : key = x.keys[j]
            \/ \E j \in 1..Len(parts) : key \in parts[j]
        BY <3>2, <3>3, <3>7, AllIs
      <4> QED  BY <3>5, <4>2, <4>3
    <3> QED  BY <3>1, <3>6, <3>7
  <2> QED  BY <2>1
<1>2. ASSUME NEW i \in Nat, NEW u \in Seq(Nat), u \in Good PROVE <<i>> \o u \in Good
  <2> DEFINE s == <<i>> \o u
  <2>1. s \in Seq(Nat)  BY Stepped
  <2>2. Claim(u)  BY <1>2
  <2>3. ASSUME NEW g, NEW x, NEW T, NEW f, In(W, g, x, T, f), Real(x, s), Leads(x, s, key)
        PROVE  Found(key, NodeAt(x, s)) <=> key \in T
    <3> DEFINE kid == KidAt(x, i)
    <3>1. ~Found(key, x) /\ i = find_index(key, x) /\ Leads(kid, u, key)  BY <2>3, LeadsHead
    <3>2. i \in 0..Len(x.kids) - 1 /\ Real(kid, u)  BY <2>3, RealHead
    <3>3. i < Len(x.kids)  BY <2>3, <3>2, KidBound
    <3>4. NodeAt(x, s) = NodeAt(kid, u)  BY NodeAtHead
    <3> HIDE DEF s
    <3>5. PICK parts : /\ T = All(x.keys, parts) /\ Ordered(x.keys, parts)
                       /\ In(W, g - 1, kid, parts[i + 1], Below(f, i + 1))
      BY <2>3, <3>3, ChildIn
    <3>6. key \in T <=> key \in parts[i + 1]  BY <3>1, <3>5, Belongs
    <3> HIDE DEF kid
    <3>7. Found(key, NodeAt(kid, u)) <=> key \in parts[i + 1]  BY <2>2, <3>1, <3>2, <3>5
    <3> QED  BY <3>4, <3>6, <3>7
  <2> HIDE DEF s
  <2>4. Claim(s)  BY <2>3
  <2>5. s \in Good  BY <2>1, <2>4
  <2> QED  BY <2>5 DEF s
<1> HIDE DEF Good
<1>3. p \in Good  BY <1>1, <1>2, Ways
<1>4. Claim(p)  BY <1>3 DEF Good
<1> QED  BY <1>4

\* There is a way to every key.
LEMMA LeadsExists ==
  ASSUME BTreeParameters, NEW W, NEW h, NEW node, NEW S, NEW e, In(W, h, node, S, e), NEW key \in Key
  PROVE  \E p \in Seq(Nat) : Real(node, p) /\ Leads(node, p, key)
<1> DEFINE Goal(x) == \E p \in Seq(Nat) : Real(x, p) /\ Leads(x, p, key)
           Claim(n) == \A x, T, f : In(W, n, x, T, f) => Goal(x)
           Good == {n \in Nat : Claim(n)}
<1>1. ASSUME NEW n \in Nat, NEW x, NEW T, NEW f, In(W, n, x, T, f), n = 0 \/ Claim(n - 1)
      PROVE  Goal(x)
  <2>1. CASE Found(key, x) \/ IsLeaf(x)
    <3>1. <<>> \in Seq(Nat) /\ Real(x, <<>>) /\ Leads(x, <<>>, key)  BY <2>1, RealHere, LeadsHere
    <3> QED  BY <3>1
  <2>2. CASE ~Found(key, x) /\ ~IsLeaf(x)
    <3> DEFINE i == find_index(key, x)
               kid == KidAt(x, i)
    <3>1. n # 0 /\ Len(x.kids) = Size(x) + 1 /\ Size(x) = Len(x.keys) /\ Size(x) \in Nat
      BY <1>1, <2>2, Facts
    <3>2. PICK parts : Holds(W, n, x, parts, f)  BY <1>1, InHolds
    <3>3. Ordered(x.keys, parts)  BY <3>2 DEF Holds
    <3>4. i \in 0..Len(x.keys)  BY <2>2, <3>3, Belongs
    <3> HIDE DEF i, kid
    <3>5. i \in Nat /\ i \in 0..Len(x.kids) - 1 /\ i < Len(x.kids)  BY <3>1, <3>4
    <3>6. \E P, r : In(W, n - 1, kid, P, r)  BY <1>1, <3>5, ChildIn DEF kid
    <3>7. Goal(kid)  BY <1>1, <3>1, <3>6
    <3>8. PICK u \in Seq(Nat) : Real(kid, u) /\ Leads(kid, u, key)  BY <3>7
    <3>9. <<i>> \o u \in Seq(Nat)  BY <3>5, Stepped
    <3>10. Real(x, <<i>> \o u)  BY <3>5, <3>8, RealHead DEF kid
    <3>11. Leads(x, <<i>> \o u, key)
      <4>1. i = find_index(key, x)  BY DEF i
      <4>2. Leads(x, <<i>> \o u, key)
              <=> ~Found(key, x) /\ i = find_index(key, x) /\ Leads(KidAt(x, i), u, key)
        BY <3>5, LeadsHead
      <4> QED  BY <2>2, <3>8, <4>1, <4>2 DEF kid
    <3> QED  BY <3>9, <3>10, <3>11
  <2> QED  BY <2>1, <2>2
<1>2. 0 \in Good  BY <1>1
<1>3. ASSUME NEW n \in Nat, n \in Good PROVE n + 1 \in Good
  <2> DEFINE m == n + 1
  <2>1. m \in Nat /\ m - 1 = n  OBVIOUS
  <2> HIDE DEF m
  <2>2. Claim(m - 1)  BY <1>3, <2>1
  <2>3. Claim(m)  BY <1>1, <2>1, <2>2
  <2>4. m \in Good  BY <2>1, <2>3
  <2> QED  BY <2>4 DEF m
<1> HIDE DEF Good
<1>4. \A n \in Nat : n \in Good  BY <1>2, <1>3, Numbers
<1>5. h \in Nat  BY Facts
<1>6. Claim(h)  BY <1>4, <1>5 DEF Good
<1> QED  BY <1>6

\* find_path returns it.
LEMMA PathLeads ==
  ASSUME BTreeParameters, NEW W, NEW h, NEW node, NEW S, NEW e, In(W, h, node, S, e), NEW key \in Key
  PROVE  /\ find_path(node, key) \in Seq(Nat) /\ Real(node, find_path(node, key))
         /\ Leads(node, find_path(node, key), key)
         /\ Found(key, NodeAt(node, find_path(node, key))) <=> key \in S
<1>1. Paths(node) = {p \in Seq(Nat) : Real(node, p)}  BY PathsOf
<1>2. PICK p \in Seq(Nat) : Real(node, p) /\ Leads(node, p, key)  BY LeadsExists
<1>3. p \in Paths(node) /\ Leads(node, p, key)  BY <1>1, <1>2
<1> DEFINE q == find_path(node, key)
<1>4. q \in Paths(node) /\ Leads(node, q, key)  BY <1>3 DEF find_path
<1> HIDE DEF q
<1>5. q \in Seq(Nat) /\ Real(node, q)  BY <1>1, <1>4
<1>6. Found(key, NodeAt(node, q)) <=> key \in S  BY <1>4, <1>5, FoundIs
<1> QED  BY <1>4, <1>5, <1>6 DEF q

\* There is nothing between the keys of a leaf.
Bare(parts) == \A j \in 1..Len(parts) : parts[j] = {}

\* A leaf holds its keys.
LEMMA LeafIs ==
  ASSUME NEW W, NEW keys, NEW parts, Ordered(keys, parts), Bare(parts)
  PROVE  In(W, 0, [keys |-> keys, kids |-> <<>>], All(keys, parts), <<>>)
<1> DEFINE node == [keys |-> keys, kids |-> <<>>]
<1>1. node.keys = keys /\ node.kids = <<>> /\ node = [keys |-> node.keys, kids |-> node.kids]
  OBVIOUS
<1> HIDE DEF node
<1>2. Holds(W, 0, node, parts, <<>>)  BY <1>1, FullHolds DEF Bare
<1>3. In(W, 0, node, All(node.keys, parts), <<>>)  BY <1>2, HoldsIn
<1> QED  BY <1>1, <1>3 DEF node

\* A leaf has nothing below its keys.
LEMMA LeafHolds ==
  ASSUME NEW W, NEW node, NEW S, NEW e, In(W, 0, node, S, e)
  PROVE  /\ node = [keys |-> node.keys, kids |-> <<>>] /\ e = <<>>
         /\ \E parts : Ordered(node.keys, parts) /\ S = All(node.keys, parts) /\ Bare(parts)
<1>1. PICK parts : Holds(W, 0, node, parts, e) /\ S = All(node.keys, parts)  BY InHolds
<1>2. /\ node = [keys |-> node.keys, kids |-> node.kids] /\ node.kids = <<>> /\ e = <<>>
      /\ Ordered(node.keys, parts) /\ Bare(parts)
  BY <1>1 DEF Holds, Bare
<1> QED  BY <1>1, <1>2

\* The empty tree.
LEMMA NilHolds ==
  ASSUME NEW W
  PROVE  In(W, 0, Nil, {}, <<>>)
<1>1. Ordered(<<>>, <<{}>>) /\ All(<<>>, <<{}>>) = {}  BY NoneOrdered
<1>2. Bare(<<{}>>)
  <2>1. Len(<<{}>>) = 1 /\ <<{}>>[1] = {} /\ \A j \in 1..1 : j = 1  OBVIOUS
  <2> QED  BY <2>1 DEF Bare
<1>3. In(W, 0, [keys |-> <<>>, kids |-> <<>>], All(<<>>, <<{}>>), <<>>)  BY <1>1, <1>2, LeafIs
<1> QED  BY <1>1, <1>3 DEF Nil

\* A place for a key among others.
Entry(keys, key, k, rk) ==
  /\ key \in Key /\ k \in Nat /\ k \in 0..Len(keys) /\ Fits(keys, k + 1, {key})
  /\ rk \in Seq(Key) /\ Instead(keys, k, 0, <<key>>, rk)

\* insert_array on a leaf keeps its keys in order.
LEMMA LeafWith ==
  ASSUME BTreeParameters, NEW keys, NEW parts, Ordered(keys, parts), Bare(parts),
         NEW key, NEW k, NEW rk, Entry(keys, key, k, rk)
  PROVE  \E rp : Ordered(rk, rp) /\ All(rk, rp) = All(keys, parts) \cup {key} /\ Bare(rp)
<1> DEFINE g == k + 1
           B == {key}
           mid == [parts EXCEPT ![g] = B]
           ck == <<key>>
           cp == <<{}, {}>>
           m == 0
<1>0. /\ key \in Key /\ k \in Nat /\ k \in 0..Len(keys) /\ Fits(keys, k + 1, {key})
      /\ rk \in Seq(Key) /\ Instead(keys, k, 0, <<key>>, rk)
  BY DEF Entry
<1>1. keys \in Seq(Key) /\ parts \in Seq(SUBSET Key) /\ Len(parts) = Len(keys) + 1 /\ Len(keys) \in Nat
  BY DEF Ordered
<1>2. g \in 1..Len(parts) /\ g \in Nat  BY <1>0, <1>1
<1>3. Fits(keys, g, B) /\ B \subseteq Key  BY <1>0
<1>4. \A x : x \in B <=> x = key  OBVIOUS
<1>5. Ordered(ck, cp) /\ All(ck, cp) = B
  <2>1. {} \in SUBSET Key /\ (\A x \in {} : x < key) /\ (\A x \in {} : key < x)  OBVIOUS
  <2>2. Ordered(<<key>>, <<{}, {}>>) /\ All(<<key>>, <<{}, {}>>) = {} \cup {key} \cup {}
    BY <1>0, <2>1, OneOrdered
  <2> QED  BY <2>2
<1>6. cp \in Seq(SUBSET Key) /\ Len(cp) = 2 /\ Len(ck) = 1 /\ cp[1] = {} /\ cp[2] = {}  OBVIOUS
<1>7. Instead(keys, k, m, ck, rk) /\ m \in Nat /\ k + m <= Len(keys)  BY <1>0, <1>1
<1> HIDE DEF B, g
<1>8. Ordered(keys, mid)  BY <1>2, <1>3, PartReplaced
<1>9. All(keys, mid) = All(keys, parts) \cup B
  <2>1. All(keys, mid) = (All(keys, parts) \ parts[g]) \cup B  BY <1>2, <1>3, PartReplaced
  <2>2. parts[g] = {}  BY <1>2 DEF Bare
  <2> QED  BY <2>1, <2>2
<1>10. Len(mid) = Len(parts) /\ mid \in Seq(SUBSET Key) /\ mid[g] = B
       /\ \A j \in 1..Len(parts) : j # g => mid[j] = {}
  <2>1. Len(mid) = Len(parts) /\ mid \in Seq(SUBSET Key)  BY <1>1, <1>2, <1>3
  <2>2. mid[g] = B  BY <1>1, <1>2
  <2>3. \A j \in 1..Len(parts) : j # g => mid[j] = {}  BY <1>1, <1>2 DEF Bare
  <2> QED  BY <2>1, <2>2, <2>3
<1> HIDE DEF mid, ck, cp, m
<1>11. PICK rp \in Seq(SUBSET Key) : Instead(mid, k, m + 1, cp, rp)
  <2>1. m + 1 \in Nat /\ k + (m + 1) <= Len(mid)  BY <1>0, <1>1, <1>2, <1>10 DEF m
  <2> QED  BY <1>0, <1>6, <1>10, <2>1, InsteadExists
<1>12. Covers(keys, mid, k, m, ck, cp)
  <2>1. \A j \in 1..m : FALSE  BY DEF m
  <2>2. \A x : (\E j \in 1..m + 1 : x \in mid[k + j]) <=> x \in mid[k + 1]
    <3>1. 1 \in 1..m + 1 /\ \A j \in 1..m + 1 : j = 1  BY DEF m
    <3> QED  BY <3>1
  <2> QED  BY <1>5, <1>10, <2>1, <2>2 DEF Covers, g
<1>13. Ordered(rk, rp)  BY <1>0, <1>5, <1>7, <1>8, <1>11, <1>12, InsteadOrdered
<1>14. All(rk, rp) = All(keys, mid)  BY <1>0, <1>5, <1>7, <1>8, <1>11, <1>12, InsteadOrdered
<1>15. \A j \in 1..Len(rp) : rp[j] = {}
  <2> DEFINE z == Len(parts) - g
  <2>1. z \in Nat /\ Len(rp) = k + 2 + z /\ Len(mid) - (m + 1) - k = z
    BY <1>0, <1>1, <1>2, <1>6, <1>10, <1>11 DEF Instead, m, g
  <2>2. /\ \A j \in 1..k : rp[j] = mid[j]
        /\ \A j \in 1..2 : rp[k + j] = cp[j]
        /\ \A j \in 1..z : rp[k + 2 + j] = mid[k + (m + 1) + j]
    BY <1>6, <1>11, <2>1 DEF Instead
  <2>3. \A j \in 1..k : j \in 1..Len(parts) /\ j # g  BY <1>0, <1>1 DEF g
  <2>4. \A j \in 1..z : k + (m + 1) + j \in 1..Len(parts) /\ k + (m + 1) + j # g
    BY <1>0, <1>1, <1>2 DEF g, m
  <2>5. \A j \in 1..2 : j = 1 \/ j = 2  OBVIOUS
  <2> HIDE DEF z
  <2>6. ASSUME NEW a \in 1..Len(rp) PROVE rp[a] = {}
    <3> DEFINE l == 2
    <3>1. a \in 1..k + l + z /\ l \in Nat  BY <2>1
    <3> HIDE DEF l
    <3>2. \/ a \in 1..k
          \/ \E j \in 1..l : a = k + j
          \/ \E j \in 1..z : a = k + l + j
      BY <1>0, <2>1, <3>1, Places
    <3>3. CASE a \in 1..k  BY <1>10, <2>2, <2>3, <3>3
    <3>4. CASE \E j \in 1..2 : a = k + j  BY <1>6, <2>2, <2>5, <3>4
    <3>5. CASE \E j \in 1..z : a = k + 2 + j  BY <1>10, <2>2, <2>4, <3>5
    <3> QED  BY <3>2, <3>3, <3>4, <3>5 DEF l
  <2> QED  BY <2>6
<1> QED  BY <1>9, <1>13, <1>14, <1>15 DEF B, Bare

\* A leaf with a key more.
LEMMA LeafInsert ==
  ASSUME BTreeParameters, NEW W, NEW node, NEW S, NEW e, In(W, 0, node, S, e),
         NEW key \in Key, ~Found(key, node)
  PROVE  /\ In(W, 0, insert_array(node, key, find_index(key, node)), S \cup {key}, <<>>)
         /\ Size(insert_array(node, key, find_index(key, node))) = Size(node) + 1
<1> DEFINE k == find_index(key, node)
           keys == node.keys
           rk == InsertAt(keys, k + 1, key)
<1>1. node = [keys |-> keys, kids |-> <<>>]  BY LeafHolds
<1>2. PICK parts : Ordered(keys, parts) /\ S = All(keys, parts) /\ Bare(parts)
  BY LeafHolds
<1>3. k \in 0..Len(keys) /\ k + 1 \in 1..Len(parts) /\ Fits(keys, k + 1, parts[k + 1] \cup {key})
  BY <1>2, Belongs
<1>4. insert_array(node, key, k) = [keys |-> rk, kids |-> <<>>]
  <2> HIDE DEF k
  <2>1. insert_array(node, key, k) = [node EXCEPT !.keys = rk]  BY DEF insert_array
  <2> HIDE DEF rk, keys
  <2> QED  BY <1>1, <2>1
<1>5. keys \in Seq(Key) /\ Len(keys) \in Nat  BY <1>2 DEF Ordered
<1> HIDE DEF k, keys
<1>6. k \in Nat /\ Fits(keys, k + 1, {key})
  <2> DEFINE g == k + 1
  <2>1. k \in Nat /\ g \in 1..Len(parts) /\ Fits(keys, g, parts[g] \cup {key})  BY <1>3, <1>5
  <2> HIDE DEF g
  <2>2. parts[g] = {}  BY <1>2, <2>1 DEF Bare
  <2>3. parts[g] \cup {key} = {key}  BY <2>2
  <2>4. Fits(keys, g, {key})  BY <2>1, <2>3
  <2> QED  BY <2>1, <2>4 DEF g
<1>7. rk \in Seq(Key) /\ Instead(keys, k, 0, <<key>>, rk)  BY <1>3, <1>5, OneForNone
<1>8. Len(rk) = Len(keys) + 1
  <2>1. Len(rk) = Len(keys) - 0 + Len(<<key>>) /\ Len(<<key>>) = 1  BY <1>7 DEF Instead
  <2> QED  BY <1>5, <2>1
<1> HIDE DEF rk
<1>9. PICK rp : Ordered(rk, rp) /\ All(rk, rp) = All(keys, parts) \cup {key} /\ Bare(rp)
  <2>1. Entry(keys, key, k, rk)  BY <1>3, <1>6, <1>7 DEF Entry
  <2> QED  BY <1>2, <2>1, LeafWith
<1>10. In(W, 0, [keys |-> rk, kids |-> <<>>], All(rk, rp), <<>>)  BY <1>9, LeafIs
<1>11. Size(node) = Len(keys) /\ Size([keys |-> rk, kids |-> <<>>]) = Len(rk)  BY DEF Size, keys
<1> QED  BY <1>2, <1>4, <1>8, <1>9, <1>10, <1>11 DEF k

\* A leaf without one of its keys keeps the others in order.
LEMMA LeafLess ==
  ASSUME BTreeParameters, NEW keys, NEW parts, Ordered(keys, parts), Bare(parts),
         NEW j \in 0..Len(keys) - 1, NEW rk, rk \in Seq(Key), Instead(keys, j, 1, <<>>, rk)
  PROVE  \E rp : Ordered(rk, rp) /\ All(rk, rp) = All(keys, parts) \ {keys[j + 1]} /\ Bare(rp)
<1> DEFINE g == j + 1
           B == {keys[g]}
           ck == <<>>
           cp == <<B>>
           m == 1
<1>1. keys \in Seq(Key) /\ parts \in Seq(SUBSET Key) /\ Len(parts) = Len(keys) + 1 /\ Len(keys) \in Nat
  BY DEF Ordered
<1>2. j \in Nat /\ g \in 1..Len(keys) /\ m \in Nat /\ j + m <= Len(keys) /\ g \in 1..Len(parts)
      /\ g + 1 \in 1..Len(parts) /\ j + 2 = g + 1
  BY <1>1
<1>a. Instead(keys, j, m, ck, rk) /\ j + 1 = g  OBVIOUS
<1> HIDE DEF g
<1>3. B \in SUBSET Key /\ \A x : x \in B <=> x = keys[g]  BY <1>1, <1>2, ElementOfSeq
<1> HIDE DEF B
<1>4. Ordered(ck, cp) /\ All(ck, cp) = B  BY <1>3, NoneOrdered
<1>5. cp \in Seq(SUBSET Key) /\ Len(cp) = 1 /\ Len(ck) = 0 /\ cp[1] = B  BY <1>3
<1> HIDE DEF ck, cp, m
<1>6. PICK rp \in Seq(SUBSET Key) : Instead(parts, j, m + 1, cp, rp)
  <2>1. m + 1 \in Nat /\ j + (m + 1) <= Len(parts)  BY <1>1, <1>2 DEF m
  <2> QED  BY <1>1, <1>2, <1>5, <2>1, InsteadExists
<1>7. Covers(keys, parts, j, m, ck, cp)
  <2>1. \A x : (\E l \in 1..m : x = keys[j + l]) <=> x = keys[g]
    <3>1. 1 \in 1..m /\ \A l \in 1..m : l = 1  BY DEF m
    <3> QED  BY <1>a, <3>1
  <2>2. \A x : (\E l \in 1..m + 1 : x \in parts[j + l]) => FALSE
    <3>1. \A l \in 1..m + 1 : j + l \in 1..Len(parts)
      <4>1. \A l \in 1..m + 1 : l = 1 \/ l = 2  BY DEF m
      <4> QED  BY <1>2, <1>a, <4>1
    <3> QED  BY <3>1 DEF Bare
  <2> QED  BY <1>3, <1>4, <2>1, <2>2 DEF Covers
<1>8. Ordered(rk, rp)  BY <1>2, <1>4, <1>6, <1>7, <1>a, InsteadOrdered
<1>9. All(rk, rp) = All(keys, parts)  BY <1>2, <1>4, <1>6, <1>7, <1>a, InsteadOrdered
<1> DEFINE z == Len(keys) - g
<1>10. z \in Nat /\ Len(rp) = j + 1 + z /\ g \in 1..Len(rp) /\ Len(parts) - (m + 1) - j = z
  BY <1>1, <1>2, <1>5, <1>6, <1>a, SMTT(60) DEF Instead, m
<1>11. rp[g] = B
  <2>1. \A l \in 1..1 : rp[j + l] = cp[l]  BY <1>5, <1>6 DEF Instead
  <2> QED  BY <1>5, <1>a, <2>1
<1>12. \A a \in 1..Len(rp) : a # g => rp[a] = {}
  <2>1. /\ \A l \in 1..j : rp[l] = parts[l]
        /\ \A l \in 1..z : rp[j + 1 + l] = parts[j + (m + 1) + l]
    BY <1>5, <1>6, <1>10, SMTT(60) DEF Instead
  <2>2. \A l \in 1..j : l \in 1..Len(parts)  BY <1>1
  <2>3. \A l \in 1..z : j + (m + 1) + l \in 1..Len(parts)
    BY <1>1, <1>2, <1>a DEF m
  <2>4. \A l \in 1..1 : j + l = g  BY <1>a
  <2> HIDE DEF z
  <2>5. ASSUME NEW a \in 1..Len(rp), a # g PROVE rp[a] = {}
    <3> DEFINE l1 == 1
    <3>1. a \in 1..j + l1 + z /\ l1 \in Nat  BY <1>10
    <3> HIDE DEF l1
    <3>2. \/ a \in 1..j
          \/ \E l \in 1..l1 : a = j + l
          \/ \E l \in 1..z : a = j + l1 + l
      BY <1>2, <1>10, <3>1, Places
    <3>3. CASE a \in 1..j  BY <2>1, <2>2, <3>3 DEF Bare
    <3>4. ~ \E l \in 1..1 : a = j + l  BY <2>4, <2>5
    <3>5. CASE \E l \in 1..z : a = j + 1 + l  BY <2>1, <2>3, <3>5 DEF Bare
    <3> QED  BY <3>2, <3>3, <3>4, <3>5 DEF l1
  <2> QED  BY <2>5
<1> HIDE DEF z
<1> DEFINE N == {}
           fin == [rp EXCEPT ![g] = N]
<1>13. Fits(rk, g, N) /\ N = {}
  <2>1. g \in 1..Len(rp) /\ N \in SUBSET rp[g]  BY <1>10
  <2> HIDE DEF N
  <2> QED  BY <1>8, <2>1, PartFits DEF N
<1>14. Len(fin) = Len(rp) /\ \A a \in 1..Len(rp) : fin[a] = {}  BY <1>10, <1>12
<1> HIDE DEF N
<1>b. g \in 1..Len(rp) /\ Fits(rk, g, N)  BY <1>10, <1>13
<1>15. Ordered(rk, fin)  BY <1>8, <1>b, PartReplaced
<1>16. All(rk, fin) = (All(rk, rp) \ rp[g]) \cup N  BY <1>8, <1>b, PartReplaced
<1> HIDE DEF fin
<1>17. All(rk, fin) = All(keys, parts) \ {keys[g]}  BY <1>9, <1>11, <1>13, <1>16 DEF B
<1>18. Bare(fin)  BY <1>14 DEF Bare
<1> QED  BY <1>15, <1>17, <1>18, <1>a

\* A leaf without one of its keys.
LEMMA LeafWithout ==
  ASSUME BTreeParameters, NEW W, NEW node, NEW S, NEW e, In(W, 0, node, S, e),
         NEW j \in 0..Size(node) - 1
  PROVE  /\ In(W, 0, WithoutKey(node, j), S \ {KeyAt(node, j)}, <<>>)
         /\ Size(WithoutKey(node, j)) = Size(node) - 1
         /\ KeyAt(node, j) \in S
<1> DEFINE keys == node.keys
           rk == RemoveAt(keys, j + 1)
<1>1. node = [keys |-> keys, kids |-> <<>>]  BY LeafHolds
<1>2. PICK parts : Ordered(keys, parts) /\ S = All(keys, parts) /\ Bare(parts)
  BY LeafHolds
<1>3. WithoutKey(node, j) = [keys |-> rk, kids |-> <<>>]
  <2>1. WithoutKey(node, j) = [node EXCEPT !.keys = rk]  BY DEF WithoutKey
  <2> HIDE DEF rk, keys
  <2> QED  BY <1>1, <2>1
<1>4. keys \in Seq(Key) /\ Len(keys) \in Nat /\ Size(node) = Len(keys) /\ KeyAt(node, j) = keys[j + 1]
  BY <1>2 DEF Ordered, Size, KeyAt
<1> HIDE DEF keys
<1>5. j \in 0..Len(keys) - 1 /\ j + 1 \in 1..Len(keys)  BY <1>4
<1>6. rk \in Seq(Key) /\ Instead(keys, j, 1, <<>>, rk)  BY <1>4, <1>5, NoneForOne
<1>7. Len(rk) = Len(keys) - 1
  <2>1. Len(rk) = Len(keys) - 1 + Len(<<>>) /\ Len(<<>>) = 0  BY <1>6 DEF Instead
  <2> QED  BY <1>4, <2>1
<1> HIDE DEF rk
<1>8. PICK rp : Ordered(rk, rp) /\ All(rk, rp) = All(keys, parts) \ {keys[j + 1]} /\ Bare(rp)
  BY <1>2, <1>5, <1>6, LeafLess
<1>9. In(W, 0, [keys |-> rk, kids |-> <<>>], All(rk, rp), <<>>)  BY <1>8, LeafIs
<1>10. Size([keys |-> rk, kids |-> <<>>]) = Len(rk)  BY DEF Size
<1>11. keys[j + 1] \in All(keys, parts)  BY <1>2, <1>5, AllHas
<1> QED  BY <1>2, <1>3, <1>4, <1>7, <1>8, <1>9, <1>10, <1>11

\* A node with another child in the place of one.
LEMMA Replaced ==
  ASSUME BTreeParameters, NEW W, NEW h \in Nat, NEW node, NEW parts, NEW i \in Nat, NEW r \in Seq(Nat),
         Holds(W, h + 1, node, parts, <<i>> \o r),
         NEW kid, NEW B, NEW q, In(W, h, kid, B, q), q = <<>> \/ Size(kid) \in W,
         Fits(node.keys, i + 1, B)
  PROVE  /\ In(W, h + 1, WithKid(node, i, kid), (All(node.keys, parts) \ parts[i + 1]) \cup B, <<i>> \o q)
         /\ Size(WithKid(node, i, kid)) = Size(node)
<1> DEFINE H == h + 1
           keys == node.keys
           res == [keys |-> keys, kids |-> [node.kids EXCEPT ![i + 1] = kid]]
           g == i + 1
           now == [parts EXCEPT ![g] = B]
<1>1. Headed(W, h, node, parts, i, r)  BY HeadHolds
<1>2. node = [keys |-> node.keys, kids |-> node.kids]  BY <1>1 DEF Headed
<1>3. Ordered(node.keys, parts) /\ i \in 0..Len(node.keys)  BY <1>1 DEF Headed
<1>4. WithKid(node, i, kid) = res
  <2>1. WithKid(node, i, kid) = [node EXCEPT !.kids[i + 1] = kid]  BY DEF WithKid
  <2> QED  BY <1>2, <2>1
<1>5. res.keys = node.keys /\ Size(res) = Size(node)  BY DEF Size
<1>6. g \in 1..Len(parts) /\ Fits(keys, g, B)
  <2>1. Len(parts) = Len(keys) + 1 /\ Len(keys) \in Nat  BY <1>3 DEF Ordered
  <2> QED  BY <1>3, <2>1
<1>a. Len(keys) = Len(node.keys) /\ Ordered(keys, parts)  BY <1>3
<1> HIDE DEF g
<1>7. Ordered(keys, now)  BY <1>6, <1>a, PartReplaced
<1>8. All(keys, now) = (All(keys, parts) \ parts[g]) \cup B  BY <1>6, <1>a, PartReplaced
<1> HIDE DEF keys
<1>9. Holds(W, h + 1, res, now, <<i>> \o q)  BY <1>7, <1>a, KidReplaced DEF g
<1> HIDE DEF res, now
<1>10. In(W, h + 1, res, All(res.keys, now), <<i>> \o q)  BY <1>9, HoldsIn
<1> QED  BY <1>4, <1>5, <1>8, <1>10 DEF keys, g

\* A child of a node without an exempted path.
LEMMA ChildFull ==
  ASSUME NEW W, NEW H, NEW node, NEW S, In(W, H, node, S, <<>>), NEW i \in Nat, i < Len(node.kids)
  PROVE  \E parts :
           /\ Holds(W, H, node, parts, <<>>) /\ S = All(node.keys, parts)
           /\ In(W, H - 1, KidAt(node, i), parts[i + 1], <<>>) /\ Size(KidAt(node, i)) \in W
           /\ Ordered(node.keys, parts) /\ i + 1 \in 1..Len(parts) /\ Len(parts) = Len(node.keys) + 1
           /\ H \in Nat \ {0}
<1>1. \A e : In(W, H, node, S, e) =>
        \E parts :
          /\ H \in Nat \ {0} /\ Holds(W, H, node, parts, e) /\ S = All(node.keys, parts)
          /\ i + 1 \in 1..Len(parts) /\ Len(parts) = Len(node.keys) + 1 /\ Len(node.kids) = Len(parts)
          /\ In(W, H - 1, KidAt(node, i), parts[i + 1], Below(e, i + 1))
          /\ e = <<i>> \/ Size(KidAt(node, i)) \in W
          /\ parts[i + 1] \subseteq S /\ Ordered(node.keys, parts)
  BY ChildIn
<1>2. PICK parts :
        /\ H \in Nat \ {0} /\ Holds(W, H, node, parts, <<>>) /\ S = All(node.keys, parts)
        /\ i + 1 \in 1..Len(parts) /\ Len(parts) = Len(node.keys) + 1 /\ Len(node.kids) = Len(parts)
        /\ In(W, H - 1, KidAt(node, i), parts[i + 1], Below(<<>>, i + 1))
        /\ <<>> = <<i>> \/ Size(KidAt(node, i)) \in W
        /\ parts[i + 1] \subseteq S /\ Ordered(node.keys, parts)
  BY <1>1
<1>3. Below(<<>>, i + 1) = <<>> /\ <<>> # <<i>>  BY DEF Below
<1> QED  BY <1>2, <1>3

\* The tree with the leaf of a key after it got the key.
Added(node, key) == insert_array(node, key, find_index(key, node))

With(W, h, node, S, p, key) ==
  /\ IsLeaf(NodeAt(node, p)) /\ (p = <<>> \/ Size(NodeAt(node, p)) \in W)
  /\ Placed(node, p)
  /\ Size(Added(NodeAt(node, p), key)) = Size(NodeAt(node, p)) + 1
  /\ In(W, h, PutAt(node, p, Added(NodeAt(node, p), key)), S \cup {key}, p)
  /\ p # <<>> => Size(PutAt(node, p, Added(NodeAt(node, p), key))) = Size(node)

\* A key inserted into a root that is a leaf.
LEMMA WithHere ==
  ASSUME BTreeParameters, NEW W, NEW h, NEW node, NEW S, In(W, h, node, S, <<>>),
         NEW key \in Key, key \notin S, Leads(node, <<>>, key)
  PROVE  With(W, h, node, S, <<>>, key)
<1>1. NodeAt(node, <<>>) = node /\ \A new : PutAt(node, <<>>, new) = new  BY NodeAtHere, PutAtHere
<1>2. <<>> \in Seq(Nat) /\ Real(node, <<>>)  BY RealHere
<1>3. ~Found(key, node)  BY <1>1, <1>2, FoundIs
<1>4. IsLeaf(node)  BY <1>3, LeadsHere
<1>5. h = 0  BY <1>4, Facts
<1>6. In(W, 0, node, S, <<>>)  BY <1>5
<1>7. In(W, 0, Added(node, key), S \cup {key}, <<>>) /\ Size(Added(node, key)) = Size(node) + 1
  BY <1>3, <1>6, LeafInsert DEF Added
<1>8. Placed(node, <<>>)  BY PlacedHere
<1> QED  BY <1>1, <1>4, <1>5, <1>7, <1>8 DEF With

\* A key inserted below a child is inserted below its parent.
LEMMA WithStep ==
  ASSUME BTreeParameters, NEW W, NEW h \in Nat, NEW node, NEW S, In(W, h + 1, node, S, <<>>),
         NEW key \in Key, NEW i \in Nat, NEW u \in Seq(Nat), Real(node, <<i>> \o u),
         Leads(node, <<i>> \o u, key),
         \A P : In(W, h, KidAt(node, i), P, <<>>) /\ key \notin P
                  => With(W, h, KidAt(node, i), P, u, key),
         key \notin S
  PROVE  With(W, h + 1, node, S, <<i>> \o u, key)
<1> DEFINE s == <<i>> \o u
           kid == KidAt(node, i)
           leaf == NodeAt(kid, u)
           sub == PutAt(kid, u, Added(leaf, key))
           H == h + 1
           g == i + 1
<1>0. H \in Nat /\ H - 1 = h /\ In(W, H, node, S, <<>>) /\ i + 1 = g  OBVIOUS
<1>1. ~Found(key, node) /\ i = find_index(key, node)  BY LeadsHead
<1>2. i \in 0..Len(node.kids) - 1 /\ Real(kid, u)  BY RealHead
<1> HIDE DEF kid, H
<1>3. i < Len(node.kids)  BY <1>0, <1>2, KidBound
<1>4. PICK parts :
        /\ Holds(W, H, node, parts, <<>>) /\ S = All(node.keys, parts)
        /\ In(W, H - 1, kid, parts[i + 1], <<>>) /\ Size(kid) \in W
        /\ Ordered(node.keys, parts) /\ i + 1 \in 1..Len(parts) /\ Len(parts) = Len(node.keys) + 1
  BY <1>0, <1>3, ChildFull DEF kid
<1>6. In(W, h, kid, parts[g], <<>>)  BY <1>0, <1>4
<1>7. Fits(node.keys, g, parts[g] \cup {key}) /\ (key \in S <=> key \in parts[g])
  BY <1>0, <1>1, <1>4, Belongs
<1>8. With(W, h, kid, parts[g], u, key)  BY <1>6, <1>7 DEF kid
<1>9. Placed(node, s)
  <2>1. Placed(KidAt(node, i), u)  BY <1>8 DEF With, kid
  <2>2. Plain(node) /\ node.kids \in Seq(Nodes(Trees(W, H - 1))) /\ Len(node.kids) = Len(parts)
    <3>1. H # 0  BY <1>0
    <3> QED  BY <1>0, <1>4, <3>1, FullHolds, ZenonT(60) DEF Plain
  <2>3. i + 1 \in 1..Len(node.kids)  BY <1>4, <2>2
  <2> QED  BY <2>1, <2>2, <2>3, PlacedStep
<1>10. NodeAt(node, s) = leaf /\ \A new : PutAt(node, s, new) = WithKid(node, i, PutAt(kid, u, new))
  BY NodeAtHead, PutAtHead DEF kid
<1>11. s # <<>>  BY Stepped
<1> HIDE DEF s, leaf
<1>12. /\ IsLeaf(leaf) /\ (u = <<>> \/ Size(leaf) \in W)
       /\ Size(Added(leaf, key)) = Size(leaf) + 1
       /\ In(W, h, sub, parts[g] \cup {key}, u)
       /\ u # <<>> => Size(sub) = Size(kid)
  BY <1>8 DEF With, leaf
<1>13. Size(leaf) \in W
  <2>1. CASE u = <<>>
    <3>1. leaf = kid  BY <2>1, NodeAtHere DEF leaf
    <3> QED  BY <1>4, <3>1
  <2> QED  BY <1>12, <2>1
<1>14. u = <<>> \/ Size(sub) \in W  BY <1>4, <1>12
<1> HIDE DEF sub, g
<1>15. Holds(W, H, node, parts, <<i>> \o <<>>)
  <2>1. i \in 0..Len(node.keys)
    <3>1. Len(node.keys) \in Nat  BY <1>4 DEF Ordered
    <3> QED  BY <1>4, <3>1
  <2>2. Holds(W, h + 1, node, parts, <<>>)  BY <1>4 DEF H
  <2>3. Holds(W, h + 1, node, parts, <<i>> \o <<>>)  BY <2>1, <2>2, SomeChild
  <2> QED  BY <2>3 DEF H
<1> DEFINE B == parts[g] \cup {key}
<1>16. /\ In(W, H, WithKid(node, i, sub), (S \ parts[g]) \cup B, s)
       /\ Size(WithKid(node, i, sub)) = Size(node)
  <2>1. In(W, h, sub, B, u) /\ Fits(node.keys, i + 1, B) /\ <<>> \in Seq(Nat)  BY <1>0, <1>7, <1>12
  <2>2. Holds(W, h + 1, node, parts, <<i>> \o <<>>)  BY <1>15 DEF H
  <2> DEFINE r == <<>>
  <2>4. Holds(W, h + 1, node, parts, <<i>> \o r) /\ r \in Seq(Nat)  BY <2>1, <2>2
  <2> HIDE DEF B, r
  <2>3. /\ In(W, h + 1, WithKid(node, i, sub), (All(node.keys, parts) \ parts[i + 1]) \cup B, <<i>> \o u)
        /\ Size(WithKid(node, i, sub)) = Size(node)
    BY <1>14, <2>1, <2>4, Replaced
  <2> QED  BY <1>0, <1>4, <2>3 DEF H, s
<1>17. (S \ parts[g]) \cup B = S \cup {key}
  <2>1. parts[g] \subseteq S  BY <1>0, <1>4, AllHas
  <2> QED  BY <2>1
<1> HIDE DEF B
<1>18. With(W, H, node, S, s, key)
  <2>1. PutAt(node, s, Added(leaf, key)) = WithKid(node, i, sub)  BY <1>10 DEF sub
  <2>2. In(W, H, PutAt(node, s, Added(leaf, key)), S \cup {key}, s)  BY <1>16, <1>17, <2>1
  <2> QED  BY <1>9, <1>10, <1>12, <1>13, <1>16, <2>1, <2>2 DEF With
<1> QED  BY <1>18 DEF H, s

\* A key inserted into the leaf find_path leads to is in the tree, and only that leaf may be too large.
LEMMA WithAll ==
  ASSUME BTreeParameters, NEW W, NEW h, NEW node, NEW S, In(W, h, node, S, <<>>),
         NEW key \in Key, key \notin S, NEW p \in Seq(Nat), Real(node, p), Leads(node, p, key)
  PROVE  With(W, h, node, S, p, key)
<1> DEFINE Claim(s) == \A g, x, T : /\ In(W, g, x, T, <<>>) /\ key \notin T
                                    /\ Real(x, s) /\ Leads(x, s, key)
                                    => With(W, g, x, T, s, key)
           Good == {s \in Seq(Nat) : Claim(s)}
<1>1. <<>> \in Good  BY WithHere
<1>2. ASSUME NEW i \in Nat, NEW u \in Seq(Nat), u \in Good PROVE <<i>> \o u \in Good
  <2> DEFINE s == <<i>> \o u
  <2>1. s \in Seq(Nat)  BY Stepped
  <2>2. Claim(u)  BY <1>2
  <2>3. ASSUME NEW g, NEW x, NEW T, In(W, g, x, T, <<>>), key \notin T, Real(x, s), Leads(x, s, key)
        PROVE  With(W, g, x, T, s, key)
    <3>1. Real(KidAt(x, i), u) /\ i \in 0..Len(x.kids) - 1  BY <2>3, RealHead
    <3>2. Leads(KidAt(x, i), u, key)  BY <2>3, LeadsHead
    <3> DEFINE f == g - 1
    <3>3. g \in Nat \ {0}
      <4>1. i < Len(x.kids)  BY <2>3, <3>1, KidBound
      <4> QED  BY <2>3, <4>1, ChildIn
    <3>4. f \in Nat /\ f + 1 = g  BY <3>3
    <3> HIDE DEF f, s
    <3>5. \A P : In(W, f, KidAt(x, i), P, <<>>) /\ key \notin P => With(W, f, KidAt(x, i), P, u, key)
      BY <2>2, <3>1, <3>2
    <3>6. In(W, f + 1, x, T, <<>>)  BY <2>3, <3>4
    <3>7. With(W, f + 1, x, T, s, key)  BY <2>3, <3>4, <3>5, <3>6, WithStep DEF s
    <3> QED  BY <3>4, <3>7
  <2> HIDE DEF s
  <2>4. Claim(s)  BY <2>3
  <2>5. s \in Good  BY <2>1, <2>4
  <2> QED  BY <2>5 DEF s
<1> HIDE DEF Good
<1>3. p \in Good  BY <1>1, <1>2, Ways
<1>4. Claim(p)  BY <1>3 DEF Good
<1> QED  BY <1>4

(***************************************************************************)
(* The greatest key.                                                       *)
(***************************************************************************)

\* There is a last leaf.
LEMMA EndsExists ==
  ASSUME NEW W, NEW h, NEW node, NEW S, NEW e, In(W, h, node, S, e)
  PROVE  \E p \in Seq(Nat) : Real(node, p) /\ Ends(node, p)
<1> DEFINE Goal(x) == \E p \in Seq(Nat) : Real(x, p) /\ Ends(x, p)
           Claim(n) == \A x, T, f : In(W, n, x, T, f) => Goal(x)
           Good == {n \in Nat : Claim(n)}
<1>1. ASSUME NEW n \in Nat, NEW x, NEW T, NEW f, In(W, n, x, T, f), n = 0 \/ Claim(n - 1)
      PROVE  Goal(x)
  <2>1. CASE IsLeaf(x)
    <3>1. <<>> \in Seq(Nat) /\ Real(x, <<>>) /\ Ends(x, <<>>)  BY <2>1, RealHere, EndsHere
    <3> QED  BY <3>1
  <2>2. CASE ~IsLeaf(x)
    <3> DEFINE i == Size(x)
               kid == KidAt(x, i)
    <3>1. n # 0 /\ Len(x.kids) = Size(x) + 1 /\ Size(x) \in Nat  BY <1>1, <2>2, Facts
    <3> HIDE DEF i, kid
    <3>5. i \in Nat /\ i \in 0..Len(x.kids) - 1 /\ i < Len(x.kids)  BY <3>1 DEF i
    <3>6. \E P, r : In(W, n - 1, kid, P, r)  BY <1>1, <3>5, ChildIn DEF kid
    <3>7. Goal(kid)  BY <1>1, <3>1, <3>6
    <3>8. PICK u \in Seq(Nat) : Real(kid, u) /\ Ends(kid, u)  BY <3>7
    <3>9. <<i>> \o u \in Seq(Nat)  BY <3>5, Stepped
    <3>10. Real(x, <<i>> \o u)  BY <3>5, <3>8, RealHead DEF kid
    <3>11. Ends(x, <<i>> \o u)
      <4>1. i = Size(x)  BY DEF i
      <4>2. Ends(x, <<i>> \o u) <=> i = Size(x) /\ Ends(KidAt(x, i), u)  BY <3>5, EndsHead
      <4> QED  BY <3>8, <4>1, <4>2 DEF kid
    <3> QED  BY <3>9, <3>10, <3>11
  <2> QED  BY <2>1, <2>2
<1>2. 0 \in Good  BY <1>1
<1>3. ASSUME NEW n \in Nat, n \in Good PROVE n + 1 \in Good
  <2> DEFINE m == n + 1
  <2>1. m \in Nat /\ m - 1 = n  OBVIOUS
  <2> HIDE DEF m
  <2>2. Claim(m - 1)  BY <1>3, <2>1
  <2>3. Claim(m)  BY <1>1, <2>1, <2>2
  <2>4. m \in Good  BY <2>1, <2>3
  <2> QED  BY <2>4 DEF m
<1> HIDE DEF Good
<1>4. \A n \in Nat : n \in Good  BY <1>2, <1>3, Numbers
<1>5. h \in Nat  BY Facts
<1>6. Claim(h)  BY <1>4, <1>5 DEF Good
<1> QED  BY <1>6

\* Last_path leads to the last leaf.
LEMMA PathEnds ==
  ASSUME NEW W, NEW h, NEW node, NEW S, NEW e, In(W, h, node, S, e)
  PROVE  /\ Last_path(node) \in Seq(Nat) /\ Real(node, Last_path(node))
         /\ Ends(node, Last_path(node))
<1>1. Paths(node) = {p \in Seq(Nat) : Real(node, p)}  BY PathsOf
<1>2. PICK p \in Seq(Nat) : Real(node, p) /\ Ends(node, p)  BY EndsExists
<1>3. p \in Paths(node) /\ Ends(node, p)  BY <1>1, <1>2
<1> DEFINE q == Last_path(node)
<1>4. q \in Paths(node) /\ Ends(node, q)  BY <1>3 DEF Last_path
<1> HIDE DEF q
<1>5. q \in Seq(Nat) /\ Real(node, q)  BY <1>1, <1>4
<1> QED  BY <1>4, <1>5 DEF q

Greatest(S, b) == b \in S /\ \A x \in S : x <= b

\* It is the last of the last leaf.
Final(leaf) == KeyAt(leaf, Size(leaf) - 1)

\* The last key of a leaf is its greatest.
LEMMA FinalHere ==
  ASSUME BTreeParameters, NEW W, NEW node, NEW S, NEW e, In(W, 0, node, S, e), Size(node) # 0
  PROVE  Greatest(S, Final(node))
<1> DEFINE keys == node.keys
           n == Len(keys)
<1>1. PICK parts : Ordered(keys, parts) /\ S = All(keys, parts) /\ Bare(parts)  BY LeafHolds
<1>2. keys \in Seq(Key) /\ n \in Nat /\ \A i, j \in 1..n : i < j => keys[i] < keys[j]
  BY <1>1 DEF Ordered
<1>3. Final(node) = keys[n]
  <2>1. Size(node) = n /\ n - 1 + 1 = n  BY <1>2 DEF Size
  <2> HIDE DEF n
  <2> QED  BY <2>1 DEF Final, KeyAt
<1>4. n \in 1..n  BY <1>2 DEF Size
<1> HIDE DEF keys, n
<1>5. ASSUME NEW j \in 1..n PROVE keys[j] \in Int
  <2>1. keys[j] \in Key  BY <1>2, ElementOfSeq DEF n
  <2> QED  BY <2>1 DEF BTreeParameters
<1>6. \A x : x \in S <=> \E j \in 1..n : x = keys[j]
  <2>1. \A x : x \in All(keys, parts) <=> \/ \E j \in 1..n : x = keys[j]
                                          \/ \E j \in 1..Len(parts) : x \in parts[j]
    BY <1>1, AllIs DEF n
  <2> QED  BY <1>1, <2>1 DEF Bare
<1>7. ASSUME NEW j \in 1..n PROVE keys[j] <= keys[n]
  <2>1. CASE j = n  BY <1>5, <2>1
  <2>2. CASE j # n
    <3>1. j < n  BY <1>2, <2>2
    <3>2. keys[j] < keys[n]  BY <1>2, <1>4, <3>1
    <3> QED  BY <1>4, <1>5, <3>2
  <2> QED  BY <2>1, <2>2
<1>8. Greatest(S, keys[n])  BY <1>4, <1>6, <1>7 DEF Greatest
<1> QED  BY <1>3, <1>8

\* The greatest key below the last child is the greatest of the tree.
LEMMA FinalBelow ==
  ASSUME BTreeParameters, NEW keys, NEW parts, Ordered(keys, parts), NEW b,
         Greatest(parts[Len(keys) + 1], b)
  PROVE  Greatest(All(keys, parts), b)
<1> DEFINE n == Len(keys)
           g == n + 1
<1>1. /\ keys \in Seq(Key) /\ parts \in Seq(SUBSET Key) /\ n \in Nat /\ Len(parts) = g
      /\ \A i \in 1..Len(parts), j \in 1..n :
           \A k \in parts[i] : IF i <= j THEN k < keys[j] ELSE keys[j] < k
  BY DEF Ordered
<1>2. g \in 1..Len(parts) /\ \A j \in 1..n : ~(g <= j)  BY <1>1
<1>a. b \in parts[g] /\ \A x \in parts[g] : x <= b  BY DEF Greatest
<1> HIDE DEF n, g
<1>3. b \in Int /\ b \in All(keys, parts)
  <2>1. parts[g] \in SUBSET Key  BY <1>1, <1>2, ElementOfSeq
  <2>2. b \in All(keys, parts)  BY <1>2, <1>a, AllHas
  <2> QED  BY <1>a, <2>1, <2>2 DEF BTreeParameters
<1>4. ASSUME NEW j \in 1..n PROVE keys[j] \in Int /\ keys[j] < b
  <2>1. keys[j] \in Key  BY <1>1, ElementOfSeq DEF n
  <2>2. keys[j] < b  BY <1>1, <1>2, <1>a
  <2> QED  BY <2>1, <2>2 DEF BTreeParameters
<1>5. ASSUME NEW a \in 1..Len(parts), NEW x \in parts[a] PROVE x <= b
  <2>1. CASE a = g  BY <1>a, <1>5, <2>1
  <2>2. CASE a # g
    <3>1. a \in 1..n /\ a <= a  BY <1>1, <2>2 DEF g
    <3>2. x < keys[a]  BY <1>1, <1>5, <3>1
    <3>3. keys[a] < b /\ keys[a] \in Int  BY <1>4, <3>1
    <3>4. x \in Int
      <4>1. parts[a] \in SUBSET Key  BY <1>1, ElementOfSeq
      <4> QED  BY <1>5, <4>1 DEF BTreeParameters
    <3> QED  BY <1>3, <3>2, <3>3, <3>4
  <2> QED  BY <2>1, <2>2
<1>6. \A x : x \in All(keys, parts) <=> \/ \E j \in 1..n : x = keys[j]
                                        \/ \E j \in 1..Len(parts) : x \in parts[j]
  BY AllIs DEF n
<1>7. ASSUME NEW x \in All(keys, parts) PROVE x <= b
  <2>1. CASE \E j \in 1..n : x = keys[j]  BY <1>3, <1>4, <2>1
  <2>2. CASE \E j \in 1..Len(parts) : x \in parts[j]  BY <1>5, <2>2
  <2> QED  BY <1>6, <2>1, <2>2
<1> QED  BY <1>3, <1>7 DEF Greatest

\* The last key of the last leaf is the greatest of the tree.
LEMMA FinalIs ==
  ASSUME BTreeParameters, NEW W, 0 \notin W, NEW h, NEW node, NEW S, In(W, h, node, S, <<>>),
         Size(node) \in W, NEW p \in Seq(Nat), Real(node, p), Ends(node, p)
  PROVE  /\ IsLeaf(NodeAt(node, p)) /\ Size(NodeAt(node, p)) \in W
         /\ Greatest(S, Final(NodeAt(node, p)))
<1> DEFINE Goal(x, T, s) == /\ IsLeaf(NodeAt(x, s)) /\ Size(NodeAt(x, s)) \in W
                            /\ Greatest(T, Final(NodeAt(x, s)))
           Claim(s) == \A g, x, T : In(W, g, x, T, <<>>) /\ Size(x) \in W /\ Real(x, s) /\ Ends(x, s)
                                      => Goal(x, T, s)
           Good == {s \in Seq(Nat) : Claim(s)}
<1>1. <<>> \in Good
  <2>1. ASSUME NEW g, NEW x, NEW T, In(W, g, x, T, <<>>), Size(x) \in W, Ends(x, <<>>)
        PROVE  Goal(x, T, <<>>)
    <3>1. NodeAt(x, <<>>) = x /\ IsLeaf(x)  BY <2>1, NodeAtHere, EndsHere
    <3>2. g = 0 /\ Size(x) # 0  BY <2>1, <3>1, Facts
    <3>3. Greatest(T, Final(x))  BY <2>1, <3>2, FinalHere
    <3> QED  BY <2>1, <3>1, <3>3
  <2> QED  BY <2>1
<1>2. ASSUME NEW i \in Nat, NEW u \in Seq(Nat), u \in Good PROVE <<i>> \o u \in Good
  <2> DEFINE s == <<i>> \o u
  <2>1. s \in Seq(Nat)  BY Stepped
  <2>2. Claim(u)  BY <1>2
  <2>3. ASSUME NEW g, NEW x, NEW T, In(W, g, x, T, <<>>), Real(x, s), Ends(x, s)
        PROVE  Goal(x, T, s)
    <3> DEFINE kid == KidAt(x, i)
    <3>1. i = Size(x) /\ Ends(kid, u)  BY <2>3, EndsHead
    <3>2. i \in 0..Len(x.kids) - 1 /\ Real(kid, u)  BY <2>3, RealHead
    <3>3. i < Len(x.kids)  BY <2>3, <3>2, KidBound
    <3>4. NodeAt(x, s) = NodeAt(kid, u)  BY NodeAtHead
    <3> HIDE DEF s
    <3>5. PICK parts : /\ T = All(x.keys, parts) /\ Ordered(x.keys, parts)
                       /\ In(W, g - 1, kid, parts[i + 1], <<>>) /\ Size(kid) \in W
      BY <2>3, <3>3, ChildFull
    <3> HIDE DEF kid
    <3>6. Goal(kid, parts[i + 1], u)  BY <2>2, <3>1, <3>2, <3>5
    <3>7. Greatest(T, Final(NodeAt(kid, u)))
      <4>1. i + 1 = Len(x.keys) + 1  BY <3>1 DEF Size
      <4>2. Greatest(parts[Len(x.keys) + 1], Final(NodeAt(kid, u)))  BY <3>6, <4>1
      <4> QED  BY <3>5, <4>2, FinalBelow
    <3> QED  BY <3>4, <3>6, <3>7
  <2> HIDE DEF s
  <2>4. Claim(s)  BY <2>3
  <2>5. s \in Good  BY <2>1, <2>4
  <2> QED  BY <2>5 DEF s
<1> HIDE DEF Good
<1>3. p \in Good  BY <1>1, <1>2, Ways
<1>4. Claim(p)  BY <1>3 DEF Good
<1> QED  BY <1>4

(***************************************************************************)
(* A key less.                                                             *)
(***************************************************************************)

Taken(W, h, node, S, p, j) ==
  /\ Placed(node, p)
  /\ p = <<>> \/ Size(NodeAt(node, p)) \in W
  /\ KeyAt(NodeAt(node, p), j) \in S
  /\ Size(WithoutKey(NodeAt(node, p), j)) = Size(NodeAt(node, p)) - 1
  /\ In(W, h, PutAt(node, p, WithoutKey(NodeAt(node, p), j)), S \ {KeyAt(NodeAt(node, p), j)}, p)
  /\ p # <<>> => Size(PutAt(node, p, WithoutKey(NodeAt(node, p), j))) = Size(node)

\* What is at the end of a way in a full tree, and what may be put there.
LEMMA DownFull ==
  ASSUME BTreeParameters, NEW W, NEW h, NEW node, NEW S, In(W, h, node, S, <<>>),
         NEW p \in Seq(Nat), Real(node, p)
  PROVE  /\ \E A : Down(W, h, node, S, p, <<>>, A)
         /\ p = <<>> \/ Size(NodeAt(node, p)) \in W
<1>1. In(W, h, node, S, p)  BY Exempt
<1>2. p = p \o <<>> /\ <<>> \in Seq(Nat)  OBVIOUS
<1>3. In(W, h, node, S, p \o <<>>)  BY <1>1, <1>2
<1>4. \E A : Down(W, h, node, S, p, <<>>, A)  BY <1>2, <1>3, Descend
<1>5. Inside(W, h, node, S, <<>>, p)  BY InsideAll
<1> QED  BY <1>4, <1>5 DEF Inside

\* A key taken out of a leaf is out of the tree, and only that leaf may be too small.
LEMMA Take ==
  ASSUME BTreeParameters, NEW W, NEW h, NEW node, NEW S, In(W, h, node, S, <<>>),
         NEW p \in Seq(Nat), Real(node, p), IsLeaf(NodeAt(node, p)),
         NEW j \in 0..Size(NodeAt(node, p)) - 1
  PROVE  Taken(W, h, node, S, p, j)
<1> DEFINE leaf == NodeAt(node, p)
           new == WithoutKey(leaf, j)
           k == KeyAt(leaf, j)
<1>1. p = <<>> \/ Size(leaf) \in W  BY DownFull
<1>2. PICK A : Down(W, h, node, S, p, <<>>, A)  BY DownFull
<1>3. IsLeaf(leaf) /\ j \in 0..Size(leaf) - 1  OBVIOUS
<1> HIDE DEF leaf
<1>4. In(W, h - Len(p), leaf, A, <<>>)  BY <1>2 DEF Down, leaf
<1>5. h - Len(p) = 0  BY <1>3, <1>4, Facts
<1>6. In(W, 0, leaf, A, <<>>)  BY <1>4, <1>5
<1>7. In(W, 0, new, A \ {k}, <<>>) /\ Size(new) = Size(leaf) - 1 /\ k \in A
  BY <1>3, <1>6, LeafWithout
<1> HIDE DEF new, k
<1>8. /\ \A n, B, q :
           /\ B \subseteq A /\ In(W, h - Len(p), n, B, q)
           /\ p = <<>> \/ q = <<>> \/ Size(n) \in W
           => /\ In(W, h, PutAt(node, p, n), (S \ A) \cup B, p \o q)
              /\ p # <<>> => Size(PutAt(node, p, n)) = Size(node)
      /\ A \subseteq S /\ Placed(node, p)
  BY <1>2 DEF Down
<1>9. A \ {k} \subseteq A /\ In(W, h - Len(p), new, A \ {k}, <<>>)  BY <1>5, <1>7
<1>10. /\ In(W, h, PutAt(node, p, new), (S \ A) \cup (A \ {k}), p \o <<>>)
       /\ p # <<>> => Size(PutAt(node, p, new)) = Size(node)
  BY <1>8, <1>9
<1>11. (S \ A) \cup (A \ {k}) = S \ {k} /\ p \o <<>> = p /\ k \in S  BY <1>7, <1>8
<1>12. In(W, h, PutAt(node, p, new), S \ {k}, p)  BY <1>10, <1>11
<1> QED  BY <1>1, <1>7, <1>8, <1>10, <1>11, <1>12 DEF Taken, new, k, leaf

\* A key of an inner node gives way to the greatest one below the child before it.
LEMMA Swapped ==
  ASSUME BTreeParameters, NEW keys, NEW parts, Ordered(keys, parts), NEW g \in 1..Len(keys),
         NEW b, Greatest(parts[g], b)
  PROVE  /\ Ordered([keys EXCEPT ![g] = b], [parts EXCEPT ![g] = parts[g] \ {b}])
         /\ All([keys EXCEPT ![g] = b], [parts EXCEPT ![g] = parts[g] \ {b}])
              = All(keys, parts) \ {keys[g]}
<1> DEFINE n == Len(keys)
           key == keys[g]
           B == parts[g] \ {b}
           rk == [keys EXCEPT ![g] = b]
           rp == [parts EXCEPT ![g] = B]
<1>1. /\ keys \in Seq(Key) /\ parts \in Seq(SUBSET Key) /\ n \in Nat /\ Len(parts) = n + 1
      /\ \A i, j \in 1..n : i < j => keys[i] < keys[j]
      /\ \A i \in 1..Len(parts), j \in 1..n :
           \A x \in parts[i] : IF i <= j THEN x < keys[j] ELSE keys[j] < x
  BY DEF Ordered
<1>2. g \in 1..n /\ g \in 1..Len(parts) /\ \A i \in 1..n : i \in 1..Len(parts)  BY <1>1
<1>3. b \in parts[g] /\ \A x \in parts[g] : x <= b  BY DEF Greatest
<1>4. Key \subseteq Int  BY DEF BTreeParameters
<1>5. ASSUME NEW a \in 1..Len(parts) PROVE parts[a] \subseteq Key
  <2>1. parts[a] \in SUBSET Key  BY <1>1, ElementOfSeq
  <2> QED  BY <2>1
<1>6. b \in Key /\ b \in Int  BY <1>2, <1>3, <1>4, <1>5
<1>7. ASSUME NEW j \in 1..n PROVE keys[j] \in Key /\ keys[j] \in Int
  <2>1. keys[j] \in Key  BY <1>1, ElementOfSeq
  <2> QED  BY <1>4, <2>1
<1>8. key \in Int /\ b < key
  <2>1. b < key
    <3>1. g <= g  BY <1>2
    <3> QED  BY <1>1, <1>2, <1>3, <3>1
  <2> QED  BY <1>2, <1>7, <2>1
<1>9. B \subseteq parts[g] /\ B \in SUBSET Key /\ \A x : x \in B <=> x \in parts[g] /\ x # b
  BY <1>2, <1>5
<1>10. /\ rk \in Seq(Key) /\ Len(rk) = n /\ rk[g] = b
       /\ \A j \in 1..n : j # g => rk[j] = keys[j]
  BY <1>1, <1>2, <1>6
<1>11. /\ rp \in Seq(SUBSET Key) /\ Len(rp) = Len(parts) /\ rp[g] = B
       /\ \A j \in 1..Len(parts) : j # g => rp[j] = parts[j]
  <2> HIDE DEF B
  <2> QED  BY <1>1, <1>2, <1>9
<1>a. Ordered(keys, parts)  OBVIOUS
<1> HIDE DEF n, rk, rp, B
\* Below the new key in its node.
<1>12. ASSUME NEW j \in 1..n, j < g PROVE keys[j] < b /\ keys[j] \in Int
  <2>1. ~(g <= j)  BY <1>2, <1>12
  <2> QED  BY <1>1, <1>2, <1>3, <1>7, <2>1
<1>13. ASSUME NEW j \in 1..n, g < j PROVE b < keys[j] /\ keys[j] \in Int
  <2>1. key < keys[j]  BY <1>1, <1>2, <1>13
  <2> QED  BY <1>6, <1>7, <1>8, <2>1
<1>14. ASSUME NEW i \in 1..n, NEW j \in 1..n, i < j PROVE rk[i] < rk[j]
  <2>1. CASE i = g
    <3>1. j # g /\ g < j  BY <1>2, <1>14, <2>1
    <3> QED  BY <1>10, <1>13, <2>1, <3>1
  <2>2. CASE j = g
    <3>1. i # g /\ i < g  BY <1>2, <1>14, <2>2
    <3> QED  BY <1>10, <1>12, <2>2, <3>1
  <2>3. CASE i # g /\ j # g
    <3>1. rk[i] = keys[i] /\ rk[j] = keys[j]  BY <1>10, <2>3
    <3>2. keys[i] < keys[j]  BY <1>1, <1>14
    <3> QED  BY <3>1, <3>2
  <2> QED  BY <2>1, <2>2, <2>3
<1>15. ASSUME NEW a \in 1..Len(parts), NEW x \in rp[a] PROVE x \in parts[a] /\ x \in Int /\ (a = g => x # b)
  <2>1. x \in parts[a] /\ (a = g => x # b)
    <3>1. CASE a = g  BY <1>9, <1>11, <1>15, <3>1
    <3>2. CASE a # g  BY <1>11, <1>15, <3>2
    <3> QED  BY <3>1, <3>2
  <2> QED  BY <1>4, <1>5, <2>1
<1>16. ASSUME NEW a \in 1..Len(parts), NEW x \in rp[a]
       PROVE  IF a <= g THEN x < b ELSE b < x
  <2>1. x \in parts[a] /\ x \in Int /\ (a = g => x # b)  BY <1>15
  <2>2. CASE a = g
    <3>1. x <= b /\ x # b  BY <1>3, <2>1, <2>2
    <3>2. a <= g  BY <1>2, <2>2
    <3> QED  BY <1>6, <2>1, <3>1, <3>2
  <2>3. CASE a < g
    <3>1. a \in 1..n /\ a <= a /\ a <= g  BY <1>1, <1>2, <2>3
    <3>2. x < keys[a]  BY <1>1, <2>1, <3>1
    <3>3. keys[a] < b /\ keys[a] \in Int  BY <1>12, <2>3, <3>1
    <3> QED  BY <1>6, <2>1, <3>1, <3>2, <3>3
  <2>4. CASE g < a
    <3>1. ~(a <= g)  BY <1>2, <2>4
    <3>2. key < x  BY <1>1, <1>2, <2>1, <3>1
    <3> QED  BY <1>6, <1>8, <2>1, <3>1, <3>2
  <2> QED  BY <1>2, <2>2, <2>3, <2>4
<1>17. ASSUME NEW a \in 1..Len(parts), NEW j \in 1..n, NEW x \in rp[a]
       PROVE  IF a <= j THEN x < rk[j] ELSE rk[j] < x
  <2>1. CASE j = g  BY <1>10, <1>16, <2>1
  <2>2. CASE j # g
    <3>1. rk[j] = keys[j] /\ x \in parts[a]  BY <1>10, <1>15, <2>2
    <3> QED  BY <1>1, <3>1
  <2> QED  BY <2>1, <2>2
<1>18. Ordered(rk, rp)  BY <1>1, <1>10, <1>11, <1>14, <1>17 DEF Ordered
<1>19. ASSUME NEW x PROVE x \in All(rk, rp) <=> x \in All(keys, parts) /\ x # key
  <2>1. x \in All(rk, rp) <=> \/ \E j \in 1..n : x = rk[j]
                              \/ \E a \in 1..Len(parts) : x \in rp[a]
    BY <1>10, <1>11, <1>18, AllIs
  <2>2. x \in All(keys, parts) <=> \/ \E j \in 1..n : x = keys[j]
                                   \/ \E a \in 1..Len(parts) : x \in parts[a]
    BY <1>a, AllIs DEF n
  <2>3. ASSUME NEW j \in 1..n
        PROVE  /\ rk[j] # key
               /\ \/ \E l \in 1..n : rk[j] = keys[l]
                  \/ \E a \in 1..Len(parts) : rk[j] \in parts[a]
    <3>1. CASE j = g  BY <1>2, <1>3, <1>6, <1>8, <1>10, <3>1
    <3>2. CASE j # g
      <4>1. rk[j] = keys[j] /\ keys[j] \in Int  BY <1>7, <1>10, <3>2
      <4>2. CASE j < g
        <5>1. keys[j] < b  BY <1>12, <4>2
        <5> QED  BY <1>6, <1>8, <4>1, <5>1
      <4>3. CASE g < j
        <5>1. key < keys[j]  BY <1>1, <1>2, <4>3
        <5> QED  BY <1>8, <4>1, <5>1
      <4> QED  BY <1>2, <3>2, <4>2, <4>3
    <3> QED  BY <3>1, <3>2
  <2>4. ASSUME NEW a \in 1..Len(parts), x \in rp[a] PROVE x \in parts[a] /\ x # key
    <3>1. x \in parts[a] /\ x \in Int  BY <1>15, <2>4
    <3>2. IF a <= g THEN x < key ELSE key < x  BY <1>1, <1>2, <3>1
    <3> QED  BY <1>8, <3>1, <3>2
  <2>5. ASSUME NEW j \in 1..n, x = keys[j], x # key PROVE \E l \in 1..n : x = rk[l]
    <3>1. j # g  BY <2>5
    <3> QED  BY <1>10, <2>5, <3>1
  <2>6. ASSUME NEW a \in 1..Len(parts), x \in parts[a]
        PROVE  \/ \E l \in 1..n : x = rk[l]
               \/ \E l \in 1..Len(parts) : x \in rp[l]
    <3>1. CASE a # g  BY <1>11, <2>6, <3>1
    <3>2. CASE a = g /\ x # b
      <4>1. x \in B  BY <1>9, <2>6, <3>2
      <4> QED  BY <1>2, <1>11, <4>1
    <3>3. CASE x = b  BY <1>2, <1>10, <3>3
    <3> QED  BY <3>1, <3>2, <3>3
  <2>7. ASSUME x \in All(rk, rp) PROVE x \in All(keys, parts) /\ x # key
    <3>1. CASE \E j \in 1..n : x = rk[j]  BY <2>2, <2>3, <3>1
    <3>2. CASE \E a \in 1..Len(parts) : x \in rp[a]  BY <2>2, <2>4, <3>2
    <3> QED  BY <2>1, <2>7, <3>1, <3>2
  <2>8. x \in All(keys, parts) /\ x # key => x \in All(rk, rp)  BY <2>1, <2>2, <2>5, <2>6
  <2> QED  BY <2>7, <2>8
<1>20. All(rk, rp) = All(keys, parts) \ {key}  BY <1>19
<1> QED  BY <1>18, <1>20 DEF rk, rp, B

\* A key of a node is where its index says.
LEMMA KeyOfIndex ==
  ASSUME BTreeParameters, NEW node, NEW parts, Ordered(node.keys, parts), NEW key \in Key,
         Found(key, node)
  PROVE  /\ find_index(key, node) \in 0..Len(node.keys) - 1
         /\ KeyAt(node, find_index(key, node)) = key
<1> DEFINE q == node.keys
           i == find_index(key, node)
<1>1. /\ q \in Seq(Key) /\ Len(q) \in Nat
      /\ \A a, b \in 1..Len(q) : a < b => q[a] < q[b]
  BY DEF Ordered
<1>2. i \in 0..Len(q) /\ \A j \in 1..Len(q) : q[j] < key <=> j <= i  BY <1>1, IndexIs
<1>3. PICK a \in 1..Len(q) : q[a] = key
  <2>1. DOMAIN q = 1..Len(q)  BY <1>1
  <2> QED  BY <2>1 DEF Found
<1>4. KeyAt(node, i) = q[i + 1]  BY DEF KeyAt
<1>5. key \in Int  BY DEF BTreeParameters
<1> HIDE DEF q, i
<1>6. ~(q[a] < key) /\ ~(a <= i)  BY <1>2, <1>3, <1>5
<1> DEFINE g == i + 1
<1>7. g \in 1..Len(q) /\ i \in 0..Len(q) - 1 /\ ~(g <= i) /\ (g = a \/ g < a)
  BY <1>1, <1>2, <1>3, <1>6
<1> HIDE DEF g
<1>8. g = a
  <2>1. SUFFICES ASSUME g < a PROVE FALSE  BY <1>7
  <2>2. q[g] < key  BY <1>1, <1>3, <1>7, <2>1
  <2> QED  BY <1>2, <1>7, <2>2
<1> QED  BY <1>3, <1>4, <1>7, <1>8 DEF q, i, g

\* The way from a node to the leaf with the greatest key before one of its own, and the node
\* after that key has taken the other's place.
WayBefore(node, key) ==
  <<find_index(key, node)>> \o Last_path(KidAt(node, find_index(key, node)))
Exchanged(node, i, before) == [node EXCEPT !.keys[i + 1] = before]
WithoutLast(leaf) == WithoutKey(leaf, Size(leaf) - 1)
Inner(node, key) ==
  PutAt(Exchanged(node, find_index(key, node), Final(NodeAt(node, WayBefore(node, key)))),
        WayBefore(node, key), WithoutLast(NodeAt(node, WayBefore(node, key))))

Swap(node, i, b, kid) ==
  [keys |-> [node.keys EXCEPT ![i + 1] = b], kids |-> [node.kids EXCEPT ![i + 1] = kid]]

\* An inner key exchanged and its leaf changed, in one record.
LEMMA ExchangedIs ==
  ASSUME NEW node, NEW i \in Nat, NEW b, Plain(node), NEW u \in Seq(Nat), NEW new
  PROVE  PutAt(Exchanged(node, i, b), <<i>> \o u, new)
           = Swap(node, i, b, PutAt(KidAt(node, i), u, new))
<1> DEFINE x == Exchanged(node, i, b)
           ks == [node.keys EXCEPT ![i + 1] = b]
           sub == PutAt(KidAt(node, i), u, new)
<1>1. x = [keys |-> ks, kids |-> node.kids]  BY DEF Plain, Exchanged
<1> HIDE DEF x, ks
<1>2. x.kids = node.kids /\ KidAt(x, i) = KidAt(node, i)  BY <1>1 DEF KidAt
<1>3. PutAt(x, <<i>> \o u, new) = WithKid(x, i, sub)  BY <1>2, PutAtHead
<1> HIDE DEF sub
<1>4. WithKid(x, i, sub) = [x EXCEPT !.kids[i + 1] = sub]  BY DEF WithKid
<1>5. [x EXCEPT !.kids[i + 1] = sub] = [keys |-> ks, kids |-> [node.kids EXCEPT ![i + 1] = sub]]
  BY <1>1
<1> QED  BY <1>3, <1>4, <1>5 DEF x, ks, sub, Swap

\* Numbers of keys a node may have.
Sizes(W) == W \subseteq Nat /\ 0 \notin W

\* An inner key whose place the greatest one before it takes is out of the tree.
LEMMA InnerHolds ==
  ASSUME BTreeParameters, NEW W, Sizes(W), NEW h, NEW node, NEW A,
         In(W, h, node, A, <<>>), NEW key \in Key, Found(key, node), ~IsLeaf(node)
  PROVE  /\ WayBefore(node, key) \in Seq(Nat) /\ WayBefore(node, key) # <<>>
         /\ Size(NodeAt(node, WayBefore(node, key))) \in W
         /\ In(W, h, Inner(node, key), A \ {key}, WayBefore(node, key))
         /\ Size(Inner(node, key)) = Size(node)
         /\ Size(NodeAt(Inner(node, key), WayBefore(node, key)))
              = Size(NodeAt(node, WayBefore(node, key))) - 1
<1> DEFINE i == find_index(key, node)
           kid == KidAt(node, i)
           l == Last_path(kid)
           s == <<i>> \o l
           leaf == NodeAt(kid, l)
           b == Final(leaf)
           less == WithoutLast(leaf)
           sub == PutAt(kid, l, less)
           ks == [node.keys EXCEPT ![i + 1] = b]
           res == [keys |-> ks, kids |-> [node.kids EXCEPT ![i + 1] = sub]]
           f == h - 1
           g == i + 1
<1>1. PICK parts : Holds(W, h, node, parts, <<>>) /\ A = All(node.keys, parts)  BY InHolds
<1>2. Ordered(node.keys, parts) /\ Plain(node)  BY <1>1 DEF Holds, Plain
<1>3. i \in 0..Len(node.keys) - 1 /\ KeyAt(node, i) = key  BY <1>2, KeyOfIndex
<1>4. h \in Nat /\ h # 0 /\ Len(node.kids) = Len(node.keys) + 1 /\ Len(node.keys) \in Nat
  <2>1. h \in Nat /\ h # 0 /\ Len(node.kids) = Size(node) + 1 /\ Size(node) \in Nat
        /\ Size(node) = Len(node.keys)
    BY Facts
  <2> QED  BY <2>1
<1>5. WayBefore(node, key) = s  BY DEF WayBefore
<1> HIDE DEF i
<1>6. i \in Nat /\ i \in 0..Len(node.keys) /\ i < Len(node.kids) /\ f \in Nat /\ f + 1 = h
      /\ g \in 1..Len(node.keys) /\ g = i + 1 /\ g \in 1..Len(node.kids)
  BY <1>3, <1>4
<1>7. node.keys[g] = key  BY <1>3 DEF KeyAt
<1> HIDE DEF f, g
<1>8. \A j \in 1..Len(parts) :
        In(W, h - 1, node.kids[j], parts[j], <<>>) /\ Size(node.kids[j]) \in W
  BY <1>1, <1>4, FullHolds
<1>9. Len(parts) = Len(node.keys) + 1 /\ node.kids \in Seq(Nodes(Trees(W, h - 1)))
      /\ g \in 1..Len(parts) /\ Len(parts) = Len(node.kids)
  <2>1. Len(parts) = Len(node.keys) + 1 /\ node.kids \in Seq(Nodes(Trees(W, h - 1)))
    BY <1>1, <1>2, <1>4, FullHolds DEF Ordered
  <2> QED  BY <1>4, <1>6, <2>1
<1>10. kid = node.kids[g]  BY <1>6 DEF KidAt
<1> HIDE DEF kid
<1>11. In(W, f, kid, parts[g], <<>>) /\ Size(kid) \in W  BY <1>8, <1>9, <1>10 DEF f
<1>12. l \in Seq(Nat) /\ Real(kid, l) /\ Ends(kid, l)  BY <1>11, PathEnds
<1> HIDE DEF l
<1>13. IsLeaf(leaf) /\ Size(leaf) \in W /\ Greatest(parts[g], b)  BY <1>11, <1>12, FinalIs DEF Sizes
<1>14. Size(leaf) - 1 \in 0..Size(leaf) - 1
  <2> DEFINE c == Size(leaf)
  <2>1. c \in Nat /\ c # 0  BY <1>13 DEF Sizes
  <2> HIDE DEF c
  <2>2. c - 1 \in 0..c - 1  BY <2>1
  <2> QED  BY <2>2 DEF c
<1>15. Taken(W, f, kid, parts[g], l, Size(leaf) - 1)
  BY <1>11, <1>12, <1>13, <1>14, Take
<1>16. NodeAt(node, s) = leaf /\ s \in Seq(Nat) /\ s # <<>>
  BY <1>6, <1>12, NodeAtHead, Stepped, ZenonT(60) DEF kid
<1> HIDE DEF leaf
<1>17. /\ Placed(kid, l) /\ Size(less) = Size(leaf) - 1
       /\ In(W, f, sub, parts[g] \ {b}, l)
       /\ l # <<>> => Size(sub) = Size(kid)
  BY <1>15 DEF Taken, leaf, WithoutLast, Final
<1>18. l = <<>> \/ Size(sub) \in W  BY <1>11, <1>17
<1>19. Inner(node, key) = res
  <2>1. Inner(node, key) = PutAt(Exchanged(node, i, Final(leaf)), s, WithoutLast(leaf))
    BY <1>5, <1>16 DEF Inner, i
  <2>2. PutAt(Exchanged(node, i, b), <<i>> \o l, less) = Swap(node, i, b, sub)
    <3> HIDE DEF b, less, res
    <3> QED  BY <1>2, <1>6, <1>12, ExchangedIs DEF kid
  <2> QED  BY <2>1, <2>2 DEF Swap
<1>20. NodeAt(sub, l) = less  BY <1>17 DEF Placed
<1> DEFINE B == parts[g] \ {b}
           now == [parts EXCEPT ![g] = B]
           kg == [node.keys EXCEPT ![g] = b]
<1>21. Ordered(kg, now) /\ All(kg, now) = A \ {key}
  <2>1. /\ Ordered(kg, now)
        /\ All(kg, now) = All(node.keys, parts) \ {node.keys[g]}
    BY <1>2, <1>6, <1>13, Swapped
  <2> QED  BY <1>1, <1>7, <2>1
<1>22. ks = kg /\ Len(ks) = Len(node.keys)
  <2>1. node.keys \in Seq(Key)  BY <1>2 DEF Ordered
  <2> HIDE DEF b
  <2>2. ks = kg  BY <1>6
  <2>3. Len(ks) = Len(node.keys)  BY <2>1
  <2> QED  BY <2>2, <2>3
<1> HIDE DEF less, sub, b
<1>23. KidAt(res, i) = sub
  <2>1. res.kids = [node.kids EXCEPT ![i + 1] = sub]  OBVIOUS
  <2>2. i + 1 \in DOMAIN node.kids  BY <1>6, <1>9
  <2> HIDE DEF res
  <2>3. res.kids[i + 1] = sub  BY <2>1, <2>2
  <2> QED  BY <2>3 DEF KidAt
<1>24. res.keys = ks /\ Size(res) = Size(node)  BY <1>22 DEF Size
<1> HIDE DEF kg, now, B, ks
<1>25. Holds(W, h, res, now, s)
  <2> DEFINE e == <<>>
  <2>1. Holds(W, f + 1, node, parts, <<i>> \o e) /\ e \in Seq(Nat)
    <3>1. Holds(W, f + 1, node, parts, <<>>)  BY <1>1, <1>6
    <3>2. Holds(W, f + 1, node, parts, <<i>> \o <<>>)  BY <1>6, <3>1, SomeChild
    <3> QED  BY <3>2
  <2>2. Ordered(ks, [parts EXCEPT ![i + 1] = B]) /\ In(W, f, sub, B, l)
    BY <1>6, <1>17, <1>21, <1>22 DEF now, B
  <2> HIDE DEF e, res
  <2>3. Holds(W, f + 1, [keys |-> ks, kids |-> [node.kids EXCEPT ![i + 1] = sub]],
               [parts EXCEPT ![i + 1] = B], <<i>> \o l)
    BY <1>6, <1>18, <1>22, <2>1, <2>2, KidReplaced
  <2> QED  BY <1>6, <2>3 DEF res, now
<1> HIDE DEF res
<1>26. In(W, h, res, A \ {key}, s)
  <2>1. In(W, h, res, All(res.keys, now), s)  BY <1>25, HoldsIn
  <2> QED  BY <1>21, <1>22, <1>24, <2>1
<1>27. NodeAt(res, s) = less
  <2>1. NodeAt(res, <<i>> \o l) = NodeAt(KidAt(res, i), l)  BY <1>6, <1>12, NodeAtHead
  <2> QED  BY <1>20, <1>23, <2>1
<1> HIDE DEF s
<1> QED  BY <1>5, <1>13, <1>16, <1>17, <1>19, <1>24, <1>26, <1>27

\* The step of Erase at the end of a way, for a key of an inner node.
Exchange(node, key, p, i, last, leaf, new) ==
  /\ Found(key, NodeAt(node, p)) /\ ~IsLeaf(NodeAt(node, p))
  /\ i = find_index(key, NodeAt(node, p))
  /\ last = p \o <<i>> \o Last_path(KidAt(NodeAt(node, p), i))
  /\ leaf = NodeAt(node, last)
  /\ new = PutAt(PutAt(node, p, Exchanged(NodeAt(node, p), i, Final(leaf))), last, WithoutLast(leaf))

\* The tree without a key of an inner node.
LEMMA ErasedInner ==
  ASSUME BTreeParameters, NEW W, Sizes(W), NEW h, NEW node, NEW S,
         In(W, h, node, S, <<>>), NEW key \in Key, NEW p \in Seq(Nat), Real(node, p),
         NEW i, NEW last, NEW leaf, NEW new, Exchange(node, key, p, i, last, leaf, new)
  PROVE  /\ last \in Seq(Nat) /\ last # <<>>
         /\ In(W, h, new, S \ {key}, last)
         /\ Size(new) = Size(node)
         /\ Size(leaf) \in W /\ Size(NodeAt(new, last)) = Size(leaf) - 1
<1> DEFINE at == NodeAt(node, p)
           s == WayBefore(at, key)
           sub == Inner(at, key)
           g == h - Len(p)
<1>1. PICK A : Down(W, h, node, S, p, <<>>, A)  BY DownFull
<1>2. p = <<>> \/ Size(at) \in W  BY DownFull
<1>3. Found(key, at) /\ ~IsLeaf(at) /\ i = find_index(key, at)
      /\ last = p \o <<i>> \o Last_path(KidAt(at, i))
      /\ leaf = NodeAt(node, last)
      /\ new = PutAt(PutAt(node, p, Exchanged(at, i, Final(leaf))), last, WithoutLast(leaf))
  BY DEF Exchange
<1> HIDE DEF at, g
<1>4. /\ A \subseteq S /\ Placed(node, p) /\ In(W, g, at, A, <<>>)
      /\ \A x, B, q :
           /\ B \subseteq A /\ In(W, g, x, B, q)
           /\ p = <<>> \/ q = <<>> \/ Size(x) \in W
           => /\ In(W, h, PutAt(node, p, x), (S \ A) \cup B, p \o q)
              /\ p # <<>> => Size(PutAt(node, p, x)) = Size(node)
  BY <1>1 DEF Down, at, g
<1>5. /\ s \in Seq(Nat) /\ s # <<>> /\ Size(NodeAt(at, s)) \in W
      /\ In(W, g, sub, A \ {key}, s)
      /\ Size(sub) = Size(at) /\ Size(NodeAt(sub, s)) = Size(NodeAt(at, s)) - 1
  <2>1. In(W, g, at, A, <<>>) /\ Found(key, at) /\ ~IsLeaf(at)  BY <1>3, <1>4
  <2> QED  BY <2>1, InnerHolds
<1>6. last = p \o s
  <2> DEFINE l == Last_path(KidAt(at, i))
  <2>1. i \in Nat /\ l \in Seq(Nat)
    <3>1. PICK parts : Holds(W, g, at, parts, <<>>)  BY <1>4, InHolds
    <3>2. Ordered(at.keys, parts)  BY <3>1 DEF Holds
    <3>3. i \in 0..Len(at.keys) - 1  BY <1>3, <3>2, KeyOfIndex
    <3>4. i \in Nat /\ i < Len(at.kids)
      <4>1. Len(at.kids) = Size(at) + 1 /\ Size(at) \in Nat /\ Size(at) = Len(at.keys)
        BY <1>3, <1>4, Facts
      <4> QED  BY <3>3, <4>1
    <3>5. \E P, e : In(W, g - 1, KidAt(at, i), P, e)  BY <1>4, <3>4, ChildIn
    <3> QED  BY <3>4, <3>5, PathEnds
  <2>2. s = <<i>> \o l  BY <1>3 DEF WayBefore
  <2> HIDE DEF l, s
  <2>5. <<i>> \in Seq(Nat)  BY <2>1
  <2>6. last = p \o <<i>> \o l  BY <1>3 DEF l
  <2>3. <<i>> \in Seq(Nat) /\ last = (p \o <<i>>) \o l  BY <2>5, <2>6
  <2>4. (p \o <<i>>) \o l = p \o (<<i>> \o l)  BY <2>1, <2>3, ConcatAssociative, SMTT(60)
  <2> QED  BY <2>2, <2>3, <2>4
<1>7. leaf = NodeAt(at, s)
  <2>1. NodeAt(node, p \o s) = NodeAt(NodeAt(node, p), s)  BY <1>5, NodeAtAfter
  <2>2. leaf = NodeAt(node, last)  BY <1>3
  <2> QED  BY <1>6, <2>1, <2>2 DEF at
<1>8. new = PutAt(node, p, sub)
  <2> DEFINE x == Exchanged(at, i, Final(leaf))
             y == WithoutLast(leaf)
  <2>1. PutAt(PutAt(node, p, x), p \o s, y) = PutAt(node, p, PutAt(x, s, y))
    BY <1>4, <1>5 DEF Placed
  <2>2. PutAt(x, s, y) = sub
    <3> HIDE DEF s
    <3>1. Inner(at, key) = PutAt(Exchanged(at, find_index(key, at), Final(NodeAt(at, s))), s,
                                 WithoutLast(NodeAt(at, s)))
      BY DEF Inner, s
    <3> QED  BY <1>3, <1>7, <3>1
  <2> QED  BY <1>3, <1>6, <2>1, <2>2
<1> HIDE DEF s, sub
<1>9. last \in Seq(Nat) /\ last # <<>>
  <2>1. p \o s \in Seq(Nat) /\ Len(p \o s) = Len(p) + Len(s)  BY <1>5, After
  <2>2. Len(p) \in Nat /\ Len(s) \in Nat /\ Len(s) # 0  BY <1>5
  <2>3. Len(<<>>) = 0  OBVIOUS
  <2>4. Len(p \o s) # 0  BY <2>1, <2>2
  <2> QED  BY <1>6, <2>1, <2>3, <2>4
<1>10. /\ In(W, h, PutAt(node, p, sub), (S \ A) \cup (A \ {key}), p \o s)
       /\ p # <<>> => Size(PutAt(node, p, sub)) = Size(node)
  <2>1. A \ {key} \subseteq A /\ (p = <<>> \/ Size(sub) \in W)  BY <1>2, <1>5
  <2> QED  BY <1>4, <1>5, <2>1
<1>11. (S \ A) \cup (A \ {key}) = S \ {key}
  <2>1. key \in A
    <3>1. Range(at.keys) \subseteq A  BY <1>4, Facts
    <3> QED  BY <1>3, <3>1 DEF Found, Range
  <2> QED  BY <1>4, <2>1
<1>12. Size(new) = Size(node)
  <2>1. CASE p = <<>>
    <3>1. at = node /\ PutAt(node, p, sub) = sub  BY <2>1, NodeAtHere, PutAtHere DEF at
    <3> QED  BY <1>5, <1>8, <3>1
  <2> QED  BY <1>8, <1>10, <2>1
<1>13. NodeAt(new, last) = NodeAt(sub, s)
  <2>1. NodeAt(new, p) = sub  BY <1>4, <1>8 DEF Placed
  <2>2. NodeAt(new, p \o s) = NodeAt(NodeAt(new, p), s)  BY <1>5, NodeAtAfter
  <2> QED  BY <1>6, <2>1, <2>2
<1> QED  BY <1>5, <1>6, <1>7, <1>8, <1>9, <1>10, <1>11, <1>12, <1>13

(***************************************************************************)
(* From a node to its parent.                                              *)
(***************************************************************************)

\* A path that is not empty is the one to the parent and a child's number.
LEMMA FrontLast ==
  ASSUME NEW e \in Seq(Nat), e # <<>>
  PROVE  Front(e) \in Seq(Nat) /\ Last(e) \in Nat /\ e = Front(e) \o <<Last(e)>>
<1> DEFINE n == Len(e)
           f == Front(e)
           l == Last(e)
<1>1. n \in Nat /\ n # 0 /\ n \in 1..n /\ n - 1 \in 1 - 1..n /\ 1 \in 1..n + 1  OBVIOUS
<1>2. f = SubSeq(e, 1, n - 1) /\ l = e[n]  BY DEF Front, Last
<1>3. l \in Nat  BY <1>1, <1>2, ElementOfSeq
<1> HIDE DEF n, f, l
<1> DEFINE m == n - 1
<1>4. m \in Nat /\ m - 1 + 1 = m /\ m + 1 = n /\ m \in 1 - 1..n  BY <1>1
<1> HIDE DEF m
<1>5. f \in Seq(Nat) /\ Len(f) = m /\ \A j \in 1..m : f[j] = e[j]
  <2>1. /\ SubSeq(e, 1, m) \in Seq(Nat) /\ Len(SubSeq(e, 1, m)) = m - 1 + 1
        /\ \A j \in 1..m - 1 + 1 : SubSeq(e, 1, m)[j] = e[1 + j - 1]
    BY <1>1, <1>4, PartOf DEF n
  <2>2. \A j \in 1..m : 1 + j - 1 = j  OBVIOUS
  <2>3. SubSeq(e, 1, m) = f  BY <1>2 DEF m
  <2> QED  BY <1>4, <2>1, <2>2, <2>3
<1>6. <<l>> \in Seq(Nat) /\ Len(<<l>>) = 1 /\ <<l>>[1] = l  BY <1>3
<1> DEFINE r == f \o <<l>>
<1>7. r \in Seq(Nat) /\ Len(r) = m + 1 /\ (\A j \in 1..m : r[j] = e[j]) /\ r[m + 1] = l
  <2> DEFINE q == <<l>>
  <2>1. q \in Seq(Nat) /\ Len(q) = 1 /\ q[1] = l /\ 1 \in 1..1  BY <1>6
  <2> HIDE DEF q
  <2>2. /\ f \o q \in Seq(Nat) /\ Len(f \o q) = Len(f) + Len(q)
        /\ \A i \in 1..Len(f) : (f \o q)[i] = f[i]
        /\ \A i \in 1..Len(q) : (f \o q)[Len(f) + i] = q[i]
    <3>1. f \in Seq(Nat) /\ q \in Seq(Nat)  BY <1>5, <2>1
    <3> QED  BY <3>1, After, SMTT(60)
  <2>3. r = f \o q  BY DEF q
  <2> HIDE DEF r
  <2> QED  BY <1>5, <2>1, <2>2, <2>3
<1> HIDE DEF r
<1>8. e = r
  <2>1. Len(e) = n /\ e \in Seq(Nat) /\ Len(r) = n  BY <1>4, <1>7 DEF n
  <2>2. ASSUME NEW j \in 1..n PROVE e[j] = r[j]
    <3>1. CASE j = n  BY <1>2, <1>4, <1>7, <3>1
    <3>2. CASE j # n
      <4>1. j \in 1..m  BY <1>1, <1>4, <3>2
      <4> QED  BY <1>7, <4>1
    <3> QED  BY <3>1, <3>2
  <2> QED  BY <1>7, <2>1, <2>2, SameSeq
<1> QED  BY <1>3, <1>5, <1>8 DEF f, l, r

\* The parent of the exempted node, and what may be put in its place.
Climbs(W, h, node, S, e, A, parts, f) ==
  LET par == NodeAt(node, Front(e)) IN
  /\ Front(e) \in Seq(Nat) /\ Last(e) \in Nat
  /\ Open(W, f, par, parts, Last(e)) /\ A = All(par.keys, parts)
  /\ NodeAt(node, e) = KidAt(par, Last(e))
  /\ Front(e) = <<>> => par = node /\ f + 1 = h
  /\ Front(e) = <<>> \/ Size(par) \in W
  /\ \A new :
       /\ NodeAt(PutAt(node, Front(e), new), Front(e)) = new
       /\ Front(e) = <<>> => PutAt(node, Front(e), new) = new
       /\ Front(e) # <<>> /\ In(W, f + 1, new, A, <<>>) => Size(PutAt(node, Front(e), new)) = Size(node)
       /\ In(W, f + 1, new, A, <<>>) => In(W, h, PutAt(node, Front(e), new), S, Front(e))

\* The exempted node has a parent, which may be given up for another node of its height and keys.
LEMMA Climb ==
  ASSUME BTreeParameters, NEW W, NEW h, NEW node, NEW S, NEW e, In(W, h, node, S, e), e # <<>>
  PROVE  \E A, parts, f : Climbs(W, h, node, S, e, A, parts, f)
<1> DEFINE p == Front(e)
           l == Last(e)
           r == <<l>>
           par == NodeAt(node, p)
           g == h - Len(p)
           f == g - 1
<1>1. e \in Seq(Nat)  BY Facts
<1>2. p \in Seq(Nat) /\ l \in Nat /\ e = p \o r  BY <1>1, FrontLast
<1> HIDE DEF p, l
<1>3. r \in Seq(Nat) /\ r # <<>>  BY <1>2
<1>4. NodeAt(node, e) = KidAt(par, l)
  <2>1. NodeAt(node, p \o r) = NodeAt(NodeAt(node, p), r)  BY <1>2, <1>3, NodeAtAfter
  <2>2. NodeAt(par, <<l>>) = KidAt(par, l)  BY <1>2, NodeAtStep
  <2> QED  BY <1>2, <2>1, <2>2
<1>5. PICK A : Down(W, h, node, S, p, r, A)  BY <1>2, <1>3, Descend
<1> HIDE DEF r, par, g
<1>6. /\ A \subseteq S /\ Placed(node, p) /\ In(W, g, par, A, r)
      /\ p = <<>> \/ r = <<>> \/ Size(par) \in W
      /\ \A new, B, q :
           /\ B \subseteq A /\ In(W, g, new, B, q)
           /\ p = <<>> \/ q = <<>> \/ Size(new) \in W
           => /\ In(W, h, PutAt(node, p, new), (S \ A) \cup B, p \o q)
              /\ p # <<>> => Size(PutAt(node, p, new)) = Size(node)
  BY <1>5 DEF Down, par, g
<1>7. PICK parts : Open(W, f, par, parts, l) /\ A = All(par.keys, parts) /\ g \in Nat \ {0}
  <2>1. In(W, g, par, A, <<l>>)  BY <1>6 DEF r
  <2> QED  BY <1>2, <2>1, Opened
<1>8. f + 1 = g  BY <1>7
<1>9. p = <<>> => par = node /\ f + 1 = h
  <2>1. ASSUME p = <<>> PROVE par = node /\ g = h
    <3>1. Len(p) = 0 /\ h \in Nat  BY <2>1, Facts
    <3> QED  BY <2>1, <3>1, NodeAtHere DEF par, g
  <2> QED  BY <1>8, <2>1
<1> HIDE DEF f
<1>10. ASSUME NEW new
       PROVE  /\ NodeAt(PutAt(node, p, new), p) = new
              /\ p = <<>> => PutAt(node, p, new) = new
              /\ p # <<>> /\ In(W, g, new, A, <<>>) => Size(PutAt(node, p, new)) = Size(node)
              /\ In(W, g, new, A, <<>>) => In(W, h, PutAt(node, p, new), S, p)
  <2>1. NodeAt(PutAt(node, p, new), p) = new  BY <1>6 DEF Placed
  <2>2. p = <<>> => PutAt(node, p, new) = new  BY PutAtHere
  <2>3. ASSUME In(W, g, new, A, <<>>)
        PROVE  /\ In(W, h, PutAt(node, p, new), S, p)
               /\ p # <<>> => Size(PutAt(node, p, new)) = Size(node)
    <3>1. A \subseteq A /\ (S \ A) \cup A = S /\ p \o <<>> = p  BY <1>2, <1>6
    <3>2. /\ In(W, h, PutAt(node, p, new), (S \ A) \cup A, p \o <<>>)
          /\ p # <<>> => Size(PutAt(node, p, new)) = Size(node)
      BY <1>6, <2>3, <3>1
    <3> QED  BY <3>1, <3>2
  <2> QED  BY <2>1, <2>2, <2>3
<1>11. Climbs(W, h, node, S, e, A, parts, f)
  <2>1. p = <<>> \/ Size(par) \in W  BY <1>3, <1>6
  <2> HIDE DEF r
  <2> QED  BY <1>2, <1>4, <1>7, <1>8, <1>9, <1>10, <2>1 DEF Climbs, p, l, par
<1> QED  BY <1>11

(***************************************************************************)
(* The child that goes from a brother to the other.                        *)
(***************************************************************************)

\* What BorrowLeft puts before a node's keys is what From leaves of the brother.
LEMMA FirstIs ==
  ASSUME NEW W, NEW h, NEW brother, NEW S, In(W, h, brother, S, <<>>),
         NEW node, IsLeaf(node) <=> h = 0
  PROVE  [keys |-> <<>>, kids |-> IF IsLeaf(node) THEN <<>> ELSE <<KidAt(brother, Size(brother))>>]
           = From(brother, Size(brother))
<1> DEFINE n == Size(brother)
<1>1. /\ h \in Nat /\ brother.keys \in Seq(Key) /\ n = Len(brother.keys) /\ n \in Nat
      /\ IsLeaf(brother) <=> h = 0
      /\ h # 0 => Len(brother.kids) = n + 1
  BY Facts
<1>2. SubSeq(brother.keys, n + 1, n) = <<>>
  <2>1. n + 1 \in 1..Len(brother.keys) + 1 /\ n \in (n + 1) - 1..Len(brother.keys)  BY <1>1
  <2> HIDE DEF n
  <2> DEFINE a == n + 1
  <2>2. a \in 1..Len(brother.keys) + 1 /\ n \in a - 1..Len(brother.keys) /\ n - a + 1 = 0
    BY <1>1, <2>1
  <2> HIDE DEF a
  <2>3. SubSeq(brother.keys, a, n) \in Seq(Key) /\ Len(SubSeq(brother.keys, a, n)) = n - a + 1
    BY <1>1, <2>2, PartOf
  <2> QED  BY <2>2, <2>3 DEF a
<1> HIDE DEF n
<1>3. CASE h = 0
  <2>1. IsLeaf(node) /\ IsLeaf(brother)  BY <1>1, <1>3
  <2>2. Kids(brother, n + 1, Len(brother.kids)) = <<>>  BY <2>1 DEF Kids
  <2> QED  BY <1>2, <2>1, <2>2 DEF From, n
<1>4. CASE h # 0
  <2>1. ~IsLeaf(node) /\ ~IsLeaf(brother) /\ Len(brother.kids) = n + 1  BY <1>1, <1>4
  <2>2. PICK parts : Holds(W, h, brother, parts, <<>>)  BY InHolds
  <2>3. brother.kids \in Seq(Nodes(Trees(W, h - 1)))  BY <1>4, <2>2 DEF Holds
  <2> DEFINE q == brother.kids
             X == Nodes(Trees(W, h - 1))
             a == n + 1
  <2>4. q \in Seq(X) /\ Len(q) = a /\ a \in 1..a /\ a \in Nat  BY <1>1, <2>1, <2>3
  <2> HIDE DEF q, X, a
  <2>5. SubSeq(q, a, a) = <<q[a]>>
    <3>1. a \in 1..Len(q) + 1 /\ a \in a - 1..Len(q) /\ a - a + 1 = 1 /\ a + 1 - 1 = a  BY <2>4
    <3>2. /\ SubSeq(q, a, a) \in Seq(X) /\ Len(SubSeq(q, a, a)) = a - a + 1
          /\ \A i \in 1..a - a + 1 : SubSeq(q, a, a)[i] = q[a + i - 1]
      BY <2>4, <3>1, PartOf
    <3> DEFINE s == SubSeq(q, a, a)
    <3>3. s \in Seq(X) /\ Len(s) = 1 /\ s[1] = q[a]  BY <3>1, <3>2
    <3> HIDE DEF s
    <3>4. s = <<s[1]>>  BY <3>3
    <3> QED  BY <3>3, <3>4 DEF s
  <2>6. Kids(brother, n + 1, Len(brother.kids)) = <<KidAt(brother, n)>>
    BY <2>1, <2>4, <2>5 DEF Kids, KidAt, q, a
  <2> QED  BY <1>2, <2>1, <2>6 DEF From, n
<1> QED  BY <1>3, <1>4

\* What BorrowRight puts after a node's keys is what Upto leaves of the brother.
LEMMA NextIs ==
  ASSUME NEW W, NEW h, NEW brother, NEW S, In(W, h, brother, S, <<>>),
         NEW node, IsLeaf(node) <=> h = 0
  PROVE  [keys |-> <<>>, kids |-> IF IsLeaf(node) THEN <<>> ELSE <<KidAt(brother, 0)>>]
           = Upto(brother, 0)
<1> DEFINE n == Size(brother)
<1>1. /\ h \in Nat /\ brother.keys \in Seq(Key) /\ n = Len(brother.keys) /\ n \in Nat
      /\ IsLeaf(brother) <=> h = 0
      /\ h # 0 => Len(brother.kids) = n + 1
  BY Facts
<1>2. SubSeq(brother.keys, 1, 0) = <<>>
  <2>1. 1 \in 1..Len(brother.keys) + 1 /\ 0 \in 1 - 1..Len(brother.keys) /\ 0 - 1 + 1 = 0  BY <1>1
  <2>2. SubSeq(brother.keys, 1, 0) \in Seq(Key) /\ Len(SubSeq(brother.keys, 1, 0)) = 0 - 1 + 1
    BY <1>1, <2>1, PartOf
  <2> QED  BY <2>1, <2>2
<1> HIDE DEF n
<1>3. CASE h = 0
  <2>1. IsLeaf(node) /\ IsLeaf(brother)  BY <1>1, <1>3
  <2>2. Kids(brother, 1, 0 + 1) = <<>>  BY <2>1 DEF Kids
  <2> QED  BY <1>2, <2>1, <2>2 DEF Upto
<1>4. CASE h # 0
  <2>1. ~IsLeaf(node) /\ ~IsLeaf(brother) /\ Len(brother.kids) = n + 1  BY <1>1, <1>4
  <2>2. PICK parts : Holds(W, h, brother, parts, <<>>)  BY InHolds
  <2>3. brother.kids \in Seq(Nodes(Trees(W, h - 1)))  BY <1>4, <2>2 DEF Holds
  <2> DEFINE q == brother.kids
             X == Nodes(Trees(W, h - 1))
  <2>4. q \in Seq(X) /\ Len(q) = n + 1 /\ n \in Nat  BY <1>1, <2>1, <2>3
  <2> HIDE DEF q, X
  <2>5. SubSeq(q, 1, 1) = <<q[1]>>
    <3>1. 1 \in 1..Len(q) + 1 /\ 1 \in 1 - 1..Len(q) /\ 1 - 1 + 1 = 1 /\ 1 + 1 - 1 = 1  BY <2>4
    <3>2. /\ SubSeq(q, 1, 1) \in Seq(X) /\ Len(SubSeq(q, 1, 1)) = 1 - 1 + 1
          /\ \A i \in 1..1 - 1 + 1 : SubSeq(q, 1, 1)[i] = q[1 + i - 1]
      BY <2>4, <3>1, PartOf
    <3> DEFINE s == SubSeq(q, 1, 1)
    <3>3. s \in Seq(X) /\ Len(s) = 1 /\ s[1] = q[1]  BY <3>1, <3>2
    <3> HIDE DEF s
    <3>4. s = <<s[1]>>  BY <3>3
    <3> QED  BY <3>3, <3>4 DEF s
  <2>6. Kids(brother, 1, 0 + 1) = <<KidAt(brother, 0)>>
    BY <2>1, <2>5 DEF Kids, KidAt, q
  <2> QED  BY <1>2, <2>1, <2>6 DEF Upto
<1> QED  BY <1>3, <1>4

(***************************************************************************)
(* The steps of the loops, on a tree of degree d in the state w, with the  *)
(* keys S and the way e.                                                   *)
(***************************************************************************)

Wide(d) == d - 1..2 * d - 1

Sized(d, w, node, e) ==
  /\ w = "none" => e = <<>> /\ (node = Nil \/ Size(node) \in 1..2 * d - 1)
  /\ w = "insert" => /\ Size(NodeAt(node, e)) \in (IF e = <<>> THEN 1 ELSE d - 1)..2 * d
                     /\ e # <<>> => Size(node) \in 1..2 * d - 1
  /\ w = "erase" => /\ e = <<>> => node = Nil \/ Size(node) \in 1..2 * d - 1
                    /\ e # <<>> => /\ Size(NodeAt(node, e)) \in d - 2..2 * d - 1
                                   /\ Size(node) \in 1..2 * d - 1

Tree(d, w, node, S, e) == (\E h : In(Wide(d), h, node, S, e)) /\ Sized(d, w, node, e)

\* From degree 2 a node of a right size has a key.
LEMMA WideSizes ==
  ASSUME NEW d \in Nat \ {0, 1}
  PROVE  Sizes(Wide(d))
BY DEF Sizes, Wide

\* A node without keys and children is Nil.
LEMMA NilIs ==
  ASSUME NEW W, NEW h, NEW node, NEW S, NEW e, In(W, h, node, S, e), IsLeaf(node), Size(node) = 0
  PROVE  node = Nil
<1>1. node = [keys |-> node.keys, kids |-> node.kids] /\ node.keys \in Seq(Key) /\ Len(node.keys) = 0
  BY Facts
<1>2. node.keys = <<>> /\ node.kids = <<>>  BY <1>1 DEF IsLeaf
<1> QED  BY <1>1, <1>2 DEF Nil

\* There is no key in Nil.
LEMMA NilEmpty ==
  ASSUME NEW W, NEW h, NEW S, NEW e, In(W, h, Nil, S, e)
  PROVE  S = {} /\ h = 0 /\ e = <<>>
<1>1. Nil.kids = <<>> /\ Nil.keys = <<>> /\ Len(<<>>) = 0  BY DEF Nil
<1>2. h = 0  BY <1>1, Facts DEF IsLeaf
<1>3. In(W, 0, Nil, S, e)  BY <1>2
<1>4. PICK parts : Ordered(Nil.keys, parts) /\ S = All(Nil.keys, parts) /\ Bare(parts) /\ e = <<>>
  BY <1>3, LeafHolds
<1>5. ASSUME NEW x \in S PROVE FALSE
  <2>1. Ordered(<<>>, parts) /\ x \in All(<<>>, parts)  BY <1>1, <1>4, <1>5
  <2>2. \/ \E j \in 1..Len(<<>>) : x = <<>>[j]
        \/ \E j \in 1..Len(parts) : x \in parts[j]
    BY <2>1, AllIs
  <2>3. \A j \in 1..0 : FALSE  OBVIOUS
  <2> QED  BY <1>1, <1>4, <2>2, <2>3 DEF Bare
<1> QED  BY <1>2, <1>4, <1>5

(***************************************************************************)
(* A split.                                                                *)
(***************************************************************************)

\* A node in two, and the key between them.
Parted(W, h, P, left, L, k, right, R) ==
  /\ In(W, h, left, L, <<>>) /\ In(W, h, right, R, <<>>)
  /\ k \in Key /\ (\A x \in L : x < k) /\ (\A x \in R : k < x)
  /\ P = L \cup {k} \cup R
Halved(W, h, P, left, L, k, right, R) ==
  Parted(W, h, P, left, L, k, right, R) /\ Size(left) \in W /\ Size(right) \in W

\* A node cut in two is two trees with a key between them.
LEMMA Parts ==
  ASSUME BTreeParameters, NEW W, NEW h, NEW node, NEW P, In(W, h, node, P, <<>>),
         NEW s \in 1..Size(node)
  PROVE  /\ \E L, R : Parted(W, h, P, Upto(node, s - 1), L, KeyAt(node, s - 1), From(node, s), R)
         /\ Size(Upto(node, s - 1)) = s - 1 /\ Size(From(node, s)) = Size(node) - s
<1>1. PICK L, R :
           /\ In(W, h, Upto(node, s - 1), L, <<>>) /\ Size(Upto(node, s - 1)) = s - 1
           /\ In(W, h, From(node, s), R, <<>>) /\ Size(From(node, s)) = Size(node) - s
           /\ KeyAt(node, s - 1) \in Key /\ P = L \cup {KeyAt(node, s - 1)} \cup R
           /\ \A x \in L : x < KeyAt(node, s - 1)
           /\ \A x \in R : KeyAt(node, s - 1) < x
  BY Cut
<1>2. Parted(W, h, P, Upto(node, s - 1), L, KeyAt(node, s - 1), From(node, s), R)  BY <1>1 DEF Parted
<1> QED  BY <1>1, <1>2

\* A node of 2t keys splits into two of the right size.
LEMMA HalvesAre ==
  ASSUME BTreeParameters, NEW d \in Nat \ {0, 1}, NEW h, NEW node, NEW P,
         In(Wide(d), h, node, P, <<>>), Size(node) = 2 * d
  PROVE  \E L, R : Halved(Wide(d), h, P, Halves(node).left, L, Halves(node).key, Halves(node).right, R)
<1> DEFINE W == Wide(d)
           half == Halves(node)
<1>1. half.left = Upto(node, d - 1) /\ half.key = KeyAt(node, d - 1) /\ half.right = From(node, d)
  <2>1. SplitAt(node) = d  BY DEF SplitAt
  <2> QED  BY <2>1 DEF Halves
<1>2. In(W, h, node, P, <<>>) /\ d \in 1..Size(node)  OBVIOUS
<1>3. d - 1 \in W /\ Size(node) - d \in W  BY DEF Wide
<1> HIDE DEF half, W
<1>4. /\ \E L, R : Parted(W, h, P, Upto(node, d - 1), L, KeyAt(node, d - 1), From(node, d), R)
      /\ Size(Upto(node, d - 1)) = d - 1 /\ Size(From(node, d)) = Size(node) - d
  BY <1>2, Parts
<1>5. PICK L, R : Parted(W, h, P, half.left, L, half.key, half.right, R)  BY <1>1, <1>4
<1>6. Halved(W, h, P, half.left, L, half.key, half.right, R)
  BY <1>1, <1>3, <1>4, <1>5 DEF Halved
<1> QED  BY <1>6 DEF half, W

\* A new root.
LEMMA RootOfHalves ==
  ASSUME BTreeParameters, NEW W, NEW h, NEW P, NEW left, NEW L, NEW k, NEW right, NEW R,
         Halved(W, h, P, left, L, k, right, R)
  PROVE  /\ In(W, h + 1, [keys |-> <<k>>, kids |-> <<left, right>>], P, <<>>)
         /\ Size([keys |-> <<k>>, kids |-> <<left, right>>]) = 1
<1> DEFINE ck == <<k>>
           cp == <<L, R>>
           cc == <<left, right>>
           H == h + 1
           X == Nodes(Trees(W, h))
           res == [keys |-> ck, kids |-> cc]
<1>1. /\ In(W, h, left, L, <<>>) /\ Size(left) \in W
      /\ In(W, h, right, R, <<>>) /\ Size(right) \in W
      /\ k \in Key /\ (\A x \in L : x < k) /\ (\A x \in R : k < x)
      /\ P = L \cup {k} \cup R
  BY DEF Halved, Parted
<1>2. h \in Nat /\ L \in SUBSET Key /\ R \in SUBSET Key /\ left \in X /\ right \in X
  BY <1>1, Facts
<1>3. Ordered(ck, cp) /\ All(ck, cp) = P  BY <1>1, <1>2, OneOrdered
<1>4. H \in Nat /\ H # 0 /\ H - 1 = h  BY <1>2
<1> HIDE DEF X
<1>5. /\ cc \in Seq(X) /\ Len(cc) = 2 /\ Len(cp) = 2 /\ Len(ck) = 1
      /\ cc[1] = left /\ cc[2] = right /\ cp[1] = L /\ cp[2] = R /\ \A j \in 1..2 : j = 1 \/ j = 2
  BY <1>2
<1> HIDE DEF ck, cp, cc, H
<1>6. res.keys = ck /\ res.kids = cc /\ res = [keys |-> res.keys, kids |-> res.kids]  OBVIOUS
<1> HIDE DEF res
<1>7. \A j \in 1..Len(cp) : In(W, H - 1, cc[j], cp[j], <<>>) /\ Size(cc[j]) \in W
  BY <1>1, <1>4, <1>5
<1>8. Holds(W, H, res, cp, <<>>)
  BY <1>3, <1>4, <1>5, <1>6, <1>7, FullHolds DEF X
<1>9. In(W, H, res, All(res.keys, cp), <<>>)  BY <1>8, HoldsIn
<1>10. Size(res) = 1  BY <1>5, <1>6 DEF Size
<1> QED  BY <1>3, <1>6, <1>9, <1>10 DEF res, ck, cc, H

SplitPar(par, i, half) ==
  [keys |-> InsertAt(par.keys, i + 1, half.key),
   kids |-> InsertAt([par.kids EXCEPT ![i + 1] = half.left], i + 2, half.right)]

\* SplitNode at the root: the tree gets a level.
LEMMA SplitAtRoot ==
  ASSUME BTreeParameters, NEW d \in Nat \ {0, 1}, NEW node, NEW S, Tree(d, "insert", node, S, <<>>),
         Size(node) > 2 * d - 1
  PROVE  Tree(d, "insert", [keys |-> <<Halves(node).key>>, kids |-> <<Halves(node).left, Halves(node).right>>],
              S, <<>>)
<1> DEFINE W == Wide(d)
           half == Halves(node)
           res == [keys |-> <<half.key>>, kids |-> <<half.left, half.right>>]
<1>1. PICK h : In(W, h, node, S, <<>>)  BY DEF Tree
<1>2. Size(node) = 2 * d
  <2>1. Size(NodeAt(node, <<>>)) \in 1..2 * d  BY DEF Tree, Sized
  <2> QED  BY <2>1, NodeAtHere
<1>3. PICK L, R : Halved(W, h, S, half.left, L, half.key, half.right, R)  BY <1>1, <1>2, HalvesAre
<1> HIDE DEF half, W
<1>4. In(W, h + 1, res, S, <<>>) /\ Size(res) = 1  BY <1>3, RootOfHalves
<1> HIDE DEF res
<1>5. Sized(d, "insert", res, <<>>)
  <2>1. NodeAt(res, <<>>) = res /\ 1 \in 1..2 * d  BY NodeAtHere
  <2> QED  BY <1>4, <2>1 DEF Sized
<1> QED  BY <1>4, <1>5 DEF Tree, res, half, W

\* SplitNode below the root: the parent gets a key, and may be too large now.
LEMMA SplitBelow ==
  ASSUME BTreeParameters, NEW d \in Nat \ {0, 1}, NEW node, NEW S, NEW e, Tree(d, "insert", node, S, e),
         e # <<>>, Size(NodeAt(node, e)) > 2 * d - 1
  PROVE  Tree(d, "insert",
              PutAt(node, Front(e), SplitPar(NodeAt(node, Front(e)), Last(e), Halves(NodeAt(node, e)))),
              S, Front(e))
<1> DEFINE W == Wide(d)
           par == NodeAt(node, Front(e))
           at == NodeAt(node, e)
           half == Halves(at)
           i == Last(e)
           new == SplitPar(par, i, half)
           res == PutAt(node, Front(e), new)
<1>1. PICK h : In(W, h, node, S, e)  BY DEF Tree
<1>2. Size(at) = 2 * d /\ Size(node) \in 1..2 * d - 1
  <2>1. Size(NodeAt(node, e)) \in d - 1..2 * d  BY DEF Tree, Sized
  <2>2. Size(node) \in 1..2 * d - 1  BY DEF Tree, Sized
  <2> QED  BY <2>1, <2>2
<1>3. PICK A, parts, f : Climbs(W, h, node, S, e, A, parts, f)  BY <1>1, Climb
<1> HIDE DEF W, half, par, at, i
<1>4. /\ Open(W, f, par, parts, i) /\ A = All(par.keys, parts) /\ at = KidAt(par, i)
      /\ Front(e) = <<>> => par = node
      /\ Front(e) = <<>> \/ Size(par) \in W
  BY <1>3 DEF Climbs, par, at, i
<1>5. /\ NodeAt(PutAt(node, Front(e), new), Front(e)) = new
      /\ Front(e) = <<>> => PutAt(node, Front(e), new) = new
      /\ Front(e) # <<>> /\ In(W, f + 1, new, A, <<>>) => Size(PutAt(node, Front(e), new)) = Size(node)
      /\ In(W, f + 1, new, A, <<>>) => In(W, h, PutAt(node, Front(e), new), S, Front(e))
  BY <1>3 DEF Climbs
<1>6. In(W, f, at, parts[i + 1], <<>>)
  <2>1. i + 1 \in 1..Len(par.keys) + 1
    <3>1. i \in 0..Len(par.keys) /\ Len(par.keys) \in Nat  BY <1>4, OpenFacts DEF Open
    <3> QED  BY <3>1
  <2>2. In(W, f, par.kids[i + 1], parts[i + 1], <<>>)  BY <1>4, <2>1 DEF Open
  <2> QED  BY <1>4, <2>2 DEF KidAt
<1>7. PICK L, R : Halved(W, f, parts[i + 1], half.left, L, half.key, half.right, R)
  BY <1>2, <1>6, HalvesAre DEF half, W
<1>8. In(W, f + 1, new, A, <<>>) /\ Len(InsertAt(par.keys, i + 1, half.key)) = Len(par.keys) + 1
  BY <1>4, <1>7, Splitting DEF SplitPar, Halved, Parted
<1>9. Size(new) = Size(par) + 1
  BY <1>8 DEF Size, SplitPar
<1> HIDE DEF new
<1>10. /\ In(W, h, res, S, Front(e)) /\ NodeAt(res, Front(e)) = new
       /\ Front(e) # <<>> => Size(res) = Size(node)
  BY <1>5, <1>8
<1> HIDE DEF res
<1>11. Sized(d, "insert", res, Front(e))
  <2>1. CASE Front(e) = <<>>
    <3>1. Size(par) \in 1..2 * d - 1  BY <1>2, <1>4, <2>1
    <3>2. Size(new) \in 1..2 * d  BY <1>9, <3>1
    <3> QED  BY <1>10, <2>1, <3>2 DEF Sized
  <2>2. CASE Front(e) # <<>>
    <3>1. Size(par) \in d - 1..2 * d - 1  BY <1>4, <2>2 DEF W, Wide
    <3>2. Size(new) \in d - 1..2 * d  BY <1>9, <3>1
    <3> QED  BY <1>2, <1>10, <2>2, <3>2 DEF Sized
  <2> QED  BY <2>1, <2>2
<1> QED  BY <1>10, <1>11 DEF Tree, res, new, par, i, half, at, W

(***************************************************************************)
(* A borrowed key.                                                         *)
(***************************************************************************)

Rebal(par, a, left, key, right) ==
  [keys |-> [par.keys EXCEPT ![a + 1] = key],
   kids |-> [par.kids EXCEPT ![a + 1] = left, ![a + 2] = right]]

\* A node that may stand where a parent stood, with as many keys.
Replaces(W, h, par, parts, new) ==
  In(W, h + 1, new, All(par.keys, parts), <<>>) /\ Size(new) = Size(par)

\* The sizes of two nodes and the key between them make a node of a right size.
Summed(W, x, y) == Size(x) + 1 + Size(y) \in W

\* Two neighbours below a node, and the key between them.
Beside(W, h, par, parts, p, a) ==
  Open(W, h, par, parts, p) /\ a \in Nat /\ a + 1 \in 1..Len(par.keys) /\ (p = a \/ p = a + 1)

\* What is known of two neighbours and the key between them.
LEMMA BesideFacts ==
  ASSUME BTreeParameters, NEW W, NEW h, NEW par, NEW parts, NEW p, NEW a, Beside(W, h, par, parts, p, a)
  PROVE  /\ In(W, h, KidAt(par, a), parts[a + 1], <<>>) /\ (p # a => Size(KidAt(par, a)) \in W)
         /\ In(W, h, KidAt(par, a + 1), parts[a + 2], <<>>) /\ (p # a + 1 => Size(KidAt(par, a + 1)) \in W)
         /\ KeyAt(par, a) = par.keys[a + 1] /\ KeyAt(par, a) \in Key
         /\ \A x \in parts[a + 1] : x < KeyAt(par, a) /\ x \in Int
         /\ \A x \in parts[a + 2] : KeyAt(par, a) < x /\ x \in Int
<1> DEFINE b == a + 1
           c == a + 2
<1>1. Open(W, h, par, parts, p) /\ a \in Nat /\ b \in 1..Len(par.keys) /\ (p = a \/ p = a + 1)
  BY DEF Beside
<1>2. /\ Len(par.keys) \in Nat /\ Len(parts) = Len(par.keys) + 1
      /\ \A i \in 1..Len(par.keys) : /\ par.keys[i] \in Key /\ i \in 1..Len(parts)
                                     /\ i + 1 \in 1..Len(parts)
                                     /\ \A x \in parts[i] : x < par.keys[i]
                                     /\ \A x \in parts[i + 1] : par.keys[i] < x
      /\ \A i \in 1..Len(parts) : parts[i] \subseteq Key
  BY <1>1, OpenFacts
<1>3. KidAt(par, a) = par.kids[b] /\ KidAt(par, a + 1) = par.kids[c] /\ KeyAt(par, a) = par.keys[b]
  <2>1. (a + 1) + 1 = a + 2  BY <1>1
  <2> QED  BY <2>1 DEF KidAt, KeyAt
<1>4. b + 1 = c /\ c \in 1..Len(par.keys) + 1 /\ b \in 1..Len(par.keys) + 1 /\ b \in Nat
      /\ (b # p + 1 <=> p # a) /\ (c # p + 1 <=> p # a + 1)
  BY <1>1, <1>2
<1>5. \A j \in 1..Len(par.keys) + 1 :
        /\ In(W, h, par.kids[j], parts[j], <<>>)
        /\ j # p + 1 => Size(par.kids[j]) \in W
  BY <1>1 DEF Open
<1> HIDE DEF b, c
<1>6. /\ par.keys[b] \in Key
      /\ (\A x \in parts[b] : x < par.keys[b]) /\ (\A x \in parts[c] : par.keys[b] < x)
      /\ parts[b] \subseteq Key /\ parts[c] \subseteq Key
  BY <1>1, <1>2, <1>4
<1>7. Key \subseteq Int  BY DEF BTreeParameters
<1>8. /\ In(W, h, KidAt(par, a), parts[b], <<>>) /\ (p # a => Size(KidAt(par, a)) \in W)
      /\ In(W, h, KidAt(par, a + 1), parts[c], <<>>) /\ (p # a + 1 => Size(KidAt(par, a + 1)) \in W)
  BY <1>3, <1>4, <1>5
<1> QED  BY <1>3, <1>6, <1>7, <1>8 DEF b, c

\* Only the second half of Join.
LEMMA JoinSize ==
  ASSUME BTreeParameters, NEW W, NEW h, NEW left, NEW L, NEW k \in Key, NEW right, NEW R,
         In(W, h, left, L, <<>>), In(W, h, right, R, <<>>),
         \A x \in L : x < k, \A x \in R : k < x
  PROVE  Size(Joined(left, k, right)) = Size(left) + 1 + Size(right)
<1>1. /\ In(W, h, Joined(left, k, right), L \cup {k} \cup R, <<>>)
      /\ Size(Joined(left, k, right)) = Size(left) + 1 + Size(right)
  BY Join
<1> QED  BY <1>1

\* The last key of a left neighbour goes up and the key between comes down.
LEMMA RebalanceLeft ==
  ASSUME BTreeParameters, NEW W, NEW h, NEW par, NEW parts, NEW p, NEW a, Beside(W, h, par, parts, p, a),
         NEW left, NEW L, NEW k, NEW mid, NEW R, Parted(W, h, parts[a + 1], left, L, k, mid, R),
         Size(left) \in W,
         Summed(W, mid, KidAt(par, a + 1))
  PROVE  Replaces(W, h, par, parts, Rebal(par, a, left, k, Joined(mid, KeyAt(par, a), KidAt(par, a + 1))))
<1> DEFINE at == KidAt(par, a + 1)
           sep == KeyAt(par, a)
           right == Joined(mid, sep, at)
           P1 == parts[a + 1]
           P2 == parts[a + 2]
           R2 == R \cup {sep} \cup P2
<1>1. /\ In(W, h, left, L, <<>>) /\ In(W, h, mid, R, <<>>)
      /\ k \in Key /\ (\A x \in L : x < k) /\ (\A x \in R : k < x)
      /\ P1 = L \cup {k} \cup R
  BY DEF Parted
<1>2. /\ In(W, h, at, P2, <<>>) /\ sep = par.keys[a + 1] /\ sep \in Key
      /\ (\A x \in P1 : x < sep /\ x \in Int) /\ (\A x \in P2 : sep < x /\ x \in Int)
  BY BesideFacts
<1>3. Size(mid) + 1 + Size(at) \in W  BY DEF Summed
<1>4. Open(W, h, par, parts, p) /\ a \in Nat /\ a + 1 \in 1..Len(par.keys) /\ (p = a \/ p = a + 1)
  BY DEF Beside
<1>5. sep \in Int /\ k \in Int  BY <1>1, <1>2 DEF BTreeParameters
<1> HIDE DEF at, sep, P1, P2
<1>6. /\ In(W, h, right, R2, <<>>) /\ Size(right) = Size(mid) + 1 + Size(at)
  <2>1. \A x \in R : x < sep  BY <1>1, <1>2
  <2>2. \A x \in P2 : sep < x  BY <1>2
  <2>3. In(W, h, mid, R, <<>>) /\ In(W, h, at, P2, <<>>) /\ sep \in Key  BY <1>1, <1>2
  <2>4. In(W, h, Joined(mid, sep, at), R \cup {sep} \cup P2, <<>>)  BY <2>1, <2>2, <2>3, Join
  <2>5. Size(Joined(mid, sep, at)) = Size(mid) + 1 + Size(at)  BY <2>1, <2>2, <2>3, JoinSize
  <2> QED  BY <2>4, <2>5
<1>7. Size(right) \in W  BY <1>3, <1>6
<1>8. \A x \in R2 : k < x
  <2>1. k < sep  BY <1>1, <1>2
  <2>2. ASSUME NEW x \in P2 PROVE k < x  BY <1>2, <1>5, <2>1
  <2> QED  BY <1>1, <2>1, <2>2
<1>9. P1 \cup {sep} \cup P2 = L \cup {k} \cup R2  BY <1>1
<1> HIDE DEF right, R2
<1>10. parts[a + 1] \cup {par.keys[a + 1]} \cup parts[a + 2] = L \cup {k} \cup R2
  BY <1>2, <1>9 DEF P1, P2
<1>a. k \in Key /\ \A x \in L : x < k  BY <1>1
<1>11. In(W, h + 1,
          [keys |-> [par.keys EXCEPT ![a + 1] = k],
           kids |-> [par.kids EXCEPT ![a + 1] = left, ![a + 2] = right]],
          All(par.keys, parts), <<>>)
       /\ Len([par.keys EXCEPT ![a + 1] = k]) = Len(par.keys)
  BY <1>1, <1>4, <1>6, <1>7, <1>8, <1>10, <1>a, Rebalancing
<1> QED  BY <1>11 DEF Replaces, Rebal, Size, right, sep, at

\* The first key of a right neighbour goes up and the key between comes down.
LEMMA RebalanceRight ==
  ASSUME BTreeParameters, NEW W, NEW h, NEW par, NEW parts, NEW p, NEW a, Beside(W, h, par, parts, p, a),
         NEW mid, NEW L, NEW k, NEW right, NEW R, Parted(W, h, parts[a + 2], mid, L, k, right, R),
         Size(right) \in W,
         Summed(W, KidAt(par, a), mid)
  PROVE  Replaces(W, h, par, parts, Rebal(par, a, Joined(KidAt(par, a), KeyAt(par, a), mid), k, right))
<1> DEFINE at == KidAt(par, a)
           sep == KeyAt(par, a)
           left == Joined(at, sep, mid)
           P1 == parts[a + 1]
           P2 == parts[a + 2]
           L2 == P1 \cup {sep} \cup L
<1>1. /\ In(W, h, mid, L, <<>>) /\ In(W, h, right, R, <<>>)
      /\ k \in Key /\ (\A x \in L : x < k) /\ (\A x \in R : k < x)
      /\ P2 = L \cup {k} \cup R
  BY DEF Parted
<1>2. /\ In(W, h, at, P1, <<>>) /\ sep = par.keys[a + 1] /\ sep \in Key
      /\ (\A x \in P1 : x < sep /\ x \in Int) /\ (\A x \in P2 : sep < x /\ x \in Int)
  BY BesideFacts
<1>3. Size(at) + 1 + Size(mid) \in W  BY DEF Summed
<1>4. Open(W, h, par, parts, p) /\ a \in Nat /\ a + 1 \in 1..Len(par.keys) /\ (p = a \/ p = a + 1)
  BY DEF Beside
<1>5. sep \in Int /\ k \in Int  BY <1>1, <1>2 DEF BTreeParameters
<1> HIDE DEF at, sep, P1, P2
<1>6. /\ In(W, h, left, L2, <<>>) /\ Size(left) = Size(at) + 1 + Size(mid)
  <2>1. \A x \in P1 : x < sep  BY <1>2
  <2>2. \A x \in L : sep < x  BY <1>1, <1>2
  <2>3. In(W, h, at, P1, <<>>) /\ In(W, h, mid, L, <<>>) /\ sep \in Key  BY <1>1, <1>2
  <2>4. In(W, h, Joined(at, sep, mid), P1 \cup {sep} \cup L, <<>>)  BY <2>1, <2>2, <2>3, Join
  <2>5. Size(Joined(at, sep, mid)) = Size(at) + 1 + Size(mid)  BY <2>1, <2>2, <2>3, JoinSize
  <2> QED  BY <2>4, <2>5
<1>7. Size(left) \in W  BY <1>3, <1>6
<1>8. \A x \in L2 : x < k
  <2>1. sep < k  BY <1>1, <1>2
  <2>2. ASSUME NEW x \in P1 PROVE x < k  BY <1>2, <1>5, <2>1
  <2> QED  BY <1>1, <2>1, <2>2
<1>9. P1 \cup {sep} \cup P2 = L2 \cup {k} \cup R  BY <1>1
<1> HIDE DEF left, L2
<1>10. parts[a + 1] \cup {par.keys[a + 1]} \cup parts[a + 2] = L2 \cup {k} \cup R
  BY <1>2, <1>9 DEF P1, P2
<1>a. k \in Key /\ \A x \in R : k < x  BY <1>1
<1>11. In(W, h + 1,
          [keys |-> [par.keys EXCEPT ![a + 1] = k],
           kids |-> [par.kids EXCEPT ![a + 1] = left, ![a + 2] = right]],
          All(par.keys, parts), <<>>)
       /\ Len([par.keys EXCEPT ![a + 1] = k]) = Len(par.keys)
  BY <1>1, <1>4, <1>6, <1>7, <1>8, <1>10, <1>a, Rebalancing, SMTT(60)
<1> QED  BY <1>11 DEF Replaces, Rebal, Size, left, sep, at

MergedPar(par, a) ==
  [keys |-> RemoveAt(par.keys, a + 1),
   kids |-> RemoveAt([par.kids EXCEPT ![a + 1] = Joined(KidAt(par, a), KeyAt(par, a), KidAt(par, a + 1))],
                     a + 2)]

\* Two neighbours and the key between them become one node.
LEMMA MergedHolds ==
  ASSUME BTreeParameters, NEW W, NEW h, NEW par, NEW parts, NEW p, NEW a, Beside(W, h, par, parts, p, a),
         Summed(W, KidAt(par, a), KidAt(par, a + 1))
  PROVE  /\ In(W, h + 1, MergedPar(par, a), All(par.keys, parts), <<>>)
         /\ Size(MergedPar(par, a)) = Size(par) - 1
<1> DEFINE x1 == KidAt(par, a)
           x2 == KidAt(par, a + 1)
           sep == KeyAt(par, a)
           kid == Joined(x1, sep, x2)
           P1 == parts[a + 1]
           P2 == parts[a + 2]
<1>2. /\ In(W, h, x1, P1, <<>>) /\ In(W, h, x2, P2, <<>>) /\ sep = par.keys[a + 1] /\ sep \in Key
      /\ (\A x \in P1 : x < sep) /\ (\A x \in P2 : sep < x)
  BY BesideFacts
<1>3. Size(x1) + 1 + Size(x2) \in W  BY DEF Summed
<1>4. Open(W, h, par, parts, p) /\ a \in Nat /\ a + 1 \in 1..Len(par.keys) /\ (p = a \/ p = a + 1)
  BY DEF Beside
<1> HIDE DEF x1, x2, sep, P1, P2
<1>6. In(W, h, kid, P1 \cup {sep} \cup P2, <<>>) /\ Size(kid) = Size(x1) + 1 + Size(x2)
  BY <1>2, Join
<1>7. Size(kid) \in W  BY <1>3, <1>6
<1> HIDE DEF kid
<1>8. In(W, h, kid, parts[a + 1] \cup {par.keys[a + 1]} \cup parts[a + 2], <<>>)
  BY <1>2, <1>6 DEF P1, P2
<1>9. /\ In(W, h + 1,
            [keys |-> RemoveAt(par.keys, a + 1),
             kids |-> RemoveAt([par.kids EXCEPT ![a + 1] = kid], a + 2)],
            All(par.keys, parts), <<>>)
      /\ Len(RemoveAt(par.keys, a + 1)) = Len(par.keys) - 1
  BY <1>4, <1>7, <1>8, Merging
<1> QED  BY <1>9 DEF MergedPar, Size, kid, sep, x1, x2

(***************************************************************************)
(* A node too small takes a key from a brother, or becomes one with it.    *)
(***************************************************************************)

\* What a turn of the loop of erasure puts in the place of the parent.
LEMMA Climbed ==
  ASSUME NEW d \in Nat \ {0, 1}, NEW h, NEW node, NEW S, NEW e, NEW A, NEW parts, NEW f,
         Climbs(Wide(d), h, node, S, e, A, parts, f), Size(node) \in 1..2 * d - 1,
         NEW new, In(Wide(d), f + 1, new, A, <<>>),
         Size(new) \in (IF Front(e) = <<>> THEN 1 ELSE d - 2)..2 * d - 1
  PROVE  Tree(d, "erase", PutAt(node, Front(e), new), S, Front(e))
<1> DEFINE W == Wide(d)
           p == Front(e)
           res == PutAt(node, p, new)
<1>1. /\ NodeAt(PutAt(node, p, new), p) = new
      /\ p = <<>> => PutAt(node, p, new) = new
      /\ p # <<>> /\ In(W, f + 1, new, A, <<>>) => Size(PutAt(node, p, new)) = Size(node)
      /\ In(W, f + 1, new, A, <<>>) => In(W, h, PutAt(node, p, new), S, p)
  BY DEF Climbs
<1>2. In(W, f + 1, new, A, <<>>)  OBVIOUS
<1>3. Size(new) \in (IF p = <<>> THEN 1 ELSE d - 2)..2 * d - 1  OBVIOUS
<1> HIDE DEF W, p
<1>4. NodeAt(res, p) = new /\ (p = <<>> => res = new) /\ (p # <<>> => Size(res) = Size(node))
      /\ In(W, h, res, S, p)
  BY <1>1, <1>2
<1> HIDE DEF res
<1>5. Sized(d, "erase", res, p)
  <2>1. CASE p = <<>>
    <3>1. Size(res) \in 1..2 * d - 1  BY <1>3, <1>4, <2>1
    <3> QED  BY <2>1, <3>1 DEF Sized
  <2>2. CASE p # <<>>
    <3>1. Size(NodeAt(res, p)) \in d - 2..2 * d - 1  BY <1>3, <1>4, <2>2
    <3>2. Size(res) \in 1..2 * d - 1  BY <1>4, <2>2
    <3> QED  BY <2>2, <3>1, <3>2 DEF Sized
  <2> QED  BY <2>1, <2>2
<1> QED  BY <1>4, <1>5 DEF Tree, res, p, W

\* A node too small, its parent and what is known of both.
Low(d, h, node, S, e, A, parts, f) ==
  /\ Climbs(Wide(d), h, node, S, e, A, parts, f)
  /\ Open(Wide(d), f, NodeAt(node, Front(e)), parts, Last(e))
  /\ A = All(NodeAt(node, Front(e)).keys, parts)
  /\ Last(e) \in Nat /\ Last(e) \in 0..Size(NodeAt(node, Front(e)))
  /\ NodeAt(node, e) = KidAt(NodeAt(node, Front(e)), Last(e))
  /\ Size(NodeAt(node, e)) = d - 2
  /\ IsLeaf(NodeAt(node, e)) <=> f = 0
  /\ In(Wide(d), h, node, S, e)
  /\ Size(node) \in 1..2 * d - 1
  /\ Size(NodeAt(node, Front(e))) \in (IF Front(e) = <<>> THEN 1 ELSE d - 1)..2 * d - 1
  /\ Front(e) = <<>> => h = f + 1
  /\ f \in Nat
  /\ Size(NodeAt(node, Front(e))) = Len(NodeAt(node, Front(e)).keys)

\* What is known when a turn of the loop of erasure finds a node too small.
LEMMA LowIs ==
  ASSUME BTreeParameters, NEW d \in Nat \ {0, 1}, NEW node, NEW S, NEW e, Tree(d, "erase", node, S, e),
         e # <<>>, Size(NodeAt(node, e)) < d - 1
  PROVE  \E h, A, parts, f : Low(d, h, node, S, e, A, parts, f)
<1> DEFINE W == Wide(d)
           par == NodeAt(node, Front(e))
           at == NodeAt(node, e)
           i == Last(e)
<1>1. PICK h : In(W, h, node, S, e)  BY DEF Tree
<1>2. Size(at) = d - 2 /\ Size(node) \in 1..2 * d - 1
  <2>1. Size(at) \in d - 2..2 * d - 1 /\ Size(node) \in 1..2 * d - 1  BY DEF Tree, Sized
  <2> DEFINE c == Size(at)
  <2>2. c \in d - 2..2 * d - 1 /\ c < d - 1  BY <2>1
  <2> HIDE DEF c
  <2>3. c = d - 2  BY <2>2
  <2> QED  BY <2>1, <2>3 DEF c
<1>3. PICK A, parts, f : Climbs(W, h, node, S, e, A, parts, f)  BY <1>1, Climb
<1> HIDE DEF par, at, i
<1>4. /\ Open(W, f, par, parts, i) /\ A = All(par.keys, parts) /\ at = KidAt(par, i)
      /\ Front(e) = <<>> => par = node /\ f + 1 = h
      /\ Front(e) = <<>> \/ Size(par) \in W
      /\ i \in Nat
  BY <1>3 DEF Climbs, par, at, i
<1>5. f \in Nat /\ i \in 0..Len(par.keys) /\ Len(par.keys) \in Nat /\ Size(par) = Len(par.keys)
  BY <1>4, OpenFacts DEF Open
<1>6. IsLeaf(at) <=> f = 0
  <2>1. i + 1 \in 1..Len(par.keys) + 1  BY <1>5
  <2>2. In(W, f, par.kids[i + 1], parts[i + 1], <<>>)  BY <1>4, <2>1 DEF Open
  <2>3. at = par.kids[i + 1]  BY <1>4 DEF KidAt
  <2> QED  BY <2>2, <2>3, Facts
<1>7. Size(par) \in (IF Front(e) = <<>> THEN 1 ELSE d - 1)..2 * d - 1
  BY <1>2, <1>4 DEF W, Wide
<1>8. Low(d, h, node, S, e, A, parts, f)
  BY <1>1, <1>2, <1>3, <1>4, <1>5, <1>6, <1>7 DEF Low, par, at, i, W
<1> QED  BY <1>8

LeftGiven(par, a, at) ==
  Rebal(par, a, Upto(KidAt(par, a), Size(KidAt(par, a)) - 1), KeyAt(KidAt(par, a), Size(KidAt(par, a)) - 1),
        Joined([keys |-> <<>>,
                kids |-> IF IsLeaf(at) THEN <<>> ELSE <<KidAt(KidAt(par, a), Size(KidAt(par, a)))>>],
               KeyAt(par, a), at))

\* BorrowLeft keeps the tree one, and nothing is too small after it.
LEMMA BorrowFromLeft ==
  ASSUME BTreeParameters, NEW d \in Nat \ {0, 1}, NEW h, NEW node, NEW S, NEW e, NEW A, NEW parts, NEW f,
         Low(d, h, node, S, e, A, parts, f), NEW a \in Nat, a + 1 = Last(e),
         Size(KidAt(NodeAt(node, Front(e)), a)) > d - 1
  PROVE  Tree(d, "erase", PutAt(node, Front(e), LeftGiven(NodeAt(node, Front(e)), a, NodeAt(node, e))),
              S, Front(e))
<1> DEFINE W == Wide(d)
           par == NodeAt(node, Front(e))
           at == NodeAt(node, e)
           i == Last(e)
           brother == KidAt(par, a)
           n == Size(brother)
           left == Upto(brother, n - 1)
           k == KeyAt(brother, n - 1)
           mid == From(brother, n)
           new == LeftGiven(par, a, at)
<1> HIDE DEF W, par, at, i, brother
<1>1. /\ Climbs(W, h, node, S, e, A, parts, f) /\ Size(node) \in 1..2 * d - 1
      /\ Open(W, f, par, parts, i) /\ A = All(par.keys, parts) /\ at = KidAt(par, i)
      /\ i \in 0..Size(par) /\ Size(at) = d - 2 /\ (IsLeaf(at) <=> f = 0)
      /\ Size(par) = Len(par.keys)
      /\ Size(par) \in (IF Front(e) = <<>> THEN 1 ELSE d - 1)..2 * d - 1
  BY DEF Low, W, par, at, i
<1>2. i = a + 1 /\ n > d - 1  BY DEF i, brother, par
<1>3. Beside(W, f, par, parts, i, a)
  <2>1. a + 1 \in 1..Len(par.keys)
    <3>1. Len(par.keys) \in Nat  BY <1>1, OpenFacts
    <3> QED  BY <1>1, <1>2, <3>1
  <2> QED  BY <1>1, <1>2, <2>1 DEF Beside
<1>4. In(W, f, brother, parts[a + 1], <<>>) /\ n \in W
  <2>1. In(W, f, KidAt(par, a), parts[a + 1], <<>>) /\ (i # a => Size(KidAt(par, a)) \in W)
    BY <1>3, BesideFacts
  <2>2. i # a  BY <1>2
  <2> QED  BY <2>1, <2>2 DEF brother
<1> HIDE DEF n
<1>5. n \in 1..n /\ n - n = 0 /\ n - 1 \in W /\ n \in Nat
  BY <1>2, <1>4 DEF W, Wide
<1>6. /\ \E L, R : Parted(W, f, parts[a + 1], left, L, k, mid, R)
      /\ Size(left) = n - 1 /\ Size(mid) = n - n
  BY <1>4, <1>5, Parts DEF n
<1>7. PICK L, R : Parted(W, f, parts[a + 1], left, L, k, mid, R)  BY <1>6
<1>8. [keys |-> <<>>, kids |-> IF IsLeaf(at) THEN <<>> ELSE <<KidAt(brother, Size(brother))>>] = mid
  BY <1>1, <1>4, FirstIs DEF n
<1>9. new = Rebal(par, a, left, k, Joined(mid, KeyAt(par, a), at))
  BY <1>8 DEF LeftGiven, n, brother
<1> HIDE DEF left, k, mid, new
<1>10. at = KidAt(par, a + 1)  BY <1>1, <1>2
<1>11. Size(left) \in W /\ Summed(W, mid, KidAt(par, a + 1))
  <2>1. Size(mid) = 0 /\ Size(KidAt(par, a + 1)) = d - 2  BY <1>1, <1>5, <1>6, <1>10
  <2>2. 0 + 1 + (d - 2) \in W  BY DEF W, Wide
  <2> QED  BY <1>5, <1>6, <2>1, <2>2 DEF Summed
<1>12. Replaces(W, f, par, parts, Rebal(par, a, left, k, Joined(mid, KeyAt(par, a), KidAt(par, a + 1))))
  BY <1>3, <1>7, <1>11, RebalanceLeft
<1>13. In(W, f + 1, new, A, <<>>) /\ Size(new) = Size(par)  BY <1>1, <1>9, <1>10, <1>12 DEF Replaces
<1>14. Size(new) \in (IF Front(e) = <<>> THEN 1 ELSE d - 2)..2 * d - 1  BY <1>1, <1>13, SMTT(60)
<1>15. Tree(d, "erase", PutAt(node, Front(e), new), S, Front(e))
  BY <1>1, <1>13, <1>14, Climbed DEF W
<1> QED  BY <1>15 DEF new, par, at

RightGiven(par, a, at) ==
  Rebal(par, a,
        Joined(at, KeyAt(par, a),
               [keys |-> <<>>, kids |-> IF IsLeaf(at) THEN <<>> ELSE <<KidAt(KidAt(par, a + 1), 0)>>]),
        KeyAt(KidAt(par, a + 1), 0), From(KidAt(par, a + 1), 1))

\* BorrowRight does too.
LEMMA BorrowFromRight ==
  ASSUME BTreeParameters, NEW d \in Nat \ {0, 1}, NEW h, NEW node, NEW S, NEW e, NEW A, NEW parts, NEW f,
         Low(d, h, node, S, e, A, parts, f), NEW a \in Nat, a = Last(e),
         a + 1 \in 0..Size(NodeAt(node, Front(e))),
         Size(KidAt(NodeAt(node, Front(e)), a + 1)) > d - 1
  PROVE  Tree(d, "erase", PutAt(node, Front(e), RightGiven(NodeAt(node, Front(e)), a, NodeAt(node, e))),
              S, Front(e))
<1> DEFINE W == Wide(d)
           par == NodeAt(node, Front(e))
           at == NodeAt(node, e)
           i == Last(e)
           brother == KidAt(par, a + 1)
           n == Size(brother)
           mid == Upto(brother, 0)
           k == KeyAt(brother, 0)
           right == From(brother, 1)
           new == RightGiven(par, a, at)
<1> HIDE DEF W, par, at, i, brother
<1>1. /\ Climbs(W, h, node, S, e, A, parts, f) /\ Size(node) \in 1..2 * d - 1
      /\ Open(W, f, par, parts, i) /\ A = All(par.keys, parts) /\ at = KidAt(par, i)
      /\ i \in 0..Size(par) /\ Size(at) = d - 2 /\ (IsLeaf(at) <=> f = 0)
      /\ Size(par) = Len(par.keys)
      /\ Size(par) \in (IF Front(e) = <<>> THEN 1 ELSE d - 1)..2 * d - 1
  BY DEF Low, W, par, at, i
<1>2. i = a /\ n > d - 1  BY DEF i, brother, par
<1>3. Beside(W, f, par, parts, i, a)
  <2>1. a + 1 \in 1..Len(par.keys)
    <3>1. Len(par.keys) \in Nat  BY <1>1, OpenFacts
    <3>2. a + 1 \in 0..Len(par.keys)  BY <1>1 DEF par
    <3> QED  BY <3>1, <3>2
  <2> QED  BY <1>1, <1>2, <2>1 DEF Beside
<1>4. In(W, f, brother, parts[a + 2], <<>>) /\ n \in W
  <2>1. In(W, f, KidAt(par, a + 1), parts[a + 2], <<>>) /\ (i # a + 1 => Size(KidAt(par, a + 1)) \in W)
    BY <1>3, BesideFacts
  <2>2. i # a + 1  BY <1>2
  <2> QED  BY <2>1, <2>2 DEF brother
<1> HIDE DEF n
<1>5. 1 \in 1..n /\ 1 - 1 = 0 /\ n - 1 \in W /\ n \in Nat
  BY <1>2, <1>4 DEF W, Wide
<1>6. /\ \E L, R : Parted(W, f, parts[a + 2], Upto(brother, 1 - 1), L, KeyAt(brother, 1 - 1), right, R)
      /\ Size(Upto(brother, 1 - 1)) = 1 - 1 /\ Size(right) = n - 1
  BY <1>4, <1>5, Parts DEF n
<1>7. PICK L, R : Parted(W, f, parts[a + 2], mid, L, k, right, R)  BY <1>5, <1>6
<1>8. [keys |-> <<>>, kids |-> IF IsLeaf(at) THEN <<>> ELSE <<KidAt(brother, 0)>>] = mid
  BY <1>1, <1>4, NextIs, SMTT(60)
<1>9. new = Rebal(par, a, Joined(at, KeyAt(par, a), mid), k, right)
  BY <1>8 DEF RightGiven, brother
<1>10. at = KidAt(par, a) /\ Size(mid) = 0  BY <1>1, <1>2, <1>5, <1>6
<1> HIDE DEF right, k, mid, new
<1>11. Size(right) \in W /\ Summed(W, KidAt(par, a), mid)
  <2>1. Size(mid) = 0 /\ Size(KidAt(par, a)) = d - 2  BY <1>1, <1>10
  <2>2. (d - 2) + 1 + 0 \in W  BY DEF W, Wide
  <2> QED  BY <1>5, <1>6, <2>1, <2>2 DEF Summed
<1>12. Replaces(W, f, par, parts, Rebal(par, a, Joined(KidAt(par, a), KeyAt(par, a), mid), k, right))
  BY <1>3, <1>7, <1>11, RebalanceRight
<1>13. In(W, f + 1, new, A, <<>>) /\ Size(new) = Size(par)  BY <1>1, <1>9, <1>10, <1>12 DEF Replaces
<1>14. Size(new) \in (IF Front(e) = <<>> THEN 1 ELSE d - 2)..2 * d - 1  BY <1>1, <1>13, SMTT(60)
<1>15. Tree(d, "erase", PutAt(node, Front(e), new), S, Front(e))
  BY <1>1, <1>13, <1>14, Climbed DEF W
<1> QED  BY <1>15 DEF new, par, at

\* The parent after the merge, or the merged node where the root is left without keys.
Remaining(p, new) == IF p = <<>> /\ new.keys = <<>> THEN new.kids[1] ELSE new

\* Merge keeps the tree one, and only the parent may be too small after it.
LEMMA MergeWith ==
  ASSUME BTreeParameters, NEW d \in Nat \ {0, 1}, NEW h, NEW node, NEW S, NEW e, NEW A, NEW parts, NEW f,
         Low(d, h, node, S, e, A, parts, f), NEW a \in Nat, Last(e) = a \/ Last(e) = a + 1,
         a + 1 \in 0..Size(NodeAt(node, Front(e))),
         \A j \in {a, a + 1} : j # Last(e) => ~(Size(KidAt(NodeAt(node, Front(e)), j)) > d - 1)
  PROVE  Tree(d, "erase",
              PutAt(node, Front(e), Remaining(Front(e), MergedPar(NodeAt(node, Front(e)), a))),
              S, Front(e))
<1> DEFINE W == Wide(d)
           p == Front(e)
           par == NodeAt(node, p)
           at == NodeAt(node, e)
           i == Last(e)
           new == MergedPar(par, a)
<1>a. \A j \in {a, a + 1} : j # i => ~(Size(KidAt(par, j)) > d - 1)  OBVIOUS
<1>b. a + 1 \in 0..Size(par) /\ (i = a \/ i = a + 1)  OBVIOUS
<1>1. /\ Climbs(W, h, node, S, e, A, parts, f) /\ Size(node) \in 1..2 * d - 1
      /\ Open(W, f, par, parts, i) /\ A = All(par.keys, parts) /\ at = KidAt(par, i)
      /\ i \in 0..Size(par) /\ Size(at) = d - 2
      /\ Size(par) = Len(par.keys) /\ f \in Nat
      /\ Size(par) \in (IF p = <<>> THEN 1 ELSE d - 1)..2 * d - 1
  BY DEF Low
<1>c. (p = <<>> => h = f + 1) /\ p \in Seq(Nat)
      /\ (p = <<>> => PutAt(node, p, new) = new)
      /\ (In(W, f + 1, new, A, <<>>) => In(W, h, PutAt(node, p, new), S, p))
  BY DEF Low, Climbs
<1> HIDE DEF W, p, par, at, i
<1>2. Beside(W, f, par, parts, i, a)
  <2>1. a + 1 \in 1..Len(par.keys)
    <3>1. Len(par.keys) \in Nat  BY <1>1, OpenFacts
    <3>2. a + 1 \in 0..Len(par.keys)  BY <1>1, <1>b
    <3> QED  BY <3>1, <3>2
  <2> QED  BY <1>1, <1>b, <2>1 DEF Beside
<1>3. (i # a => Size(KidAt(par, a)) \in W) /\ (i # a + 1 => Size(KidAt(par, a + 1)) \in W)
  BY <1>2, BesideFacts
<1>4. Summed(W, KidAt(par, a), KidAt(par, a + 1))
  <2>0. 2 * d - 2 \in W  BY DEF W, Wide
  <2>1. CASE i = a
    <3> DEFINE c == Size(KidAt(par, a + 1))
    <3>1. i # a + 1  BY <2>1
    <3>2. c \in W /\ ~(c > d - 1)  BY <1>3, <1>a, <3>1
    <3> HIDE DEF c
    <3>3. c = d - 1  BY <3>2 DEF W, Wide
    <3>4. Size(KidAt(par, a)) = d - 2  BY <1>1, <2>1
    <3>5. (d - 2) + 1 + (d - 1) = 2 * d - 2  OBVIOUS
    <3> QED  BY <2>0, <3>3, <3>4, <3>5 DEF c, Summed
  <2>2. CASE i = a + 1
    <3> DEFINE c == Size(KidAt(par, a))
    <3>1. i # a  BY <2>2
    <3>2. c \in W /\ ~(c > d - 1)  BY <1>3, <1>a, <3>1
    <3> HIDE DEF c
    <3>3. c = d - 1  BY <3>2 DEF W, Wide
    <3>4. Size(KidAt(par, a + 1)) = d - 2  BY <1>1, <2>2
    <3>5. (d - 1) + 1 + (d - 2) = 2 * d - 2  OBVIOUS
    <3> QED  BY <2>0, <3>3, <3>4, <3>5 DEF c, Summed
  <2> QED  BY <1>b, <2>1, <2>2
<1>5. In(W, f + 1, new, A, <<>>) /\ Size(new) = Size(par) - 1
  <2>1. /\ In(W, f + 1, MergedPar(par, a), All(par.keys, parts), <<>>)
        /\ Size(MergedPar(par, a)) = Size(par) - 1
    BY <1>2, <1>4, MergedHolds
  <2> QED  BY <1>1, <2>1
<1> HIDE DEF new
<1>6. new.keys \in Seq(Key) /\ Size(new) = Len(new.keys) /\ Size(new) \in Nat  BY <1>5, Facts
<1>7. CASE p = <<>> /\ new.keys = <<>>
  <2>1. Remaining(p, new) = new.kids[1]  BY <1>7 DEF Remaining
  <2>2. In(W, f + 1, new, S, <<>>)
    <3>1. In(W, h, PutAt(node, p, new), S, p)  BY <1>c, <1>5
    <3>2. PutAt(node, p, new) = new /\ h = f + 1  BY <1>7, <1>c
    <3> QED  BY <1>7, <3>1, <3>2
  <2>3. In(W, f, new.kids[1], S, <<>>) /\ Size(new.kids[1]) \in W  BY <1>1, <1>7, <2>2, OnlyKid
  <2> DEFINE kid == new.kids[1]
  <2>4. PutAt(node, p, kid) = kid  BY <1>7, PutAtHere
  <2>5. Size(kid) \in 1..2 * d - 1  BY <2>3 DEF W, Wide
  <2>6. In(W, f, kid, S, <<>>)  BY <2>3
  <2> HIDE DEF kid
  <2>7. Sized(d, "erase", kid, <<>>)  BY <2>5 DEF Sized
  <2>8. Tree(d, "erase", kid, S, <<>>)  BY <2>6, <2>7 DEF Tree, W
  <2>9. Remaining(p, new) = kid  BY <2>1 DEF kid
  <2> QED  BY <1>7, <2>4, <2>8, <2>9 DEF p, new, par
<1>8. CASE ~(p = <<>> /\ new.keys = <<>>)
  <2>1. Remaining(p, new) = new  BY <1>8 DEF Remaining
  <2>2. Size(new) \in (IF p = <<>> THEN 1 ELSE d - 2)..2 * d - 1
    <3>1. CASE p # <<>>  BY <1>1, <1>5, <3>1, SMTT(60)
    <3>2. CASE p = <<>>
      <4>1. Len(new.keys) # 0  BY <1>6, <1>8, <3>2
      <4> DEFINE c == Size(new)
                 b == Size(par)
      <4>2. c \in Nat /\ c # 0 /\ c = b - 1 /\ b \in 1..2 * d - 1  BY <1>1, <1>5, <1>6, <3>2, <4>1
      <4> HIDE DEF c, b
      <4>3. c \in 1..2 * d - 1  BY <4>2
      <4> QED  BY <3>2, <4>3 DEF c
    <3> QED  BY <3>1, <3>2
  <2>3. Tree(d, "erase", PutAt(node, Front(e), new), S, Front(e))
    BY <1>1, <1>5, <2>2, Climbed DEF W, p
  <2> QED  BY <2>1, <2>3 DEF p, new, par
<1> QED  BY <1>7, <1>8

(***************************************************************************)
(* The first and the last step of an operation.                            *)
(***************************************************************************)

\* Nothing is below Nil.
LEMMA NilPath ==
  ASSUME NEW p \in Seq(Nat), Real(Nil, p)
  PROVE  p = <<>>
<1>1. ASSUME p # <<>> PROVE FALSE
  <2>1. Len(p) \in Nat /\ Len(p) # 0  BY <1>1
  <2>2. 1 \in 1..Len(p)  BY <2>1
  <2>3. p[1] \in 0..Len(NodeAt(Nil, SubSeq(p, 1, 1 - 1)).kids) - 1  BY <2>2 DEF Real
  <2>4. SubSeq(p, 1, 0) = <<>>
    <3>1. 1 \in 1..Len(p) + 1 /\ 0 \in 1 - 1..Len(p) /\ 0 - 1 + 1 = 0  BY <2>1
    <3>2. SubSeq(p, 1, 0) \in Seq(Nat) /\ Len(SubSeq(p, 1, 0)) = 0 - 1 + 1  BY <3>1, PartOf
    <3> QED  BY <3>1, <3>2
  <2>5. NodeAt(Nil, SubSeq(p, 1, 1 - 1)) = Nil
    <3>1. 1 - 1 = 0  OBVIOUS
    <3>2. SubSeq(p, 1, 1 - 1) = <<>>  BY <2>4, <3>1
    <3>3. NodeAt(Nil, <<>>) = Nil  BY NodeAtHere
    <3> QED  BY <3>2, <3>3
  <2>6. Len(Nil.kids) = 0  BY DEF Nil
  <2>7. p[1] \in 0..0 - 1  BY <2>3, <2>5, <2>6
  <2> QED  BY <2>7
<1> QED  BY <1>1

\* The step of Insert.
LEMMA Inserted ==
  ASSUME BTreeParameters, NEW d \in Nat \ {0, 1}, NEW node, NEW S, Tree(d, "none", node, S, <<>>),
         NEW key \in Key, NEW p, p = find_path(node, key),
         ~(node # Nil /\ Found(key, NodeAt(node, p)))
  PROVE  Tree(d, "insert", PutAt(node, p, Added(NodeAt(node, p), key)), S \cup {key}, p)
<1> DEFINE W == Wide(d)
           leaf == NodeAt(node, p)
           res == PutAt(node, p, Added(leaf, key))
<1>1. PICK h : In(W, h, node, S, <<>>)  BY DEF Tree
<1>2. p \in Seq(Nat) /\ Real(node, p) /\ Leads(node, p, key) /\ (Found(key, leaf) <=> key \in S)
  BY <1>1, PathLeads
<1>3. key \notin S
  <2>1. CASE node = Nil
    <3>1. S = {}  BY <1>1, <2>1, NilEmpty
    <3> QED  BY <3>1
  <2> QED  BY <1>2, <2>1
<1>4. node = Nil \/ Size(node) \in 1..2 * d - 1  BY DEF Tree, Sized
<1> HIDE DEF W
<1>5. With(W, h, node, S, p, key)  BY <1>1, <1>2, <1>3, WithAll
<1> HIDE DEF leaf, res
<1>6. /\ p = <<>> \/ Size(leaf) \in W
      /\ NodeAt(res, p) = Added(leaf, key)
      /\ Size(Added(leaf, key)) = Size(leaf) + 1
      /\ In(W, h, res, S \cup {key}, p)
      /\ p # <<>> => Size(res) = Size(node)
  BY <1>5 DEF With, Placed, leaf, res
<1>7. Sized(d, "insert", res, p)
  <2>1. CASE p = <<>>
    <3>1. leaf = node  BY <2>1, NodeAtHere DEF leaf
    <3>2. Size(node) \in 0..2 * d - 1
      <4>1. Size(Nil) = 0  BY DEF Nil, Size
      <4> QED  BY <1>4, <4>1
    <3>3. Size(NodeAt(res, p)) \in 1..2 * d  BY <1>6, <3>1, <3>2
    <3> QED  BY <2>1, <3>3 DEF Sized
  <2>2. CASE p # <<>>
    <3>1. node # Nil  BY <1>2, <2>2, NilPath
    <3>2. Size(res) \in 1..2 * d - 1  BY <1>4, <1>6, <2>2, <3>1
    <3>3. Size(leaf) \in d - 1..2 * d - 1  BY <1>6, <2>2 DEF W, Wide
    <3>4. Size(NodeAt(res, p)) \in d - 1..2 * d  BY <1>6, <3>3
    <3> QED  BY <2>2, <3>2, <3>4 DEF Sized
  <2> QED  BY <2>1, <2>2
<1>8. Tree(d, "insert", res, S \cup {key}, p)  BY <1>6, <1>7 DEF Tree, W
<1> QED  BY <1>8 DEF res, leaf

\* The step of InsertDone.
LEMMA InsertSettled ==
  ASSUME NEW d \in Nat \ {0, 1}, NEW node, NEW S, NEW e, Tree(d, "insert", node, S, e),
         Size(NodeAt(node, e)) <= 2 * d - 1
  PROVE  Tree(d, "none", node, S, <<>>)
<1> DEFINE W == Wide(d)
           at == NodeAt(node, e)
<1>1. PICK h : In(W, h, node, S, e)  BY DEF Tree
<1>2. /\ Size(at) \in (IF e = <<>> THEN 1 ELSE d - 1)..2 * d
      /\ e # <<>> => Size(node) \in 1..2 * d - 1
      /\ Size(at) <= 2 * d - 1
  BY DEF Tree, Sized
<1> HIDE DEF at, W
<1>3. e # <<>> => Size(at) \in W  BY <1>2 DEF W, Wide
<1>4. In(W, h, node, S, <<>>)  BY <1>1, <1>3, Settle DEF at
<1>5. Size(node) \in 1..2 * d - 1
  <2>1. CASE e = <<>>
    <3>1. at = node  BY <2>1, NodeAtHere DEF at
    <3> QED  BY <1>2, <2>1, <3>1
  <2> QED  BY <1>2, <2>1
<1>6. Sized(d, "none", node, <<>>)  BY <1>5 DEF Sized
<1> QED  BY <1>4, <1>6 DEF Tree, W

\* The step of EraseDone.
LEMMA EraseSettled ==
  ASSUME NEW d \in Nat \ {0, 1}, NEW node, NEW S, NEW e, Tree(d, "erase", node, S, e),
         e = <<>> \/ ~(Size(NodeAt(node, e)) < d - 1)
  PROVE  Tree(d, "none", node, S, <<>>)
<1> DEFINE W == Wide(d)
           at == NodeAt(node, e)
<1>1. PICK h : In(W, h, node, S, e)  BY DEF Tree
<1>2. /\ e = <<>> => node = Nil \/ Size(node) \in 1..2 * d - 1
      /\ e # <<>> => Size(at) \in d - 2..2 * d - 1 /\ Size(node) \in 1..2 * d - 1
      /\ e # <<>> => ~(Size(at) < d - 1)
  BY DEF Tree, Sized
<1> HIDE DEF at, W
<1>3. e # <<>> => Size(at) \in W  BY <1>2 DEF W, Wide
<1>4. In(W, h, node, S, <<>>)  BY <1>1, <1>3, Settle DEF at
<1>5. Sized(d, "none", node, <<>>)  BY <1>2 DEF Sized
<1> QED  BY <1>4, <1>5 DEF Tree, W

\* The step of Erase for a key of a leaf.
LEMMA ErasedLeaf ==
  ASSUME BTreeParameters, NEW d \in Nat \ {0, 1}, NEW node, NEW S, Tree(d, "none", node, S, <<>>),
         NEW key \in Key, NEW p, p = find_path(node, key), node # Nil,
         Found(key, NodeAt(node, p)), IsLeaf(NodeAt(node, p))
  PROVE  Tree(d, "erase",
              PutAt(node, p, WithoutKey(NodeAt(node, p), find_index(key, NodeAt(node, p)))), S \ {key}, p)
<1> DEFINE W == Wide(d)
           leaf == NodeAt(node, p)
           i == find_index(key, leaf)
           res == PutAt(node, p, WithoutKey(leaf, i))
<1>1. PICK h : In(W, h, node, S, <<>>)  BY DEF Tree
<1>2. p \in Seq(Nat) /\ Real(node, p)  BY <1>1, PathLeads
<1>3. Size(node) \in 1..2 * d - 1  BY DEF Tree, Sized
<1>4. Found(key, leaf) /\ IsLeaf(leaf)  OBVIOUS
<1> HIDE DEF W, leaf
<1>5. i \in 0..Size(leaf) - 1 /\ KeyAt(leaf, i) = key
  <2>1. Inside(W, h, node, S, <<>>, p)  BY <1>1, <1>2, InsideAll
  <2>2. PICK A, f : In(W, h - Len(p), leaf, A, f)  BY <2>1 DEF Inside, leaf
  <2>3. PICK parts : Holds(W, h - Len(p), leaf, parts, f)  BY <2>2, InHolds
  <2>4. Ordered(leaf.keys, parts)  BY <2>3 DEF Holds
  <2>5. i \in 0..Len(leaf.keys) - 1 /\ KeyAt(leaf, i) = key  BY <1>4, <2>4, KeyOfIndex
  <2> QED  BY <2>5 DEF Size
<1> HIDE DEF i
<1>6. Taken(W, h, node, S, p, i)  BY <1>1, <1>2, <1>4, <1>5, Take DEF leaf
<1> HIDE DEF res
<1>7. /\ p = <<>> \/ Size(leaf) \in W
      /\ NodeAt(res, p) = WithoutKey(leaf, i) /\ Size(WithoutKey(leaf, i)) = Size(leaf) - 1
      /\ In(W, h, res, S \ {key}, p)
      /\ p # <<>> => Size(res) = Size(node)
  BY <1>5, <1>6 DEF Taken, Placed, leaf, res
<1>8. Sized(d, "erase", res, p)
  <2>1. CASE p = <<>>
    <3>1. leaf = node /\ NodeAt(res, p) = res  BY <2>1, NodeAtHere DEF leaf
    <3>2. Size(res) \in 0..2 * d - 1  BY <1>3, <1>7, <3>1
    <3>3. Size(res) = 0 => res = Nil
      <4>1. IsLeaf(res)
        <5>1. h = 0  BY <1>1, <1>4, <3>1, Facts
        <5> QED  BY <1>7, <5>1, Facts
      <4> QED  BY <1>7, <4>1, NilIs
    <3>4. res = Nil \/ Size(res) \in 1..2 * d - 1  BY <3>2, <3>3
    <3> QED  BY <2>1, <3>4 DEF Sized
  <2>2. CASE p # <<>>
    <3>1. Size(leaf) \in d - 1..2 * d - 1  BY <1>7, <2>2 DEF W, Wide
    <3>2. Size(NodeAt(res, p)) \in d - 2..2 * d - 1  BY <1>7, <3>1
    <3>3. Size(res) \in 1..2 * d - 1  BY <1>3, <1>7, <2>2
    <3> QED  BY <2>2, <3>2, <3>3 DEF Sized
  <2> QED  BY <2>1, <2>2
<1>9. Tree(d, "erase", res, S \ {key}, p)  BY <1>7, <1>8 DEF Tree, W
<1> QED  BY <1>9 DEF res, leaf, i

\* The step of Erase for a key of an inner node.
LEMMA ErasedAbove ==
  ASSUME BTreeParameters, NEW d \in Nat \ {0, 1}, NEW node, NEW S, Tree(d, "none", node, S, <<>>),
         NEW key \in Key, NEW p, p = find_path(node, key), node # Nil,
         NEW i, NEW last, NEW leaf, NEW new, Exchange(node, key, p, i, last, leaf, new)
  PROVE  Tree(d, "erase", new, S \ {key}, last)
<1> DEFINE W == Wide(d)
<1>1. PICK h : In(W, h, node, S, <<>>)  BY DEF Tree
<1>2. p \in Seq(Nat) /\ Real(node, p)  BY <1>1, PathLeads
<1>3. Size(node) \in 1..2 * d - 1  BY DEF Tree, Sized
<1>4. Sizes(W)  BY WideSizes
<1> HIDE DEF W
<1>5. /\ last \in Seq(Nat) /\ last # <<>>
      /\ In(W, h, new, S \ {key}, last)
      /\ Size(new) = Size(node)
      /\ Size(leaf) \in W /\ Size(NodeAt(new, last)) = Size(leaf) - 1
  BY <1>1, <1>2, <1>4, ErasedInner, SMTT(60)
<1>6. Size(NodeAt(new, last)) \in d - 2..2 * d - 1
  <2>1. Size(leaf) \in d - 1..2 * d - 1  BY <1>5 DEF W, Wide
  <2> QED  BY <1>5, <2>1
<1>7. Sized(d, "erase", new, last)  BY <1>3, <1>5, <1>6 DEF Sized
<1> QED  BY <1>5, <1>7 DEF Tree, W

(***************************************************************************)
(* The inductive invariant, one lemma for each step.                       *)
(***************************************************************************)

Shape ==
  /\ t \in Degree /\ contents \subseteq Key /\ work \in {"none", "insert", "erase"}
  /\ Tree(t, work, root, contents, stack)

\* At first the tree is Nil.
LEMMA ShapeAtFirst ==
  ASSUME BTreeParameters, BTreeInit
  PROVE  Shape
<1>1. t \in Degree /\ root = Nil /\ work = "none" /\ stack = <<>> /\ contents = {}  BY DEF BTreeInit
<1>2. In(Wide(t), 0, Nil, {}, <<>>)  BY NilHolds
<1>3. Sized(t, "none", Nil, <<>>)  BY DEF Sized
<1>4. Tree(t, "none", Nil, {}, <<>>)  BY <1>2, <1>3 DEF Tree
<1> QED  BY <1>1, <1>4 DEF Shape

\* Insert keeps the invariant.
LEMMA ShapeInserts ==
  ASSUME BTreeParameters, Shape, NEW key \in Key, Insert(key)
  PROVE  Shape'
<1> DEFINE p == find_path(root, key)
           leaf == NodeAt(root, p)
<1>1. /\ work = "none" /\ ~(root # Nil /\ Found(key, leaf))
      /\ contents' = contents \cup {key} /\ t' = t
      /\ root' = PutAt(root, p, Added(leaf, key)) /\ work' = "insert" /\ stack' = p
  BY DEF Insert, Exists, Added
<1>2. t \in Degree /\ t \in Nat \ {0, 1} /\ contents \subseteq Key /\ Tree(t, "none", root, contents, <<>>)
  <2>1. t \in Degree /\ contents \subseteq Key /\ Tree(t, "none", root, contents, stack)
    BY <1>1 DEF Shape
  <2>2. stack = <<>>  BY <2>1 DEF Tree, Sized
  <2> QED  BY <2>1, <2>2 DEF BTreeParameters
<1> DEFINE q == p
<1>3. q = find_path(root, key)  OBVIOUS
<1> HIDE DEF p
<1>4. Tree(t, "insert", PutAt(root, q, Added(NodeAt(root, q), key)), contents \cup {key}, q)
  <2>1. ~(root # Nil /\ Found(key, NodeAt(root, q)))  BY <1>1
  <2> HIDE DEF q, leaf
  <2> QED  BY <1>2, <1>3, <2>1, Inserted
<1>5. Tree(t', work', root', contents', stack')  BY <1>1, <1>4
<1>6. t' \in Degree /\ contents' \subseteq Key /\ work' \in {"none", "insert", "erase"}  BY <1>1, <1>2
<1> QED  BY <1>5, <1>6 DEF Shape

\* SplitNode keeps it, at the root and below.
LEMMA ShapeSplits ==
  ASSUME BTreeParameters, Shape, SplitNode
  PROVE  Shape'
<1> DEFINE at == NodeAt(root, stack)
           half == Halves(at)
           par == NodeAt(root, Front(stack))
<1>1. /\ work = "insert" /\ Size(at) > 2 * t - 1
      /\ t' = t /\ work' = work /\ contents' = contents
  BY DEF SplitNode, maximum_keys_in_node
<1>2. t \in Degree /\ t \in Nat \ {0, 1} /\ contents \subseteq Key /\ Tree(t, "insert", root, contents, stack)
  BY <1>1 DEF Shape, BTreeParameters
<1>3. Tree(t, "insert", root', contents, stack')
  <2>1. CASE stack = <<>>
    <3>1. /\ root' = [keys |-> <<half.key>>, kids |-> <<half.left, half.right>>] /\ stack' = <<>>
      BY <2>1 DEF SplitNode
    <3>2. at = root  BY <2>1, NodeAtHere
    <3>3. Tree(t, "insert", [keys |-> <<Halves(root).key>>, kids |-> <<Halves(root).left, Halves(root).right>>],
               contents, <<>>)
      <4>1. Tree(t, "insert", root, contents, <<>>) /\ Size(root) > 2 * t - 1  BY <1>1, <1>2, <2>1, <3>2
      <4> QED  BY <1>2, <4>1, SplitAtRoot
    <3> QED  BY <3>1, <3>2, <3>3
  <2>2. CASE stack # <<>>
    <3>1. /\ root' = PutAt(root, Front(stack), SplitPar(par, Last(stack), half)) /\ stack' = Front(stack)
      BY <2>2 DEF SplitNode, SplitPar
    <3>2. Tree(t, "insert",
               PutAt(root, Front(stack), SplitPar(NodeAt(root, Front(stack)), Last(stack), Halves(NodeAt(root, stack)))),
               contents, Front(stack))
      BY <1>1, <1>2, <2>2, SplitBelow
    <3> QED  BY <3>1, <3>2
  <2> QED  BY <2>1, <2>2
<1> QED  BY <1>1, <1>2, <1>3 DEF Shape

\* InsertDone keeps it.
LEMMA ShapeInserted ==
  ASSUME BTreeParameters, Shape, InsertDone
  PROVE  Shape'
<1>1. /\ work = "insert" /\ Size(NodeAt(root, stack)) <= 2 * t - 1
      /\ work' = "none" /\ stack' = <<>> /\ t' = t /\ root' = root /\ contents' = contents
  BY DEF InsertDone, maximum_keys_in_node
<1>2. t \in Degree /\ t \in Nat \ {0, 1} /\ contents \subseteq Key /\ Tree(t, "insert", root, contents, stack)
  BY <1>1 DEF Shape, BTreeParameters
<1>3. Tree(t, "none", root, contents, <<>>)  BY <1>1, <1>2, InsertSettled
<1> QED  BY <1>1, <1>2, <1>3 DEF Shape

\* Erase keeps it, for a key of a leaf and for one of an inner node.
LEMMA ShapeErases ==
  ASSUME BTreeParameters, Shape, NEW key \in Key, Erase(key)
  PROVE  Shape'
<1> DEFINE p == find_path(root, key)
           node == NodeAt(root, p)
           i == find_index(key, node)
           last == p \o <<i>> \o Last_path(KidAt(node, i))
           leaf == NodeAt(root, last)
<1>1. /\ work = "none" /\ root # Nil /\ Found(key, node)
      /\ contents' = contents \ {key} /\ t' = t /\ work' = "erase"
  BY DEF Erase, Exists
<1>2. t \in Degree /\ t \in Nat \ {0, 1} /\ contents \subseteq Key /\ Tree(t, "none", root, contents, <<>>)
  <2>1. t \in Degree /\ contents \subseteq Key /\ Tree(t, "none", root, contents, stack)
    BY <1>1 DEF Shape
  <2>2. stack = <<>>  BY <2>1 DEF Tree, Sized
  <2> QED  BY <2>1, <2>2 DEF BTreeParameters
<1>3. IsLeaf(node) => root' = PutAt(root, p, WithoutKey(node, i)) /\ stack' = p
  BY DEF Erase
<1>4. ~IsLeaf(node) => /\ root' = PutAt(PutAt(root, p, Exchanged(node, i, Final(leaf))), last, WithoutLast(leaf))
                       /\ stack' = last
  BY DEF Erase, Exchanged, Final, WithoutLast
<1> DEFINE q == p
           now == root'
<1>5. q = find_path(root, key)  OBVIOUS
<1>6. Tree(t, "erase", root', contents \ {key}, stack')
  <2>1. CASE IsLeaf(node)
    <3>1. Found(key, NodeAt(root, q)) /\ IsLeaf(NodeAt(root, q))  BY <1>1, <2>1
    <3>2. root' = PutAt(root, q, WithoutKey(NodeAt(root, q), find_index(key, NodeAt(root, q)))) /\ stack' = q
      BY <1>3, <2>1
    <3> HIDE DEF q, p, node, i
    <3>3. Tree(t, "erase",
               PutAt(root, q, WithoutKey(NodeAt(root, q), find_index(key, NodeAt(root, q)))), contents \ {key}, q)
      BY <1>1, <1>2, <1>5, <3>1, ErasedLeaf
    <3> QED  BY <3>2, <3>3
  <2>2. CASE ~IsLeaf(node)
    <3>1. Exchange(root, key, q, i, last, leaf, now)  BY <1>1, <1>4, <2>2 DEF Exchange
    <3> HIDE DEF now
    <3> HIDE DEF q
    <3> HIDE DEF leaf
    <3> HIDE DEF last
    <3> HIDE DEF i
    <3> HIDE DEF node
    <3> HIDE DEF p
    <3>2. Tree(t, "erase", now, contents \ {key}, last)  BY <1>1, <1>2, <1>5, <3>1, ErasedAbove
    <3> QED  BY <1>4, <2>2, <3>2 DEF now
  <2> QED  BY <2>1, <2>2
<1>7. Tree(t', work', root', contents', stack')  BY <1>1, <1>6
<1>8. t' \in Degree /\ contents' \subseteq Key /\ work' \in {"none", "insert", "erase"}  BY <1>1, <1>2
<1> QED  BY <1>7, <1>8 DEF Shape

\* EraseDone keeps it.
LEMMA ShapeErased ==
  ASSUME BTreeParameters, Shape, EraseDone
  PROVE  Shape'
<1>1. /\ work = "erase" /\ (stack = <<>> \/ ~(Size(NodeAt(root, stack)) < t - 1))
      /\ work' = "none" /\ stack' = <<>> /\ t' = t /\ root' = root /\ contents' = contents
  BY DEF EraseDone, Shrunk, minimum_keys_in_node
<1>2. t \in Degree /\ t \in Nat \ {0, 1} /\ contents \subseteq Key /\ Tree(t, "erase", root, contents, stack)
  BY <1>1 DEF Shape, BTreeParameters
<1>3. Tree(t, "none", root, contents, <<>>)  BY <1>1, <1>2, EraseSettled
<1> QED  BY <1>1, <1>2, <1>3 DEF Shape

\* What the three ways to mend a node too small have in common.
LEMMA TooSmall ==
  ASSUME BTreeParameters, Shape, stack # <<>>, Shrunk(stack)
  PROVE  /\ work = "erase" /\ t \in Degree /\ t \in Nat \ {0, 1} /\ contents \subseteq Key
         /\ \E h, A, parts, f : Low(t, h, root, contents, stack, A, parts, f)
<1>1. work = "erase" /\ Size(NodeAt(root, stack)) < t - 1  BY DEF Shrunk, minimum_keys_in_node
<1>2. t \in Degree /\ t \in Nat \ {0, 1} /\ contents \subseteq Key /\ Tree(t, "erase", root, contents, stack)
  BY <1>1 DEF Shape, BTreeParameters
<1>3. \E h, A, parts, f : Low(t, h, root, contents, stack, A, parts, f)  BY <1>1, <1>2, LowIs
<1> QED  BY <1>1, <1>2, <1>3

\* BorrowLeft keeps it.
LEMMA ShapeBorrowsLeft ==
  ASSUME BTreeParameters, Shape, BorrowLeft
  PROVE  Shape'
<1> DEFINE par == NodeAt(root, Front(stack))
           a == Place - 1
           at == NodeAt(root, stack)
<1>1. /\ stack # <<>> /\ Shrunk(stack)
      /\ a \in 0..Size(par) /\ Size(KidAt(par, a)) > t - 1
      /\ stack' = Front(stack) /\ t' = t /\ work' = work /\ contents' = contents
  BY DEF BorrowLeft, Spare, Brother, Parent, minimum_keys_in_node
<1>2. root' = PutAt(root, Front(stack), LeftGiven(par, a, at))
  BY DEF BorrowLeft, Rebalanced, LeftGiven, Rebal, Brother, Parent
<1>3. work = "erase" /\ t \in Degree /\ t \in Nat \ {0, 1} /\ contents \subseteq Key
  BY <1>1, TooSmall
<1>4. PICK h, A, parts, f : Low(t, h, root, contents, stack, A, parts, f)  BY <1>1, TooSmall
<1>5. a \in Nat /\ a + 1 = Last(stack)
  <2>1. Last(stack) \in Nat  BY <1>4 DEF Low
  <2> QED  BY <1>1, <2>1 DEF Place
<1> HIDE DEF a
<1>6. Tree(t, "erase", PutAt(root, Front(stack), LeftGiven(NodeAt(root, Front(stack)), a, NodeAt(root, stack))),
           contents, Front(stack))
  BY <1>1, <1>3, <1>4, <1>5, BorrowFromLeft
<1>7. Tree(t', work', root', contents', stack')  BY <1>1, <1>2, <1>3, <1>6
<1> QED  BY <1>1, <1>3, <1>7 DEF Shape

\* BorrowRight keeps it.
LEMMA ShapeBorrowsRight ==
  ASSUME BTreeParameters, Shape, BorrowRight
  PROVE  Shape'
<1> DEFINE par == NodeAt(root, Front(stack))
           a == Place
           at == NodeAt(root, stack)
<1>1. /\ stack # <<>> /\ Shrunk(stack)
      /\ a + 1 \in 0..Size(par) /\ Size(KidAt(par, a + 1)) > t - 1
      /\ stack' = Front(stack) /\ t' = t /\ work' = work /\ contents' = contents
  BY DEF BorrowRight, Spare, Brother, Parent, minimum_keys_in_node
<1>2. root' = PutAt(root, Front(stack), RightGiven(par, a, at))
  BY DEF BorrowRight, Rebalanced, RightGiven, Rebal, Brother, Parent
<1>3. work = "erase" /\ t \in Degree /\ t \in Nat \ {0, 1} /\ contents \subseteq Key
  BY <1>1, TooSmall
<1>4. PICK h, A, parts, f : Low(t, h, root, contents, stack, A, parts, f)  BY <1>1, TooSmall
<1>5. a \in Nat /\ a = Last(stack)  BY <1>4 DEF Low, Place
<1> HIDE DEF a
<1>6. Tree(t, "erase", PutAt(root, Front(stack), RightGiven(NodeAt(root, Front(stack)), a, NodeAt(root, stack))),
           contents, Front(stack))
  BY <1>1, <1>3, <1>4, <1>5, BorrowFromRight
<1>7. Tree(t', work', root', contents', stack')  BY <1>1, <1>2, <1>3, <1>6
<1> QED  BY <1>1, <1>3, <1>7 DEF Shape

\* The greater of two numbers.
LEMMA MaxOfTwo ==
  ASSUME NEW x \in Int, NEW y \in Int
  PROVE  Max({x, y}) = IF x >= y THEN x ELSE y
<1>1. PICK m \in {x, y} : m = Max({x, y}) /\ \A z \in {x, y} : m >= z
  <2>1. \E m \in {x, y} : \A z \in {x, y} : m >= z
    <3>1. CASE x >= y  BY <3>1
    <3>2. CASE ~(x >= y)  BY <3>2
    <3> QED  BY <3>1, <3>2
  <2> QED  BY <2>1 DEF Max
<1> QED  BY <1>1

\* Merge keeps it, also where the root gives way to its only child.
LEMMA ShapeMerges ==
  ASSUME BTreeParameters, Shape, Merge
  PROVE  Shape'
<1> DEFINE par == NodeAt(root, Front(stack))
           i == Last(stack)
           a == Max({Place - 1, 0})
<1>1. /\ stack # <<>> /\ Shrunk(stack)
      /\ ~(i - 1 \in 0..Size(par) /\ Size(KidAt(par, i - 1)) > t - 1)
      /\ ~(i + 1 \in 0..Size(par) /\ Size(KidAt(par, i + 1)) > t - 1)
      /\ stack' = Front(stack) /\ t' = t /\ work' = work /\ contents' = contents
  BY DEF Merge, Spare, Brother, Parent, Place, minimum_keys_in_node
<1>2. root' = PutAt(root, Front(stack), Remaining(Front(stack), MergedPar(par, a)))
  <2>1. root' = PutAt(root, Front(stack), ParentOrChild(Merged(a)))  BY DEF Merge
  <2>2. Merged(a) = MergedPar(par, a)  BY DEF Merged, MergedPar, Brother, Parent
  <2>3. ParentOrChild(MergedPar(par, a)) = Remaining(Front(stack), MergedPar(par, a))
    BY DEF ParentOrChild, Remaining
  <2> QED  BY <2>1, <2>2, <2>3
<1>3. work = "erase" /\ t \in Degree /\ t \in Nat \ {0, 1} /\ contents \subseteq Key
  BY <1>1, TooSmall
<1>4. PICK h, A, parts, f : Low(t, h, root, contents, stack, A, parts, f)  BY <1>1, TooSmall
<1>5. i \in Nat /\ i \in 0..Size(par) /\ Size(par) \in Nat /\ Size(par) >= 1
  <2>1. /\ i \in Nat /\ i \in 0..Size(par)
        /\ Size(par) \in (IF Front(stack) = <<>> THEN 1 ELSE t - 1)..2 * t - 1
    BY <1>4 DEF Low
  <2> QED  BY <1>3, <2>1
<1>6. a = IF i = 0 THEN 0 ELSE i - 1
  <2>1. i - 1 \in Int /\ 0 \in Int  BY <1>5
  <2> DEFINE b == i - 1
  <2>2. Max({b, 0}) = IF b >= 0 THEN b ELSE 0  BY <2>1, MaxOfTwo
  <2>3. a = Max({b, 0})  BY DEF Place
  <2> HIDE DEF a
  <2> QED  BY <1>5, <2>2, <2>3
<1> HIDE DEF a
<1>7. a \in Nat /\ (i = a \/ i = a + 1) /\ a + 1 \in 0..Size(par)  BY <1>5, <1>6
<1>8. ASSUME NEW j \in {a, a + 1}, j # i PROVE ~(Size(KidAt(par, j)) > t - 1)
  <2>1. CASE i = 0
    <3>1. j = i + 1 /\ j \in 0..Size(par)  BY <1>6, <1>7, <1>8, <2>1
    <3> QED  BY <1>1, <3>1
  <2>2. CASE i # 0
    <3>1. j = i - 1 /\ j \in 0..Size(par)  BY <1>5, <1>6, <1>8, <2>2
    <3> QED  BY <1>1, <3>1
  <2> QED  BY <2>1, <2>2
<1>9. Tree(t, "erase",
           PutAt(root, Front(stack), Remaining(Front(stack), MergedPar(NodeAt(root, Front(stack)), a))),
           contents, Front(stack))
  BY <1>3, <1>4, <1>7, <1>8, MergeWith
<1>10. Tree(t', work', root', contents', stack')  BY <1>1, <1>2, <1>3, <1>9
<1> QED  BY <1>1, <1>3, <1>10 DEF Shape

\* The tree has its shape at every step of every operation: BTreeNext keeps it.
LEMMA ShapeKept ==
  ASSUME BTreeParameters, Shape, [BTreeNext]_treeVars
  PROVE  Shape'
<1>1. CASE \E key \in Key : Insert(key)  BY <1>1, ShapeInserts
<1>2. CASE \E key \in Key : Erase(key)  BY <1>2, ShapeErases
<1>3. CASE SplitNode  BY <1>3, ShapeSplits
<1>4. CASE InsertDone  BY <1>4, ShapeInserted
<1>5. CASE BorrowLeft  BY <1>5, ShapeBorrowsLeft
<1>6. CASE BorrowRight  BY <1>6, ShapeBorrowsRight
<1>7. CASE Merge  BY <1>7, ShapeMerges
<1>8. CASE EraseDone  BY <1>8, ShapeErased
<1>9. CASE UNCHANGED treeVars  BY <1>9 DEF treeVars, Shape
<1> QED  BY <1>1, <1>2, <1>3, <1>4, <1>5, <1>6, <1>7, <1>8, <1>9 DEF BTreeNext

(***************************************************************************)
(* What follows from the invariant.                                        *)
(***************************************************************************)

\* The way to the exempted node is one of the tree.
LEMMA RealExempt ==
  ASSUME NEW W, NEW h, NEW node, NEW S, NEW e, In(W, h, node, S, e)
  PROVE  Real(node, e)
<1> DEFINE Good == {p \in Seq(Nat) : \A g, x, T : In(W, g, x, T, p) => Real(x, p)}
<1>1. <<>> \in Good  BY RealHere
<1>2. ASSUME NEW i \in Nat, NEW u \in Seq(Nat), u \in Good PROVE <<i>> \o u \in Good
  <2> DEFINE r == <<i>> \o u
  <2>1. r \in Seq(Nat) /\ r # <<>>  BY Stepped
  <2>2. ASSUME NEW g, NEW x, NEW T, In(W, g, x, T, r) PROVE Real(x, r)
    <3>1. PICK parts : Holds(W, g, x, parts, r)  BY <2>2, InHolds
    <3>2. g \in Nat /\ g # 0
      <4> HIDE DEF r
      <4> QED  BY <2>1, <3>1 DEF Holds
    <3> DEFINE f == g - 1
    <3>3. f \in Nat /\ f + 1 = g  BY <3>2
    <3> HIDE DEF f
    <3>4. Holds(W, f + 1, x, parts, <<i>> \o u)  BY <3>1, <3>3
    <3>5. Headed(W, f, x, parts, i, u)  BY <3>3, <3>4, HeadHolds
    <3>6. In(W, f, KidAt(x, i), parts[i + 1], u)  BY <3>5 DEF Headed, KidAt
    <3>7. Real(KidAt(x, i), u)  BY <1>2, <3>6
    <3>8. i \in 0..Len(x.kids) - 1
      <4>1. i \in 0..Len(x.keys) /\ Len(x.kids) = Len(parts) /\ Len(parts) = Len(x.keys) + 1
            /\ Len(x.keys) \in Nat
        BY <3>5 DEF Headed, Ordered
      <4> QED  BY <4>1
    <3> QED  BY <3>7, <3>8, RealHead
  <2> QED  BY <2>1, <2>2
<1> HIDE DEF Good
<1>3. e \in Seq(Nat)  BY Facts
<1>4. e \in Good  BY <1>1, <1>2, <1>3, Ways
<1> QED  BY <1>4 DEF Good

\* The second part of a way.
LEMMA RealAfter ==
  ASSUME NEW node, NEW p \in Seq(Nat), NEW r \in Seq(Nat), Real(node, p \o r)
  PROVE  Real(NodeAt(node, p), r)
<1> DEFINE Good == {q \in Seq(Nat) : \A x : Real(x, q \o r) => Real(NodeAt(x, q), r)}
<1>1. <<>> \in Good
  <2>1. <<>> \o r = r  BY ConcatEmptySeq
  <2>2. \A x : NodeAt(x, <<>>) = x  BY NodeAtHere
  <2> QED  BY <2>1, <2>2
<1>2. ASSUME NEW i \in Nat, NEW u \in Seq(Nat), u \in Good PROVE <<i>> \o u \in Good
  <2>1. <<i>> \in Seq(Nat) /\ <<i>> \o u \in Seq(Nat) /\ u \o r \in Seq(Nat)  BY ConcatProperties
  <2>2. (<<i>> \o u) \o r = <<i>> \o (u \o r)  BY <2>1, ConcatAssociative
  <2>3. ASSUME NEW x, Real(x, (<<i>> \o u) \o r) PROVE Real(NodeAt(x, <<i>> \o u), r)
    <3>1. Real(x, <<i>> \o (u \o r))  BY <2>2, <2>3
    <3>2. Real(KidAt(x, i), u \o r)  BY <2>1, <3>1, RealHead
    <3>3. Real(NodeAt(KidAt(x, i), u), r)  BY <1>2, <3>2
    <3>4. NodeAt(x, <<i>> \o u) = NodeAt(KidAt(x, i), u)  BY NodeAtHead
    <3> QED  BY <3>3, <3>4
  <2> QED  BY <2>1, <2>3
<1> HIDE DEF Good
<1>3. p \in Good  BY <1>1, <1>2, Ways
<1> QED  BY <1>3 DEF Good

\* A way that goes on from another one: its next step and the rest.
LEMMA GoesOn ==
  ASSUME NEW p \in Seq(Nat), NEW b \in Seq(Nat), IsStrictPrefix(p, b)
  PROVE  \E i \in Nat, u \in Seq(Nat) : b = p \o (<<i>> \o u) /\ b[Len(p) + 1] = i
<1> DEFINE m == Len(p)
           n == Len(b)
<1>1. m \in Nat /\ n \in Nat /\ m <= n /\ SubSeq(p, 1, m) = SubSeq(b, 1, m) /\ p # b
  BY DEF IsStrictPrefix, IsPrefix
<1> HIDE DEF m, n
<1>2. \A j \in 1..m : p[j] = b[j]
  <2>1. 1 \in 1..m + 1 /\ m \in 1 - 1..m /\ 1 \in 1..n + 1 /\ m \in 1 - 1..n  BY <1>1
  <2>2. /\ \A j \in 1..m - 1 + 1 : SubSeq(p, 1, m)[j] = p[1 + j - 1]
        /\ \A j \in 1..m - 1 + 1 : SubSeq(b, 1, m)[j] = b[1 + j - 1]
    BY <2>1, PartOf DEF m, n
  <2>3. \A j \in 1..m : j \in 1..m - 1 + 1 /\ 1 + j - 1 = j  BY <1>1
  <2> QED  BY <1>1, <2>2, <2>3
<1>3. m < n
  <2>1. m = n => p = b  BY <1>2, SameSeq DEF m, n
  <2> QED  BY <1>1, <2>1
<1> DEFINE c == m + 1
           s == SubSeq(b, c, n)
<1>4. c \in 1..n + 1 /\ n \in c - 1..n /\ n - c + 1 = n - m /\ c - 1 = m  BY <1>1, <1>3
<1>c. c = m + 1  OBVIOUS
<1> HIDE DEF c
<1>5. s \in Seq(Nat) /\ Len(s) = n - m /\ \A j \in 1..n - m : s[j] = b[c + j - 1]
  BY <1>4, PartOf, SMTT(60) DEF n
<1> HIDE DEF s
<1>6. s # <<>>
  <2>1. n - m # 0  BY <1>1, <1>3
  <2>2. Len(<<>>) = 0  OBVIOUS
  <2> QED  BY <1>5, <2>1, <2>2
<1>7. s[1] \in Nat /\ Tail(s) \in Seq(Nat) /\ s = <<s[1]>> \o Tail(s)  BY <1>5, <1>6, FirstStep
<1>8. b = p \o s
  <2>1. /\ p \o s \in Seq(Nat) /\ Len(p \o s) = m + Len(s)
        /\ \A j \in 1..m : (p \o s)[j] = p[j]
        /\ \A j \in 1..Len(s) : (p \o s)[m + j] = s[j]
    <3>1. s \in Seq(Nat)  BY <1>5
    <3>2. /\ p \o s \in Seq(Nat) /\ Len(p \o s) = Len(p) + Len(s)
          /\ \A j \in 1..Len(p) : (p \o s)[j] = p[j]
          /\ \A j \in 1..Len(s) : (p \o s)[Len(p) + j] = s[j]
      BY <3>1, After
    <3> QED  BY <3>2 DEF m
  <2> DEFINE q == p \o s
  <2> HIDE DEF q
  <2>2. q \in Seq(Nat) /\ Len(q) = n  BY <1>1, <1>5, <2>1 DEF q
  <2>3. ASSUME NEW j \in 1..n PROVE b[j] = q[j]
    <3>1. CASE j <= m
      <4>1. j \in 1..m  BY <1>1, <3>1
      <4> QED  BY <1>2, <2>1, <4>1 DEF q
    <3>2. CASE j > m
      <4> DEFINE l == j - m
      <4>1. l \in 1..n - m /\ m + l = j /\ c + l - 1 = j  BY <1>1, <1>c, <3>2
      <4> HIDE DEF l
      <4>2. q[m + l] = s[l]  BY <1>5, <2>1, <4>1 DEF q
      <4>3. s[l] = b[c + l - 1]  BY <1>5, <4>1
      <4> QED  BY <4>1, <4>2, <4>3
    <3> QED  BY <1>1, <3>1, <3>2
  <2>4. b = q  BY <2>2, <2>3, SameSeq DEF n
  <2> QED  BY <2>4 DEF q
<1>9. b[m + 1] = s[1]
  <2>1. 1 \in 1..n - m /\ c + 1 - 1 = m + 1  BY <1>1, <1>3, <1>c
  <2> QED  BY <1>5, <2>1
<1>10. b = p \o (<<s[1]>> \o Tail(s)) /\ b[Len(p) + 1] = s[1]  BY <1>7, <1>8, <1>9 DEF m
<1> QED  BY <1>7, <1>10

\* A node of a tree is the root of one, of a height that its depth leaves.
LEMMA NodeIs ==
  ASSUME NEW W, NEW h, NEW node, NEW S, NEW e, In(W, h, node, S, e), NEW p \in Paths(node)
  PROVE  /\ p \in Seq(Nat) /\ Real(node, p) /\ h \in Nat
         /\ p = e \/ p = <<>> \/ Size(NodeAt(node, p)) \in W
         /\ \E A, f : In(W, h - Len(p), NodeAt(node, p), A, f)
<1>1. p \in Seq(Nat) /\ Real(node, p) /\ h \in Nat  BY PathsOf, Facts
<1>2. Inside(W, h, node, S, e, p)  BY <1>1, InsideAll
<1> QED  BY <1>1, <1>2 DEF Inside

\* The keys of a node are to the left or to the right of what is below a child.
LEMMA KeysApart ==
  ASSUME NEW W, NEW h, NEW node, NEW S, NEW e, In(W, h, node, S, e), BTreeParameters,
         NEW i \in Nat, NEW u \in Seq(Nat), Real(node, <<i>> \o u),
         NEW k \in Range(NodeAt(node, <<i>> \o u).keys), NEW j \in DOMAIN node.keys
  PROVE  k # node.keys[j] /\ (k < node.keys[j] <=> i < j)
<1> DEFINE kid == KidAt(node, i)
<1>1. i \in 0..Len(node.kids) - 1 /\ Real(kid, u)  BY RealHead
<1>2. i < Len(node.kids)  BY <1>1, KidBound
<1>3. PICK parts : /\ i + 1 \in 1..Len(parts)
                   /\ In(W, h - 1, kid, parts[i + 1], Below(e, i + 1))
                   /\ Ordered(node.keys, parts)
  BY <1>2, ChildIn
<1> HIDE DEF kid
<1>4. k \in Range(NodeAt(kid, u).keys)  BY NodeAtHead DEF kid
<1>5. k \in parts[i + 1]  BY <1>1, <1>3, <1>4, KeysBelow
<1> DEFINE g == i + 1
<1>6. g \in 1..Len(parts) /\ k \in parts[g] /\ (g <= j <=> i < j) /\ j \in 1..Len(node.keys)
  <2>1. node.keys \in Seq(Key)  BY <1>3 DEF Ordered
  <2>2. j \in 1..Len(node.keys)  BY <2>1
  <2>3. i + 1 <= j <=> i < j  BY <2>2
  <2> QED  BY <1>3, <1>5, <2>2, <2>3
<1> HIDE DEF g
<1>7. IF g <= j THEN k < node.keys[j] ELSE node.keys[j] < k  BY <1>3, <1>6 DEF Ordered
<1>8. k \in Int /\ node.keys[j] \in Int
  <2>1. parts[g] \in SUBSET Key /\ node.keys[j] \in Key  BY <1>3, <1>6 DEF Ordered
  <2> QED  BY <1>6, <2>1 DEF BTreeParameters
<1> QED  BY <1>6, <1>7, <1>8

\* The invariant has the type invariant in it.
LEMMA ShapeTypes ==
  ASSUME BTreeParameters, Shape
  PROVE  BTreeTypeOK
<1>1. /\ t \in Degree /\ contents \subseteq Key /\ work \in {"none", "insert", "erase"}
  BY DEF Shape
<1>2. PICK h : In(Wide(t), h, root, contents, stack)  BY DEF Shape, Tree
<1>3. stack \in Paths(root)
  <2>1. stack \in Seq(Nat) /\ Real(root, stack)  BY <1>2, Facts, RealExempt
  <2> QED  BY <1>2, <2>1, PathsOf
<1>4. ASSUME NEW path \in Paths(root)
      PROVE  /\ NodeAt(root, path).keys \in Seq(Key)
             /\ IsLeaf(NodeAt(root, path)) \/ Len(NodeAt(root, path).kids) = Size(NodeAt(root, path)) + 1
  <2>1. PICK A, f : In(Wide(t), h - Len(path), NodeAt(root, path), A, f)  BY <1>2, NodeIs
  <2> QED  BY <2>1, Facts
<1> QED  BY <1>1, <1>3, <1>4 DEF BTreeTypeOK

\* It has the order of the keys in it, and that the tree has the right ones.
LEMMA ShapeOrders ==
  ASSUME BTreeParameters, Shape
  PROVE  KeysInOrder
<1>1. PICK h : In(Wide(t), h, root, contents, stack)  BY DEF Shape, Tree
<1>2. Paths(root) = {p \in Seq(Nat) : Real(root, p)}  BY <1>1, PathsOf
<1>3. contents = UNION {Range(NodeAt(root, path).keys) : path \in Paths(root)}
  <2>1. ASSUME NEW k
        PROVE  k \in contents <=> \E p \in Seq(Nat) : Real(root, p) /\ k \in Range(NodeAt(root, p).keys)
    BY <1>1, KeysBelow
  <2> QED  BY <1>2, <2>1
<1>4. ASSUME NEW path \in Paths(root), NEW i \in DOMAIN NodeAt(root, path).keys,
             NEW j \in DOMAIN NodeAt(root, path).keys, i < j
      PROVE  NodeAt(root, path).keys[i] < NodeAt(root, path).keys[j]
  <2> DEFINE at == NodeAt(root, path)
  <2>1. PICK A, f : In(Wide(t), h - Len(path), at, A, f)  BY <1>1, NodeIs
  <2>2. PICK parts : Holds(Wide(t), h - Len(path), at, parts, f)  BY <2>1, InHolds
  <2>3. at.keys \in Seq(Key) /\ \A x, y \in 1..Len(at.keys) : x < y => at.keys[x] < at.keys[y]
    BY <2>2 DEF Holds, Ordered
  <2>4. i \in 1..Len(at.keys) /\ j \in 1..Len(at.keys)  BY <2>3
  <2> QED  BY <1>4, <2>3, <2>4
<1>5. ASSUME NEW path \in Paths(root), NEW below \in Paths(root), IsStrictPrefix(path, below),
             NEW key \in Range(NodeAt(root, below).keys), NEW i \in DOMAIN NodeAt(root, path).keys
      PROVE  /\ key # NodeAt(root, path).keys[i]
             /\ key < NodeAt(root, path).keys[i] <=> below[Len(path) + 1] < i
  <2> DEFINE at == NodeAt(root, path)
  <2>1. PICK A, f : In(Wide(t), h - Len(path), at, A, f)  BY <1>1, NodeIs
  <2>2. path \in Seq(Nat) /\ below \in Seq(Nat) /\ Real(root, below)  BY <1>2
  <2>3. PICK c \in Nat, u \in Seq(Nat) : below = path \o (<<c>> \o u) /\ below[Len(path) + 1] = c
    BY <1>5, <2>2, GoesOn
  <2> DEFINE r == <<c>> \o u
  <2>4. r \in Seq(Nat)  BY Stepped
  <2>5. NodeAt(root, below) = NodeAt(at, r)
    <3> HIDE DEF r
    <3>1. below = path \o r  BY <2>3 DEF r
    <3> QED  BY <2>2, <2>4, <3>1, NodeAtAfter
  <2>6. Real(at, r)
    <3> HIDE DEF r
    <3>1. Real(root, path \o r)  BY <2>2, <2>3 DEF r
    <3> QED  BY <2>2, <2>4, <3>1, RealAfter
  <2> HIDE DEF at
  <2>7. key \in Range(NodeAt(at, <<c>> \o u).keys) /\ i \in DOMAIN at.keys  BY <1>5, <2>5 DEF at
  <2>8. key # at.keys[i] /\ (key < at.keys[i] <=> c < i)  BY <2>1, <2>6, <2>7, KeysApart
  <2> QED  BY <2>3, <2>8 DEF at
<1> QED  BY <1>3, <1>4, <1>5 DEF KeysInOrder

\* It has the balance in it: no node is exempted between operations.
LEMMA ShapeBalances ==
  ASSUME BTreeParameters, Shape
  PROVE  Balanced
<1> SUFFICES ASSUME work = "none"
             PROVE  /\ \A p, q \in Paths(root) :
                         IsLeaf(NodeAt(root, p)) /\ IsLeaf(NodeAt(root, q)) => Len(p) = Len(q)
                    /\ root = Nil \/ Size(root) \in 1..2 * t - 1
                    /\ \A path \in Paths(root) \ {<<>>} : Size(NodeAt(root, path)) \in t - 1..2 * t - 1
  BY DEF Balanced, minimum_keys_in_node, maximum_keys_in_node
<1>1. Tree(t, "none", root, contents, stack)  BY DEF Shape
<1>2. stack = <<>> /\ (root = Nil \/ Size(root) \in 1..2 * t - 1)  BY <1>1 DEF Tree, Sized
<1>3. PICK h : In(Wide(t), h, root, contents, <<>>)  BY <1>1, <1>2 DEF Tree
<1>4. ASSUME NEW p \in Paths(root), IsLeaf(NodeAt(root, p)) PROVE Len(p) = h
  <2>1. p \in Seq(Nat) /\ h \in Nat  BY <1>3, NodeIs
  <2>2. PICK A, f : In(Wide(t), h - Len(p), NodeAt(root, p), A, f)  BY <1>3, NodeIs
  <2>3. h - Len(p) = 0  BY <1>4, <2>2, Facts
  <2> QED  BY <2>1, <2>3
<1>5. ASSUME NEW p \in Paths(root), p # <<>> PROVE Size(NodeAt(root, p)) \in t - 1..2 * t - 1
  <2>1. Size(NodeAt(root, p)) \in Wide(t)  BY <1>3, <1>5, NodeIs
  <2> QED  BY <2>1 DEF Wide
<1> QED  BY <1>2, <1>4, <1>5

\* find_path finds a key, and Exists says so, exactly when the key was inserted and not erased
\* since, in the middle of an operation as well.
Finds == \A key \in Key : Exists(key) <=> key \in contents

\* It makes find_path find each key of the tree and no other.
LEMMA ShapeFinds ==
  ASSUME BTreeParameters, Shape
  PROVE  Finds
<1>1. PICK h : In(Wide(t), h, root, contents, stack)  BY DEF Shape, Tree
<1>2. ASSUME NEW key \in Key PROVE Exists(key) <=> key \in contents
  <2>1. Found(key, NodeAt(root, find_path(root, key))) <=> key \in contents  BY <1>1, PathLeads
  <2>2. root = Nil => contents = {}
    <3>1. ASSUME root = Nil PROVE contents = {}
      <4>1. In(Wide(t), h, Nil, contents, stack)  BY <1>1, <3>1
      <4> QED  BY <4>1, NilEmpty
    <3> QED  BY <3>1
  <2> QED  BY <2>1, <2>2 DEF Exists
<1> QED  BY <1>2 DEF Finds

-------------------------------------------------------------------------------
(* The theorems. *)

\* Shape is an invariant: at every step of insert and erase the tree is one of some height,
\* with the keys it should have, and at most the node the loop stands at has too many keys or
\* too few.
THEOREM TreeIsShaped ==
  ASSUME BTreeParameters PROVE BTreeSpec => []Shape
<1>1. BTreeInit => Shape  BY ShapeAtFirst
<1>2. Shape /\ [BTreeNext]_treeVars => Shape'  BY ShapeKept
<1> QED  BY <1>1, <1>2, PTL DEF BTreeSpec

\* A node has one child more than keys, or none, and the stack of the loops is a way down the
\* tree, at every step of emplace_inner and erase_inner, for every set of keys and degree.
THEOREM NodesAreWellTyped ==
  ASSUME BTreeParameters PROVE BTreeSpec => []BTreeTypeOK
<1>1. Shape => BTreeTypeOK  BY ShapeTypes
<1> QED  BY <1>1, TreeIsShaped, PTL

\* In the middle of splits, borrowing and merges as well the tree holds exactly the keys inserted
\* and not erased, each once and in order, so no step of the loops loses or doubles a key.
THEOREM KeysStayInOrder ==
  ASSUME BTreeParameters PROVE BTreeSpec => []KeysInOrder
<1>1. Shape => KeysInOrder  BY ShapeOrders
<1> QED  BY <1>1, TreeIsShaped, PTL

\* After emplace_inner and erase_inner every node but the root has t - 1 to 2t - 1 keys, the root
\* of a tree that is not empty one at least, and all leaves are equally deep.
THEOREM TreeStaysBalanced ==
  ASSUME BTreeParameters PROVE BTreeSpec => []Balanced
<1>1. Shape => Balanced  BY ShapeBalances
<1> QED  BY <1>1, TreeIsShaped, PTL

\* find_path, and Exists on it, find a key exactly when it was inserted and not erased since.
THEOREM EveryKeyIsFound ==
  ASSUME BTreeParameters PROVE BTreeSpec => []Finds
<1>1. Shape => Finds  BY ShapeFinds
<1> QED  BY <1>1, TreeIsShaped, PTL
===============================================================================

----------------------------- MODULE SortedListProofs -----------------------------
(* The allocator with a sorted list of free blocks is a heap, and joins all that   *)
(* can be joined, for every memory, every header and all sizes asked for.          *)
EXTENDS SortedList, SequenceTheorems, TLAPS

M == block_metadata_size
Blocks == DOMAIN size

SortedTypeOK ==
  /\ Blocks \subseteq Nat /\ size \in [Blocks -> Nat]
  /\ free \in Seq(Blocks)
  /\ DOMAIN handed \subseteq Nat /\ handed \in [DOMAIN handed -> Nat]
  /\ fit \in FitModes

Inside == \A b \in Blocks : End(b) <= Space

\* A block in use is not in the list and large enough for what was asked for.
Served ==
  \A p \in DOMAIN handed : p - M \in Blocks /\ p - M \notin Free /\ handed[p] <= size[p - M]

SortedInv == SortedTypeOK /\ Tiled /\ Inside /\ Served

\* Blocks stand in a row: each ends before the next, and no two end at the same place.
LEMMA Row ==
  ASSUME SortedSizes, SortedInv
  PROVE  /\ M \in Nat \ {0} /\ Space \in Nat
         /\ \A b \in Blocks : /\ b \in Nat /\ size[b] \in Nat /\ End(b) = b + M + size[b]
                              /\ End(b) \in Nat /\ b < End(b) /\ End(b) <= Space
                              /\ End(b) \in Blocks \cup {Space}
         /\ \A b, c \in Blocks : /\ b < c => End(b) <= c
                                 /\ End(b) = End(c) => b = c
<1>1. M \in Nat \ {0} /\ Space \in Nat
  BY DEF SortedSizes, M
<1>2. \A b \in Blocks : /\ b \in Nat /\ size[b] \in Nat /\ End(b) = b + M + size[b]
                        /\ End(b) \in Nat /\ b < End(b) /\ End(b) <= Space
                        /\ End(b) \in Blocks \cup {Space}
  <2> SUFFICES ASSUME NEW b \in Blocks
               PROVE  /\ b \in Nat /\ size[b] \in Nat /\ End(b) = b + M + size[b]
                      /\ End(b) \in Nat /\ b < End(b) /\ End(b) <= Space
                      /\ End(b) \in Blocks \cup {Space}
    OBVIOUS
  <2>1. b \in Nat /\ size[b] \in Nat
    BY DEF SortedInv, SortedTypeOK
  <2>2. End(b) = b + M + size[b] /\ End(b) <= Space /\ End(b) \in Blocks \cup {Space}
    BY DEF End, M, SortedInv, Inside, Tiled, Blocks
  <2> QED BY <1>1, <2>1, <2>2
<1>3. \A b, c \in Blocks : b < c => End(b) <= c
  BY DEF SortedInv, Tiled, Blocks
<1>4. ASSUME NEW b \in Blocks, NEW c \in Blocks, End(b) = End(c) PROVE b = c
  BY <1>2, <1>3, <1>4
<1> QED BY <1>1, <1>2, <1>3, <1>4

\* The list, as a sequence in the order of addresses.
LEMMA List ==
  ASSUME SortedSizes, SortedInv
  PROVE  /\ Len(free) \in Nat /\ DOMAIN free = 1..Len(free)
         /\ \A i \in 1..Len(free) : free[i] \in Blocks /\ free[i] \in Free
         /\ \A i, j \in 1..Len(free) : /\ i < j => free[i] < free[j]
                                       /\ i <= j => free[i] <= free[j]
         /\ \A b \in Free : b \in Blocks /\ \E i \in 1..Len(free) : b = free[i]
<1>1. free \in Seq(Blocks) /\ Len(free) \in Nat /\ DOMAIN free = 1..Len(free)
  BY DEF SortedInv, SortedTypeOK
<1>2. \A i \in 1..Len(free) : free[i] \in Blocks /\ free[i] \in Nat /\ free[i] \in Free
  BY <1>1, Row DEF Free
<1>3. \A i, j \in 1..Len(free) : i < j => free[i] < free[j]
  BY <1>1 DEF SortedInv, Tiled
<1>4. \A i, j \in 1..Len(free) : i <= j => free[i] <= free[j]
  BY <1>1, <1>2, <1>3
<1>5. \A b \in Free : b \in Blocks /\ \E i \in 1..Len(free) : b = free[i]
  BY <1>1, <1>2 DEF Free
<1> QED BY <1>1, <1>2, <1>3, <1>4, <1>5

\* The elements up to a, one new element, and those from c on.
Cut(s, a, e, c) == SubSeq(s, 1, a) \o <<e>> \o SubSeq(s, c, Len(s))
IsCut(t, S, s, a, e, c) ==
  /\ t \in Seq(S)
  /\ Len(t) = a + 2 + Len(s) - c
  /\ \A j \in 1..Len(t) :
       t[j] = IF j <= a THEN s[j] ELSE IF j = a + 1 THEN e ELSE s[j + c - a - 2]

LEMMA Replaced ==
  ASSUME NEW S, NEW s \in Seq(S), NEW e \in S,
         NEW a \in 0..Len(s), NEW c \in a + 1..Len(s) + 1
  PROVE  IsCut(Cut(s, a, e, c), S, s, a, e, c)
<1> DEFINE u == SubSeq(s, 1, a)
           v == SubSeq(s, c, Len(s))
           w == u \o <<e>>
<1>0. Len(s) \in Nat /\ \A i \in 1..Len(s) : s[i] \in S
  OBVIOUS
<1>1. u \in Seq(S) /\ Len(u) = a /\ \A j \in 1..a : u[j] = s[j]
  BY <1>0, SubSeqProperties
<1>2. v \in Seq(S) /\ Len(v) = Len(s) - c + 1 /\ \A j \in 1..Len(s) - c + 1 : v[j] = s[c + j - 1]
  BY <1>0, SubSeqProperties
<1>3. <<e>> \in Seq(S) /\ Len(<<e>>) = 1 /\ <<e>>[1] = e
  OBVIOUS
<1>4. /\ w \in Seq(S) /\ Len(w) = a + 1
      /\ \A j \in 1..a + 1 : w[j] = IF j <= a THEN u[j] ELSE <<e>>[j - a]
  BY <1>1, <1>3, ConcatProperties
<1>5. \A j \in 1..a + 1 : w[j] = IF j <= a THEN s[j] ELSE e
  <2> SUFFICES ASSUME NEW j \in 1..a + 1 PROVE w[j] = IF j <= a THEN s[j] ELSE e
    OBVIOUS
  <2>1. CASE j <= a
    BY <1>1, <1>4, <2>1
  <2>2. CASE j = a + 1
    <3>1. j - a = 1 /\ ~(j <= a)
      BY <2>2
    <3> QED BY <1>3, <1>4, <3>1
  <2> QED BY <2>1, <2>2
<1>6. /\ w \o v \in Seq(S) /\ Len(w \o v) = a + 1 + Len(s) - c + 1
      /\ \A j \in 1..a + 1 + Len(s) - c + 1 :
           (w \o v)[j] = IF j <= a + 1 THEN w[j] ELSE v[j - (a + 1)]
  <2>1. Len(w) + Len(v) = a + 1 + Len(s) - c + 1
    BY <1>0, <1>2, <1>4
  <2> HIDE DEF w, v
  <2>2. /\ w \o v \in Seq(S) /\ Len(w \o v) = Len(w) + Len(v)
        /\ \A j \in 1..Len(w) + Len(v) :
             (w \o v)[j] = IF j <= Len(w) THEN w[j] ELSE v[j - Len(w)]
    BY <1>2, <1>4, ConcatProperties
  <2>3. Len(w) = a + 1
    BY <1>4
  <2> QED BY <2>1, <2>2, <2>3
<1> HIDE DEF u, v, w
<1>7. ASSUME NEW j \in 1..a + 2 + Len(s) - c
      PROVE  (w \o v)[j] = IF j <= a THEN s[j] ELSE IF j = a + 1 THEN e ELSE s[j + c - a - 2]
  <2>0. j \in 1..a + 1 + Len(s) - c + 1 /\ j \in Int /\ a \in Int
    BY <1>0
  <2>1. CASE j <= a + 1
    <3>1. (w \o v)[j] = w[j] /\ j \in 1..a + 1
      BY <1>6, <2>0, <2>1
    <3> QED BY <1>5, <2>0, <2>1, <3>1
  <2>2. CASE ~(j <= a + 1)
    <3>1. j - (a + 1) \in 1..Len(s) - c + 1
      BY <1>0, <2>2
    <3>2. v[j - (a + 1)] = s[c + (j - (a + 1)) - 1]
      BY <1>2, <3>1
    <3>3. c + (j - (a + 1)) - 1 = j + c - a - 2
      BY <1>0
    <3>4. (w \o v)[j] = v[j - (a + 1)] /\ ~(j <= a) /\ j # a + 1
      BY <1>6, <2>0, <2>2
    <3> QED BY <3>2, <3>3, <3>4
  <2> QED BY <2>1, <2>2
<1>8. Len(w \o v) = a + 2 + Len(s) - c
  BY <1>0, <1>6
<1> QED BY <1>6, <1>7, <1>8 DEF IsCut, Cut, u, v, w

LEMMA Removed ==
  ASSUME NEW S, NEW s \in Seq(S), NEW i \in 1..Len(s)
  PROVE  LET t == RemoveAt(s, i)
         IN /\ t \in Seq(S)
            /\ Len(t) = Len(s) - 1
            /\ \A j \in 1..Len(t) : t[j] = IF j < i THEN s[j] ELSE s[j + 1]
<1> DEFINE u == SubSeq(s, 1, i - 1)
           v == SubSeq(s, i + 1, Len(s))
<1>0. Len(s) \in Nat /\ \A k \in 1..Len(s) : s[k] \in S
  OBVIOUS
<1>1. u \in Seq(S) /\ Len(u) = i - 1 /\ \A j \in 1..i - 1 : u[j] = s[j]
  BY <1>0, SubSeqProperties
<1>2. v \in Seq(S) /\ Len(v) = Len(s) - i /\ \A j \in 1..Len(s) - i : v[j] = s[i + j]
  <2>1. v \in Seq(S) /\ Len(v) = Len(s) - i
    BY <1>0, SubSeqProperties
  <2>2. \A j \in 1..Len(s) - (i + 1) + 1 : v[j] = s[i + 1 + j - 1]
    BY <1>0, SubSeqProperties
  <2> QED BY <1>0, <2>1, <2>2
<1> HIDE DEF u, v
<1>3. /\ u \o v \in Seq(S) /\ Len(u \o v) = Len(s) - 1
      /\ \A j \in 1..Len(s) - 1 : (u \o v)[j] = IF j <= i - 1 THEN u[j] ELSE v[j - (i - 1)]
  <2>1. Len(u) + Len(v) = Len(s) - 1
    BY <1>0, <1>1, <1>2
  <2>2. /\ u \o v \in Seq(S) /\ Len(u \o v) = Len(u) + Len(v)
        /\ \A j \in 1..Len(u) + Len(v) :
             (u \o v)[j] = IF j <= Len(u) THEN u[j] ELSE v[j - Len(u)]
    BY <1>1, <1>2, ConcatProperties
  <2>3. Len(u) = i - 1
    BY <1>1
  <2> QED BY <2>1, <2>2, <2>3
<1>4. ASSUME NEW j \in 1..Len(s) - 1
      PROVE  (u \o v)[j] = IF j < i THEN s[j] ELSE s[j + 1]
  <2>1. CASE j < i
    <3>1. j <= i - 1 /\ j \in 1..i - 1
      BY <1>0, <2>1
    <3> QED BY <1>1, <1>3, <2>1, <3>1
  <2>2. CASE ~(j < i)
    <3>1. j - (i - 1) \in 1..Len(s) - i /\ i + (j - (i - 1)) = j + 1 /\ ~(j <= i - 1)
      BY <1>0, <2>2
    <3> QED BY <1>2, <1>3, <2>2, <3>1
  <2> QED BY <2>1, <2>2
<1> QED BY <1>3, <1>4 DEF u, v, RemoveAt

\* A free block that is handed out as a whole leaves the list; nothing else changes.
LEMMA AllocateWholeKeeps ==
  ASSUME SortedSizes, SortedInv, NEW n \in Request, NEW i \in Fitting(n),
         free' = RemoveAt(free, i), size' = size, fit' = fit,
         handed' = Promise!Put(handed, free[i] + M, n)
  PROVE  SortedInv'
<1> DEFINE block == free[i]
<1>0. n \in Nat /\ M \in Nat \ {0} /\ Len(free) \in Nat /\ i \in 1..Len(free)
  BY Row, List DEF SortedSizes, Fitting
<1>1. block \in Blocks /\ block \in Nat /\ block \in Free /\ n <= size[block]
  BY <1>0, Row, List DEF Fitting
<1>2. handed' = [p \in DOMAIN handed \cup {block + M} |-> IF p = block + M THEN n ELSE handed[p]]
  BY DEF Promise!Put
<1>3. Blocks' = Blocks /\ \A b \in Blocks : End(b)' = End(b)
  BY DEF Blocks, End
<1>4. /\ free' \in Seq(Blocks) /\ Len(free') = Len(free) - 1 /\ DOMAIN free' = 1..Len(free) - 1
      /\ \A j \in 1..Len(free) - 1 : free'[j] = IF j < i THEN free[j] ELSE free[j + 1]
  <2>1. free \in Seq(Blocks)
    BY DEF SortedInv, SortedTypeOK
  <2>2. /\ RemoveAt(free, i) \in Seq(Blocks) /\ Len(RemoveAt(free, i)) = Len(free) - 1
        /\ \A j \in 1..Len(RemoveAt(free, i)) :
             RemoveAt(free, i)[j] = IF j < i THEN free[j] ELSE free[j + 1]
    BY <1>0, <2>1, Removed
  <2>3. DOMAIN RemoveAt(free, i) = 1..Len(RemoveAt(free, i))
    BY <2>2
  <2> QED BY <2>2, <2>3
<1>5. Free' = Free \ {block}
  <2>1. ASSUME NEW b \in Free' PROVE b \in Free \ {block}
    <3>1. PICK j \in 1..Len(free) - 1 : b = IF j < i THEN free[j] ELSE free[j + 1]
      BY <1>4 DEF Free
    <3>2. PICK k \in 1..Len(free) : b = free[k] /\ k # i
      <4>1. CASE j < i
        BY <1>0, <3>1, <4>1
      <4>2. CASE ~(j < i)
        BY <1>0, <3>1, <4>2
      <4> QED BY <4>1, <4>2
    <3>3. free[k] < block \/ block < free[k]
      BY <1>0, <3>2, List
    <3> QED BY <1>0, <1>1, <3>2, <3>3, List, Row
  <2>2. ASSUME NEW b \in Free, b # block PROVE b \in Free'
    <3>1. PICK k \in 1..Len(free) : b = free[k]
      BY List
    <3>2. CASE k < i
      <4>1. k \in 1..Len(free) - 1 /\ free'[k] = b
        BY <1>0, <1>4, <3>1, <3>2
      <4> QED BY <1>4, <4>1 DEF Free
    <3>3. CASE k > i
      <4>1. k - 1 \in 1..Len(free) - 1 /\ ~(k - 1 < i) /\ (k - 1) + 1 = k
        BY <1>0, <3>3
      <4>2. free'[k - 1] = b
        BY <1>4, <3>1, <4>1
      <4> QED BY <1>4, <4>1, <4>2 DEF Free
    <3> QED BY <1>0, <2>2, <3>1, <3>2, <3>3
  <2> QED BY <2>1, <2>2
<1>6. SortedTypeOK'
  <2>1. DOMAIN handed' \subseteq Nat /\ handed' \in [DOMAIN handed' -> Nat]
    BY <1>0, <1>1, <1>2 DEF SortedInv, SortedTypeOK
  <2> QED BY <1>3, <1>4, <2>1 DEF SortedInv, SortedTypeOK
<1>7. \A j, k \in DOMAIN free' : j < k => free'[j] < free'[k]
  <2> SUFFICES ASSUME NEW j \in 1..Len(free) - 1, NEW k \in 1..Len(free) - 1, j < k
               PROVE  free'[j] < free'[k]
    BY <1>4
  <2>1. PICK x \in 1..Len(free) : free'[j] = free[x] /\ x = IF j < i THEN j ELSE j + 1
    BY <1>0, <1>4
  <2>2. PICK y \in 1..Len(free) : free'[k] = free[y] /\ y = IF k < i THEN k ELSE k + 1
    BY <1>0, <1>4
  <2>3. x < y
    BY <1>0, <2>1, <2>2
  <2> QED BY <2>1, <2>2, <2>3, List
<1>8. {p - M : p \in DOMAIN handed'} = Blocks \ Free'
  <2>1. {p - M : p \in DOMAIN handed} = Blocks \ Free
    BY DEF SortedInv, Tiled, Blocks, M
  <2>2. (block + M) - M = block
    BY <1>0, <1>1
  <2> QED BY <1>1, <1>2, <1>5, <2>1, <2>2
<1>9. Tiled'
  <2>1. 0 \in Blocks /\ Free \subseteq Blocks
        /\ \A b \in Blocks : /\ \A c \in Blocks : b < c => End(b) <= c
                             /\ End(b) \in Blocks \cup {Space}
                             /\ b \in Free => End(b) \notin Free
    BY DEF SortedInv, Tiled, Blocks
  <2>2. Free' \subseteq Blocks /\ \A b \in Free' : b \in Free /\ End(b)' \notin Free'
    BY <1>3, <1>5, <2>1
  <2> QED BY <1>3, <1>7, <1>8, <2>1, <2>2 DEF Tiled, Blocks, M
<1>10. Inside'
  BY <1>3 DEF SortedInv, Inside
<1>11. Served'
  <2> SUFFICES ASSUME NEW p \in DOMAIN handed'
               PROVE  p - M \in Blocks /\ p - M \notin Free' /\ handed'[p] <= size[p - M]
    BY <1>3 DEF Served, M
  <2>1. CASE p = block + M
    <3>1. p - M = block
      BY <1>0, <1>1, <2>1
    <3> QED BY <1>1, <1>2, <1>5, <2>1, <3>1
  <2>2. CASE p # block + M
    BY <1>2, <1>5, <2>2 DEF SortedInv, Served
  <2> QED BY <2>1, <2>2
<1> QED BY <1>6, <1>9, <1>10, <1>11 DEF SortedInv

\* Block, number i in the list, is split into what is handed out and the rest.
Splits(i, block, n, rest, left) ==
  /\ size' = [b \in Blocks \cup {rest} |->
                IF b = rest THEN left ELSE IF b = block THEN n ELSE size[b]]
  /\ free' = [free EXCEPT ![i] = rest]
  /\ handed' = [p \in DOMAIN handed \cup {block + M} |->
                  IF p = block + M THEN n ELSE handed[p]]
  /\ fit' = fit

\* A free block that is split leaves its rest in its place in the list.
\* A block that is split ends where its rest ends.
LEMMA SplitSum ==
  \A at, header, n, left \in Nat :
    /\ (at + header + n) + header + left = at + header + (n + header + left)
    /\ header > 0 => at < at + header + n
OBVIOUS

LEMMA AllocateSplitKeeps ==
  ASSUME SortedSizes, SortedInv, NEW n \in Nat, NEW i \in 1..Len(free),
         NEW block \in Blocks, NEW rest \in Nat, NEW left \in Nat,
         block = free[i], rest = block + M + n, size[block] = n + M + left,
         Splits(i, block, n, rest, left)
  PROVE  SortedInv'
<1>0. M \in Nat \ {0} /\ Len(free) \in Nat /\ Space \in Nat /\ DOMAIN free = 1..Len(free)
  BY Row, List
<1>1. block \in Blocks /\ block \in Nat /\ block \in Free /\ size[block] \in Nat
      /\ End(block) = block + M + size[block] /\ End(block) <= Space /\ End(block) \in Nat
  BY <1>0, Row, List
<1>2. block < rest /\ rest < End(block) /\ rest < Space /\ block # rest
      /\ rest + M + left = End(block)
  <2>0. M \in Nat /\ M > 0 /\ block \in Nat /\ End(block) \in Nat
    BY <1>0, <1>1
  <2>1. block < rest /\ block # rest
    BY <2>0, SplitSum
  <2>2. rest + M + left = End(block)
    <3>1. End(block) = block + M + (n + M + left)
      BY <1>1
    <3>2. (block + M + n) + M + left = block + M + (n + M + left)
      BY <2>0, SplitSum
    <3> QED BY <3>1, <3>2, Zenon
  <2>3. rest < End(block)
    BY <2>0, <2>2
  <2>4. rest < Space
    BY <1>0, <1>1, <2>0, <2>3
  <2> QED BY <2>1, <2>2, <2>3, <2>4
<1>3. ASSUME rest \in Blocks PROVE FALSE
  <2>1. End(block) <= rest
    BY <1>1, <1>2, <1>3, Row
  <2> QED BY <1>1, <1>2, <2>1
<1>6. /\ Blocks' = Blocks \cup {rest}
      /\ End(rest)' = End(block) /\ End(block)' = rest
      /\ \A b \in Blocks : b # block => End(b)' = End(b)
  <2>1. Blocks' = Blocks \cup {rest}
    BY DEF Splits, Blocks
  <2>2. size'[rest] = left /\ size'[block] = n /\ \A b \in Blocks : b # block => size'[b] = size[b]
    BY <1>1, <1>3 DEF Splits
  <2>3. End(rest)' = End(block) /\ End(block)' = rest
    BY <1>0, <1>1, <1>2, <2>2 DEF End, M
  <2>4. \A b \in Blocks : b # block => End(b)' = End(b)
    BY <2>2 DEF End
  <2> QED BY <2>1, <2>3, <2>4
<1>7. /\ free' \in Seq(Blocks') /\ DOMAIN free' = 1..Len(free)
      /\ \A j \in 1..Len(free) : free'[j] = IF j = i THEN rest ELSE free[j]
  <2>1. free \in Seq(Blocks \cup {rest})
    <3>1. free \in Seq(Blocks)
      BY DEF SortedInv, SortedTypeOK
    <3> QED BY <3>1, SeqMonotonic
  <2> QED BY <1>0, <1>6, <2>1, ExceptSeq DEF Splits
<1>8. Free' = (Free \ {block}) \cup {rest}
  <2>1. ASSUME NEW b \in Free' PROVE b \in (Free \ {block}) \cup {rest}
    <3>1. PICK j \in 1..Len(free) : b = IF j = i THEN rest ELSE free[j]
      BY <1>7 DEF Free
    <3>2. CASE j # i
      <4>1. free[j] < block \/ block < free[j]
        BY <1>0, <3>2, List
      <4>2. free[j] # block
        BY <1>1, <4>1
      <4> QED BY <3>1, <3>2, <4>2, List
    <3> QED BY <3>1, <3>2
  <2>2. ASSUME NEW b \in Free, b # block PROVE b \in Free'
    <3>1. PICK k \in 1..Len(free) : b = free[k]
      BY List
    <3>2. free'[k] = b
      BY <1>7, <2>2, <3>1
    <3> QED BY <1>7, <3>2 DEF Free
  <2>3. rest \in Free'
    BY <1>0, <1>7 DEF Free
  <2>4. Free' \subseteq (Free \ {block}) \cup {rest}
    BY <2>1
  <2>5. Free \ {block} \subseteq Free'
    BY <2>2
  <2> QED BY <2>3, <2>4, <2>5
<1>9. SortedTypeOK'
  <2>1. DOMAIN handed' \subseteq Nat /\ handed' \in [DOMAIN handed' -> Nat]
    <3>1. DOMAIN handed \subseteq Nat /\ handed \in [DOMAIN handed -> Nat]
      BY DEF SortedInv, SortedTypeOK
    <3>2. DOMAIN handed' = DOMAIN handed \cup {block + M} /\ block + M \in Nat
      BY <1>0, <1>1 DEF Splits
    <3>3. handed' \in [DOMAIN handed' -> Nat]
      BY <3>1, <3>2 DEF Splits
    <3> QED BY <3>1, <3>2, <3>3
  <2>2. Blocks' \subseteq Nat /\ size' \in [Blocks' -> Nat]
    BY <1>0, <1>2, <1>6 DEF Splits, SortedInv, SortedTypeOK
  <2> QED BY <1>7, <2>1, <2>2 DEF Splits, SortedInv, SortedTypeOK
<1>10. \A j, k \in DOMAIN free' : j < k => free'[j] < free'[k]
  <2> SUFFICES ASSUME NEW j \in 1..Len(free), NEW k \in 1..Len(free), j < k
               PROVE  free'[j] < free'[k]
    BY <1>7
  <2>1. free[j] < free[k] /\ free[j] \in Nat /\ free[k] \in Nat
        /\ free[j] \in Blocks /\ free[k] \in Blocks
    BY List, Row
  <2>2. CASE j = i
    <3>1. End(block) <= free[k]
      BY <1>1, <2>1, <2>2, Row
    <3> QED BY <1>1, <1>2, <1>7, <2>1, <2>2, <3>1
  <2>3. CASE k = i
    BY <1>1, <1>2, <1>7, <2>1, <2>3
  <2>4. CASE j # i /\ k # i
    BY <1>7, <2>1, <2>4
  <2> QED BY <2>2, <2>3, <2>4
<1>11. {p - M : p \in DOMAIN handed'} = Blocks' \ Free'
  <2>1. {p - M : p \in DOMAIN handed} = Blocks \ Free
    BY DEF SortedInv, Tiled, Blocks, M
  <2>2. (block + M) - M = block
    BY <1>0, <1>1
  <2>3. DOMAIN handed' = DOMAIN handed \cup {block + M}
    BY DEF Splits
  <2>4. {p - M : p \in DOMAIN handed'} = (Blocks \ Free) \cup {block}
    BY <2>1, <2>2, <2>3
  <2>5. block # rest
    BY <1>1, <1>2
  <2> QED BY <1>1, <1>3, <1>6, <1>8, <2>4, <2>5
<1>12. \A b \in Blocks' : \A c \in Blocks' : b < c => End(b)' <= c
  <2> SUFFICES ASSUME NEW b \in Blocks', NEW c \in Blocks', b < c PROVE End(b)' <= c
    OBVIOUS
  <2>0. b \in Nat /\ c \in Nat
    BY <1>2, <1>6, Row
  <2>1. CASE b = rest
    <3>1. c \in Blocks /\ block < c
      BY <1>1, <1>2, <1>6, <2>0, <2>1
    <3>2. End(block) <= c
      BY <1>1, <3>1, Row
    <3> QED BY <1>6, <2>1, <3>2
  <2>2. CASE b = block
    <3>1. CASE c = rest
      BY <1>2, <1>6, <2>2, <3>1
    <3>2. CASE c \in Blocks
      <4>1. End(block) <= c
        BY <1>1, <2>2, <3>2, Row
      <4> QED BY <1>1, <1>2, <1>6, <2>0, <2>2, <4>1
    <3> QED BY <1>6, <3>1, <3>2
  <2>3. CASE b \in Blocks /\ b # block
    <3>0. End(b)' = End(b) /\ End(b) \in Nat
      BY <1>6, <2>3, Row
    <3>1. CASE c = rest
      <4>1. b < block \/ block < b
        BY <1>1, <2>0, <2>3
      <4>2. ~(block < b)
        <5>1. block < b => End(block) <= b
          BY <1>1, <2>3, Row
        <5> QED BY <1>1, <1>2, <2>0, <3>1, <5>1
      <4>3. End(b) <= block
        BY <1>1, <2>3, <4>1, <4>2, Row
      <4> QED BY <1>1, <1>2, <3>0, <3>1, <4>3
    <3>2. CASE c \in Blocks
      BY <2>3, <3>0, <3>2, Row
    <3> QED BY <1>6, <3>1, <3>2
  <2> QED BY <1>6, <2>1, <2>2, <2>3
<1>13. \A b \in Blocks' : End(b)' \in Blocks' \cup {Space} /\ End(b)' <= Space
  <2> SUFFICES ASSUME NEW b \in Blocks' PROVE End(b)' \in Blocks' \cup {Space} /\ End(b)' <= Space
    OBVIOUS
  <2>1. CASE b = rest
    BY <1>1, <1>6, <2>1, Row
  <2>2. CASE b = block
    BY <1>0, <1>2, <1>6, <2>2
  <2>3. CASE b \in Blocks /\ b # block
    BY <1>6, <2>3, Row
  <2> QED BY <1>6, <2>1, <2>2, <2>3
<1>14. \A b \in Free' : End(b)' \notin Free'
  <2> SUFFICES ASSUME NEW b \in Free' PROVE End(b)' \notin Free'
    OBVIOUS
  <2>1. \A c \in Free : c \in Blocks /\ End(c) \notin Free
    BY List DEF SortedInv, Tiled, Blocks
  <2>2. CASE b = rest
    BY <1>1, <1>2, <1>6, <1>8, <2>1, <2>2
  <2>3. CASE b \in Free /\ b # block
    <3>1. End(b)' = End(b) /\ End(b) \notin Free /\ End(b) \in Blocks \cup {Space}
      BY <1>6, <2>1, <2>3, Row
    <3>2. End(b) # rest
      BY <1>0, <1>2, <1>3, <3>1
    <3> QED BY <1>8, <3>1, <3>2
  <2> QED BY <1>8, <2>2, <2>3
<1>15. Tiled'
  <2>1. Free' \subseteq Blocks' /\ 0 \in Blocks'
    BY <1>6, <1>8 DEF SortedInv, Tiled, Blocks
  <2> QED BY <1>10, <1>11, <1>12, <1>13, <1>14, <2>1 DEF Tiled, Blocks, M
<1>16. Inside'
  BY <1>13 DEF Inside
<1>17. Served'
  <2> SUFFICES ASSUME NEW p \in DOMAIN handed'
               PROVE  p - M \in Blocks' /\ p - M \notin Free' /\ handed'[p] <= size'[p - M]
    BY DEF Served, M
  <2>1. CASE p = block + M
    <3>1. p - M = block /\ block # rest
      BY <1>0, <1>1, <1>2, <2>1
    <3>2. size'[block] = n /\ handed'[p] = n
      BY <1>1, <2>1, <3>1 DEF Splits
    <3> QED BY <1>0, <1>1, <1>6, <1>8, <3>1, <3>2
  <2>2. CASE p # block + M
    <3>1. p \in DOMAIN handed /\ handed'[p] = handed[p]
      BY <2>2 DEF Splits
    <3>2. p - M \in Blocks /\ p - M \notin Free /\ handed[p] <= size[p - M]
      BY <3>1 DEF SortedInv, Served
    <3>3. p - M # block /\ p - M # rest
      BY <1>1, <1>3, <3>2
    <3>4. size'[p - M] = size[p - M]
      BY <3>2, <3>3 DEF Splits
    <3> QED BY <1>6, <1>8, <3>1, <3>2, <3>3, <3>4
  <2> QED BY <2>1, <2>2
<1> QED BY <1>9, <1>15, <1>16, <1>17 DEF SortedInv

LEMMA AllocateKeeps ==
  ASSUME SortedSizes, SortedInv, NEW n \in Request, Allocate(n)
  PROVE  SortedInv' /\ Promise!HeapNext
<1>1. PICK i \in Fitting(n) :
        LET block == free[i]
            rest == block + M + n
        IN /\ IF size[block] < n + M
              THEN free' = RemoveAt(free, i) /\ size' = size
              ELSE /\ free' = [free EXCEPT ![i] = rest]
                   /\ size' = Promise!Put([size EXCEPT ![block] = n], rest, size[block] - n - M)
           /\ handed' = Promise!Put(handed, block + M, n)
           /\ fit' = fit
  BY DEF Allocate, M
<1> DEFINE block == free[i]
<1>2. n \in Nat /\ M \in Nat \ {0} /\ block \in Blocks /\ block \in Free /\ size[block] \in Nat
      /\ n <= size[block] /\ block \in Nat
      /\ End(block) = block + M + size[block] /\ End(block) <= Space /\ Space \in Nat
  BY Row, List DEF SortedSizes, Fitting
<1>3. SortedInv'
  <2>1. CASE size[block] < n + M
    BY <1>1, <2>1, AllocateWholeKeeps
  <2>2. CASE ~(size[block] < n + M)
    <3> DEFINE rest == block + M + n
               left == size[block] - n - M
               f == [size EXCEPT ![block] = n]
    <3>1. rest \in Nat /\ left \in Nat /\ size[block] = n + M + left /\ i \in 1..Len(free)
      BY <1>2, <2>2, List DEF Fitting
    <3>2. DOMAIN f = Blocks /\ \A b \in Blocks : f[b] = IF b = block THEN n ELSE size[b]
      BY DEF Blocks, SortedInv, SortedTypeOK
    <3>3. size' = [b \in DOMAIN f \cup {rest} |-> IF b = rest THEN left ELSE f[b]]
      BY <1>1, <2>2 DEF Promise!Put
    <3> HIDE DEF f
    <3>4. size' = [b \in Blocks \cup {rest} |->
                     IF b = rest THEN left ELSE IF b = block THEN n ELSE size[b]]
      BY <3>2, <3>3
    <3>5. handed' = [p \in DOMAIN handed \cup {block + M} |->
                       IF p = block + M THEN n ELSE handed[p]]
      BY <1>1 DEF Promise!Put
    <3>6. free' = [free EXCEPT ![i] = rest] /\ fit' = fit
      BY <1>1, <2>2
    <3>7. Splits(i, block, n, rest, left)
      BY <3>4, <3>5, <3>6 DEF Splits
    <3> QED BY <1>2, <3>1, <3>7, AllocateSplitKeeps
  <2> QED BY <2>1, <2>2
<1>4. block + M \in 0..Space - n
  BY <1>2
<1>5. ASSUME NEW p \in DOMAIN handed PROVE Promise!Apart(block + M, n, p)
  <2>1. p - M \in Blocks /\ p - M # block /\ p \in Nat /\ handed[p] \in Nat
        /\ handed[p] <= size[p - M]
    BY <1>2 DEF SortedInv, Served, SortedTypeOK
  <2>2. PICK b \in Blocks : b = p - M
    BY <2>1
  <2>3. b \in Nat /\ p = b + M /\ End(b) = b + M + size[b] /\ size[b] \in Nat
    BY <1>2, <2>1, <2>2, Row
  <2>4. CASE b < block
    <3>1. End(b) <= block
      BY <1>2, <2>4, Row
    <3> QED BY <1>2, <2>1, <2>2, <2>3, <3>1 DEF Promise!Apart
  <2>5. CASE block < b
    <3>1. End(block) <= b
      BY <1>2, <2>5, Row
    <3> QED BY <1>2, <2>1, <2>2, <2>3, <3>1 DEF Promise!Apart
  <2> QED BY <1>2, <2>1, <2>2, <2>3, <2>4, <2>5
<1>6. Promise!Hand(block + M, n)
  BY <1>1, <1>5 DEF Promise!Hand
<1>7. Promise!HeapNext
  BY <1>4, <1>6 DEF Promise!HeapNext
<1> QED BY <1>3, <1>7

\* The block in use belongs before element i of the list.
Between(i, block) ==
  /\ i \in 1..Len(free) + 1 /\ block \in Blocks /\ block \notin Free
  /\ \A j \in 1..Len(free) : /\ j < i => free[j] < block
                             /\ i <= j => block < free[j]

\* It begins the free memory it becomes part of, or its neighbour below does; element a
\* is the last one before that, and element c the first one behind it.
Lower(i, block, start, a) ==
  \/ i > 1 /\ End(free[i - 1]) = block /\ start = free[i - 1] /\ a = i - 2
  \/ ~(i > 1 /\ End(free[i - 1]) = block) /\ start = block /\ a = i - 1
Upper(i, block, end, c) ==
  \/ i <= Len(free) /\ End(block) = free[i] /\ end = End(free[i]) /\ c = i + 1
  \/ ~(i <= Len(free) /\ End(block) = free[i]) /\ end = End(block) /\ c = i

LEMMA LowerNeighbour ==
  ASSUME SortedSizes, SortedInv, NEW i, NEW block, NEW start, NEW a,
         Between(i, block), Lower(i, block, start, a)
  PROVE  /\ start \in Blocks /\ start <= block /\ start \in Free \cup {block}
         /\ a \in 0..Len(free) /\ a <= i - 1
         /\ \A b \in Blocks : start < b /\ b < block => FALSE
         /\ start # block => End(start) = block /\ i > 1 /\ a = i - 2 /\ start = free[i - 1]
         /\ start = block => a = i - 1
         /\ \A j \in 1..a : free[j] < start
         /\ start = block => \A b \in Free : End(b) # block
<1>0. /\ Len(free) \in Nat /\ i \in 1..Len(free) + 1 /\ block \in Blocks /\ block \in Nat
      /\ block \notin Free /\ block < End(block)
      /\ \A j \in 1..Len(free) : free[j] \in Blocks /\ free[j] \in Free /\ free[j] \in Nat
      /\ \A j \in 1..Len(free) : j < i => free[j] < block
      /\ \A j \in 1..Len(free) : i <= j => block < free[j]
  BY List, Row DEF Between
<1>1. CASE i > 1 /\ End(free[i - 1]) = block
  <2>1. start = free[i - 1] /\ a = i - 2 /\ i - 1 \in 1..Len(free)
    BY <1>0, <1>1 DEF Lower
  <2>2. start \in Blocks /\ start \in Free /\ start < block /\ End(start) = block /\ start \in Nat
    BY <1>0, <1>1, <2>1
  <2>3. \A b \in Blocks : start < b /\ b < block => FALSE
    <3> SUFFICES ASSUME NEW b \in Blocks, start < b, b < block PROVE FALSE
      OBVIOUS
    <3>1. End(start) <= b /\ b \in Nat
      BY <2>2, Row
    <3> QED BY <1>0, <2>2, <3>1
  <2>4. \A j \in 1..a : free[j] < start
    <3> SUFFICES ASSUME NEW j \in 1..a PROVE free[j] < start
      OBVIOUS
    <3>1. j \in 1..Len(free) /\ j < i - 1
      BY <1>0, <2>1
    <3> QED BY <2>1, <3>1, List
  <2>5. a \in 0..Len(free) /\ a <= i - 1
    BY <1>0, <1>1, <2>1
  <2>6. start <= block /\ start # block
    BY <1>0, <2>2
  <2> QED BY <1>1, <2>1, <2>2, <2>3, <2>4, <2>5, <2>6
<1>2. CASE ~(i > 1 /\ End(free[i - 1]) = block)
  <2>1. start = block /\ a = i - 1
    BY <1>2 DEF Lower
  <2>2. a \in 0..Len(free) /\ a <= i - 1
    BY <1>0, <2>1
  <2>3. \A j \in 1..a : free[j] < start
    <3> SUFFICES ASSUME NEW j \in 1..a PROVE free[j] < start
      OBVIOUS
    <3>1. j \in 1..Len(free) /\ j < i
      BY <1>0, <2>1
    <3> QED BY <1>0, <2>1, <3>1
  <2>4. ASSUME NEW b \in Free, End(b) = block PROVE FALSE
    <3>1. PICK j \in 1..Len(free) : b = free[j]
      BY List
    <3>2. b < block /\ b \in Nat /\ b \in Blocks
      BY <1>0, <2>4, <3>1, Row
    <3>3. j < i
      BY <1>0, <3>1, <3>2
    <3>4. i > 1 /\ i - 1 \in 1..Len(free) /\ j <= i - 1
      BY <1>0, <3>3
    <3>5. b <= free[i - 1] /\ free[i - 1] < block
      BY <1>0, <3>1, <3>4, List
    <3>6. b < free[i - 1] => End(b) <= free[i - 1]
      <4>1. free[i - 1] \in Blocks
        BY <1>0, <3>4
      <4> QED BY <3>2, <4>1, Row
    <3>7. b = free[i - 1]
      <4>1. free[i - 1] \in Nat
        BY <1>0, <3>4
      <4>2. ~(b < free[i - 1])
        BY <1>0, <2>4, <3>5, <3>6, <4>1
      <4> QED BY <3>2, <3>5, <4>1, <4>2
    <3> QED BY <1>2, <2>4, <3>4, <3>7
  <2> QED BY <1>0, <2>1, <2>2, <2>3, <2>4
<1> QED BY <1>1, <1>2

LEMMA UpperNeighbour ==
  ASSUME SortedSizes, SortedInv, NEW i, NEW block, NEW end, NEW c,
         Between(i, block), Upper(i, block, end, c)
  PROVE  /\ end \in Nat /\ end <= Space /\ block < End(block) /\ End(block) <= end
         /\ end \in Blocks \cup {Space} /\ end \notin Free
         /\ c \in 1..Len(free) + 1 /\ i <= c /\ c <= i + 1
         /\ \A b \in Blocks : block < b /\ b < end => b \in Free /\ b = End(block)
         /\ c # i => c = i + 1 /\ i <= Len(free) /\ free[i] = End(block)
                     /\ End(block) \in Free /\ End(block) \in Blocks /\ End(block) < end
         /\ \A j \in c..Len(free) : end <= free[j]
<1>0. /\ Len(free) \in Nat /\ i \in 1..Len(free) + 1 /\ block \in Blocks /\ block \in Nat
      /\ block \notin Free /\ block < End(block) /\ End(block) \in Nat /\ End(block) <= Space
      /\ End(block) \in Blocks \cup {Space}
      /\ \A j \in 1..Len(free) : free[j] \in Blocks /\ free[j] \in Free /\ free[j] \in Nat
      /\ \A j \in 1..Len(free) : i <= j => block < free[j]
  BY List, Row DEF Between
<1>1. CASE i <= Len(free) /\ End(block) = free[i]
  <2>1. end = End(free[i]) /\ c = i + 1 /\ i \in 1..Len(free)
    BY <1>0, <1>1 DEF Upper
  <2>2. /\ end \in Nat /\ end <= Space /\ free[i] < end /\ free[i] \in Blocks /\ free[i] \in Free
        /\ end \in Blocks \cup {Space} /\ free[i] \in Nat
    BY <1>0, <2>1, Row
  <2>3. end \notin Free
    BY <2>1, <2>2 DEF SortedInv, Tiled, Blocks
  <2>4. ASSUME NEW b \in Blocks, block < b, b < end PROVE b \in Free /\ b = End(block)
    <3>1. End(block) <= b /\ b \in Nat
      BY <1>0, <2>4, Row
    <3>2. free[i] < b => end <= b
      BY <2>1, <2>2, Row
    <3> QED BY <1>1, <2>2, <2>4, <3>1, <3>2
  <2>5. ASSUME NEW j \in c..Len(free) PROVE end <= free[j]
    <3>1. j \in 1..Len(free) /\ i < j
      BY <1>0, <2>1
    <3>2. free[i] < free[j]
      BY <2>1, <3>1, List
    <3> QED BY <1>0, <2>1, <2>2, <3>1, <3>2, Row
  <2>6. c \in 1..Len(free) + 1 /\ i <= c /\ c <= i + 1
    BY <1>0, <2>1
  <2>7. End(block) <= end
    BY <1>0, <1>1, <2>2
  <2> QED BY <1>0, <1>1, <2>1, <2>2, <2>3, <2>4, <2>5, <2>6, <2>7
<1>2. CASE ~(i <= Len(free) /\ End(block) = free[i])
  <2>1. end = End(block) /\ c = i
    BY <1>2 DEF Upper
  <2>2. ASSUME NEW j \in c..Len(free) PROVE end <= free[j]
    <3>1. j \in 1..Len(free) /\ i <= j
      BY <1>0, <2>1
    <3>2. block < free[j]
      BY <1>0, <3>1
    <3> QED BY <1>0, <2>1, <3>1, <3>2, Row
  <2>3. ASSUME end \in Free PROVE FALSE
    <3>1. PICK j \in 1..Len(free) : end = free[j]
      BY <2>3, List
    <3>2. i <= j
      <4>1. j < i => free[j] < block
        BY DEF Between
      <4> QED BY <1>0, <2>1, <3>1, <4>1
    <3>3. i \in 1..Len(free)
      BY <1>0, <3>2
    <3>4. free[i] <= end /\ block < free[i]
      BY <1>0, <3>1, <3>2, <3>3, List
    <3>5. End(block) <= free[i]
      BY <1>0, <3>3, <3>4, Row
    <3>6. End(block) = free[i]
      BY <1>0, <2>1, <3>3, <3>4, <3>5
    <3> QED BY <1>2, <3>3, <3>6
  <2>4. ASSUME NEW b \in Blocks, block < b, b < end PROVE FALSE
    <3>1. End(block) <= b /\ b \in Nat
      BY <1>0, <2>4, Row
    <3> QED BY <1>0, <2>1, <2>4, <3>1
  <2>5. c \in 1..Len(free) + 1 /\ i <= c /\ c <= i + 1
    BY <1>0, <2>1
  <2> QED BY <1>0, <2>1, <2>2, <2>3, <2>4, <2>5
<1> QED BY <1>1, <1>2

\* What is between start and end becomes one free block.
Inner(start, end) == {b \in Blocks : start < b /\ b < end}
Merges(at, start, end, a, c) ==
  /\ size' = [b \in Blocks \ Inner(start, end) |->
                IF b = start THEN end - start - M ELSE size[b]]
  /\ free' = Cut(free, a, start, c)
  /\ handed' = [p \in DOMAIN handed \ {at} |-> handed[p]]
  /\ fit' = fit

LEMMA MergeKeeps ==
  ASSUME SortedSizes, SortedInv, NEW at \in DOMAIN handed, NEW block, block = at - M,
         NEW i, NEW start, NEW end, NEW a, NEW c, Between(i, block),
         Lower(i, block, start, a), Upper(i, block, end, c), Merges(at, start, end, a, c)
  PROVE  SortedInv'
<1> DEFINE gone == Inner(start, end)
<1>0. /\ M \in Nat \ {0} /\ Space \in Nat /\ Len(free) \in Nat
      /\ i \in 1..Len(free) + 1 /\ block \in Blocks /\ block \notin Free /\ block \in Nat
      /\ size[block] \in Nat /\ End(block) = block + M + size[block] /\ End(block) \in Nat
  BY Row, List DEF Between
<1>1. /\ start \in Blocks /\ start <= block /\ start \in Free \cup {block} /\ start \in Nat
      /\ a \in 0..Len(free) /\ a <= i - 1
      /\ \A b \in Blocks : start < b /\ b < block => FALSE
      /\ start # block => End(start) = block /\ i > 1 /\ a = i - 2 /\ start = free[i - 1]
      /\ start = block => a = i - 1
      /\ \A j \in 1..a : free[j] < start
      /\ start = block => \A b \in Free : End(b) # block
  BY LowerNeighbour, Row
<1>2. /\ end \in Nat /\ end <= Space /\ block < End(block) /\ End(block) <= end
      /\ end \in Blocks \cup {Space} /\ end \notin Free
      /\ c \in 1..Len(free) + 1 /\ i <= c /\ c <= i + 1
      /\ \A b \in Blocks : block < b /\ b < end => b \in Free /\ b = End(block)
      /\ c # i => c = i + 1 /\ i <= Len(free) /\ free[i] = End(block)
                  /\ End(block) \in Free /\ End(block) \in Blocks /\ End(block) < end
      /\ \A j \in c..Len(free) : end <= free[j]
  BY UpperNeighbour
<1>3. /\ start < end /\ start + M <= end /\ c \in a + 1..Len(free) + 1
      /\ \A b \in gone : b = block \/ (b \in Free /\ b = End(block))
      /\ block \in gone <=> start # block
      /\ start \notin gone /\ end \notin gone
  <2>1. start + M <= end /\ start < end
    BY <1>0, <1>1, <1>2
  <2>2. ASSUME NEW b \in gone PROVE b = block \/ (b \in Free /\ b = End(block))
    <3>1. b \in Blocks /\ start < b /\ b < end /\ b \in Nat
      BY Row DEF Inner
    <3> QED BY <1>0, <1>1, <1>2, <3>1
  <2>3. block \in gone <=> start # block
    BY <1>0, <1>1, <1>2 DEF Inner
  <2>4. start \notin gone /\ end \notin gone
    BY <1>1, <1>2 DEF Inner
  <2>5. c \in a + 1..Len(free) + 1
    BY <1>0, <1>1, <1>2
  <2> QED BY <2>1, <2>2, <2>3, <2>4, <2>5
<1>4. /\ Blocks' = Blocks \ gone /\ start \in Blocks'
      /\ size'[start] = end - start - M
      /\ \A b \in Blocks' : b # start => size'[b] = size[b]
  BY <1>1, <1>3 DEF Merges, Blocks
<1>5. End(start)' = end /\ \A b \in Blocks' : b # start => End(b)' = End(b)
  BY <1>0, <1>1, <1>2, <1>4 DEF End, M
<1> HIDE DEF gone
<1>6. /\ free' \in Seq(Blocks) /\ Len(free') = a + 2 + Len(free) - c
      /\ DOMAIN free' = 1..Len(free')
      /\ \A j \in 1..Len(free') :
           free'[j] = IF j <= a THEN free[j] ELSE IF j = a + 1 THEN start ELSE free[j + c - a - 2]
  <2>0. free \in Seq(Blocks) /\ start \in Blocks /\ a \in 0..Len(free)
        /\ c \in a + 1..Len(free) + 1
    BY <1>1, <1>3 DEF SortedInv, SortedTypeOK
  <2> DEFINE t == Cut(free, a, start, c)
  <2>1. IsCut(t, Blocks, free, a, start, c)
    BY <2>0, Replaced
  <2>2. free' = t
    BY DEF Merges
  <2> HIDE DEF t
  <2>3. DOMAIN t = 1..Len(t)
    BY <2>1 DEF IsCut
  <2> QED BY <2>1, <2>2, <2>3 DEF IsCut

\* An element of the new list is start, or one of the old elements before or behind it.
<1>7. ASSUME NEW j \in 1..Len(free')
      PROVE  \/ j <= a /\ j \in 1..a /\ j \in 1..Len(free) /\ free'[j] = free[j]
             \/ j = a + 1 /\ free'[j] = start
             \/ /\ j > a + 1 /\ j + c - a - 2 \in c..Len(free) /\ j + c - a - 2 \in 1..Len(free)
                /\ free'[j] = free[j + c - a - 2]
  <2>1. j \in Int /\ a \in Int /\ c \in Int /\ j <= a + 2 + Len(free) - c /\ 1 <= j
    BY <1>0, <1>1, <1>3, <1>6
  <2>2. CASE j <= a
    <3>1. j \in 1..a /\ j \in 1..Len(free)
      BY <1>0, <1>1, <2>1, <2>2
    <3> QED BY <1>6, <2>2, <3>1
  <2>3. CASE j = a + 1
    BY <1>6, <2>1, <2>3
  <2>4. CASE j > a + 1
    <3>1. j + c - a - 2 \in c..Len(free) /\ j + c - a - 2 \in 1..Len(free)
      BY <1>0, <1>2, <2>1, <2>4
    <3> QED BY <1>6, <2>1, <2>4, <3>1
  <2> QED BY <2>1, <2>2, <2>3, <2>4
<1>8. Free' \subseteq Free \cup {start} /\ start \in Free' /\ Free' \subseteq Blocks'
  <2>1. ASSUME NEW b \in Free' PROVE b \in Free \cup {start} /\ b \in Blocks'
    <3>1. PICK j \in 1..Len(free') : b = free'[j]
      BY <1>6 DEF Free
    <3>2. CASE j \in 1..a /\ j \in 1..Len(free) /\ b = free[j]
      <4>1. b \in Free /\ b \in Blocks /\ b < start /\ b \in Nat
        BY <1>1, <3>2, List, Row
      <4>2. b \notin gone
        BY <1>1, <4>1 DEF gone, Inner
      <4> QED BY <1>4, <4>1, <4>2
    <3>3. CASE j + c - a - 2 \in c..Len(free) /\ j + c - a - 2 \in 1..Len(free)
               /\ b = free[j + c - a - 2]
      <4>1. b \in Free /\ b \in Blocks /\ end <= b /\ b \in Nat
        BY <1>2, <3>3, List, Row
      <4>2. b \notin gone
        BY <1>2, <4>1 DEF gone, Inner
      <4> QED BY <1>4, <4>1, <4>2
    <3>4. CASE b = start
      BY <1>4, <3>4
    <3> QED BY <1>7, <3>1, <3>2, <3>3, <3>4
  <2>2. start \in Free'
    <3>1. a + 1 \in 1..Len(free') /\ ~(a + 1 <= a)
      BY <1>0, <1>1, <1>3, <1>6
    <3> QED BY <1>6, <3>1 DEF Free
  <2> QED BY <2>1, <2>2
<1>9. ASSUME NEW b \in Free, b \notin gone PROVE b \in Free'
  <2>1. PICK k \in 1..Len(free) : b = free[k]
    BY <1>9, List
  <2>2. b \in Blocks /\ b \in Nat
    BY <1>9, List, Row
  <2>3. CASE k \in 1..a
    <3>1. k \in 1..Len(free') /\ k <= a
      BY <1>0, <1>1, <1>3, <1>6, <2>3
    <3> QED BY <1>6, <2>1, <3>1 DEF Free
  <2>4. CASE k \in c..Len(free)
    <3>1. /\ k - c + a + 2 \in 1..Len(free') /\ ~(k - c + a + 2 <= a) /\ k - c + a + 2 # a + 1
          /\ (k - c + a + 2) + c - a - 2 = k
      <4>1. /\ a \in Nat /\ c \in Nat /\ k \in Nat /\ Len(free) \in Nat
            /\ c <= k /\ k <= Len(free) /\ Len(free') = a + 2 + Len(free) - c
        BY <1>0, <1>1, <1>3, <1>6, <2>4
      <4> QED BY <4>1
    <3> QED BY <1>6, <2>1, <3>1 DEF Free
  <2>5. CASE a < k /\ k < c
    <3>1. k = i \/ k = i - 1
      BY <1>0, <1>1, <1>2, <2>5
    <3>2. CASE k = i
      <4>1. c # i
        BY <2>5, <3>2
      <4>2. b = End(block) /\ End(block) < end
        BY <1>2, <2>1, <3>2, <4>1
      <4>3. b \in gone
        BY <1>0, <1>1, <1>2, <2>2, <4>2 DEF gone, Inner
      <4> QED BY <1>9, <4>3
    <3>3. CASE k = i - 1
      <4>1. start # block
        BY <1>0, <1>1, <2>5, <3>3
      <4>2. b = start
        BY <1>1, <2>1, <3>3, <4>1
      <4> QED BY <1>8, <4>2
    <3> QED BY <3>1, <3>2, <3>3
  <2> QED BY <1>0, <1>1, <1>2, <2>3, <2>4, <2>5
<1>10. SortedTypeOK'
  <2>1. free' \in Seq(Blocks')
    <3>1. \A j \in 1..Len(free') : free'[j] \in Blocks'
      BY <1>6, <1>8 DEF Free
    <3> QED BY <1>6, <3>1
  <2>2. DOMAIN handed' \subseteq Nat /\ handed' \in [DOMAIN handed' -> Nat]
    BY DEF Merges, SortedInv, SortedTypeOK
  <2>3. Blocks' \subseteq Nat /\ size' \in [Blocks' -> Nat]
    <3>1. end - start - M \in Nat
      BY <1>0, <1>1, <1>2, <1>3
    <3> QED BY <1>4, <3>1 DEF Merges, gone, SortedInv, SortedTypeOK
  <2> QED BY <2>1, <2>2, <2>3 DEF Merges, SortedInv, SortedTypeOK
<1>11. \A j, k \in 1..Len(free') : j < k => free'[j] < free'[k]
  <2> SUFFICES ASSUME NEW j \in 1..Len(free'), NEW k \in 1..Len(free'), j < k
               PROVE  free'[j] < free'[k]
    OBVIOUS
  <2>0. a \in Int /\ c \in Int /\ \A x \in 1..Len(free) : free[x] \in Nat
    <3>1. a \in Int /\ c \in Int
      BY <1>0, <1>1, <1>2
    <3>2. \A x \in 1..Len(free) : free[x] \in Blocks
      BY List
    <3>3. \A b \in Blocks : b \in Nat
      BY Row
    <3> QED BY <3>1, <3>2, <3>3
  <2>1. CASE j <= a /\ free'[j] = free[j] /\ j \in 1..a /\ j \in 1..Len(free)
    <3>0. free[j] < start /\ free[j] \in Nat
      BY <1>1, <2>0, <2>1
    <3>1. CASE k \in 1..Len(free) /\ free'[k] = free[k]
      BY <2>1, <3>1, List
    <3>2. CASE free'[k] = start
      BY <2>1, <3>0, <3>2
    <3>3. CASE k + c - a - 2 \in c..Len(free) /\ k + c - a - 2 \in 1..Len(free)
               /\ free'[k] = free[k + c - a - 2]
      <4>1. end <= free[k + c - a - 2] /\ free[k + c - a - 2] \in Nat
        BY <1>2, <2>0, <3>3
      <4>2. start \in Nat /\ end \in Nat /\ start < end
        BY <1>1, <1>2, <1>3
      <4>3. free[j] < free[k + c - a - 2]
        BY <3>0, <4>1, <4>2
      <4> QED BY <2>1, <3>3, <4>3
    <3> QED BY <1>7, <3>1, <3>2, <3>3
  <2>2. CASE j > a /\ k > a + 1
    <3>0. /\ k + c - a - 2 \in c..Len(free) /\ k + c - a - 2 \in 1..Len(free)
          /\ free'[k] = free[k + c - a - 2] /\ end <= free[k + c - a - 2]
          /\ free[k + c - a - 2] \in Nat
      BY <1>2, <1>7, <2>0, <2>2
    <3>1. CASE free'[j] = start
      BY <1>1, <1>2, <1>3, <3>0, <3>1
    <3>2. CASE j > a + 1
      <4>1. j + c - a - 2 \in 1..Len(free) /\ free'[j] = free[j + c - a - 2]
        BY <1>7, <2>0, <3>2
      <4>2. j + c - a - 2 < k + c - a - 2
        BY <2>0
      <4> QED BY <3>0, <4>1, <4>2, List
    <3> QED BY <1>7, <2>0, <2>2, <3>1, <3>2
  <2> QED BY <1>7, <2>0, <2>1, <2>2
<1>12. {p - M : p \in DOMAIN handed'} = Blocks' \ Free'
  <2>1. {p - M : p \in DOMAIN handed} = Blocks \ Free
    BY DEF SortedInv, Tiled, Blocks, M
  <2>2. \A p \in DOMAIN handed : p - M = block => p = at
    BY <1>0 DEF SortedInv, SortedTypeOK
  <2>3. DOMAIN handed' = DOMAIN handed \ {at}
    BY DEF Merges
  <2>4. {p - M : p \in DOMAIN handed'} = (Blocks \ Free) \ {block}
    BY <2>1, <2>2, <2>3
  <2>5. ASSUME NEW b \in Blocks, b \notin Free, b # block PROVE b \in Blocks' /\ b \notin Free'
    BY <1>1, <1>3, <1>4, <1>8, <2>5
  <2>6. ASSUME NEW b \in Blocks', b \notin Free' PROVE b \in Blocks /\ b \notin Free /\ b # block
    BY <1>1, <1>3, <1>4, <1>8, <1>9, <2>6
  <2> QED BY <2>4, <2>5, <2>6
<1>13. \A b \in Blocks' : \A x \in Blocks' : b < x => End(b)' <= x
  <2> SUFFICES ASSUME NEW b \in Blocks', NEW x \in Blocks', b < x PROVE End(b)' <= x
    OBVIOUS
  <2>0. b \in Nat /\ x \in Nat /\ b \in Blocks /\ x \in Blocks /\ x \notin gone
    BY <1>4, Row
  <2>1. CASE b = start
    BY <1>1, <1>2, <1>5, <2>0, <2>1 DEF gone, Inner
  <2>2. CASE b # start
    BY <1>5, <2>0, <2>2, Row
  <2> QED BY <2>1, <2>2
<1>14. \A b \in Blocks' : End(b)' \in Blocks' \cup {Space} /\ End(b)' <= Space
  <2> SUFFICES ASSUME NEW b \in Blocks' PROVE End(b)' \in Blocks' \cup {Space} /\ End(b)' <= Space
    OBVIOUS
  <2>1. CASE b = start
    BY <1>2, <1>3, <1>4, <1>5, <2>1
  <2>2. CASE b # start
    <3>0. b \in Blocks /\ b \notin gone /\ End(b)' = End(b) /\ b # block
      BY <1>3, <1>4, <1>5, <2>2
    <3>1. End(b) \in Blocks \cup {Space} /\ End(b) <= Space
      BY <3>0, Row
    <3>2. ASSUME End(b) \in gone PROVE FALSE
      <4>1. CASE End(b) = block
        <5>1. start # block
          BY <1>3, <3>2, <4>1
        <5>2. End(b) = End(start)
          BY <1>1, <4>1, <5>1
        <5> QED BY <1>1, <2>2, <3>0, <5>2, Row
      <4>2. CASE End(b) = End(block)
        BY <1>0, <3>0, <4>2, Row
      <4> QED BY <1>3, <3>2, <4>1, <4>2
    <3> QED BY <1>4, <3>0, <3>1, <3>2
  <2> QED BY <2>1, <2>2
<1>15. \A b \in Free' : End(b)' \notin Free'
  <2> SUFFICES ASSUME NEW b \in Free' PROVE End(b)' \notin Free'
    OBVIOUS
  <2>0. \A x \in Free : x \in Blocks /\ End(x) \notin Free
    BY List DEF SortedInv, Tiled, Blocks
  <2>1. CASE b = start
    BY <1>1, <1>2, <1>3, <1>5, <1>8, <2>1
  <2>2. CASE b # start
    <3>1. b \in Free /\ b \in Blocks' /\ End(b)' = End(b) /\ End(b) \notin Free
      BY <1>5, <1>8, <2>0, <2>2
    <3>2. End(b) # start
      BY <1>1, <3>1
    <3> QED BY <1>8, <3>1, <3>2
  <2> QED BY <2>1, <2>2
<1>16. Tiled'
  <2>1. 0 \in Blocks'
    <3>1. 0 \in Blocks /\ ~(start < 0)
      BY <1>1 DEF SortedInv, Tiled, Blocks
    <3> QED BY <1>4, <3>1 DEF gone, Inner
  <2>2. \A j, k \in DOMAIN free' : j < k => free'[j] < free'[k]
    <3>1. DOMAIN free' = 1..Len(free')
      BY <1>6
    <3> QED BY <1>11, <3>1
  <2> QED BY <1>8, <1>12, <1>13, <1>14, <1>15, <2>1, <2>2 DEF Tiled, Blocks, M
<1>17. Inside'
  BY <1>14 DEF Inside
<1>18. Served'
  <2> SUFFICES ASSUME NEW p \in DOMAIN handed'
               PROVE  p - M \in Blocks' /\ p - M \notin Free' /\ handed'[p] <= size'[p - M]
    BY DEF Served, M
  <2>1. p \in DOMAIN handed /\ handed'[p] = handed[p] /\ p # at
    BY DEF Merges
  <2>2. p - M \in Blocks /\ p - M \notin Free /\ handed[p] <= size[p - M] /\ p - M # block
    BY <1>0, <2>1 DEF SortedInv, SortedTypeOK, Served
  <2>3. p - M \in Blocks' /\ p - M # start
    BY <1>1, <1>3, <1>4, <2>2
  <2> QED BY <1>4, <1>8, <2>1, <2>2, <2>3
<1> QED BY <1>10, <1>16, <1>17, <1>18 DEF SortedInv

LEMMA DeallocateKeeps ==
  ASSUME SortedSizes, SortedInv, NEW at \in DOMAIN handed, Deallocate(at)
  PROVE  SortedInv' /\ Promise!HeapNext
<1> DEFINE block == at - M
<1>1. PICK i \in 1..Len(free) + 1 :
        LET joinsPrev == i > 1 /\ End(free[i - 1]) = block
            joinsNext == i <= Len(free) /\ End(block) = free[i]
            start == IF joinsPrev THEN free[i - 1] ELSE block
            end == IF joinsNext THEN End(free[i]) ELSE End(block)
            gone == {b \in Blocks : start < b /\ b < end}
        IN /\ StopsAt(i, block)
           /\ size' = [b \in Blocks \ gone |-> IF b = start THEN end - start - M ELSE size[b]]
           /\ free' = SubSeq(free, 1, IF joinsPrev THEN i - 2 ELSE i - 1) \o <<start>>
                        \o SubSeq(free, IF joinsNext THEN i + 1 ELSE i, Len(free))
           /\ handed' = Promise!Without(handed, at)
           /\ fit' = fit
  BY DEF Deallocate, M, Blocks
<1> DEFINE joinsPrev == i > 1 /\ End(free[i - 1]) = block
           joinsNext == i <= Len(free) /\ End(block) = free[i]
           start == IF joinsPrev THEN free[i - 1] ELSE block
           end == IF joinsNext THEN End(free[i]) ELSE End(block)
           a == IF joinsPrev THEN i - 2 ELSE i - 1
           c == IF joinsNext THEN i + 1 ELSE i
<1>2. Between(i, block)
  <2>0. block \in Blocks /\ block \notin Free /\ block \in Nat /\ Len(free) \in Nat
        /\ \A j \in 1..Len(free) : free[j] \in Free /\ free[j] \in Blocks
        /\ \A b \in Blocks : b \in Nat
    BY List, Row DEF SortedInv, Served
  <2>1. StopsAt(i, block)
    BY <1>1
  <2>2. ASSUME NEW j \in 1..Len(free), j < i PROVE free[j] < block
    BY <2>1, <2>2 DEF StopsAt
  <2>3. ASSUME NEW j \in 1..Len(free), i <= j PROVE block < free[j]
    <3>1. i \in 1..Len(free) /\ i <= Len(free)
      BY <2>0, <2>3
    <3>2. block <= free[i] /\ free[i] # block /\ free[i] \in Nat
      BY <2>0, <2>1, <3>1 DEF StopsAt
    <3>3. free[i] <= free[j]
      BY <2>3, <3>1, List
    <3>4. free[j] \in Nat
      BY <2>0
    <3> QED BY <2>0, <3>2, <3>3, <3>4
  <2> QED BY <2>0, <2>2, <2>3 DEF Between
<1>3. Lower(i, block, start, a) /\ Upper(i, block, end, c)
  BY DEF Lower, Upper
<1>4. Merges(at, start, end, a, c)
  <2>1. handed' = [p \in DOMAIN handed \ {at} |-> handed[p]]
    BY <1>1 DEF Promise!Without
  <2> QED BY <1>1, <2>1 DEF Merges, Inner, Cut
<1>5. Promise!TakeBack(at)
  BY <1>1 DEF Promise!TakeBack
<1>6. SortedInv'
  <2> HIDE DEF start, end, a, c
  <2> QED BY <1>2, <1>3, <1>4, MergeKeeps
<1> QED BY <1>5, <1>6 DEF Promise!HeapNext

LEMMA InitHolds ==
  ASSUME SortedSizes, SortedInit
  PROVE  SortedInv
<1>1. M \in Nat \ {0} /\ Space \in Nat /\ Space - M \in Nat
  BY DEF SortedSizes, M
<1>2. Blocks = {0} /\ size[0] = Space - M /\ free = <<0>> /\ DOMAIN handed = {}
      /\ fit \in FitModes /\ size \in [{0} -> Nat] /\ handed \in [DOMAIN handed -> Nat]
  BY <1>1 DEF SortedInit, Blocks, M, Promise!HeapInit
<1>3. End(0) = Space
  BY <1>1, <1>2 DEF End, M
<1>4. free \in Seq(Blocks) /\ Len(free) = 1 /\ DOMAIN free = {1} /\ Free = {0}
  BY <1>2 DEF Free
<1>5. SortedTypeOK
  BY <1>2, <1>4 DEF SortedTypeOK
<1>6. Tiled
  BY <1>1, <1>2, <1>3, <1>4 DEF Tiled, Blocks
<1> QED BY <1>1, <1>2, <1>3, <1>5, <1>6 DEF SortedInv, Inside, Served

\* What every step keeps, and what of it the client sees.
LEMMA NextKeeps ==
  ASSUME SortedSizes, SortedInv, [SortedNext]_sortedVars
  PROVE  SortedInv' /\ [Promise!HeapNext]_handed
<1>1. ASSUME NEW n \in Request, Allocate(n) PROVE SortedInv' /\ Promise!HeapNext
  BY <1>1, AllocateKeeps
<1>2. ASSUME NEW at \in DOMAIN handed, Deallocate(at) PROVE SortedInv' /\ Promise!HeapNext
  BY <1>2, DeallocateKeeps
<1>3. ASSUME fit' \in FitModes, UNCHANGED <<handed, size, free>>
      PROVE  SortedInv' /\ UNCHANGED handed
  <2>1. Blocks' = Blocks /\ Free' = Free /\ \A b \in Blocks : End(b)' = End(b)
    BY <1>3 DEF Blocks, Free, End
  <2>2. SortedTypeOK' /\ Inside' /\ Served'
    BY <1>3, <2>1 DEF SortedInv, SortedTypeOK, Inside, Served
  <2>3. Tiled'
    BY <1>3, <2>1 DEF SortedInv, Tiled, Blocks
  <2> QED BY <1>3, <2>2, <2>3 DEF SortedInv
<1>4. CASE UNCHANGED sortedVars
  BY <1>3, <1>4 DEF SortedInv, SortedTypeOK, sortedVars
<1>5. CASE set_fit_mode
  BY <1>3, <1>5 DEF set_fit_mode
<1> QED BY <1>1, <1>2, <1>4, <1>5 DEF SortedNext, BadAlloc

LEMMA Invariant ==
  ASSUME SortedSizes
  PROVE  SortedSpec => []SortedInv
<1>1. SortedInit => SortedInv
  BY InitHolds
<1>2. SortedInv /\ [SortedNext]_sortedVars => SortedInv'
  BY NextKeeps
<1> QED BY <1>1, <1>2, PTL DEF SortedSpec

\* The list of free blocks stays in the order of addresses, blocks stand side by side
\* without gap or overlap, and what lay side by side free was joined: allocate and
\* deallocate of sorted_list keep this whatever is asked for and given back.
THEOREM SortedListTiled ==
  ASSUME SortedSizes
  PROVE  SortedSpec => []Tiled
<1>1. SortedInv => Tiled
  BY DEF SortedInv
<1> QED BY <1>1, Invariant, PTL

\* Every step of the allocator is one that allocator.h allows: a new block lies inside the
\* memory and apart from all others, and a block given back takes no other with it.
THEOREM SortedListImplementsHeap ==
  ASSUME SortedSizes
  PROVE  SortedSpec => ImplementsHeap
<1>1. SortedInit => Promise!HeapInit
  BY DEF SortedInit
<1>2. SortedInv /\ [SortedNext]_sortedVars => [Promise!HeapNext]_handed
  BY NextKeeps
<1> QED BY <1>1, <1>2, Invariant, PTL DEF SortedSpec, ImplementsHeap, Promise!HeapSpec
===================================================================================

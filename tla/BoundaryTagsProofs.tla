---------------------------- MODULE BoundaryTagsProofs ----------------------------
(* The allocator with boundary tags is a heap, for every memory, every header and  *)
(* all sizes asked for.                                                            *)
EXTENDS BoundaryTags, TLAPS

M == occupied_block_metadata_size

TagsTypeOK ==
  /\ Blocks \subseteq Nat /\ block_size \in [Blocks -> Nat]
  /\ back \in [Blocks -> Places]
  /\ forward \in [Places -> Blocks \cup {None}]
  /\ DOMAIN handed \subseteq Nat /\ handed \in [DOMAIN handed -> Nat]
  /\ fit \in FitModes

\* Every block is where the list says it is, inside the memory.
Listed ==
  \A b \in Blocks : forward[back[b]] = b /\ EndOf(b) <= Space

\* A block in use is large enough for what was asked for.
Served ==
  \A p \in DOMAIN handed : p - M \in Blocks /\ handed[p] <= block_size[p - M]

TagsInv == TagsTypeOK /\ Tiled /\ Listed /\ Served

\* Blocks do not reach into one another.
LEMMA BlocksApart ==
  ASSUME TagsSizes, TagsInv, NEW b \in Blocks, NEW c \in Blocks, b < c
  PROVE  EndOf(b) <= c
<1>1. Follows(b, forward[b])
  BY DEF TagsInv, Tiled, Places
<1>2. forward[b] # None /\ forward[b] \in Blocks /\ EndOf(b) <= forward[b]
  BY <1>1 DEF Follows
<1>3. forward[b] <= c
  BY <1>1, <1>2 DEF Follows, TagsInv, TagsTypeOK
<1>4. EndOf(b) \in Int /\ forward[b] \in Int /\ c \in Int
  BY <1>2, TagsSizes DEF TagsSizes, TagsInv, TagsTypeOK, EndOf, Trusted
<1> QED BY <1>2, <1>3, <1>4

\* Where a new block comes to lie, after its place in the list.
LEMMA NewBlock ==
  ASSUME TagsSizes, TagsInv, NEW n \in Nat, NEW prev \in Fitting(n + M)
  PROVE  LET block == EndOf(prev)
             next == forward[prev]
             gap == get_next_free_size(prev)
         IN /\ prev \in Places /\ block \in Nat /\ gap \in Nat /\ gap >= n + M
            /\ block \notin Places /\ prev < block
            /\ \A b \in Blocks : b <= prev \/ (next # None /\ next <= b)
            /\ next # None => next \in Blocks /\ block + gap = next
            /\ next = None => block + gap = Space
            /\ block + gap <= Space
<1> DEFINE block == EndOf(prev)
           next == forward[prev]
           gap == get_next_free_size(prev)
<1>1. prev \in Places /\ gap >= n + M
  BY DEF Fitting
<1>2. next \in Blocks \cup {None} /\ Follows(prev, next)
  BY <1>1 DEF TagsInv, TagsTypeOK, Tiled
<1>3. M \in Nat \ {0} /\ Space \in Nat
  BY TagsSizes DEF TagsSizes, M
<1>4. block \in Nat /\ prev < block /\ prev \in Int
  <2>1. CASE prev = Trusted
    BY <2>1 DEF EndOf, Trusted
  <2>2. CASE prev \in Blocks
    <3>1. prev \in Nat /\ block_size[prev] \in Nat
      BY <2>2 DEF TagsInv, TagsTypeOK
    <3> QED BY <3>1, <1>3 DEF EndOf, Trusted, M
  <2> QED BY <1>1, <2>1, <2>2 DEF Places
<1>5. next # None => next \in Nat /\ next <= Space
  <2>1. ASSUME next \in Blocks PROVE next \in Nat /\ next <= Space
    <3>1. next \in Nat /\ block_size[next] \in Nat /\ EndOf(next) <= Space
      BY <2>1 DEF TagsInv, TagsTypeOK, Listed
    <3> QED BY <3>1, <1>3 DEF EndOf, M, Trusted
  <2> QED BY <2>1, <1>2
<1>6. /\ next # None => block + gap = next
      /\ next = None => block + gap = Space
      /\ gap \in Int
  BY <1>3, <1>4, <1>5 DEF get_next_free_size
<1>7. \A b \in Blocks : b <= prev \/ (next # None /\ next <= b)
  BY <1>2, <1>4, <1>5 DEF Follows, TagsInv, TagsTypeOK
<1>8. block \notin Places
  BY <1>1, <1>3, <1>4, <1>5, <1>6, <1>7 DEF Places, Trusted
<1> QED BY <1>1, <1>2, <1>3, <1>4, <1>5, <1>6, <1>7, <1>8

LEMMA AllocateKeeps ==
  ASSUME TagsSizes, TagsInv, NEW n \in Request, Allocate(n)
  PROVE  TagsInv' /\ Promise!HeapNext
<1> DEFINE real_size == n + M
<1>0. n \in Nat /\ M \in Nat \ {0} /\ Space \in Nat
  BY TagsSizes DEF TagsSizes, M
<1>1. PICK prev \in Fitting(real_size) :
        LET gap == get_next_free_size(prev)
            block == EndOf(prev)
            next == forward[prev]
            whole == gap < real_size + M
        IN /\ block_size' = Promise!Put(block_size, block, (IF whole THEN gap ELSE real_size) - M)
           /\ back' = [b \in Blocks \cup {block} |->
                IF b = block THEN prev ELSE IF b = next THEN block ELSE back[b]]
           /\ forward' = [b \in Places \cup {block} |->
                IF b = block THEN next ELSE IF b = prev THEN block ELSE forward[b]]
           /\ handed' = Promise!Put(handed, block + M, n)
           /\ UNCHANGED fit
  BY DEF Allocate, M
<1> DEFINE gap == get_next_free_size(prev)
           block == EndOf(prev)
           next == forward[prev]
           payload == (IF gap < real_size + M THEN gap ELSE real_size) - M
<1>2. /\ prev \in Places /\ block \in Nat /\ gap \in Nat /\ gap >= n + M
      /\ block \notin Places /\ prev < block
      /\ \A b \in Blocks : b <= prev \/ (next # None /\ next <= b)
      /\ next # None => next \in Blocks /\ block + gap = next
      /\ next = None => block + gap = Space
      /\ block + gap <= Space
  BY <1>0, NewBlock, TagsSizes
<1>3. payload \in Nat /\ n <= payload /\ M + payload <= gap
      /\ (M + payload = gap \/ gap - (M + payload) >= M)
  BY <1>0, <1>2
<1>4. /\ block_size' = [b \in Blocks \cup {block} |-> IF b = block THEN payload ELSE block_size[b]]
      /\ back' = [b \in Blocks \cup {block} |->
           IF b = block THEN prev ELSE IF b = next THEN block ELSE back[b]]
      /\ forward' = [b \in Places \cup {block} |->
           IF b = block THEN next ELSE IF b = prev THEN block ELSE forward[b]]
      /\ handed' = [p \in DOMAIN handed \cup {block + M} |-> IF p = block + M THEN n ELSE handed[p]]
      /\ fit' = fit
  BY <1>1 DEF Promise!Put, Blocks, M
<1>5. Blocks' = Blocks \cup {block} /\ Places' = Places \cup {block}
  BY <1>4 DEF Blocks, Places, Trusted
<1>6. TagsTypeOK'
  <2>1. block_size' \in [Blocks' -> Nat] /\ Blocks' \subseteq Nat
    BY <1>2, <1>3, <1>4, <1>5 DEF TagsInv, TagsTypeOK
  <2>2. back' \in [Blocks' -> Places']
    BY <1>2, <1>4, <1>5 DEF TagsInv, TagsTypeOK
  <2>3. forward' \in [Places' -> Blocks' \cup {None}]
    BY <1>2, <1>4, <1>5 DEF TagsInv, TagsTypeOK
  <2>4. DOMAIN handed' \subseteq Nat /\ handed' \in [DOMAIN handed' -> Nat]
    BY <1>0, <1>2, <1>4 DEF TagsInv, TagsTypeOK
  <2> QED BY <1>4, <2>1, <2>2, <2>3, <2>4 DEF TagsInv, TagsTypeOK, None
<1>7. /\ EndOf(block)' = block + M + payload
      /\ \A x \in Places : EndOf(x)' = EndOf(x) /\ EndOf(x) \in Int
  <2>1. EndOf(block)' = block + M + payload
    BY <1>2, <1>4 DEF EndOf, Places, Trusted, M
  <2>2. ASSUME NEW x \in Places PROVE EndOf(x)' = EndOf(x) /\ EndOf(x) \in Int
    <3>1. CASE x = Trusted
      BY <3>1 DEF EndOf
    <3>2. CASE x \in Blocks
      <4>1. block_size'[x] = block_size[x] /\ x \in Nat /\ block_size[x] \in Nat
        BY <1>2, <1>4, <3>2 DEF Places, TagsInv, TagsTypeOK
      <4> QED BY <4>1, <1>0 DEF EndOf, Trusted, M
    <3> QED BY <3>1, <3>2 DEF Places
  <2> QED BY <2>1, <2>2
<1>8. \A x \in Places : /\ Follows(x, forward[x]) /\ x \in Int /\ forward[x] \in Blocks \cup {None}
                        /\ forward[x] # None => back[forward[x]] = x
                        /\ get_next_free_size(x) = 0 \/ get_next_free_size(x) >= M
  BY DEF TagsInv, TagsTypeOK, Tiled, M, Places, Trusted
<1>9. ASSUME NEW x \in Places'
      PROVE  /\ Follows(x, forward[x])'
             /\ (forward[x] # None => back[forward[x]] = x)'
             /\ (get_next_free_size(x) = 0 \/ get_next_free_size(x) >= M)'
  <2>1. CASE x = block
    <3>1. forward'[x] = next
      BY <1>4, <1>5, <2>1
    <3>2. \A b \in Blocks' : ~(x < b /\ (b < next \/ next = None))
      <4> SUFFICES ASSUME NEW b \in Blocks, x < b, b < next \/ next = None PROVE FALSE
        BY <1>2, <1>5, <2>1
      <4>1. b \in Nat
        BY DEF TagsInv, TagsTypeOK
      <4>2. prev \in Int /\ (next # None => next \in Nat)
        BY <1>2, <1>8 DEF TagsInv, TagsTypeOK
      <4> QED BY <1>2, <2>1, <4>1, <4>2
    <3>3. next # None => /\ next \in Blocks' /\ x < next /\ EndOf(x)' <= next
                         /\ back'[next] = x
      <4> SUFFICES ASSUME next # None PROVE next \in Blocks' /\ x < next /\ EndOf(x)' <= next
                                            /\ back'[next] = x
        OBVIOUS
      <4>1. next \in Blocks /\ next # block
        BY <1>2 DEF Places
      <4> QED BY <1>0, <1>2, <1>3, <1>4, <1>5, <1>7, <2>1, <4>1
    <3>4. get_next_free_size(x)' = gap - (M + payload)
      BY <1>0, <1>2, <1>3, <1>7, <2>1, <3>1 DEF get_next_free_size
    <3> QED BY <1>2, <1>3, <3>1, <3>2, <3>3, <3>4 DEF Follows
  <2>2. CASE x = prev
    <3>1. forward'[x] = block /\ back'[block] = x /\ block # None
      BY <1>2, <1>4, <1>5, <2>2 DEF None
    <3>2. \A b \in Blocks' : ~(x < b /\ b < block)
      <4> SUFFICES ASSUME NEW b \in Blocks, x < b, b < block PROVE FALSE
        BY <1>2, <1>5
      <4>1. b \in Nat /\ prev \in Int /\ (next # None => next \in Nat)
        BY <1>2, <1>8 DEF TagsInv, TagsTypeOK
      <4> QED BY <1>2, <2>2, <4>1
    <3>3. get_next_free_size(x)' = 0 /\ EndOf(x)' <= block
      BY <1>2, <1>7, <2>2, <3>1 DEF get_next_free_size
    <3> QED BY <1>2, <1>5, <2>2, <3>1, <3>2, <3>3 DEF Follows
  <2>3. CASE x \in Places /\ x # prev
    <3>1. forward'[x] = forward[x] /\ x # block
      BY <1>2, <1>4, <2>3
    <3>2. Follows(x, forward[x]) /\ x \in Int /\ forward[x] \in Blocks \cup {None}
          /\ (forward[x] # None => back[forward[x]] = x)
      BY <1>8, <2>3
    <3>3. forward[x] # None => back'[forward[x]] = x
      <4> SUFFICES ASSUME forward[x] # None PROVE back'[forward[x]] = x
        OBVIOUS
      <4>1. forward[x] \in Blocks /\ forward[x] # block
        BY <1>2, <3>2 DEF Places
      <4>2. forward[x] # next
        BY <1>2, <1>8, <2>3, <3>2
      <4> QED BY <1>4, <3>2, <4>1, <4>2
    <3>4. ~(x < block /\ (block < forward[x] \/ forward[x] = None))
      <4> SUFFICES ASSUME x < block, block < forward[x] \/ forward[x] = None PROVE FALSE
        OBVIOUS
      <4>0. prev \in Int /\ (next # None => next \in Nat)
        BY <1>2, <1>8 DEF TagsInv, TagsTypeOK
      <4>1. x < prev
        <5>1. x <= prev
          <6>1. CASE x = Trusted
            BY <6>1, <1>2, <1>8 DEF Places, Trusted, TagsInv, TagsTypeOK
          <6>2. CASE x \in Blocks
            <7>1. x <= prev \/ (next # None /\ next <= x)
              BY <6>2, <1>2
            <7>2. next # None => block + gap = next
              BY <1>2
            <7> QED BY <7>1, <7>2, <1>2, <3>2, <4>0
          <6> QED BY <6>1, <6>2, <2>3 DEF Places
        <5> QED BY <5>1, <2>3, <3>2, <4>0
      <4>2. prev \in Blocks
        <5>1. prev # Trusted
          BY <4>1, <2>3 DEF Places, Trusted, TagsInv, TagsTypeOK
        <5> QED BY <5>1, <1>2 DEF Places
      <4>3. forward[x] # None /\ forward[x] <= prev
        BY <3>2, <4>0, <4>1, <4>2 DEF Follows, TagsInv, TagsTypeOK
      <4> QED BY <1>2, <3>2, <4>0, <4>3 DEF TagsInv, TagsTypeOK
    <3>5. Follows(x, forward[x])'
      BY <1>5, <1>7, <2>3, <3>1, <3>2, <3>4 DEF Follows, None
    <3>6. get_next_free_size(x)' = get_next_free_size(x)
      BY <1>7, <2>3, <3>1 DEF get_next_free_size, None
    <3> QED BY <1>8, <2>3, <3>1, <3>3, <3>5, <3>6 DEF None
  <2> QED BY <1>5, <2>1, <2>2, <2>3
<1>10. {p - M : p \in DOMAIN handed'} = Blocks'
  <2>1. {p - M : p \in DOMAIN handed} = Blocks
    BY DEF TagsInv, Tiled, M
  <2>2. (block + M) - M = block
    BY <1>0, <1>2
  <2> QED BY <1>4, <1>5, <2>1, <2>2
<1>11. Tiled'
  BY <1>9, <1>10 DEF Tiled, M
<1>12. Listed'
  <2> SUFFICES ASSUME NEW b \in Blocks' PROVE forward'[back'[b]] = b /\ EndOf(b)' <= Space
    BY DEF Listed
  <2>1. CASE b = block
    BY <1>0, <1>2, <1>3, <1>4, <1>5, <1>7, <2>1
  <2>2. CASE b \in Blocks
    <3>1. forward[back[b]] = b /\ EndOf(b) <= Space /\ back[b] \in Places /\ b # block
      BY <1>2, <2>2 DEF TagsInv, Listed, TagsTypeOK, Places
    <3>2. EndOf(b)' <= Space
      BY <1>7, <2>2, <3>1 DEF Places
    <3>3. forward'[back'[b]] = b
      BY <1>2, <1>4, <2>2, <3>1
    <3> QED BY <3>2, <3>3
  <2> QED BY <1>5, <2>1, <2>2
<1>13. Served'
  <2> SUFFICES ASSUME NEW p \in DOMAIN handed' PROVE p - M \in Blocks' /\ handed'[p] <= block_size'[p - M]
    BY DEF Served, M
  <2>1. CASE p = block + M
    <3>1. p - M = block
      BY <1>0, <1>2, <2>1
    <3> QED BY <1>3, <1>4, <1>5, <2>1, <3>1
  <2>2. CASE p # block + M
    <3>1. p \in DOMAIN handed /\ handed'[p] = handed[p]
      BY <1>4, <2>2
    <3>2. p - M \in Blocks /\ handed[p] <= block_size[p - M]
      BY <3>1 DEF TagsInv, Served
    <3>3. p - M # block
      BY <1>2, <3>2 DEF Places
    <3> QED BY <1>4, <1>5, <3>1, <3>2, <3>3
  <2> QED BY <2>1, <2>2
<1>14. Promise!HeapNext
  <2>1. block + M \in 0..Space - n
    BY <1>0, <1>2
  <2>2. ASSUME NEW p \in DOMAIN handed PROVE Promise!Apart(block + M, n, p)
    <3>1. p - M \in Blocks /\ handed[p] <= block_size[p - M] /\ p \in Nat /\ handed[p] \in Nat
      BY DEF TagsInv, Served, TagsTypeOK
    <3>2. PICK b \in Blocks : b = p - M
      BY <3>1
    <3>3. b \in Nat /\ block_size[b] \in Nat /\ p = b + M /\ b # block
          /\ EndOf(b) = b + M + block_size[b]
      BY <1>0, <1>2, <3>1, <3>2 DEF TagsInv, TagsTypeOK, Places, EndOf, Trusted, M
    <3>4. CASE b <= prev
      <4>1. prev \in Blocks
        BY <1>2, <3>3, <3>4 DEF Places, Trusted
      <4>2. EndOf(b) <= block
        <5>1. CASE b = prev
          BY <5>1, <1>2
        <5>2. CASE b # prev
          <6>1. prev \in Nat
            BY <4>1 DEF TagsInv, TagsTypeOK
          <6>2. EndOf(b) <= prev
            BY <4>1, <5>2, <6>1, <3>3, <3>4, BlocksApart, TagsSizes
          <6> QED BY <6>1, <6>2, <1>2, <1>0, <3>3
        <5> QED BY <5>1, <5>2
      <4> QED BY <1>0, <1>2, <3>1, <3>2, <3>3, <4>2 DEF Promise!Apart
    <3>5. CASE next # None /\ next <= b
      <4>1. next \in Nat /\ block + gap = next
        BY <1>2, <3>5 DEF TagsInv, TagsTypeOK
      <4> QED BY <1>0, <1>2, <3>3, <3>5, <4>1 DEF Promise!Apart
    <3> QED BY <1>2, <3>4, <3>5
  <2>3. Promise!Hand(block + M, n)
    BY <1>1, <2>2 DEF Promise!Hand
  <2> QED BY <2>1, <2>3 DEF Promise!HeapNext
<1> QED BY <1>6, <1>11, <1>12, <1>13, <1>14 DEF TagsInv

LEMMA DeallocateKeeps ==
  ASSUME TagsSizes, TagsInv, NEW at \in DOMAIN handed, Deallocate(at)
  PROVE  TagsInv' /\ Promise!HeapNext
<1> DEFINE block == at - M
           prev == back[block]
           next == forward[block]
<1>0. M \in Nat \ {0} /\ Space \in Nat
  BY TagsSizes DEF TagsSizes, M
<1>1. /\ handed' = [p \in DOMAIN handed \ {at} |-> handed[p]]
      /\ block_size' = [b \in Blocks \ {block} |-> block_size[b]]
      /\ back' = [b \in Blocks \ {block} |-> IF b = next THEN prev ELSE back[b]]
      /\ forward' = [b \in Places \ {block} |-> IF b = prev THEN next ELSE forward[b]]
      /\ fit' = fit
  BY DEF Deallocate, Promise!Without, Blocks, M
<1>2. block \in Blocks /\ block \in Nat /\ block_size[block] \in Nat /\ block # None
  BY DEF TagsInv, TagsTypeOK, Served, None
<1>3. /\ prev \in Places /\ prev \in Int /\ forward[prev] = block
      /\ EndOf(block) <= Space /\ EndOf(block) \in Int /\ EndOf(block) = block + M + block_size[block]
  BY <1>0, <1>2 DEF TagsInv, TagsTypeOK, Listed, Places, Trusted, EndOf, M
<1>4. \A x \in Places : /\ Follows(x, forward[x]) /\ x \in Int /\ forward[x] \in Blocks \cup {None}
                        /\ forward[x] # None => back[forward[x]] = x
                        /\ get_next_free_size(x) = 0 \/ get_next_free_size(x) >= M
  BY DEF TagsInv, TagsTypeOK, Tiled, M, Places, Trusted
<1>5. \A b \in Blocks : b \in Nat /\ back[b] \in Places /\ forward[back[b]] = b
  BY DEF TagsInv, TagsTypeOK, Listed
<1>6. prev < block /\ EndOf(prev) <= block /\ \A b \in Blocks : ~(prev < b /\ b < block)
  BY <1>2, <1>3, <1>4 DEF Follows
<1>7. /\ next \in Blocks \cup {None}
      /\ next # None => next \in Nat /\ block < next /\ EndOf(block) <= next /\ back[next] = block
      /\ \A b \in Blocks : ~(block < b /\ (b < next \/ next = None))
  BY <1>2, <1>4, <1>5 DEF Follows, Places
<1>8. Blocks' = Blocks \ {block} /\ Places' = Places \ {block} /\ prev \in Places'
  BY <1>1, <1>2, <1>3, <1>6 DEF Blocks, Places, Trusted
<1>9. \A x \in Places' : x # prev => forward[x] # block
  BY <1>2, <1>4, <1>8
<1>10. \A b \in Blocks' : /\ back[b] = block => b = next
                          /\ back[b] # prev
  BY <1>3, <1>5, <1>8
<1>11. TagsTypeOK'
  <2>1. block_size' \in [Blocks' -> Nat] /\ Blocks' \subseteq Nat
    BY <1>1, <1>8 DEF TagsInv, TagsTypeOK
  <2>2. back' \in [Blocks' -> Places']
    BY <1>1, <1>5, <1>8, <1>10
  <2>3. forward' \in [Places' -> Blocks' \cup {None}]
    <3>1. next \in Blocks' \cup {None}
      BY <1>7, <1>8
    <3> QED BY <1>1, <1>4, <1>8, <1>9, <3>1
  <2>4. DOMAIN handed' \subseteq Nat /\ handed' \in [DOMAIN handed' -> Nat]
    BY <1>1 DEF TagsInv, TagsTypeOK
  <2> QED BY <1>1, <2>1, <2>2, <2>3, <2>4 DEF TagsInv, TagsTypeOK, None
<1>12. \A x \in Places' : EndOf(x)' = EndOf(x) /\ EndOf(x) \in Int
  <2> SUFFICES ASSUME NEW x \in Places' PROVE EndOf(x)' = EndOf(x) /\ EndOf(x) \in Int
    OBVIOUS
  <2>1. CASE x = Trusted
    BY <2>1 DEF EndOf
  <2>2. CASE x \in Blocks'
    <3>1. block_size'[x] = block_size[x] /\ x \in Nat /\ block_size[x] \in Nat
      BY <1>1, <1>8, <2>2 DEF TagsInv, TagsTypeOK
    <3> QED BY <3>1, <1>0 DEF EndOf, Trusted, M
  <2> QED BY <2>1, <2>2 DEF Places
<1>13. ASSUME NEW x \in Places'
       PROVE  /\ Follows(x, forward[x])'
              /\ (forward[x] # None => back[forward[x]] = x)'
              /\ (get_next_free_size(x) = 0 \/ get_next_free_size(x) >= M)'
  <2>1. CASE x = prev
    <3>1. forward'[x] = next
      BY <1>1, <1>8, <2>1
    <3>2. \A b \in Blocks' : ~(x < b /\ (b < next \/ next = None))
      <4> SUFFICES ASSUME NEW b \in Blocks, b # block, x < b, b < next \/ next = None PROVE FALSE
        BY <1>8
      <4>1. b \in Nat /\ ~(b < block)
        BY <1>5, <1>6, <2>1
      <4>2. block < b
        BY <1>2, <4>1
      <4> QED BY <1>7, <4>2
    <3>3. next # None => /\ next \in Blocks' /\ x < next /\ EndOf(x)' <= next
                         /\ back'[next] = x
      <4> SUFFICES ASSUME next # None PROVE next \in Blocks' /\ x < next /\ EndOf(x)' <= next
                                            /\ back'[next] = x
        OBVIOUS
      <4>1. next \in Blocks' /\ back'[next] = x
        BY <1>1, <1>2, <1>7, <1>8, <2>1
      <4>2. EndOf(x)' = EndOf(prev) /\ EndOf(prev) \in Int
        BY <1>12, <2>1
      <4> QED BY <1>2, <1>3, <1>6, <1>7, <2>1, <4>1, <4>2
    <3>4. get_next_free_size(x)' >= M
      <4>1. EndOf(x)' = EndOf(prev) /\ EndOf(prev) \in Int
        BY <1>12, <2>1
      <4>2. get_next_free_size(x)' = (IF next = None THEN Space ELSE next) - EndOf(prev)
        BY <3>1, <4>1 DEF get_next_free_size
      <4>3. block + M <= (IF next = None THEN Space ELSE next)
        BY <1>0, <1>2, <1>3, <1>7
      <4> QED BY <1>0, <1>2, <1>6, <1>7, <4>1, <4>2, <4>3
    <3> QED BY <3>1, <3>2, <3>3, <3>4 DEF Follows
  <2>2. CASE x # prev
    <3>1. forward'[x] = forward[x] /\ x \in Places /\ forward[x] # block
      BY <1>1, <1>8, <1>9, <2>2
    <3>2. Follows(x, forward[x]) /\ forward[x] \in Blocks \cup {None}
      BY <1>4, <3>1
    <3>3. forward[x] # None => back'[forward[x]] = x
      <4> SUFFICES ASSUME forward[x] # None PROVE back'[forward[x]] = x
        OBVIOUS
      <4>1. forward[x] \in Blocks' /\ back[forward[x]] = x /\ x # block
        BY <1>4, <1>8, <3>1, <3>2
      <4>2. forward[x] # next
        BY <1>7, <4>1
      <4> QED BY <1>1, <1>8, <4>1, <4>2
    <3>4. Follows(x, forward[x])'
      BY <1>8, <1>12, <3>1, <3>2 DEF Follows, None
    <3>5. get_next_free_size(x)' = get_next_free_size(x)
      BY <1>12, <3>1 DEF get_next_free_size, None
    <3> QED BY <1>4, <3>1, <3>3, <3>4, <3>5 DEF None
  <2> QED BY <2>1, <2>2
<1>14. Tiled'
  <2>1. {p - M : p \in DOMAIN handed'} = Blocks'
    <3>1. {p - M : p \in DOMAIN handed} = Blocks
      BY DEF TagsInv, Tiled, M
    <3>2. \A p \in DOMAIN handed : p - M = block => p = at
      BY <1>0 DEF TagsInv, TagsTypeOK
    <3>3. DOMAIN handed' = DOMAIN handed \ {at}
      BY <1>1
    <3> QED BY <1>8, <3>1, <3>2, <3>3
  <2> QED BY <1>13, <2>1 DEF Tiled, M
<1>15. Listed'
  <2> SUFFICES ASSUME NEW b \in Blocks' PROVE forward'[back'[b]] = b /\ EndOf(b)' <= Space
    BY DEF Listed
  <2>1. EndOf(b)' <= Space
    BY <1>8, <1>12 DEF TagsInv, Listed, Places
  <2>2. CASE b = next
    BY <1>1, <1>8, <2>1, <2>2
  <2>3. CASE b # next
    <3>1. back'[b] = back[b] /\ back[b] \in Places' /\ back[b] # prev
      BY <1>1, <1>5, <1>8, <1>10, <2>3
    <3> QED BY <1>1, <1>5, <1>8, <2>1, <3>1
  <2> QED BY <2>2, <2>3
<1>16. Served'
  <2> SUFFICES ASSUME NEW p \in DOMAIN handed' PROVE p - M \in Blocks' /\ handed'[p] <= block_size'[p - M]
    BY DEF Served, M
  <2>1. p \in DOMAIN handed /\ handed'[p] = handed[p] /\ p # at
    BY <1>1
  <2>2. p - M \in Blocks /\ handed[p] <= block_size[p - M] /\ p - M # block
    BY <1>0, <2>1 DEF TagsInv, TagsTypeOK, Served
  <2> QED BY <1>1, <1>8, <2>1, <2>2
<1>17. Promise!HeapNext
  <2>1. Promise!TakeBack(at)
    BY DEF Deallocate, Promise!TakeBack
  <2> QED BY <2>1 DEF Promise!HeapNext
<1> QED BY <1>11, <1>14, <1>15, <1>16, <1>17 DEF TagsInv

LEMMA InitHolds ==
  ASSUME TagsSizes, TagsInit
  PROVE  TagsInv
<1>1. Blocks = {} /\ Places = {Trusted} /\ forward[Trusted] = None /\ DOMAIN handed = {}
  BY DEF TagsInit, Blocks, Places, Promise!HeapInit
<1>2. get_next_free_size(Trusted) = Space
  BY <1>1, TagsSizes DEF TagsSizes, get_next_free_size, EndOf
<1>3. TagsTypeOK
  BY <1>1 DEF TagsTypeOK, TagsInit, Promise!HeapInit
<1>4. Tiled
  BY <1>1, <1>2, TagsSizes DEF TagsSizes, Tiled, Follows
<1> QED BY <1>1, <1>3, <1>4 DEF TagsInv, Listed, Served

\* What every step keeps, and what of it the client sees.
LEMMA NextKeeps ==
  ASSUME TagsSizes, TagsInv, [TagsNext]_tagsVars
  PROVE  TagsInv' /\ [Promise!HeapNext]_handed
<1>1. ASSUME NEW n \in Request, Allocate(n) PROVE TagsInv' /\ Promise!HeapNext
  BY <1>1, AllocateKeeps, TagsSizes
<1>2. ASSUME NEW at \in DOMAIN handed, Deallocate(at) PROVE TagsInv' /\ Promise!HeapNext
  BY <1>2, DeallocateKeeps, TagsSizes
<1>3. ASSUME fit' \in FitModes, UNCHANGED <<handed, block_size, back, forward>>
      PROVE  TagsInv' /\ UNCHANGED handed
  <2>1. TagsTypeOK' /\ Listed' /\ Served'
    BY <1>3 DEF TagsInv, TagsTypeOK, Listed, Served, Blocks, Places, EndOf
  <2>2. Tiled'
    BY <1>3 DEF TagsInv, Tiled, Follows, Blocks, Places, EndOf, get_next_free_size
  <2> QED BY <1>3, <2>1, <2>2 DEF TagsInv
<1>4. CASE UNCHANGED tagsVars
  BY <1>3, <1>4 DEF TagsInv, TagsTypeOK, tagsVars
<1>5. CASE set_fit_mode
  BY <1>3, <1>5 DEF set_fit_mode
<1> QED BY <1>1, <1>2, <1>4, <1>5 DEF TagsNext, BadAlloc

LEMMA Invariant ==
  ASSUME TagsSizes
  PROVE  TagsSpec => []TagsInv
<1>1. TagsInit => TagsInv
  BY InitHolds, TagsSizes
<1>2. TagsInv /\ [TagsNext]_tagsVars => TagsInv'
  BY NextKeeps, TagsSizes
<1> QED BY <1>1, <1>2, PTL DEF TagsSpec

\* The list names every block in use once, in both directions, and every gap between two
\* of them is empty or has room for a header: allocate and deallocate of boundary_tags
\* keep the memory tiled whatever is asked for and given back, in any order.
THEOREM BoundaryTagsTiled ==
  ASSUME TagsSizes
  PROVE  TagsSpec => []Tiled
<1>1. TagsInv => Tiled
  BY DEF TagsInv
<1> QED BY <1>1, Invariant, TagsSizes, PTL

\* Every step of the allocator is one that allocator.h allows: a new block lies inside the
\* memory and apart from all others, and a block given back takes no other with it.
THEOREM BoundaryTagsImplementHeap ==
  ASSUME TagsSizes
  PROVE  TagsSpec => ImplementsHeap
<1>1. TagsInit => Promise!HeapInit
  BY DEF TagsInit
<1>2. TagsInv /\ [TagsNext]_tagsVars => [Promise!HeapNext]_handed
  BY NextKeeps, TagsSizes
<1> QED BY <1>1, <1>2, Invariant, TagsSizes, PTL DEF TagsSpec, ImplementsHeap, Promise!HeapSpec
===================================================================================

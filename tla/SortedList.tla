-------------------------------- MODULE SortedList --------------------------------
(***************************************************************************)
(* allocator_sorted_list: the memory is a row of blocks, each a header and *)
(* a payload; the free ones are in a list in the order of their addresses, *)
(* and are joined with their neighbours when a block comes back.           *)
(*                                                                         *)
(* Addresses count from the end of the allocator's own data.  The list,    *)
(* linked through the headers, is a sequence; a header that became part of *)
(* a larger payload is forgotten.  Every operation runs under one mutex.   *)
(***************************************************************************)
EXTENDS Integers, SequencesExt, FitMode

CONSTANTS
  Space, Request,
  block_metadata_size  \* size of a header

\* What is assumed of the constants.
SortedSizes ==
  /\ Space \in Nat /\ Request \subseteq Nat
  /\ block_metadata_size \in Nat \ {0}
  /\ Space >= block_metadata_size

VARIABLES
  handed,  \* the client's blocks
  fit,     \* the fit mode
  size,    \* size of the payload, by address of the header
  free     \* the list of free blocks

sortedVars == <<handed, fit, size, free>>

Promise == INSTANCE Heap

End(block) == block + block_metadata_size + size[block]

SortedInit ==
  /\ Promise!HeapInit
  /\ fit \in FitModes
  /\ size = [block \in {0} |-> Space - block_metadata_size]
  /\ free = <<0>>

Fitting(n) == {i \in DOMAIN free : size[free[i]] >= n}

\* The block is split unless nothing would be left for a header.
Allocate(n) ==
  \E i \in Fitting(n) :
    LET block == free[i]
        rest == block + block_metadata_size + n
    IN /\ IsChoice(fit, i, Fitting(n), [j \in DOMAIN free |-> size[free[j]]])
       /\ IF size[block] < n + block_metadata_size
          THEN /\ free' = RemoveAt(free, i)
               /\ UNCHANGED size
          ELSE /\ free' = [free EXCEPT ![i] = rest]
               /\ size' = Promise!Put([size EXCEPT ![block] = n],
                                      rest, size[block] - n - block_metadata_size)
       /\ handed' = Promise!Put(handed, block + block_metadata_size, n)
       /\ UNCHANGED fit

BadAlloc(n) == Fitting(n) = {} /\ UNCHANGED sortedVars

\* Where the loop stops that looks for the neighbours in the list.
StopsAt(i, block) ==
  /\ \A j \in 1..i - 1 : free[j] < block
  /\ i <= Len(free) => free[i] >= block

\* prev_free is the element i - 1, if there is one, and next_free the element i.
Deallocate(at) ==
  \E i \in 1..Len(free) + 1 :
    LET block == at - block_metadata_size
        joinsPrev == i > 1 /\ End(free[i - 1]) = block
        joinsNext == i <= Len(free) /\ End(block) = free[i]
        start == IF joinsPrev THEN free[i - 1] ELSE block
        end == IF joinsNext THEN End(free[i]) ELSE End(block)
        gone == {b \in DOMAIN size : start < b /\ b < end}
    IN /\ at \in DOMAIN handed
       /\ StopsAt(i, block)
       /\ handed' = Promise!Without(handed, at)
       /\ size' = [b \in DOMAIN size \ gone |->
                     IF b = start THEN end - start - block_metadata_size ELSE size[b]]
       /\ free' = SubSeq(free, 1, IF joinsPrev THEN i - 2 ELSE i - 1) \o <<start>>
                    \o SubSeq(free, IF joinsNext THEN i + 1 ELSE i, Len(free))
       /\ UNCHANGED fit

set_fit_mode == fit' \in FitModes /\ UNCHANGED <<handed, size, free>>

SortedNext ==
  \/ \E n \in Request : Allocate(n) \/ BadAlloc(n)
  \/ \E at \in DOMAIN handed : Deallocate(at)
  \/ set_fit_mode

SortedSpec == SortedInit /\ [][SortedNext]_sortedVars
-----------------------------------------------------------------------------------
Free == {free[i] : i \in DOMAIN free}

\* The list ascends; blocks follow one another without a gap or an overlap, up to the
\* end of the memory, and two free ones are never neighbours: everything that came back
\* was joined.
Tiled ==
  /\ \A i, j \in DOMAIN free : i < j => free[i] < free[j]
  /\ Free \subseteq DOMAIN size /\ 0 \in DOMAIN size
  /\ \A block \in DOMAIN size :
       /\ \A other \in DOMAIN size : block < other => End(block) <= other
       /\ End(block) \in DOMAIN size \cup {Space}
       /\ block \in Free => End(block) \notin Free
  /\ {p - block_metadata_size : p \in DOMAIN handed} = DOMAIN size \ Free

\* The client sees what allocator.h promises: blocks in use never overlap, and what was
\* handed out stays until it is given back.
ImplementsHeap == Promise!HeapSpec
===================================================================================

------------------------------- MODULE BoundaryTags -------------------------------
(***************************************************************************)
(* allocator_boundary_tags: the blocks in use are in a list linked in both *)
(* directions; free memory is what lies between them.                      *)
(*                                                                         *)
(* Addresses count from the end of the allocator's own data, whose own     *)
(* address, Trusted, stands before the first block.  Every operation runs  *)
(* under one mutex.                                                        *)
(***************************************************************************)
EXTENDS Integers, FitMode

CONSTANTS
  Space, Request,
  occupied_block_metadata_size  \* size of a header

\* What is assumed of the constants.
TagsSizes ==
  /\ Space \in Nat /\ Request \subseteq Nat
  /\ occupied_block_metadata_size \in Nat \ {0}
  /\ Space >= occupied_block_metadata_size

VARIABLES
  handed,     \* the client's blocks
  fit,        \* the fit mode
  block_size, \* size of the payload, by address of the header
  back,       \* the block before, or Trusted
  forward     \* the block after, or None; that of Trusted is the first block

tagsVars == <<handed, fit, block_size, back, forward>>

Promise == INSTANCE Heap

Trusted == -1
None == -2      \* nullptr
Blocks == DOMAIN block_size
Places == Blocks \cup {Trusted}

EndOf(place) ==
  IF place = Trusted THEN 0
  ELSE place + occupied_block_metadata_size + block_size[place]

\* Fault: the header of the block before counts as free.
GapWithHeader(place) ==
  (IF forward[place] = None THEN Space ELSE forward[place])
    - (IF place = Trusted THEN 0 ELSE place + block_size[place])

get_next_free_size(place) ==
  (IF forward[place] = None THEN Space ELSE forward[place]) - EndOf(place)

TagsInit ==
  /\ Promise!HeapInit
  /\ fit \in FitModes
  /\ block_size = [b \in {} |-> 0]
  /\ back = [b \in {} |-> 0]
  /\ forward = [b \in {Trusted} |-> None]

\* The iterator goes up the list, which is in the order of addresses.
Fitting(real_size) == {place \in Places : get_next_free_size(place) >= real_size}

\* All of the free memory is taken if nothing would be left for a header.
Allocate(n) ==
  LET real_size == n + occupied_block_metadata_size
  IN \E prev \in Fitting(real_size) :
       LET gap == get_next_free_size(prev)
           block == EndOf(prev)
           next == forward[prev]
           whole == gap < real_size + occupied_block_metadata_size
       IN /\ IsChoice(fit, prev, Fitting(real_size),
                      [place \in Places |-> get_next_free_size(place)])
          /\ block_size' = Promise!Put(block_size, block,
               (IF whole THEN gap ELSE real_size) - occupied_block_metadata_size)
          /\ back' = [b \in Blocks \cup {block} |->
               IF b = block THEN prev ELSE IF b = next THEN block ELSE back[b]]
          /\ forward' = [b \in Places \cup {block} |->
               IF b = block THEN next ELSE IF b = prev THEN block ELSE forward[b]]
          /\ handed' = Promise!Put(handed, block + occupied_block_metadata_size, n)
          /\ UNCHANGED fit

BadAlloc(n) == Fitting(n + occupied_block_metadata_size) = {} /\ UNCHANGED tagsVars

Deallocate(at) ==
  LET block == at - occupied_block_metadata_size
      prev == back[block]
      next == forward[block]
  IN /\ at \in DOMAIN handed
     /\ handed' = Promise!Without(handed, at)
     /\ block_size' = Promise!Without(block_size, block)
     /\ back' = [b \in Blocks \ {block} |-> IF b = next THEN prev ELSE back[b]]
     /\ forward' = [b \in Places \ {block} |-> IF b = prev THEN next ELSE forward[b]]
     /\ UNCHANGED fit

set_fit_mode == fit' \in FitModes /\ UNCHANGED <<handed, block_size, back, forward>>

TagsNext ==
  \/ \E n \in Request : Allocate(n) \/ BadAlloc(n)
  \/ \E at \in DOMAIN handed : Deallocate(at)
  \/ set_fit_mode

TagsSpec == TagsInit /\ [][TagsNext]_tagsVars
-----------------------------------------------------------------------------------
Follows(place, next) ==
  /\ \A b \in Blocks : ~(place < b /\ (b < next \/ next = None))
  /\ next # None => next \in Blocks /\ place < next /\ EndOf(place) <= next

\* The list goes through all blocks in use in the order of their addresses, the same in
\* both directions; what is between two of them, and before the end of the memory, is
\* nothing or has room for a header.
Tiled ==
  /\ \A place \in Places :
       /\ Follows(place, forward[place])
       /\ forward[place] # None => back[forward[place]] = place
       /\ \/ get_next_free_size(place) = 0
          \/ get_next_free_size(place) >= occupied_block_metadata_size
  /\ {p - occupied_block_metadata_size : p \in DOMAIN handed} = Blocks

\* The client sees what allocator.h promises: blocks in use never overlap, and what was
\* handed out stays until it is given back.
ImplementsHeap == Promise!HeapSpec
===================================================================================

------------------------------ MODULE MCAllocators ------------------------------
(* A behaviour is one of one allocator; what belongs to the others stays.  Under  *)
(* the red-black tree there are either few blocks, or the memory is filled with   *)
(* blocks of many sizes between small ones that keep them apart, of which any are *)
(* given back in any order before anything else happens.                          *)
EXTENDS Integers, Sequences, FiniteSets

CONSTANTS
  Power,          \* of the memory's size
  ListRequest, TagsRequest, BuddiesRequest, TreeRequest,
  Request,        \* all of these
  ListMetadata, TagsMetadata, BuddiesMetadata, BuddiesMinK,
  TreeOccupiedMetadata, TreeFreeMetadata,
  MaxHanded,      \* bound: blocks in use
  TreeMaxHanded,  \* bound: and under the red-black tree
  Pattern,        \* the sizes of the large blocks
  Spacer,         \* and of the small ones
  MaxLast         \* bound: what happens afterwards

VARIABLES
  which,  \* the allocator
  last,   \* steps of the last phase
  handed, fit, size, free, block_size, back, forward, exponent, occupied, dead, heap

Space == 2 ^ Power
ManySizes == <<3, 1, 6, 2, 5, 4, 7>>

Sorted == INSTANCE SortedList WITH Request <- ListRequest, block_metadata_size <- ListMetadata
Tags == INSTANCE BoundaryTags WITH
  Request <- TagsRequest, occupied_block_metadata_size <- TagsMetadata
Buddies == INSTANCE BuddiesSystem WITH
  Request <- BuddiesRequest, occupied_block_metadata_size <- BuddiesMetadata,
  min_k <- BuddiesMinK
Tree == INSTANCE RedBlackHeap WITH
  Request <- TreeRequest, occupied_block_metadata_size <- TreeOccupiedMetadata,
  free_block_metadata_size <- TreeFreeMetadata

Promise == INSTANCE Heap

ASSUME Sizes ==
  Promise!HeapSizes /\ Sorted!SortedSizes /\ Tags!TagsSizes /\ Buddies!BuddiesSizes /\ Tree!TreeSizes

sortedOwn == <<size, free>>
tagsOwn == <<block_size, back, forward>>
buddiesOwn == <<exponent, occupied, dead>>
vars == <<which, last, handed, fit, sortedOwn, tagsOwn, buddiesOwn, heap>>

MCInit ==
  /\ which \in {"sorted list", "boundary tags", "buddies system", "red-black tree", "filling"}
  /\ last = 0 /\ (which = "filling" => fit = "first_fit")
  /\ Sorted!SortedInit /\ Tags!TagsInit /\ Buddies!BuddiesInit /\ Tree!TreeInit

Few == Cardinality(DOMAIN handed') <= MaxHanded

Fills ==
  LET k == Cardinality(DOMAIN handed) + 1
      n == IF k % 2 = 1 THEN Spacer ELSE Pattern[k \div 2]
  IN /\ Tree!Allocate(n)
     /\ which' = IF k = 2 * Len(Pattern) + 1 THEN "emptying" ELSE which

Empties == \E at \in DOMAIN handed : handed[at] # Spacer /\ Tree!Deallocate(at)

MCNext ==
  \/ /\ which = "sorted list" /\ Sorted!SortedNext /\ Few
     /\ UNCHANGED <<which, last, tagsOwn, buddiesOwn, heap>>
  \/ /\ which = "boundary tags" /\ Tags!TagsNext /\ Few
     /\ UNCHANGED <<which, last, sortedOwn, buddiesOwn, heap>>
  \/ /\ which = "buddies system" /\ Buddies!BuddiesNext /\ Few
     /\ UNCHANGED <<which, last, sortedOwn, tagsOwn, heap>>
  \/ /\ which = "red-black tree" /\ Tree!TreeNext
     /\ Cardinality(DOMAIN handed') <= TreeMaxHanded
     /\ UNCHANGED <<which, last, sortedOwn, tagsOwn, buddiesOwn>>
  \/ /\ which = "filling" /\ Fills
     /\ UNCHANGED <<last, sortedOwn, tagsOwn, buddiesOwn>>
  \/ /\ which = "emptying" /\ Empties
     /\ UNCHANGED <<which, last, sortedOwn, tagsOwn, buddiesOwn>>
  \/ /\ which \in {"emptying", "anything"} /\ last < MaxLast
     /\ (\E n \in TreeRequest : Tree!Allocate(n)) \/ \E at \in DOMAIN handed : Tree!Deallocate(at)
     /\ which' = "anything" /\ last' = last + 1
     /\ UNCHANGED <<sortedOwn, tagsOwn, buddiesOwn>>

MCSpec == MCInit /\ [][MCNext]_vars

\* Whatever an allocator does, its client sees what allocator.h promises: blocks in use
\* never overlap, and what was handed out stays until it is given back.
ImplementsHeap == Promise!HeapSpec

Tiled ==
  /\ which = "sorted list" => Sorted!Tiled
  /\ which = "boundary tags" => Tags!Tiled
  /\ which = "buddies system" => Buddies!Tiled
  /\ which = "red-black tree" => Tree!Tiled

RedBlack == Tree!RedBlack
FitFound == Tree!FitFound
=================================================================================

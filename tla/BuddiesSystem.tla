------------------------------ MODULE BuddiesSystem ------------------------------
(***************************************************************************)
(* allocator_buddies_system: blocks are halved until they fit and joined   *)
(* with their other half when both are free again.                         *)
(*                                                                         *)
(* A block is known by its address, counted from the end of the            *)
(* allocator's own data; its size is the power of two 2^(exponent + min_k).*)
(* get_best and get_worst compare with the size of an iterator at nullptr  *)
(* as soon as one free block is large enough: the process dies.            *)
(***************************************************************************)
EXTENDS Integers, FiniteSetsExt, FitMode

CONSTANTS
  Power, Request,
  occupied_block_metadata_size,  \* header of a block in use
  min_k                          \* the least exponent, with room for the header

Space == 2 ^ Power

\* What is assumed of the constants.
BuddiesSizes ==
  /\ Power \in Nat /\ Request \subseteq Nat
  /\ min_k \in 0..Power
  /\ occupied_block_metadata_size \in Nat \ {0}
  /\ 2 ^ min_k >= occupied_block_metadata_size
  /\ min_k > 0 => 2 ^ (min_k - 1) < occupied_block_metadata_size

VARIABLES
  handed,    \* the client's blocks
  fit,       \* the fit mode
  exponent,  \* the size of each block, less min_k
  occupied,  \* the blocks in use
  dead       \* whether the process read through nullptr

buddiesVars == <<handed, fit, exponent, occupied, dead>>

Promise == INSTANCE Heap

Blocks == DOMAIN exponent
get_block_size(block) == 2 ^ (exponent[block] + min_k)

\* The exclusive or with the size.
Buddy(block, k) ==
  IF (block \div 2 ^ (k + min_k)) % 2 = 0 THEN block + 2 ^ (k + min_k)
                                          ELSE block - 2 ^ (k + min_k)
get_buddy(block) == Buddy(block, exponent[block])

BuddiesInit ==
  /\ Promise!HeapInit
  /\ fit \in FitModes
  /\ exponent = [block \in {0} |-> Power - min_k]
  /\ occupied = {} /\ dead = FALSE

Fitting(real_size) == {b \in Blocks \ occupied : get_block_size(b) >= real_size}

\* A block is halved while its half is large enough; the other halves are free.
Halved(block, real_size) ==
  LET k == Max({j \in 0..exponent[block] : 2 ^ (j + min_k) < real_size * 2})
      halves == {block + 2 ^ (j + min_k) : j \in k..exponent[block] - 1}
  IN [b \in Blocks \cup halves |->
        IF b = block THEN k
        ELSE IF b \in halves
             THEN CHOOSE j \in k..exponent[block] - 1 : b = block + 2 ^ (j + min_k)
             ELSE exponent[b]]

Allocate(n) ==
  LET real_size == n + occupied_block_metadata_size
  IN \E block \in Fitting(real_size) :
       /\ ~dead /\ fit = "first_fit"
       /\ IsChoice(fit, block, Fitting(real_size), exponent)
       /\ exponent' = Halved(block, real_size)
       /\ occupied' = occupied \cup {block}
       /\ handed' = Promise!Put(handed, block + occupied_block_metadata_size, n)
       /\ UNCHANGED <<fit, dead>>

BadAlloc(n) ==
  /\ ~dead /\ Fitting(n + occupied_block_metadata_size) = {}
  /\ UNCHANGED buddiesVars

Dies(n) ==
  /\ ~dead /\ fit # "first_fit" /\ Fitting(n + occupied_block_metadata_size) # {}
  /\ dead' = TRUE
  /\ UNCHANGED <<handed, fit, exponent, occupied>>

\* Fault: a block is joined with its buddy once at most.
JoinedOnce(sizes, used, block) ==
  LET buddy == Buddy(block, sizes[block])
      lower == IF block < buddy THEN block ELSE buddy
  IN IF sizes[block] + min_k < Power /\ sizes[buddy] = sizes[block] /\ buddy \notin used
     THEN [b \in DOMAIN sizes \ ({block, buddy} \ {lower}) |->
             IF b = lower THEN sizes[b] + 1 ELSE sizes[b]]
     ELSE sizes

\* The blocks after a free one was joined with its buddy as often as it can be.
RECURSIVE Joined(_, _, _)
Joined(sizes, used, block) ==
  LET buddy == Buddy(block, sizes[block])
      lower == IF block < buddy THEN block ELSE buddy
      upper == IF block < buddy THEN buddy ELSE block
  IN IF sizes[block] + min_k < Power /\ sizes[buddy] = sizes[block] /\ buddy \notin used
     THEN Joined([b \in DOMAIN sizes \ {upper} |->
                    IF b = lower THEN sizes[b] + 1 ELSE sizes[b]], used, lower)
     ELSE sizes

Deallocate(at) ==
  LET block == at - occupied_block_metadata_size
  IN /\ ~dead /\ at \in DOMAIN handed
     /\ handed' = Promise!Without(handed, at)
     /\ occupied' = occupied \ {block}
     /\ exponent' = Joined(exponent, occupied \ {block}, block)
     /\ UNCHANGED <<fit, dead>>

set_fit_mode == ~dead /\ fit' \in FitModes /\ UNCHANGED <<handed, exponent, occupied, dead>>

BuddiesNext ==
  \/ \E n \in Request : Allocate(n) \/ BadAlloc(n) \/ Dies(n)
  \/ \E at \in DOMAIN handed : Deallocate(at)
  \/ set_fit_mode
-----------------------------------------------------------------------------------
\* The blocks follow one another up to the end of the memory, each at a multiple of its
\* size, and no block is free beside a free buddy of its size.
Tiled ==
  /\ 0 \in Blocks
  /\ \A block \in Blocks :
       /\ exponent[block] \in 0..Power - min_k
       /\ block % get_block_size(block) = 0
       /\ block + get_block_size(block) \in Blocks \cup {Space}
       /\ \A other \in Blocks : block < other => block + get_block_size(block) <= other
       /\ LET buddy == get_buddy(block)
          IN ~(/\ block \notin occupied /\ buddy \in Blocks \ occupied
               /\ exponent[block] = exponent[buddy])
  /\ {p - occupied_block_metadata_size : p \in DOMAIN handed} = occupied
===================================================================================

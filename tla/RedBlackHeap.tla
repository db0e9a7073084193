------------------------------- MODULE RedBlackHeap -------------------------------
(***************************************************************************)
(* allocator_red_black_tree: all blocks are in a list linked in both       *)
(* directions; the free ones are besides in a red-black tree ordered by    *)
(* their sizes, which follow from the list.                                *)
(*                                                                         *)
(* heap is the memory: the root of the tree, first, and the header of each *)
(* block.  Addresses count from the end of the allocator's own data, whose *)
(* own address, Trusted, is the parent of a block in use.  The links left  *)
(* and right of a free block are where the user's data was, and are None   *)
(* in a block in use.  A function of the code that changes headers is an   *)
(* operator from memory to memory.                                         *)
(***************************************************************************)
EXTENDS Integers, FiniteSets

CONSTANTS
  Space, Request,
  occupied_block_metadata_size,
  free_block_metadata_size       \* with the links left and right

\* What is assumed of the constants.
TreeSizes ==
  /\ Space \in Nat /\ Request \subseteq Nat
  /\ occupied_block_metadata_size \in Nat \ {0}
  /\ free_block_metadata_size >= occupied_block_metadata_size
  /\ Space >= free_block_metadata_size
  \* bound: a block in use is never too small for the links it will have when it is free
  /\ \A n \in Request : n + occupied_block_metadata_size >= free_block_metadata_size

VARIABLES
  handed,  \* the client's blocks
  fit,     \* the fit mode
  heap     \* the memory

treeVars == <<handed, fit, heap>>

Promise == INSTANCE Heap

FitModes == {"first_fit", "the_best_fit", "the_worst_fit"}
Trusted == -1
None == -2      \* nullptr
Header(occ, before, after) ==
  [occupied |-> occ, red |-> FALSE, back |-> before, forward |-> after,
   parent |-> IF occ THEN Trusted ELSE None, left |-> None, right |-> None]

Blocks(m) == DOMAIN m.at
Set(m, block, field, value) == [m EXCEPT !.at[block][field] = value]
SetUnlessNone(m, block, field, value) ==
  IF block = None THEN m ELSE Set(m, block, field, value)
Red(m, block) == block # None /\ m.at[block].red
Paint(m, reds, blacks) ==
  [m EXCEPT !.at = [b \in DOMAIN @ |->
     [@[b] EXCEPT !.red = (@ \/ b \in reds) /\ b \notin blacks]]]
Other(side) == IF side = "left" THEN "right" ELSE "left"
SideOf(m, block, parent) == IF m.at[parent].left = block THEN "left" ELSE "right"

get_block_size(m, block) ==
  (IF m.at[block].forward = None THEN Space ELSE m.at[block].forward)
    - block - occupied_block_metadata_size

TreeInit ==
  /\ Promise!HeapInit
  /\ fit \in FitModes
  /\ heap = [first |-> 0, at |-> [b \in {0} |-> Header(FALSE, None, None)]]

reset_parent_ptr(m, block, new) ==
  LET parent == m.at[block].parent
  IN IF parent = None THEN [m EXCEPT !.first = new]
     ELSE Set(m, parent, SideOf(m, block, parent), new)

\* Fault: the inner child keeps its parent.
RotateLosingInner(m, block, side) ==
  LET node == m.at[block][Other(side)]
      inner == m.at[node][side]
      m1 == reset_parent_ptr(m, block, node)
      m2 == Set(Set(m1, node, "parent", m.at[block].parent), block, "parent", node)
  IN Set(Set(m2, block, Other(side), inner), node, side, block)

\* small_left_rotation and small_right_rotation.
Rotate(m, block, side) ==
  LET node == m.at[block][Other(side)]
      inner == m.at[node][side]
      m1 == reset_parent_ptr(m, block, node)
      m2 == Set(Set(m1, node, "parent", m.at[block].parent), block, "parent", node)
      m3 == Set(Set(m2, block, Other(side), inner), node, side, block)
  IN SetUnlessNone(m3, inner, "parent", block)
-----------------------------------------------------------------------------------
RECURSIVE Place(_, _, _, _)
Place(m, block, top, parent) ==
  IF top = None THEN parent
  ELSE Place(m, block,
             IF get_block_size(m, block) < get_block_size(m, top) THEN m.at[top].left
                                                                  ELSE m.at[top].right,
             top)

\* The loop that follows an insertion.
RECURSIVE Recolour(_, _)
Recolour(m, block) ==
  LET parent == m.at[block].parent
      grand == m.at[parent].parent
      side == SideOf(m, parent, grand)
      uncle == m.at[grand][Other(side)]
  IN IF parent = None THEN Paint(m, {}, {block})
     ELSE IF grand = None \/ ~Red(m, block) \/ ~Red(m, parent) THEN m
     ELSE IF Red(m, uncle) THEN Recolour(Paint(m, {grand}, {uncle, parent}), grand)
     ELSE IF SideOf(m, block, parent) = side
          THEN Paint(Rotate(m, grand, Other(side)), {block, grand}, {parent})
          ELSE Paint(Rotate(Rotate(m, parent, side), grand, Other(side)),
                     {parent, grand}, {block})

Insert(m, block) ==
  LET parent == Place(m, block, m.first, None)
      m1 == [m EXCEPT !.at[block] =
               [@ EXCEPT !.left = None, !.right = None, !.parent = parent,
                         !.occupied = FALSE, !.red = TRUE]]
      side == IF get_block_size(m, block) < get_block_size(m, parent) THEN "left" ELSE "right"
  IN Recolour(IF parent = None THEN [m1 EXCEPT !.first = block]
                               ELSE Set(m1, parent, side, block), block)

RECURSIVE rebalance_black_leaf(_, _, _)
rebalance_black_leaf(m, parent, deleted) ==
  LET side == SideOf(m, deleted, parent)
      brother == m.at[parent][Other(side)]
      far == m.at[brother][Other(side)]
      near == m.at[brother][side]
      Take(turned, node, blacks) ==  \* node takes the parent's colour
        Paint(turned, IF m.at[parent].red THEN {node} ELSE {},
              blacks \cup IF m.at[parent].red THEN {} ELSE {node})
  IN IF parent = None
     THEN IF deleted = None THEN m ELSE Paint(m, {}, {deleted})
     ELSE IF Red(m, brother)
     THEN rebalance_black_leaf(Paint(Rotate(m, parent, side), {parent}, {brother}),
                               parent, deleted)
     ELSE IF Red(m, far)
     THEN Take(Rotate(m, parent, side), brother, {parent, far})
     ELSE IF Red(m, near)
     THEN Take(Rotate(Rotate(m, brother, Other(side)), parent, side), near, {parent})
     ELSE IF Red(m, parent)
     THEN Paint(m, {brother}, {parent})
     ELSE rebalance_black_leaf(Paint(m, {brother}, {}), m.at[parent].parent, parent)

RECURSIVE Rightmost(_, _)
Rightmost(m, node) ==
  IF m.at[node].right = None THEN node ELSE Rightmost(m, m.at[node].right)

\* A block with two children is replaced by the greatest one before it.
Replaced(m, block, node) ==
  LET left == m.at[node].left
      m1 == IF Red(m, node) \/ left = None THEN m ELSE Paint(m, {}, {left})
      m2 == reset_parent_ptr(m1, block, node)
      m3 == Set(Set(m2, node, "right", m.at[block].right), m.at[block].right, "parent", node)
      m4 == SetUnlessNone(reset_parent_ptr(m3, node, left), left, "parent", m.at[node].parent)
      m5 == Set(Set(m4, node, "left", m.at[block].left), m.at[block].left, "parent", node)
  IN [IF m.at[node].parent = block THEN m3 ELSE m5 EXCEPT
        !.at[node].red = m.at[block].red, !.at[node].parent = m.at[block].parent]

Remove(m, block) ==
  LET header == m.at[block]
      child == IF header.right # None THEN header.right ELSE header.left
      node == Rightmost(m, header.left)
      above == IF m.at[node].parent = block THEN node ELSE m.at[node].parent
  IN IF header.left = None /\ header.right = None
     THEN LET m1 == reset_parent_ptr(m, block, None)
          IN IF header.red THEN m1 ELSE rebalance_black_leaf(m1, header.parent, None)
     ELSE IF header.left = None \/ header.right = None
     THEN Set(reset_parent_ptr(IF header.red THEN m ELSE Paint(m, {}, {child}), block, child),
              child, "parent", header.parent)
     ELSE LET m1 == Replaced(m, block, node)
          IN IF Red(m, node) \/ m.at[node].left # None THEN m1
             ELSE rebalance_black_leaf(m1, above, None)
-----------------------------------------------------------------------------------
\* get_first, get_best and get_worst go down from the root; best is the last one seen that
\* was large enough.
RECURSIVE get_first(_, _, _)
get_first(m, node, n) ==
  IF node = None \/ get_block_size(m, node) >= n THEN node
  ELSE get_first(m, m.at[node].right, n)

RECURSIVE get_best(_, _, _, _)
get_best(m, node, n, best) ==
  IF node = None THEN best
  ELSE LET size == get_block_size(m, node)
       IN IF size < n THEN get_best(m, m.at[node].right, n, best)
          ELSE IF size > n THEN get_best(m, m.at[node].left, n, node)
          ELSE node

\* Fault: the first block that is large enough is taken.
get_worst_at_once(m, node, n, best) == get_first(m, node, n)

RECURSIVE get_worst(_, _, _, _)
get_worst(m, node, n, best) ==
  IF node = None THEN best
  ELSE get_worst(m, m.at[node].right, n, IF get_block_size(m, node) >= n THEN node ELSE best)

Found(m, mode, n) ==
  CASE mode = "first_fit" -> get_first(m, m.first, n)
    [] mode = "the_best_fit" -> get_best(m, m.first, n, None)
    [] mode = "the_worst_fit" -> get_worst(m, m.first, n, None)

\* The rest of a block, if there is room for a free block's header, is a new free block.
Split(m, block, n) ==
  LET rest == block + occupied_block_metadata_size + n
      next == m.at[block].forward
      m1 == [m EXCEPT !.at = Promise!Put(@, rest, Header(FALSE, block, next))]
  IN IF get_block_size(m, block) < n + free_block_metadata_size THEN m
     ELSE Insert(SetUnlessNone(Set(m1, block, "forward", rest), next, "back", rest), rest)

Allocate(n) ==
  LET block == Found(heap, fit, n)
      m1 == Remove(heap, block)
      m2 == [m1 EXCEPT !.at[block] = Header(TRUE, @.back, @.forward)]
  IN /\ block # None
     /\ heap' = Split(m2, block, n)
     /\ handed' = Promise!Put(handed, block + occupied_block_metadata_size, n)
     /\ UNCHANGED fit

BadAlloc(n) == Found(heap, fit, n) = None /\ UNCHANGED treeVars

\* block takes over the block after it.
Absorb(m, block) ==
  LET next == m.at[block].forward
      after == m.at[next].forward
      m1 == [m EXCEPT !.at = Promise!Without(@, next)]
  IN SetUnlessNone(Set(m1, block, "forward", after), after, "back", block)

IsFree(m, block) == block # None /\ ~m.at[block].occupied

Deallocate(at) ==
  LET block == at - occupied_block_metadata_size
      prev == heap.at[block].back
      start == IF IsFree(heap, prev) THEN prev ELSE block
      m1 == IF IsFree(heap, prev) THEN Absorb(Remove(heap, prev), prev) ELSE heap
      next == m1.at[start].forward
      m2 == IF IsFree(m1, next) THEN Absorb(Remove(m1, next), start) ELSE m1
  IN /\ at \in DOMAIN handed
     /\ handed' = Promise!Without(handed, at)
     /\ heap' = Insert(m2, start)
     /\ UNCHANGED fit

set_fit_mode == fit' \in FitModes /\ UNCHANGED <<handed, heap>>

TreeNext ==
  \/ \E n \in Request : Allocate(n) \/ BadAlloc(n)
  \/ \E at \in DOMAIN handed : Deallocate(at)
  \/ set_fit_mode
-----------------------------------------------------------------------------------
FreeBlocks == {b \in Blocks(heap) : ~heap.at[b].occupied}
Size(block) == get_block_size(heap, block)

\* The blocks follow one another in the list, in both directions, with no two free ones
\* beside each other.
Tiled ==
  /\ 0 \in Blocks(heap) /\ heap.at[0].back = None
  /\ \A block \in Blocks(heap) :
       LET next == heap.at[block].forward
       IN /\ Size(block) >= 0
          /\ \A other \in Blocks(heap) : ~(block < other /\ (other < next \/ next = None))
          /\ next # None => /\ next > block /\ next \in Blocks(heap)
                            /\ heap.at[next].back = block
                            /\ heap.at[block].occupied \/ heap.at[next].occupied
  /\ {p - occupied_block_metadata_size : p \in DOMAIN handed} = Blocks(heap) \ FreeBlocks

\* The blocks below a node, each once or the tree is broken.
RECURSIVE Below(_)
Below(node) ==
  IF node = None THEN {}
  ELSE {node} \cup Below(heap.at[node].left) \cup Below(heap.at[node].right)

\* The number of black nodes on every way down, or -1 if it is not the same on all.
RECURSIVE BlackHeight(_)
BlackHeight(node) ==
  IF node = None THEN 0
  ELSE LET l == BlackHeight(heap.at[node].left)
           r == BlackHeight(heap.at[node].right)
       IN IF l = -1 \/ l # r THEN -1 ELSE l + IF heap.at[node].red THEN 0 ELSE 1

\* The free blocks, and they alone, are in the tree, in the order of the sizes they have
\* now, though sizes change with the list; no red node has a red child, and all ways down
\* have as many black nodes, so that a search is logarithmic.
RedBlack ==
  /\ Below(heap.first) = FreeBlocks
  /\ BlackHeight(heap.first) # -1 /\ ~Red(heap, heap.first)
  /\ heap.first # None => heap.at[heap.first].parent = None
  /\ \A node \in FreeBlocks :
       LET left == heap.at[node].left
           right == heap.at[node].right
       IN /\ \A child \in {left, right} \ {None} :
               /\ heap.at[child].parent = node
               /\ ~(Red(heap, node) /\ Red(heap, child))
          /\ \A b \in Below(left) : Size(b) <= Size(node)
          /\ \A b \in Below(right) : Size(b) >= Size(node)

\* The walk down finds a block in every mode if any free block is large enough, and then
\* the one with the least or the greatest size in the modes that promise it.
FitFound ==
  \A n \in Request, mode \in FitModes :
    LET fits == {b \in FreeBlocks : Size(b) >= n}
        found == Found(heap, mode, n)
    IN IF fits = {} THEN found = None
       ELSE /\ found \in fits
            /\ mode = "the_best_fit" => \A b \in fits : Size(found) <= Size(b)
            /\ mode = "the_worst_fit" => \A b \in fits : Size(found) >= Size(b)
===================================================================================

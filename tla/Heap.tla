---------------------------------- MODULE Heap ----------------------------------
(***************************************************************************)
(* What allocator.h promises, for whichever allocator is behind it: an     *)
(* address for a block of the size asked for, inside the memory and apart  *)
(* from every block that is in use, or bad_alloc, which changes nothing;   *)
(* deallocate takes one block back and leaves the others.                  *)
(***************************************************************************)
EXTENDS Integers

CONSTANTS
  Space,    \* the memory an allocator was constructed with
  Request   \* sizes that are asked for

\* What is assumed of the constants.
HeapSizes == Space \in Nat /\ Request \subseteq Nat

VARIABLE handed  \* the blocks in use: the size asked for, by address

Put(f, key, value) == [x \in DOMAIN f \cup {key} |-> IF x = key THEN value ELSE f[x]]
Without(f, key) == [x \in DOMAIN f \ {key} |-> f[x]]

HeapInit == handed = [p \in {} |-> 0]

Apart(at, n, p) == at # p /\ (at + n <= p \/ p + handed[p] <= at)

Hand(at, n) ==
  /\ \A p \in DOMAIN handed : Apart(at, n, p)
  /\ handed' = Put(handed, at, n)

TakeBack(at) ==
  /\ at \in DOMAIN handed
  /\ handed' = Without(handed, at)

HeapNext ==
  \/ \E at \in DOMAIN handed : TakeBack(at)
  \/ \E n \in Request : \E at \in 0..Space - n : Hand(at, n)

HeapSpec == HeapInit /\ [][HeapNext]_handed
==================================================================================

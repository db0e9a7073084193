-------------------------------- MODULE MCBTrees --------------------------------
(* A behaviour is one of a tree in memory or of one in a file; the other tree stays *)
(* empty.  In a file either a few keys come and go in any order, or the tree grows to *)
(* three levels by keys in ascending order and then shrinks in any order.           *)
EXTENDS BTreeRange

CONSTANTS
  T,           \* the template parameter of the tree in a file
  MaxPosition, \* and its bound on positions
  FewKeys,     \* keys of a file in any order
  FewPositions,\* and its bound on positions
  MaxErasures  \* bound: keys erased from a file that has grown

VARIABLES
  which,  \* the tree of this behaviour
  file, header, pending, buffered, count, loop, path, turn, keys, before

File == INSTANCE BTreeFile WITH work <- loop, contents <- keys
fileVars == <<file, header, pending, buffered, count, loop, path, turn, keys, before>>

ASSUME MCAssumption == BTreeParameters /\ File!FileParameters /\ T \in Degree

UpTo10 == 1..10
UpTo5 == 1..5

MCInit ==
  /\ BTreeInit /\ File!FileInit
  /\ \/ which = "memory"
     \/ which \in {"file", "growing file"} /\ t = T

Few ==
  /\ keys' \subseteq FewKeys
  /\ keys' \subseteq keys \/ File!Extent + Len(path') + 1 <= FewPositions
Grows == keys' \subseteq Key /\ keys' \in {1..Cardinality(keys), 1..Cardinality(keys) + 1}
Shrinks == keys' \subseteq keys /\ Cardinality(keys') >= Cardinality(Key) - MaxErasures

MCNext ==
  \/ which = "memory" /\ BTreeNext /\ UNCHANGED <<which, fileVars>>
  \/ which = "file" /\ File!FileNext /\ Few /\ UNCHANGED <<which, treeVars>>
  \/ /\ which = "growing file" /\ File!FileNext /\ Grows
     /\ which' = IF keys' = Key THEN "shrinking file" ELSE which
     /\ UNCHANGED treeVars
  \/ /\ which = "shrinking file" /\ File!FileNext /\ Shrinks
     /\ UNCHANGED <<which, treeVars>>

MCSpec == MCInit /\ [][MCNext]_<<which, treeVars, fileVars>>

\* find_range is exact if the upper bound is a key or belongs where the lower one does,
\* and the lower one is a key or the range does not hold just one key; in a file, if both
\* bounds lie in one node.
RangesExactWhereSafe == RangeExactWhereSafe /\ File!FileRangeExactInANode

\* After every write the nodes in the file are well formed, and a process that finds them
\* after a death looks up the keys of before or after an insertion into a leaf or an
\* erasure, and never more; of the one node whose keys had not left their buffer it can
\* say nothing.
FileSurvivesDeath == File!FileTypeOK /\ File!LookupsSurviveDeath

\* The nodes in the file are the nodes of the tree in memory, step by step.
ImplementsBTree == File!ImplementsBTree
===============================================================================

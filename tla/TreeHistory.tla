------------------------------ MODULE TreeHistory ------------------------------
(***************************************************************************)
(* One B_tree of the in-memory store with its change history:              *)
(* cursal_work/server/in_memory/tree/b_tree.h.                             *)
(*                                                                         *)
(* A change pushes a time-stamped operation on _operations.  A historical  *)
(* ("persist") read holds the tree's mutex exclusively, undoes operations  *)
(* younger than the requested time one by one (revert_to), reads, and      *)
(* redoes all of them (redo_all) when its perst_helper is destroyed.  The  *)
(* shape of the B-tree is abstracted to a map; what an operation stores,   *)
(* and when it swaps its stored value with the tree's, is kept.            *)
(***************************************************************************)
EXTENDS Integers, Sequences

CONSTANTS
  Key, Val, NoVal,
  MaxTime,     \* bound on the clock
  MaxChanges   \* bound on the number of changes

ASSUME NoValAssumption == NoVal \notin Val
ASSUME BoundsAssumption == MaxTime \in Nat /\ MaxChanges \in Nat

VARIABLES
  tree,        \* the keys and values in the nodes
  operations,  \* _operations; the top of the stack is the last element
  undone,      \* _undone_operations; the top of the stack is the first element
  clock,       \* utc_clock::now(), in ticks
  phase,       \* "live", or what the reader that holds the mutex is doing
  asOf,        \* the time the reader asked for
  versions     \* history variable: the state of the tree since each change

vars == <<tree, operations, undone, clock, phase, asOf, versions>>

Map == [Key -> Val \cup {NoVal}]
EmptyMap == [k \in Key |-> NoVal]
Operation == [time : Nat, kind : {"insert", "update", "remove"}, key : Key, val : Val]
Version == [since : Nat, map : Map]

Phases == {"live", "reverting", "reading", "redoing"}

Top(stack) == stack[Len(stack)]
Pop(stack) == SubSeq(stack, 1, Len(stack) - 1)

-------------------------------------------------------------------------------
(* The three operation classes.  UndoTree and RedoTree give the tree after   *)
(* the step, UndoSaved and RedoSaved the operation, whose stored value the    *)
(* step may have replaced.  The update operation exchanges its value with the *)
(* tree's; the insert operation saves the tree's value when it is undone.     *)

Exists(k) == tree[k] # NoVal

UndoTree(op) ==
  [tree EXCEPT ![op.key] =
    CASE op.kind = "insert" -> NoVal
      [] op.kind = "update" -> op.val
      [] op.kind = "remove" -> IF Exists(op.key) THEN @ ELSE op.val]

\* Fault (it replaces the definition after it in a mutation run): an insertion and an
\* update keep their own value.
UndoSavedWithoutSwap(op) == op

UndoSaved(op) ==
  IF op.kind = "remove" THEN op ELSE [op EXCEPT !.val = tree[op.key]]

RedoTree(op) ==
  [tree EXCEPT ![op.key] =
    CASE op.kind = "insert" -> IF Exists(op.key) THEN @ ELSE op.val
      [] op.kind = "update" -> op.val
      [] op.kind = "remove" -> NoVal]

RedoSaved(op) ==
  IF op.kind = "update" THEN [op EXCEPT !.val = tree[op.key]] ELSE op

\* at() throws when the key is missing.
UndoThrows(op) == op.kind # "remove" /\ ~Exists(op.key)
RedoThrows(op) == op.kind = "update" /\ ~Exists(op.key)

-------------------------------------------------------------------------------

Init ==
  /\ tree = EmptyMap
  /\ operations = <<>>
  /\ undone = <<>>
  /\ clock = 0
  /\ phase = "live"
  /\ asOf = 0
  /\ versions = <<[since |-> 0, map |-> EmptyMap]>>

Tick ==
  /\ clock < MaxTime
  /\ clock' = clock + 1
  /\ UNCHANGED <<tree, operations, undone, phase, asOf, versions>>

\* A writer holds the mutex exclusively for the whole change: it never runs
\* while a reader has operations undone.
Push(kind, k, stored) ==
  operations' = Append(operations, [time |-> clock, kind |-> kind, key |-> k, val |-> stored])

Commit(k, w) ==
  /\ phase = "live"
  /\ Len(versions) <= MaxChanges
  /\ tree' = [tree EXCEPT ![k] = w]
  /\ versions' = Append(versions, [since |-> clock, map |-> tree'])
  /\ UNCHANGED <<undone, clock, phase, asOf>>

Insert(k, v) ==
  /\ ~Exists(k)
  /\ Push("insert", k, v)
  /\ Commit(k, v)

\* Fault: the operation stores the value that is written.
UpdateStoringNew(k, v) ==
  /\ Exists(k)
  /\ Push("update", k, v)
  /\ Commit(k, v)

Update(k, v) ==
  /\ Exists(k)
  /\ Push("update", k, tree[k])
  /\ Commit(k, v)

\* Fault: the removal is not recorded (hist = false).
EraseUnrecorded(k) ==
  /\ Exists(k)
  /\ Commit(k, NoVal)
  /\ UNCHANGED operations

Erase(k) ==
  /\ Exists(k)
  /\ Push("remove", k, tree[k])
  /\ Commit(k, NoVal)

\* perst_helper's constructor: revert_to(time) starts.
BeginRead(T) ==
  /\ phase = "live"
  /\ phase' = "reverting"
  /\ asOf' = T
  /\ UNCHANGED <<tree, operations, undone, clock, versions>>

\* Fault: the change made at the requested instant is undone too.
MustUndoInclusive == operations # <<>> /\ Top(operations).time >= asOf

MustUndo == operations # <<>> /\ Top(operations).time > asOf

\* One turn of revert_to's loop.
RevertStep ==
  /\ phase = "reverting"
  /\ MustUndo
  /\ ~UndoThrows(Top(operations))
  /\ tree' = UndoTree(Top(operations))
  /\ undone' = <<UndoSaved(Top(operations))>> \o undone
  /\ operations' = Pop(operations)
  /\ UNCHANGED <<clock, phase, asOf, versions>>

RevertDone ==
  /\ phase = "reverting"
  /\ ~MustUndo
  /\ phase' = "reading"
  /\ UNCHANGED <<tree, operations, undone, clock, asOf, versions>>

\* The lookup is over and perst_helper's destructor runs redo_all.
EndRead ==
  /\ phase = "reading"
  /\ phase' = "redoing"
  /\ UNCHANGED <<tree, operations, undone, clock, asOf, versions>>

\* One turn of redo_all's loop.
RedoStep ==
  /\ phase = "redoing"
  /\ undone # <<>>
  /\ ~RedoThrows(Head(undone))
  /\ tree' = RedoTree(Head(undone))
  /\ operations' = Append(operations, RedoSaved(Head(undone)))
  /\ undone' = Tail(undone)
  /\ UNCHANGED <<clock, phase, asOf, versions>>

\* Fault: redo_all waits for the wrong stack.
RedoDoneOnOperations ==
  /\ phase = "redoing"
  /\ operations = <<>>
  /\ phase' = "live"
  /\ UNCHANGED <<tree, operations, undone, clock, asOf, versions>>

RedoDone ==
  /\ phase = "redoing"
  /\ undone = <<>>
  /\ phase' = "live"
  /\ UNCHANGED <<tree, operations, undone, clock, asOf, versions>>

Next ==
  \/ Tick
  \/ \E k \in Key, v \in Val : Insert(k, v)
  \/ \E k \in Key, v \in Val : Update(k, v)
  \/ \E k \in Key : Erase(k)
  \/ \E T \in 0 .. MaxTime : BeginRead(T)
  \/ RevertStep
  \/ RevertDone
  \/ EndRead
  \/ RedoStep
  \/ RedoDone

Spec == Init /\ [][Next]_vars

\* A reader that holds the mutex is a running thread: its loop goes on.
FairSpec ==
  Spec /\ WF_vars(RevertStep \/ RevertDone \/ EndRead \/ RedoStep \/ RedoDone)

-------------------------------------------------------------------------------
(* Properties *)

\* The type invariant of the tree, its two stacks, the reader and the clock.
TypeOK ==
  /\ tree \in Map
  /\ operations \in Seq(Operation)
  /\ undone \in Seq(Operation)
  /\ clock \in 0 .. MaxTime
  /\ phase \in Phases
  /\ asOf \in 0 .. MaxTime
  /\ versions \in Seq(Version)

\* No undo of revert_to and no redo of redo_all meets a missing key: at() would
\* throw, out of redo_all even through a destructor, which ends the process.
ReplayNeverThrows ==
  /\ phase = "reverting" /\ MustUndo => ~UndoThrows(Top(operations))
  /\ phase = "redoing" /\ undone # <<>> => ~RedoThrows(Head(undone))

\* The refinement mapping: a read shows the tree once revert_to is done with it.
Shown == IF phase = "reading" THEN <<tree>> ELSE <<>>

Abstract == INSTANCE VersionedMap WITH Time <- 0 .. MaxTime, view <- Shown

\* The tree a historical read of time T looks at is the tree as it was at T:
\* after the last change not younger than T, however many reads came before.
HistoricalView ==
  phase = "reading" =>
    \A i \in 1 .. Len(versions) : Abstract!IsVersionAt(i, asOf) => tree = versions[i].map

\* When no reader is at work nothing is left undone and the tree holds the
\* outcome of every change: a historical read changes nothing for the others.
ReadLeavesNoTrace ==
  phase = "live" => undone = <<>> /\ tree = versions[Len(versions)].map

-------------------------------------------------------------------------------
(* The inductive invariant.  Read bottom up, _operations followed by          *)
(* _undone_operations is the whole history; the tree stands between the two,  *)
(* and each operation stores what is needed to cross it in the direction that *)
(* is still to be taken.                                                      *)

Done(op, before, after) ==
  /\ op.kind = "insert" => before[op.key] = NoVal
  /\ op.kind # "insert" => before[op.key] = op.val
  /\ op.kind = "remove" <=> after[op.key] = NoVal

Undone(op, before, after) ==
  /\ op.kind = "insert" <=> before[op.key] = NoVal
  /\ op.kind = "remove" => before[op.key] = op.val /\ after[op.key] = NoVal
  /\ op.kind # "remove" => after[op.key] = op.val

\* op leads from version i to version i + 1.
Crosses(op, i) ==
  /\ op.time = versions[i + 1].since
  /\ versions[i + 1].map =
       [versions[i].map EXCEPT ![op.key] = versions[i + 1].map[op.key]]

Here == Len(operations) + 1

StacksCoverVersions ==
  /\ Len(versions) = Len(operations) + Len(undone) + 1
  /\ tree = versions[Here].map
  /\ \A i \in 1 .. Len(operations) :
       /\ Crosses(operations[i], i)
       /\ Done(operations[i], versions[i].map, versions[i + 1].map)
  /\ \A j \in 1 .. Len(undone) :
       /\ Crosses(undone[j], Here + j - 1)
       /\ Undone(undone[j], versions[Here + j - 1].map, versions[Here + j].map)

VersionsInOrder ==
  /\ versions[1].since = 0
  /\ \A i, j \in 1 .. Len(versions) : i < j => versions[i].since <= versions[j].since
  /\ \A i \in 1 .. Len(versions) : versions[i].since <= clock

PhaseMatchesStacks ==
  /\ phase = "live" => undone = <<>>
  /\ phase # "live" => \A j \in 1 .. Len(undone) : undone[j].time > asOf
  /\ phase = "reading" => ~MustUndo

\* Whatever the interleaving of changes and reads, the two stacks together stay
\* a faithful journal of every version of the tree.
HistoryInv ==
  TypeOK /\ StacksCoverVersions /\ VersionsInOrder /\ PhaseMatchesStacks

-------------------------------------------------------------------------------
(* Refinement and liveness *)

\* The tree with its undo and redo stacks behaves as a multi-version map: every
\* change makes one version, every read shows exactly the version of its time.
ImplementsVersionedMap == Abstract!Spec

\* revert_to and redo_all terminate: a reader that took the mutex gives the
\* tree back to the writers.
ReadEnds == (phase = "reverting") ~> (phase = "live")
===============================================================================

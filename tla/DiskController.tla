----------------------------- MODULE DiskController -----------------------------
(***************************************************************************)
(* disk_controller: the database kept as directories (pools, schemes) and  *)
(* files (collections) under _root.  Every request is a task on a thread   *)
(* of its own (boost::async).  A task takes lock_helpers from the root     *)
(* down, checks after each that the next directory exists, acts, records   *)
(* the change on the _history stack, gives the locks back from the last to *)
(* the first, and its continuation leaves the answer in _request_result,   *)
(* where get finds it and takes it away.                                   *)
(*                                                                         *)
(* A removed directory or collection is moved to _bucket under the index   *)
(* of its history entry.  A read with need_persist takes the root alone,   *)
(* undoes every entry after the requested time, looks, and redoes them.    *)
(* A read of a range whose bounds are in the wrong order throws in its     *)
(* task and again in the continuation: it ends without an answer.          *)
(*                                                                         *)
(* A collection is abstracted to its map from keys to values and to the    *)
(* number of node records in its file: B_tree_disk hands out positions of  *)
(* new nodes from one static counter, shared by all open trees and reset   *)
(* by each tree that is opened.  read_value and read_range have the same   *)
(* control and are one request here; one that names no key is a read_range *)
(* with its bounds in the wrong order.                                     *)
(*                                                                         *)
(* The lock_helpers, opened and held, are those of PathLocks: a Task is    *)
(* one request, served once on its own thread.                             *)
(***************************************************************************)
EXTENDS PathLocks, Database

CONSTANTS
  Base,        \* what the controller finds on the disk when it starts
  MaxNodes,    \* bound: node records in one file
  MaxBusy      \* bound: requests being served at once

VARIABLES
  root,          \* what is under _root: path -> [data, nodes]
  bucket,        \* what is under _bucket: index -> the subtree moved there
  history,       \* _history, top last
  undone,        \* _undone_history, top last
  nextIndex,     \* the next index of _index_gen
  countOfNode,   \* B_tree_disk::_count_of_node
  pc,            \* where each task is
  request,       \* its parameters
  saved,         \* its locals: the index it drew, the value it removed
  answer,        \* what it is about to answer
  results,       \* _request_result: finished task -> answer
  versions       \* ghost: the data the controller found when it started, and what
                 \* each change recorded since has made of them, oldest first

vars == <<opened, held, root, bucket, history, undone, nextIndex, countOfNode,
          pc, request, saved, answer, results, versions>>
storeVars == <<root, bucket>>
historyVars == <<history, undone, nextIndex, versions>>
taskVars == <<request, saved, answer, results>>

\* What can be locked: the root and everything below it.
ASSUME LockPathAssumption == LockPath = Path \cup {<<>>}

\* Paths are sequences of names.
Name == UNION {Range(p) : p \in Path}
ASSUME NameAssumption == Path \subseteq Seq(Name) \ {<<>>}

-------------------------------------------------------------------------------
(* Data *)

Directory == [data |-> NoData, nodes |-> 0]
\* A new file has its header and an empty root node.
EmptyCollection == [data |-> NoData, nodes |-> 2]
Content == [data : [Key -> Val \cup {NoVal}], nodes : 0..MaxNodes]

\* The file system holds what is below a directory only in that directory.
ASSUME BaseAssumption ==
  /\ DOMAIN Base \subseteq Path /\ \A p \in DOMAIN Base : Base[p] \in Content
  /\ \A q \in DOMAIN Base, p \in Path : IsPrefix(p, q) => p \in DOMAIN Base
ASSUME BoundsAssumption == MaxNodes \in Nat \ {0, 1} /\ MaxBusy \in Nat \ {0}

\* A request for a pool, a scheme or a collection names it from the pool down; one
\* for data names a collection; a change of data names the key, and insert and update
\* bring a value.
ASSUME CollectionRequestAssumption ==
  \A r \in Request :
    /\ r.op \in DirOps => Len(r.path) = Depth(r.op)
    /\ r.op \in DataOps \cup {"read"} => Len(r.path) = 3
    /\ r.op \in DataOps => r.key \in Key
    /\ r.op \in {"insert", "update"} => r.val \in Val

\* read_range with its upper bound below its lower one.
Reversed(r) == r.op \in ReadOps /\ r.key \notin Key

Entry == [op : DirOps \cup DataOps, path : Path, index : Nat,
          key : Key \cup {NoVal}, val : Val \cup {NoVal}, time : Nat]

DataOf(store) == [p \in DOMAIN store |-> store[p].data]

ParentExists(p) == Len(p) = 1 \/ Parent(p) \in DOMAIN root

-------------------------------------------------------------------------------
(* The file system: remove_dir, and rename back from the bucket. *)

MoveToBucket(p, i) ==
  /\ bucket' = With(bucket, i, Restrict(root, Below(root, p)))
  /\ root' = Without(root, p)

MoveBack(i) ==
  LET moved == bucket[i] IN
  /\ root' = [p \in DOMAIN moved \cup DOMAIN root |->
                IF p \in DOMAIN moved THEN moved[p] ELSE root[p]]
  /\ bucket' = Restrict(bucket, DOMAIN bucket \ {i})

SetValue(p, k, v) == root' = [root EXCEPT ![p].data[k] = v]

\* Insertion into a tree whose counter stands at c.  A full leaf splits into one
\* new node, a full root into two, and whether it does is left open; splits that
\* climb higher draw more positions in the same way.
InsertValue(p, k, v, c) ==
  \E grown \in 0..2 :
    LET nodes == IF c + grown > root[p].nodes /\ grown > 0 THEN c + grown ELSE root[p].nodes IN
    /\ nodes <= MaxNodes
    /\ countOfNode' = c + grown
    /\ root' = [root EXCEPT ![p] = [data |-> [@.data EXCEPT ![k] = v], nodes |-> nodes]]

\* What deserialize does to the counter, ++ and -- without synchronisation:
\* nothing when it runs alone, one more or one less when another does it too.
Drift(t) ==
  countOfNode' \in
    IF \E u \in Task \ {t} : pc[u] = "opened" /\ countOfNode > 0
    THEN (countOfNode - 1)..(countOfNode + 1) ELSE {countOfNode}

-------------------------------------------------------------------------------
(* Undo and redo of one history entry. *)

\* Whether the calls undo makes can succeed: rename finds what it moves and
\* where it moves it, erase, update and at find the key.
Undoable(e) ==
  \/ /\ e.op \in AddOps
     /\ e.path \in DOMAIN root /\ e.index \notin DOMAIN bucket
  \/ /\ e.op \in RemoveOps
     /\ e.index \in DOMAIN bucket /\ e.path \notin DOMAIN root /\ ParentExists(e.path)
  \/ /\ e.op \in DataOps
     /\ e.path \in DOMAIN root
     /\ root[e.path].data[e.key] = NoVal <=> e.op = "remove"

Redoable(e) ==
  \/ /\ e.op \in RemoveOps
     /\ e.path \in DOMAIN root /\ e.index \notin DOMAIN bucket
  \/ /\ e.op \in AddOps
     /\ e.index \in DOMAIN bucket /\ e.path \notin DOMAIN root /\ ParentExists(e.path)
  \/ /\ e.op \in DataOps
     /\ e.path \in DOMAIN root
     /\ root[e.path].data[e.key] = NoVal <=> e.op = "insert"

\* Undo and redo of an update exchange the stored value with the tree's.
Exchanged(e) ==
  IF e.op = "update" THEN [e EXCEPT !.val = root[e.path].data[e.key]] ELSE e

Undo(e) ==
  \/ /\ e.op \in AddOps
     /\ MoveToBucket(e.path, e.index)
     /\ UNCHANGED countOfNode
  \/ /\ e.op \in RemoveOps
     /\ MoveBack(e.index)
     /\ UNCHANGED countOfNode
  \/ /\ e.op = "insert"
     /\ SetValue(e.path, e.key, NoVal)
     /\ countOfNode' = root[e.path].nodes
     /\ UNCHANGED bucket
  \/ /\ e.op = "update"
     /\ SetValue(e.path, e.key, e.val)
     /\ countOfNode' = root[e.path].nodes
     /\ UNCHANGED bucket
  \/ /\ e.op = "remove"
     /\ InsertValue(e.path, e.key, e.val, root[e.path].nodes)
     /\ UNCHANGED bucket

Redo(e) ==
  \/ /\ e.op \in RemoveOps
     /\ MoveToBucket(e.path, e.index)
     /\ UNCHANGED countOfNode
  \/ /\ e.op \in AddOps
     /\ MoveBack(e.index)
     /\ UNCHANGED countOfNode
  \/ /\ e.op = "remove"
     /\ SetValue(e.path, e.key, NoVal)
     /\ countOfNode' = root[e.path].nodes
     /\ UNCHANGED bucket
  \/ /\ e.op = "update"
     /\ SetValue(e.path, e.key, e.val)
     /\ countOfNode' = root[e.path].nodes
     /\ UNCHANGED bucket
  \/ /\ e.op = "insert"
     /\ InsertValue(e.path, e.key, e.val, root[e.path].nodes)
     /\ UNCHANGED bucket

-------------------------------------------------------------------------------
(* What the recorded changes say the database should hold. *)

Changes == Len(versions) - 1
\* The database after the first n changes.
AsOf(n) == versions[n + 1]
Current == AsOf(Changes)

-------------------------------------------------------------------------------
(* Tasks. *)

Init ==
  /\ LockInit
  /\ root = Base /\ versions = <<DataOf(Base)>>
  /\ bucket = [i \in {} |-> Base]
  /\ history = <<>> /\ undone = <<>>
  /\ nextIndex = 0 /\ countOfNode = 0
  /\ pc = [t \in Task |-> "new"]
  /\ request = [t \in Task |-> CHOOSE r \in Request : TRUE]
  /\ saved = [t \in Task |-> [index |-> 0, val |-> NoVal]]
  /\ answer = [t \in Task |-> "none"]
  /\ results = [t \in {} |-> "none"]

Labels == {"new", "lock", "check", "act", "opened", "log", "revert", "look", "redo",
           "unlock", "publish", "finished", "lost"}
Goto(t, label) == pc' = [pc EXCEPT ![t] = label]
Answer(t, message) == answer' = [answer EXCEPT ![t] = message]

\* What a request locks can be locked.
ASSUME PathAssumption ==
  \A r \in Request : \A n \in 1..Depth(r.op) : SubSeq(r.path, 1, n - 1) \in LockPath

\* Faults: insert shares the root; writers share the collection; directory
\* operations and insert share everything.
UniqueLockAtLeafOnly(op, n) == n = Depth(op) /\ op # "read"
UniqueLockAtRootOnly(op, n) == n = 1 /\ op \notin {"update", "remove", "read"}
UniqueLockForReadAtOnly(op, n) == op = "read_at" \/ (op \in {"update", "remove"} /\ n = 4)

\* Which of them are unique.
UniqueLock(op, n) ==
  \/ n = 1 /\ op \notin {"update", "remove", "read"}
  \/ n = Depth(op) /\ op # "read"

\* The client sends the request and the controller starts its task.
Start(t) ==
  /\ pc[t] = "new"
  /\ Cardinality({u \in Task : pc[u] \notin {"new", "finished", "lost"}}) < MaxBusy
  /\ \E r \in Request : request' = [request EXCEPT ![t] = r]
  /\ Goto(t, "lock")
  /\ UNCHANGED <<opened, held, countOfNode, saved, answer, results>>
  /\ UNCHANGED storeVars /\ UNCHANGED historyVars

TakeLock(t) ==
  LET op == request[t].op
      n == Len(held[t]) + 1
  IN
  /\ pc[t] = "lock"
  /\ Lock(t, SubSeq(request[t].path, 1, n - 1), UniqueLock(op, n))
  /\ Goto(t, IF n < Depth(op) THEN "check" ELSE IF op = "read_at" THEN "revert" ELSE "act")
  /\ UNCHANGED countOfNode
  /\ UNCHANGED storeVars /\ UNCHANGED historyVars /\ UNCHANGED taskVars

\* "Pool does not exist", "Scheme does not exist", "Collection does not exist".
CheckPath(t) ==
  /\ pc[t] = "check"
  /\ IF SubSeq(request[t].path, 1, Len(held[t])) \in DOMAIN root
     THEN Goto(t, "lock") /\ UNCHANGED answer
     ELSE Goto(t, "unlock") /\ Answer(t, "missing")
  /\ UNCHANGED <<opened, held, countOfNode, request, saved, results>>
  /\ UNCHANGED storeVars /\ UNCHANGED historyVars

\* Common to the operations: task t runs op and has all its locks.
Acting(t, op) == pc[t] = "act" /\ request[t].op = op
Refuse(t) ==
  /\ Goto(t, "unlock") /\ Answer(t, "refused")
  /\ UNCHANGED <<root, bucket, nextIndex, saved>>

\* create_directory, or the constructor of B_tree_disk on a new file.
Create(t, content) ==
  LET p == request[t].path IN
  IF p \in DOMAIN root
  THEN Refuse(t) /\ UNCHANGED countOfNode
  ELSE /\ root' = With(root, p, content)
       /\ countOfNode' = IF content = Directory THEN countOfNode ELSE content.nodes
       /\ Goto(t, "log")
       /\ UNCHANGED <<bucket, nextIndex, saved, answer>>

\* remove_dir under an index drawn for it.
Discard(t) ==
  LET p == request[t].path IN
  IF p \in DOMAIN root
  THEN /\ MoveToBucket(p, nextIndex)
       /\ saved' = [saved EXCEPT ![t].index = nextIndex]
       /\ nextIndex' = nextIndex + 1
       /\ Goto(t, "log")
       /\ UNCHANGED <<countOfNode, answer>>
  ELSE Refuse(t) /\ UNCHANGED countOfNode

ActFrame == UNCHANGED <<opened, held, history, undone, versions, request, results>>

AddPool(t) == Acting(t, "add_pool") /\ Create(t, Directory) /\ ActFrame
AddScheme(t) == Acting(t, "add_scheme") /\ Create(t, Directory) /\ ActFrame
AddCollection(t) == Acting(t, "add_collection") /\ Create(t, EmptyCollection) /\ ActFrame
RemovePool(t) == Acting(t, "remove_pool") /\ Discard(t) /\ ActFrame
RemoveScheme(t) == Acting(t, "remove_scheme") /\ Discard(t) /\ ActFrame
RemoveCollection(t) == Acting(t, "remove_collection") /\ Discard(t) /\ ActFrame

-------------------------------------------------------------------------------
(* Operations on the data of a collection open its tree first. *)

OpenTree(t) ==
  /\ pc[t] = "act"
  /\ request[t].op \in DataOps \cup {"read"}
  /\ countOfNode' = root[request[t].path].nodes
  /\ Goto(t, "opened")
  /\ UNCHANGED <<opened, held>>
  /\ UNCHANGED storeVars /\ UNCHANGED historyVars /\ UNCHANGED taskVars

Working(t, op) == pc[t] = "opened" /\ request[t].op = op
Stored(t) == root[request[t].path].data[request[t].key]

Insert(t) ==
  /\ Working(t, "insert")
  /\ IF Stored(t) # NoVal
     THEN Refuse(t) /\ UNCHANGED countOfNode
     ELSE /\ InsertValue(request[t].path, request[t].key, request[t].val, countOfNode)
          /\ Goto(t, "log")
          /\ UNCHANGED <<bucket, nextIndex, saved, answer>>
  /\ ActFrame

Update(t) ==
  /\ Working(t, "update")
  /\ Drift(t)
  /\ IF Stored(t) = NoVal
     THEN Refuse(t)
     ELSE /\ SetValue(request[t].path, request[t].key, request[t].val)
          /\ Goto(t, "log")
          /\ UNCHANGED <<bucket, nextIndex, saved, answer>>
  /\ ActFrame

RemoveKey(t) ==
  /\ Working(t, "remove")
  /\ Drift(t)
  /\ IF Stored(t) = NoVal
     THEN Refuse(t)
     ELSE /\ saved' = [saved EXCEPT ![t].val = Stored(t)]
          /\ SetValue(request[t].path, request[t].key, NoVal)
          /\ Goto(t, "log")
          /\ UNCHANGED <<bucket, nextIndex, answer>>
  /\ ActFrame

\* What the search of the open tree brings: find_range throws at once, before it
\* reads a node, when its bounds are in the wrong order.
Found(t) ==
  IF Reversed(request[t]) THEN "thrown"
  ELSE IF Stored(t) = NoVal THEN "missing" ELSE Stored(t)

Read(t) ==
  /\ Working(t, "read")
  /\ Answer(t, Found(t))
  /\ IF Reversed(request[t]) THEN UNCHANGED countOfNode ELSE Drift(t)
  /\ Goto(t, "unlock")
  /\ UNCHANGED <<root, bucket, nextIndex, saved>>
  /\ ActFrame

-------------------------------------------------------------------------------
(* The push on _history. *)

\* Fault: remove keeps the value of the request, which has none.
LoggedValRequested(t) == request[t].val

\* What the operation object keeps: the requested value for insert and update,
\* the old one for remove.
LoggedVal(t) == IF request[t].op = "remove" THEN saved[t].val ELSE request[t].val

\* Fault: a removal draws a second index for its history entry.
LoggedIndexAnew(t) == nextIndex
DrawsAnew(op) == op \notin RemoveOps

\* A removal uses the index it moved its directory under; the others draw one.
LoggedIndex(t) == IF DrawsAnew(request[t].op) THEN nextIndex ELSE saved[t].index

Log(t) ==
  LET r == request[t] IN
  /\ pc[t] = "log"
  /\ history' = Append(history,
       [op |-> r.op, path |-> r.path, index |-> LoggedIndex(t), key |-> r.key,
        val |-> LoggedVal(t), time |-> Len(versions)])
  /\ versions' = Append(versions, Changed(Current, ChangeOf(r)))
  /\ nextIndex' = IF DrawsAnew(r.op) THEN nextIndex + 1 ELSE nextIndex
  /\ Goto(t, "unlock") /\ Answer(t, "done")
  /\ UNCHANGED <<opened, held, undone, countOfNode, request, saved, results>>
  /\ UNCHANGED storeVars

-------------------------------------------------------------------------------
(* A read with need_persist: revert_helper's constructor, the read, and its  *)
(* destructor.                                                               *)

MustUndoInclusive(t) == history # <<>> /\ Last(history).time >= request[t].time
MustUndo(t) == history # <<>> /\ Last(history).time > request[t].time

RevertStep(t) ==
  LET e == Last(history) IN
  /\ pc[t] = "revert" /\ MustUndo(t)
  /\ Undoable(e) /\ Undo(e)
  /\ history' = Front(history)
  /\ undone' = Append(undone, Exchanged(e))
  /\ UNCHANGED <<opened, held, nextIndex, versions, pc>>
  /\ UNCHANGED taskVars

RevertDone(t) ==
  /\ pc[t] = "revert" /\ ~MustUndo(t)
  /\ Goto(t, "look")
  /\ UNCHANGED <<opened, held, countOfNode>>
  /\ UNCHANGED storeVars /\ UNCHANGED historyVars /\ UNCHANGED taskVars

\* The three existence checks need no further locks here.  An exception leaves
\* through revert_helper's destructor, as an answer does.
Look(t) ==
  LET p == request[t].path IN
  /\ pc[t] = "look"
  /\ Answer(t, IF p \notin DOMAIN root THEN "missing" ELSE Found(t))
  /\ countOfNode' = IF p \in DOMAIN root THEN root[p].nodes ELSE countOfNode
  /\ Goto(t, "redo")
  /\ UNCHANGED <<opened, held, request, saved, results>>
  /\ UNCHANGED storeVars /\ UNCHANGED historyVars

RedoStep(t) ==
  LET e == Last(undone) IN
  /\ pc[t] = "redo" /\ undone # <<>>
  /\ Redoable(e) /\ Redo(e)
  /\ undone' = Front(undone)
  /\ history' = Append(history, Exchanged(e))
  /\ UNCHANGED <<opened, held, nextIndex, versions, pc>>
  /\ UNCHANGED taskVars

\* Fault: one entry is redone at most.
RedoDoneAfterOne(t) ==
  /\ pc[t] = "redo" /\ (undone = <<>> \/ Len(history) > request[t].time)
  /\ Goto(t, "unlock")
  /\ UNCHANGED <<opened, held, countOfNode>>
  /\ UNCHANGED storeVars /\ UNCHANGED historyVars /\ UNCHANGED taskVars

RedoDone(t) ==
  /\ pc[t] = "redo" /\ undone = <<>>
  /\ Goto(t, "unlock")
  /\ UNCHANGED <<opened, held, countOfNode>>
  /\ UNCHANGED storeVars /\ UNCHANGED historyVars /\ UNCHANGED taskVars

-------------------------------------------------------------------------------

\* Fault: a refused request gives back one lock only.
ReleaseLockOnce(t) ==
  /\ pc[t] = "unlock"
  /\ Unlock(t)
  /\ Goto(t, IF Len(held[t]) = 1 \/ answer[t] = "refused" THEN "publish" ELSE "unlock")
  /\ UNCHANGED countOfNode
  /\ UNCHANGED storeVars /\ UNCHANGED historyVars /\ UNCHANGED taskVars

\* The destructors of the lock_helpers, innermost first.
ReleaseLock(t) ==
  /\ pc[t] = "unlock"
  /\ Unlock(t)
  /\ Goto(t, IF Len(held[t]) = 1 THEN "publish" ELSE "unlock")
  /\ UNCHANGED countOfNode
  /\ UNCHANGED storeVars /\ UNCHANGED historyVars /\ UNCHANGED taskVars

\* Fault: only a success reaches the map.
PublishDone(t) ==
  /\ pc[t] = "publish"
  /\ results' = IF answer[t] = "done" THEN (t :> answer[t]) @@ results ELSE results
  /\ Goto(t, "finished")
  /\ UNCHANGED <<opened, held, countOfNode, request, saved, answer>>
  /\ UNCHANGED storeVars /\ UNCHANGED historyVars

\* The continuation, under _map_mut: fut.get() throws what the task threw, and
\* nothing is inserted.
Publish(t) ==
  /\ pc[t] = "publish"
  /\ results' = IF answer[t] = "thrown" THEN results ELSE (t :> answer[t]) @@ results
  /\ Goto(t, "finished")
  /\ UNCHANGED <<opened, held, countOfNode, request, saved, answer>>
  /\ UNCHANGED storeVars /\ UNCHANGED historyVars

\* The client's successful get of the answer: it is given out once.
Get(t) ==
  /\ t \in DOMAIN results
  /\ results' = Restrict(results, DOMAIN results \ {t})
  /\ UNCHANGED <<opened, held, countOfNode, pc, request, saved, answer>>
  /\ UNCHANGED storeVars /\ UNCHANGED historyVars

\* All requests of the run are served: a bound of the model, not a deadlock.
Finished ==
  /\ \A t \in Task : pc[t] \in {"finished", "lost"} /\ t \notin DOMAIN results
  /\ UNCHANGED vars

TaskStep(t) ==
  \/ TakeLock(t) \/ CheckPath(t)
  \/ AddPool(t) \/ RemovePool(t)
  \/ AddScheme(t) \/ RemoveScheme(t)
  \/ AddCollection(t) \/ RemoveCollection(t)
  \/ OpenTree(t)
  \/ Insert(t) \/ Update(t) \/ RemoveKey(t) \/ Read(t)
  \/ Log(t)
  \/ RevertStep(t) \/ RevertDone(t) \/ Look(t) \/ RedoStep(t) \/ RedoDone(t)
  \/ ReleaseLock(t)
  \/ Publish(t)

Next == (\E t \in Task : Start(t) \/ TaskStep(t) \/ Get(t)) \/ Finished

Spec == Init /\ [][Next]_vars

\* Every started task is a thread the system goes on running.  Clients need not
\* send anything, nor ask for their answers.
FairSpec == Spec /\ \A t \in Task : WF_vars(TaskStep(t))

-------------------------------------------------------------------------------
(* Properties *)

\* The version a read of the past asks for.
Requested(t) == IF request[t].time < Changes THEN request[t].time ELSE Changes

TypeOK ==
  /\ LockTypeOK
  /\ DOMAIN root \subseteq Path /\ \A p \in DOMAIN root : root[p] \in Content
  /\ \A i \in DOMAIN bucket : DOMAIN bucket[i] \subseteq Path
  /\ \A i \in DOMAIN history : history[i] \in Entry
  /\ \A i \in DOMAIN undone : undone[i] \in Entry
  /\ \A i \in DOMAIN history : history[i].op \in DataOps => history[i].val \in Val
  /\ nextIndex \in Nat /\ countOfNode \in Nat
  /\ request \in [Task -> RequestType]
  /\ pc \in [Task -> Labels]

\* A directory a task has found stays while the task goes on below it: every
\* exists() that let it pass is still true when the task acts on the path.
CheckedPathStays ==
  \A t \in Task :
    /\ pc[t] \in {"lock", "check", "act", "opened"} /\ request[t].op # "read_at"
    => \A n \in 1..(Len(held[t]) - (IF pc[t] = "check" THEN 1 ELSE 0)) :
         n < Depth(request[t].op) => SubSeq(request[t].path, 1, n) \in DOMAIN root

\* A tree about to insert owns the static node counter: no tree opened since
\* has reset it, so that the nodes of a split go to free positions of the file.
CounterIsOwn ==
  \A t \in Task :
    pc[t] = "opened" /\ request[t].op = "insert" => countOfNode = root[request[t].path].nodes

\* A read at the present sees a collection as the recorded changes left it,
\* never a value of a writer that has yet to record it.
ReadsAreRecorded ==
  \A t \in Task :
    pc[t] = "opened" /\ request[t].op = "read"
    => root[request[t].path].data = Current[request[t].path]

\* Whatever has been undone and redone meanwhile: when nobody holds a lock the
\* database is what the recorded changes make of the initial one.
QuietIsCurrent ==
  (\A t \in Task : held[t] = <<>>) => DataOf(root) = Current

\* revert_to and redo_all throw nowhere: the entry on top can be undone, or
\* redone, where it stands.
ReplayNeverFails ==
  \A t \in Task :
    /\ pc[t] = "revert" /\ MustUndo(t) => Undoable(Last(history))
    /\ pc[t] = "redo" /\ undone # <<>> => Redoable(Last(undone))

\* A read with need_persist looks at the pools, schemes, collections and keys
\* that existed at the requested time.
HistoricalShape ==
  \A t \in Task : pc[t] = "look" => Shape(DataOf(root)) = Shape(AsOf(Requested(t)))

\* ... and at their values.
HistoricalValues ==
  \A t \in Task : pc[t] = "look" => DataOf(root) = AsOf(Requested(t))

\* The lock_helpers that are in scope at each point of a task's function.
InScope(t, label) ==
  LET n == Len(held[t])
      op == request[t].op
  IN
  /\ label \in {"new", "publish", "finished", "lost"} => n = 0
  /\ label = "lock" => n < Depth(op)
  /\ label = "check" => n > 0 /\ n < Depth(op)
  /\ label \in {"act", "opened", "log"} => n = Depth(op) /\ op # "read_at"
  /\ label \in {"revert", "look", "redo"} => n = 1 /\ op = "read_at"
  /\ label = "unlock" => n > 0
  /\ n > 0 => held[t][1] = [path |-> <<>>, unique |-> UniqueLock(op, 1)]

\* A task holds the locks that are in scope where it is, the root's outermost
\* and in the mode of its operation, whichever return it takes: it never acts
\* with fewer, and never answers with any left.
HeldAsScoped == \A t \in Task : InScope(t, pc[t])

\* Every request that is started gets its answer into _request_result; a range
\* with its bounds in the wrong order may end without one, all its locks given
\* back, so that the others are answered.
EveryRequestAnswered ==
  \A t \in Task :
    pc[t] = "lock" ~>
      \/ t \in DOMAIN results
      \/ pc[t] = "finished" /\ held[t] = <<>> /\ Reversed(request[t])
===============================================================================

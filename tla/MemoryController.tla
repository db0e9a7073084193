---------------------------- MODULE MemoryController ----------------------------
(***************************************************************************)
(* memory_controller: the database kept as trees in trees.  Every request  *)
(* is a task on a thread of its own.  A task takes the shared_mutex of the *)
(* root, looks up the pool, takes the pool's mutex, and so on down to the  *)
(* tree it is about, in which it acts; the last mutex is unique, unless    *)
(* the task only reads.  The mutexes given back, a continuation leaves the *)
(* answer in _request_result.                                              *)
(*                                                                         *)
(* The mutexes live in the trees they protect, and the trees live in the   *)
(* vectors of others (TreesInTrees): a task may wait for or hold only the  *)
(* mutex of a tree that nobody moves or destroys meanwhile.                *)
(*                                                                         *)
(* Looking a name up is covered by the mutex just taken and is one step    *)
(* with it.  A read of the past (need_persist) holds the root uniquely for *)
(* all its work, which is one step: the mutexes below are then free.       *)
(***************************************************************************)
EXTENDS TreesInTrees

CONSTANTS
  Task,     \* requests, each on a thread of its own
  Before,   \* the changes made before the first of them
  MaxBusy   \* bound: requests being served at once

VARIABLES
  root,     \* _root
  depth,    \* how many mutexes each task holds, from the root's down
  pc,       \* where each task is
  request,  \* its parameters
  answer,   \* what it is about to answer
  results,  \* _request_result: finished task -> answer
  journal,  \* ghost: every change since the controller was made, oldest first
  deepRead  \* ghost: a read has gone back behind a change of directories

vars == <<root, depth, pc, request, answer, results, journal, deepRead>>
taskVars == <<request, answer, results>>
dataVars == <<root, journal, deepRead>>

\* Pools, schemes, collections and keys are numbered in the order of their names.
ASSUME NamesAssumption ==
  Key \subseteq Nat /\ Path \subseteq Seq(Nat) /\ \A p \in Path : Len(p) \in 1..3
ASSUME BusyAssumption == MaxBusy \in Nat \ {0}
\* A value of a collection is not taken for an answer without one.
ASSUME AnswersAssumption == Val \cap {"missing", "threw", "terminated"} = {}

\* What each operation is told: the way to its directory, or to a collection and a key.
Given(r) ==
  /\ Len(r.path) = IF r.op \in DirOps THEN Depth(r.op) ELSE 3
  /\ r.op \notin DirOps => r.key \in Key
  /\ r.op \in {"insert", "update"} => r.val \in Val

ASSUME NamesGiven == \A r \in Request : Given(r)
ChangeType == {c \in [op : DirOps \cup DataOps, path : Path,
                      key : Key \cup {NoVal}, val : Val \cup {NoVal}] : Given(c)}

-------------------------------------------------------------------------------
(* Data *)

\* The tree a change is made in, and its key there.
Container(c) == IF c.op \in DirOps THEN Parent(c.path) ELSE c.path
KeyIn(c) == IF c.op \in DirOps THEN Last(c.path) ELSE c.key

\* The root after a change that finds what it needs.
Made(tree, c, time) ==
  LET level == Len(Container(c))
      container == TreeAt(tree, Container(c))
      k == KeyIn(c)
  IN Replaced(tree, Container(c),
       CASE c.op \in AddOps -> InsertKey(level, container, k, NewTree, time)
         [] c.op = "insert" -> InsertKey(level, container, k, c.val, time)
         [] c.op \in RemoveOps \cup {"remove"} -> EraseKey(level, container, k, time)
         [] c.op = "update" -> UpdateKey(container, k, c.val, time))

\* c finds the tree it is about, and its key there or not, as it must.
Possible(tree, c) ==
  /\ Exists(tree, Container(c))
  /\ Has(TreeAt(tree, Container(c)), KeyIn(c)) <=> c.op \notin AddOps \cup {"insert"}

\* What the trees hold, histories aside.
DataOf(tree) ==
  [p \in {q \in Path : Exists(tree, q)} |->
     [k \in Key |-> IF Len(p) = 3 /\ Has(TreeAt(tree, p), k)
                    THEN ValueAt(TreeAt(tree, p), k) ELSE NoVal]]

-------------------------------------------------------------------------------
(* Mutexes. *)

\* Fault: the container of a directory is only shared.
UniqueMutexForData(op, n) == n = Depth(op) /\ op \in DataOps \cup {"read_at"}

\* lock_guard or shared_lock: whether the n-th mutex is taken uniquely.
UniqueMutex(op, n) == n = Depth(op) /\ op # "read"

\* Task t holds the mutex of the tree at p.
HoldsMutex(t, p) == Len(p) < depth[t] /\ IsPrefix(p, request[t].path)
HoldsMutexUniquely(t, p) == HoldsMutex(t, p) /\ UniqueMutex(request[t].op, Len(p) + 1)

\* Fault: a unique request does not wait for the shared holders.
MayTakeBesideReaders(t, p, unique) == \A u \in Task \ {t} : ~HoldsMutexUniquely(u, p)

MayTake(t, p, unique) ==
  \A u \in Task \ {t} : HoldsMutex(u, p) => ~unique /\ ~HoldsMutexUniquely(u, p)

-------------------------------------------------------------------------------
(* Tasks. *)

\* The root after the first changes.
Built[n \in 0..Len(Before)] == IF n = 0 THEN NewTree ELSE Made(Built[n - 1], Before[n], n)

ASSUME BeforeAssumption ==
  /\ Before \in Seq(ChangeType)
  /\ \A n \in 1..Len(Before) : Possible(Built[n - 1], Before[n])

Init ==
  /\ root = Built[Len(Before)]
  /\ journal = Before
  /\ deepRead = FALSE
  /\ depth = [t \in Task |-> 0]
  /\ pc = [t \in Task |-> "new"]
  /\ request = [t \in Task |-> CHOOSE r \in Request : TRUE]
  /\ answer = [t \in Task |-> "none"]
  /\ results = [t \in {} |-> "none"]

Labels == {"new", "lock", "act", "unlock", "publish", "finished", "lost"}
Goto(t, label) == pc' = [pc EXCEPT ![t] = label]
Answer(t, message) == answer' = [answer EXCEPT ![t] = message]

Start(t) ==
  /\ pc[t] = "new"
  /\ Cardinality({u \in Task : pc[u] \notin {"new", "finished", "lost"}}) < MaxBusy
  /\ \E r \in Request : request' = [request EXCEPT ![t] = r]
  /\ Goto(t, "lock")
  /\ UNCHANGED <<depth, answer, results>> /\ UNCHANGED dataVars

\* The next mutex, and find() of the next name under it.
TakeMutex(t) ==
  LET r == request[t]
      n == depth[t] + 1
      p == SubSeq(r.path, 1, depth[t])
      found == n = Depth(r.op) \/ Has(TreeAt(root, p), r.path[n])
  IN
  /\ pc[t] = "lock"
  /\ MayTake(t, p, UniqueMutex(r.op, n))
  /\ depth' = [depth EXCEPT ![t] = n]
  /\ IF found
     THEN Goto(t, IF n < Depth(r.op) THEN "lock" ELSE "act") /\ UNCHANGED answer
     ELSE Goto(t, "unlock") /\ Answer(t, "missing")
  /\ UNCHANGED <<request, results>> /\ UNCHANGED dataVars

Acting(t, ops) == pc[t] = "act" /\ request[t].op \in ops
ActFrame(t) == Goto(t, "unlock") /\ UNCHANGED <<depth, request, results>>

\* Common to all changes: made when possible, refused otherwise.
Change(t, possible) ==
  /\ IF possible
     THEN /\ root' = Made(root, ChangeOf(request[t]), Len(journal) + 1)
          /\ journal' = Append(journal, ChangeOf(request[t]))
          /\ Answer(t, "done")
     ELSE UNCHANGED <<root, journal>> /\ Answer(t, "refused")
  /\ UNCHANGED deepRead

InContainer(t) == Has(TreeAt(root, Container(request[t])), KeyIn(request[t]))

OnNewKey(t, op) == Acting(t, {op}) /\ Change(t, ~InContainer(t)) /\ ActFrame(t)
OnOldKey(t, op) == Acting(t, {op}) /\ Change(t, InContainer(t)) /\ ActFrame(t)

AddPool(t) == OnNewKey(t, "add_pool")
AddScheme(t) == OnNewKey(t, "add_scheme")
AddCollection(t) == OnNewKey(t, "add_collection")
RemovePool(t) == OnOldKey(t, "remove_pool")
RemoveScheme(t) == OnOldKey(t, "remove_scheme")
RemoveCollection(t) == OnOldKey(t, "remove_collection")
Insert(t) == OnNewKey(t, "insert")
Update(t) == OnOldKey(t, "update")
RemoveKey(t) == OnOldKey(t, "remove")

Read(t) ==
  LET collection == TreeAt(root, request[t].path) IN
  /\ Acting(t, {"read"})
  /\ Answer(t, IF InContainer(t) THEN ValueAt(collection, request[t].key) ELSE "missing")
  /\ ActFrame(t) /\ UNCHANGED dataVars

\* The last change of directories before now.
LastMove == LET moves == {n \in DOMAIN journal : journal[n].op \in DirOps} IN
            IF moves = {} THEN 0 ELSE Max(moves)

\* When revert_to throws, the task ends without an answer; when redo_all does, in
\* a destructor, the process ends.
ReadAt(t) ==
  LET r == request[t]
      seen == ReadPast(root, r.path, r.key, r.time)
  IN
  /\ Acting(t, {"read_at"})
  /\ root' = seen.tree
  /\ Answer(t, seen.answer)
  /\ deepRead' = (deepRead \/ r.time < LastMove)
  /\ IF seen.answer = "terminated"
     THEN pc' = [u \in Task |-> "lost"] ELSE Goto(t, "unlock")
  /\ UNCHANGED <<depth, request, results, journal>>

\* The destructors of the locks, innermost first.
ReleaseMutex(t) ==
  /\ pc[t] = "unlock"
  /\ depth' = [depth EXCEPT ![t] = @ - 1]
  /\ Goto(t, IF depth[t] > 1 THEN "unlock" ELSE IF answer[t] = "threw" THEN "lost" ELSE "publish")
  /\ UNCHANGED taskVars /\ UNCHANGED dataVars

Publish(t) ==
  /\ pc[t] = "publish"
  /\ results' = (t :> answer[t]) @@ results
  /\ Goto(t, "finished")
  /\ UNCHANGED <<depth, request, answer>> /\ UNCHANGED dataVars

Get(t) ==
  /\ t \in DOMAIN results
  /\ results' = Restrict(results, DOMAIN results \ {t})
  /\ UNCHANGED <<depth, pc, request, answer>> /\ UNCHANGED dataVars

\* All requests of the run are served: a bound of the model, not a deadlock.
Finished ==
  /\ \A t \in Task : pc[t] \in {"finished", "lost"} /\ t \notin DOMAIN results
  /\ UNCHANGED vars

TaskStep(t) ==
  \/ TakeMutex(t)
  \/ AddPool(t) \/ RemovePool(t) \/ AddScheme(t) \/ RemoveScheme(t)
  \/ AddCollection(t) \/ RemoveCollection(t)
  \/ Insert(t) \/ Update(t) \/ RemoveKey(t) \/ Read(t) \/ ReadAt(t)
  \/ ReleaseMutex(t) \/ Publish(t)

Next == (\E t \in Task : Start(t) \/ TaskStep(t) \/ Get(t)) \/ Finished

Spec == Init /\ [][Next]_vars

-------------------------------------------------------------------------------
(* Properties *)

NoDirs == [p \in {} |-> NoData]
AsOf(n) == AfterAll(NoDirs, SubSeq(journal, 1, n))
Current == AfterAll(NoDirs, journal)
Requested(t) == IF request[t].time < Len(journal) THEN request[t].time ELSE Len(journal)

\* The type invariant; a task holds no more mutexes than its operation takes, and
\* gives none back twice.
TypeOK ==
  /\ depth \in [Task -> 0..4]
  /\ pc \in [Task -> Labels]
  /\ request \in [Task -> RequestType]
  /\ \A t \in Task : depth[t] <= Depth(request[t].op)

\* A mutex that one task holds uniquely no other task holds.
MutexesExclude ==
  \A t, u \in Task : t # u =>
    \A n \in 0..depth[t] - 1 :
      LET p == SubSeq(request[t].path, 1, n)
      IN HoldsMutexUniquely(t, p) => ~HoldsMutex(u, p)

\* The tree a task is about to change is its own, with all below it: no other task holds
\* a mutex there or waits for one below it, wherever the vectors move those trees.
ChangesAlone ==
  \A t, u \in Task :
    t # u /\ pc[t] = "act" /\ request[t].op # "read" =>
      LET p == SubSeq(request[t].path, 1, Depth(request[t].op) - 1)
      IN IsPrefix(p, request[u].path) => depth[u] <= Len(p)

\* Where the trees below each tree lie.
Layout(tree) == [p \in {q \in Path \cup {<<>>} : Len(q) < 3 /\ Exists(tree, q)} |->
                   KeysOf(TreeAt(tree, p))]

\* No vector moves or destroys trees while another task holds or waits for a mutex
\* in one of them.
MutexesStayPut ==
  [][\A p \in DOMAIN Layout(root) :
       p \notin DOMAIN Layout(root') \/ Layout(root')[p] # Layout(root)[p] =>
         \A t \in Task :
           Len(p) < Len(request[t].path) /\ IsPrefix(p, request[t].path)
           /\ pc[t] \in {"lock", "act", "unlock"} /\ pc'[t] = pc[t]
           => depth[t] <= Len(p)]_vars

\* While no read has gone back behind a change of directories, the trees hold what
\* the recorded changes make, for whatever happens to their histories.
ContentsAreRecorded == ~deepRead => DataOf(root) = Current

\* The value a read of the past should answer with.
Expected(t) ==
  LET d == AsOf(Requested(t))
      r == request[t]
  IN IF r.path \in DOMAIN d /\ d[r.path][r.key] # NoVal THEN d[r.path][r.key] ELSE "missing"

\* Task t has read the past, or failed to, and nothing has changed since.
HasReadPast(t) ==
  request[t].op = "read_at" /\ depth[t] = 1 /\ pc[t] \in {"unlock", "lost"}

\* ... and a read of the past sees the values of its time.
PastReadsAreRight == ~deepRead => \A t \in Task : HasReadPast(t) => answer[t] = Expected(t)

\* No read of the past changes the present.
ReadsKeepTheData == DataOf(root) = Current
===============================================================================

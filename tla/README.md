# Formal models of the course-work database (`src/cursal_work`)

TLA+ specifications of the database server in `cursal_work`, its client, its watchdog
and the allocators of the repository; configurations that check them with TLC on small
instances; and theorems checked by TLAPS for every value of the constants.

The repository holds many exercises. The program modelled here is the largest of
them: a server that keeps pools of schemes of collections of students, in memory
or on disk, answers requests asynchronously over HTTP and can read the data as it
was at an earlier time; a client; and a watchdog ("heart") that restarts it. The
allocators are the part of the other exercises that the server is written for.

- [The system](#the-system)
- [Modules](#modules) and how they correspond to the code
- [What each run checks](#what-each-run-checks), with its bounds and fairness
- [What is proved](#what-is-proved)
- [What the checks found](#what-the-checks-found)
- [What is not modelled](#what-is-not-modelled)
- [Plan](#plan)

## The system

```
client --HTTP--> server routes --> controller_int --+--> memory_controller --> B_tree of B_trees
   ^                                                +--> disk_controller   --> B_tree_disk files
   |  polls /get                                             ^ lock_helper, history, bucket
heart --HTTP /heart, stop, launch--> server process                       allocators
```

| Component | State | Operations | What makes it correct |
|---|---|---|---|
| `B_tree`, its history (`server/in_memory/tree/b_tree.h`) | `_operations` and `_undone_operations`, stacks of time-stamped operations | insert, update, erase; `revert_to(time)`, `redo_all()` | a read of the past sees the version of its time, never throws, and leaves no trace |
| `B_tree`, its nodes | nodes with `t - 1` to `2t - 1` keys | `emplace_inner`, `erase_inner`, iterators, `find_range` | order, balance; ranges that are what they say |
| `B_tree_disk` (`server/in_disk/tree/b_tree_disk.h`) | nodes at numbered positions of a file; `_count_of_node`, **static**, shared by all open trees | the same | the same tree; no position used twice; what a death leaves can be read |
| `memory_controller` | `_root`, a tree of pools of schemes of collections, by value; `_request_result` | every request on a thread of its own (`boost::async`), answers by `get` | nested mutexes that live in what they protect; histories of trees inside trees |
| `lock_helper` (`disk_controller.h:584-613`) | `_opened_dirs_files`: path -> (unique, count), under a mutex and a condition variable | constructor waits and registers, destructor unregisters | a unique lock is exclusive; no entry is lost or left behind |
| `disk_controller` | directories and files under `_root`, removed ones under `_bucket`; `_history`, `_undone_history`; `_index_gen`; `_request_result` | add/remove pool, scheme, collection; insert, update, remove; read, with or without `need_persist`; get | what a task checked stays true until it acts; changes and history agree; undo and redo never fail; every request is answered, or its task has thrown |
| start and restart | what is on the disk | constructor: empties `_bucket` | nothing that was recorded is lost |
| server routes (`server/server/server.h`) | none of their own | one call of the controller per route, `/get`, `/heart` | one task and one answer per request; times that reads are served for |
| client (`client/client.cpp`) | dialogue, mode (waiting, asynchronous), a connection | sends a command, polls `/get` until the answer is there | every request gets its answer shown; one exchange at a time |
| heart (`heart/heart.cpp`, `launcher/launcher.cpp`) | process handle, running flag; two threads | probe, restart, stop | at most one server; none left behind; Enter ends it; where two threads on one handle do not give that, which races it takes |
| allocators (`src/allocator`) | lists, tags, buddies, a red-black tree, in the memory they manage | allocate, deallocate, `set_fit_mode` | blocks in use are apart; memory is not lost |
| student records, loggers, other exercises | their own | sequential | not modelled, see below |

How they interact: a route calls the controller, which draws a GUID, starts a
thread and returns the GUID at once. The thread works under its locks; its
continuation puts the answer into `_request_result`; the client asks for the GUID
until it finds it, and `get` erases what it gives out. Heart asks `/heart` every
second, and a single miss makes it stop the process and launch another.

What is hard about it, and what the properties are aimed at (every item is in
`PROJECT.json` under `hazards`, at its line):

- **Existence checks between locks.** A request takes its locks from the root
  down and asks `exists()` between them; what it learnt must stay true while it
  waits for the next lock.
- **The static node counter.** `B_tree_disk` numbers new nodes from a static
  counter that every opened tree resets; two open trees can share it only if the
  locks forbid it whenever one of them will insert.
- **Change first, record later.** A change reaches the file before the history.
- **Undo and redo in place.** A read of the past rewrites the live data
  backwards and forwards. Operations that exchange the stored value with the
  tree's go wrong only after several reads, as a wrong value of another moment.
- **One bucket for all removed directories**, told apart by an index.
- **Mutexes in moving data.** In memory a tree's mutex is a member of the tree, and
  trees are moved by the vectors that hold them.
- **Writes to two files one by one**, those of the second later than the records that
  point to them, and a death between any two.
- **Answers given out once**, to a client that must ask until it gets one, over a
  network that loses messages, from a server that may be killed meanwhile.
- **Two threads with one process handle** in the watchdog, which stops a process by five
  calls on it.
- **An order that follows from other data.** The red-black tree of free blocks is ordered by
  sizes nobody stores: they follow from the list of all blocks, which changes.

## Modules

| Module | Models | Extends or instantiates |
|---|---|---|
| `VersionedMap` | abstract: a map with a version per change, and reads that see the version of a time | |
| `TreeHistory` | the in-memory tree with its history and `perst_helper` | implements `VersionedMap` |
| `BTree` | the nodes of the in-memory tree | |
| `BTreeRange` | its iterators and `find_range` | `BTree` |
| `BTreeFile` | the tree in a file, write by write | implements `BTree`; ranges on `BTreeRange` |
| `PathLocks` | `lock_helper`; also the abstract lock service of the controller | |
| `Database` | what both controllers promise: requests, data, what changes make of them | |
| `DiskController` | the disk controller, composed with `PathLocks` | `PathLocks`, `Database` |
| `DiskRestart` | the disk controller in a process that dies and is started again | `DiskController` |
| `TreesInTrees` | trees by value in the vectors of other trees: copies, moves, undo and redo | `Database` |
| `MemoryController` | the memory controller on such trees | `TreesInTrees` |
| `Heart` | the watchdog, its two threads and the processes it launches | |
| `RequestService` | abstract: a request is answered once or never | |
| `Service` | clients, network, routes, tasks and `_request_result`, on a server that `Heart` launches and kills | `Heart`; implements `RequestService` |
| `Heap` | abstract: what `allocator.h` promises | |
| `FitMode` | first, best and worst fit over a list | |
| `SortedList`, `BoundaryTags`, `BuddiesSystem`, `RedBlackHeap` | the four allocators | implement `Heap` |
| `...Proofs` | the theorems about the module named, those of `PathLocks` with the disk controller's; `DiskHistoryProofs` goes on with what the disk keeps | that module, `TLAPS` |
| `MC...` | instances for TLC | |

A definition whose comment begins with "Fault" is a plausible bug, defined before
the correct definition with the same parameters. Substituting it must break the
property it is paired with; that is how each property is shown to have teeth.

### `TreeHistory` and `VersionedMap`

`tree` is the map in the nodes; `operations` and `undone` are the two stacks;
`phase` says whether a `perst_helper` is alive and what it is doing. Each change
is one step, since the writer holds the mutex of the tree for all of it; a read
of the past is one step per undone and per redone operation. The stored value of
an operation is kept exactly as the code keeps it: an undone *insert* saves the
value it erases, an *update* swaps its value with the tree's both ways, a
*remove* keeps its value (`b_tree.h:496-537`). `versions` is a history variable.

`VersionedMap` is what the component promises: changes append versions, and a
read at a time sees the youngest version not after it. `TreeHistory` implements
it: the versions are the history variable, and what a read shows (`view`) is the
tree once `revert_to` is done with it. That the two stacks, which know nothing of
versions, always arrive at the right one is what there is to check.

### `BTree`, `BTreeRange` and `BTreeFile`

In `BTree` a node is a record of its keys and children, the tree a nest of nodes, and a
step is one turn of a loop of `emplace_inner` or `erase_inner`: put a key into a leaf,
split one node, borrow from one neighbour, merge with one. `stack` is the code's stack of
pointers as child indices. `find_path` is *the* path whose nodes the loop goes through
(`Leads`: each but the last lacks the key and is left at `find_index`), and so is the way to
the last leaf (`Ends`); that there is one is proved (`LeadsExists`, `EndsExists`), and each
node on it settles the next. In `BTreeRange` iterators are
paths with an index, and `find_range` is translated with its quirks: `Range_begin`, the search
for the upper bound in the node of the lower one, steps forth and back, `found_one`.

In `BTreeFile` nodes lie at positions of `file`; a turn queues its writes in `pending`, in
the code's order, and each write that reaches the file is a step of its own: `FlushNode` that
of a node's record, `FlushRoot` that of the root's position. The keys and values of a node are
in a second file with a stream of its own. `serialize` appends them there anew for every record
(`b_tree_disk.h:781-799`), and ends with a seek that flushes the record (`823`), not the keys:
these reach their file when their stream is next moved, to read a node, to write the next one
with its own, or when the tree is closed (`FlushKeys`; `FlushNode` waits for it). In between
`buffered` is the node whose record is ahead of its keys. Records are flushed as a whole, and
so are the keys of a node; keys that reach their file before the record are not looked at
by anybody and need no step. The process reads its own pending and buffered writes; one that
dies leaves `file` and `header` as they are, and the keys of `buffered` nowhere. What the next
process reads at their offsets is left open (`Looked_up` is `"anything"` there). So `Survivors`,
the keys a lookup in `file` finds, is in every state what the next process would find, and
`Readable` are the keys whose lookup does not come to that node. The next turn and the next
operation begin when all is written, for they read the root or another node with keys first,
or open the tree anew (`Written`). `count` is
`_count_of_node`, as constructor and reads move it. `InMemory` is `BTreeRange` on the nest of nodes
that the file and the pending writes amount to (`Tree`); `ImplementsBTree` says that every
step of the file is one of the tree in memory, or none.

### `PathLocks`

`opened` is the map, `held[t]` the helpers alive in thread `t`. The check of the
condition and the registration are one step (they are under one mutex, and
`condition_variable::wait` re-checks), so is the destructor. Helpers are released
in reverse order, as C++ scopes are. A task never asks for a path it already
holds: `DiskController` locks each path of a descent once.

### `DiskController`

A `Task` is one request on its own thread. `pc` names the place in the lambda:

| `pc` | code |
|---|---|
| `lock` | before the constructor of a `lock_helper` |
| `check` | before `exists()` on the next path component |
| `act` | all locks taken; before the directory change, or before a tree is opened |
| `opened` | the `B_tree_disk` constructor has read the header and set the counter |
| `log` | the change is made; before the push on `_history` |
| `revert`, `look`, `redo` | constructor, scope and destructor of `revert_helper` |
| `unlock` | destructors of the `lock_helper`s, one step each |
| `publish` | the continuation, before `_request_result` has the answer |

The lock table of the code is `Depth` and `UniqueLock`: every operation takes the
root, and then as many components as it names. The root is unique for everything
but `update`, `remove` and `read`; the last component is unique for all but
`read`; everything in between is shared.

Data are abstracted to what the properties tell apart: a directory or collection
is an entry of `root`, with a map from keys to values and the number of node
records in its file. `Undo` and `Redo` are the `in_disk_*_operation` classes;
`Undoable` and `Redoable` say when the renames and tree operations in them
succeed. `versions` is a history variable: the data at the start, and after each of the
changes recorded since (`Changed` says what one makes of them); `AsOf(n)` is the version
after n of them, `Current` the last. The insertion into a
tree may or may not split nodes (at most a leaf and a root here; `BTreeFile` has the
rest); `Drift` is what several readers in one file do to the unsynchronised counter.

`read_value` and `read_range` have the same control and are one request, `read`,
or with `need_persist`, `read_at`. A `read_range` whose upper bound is below its lower one
(`Reversed`: a request whose `key` is none) throws in `find_range`, before a node is read
(`b_tree_disk.h:1415-1418`). The task's scopes are left as on any other way out: a
`revert_helper` redoes what was undone, and the locks are given back; then `fut.get()` throws in the continuation
(`disk_controller.h:785-789`), and `Publish` puts no answer into the map. `Found` is what the
search brings, `thrown` among it. Time is the number of changes recorded: the
timestamps of `_history` are taken under `_history_mut`, and two are assumed
distinct (the in-memory model, where the clock may stand still between changes,
covers equal ones).

### `DiskRestart`

Between any two steps the process may die: `root` stays, everything in memory
goes, `bucket` is emptied by the constructor (`disk_controller.h:1457-1468`): that is
`Restart`, any number of times, once in `disk_concurrent` (`DieOnce`). A
rename or the rewriting of a file is atomic in this model; the writes of one
insertion or erasure, and the two files they go to, are apart in `BTreeFile`.

### `TreesInTrees` and `MemoryController`

A pool is a `B_tree` of schemes and a scheme a `B_tree` of collections, each held
**by value** in the key vector of a node of the tree above (`memory_controller.h:26-29`).
A `B_tree` copied or moved takes its nodes along but not its two stacks: a
constructed one has no history, one that is assigned to keeps its own
(`b_tree.h:1965-2013`). So `TreesInTrees` models what `std::vector` does to its
elements: a full vector constructs all of them anew in one of twice the room;
otherwise an insertion constructs the last and assigns the others from their left
neighbours; a removal assigns from the right. The growth of the vector is the one
of libstdc++. A tree here is one node (at most nine keys). Undo and redo are those
of `TreeHistory`, with values that are trees. A read of the past makes a `perst_helper` on
each level of its way down (`ReadPool`, `ReadScheme`, `ReadCollection`), whose destructor
redoes that tree on the way up (`Ended`): when `revert_to` throws, that tree is left as
it is, since its helper has no destructor to run, and those above are redone. Trees
are four levels deep and no more, so these operators are written out level by level;
the two loops over a stack, `RevertTo` and `RedoAll`, are recursive functions.

`MemoryController` has one step per mutex taken, with the `find` it covers, one for
the act, one per mutex given back, one for the continuation. A read of the past
holds the root uniquely from first to last, hence is one step. `UniqueMutex` is the
lock table: the last mutex of the descent is unique unless the task reads. Answers
are data, or `missing`, `done`, `refused`; `threw` is an exception in the task, which
leaves no answer, `terminated` one in a destructor, which ends the process.
`journal` is a history variable, `deepRead` remembers that a read went back behind
a change of pools, schemes or collections.

### `Heart`

`heartPc` and `mainPc` are the places of the two threads: the one that runs `start()`, and
the main thread, which waits for Enter, calls `stop()`, joins the other and destroys the
`Heart`, which stops once more. They share `isRunning` and `handle`, the `hProcess` of
`server_process_`. `StopProcess(who)` is `stopProcess` in either thread, one step for each
of its calls and returns (`launcher.cpp:73-117`):

| Step | Code | Returns early when |
|---|---|---|
| `CheckHandle` | `hProcess == NULL` | it is |
| `Terminate` | `TerminateProcess(hProcess)` | there is no such process any more |
| `AwaitEnd` | `WaitForSingleObject(hProcess, INFINITE)`; not before that process is gone | the handle was closed |
| `Close` | `CloseHandle(hProcess)`; the process goes on if it lives | the handle was closed |
| `Forget_handle` | `hProcess = NULL`, and the thread's handle | |

Each of them takes the handle that is there by then, since `stopProcess` has a reference to it, and
the other thread may come between any two. A restart is these steps, then `LaunchProcess`
(`CreateProcess`) and `AssignHandle` (the result goes into `server_process_`), which are apart
for the same reason. In the destructor nobody comes between any more, so that
`JoinAndDestroy` is one step. A closed handle fails where `NULL` fails and both are 0; a
terminated process is gone at once; a call takes the handle as it is made;
the number of a closed handle is not given out again while a call with it is under way.

`alive` are the processes there are and `listening` the one that has the port; a process binds
some time after it was launched, and may crash at any time. A probe fails when nobody is alive,
or, as one of the bounded `troubles`, though a server is there but slow. The server builds
only on Windows (the branches for other systems do not compile), so that processes are those of
Windows. `races` is a history variable with the two things the heart thread can do behind
`stop()`: `"start"`, `start()` has set `is_running` after `stop()` had cleared it;
`"launch"`, a restart has assigned a new process while `stop()` was past its
`TerminateProcess`. `OneServer` excepts the first, `NothingLeftRunning` the second, `StopEnds` both.

### `Service` and `RequestService`

`dialog[c]` is where the client's dialogue is, `poll[c]` where its asking for an answer is,
in the dialogue itself (`waiting`) or in the future of the asynchronous mode, in whose
destructor the dialogue waits (`destructor`); `wire[c]` is the message on its one
connection. `Accept` is any route that calls the controller, `ServeGet` is `/get` together with
`controller_int::get`, `RunTask` is a task up to its continuation, one step, since
what tasks do under their locks is in the modules of the controllers. A read of a
range whose bounds are in the wrong order throws in its task and has no answer
(`backward_range`). Messages may be lost; a late answer is a lost one to this client.
When the server dies its tasks, its map of results and, with a memory controller, its data
go (`Forget`).

The data is the sequence of the times of its changes, and a read answers how many of them
it saw: that is all `ReadYourWrites` tells apart. A read is served as the code serves it:
`need_persist - '0'` in the routes is arithmetic on a pointer and never null
(`server.h:125`, `161`), so that every read is a read of the past; `read_value` adds three hours
to the time it got (`RouteTime`); `read_range` tests `!time_str` where it means the
opposite and is always served for the present. The client sends whole seconds.

`RequestService` knows of each request a stage (`new`, `asked`, `answered`, `given`, `lost`), its
answer, and how often it was given out.

### The allocators

`handed` is what the client has: the size asked for, by address. `Heap` says what may
become of it; each allocator adds what is in its memory and implements `Heap`.
Addresses count from the end of the allocator's own data.

- `SortedList`: blocks in a row (`size`, by the address of the header), the free ones in a list.
  `Allocate` with the choice of the fit mode, splitting unless nothing would be left for a
  header; `Deallocate` joins with both neighbours.
- `BoundaryTags`: the blocks in use in a list with links `back` and `forward`; free memory is the
  gaps.
- `BuddiesSystem`: `exponent` and `occupied`, by address; halving and joining.
- `RedBlackHeap`: `heap` maps addresses to headers, and the code's functions that change
  headers are operators from memory to memory: insertion and removal with every case of
  recolouring and rotation, in the order of the code.

All run under one mutex per allocator, so that an operation is a step.

## What each run checks

| Run | Instance | Shows |
|---|---|---|
| `tree_history` | 2 keys, 2 values, 3 instants, 4 changes | no undo or redo throws; a read sees the version of its time; afterwards nothing has changed; `VersionedMap` is implemented; every read ends |
| `disk_concurrent` | 3 requests at once out of all operations on one pool, one scheme, two collections; one death; when all are answered, one read of the past | checked paths stay; the counter belongs to the inserting tree; readers never see an unrecorded change; with no lock held the data is what was recorded; a task holds exactly the locks in scope; undo and redo always succeed; a read of the past sees the directories and keys of its time; a unique lock is exclusive; what a start finds is all that was recorded or made, unless a read of the past was under way, and then it has the shape of some past moment |
| `disk_liveness` | 3 concurrent requests, one of each way to lock, reads with their bounds in either order | each request's answer reaches `_request_result`, but that of a task that throws, which gives its locks back |
| `memory_controller` | 3 requests, 2 at once, out of all operations on one pool, one scheme, two collections | a task that changes a tree has it and all below it for itself; the trees a task waits in stay and do not move; with no read behind a change of directories, the trees hold what was recorded and reads of the past are right; no deadlock |
| `btrees` | in memory: keys 1 to 10, `t` 2 and 3; in a file: `t` 2, any five keys in any order on seven positions, or ten keys that grow the tree to three levels and four erasures in any order | order and balance in the middle of every loop; ranges exact where they can be; the file is the tree in memory step by step; a death during an insertion into a leaf or an erasure without rebalancing leaves the tree before or after it, but for the one node whose keys were in their buffer |
| `service` | 2 clients, 2 commands, 1 lost message, 2 troubles, 4 events in all | `RequestService` is implemented; no answer without a reader; reads see earlier writes; one exchange at a time; each command comes back to the prompt; at most one server, none left behind, and Enter ends the watchdog, but for two named races |
| `allocators` | 64 bytes; each allocator with few blocks and its own sizes; the red-black tree besides filled with blocks of seven sizes, given back in any order, and 3 operations after | memory tiled; red-black and ordered; a fit found whenever there is one; `Heap` is implemented |
| `disk_historical_values`, `disk_restart_loss`, `memory_loss`, `btree_range`, `heart_stop` | small | the five findings below; TLC finds a violation |

**Bounds, and why they are enough.** Three threads are the least at which a
shared lock has two holders and a waiter; the pairwise properties need two. One
pool and scheme suffice because paths of different parents share only the root,
which is there. Two collections are needed for the counter: one with a small file
and one with a larger, so that a reset is visible; four records is what one split
of the small one reaches. Three changes made in any interleaving and a read of the
past behind them undo and redo every pair of changes in either order. After a death two kinds
of requests are enough to go on with what was found, one on directories and one on data. `MaxBusy` bounds only
how many run at once. Four changes over three instants give the tree equal
timestamps on either side of the requested time. In the memory controller two tasks at
once are what a moved mutex needs, one to move it and one to wait for it; two
collections are the least that move each other, and room for two lets one be inserted
in front of the other without new room.

With `t` 2 ten keys make three levels in memory, so that splits and merges go up through
an inner node to the root, on either side; `t` 3 has nodes in which the middle is not the
end. The file takes ten keys in ascending order, since positions are never used again
and every order would make the runs grow by the writes; the five keys in any
order have two levels. Positions are cut at nine or seven; a cut operation does not begin.
In `service`, `MaxEvents` lets any four of
clients speaking, commands, losses, troubles and Enter, which counts for two, come together: two
commands of two clients, or one with a loss and a crash, or Enter with a restart or two and no
command, which is what the races of the watchdog take. `Shift` is one second
instead of three hours, which is more than the time a client's seconds cut off. The
allocators' memory holds three blocks with headers between, which is a block with a neighbour
of either kind on either side; seven sizes and the rest give the red-black tree up to eight
free blocks on four levels, which leave it in every order. None of the proofs has any of these bounds.

**Fairness.** `TreeHistory`: the reader, which holds the mutex, goes on. Nothing
is asked of writers or the clock. `DiskController`: weak fairness of each task's
next step; it is a thread of its own and the scheduler does not stop it for ever.
Weak fairness suffices for locks because the run has finitely many requests: a
lock that is wanted is in the end free for good. Clients need neither send nor
fetch anything. Starvation by an unending stream of shared locks is therefore *not*
excluded by this result. `Heart`: both threads go on, and a process that can
bind its port does; nobody need press Enter, crash or be slow. `Service`: besides,
client threads go on, a refused connection fails, the server answers what reaches it, and
its tasks run. Nothing is asked of the user, the network's losses or the clock.
`EveryRequestAnswered` excepts a range with its bounds in the wrong order, and asks of it that
its locks are given back. `StopEnds` excepts the two races, after which the watchdog may wait for ever.
`EveryCommandShown` is conditional: with losses, troubles, Enter or a range with its bounds
in the wrong order the client may ask for ever, since its loop has no end.

**Deadlock** is checked in the runs of the two controllers and the history. `Finished` is
the end of a bounded run, not an operation. It is not checked for trees, which stop
at their bounds, for the service, whose programs end or wait for their users, and
for the allocators, where the process of the buddies may die.

## What is proved

All for arbitrary constants, with no bound on keys, tasks, requests or changes
other than the named assumptions. Every property a theorem states is also an
invariant or property of a run, but for those of the two allocators, which are parts
of `Tiled` and `ImplementsHeap` there, and some that only lead to others.

**`TreeHistoryProofs`** rests on `HistoryInv`: at every moment the operations
from the bottom of `_operations` to the top and on through `_undone_operations`
are one journal, in order of time, with one version per operation; the tree is the
version at the boundary of the two; and what each operation stores is what it needs
on its side of the boundary: what the change replaced while it is done, what it put
there while it is undone. The type invariant alone would not be inductive: that
undoing never throws needs to know what is in the tree at that point. From it:
`TypeCorrect`, `ReplaySafe`, `HistoricalReadsCorrect`, `ReadsLeaveNoTrace`, and
`Refinement` (of `VersionedMap`). Assumed: `NoVal` is not a value; bounds are
naturals.

**`DiskControllerProofs`** begins with `PathLocks`: `LockInv` adds to the agreement of
counts and holders that a task holds a path once and that an entry has the mode of its
holders, a unique one a single holder; without the modes, `MutualExclusion` is not
inductive. Assumed: there are finitely many tasks (counts are cardinalities). The
controller then takes five steps.
1. `LocksAsScoped`: whatever way a request takes through its function, refusals
   included, it holds exactly the locks in scope, the root outermost and in the mode
   of its operation (`ControlInv`).
2. `UsesPathLocks`: hence each step of the controller is a step of `PathLocks` or
   leaves the locks alone, and `ControllerExcludes` follows from `MutualExclusion`.
3. A task that holds the root uniquely is alone (`AloneAtRoot`), a task without
   locks touches nothing (`OutsideLocks`), and only tasks that hold the root
   uniquely take directories away (`RemovalsAlone`).
4. Hence `CounterOwned` (nobody resets the counter under an insertion) and
   `PathsStay` (nobody removes what another has checked).
5. `DataCorrect`, the type invariant. `DataInv` adds to it that the removed trees in the
   bucket are well formed as well and that a task about to record the removal of a key has the
   value it removed. The second needs `PathsStay`: only because the collection is still there
   does the task read a value of it. What it records can then be put back, so that undoing
   and redoing, which exchange the values of updates, leave entries with values.

Assumed: lockable paths are the paths and the root; requests have one of the
twelve operations and name as many components as these lock; a request for a key names it
and its collection, and insert and update bring a value.

**`DiskHistoryProofs`** says that the disk keeps what clients were told is done. Its
invariant `RecordInv` reads `_history`, from the bottom, and `_undone_history`, from the top,
as one list of entries cut where a replay stands (`EntryAt`), and has nine parts:
- `StacksCover`, `VersionsLinked`: there is an entry for each version, in order, and it
  leads from one to the next (`Leads`): directories and keys, not values;
- `IndexesOnce`, `BucketHolds`: indices are distinct, and the bucket has, under those of the
  entries that took something away as things stand, exactly the subtrees they took;
- `InFlightPending`: what a task has changed and not pushed yet is a change that can be made
  of the current version, and its index is new;
- `Settled`: outside a read of the past nothing is undone, and the disk is, path by path,
  the current version with the changes in flight made to it;
- `AtVersion`, `RevertStops`: inside one, the disk has the shape of the version at the cut,
  and revert goes no further than the time asked for;
- `ValuesKept`: where the last entry about a key is not undone, its value is on the disk;
  where it is, it is in that entry.

The last part is what makes the proof hard, and finding 1 is why: undoing and redoing an
update exchange its value with the tree's, so that what entries hold is not what they
led to, and values of the past are wrong. Only for the last change of each
key does the exchange come out right, and that is just enough for `QuietIsCurrent`: when
all is redone, all values are back. That two changes in flight are in different
collections (`InFlightApart`) comes from the locks: all requests but `update`, `remove` and
reads take the root alone (`Alone`), and the former take their collection alone
(`WritersApart`, with `HelpersNamed`, that a task's helpers are those of its path).
So what a task found before it acts is in the current version as well (`FindsCurrent`).

From `HistoryKept`, which puts this together with the invariants of locks, control and data, follow
`ReadsOnlyRecords`, `QuietDatabase`, `ReplayAlwaysCan` and `PastHasItsShape`; from
`HistoryKeptByRestarts`, for which it must be shown that the directories a dead process
leaves are closed towards the root (`RootRooted`), follow `RestartKeeping`, `RestartFinding` and
`TrueInEveryProcess`. Assumed besides: paths are not empty; the database at the start has with a
path those it begins with, as a file system does; a request about a pool, a scheme
or a collection names as many components as it is about; `NoVal` is not a value.

**`MemoryControllerProofs`**: the invariant is `ControlInv`, how many mutexes a task has at
each place of its function, with `Exclude`, that they exclude under *whatever* name: not
only the names tasks use now, since a mutex is one name while its tree moves. From
these, `MemoryTypeCorrect`, `MutualExclusion`, and `ActsAlone`: a task about to change a
tree is alone in it and below, because every other one there would have to come through
its last mutex, which is unique. That is why a vector may move its elements. Assumed:
requests name the components their operation takes mutexes for (`NamesGiven`).

`MutexesStay`, that no vector moves under a task that waits in it or holds a mutex in
it, needs the trees as well. `TreesInv` says that they are trees of their level, with
operations of that level on their stacks, whatever has been undone, redone or thrown (or
`Replaced` would not be what it looks like), and that all trees a task has come
through still exist (`Reached`), so that the mutexes it holds are those of its path. The lemmas on
the way: each operation of `TreesInTrees` returns trees (`InsertTyped` to `ReadPastTyped`),
a change replaces the tree at its `Container` (`MadeIs`), and replacing one leaves the
keys of each tree that is not below as they were (`KeysElsewhere`). Loops over stacks
are followed by `UpTo` and `Iterated`, induction over numbers and the existence of a function made
one value after another, from well-foundedness of the numbers. The trees at the start are those of
any sequence of changes each of which was possible (`BeforeAssumption`).

The second half of `MemoryControllerProofs` says that the memory controller keeps what it is
told, as far as that is true. What makes it hard is what the vectors do: adding or removing a directory
moves its neighbours, each without its own history and some with that of another, so that from
then on the stacks of a tree say nothing certain about it. `ReadsKeepTheData` is violated
for that reason (finding 3). What the stacks do know is in `Kept`, the inductive invariant:
- `AllTidy`: each key of a tree has one slot, nothing is undone, and no operation has a time
  that has not been;
- `Histories`: call a change settled when no directory has changed since it (`Settled`).
  No directory has a settled operation on its stack. Each collection `Remembers`
  all its settled changes in their order and no others, and every such operation is `Noted`: it has
  the kind and key of its change in `journal`, and the value that key had before or, for an
  insertion, has since;
- `DataOf(top)` is what all the changes of the journal make (`AsOfIn`).

`RecordsInv` adds what the tasks have of it: a lost task holds no mutex, and one that has read the
past, and still has the root, answers as it should. There are two arguments.
1. *A change keeps it* (`ChangeKeeps`). A change of directories unsettles everything, so of the
   histories nothing need be shown (`DirKeeps`), but that the data of every tree arrives
   where the vector puts it, however deep below (`EraseIs`, `InsertIs`, `DirsMove`,
   `DirsAreRecorded`). A change of a collection touches no other tree (`Elsewhere`) and is
   one more settled change on its stack (`DataKeeps`).
2. *A read of a settled time is right* (`PastRead`). The directories on the way are `Quiet`, so
   that their `revert_to` does nothing (`Through`). In the collection `revert_to` undoes exactly its
   changes after that time (`RevertGoes`): each leaves the row of values before it (`UndoIs`,
   `Explained`), no other change of this collection falls between two of them (`NoneBetween`),
   and so the row is the one of that time (`RowThere`). On the way back each operation is what
   undoing made of it (`Flipped`), and `redo_all` restores the row and the stack (`RedoGoes`).
   So the answer is right, and the read leaves the trees with the same data and histories
   (`SameKept`). It stays right because its task has the root to itself (`PastAlone`).

From it follow `ContentsRecorded` and `PastRight`. Assumed besides: paths have one to three names,
and no value is one of the words that stand for answers without a value (`AnswersAssumption`).
What a sequence of changes makes (`AfterAll`) is a recursive function; that it exists is proved
as for the loops (`TraceExists`).

**`ServiceProofs`** begins with the watchdog (`HeartCorrect`). Types and `OneServer` are not
inductive: what `stopProcess` may do depends on whether the handle still names the server.
`HeartInv` adds two parts. `HandleFollows`, as long as `start()` has not come after `stop()`: only
the process in `handle` is alive, but between launch and assignment, and after the race
`"launch"`, only the youngest; in the middle of a restart, and in that of `stop()` without that race,
nothing is alive, so that no call there can close or forget the handle of a living server.
`StartedLate`: a late `start()` leaves the loop running for ever, so that the program has no end
to leave a server behind at. Then only the heart thread launches, and after
`join` the last `stop()` finds all there is, or what the race has left. From it follow
`OneServerInService` and `NothingLeftRunningInService`. The service has it through `StepOfHeart` (a step of the service is a
step of the watchdog or none). `BaseInv`: types, `DialogInv`, which states of dialogue, poll and
connection go together, and `CountInv`, that there are never more GUIDs than commands sent.
`ExchangesOneByOne` follows from `DialogInv`. `NoOrphanedResult` needs more (`GuidInv`,
`ReaderInv`): no two clients ask for one GUID, and each task, not only each answer, has a
client that waits for it. `ReadsSeeEarlierWrites` follows what a command is entitled to see along its
way: on the wire (`CommandSight`), in its task (`TaskSight`), in its answer; the
three hours make up for the seconds the client cut off, since `Second <= Shift + 1`, and
changes are never in the future (`ChangesPast`). `ServiceRefinesPromise`, with `StageInv`, shows each
action to be a step of `RequestService` or none. Assumed: `ClockAssumption`, finitely many
clients, bounds that are naturals.

**`BTreeProofs`** is about the tree in memory, of any keys and any `t` from 2. Its difficulty
is that a tree is a nest of nodes of any depth, and the properties speak of paths in it; that
every `NodeAt` and `PutAt` is a recursion; and that in the middle of a loop one node,
wherever the stack leads, has a key too many or too few. The invariant `Shape` is therefore
not about paths but about trees: `Trees(W, h)` is the set of all triples of a node that is the root of
a tree of height `h`, the set of the keys in it, and the way to its one *exempt* node, where every
other node below the root has a number of keys in `W`. It is built from the set of height `h - 1`
(`Above`): a node's keys ascend, and the sets of its children lie between them (`Ordered`). `Shape` says
that the tree is one of some height, with exactly the keys in `contents`, and the exempt node
at the end of `stack`; `Sized` says which sizes the root and that node may have in each loop.

The argument has three parts.
1. *What a tree is* (to `PathLeads`). `TowerExists`, `TreesAre`: the sets of each height
   exist and are what their definition says. From a node `KeysBelow` and `NodeIs` go down: the
   keys of a tree are those found along its paths, and at the end of each path is a tree of the
   height that is left. There is a way for `find_path` to go, and the key is at its end if it
   is in the tree at all.
2. *What may be put in it*. `Descend` says which trees may replace the exempt node, or one above
   it, so that the whole is a tree again, and with which keys. `Climb` says the same of the
   parent of the exempt node, so that a split, a borrowing or a merging need only be compared,
   in one node and two of its children, with what was there: two children and the key
   between them become others with the same keys (`Replaces`).
3. *The steps*. One lemma for each action (`ShapeInserts` to `ShapeMerges`). The exchange of a
   key with the greatest one before it, which touches two nodes, is that of the leaf first and then
   of the node above it (`ExchangedIs`, `ErasedInner`).

Heights and paths are what the inductions go over, by `Numbers` and `Ways`, which say of a *set* of
numbers or paths what induction says of a property, and follow from well-foundedness. From
`TreeIsShaped` follow `NodesAreWellTyped`, `KeysStayInOrder`, `TreeStaysBalanced`, and
`EveryKeyIsFound`: between operations and in the middle of them alike, a lookup finds a
key exactly if it was inserted and not erased. Assumed: `BTreeParameters`.

**`BoundaryTagsProofs`, `SortedListProofs`**: `TagsInv` and `SortedInv` are the types, `Tiled`, that
blocks lie in the memory, and that each client's block is one that is large enough
(`Served`). The sorted list's theorem rests on three lemmas: the neighbours of a block
that comes back are the list's two next to it, or no neighbours (`LowerNeighbour`,
`UpperNeighbour`), and joining with any of them keeps all of it
(`MergeKeeps`). Both end in the refinement of `Heap`. Assumed: `TagsSizes` and `SortedSizes`,
that the memory has room for a header; for the sorted list a header is not empty, since
blocks are told apart by it.

**Only model-checked:** liveness (`ReadEnds`, `EveryRequestAnswered`, `EveryCommandShown`,
`StopEnds`), which is out of the prover's reach; `RangesExactWhereSafe`, `FileSurvivesDeath` and
`ImplementsBTree`, since iterators and the tree in a file (`BTreeRange`, `BTreeFile`) follow
pointers to any depth by recursive operators; and what `BuddiesSystem` and `RedBlackHeap`
have of `Tiled`, `ImplementsHeap`, `RedBlack` and `FitFound`: their rebalancing, and their merging of
buddies, are recursive operators too. `HistoricalValues`, `NoLossOnRestart`, `ReadsKeepTheData` and
`RangeExact` cannot be proved: the code violates them.

## What the checks found

1. **`update` records the new value** (`disk_controller.h:1045-1047`), but undoing
   an update writes the recorded value (`disk_controller.h:421-432`). A read at a time
   before the update returns the updated value. The in-memory tree records the old one
   (`b_tree.h:466-494`). Run `disk_historical_values`: insert, update, read at the time of
   the insert. The shapes, that is which directories and keys exist, are
   right (`HistoricalShape`).
2. **A death during a read of the past loses changes.** `revert_to` rewinds the
   disk itself; what it undid is remembered in memory and in `_bucket`, which the
   next constructor empties (`disk_controller.h:1463`). Run `disk_restart_loss`.
   `RestartKeepsRecorded` shows that it is the only way: with nothing undone, a
   start finds everything.
3. **A read of the past can take live data away in memory.** A collection in memory
   loses its history, or gets its neighbour's, when a collection beside it is added or
   removed, since copying and moving a `B_tree` leaves its stacks behind. The
   operations undone in a slot of a vector can then be those of the collection that
   was there before. Run `memory_loss`: collection 1 is put in front of collection 2, a
   key is inserted into it and removed, collection 2 is read at an earlier time; redoing
   that removal erases the key of collection 2. `ContentsAreRecorded` and
   `PastReadsAreRight` show that reads which do not go behind a change of directories are
   safe, whatever the moves have done to histories.
4. **A range of one key may come out empty.** `find_range` advances its second iterator only
   if it has `found_one` (`b_tree.h:905-951`), which it has not if the lower bound is no key and
   the two iterators coincide. Run `btree_range`: keys 2 and 3, the range from 1 up to 3
   is empty. `RangesExactWhereSafe` says when ranges are exact: in memory the upper bound
   is a key or belongs into the lower one's node; in a file, where the upper bound is always
   looked up in the lower one's node and an iterator cannot go back over the first key of a
   leaf, both bounds must lie in one node.
5. **Enter during a restart leaves a server behind.** `stop()` and `restart_server()` stop and
   replace one `server_process_` in two threads without a mutex. Run `heart_stop`: a probe is
   missed and Enter is pressed; `stop()` terminates the server and closes its handle; the restart
   sees that handle fail, launches a second server and assigns it; `stop()` goes on with
   `hProcess = NULL` (`launcher.cpp:104`). The destructor finds `NULL`, and the program ends with the
   second server running. `NothingLeftRunning`, proved, says that this race is the only way, and
   that one server is the most there is. In the same race `stop()` may call
   `WaitForSingleObject(..., INFINITE)` on the new process; and Enter before the new
   thread has run `is_running = true` (`heart.cpp:24`) makes a loop without end that `join` waits
   for. `StopEnds` says that there is no third way not to end.

Noted on the way, without a run, for no statement of the repository says otherwise:

- A death in the middle of a split, a borrow or a merge in a file leaves keys that no lookup
  finds: `FileSurvivesDeath` leaves these turns out, but for the claim that nothing
  comes up that was there neither before nor after.
- Even an insertion into a leaf or an erasure, which is a write or three, may lose keys by a death
  at the wrong moment: the record of the node is flushed before its keys and values are
  (`b_tree_disk.h:823`), so that the next process follows offsets beyond the end of the second
  file, and later those of other data. Keys whose lookup does not come to that node
  are found as before or after the operation (`LookupsSurviveDeath`).
- The buddies' best and worst fit compare with the size of an iterator at `nullptr` and die as
  soon as one block is free and large enough (`allocator_buddies_system.cpp:269`).
- A request too small for the two links of a free block makes the red-black allocator
  write over the next header when the block comes back (`allocator_red_black_tree.cpp:116`).
- Every read of the server is a read of the past, with a unique lock on the root. It
  sees its client's own writes only for the three hours that are added to its time on
  Windows: with the time as sent, `ReadYourWrites` fails (its mutant).
- A client whose task threw, or whose server died, asks for ever. A `read_range` with its bounds
  in the wrong order throws in its task, on disk (`b_tree_disk.h:1415`) and in memory (`b_tree.h:880`,
  `962`), and nothing before it looks at their order.

## What is not modelled

- **Errors of the file system** and of allocation, exceptions in tasks other than those of
  ranges and replays, and the two renames of a collection's two files as separate steps:
  existence is asked of the `.dat` file alone, which a removal moves first, and a new
  collection empties a data file that was left behind (`b_tree_disk.h:1108`). Only where a
  removal is taken back, in a read of the past, does `.dat` return before its data, and a
  death there is a case of `NoLossOnRestart`.
- The bytes of nodes and the offsets in the **file of keys and values** of a collection, which only
  grows; records, or the keys of a node, of which a part reaches its file. That the keys
  reach it after the record is in `BTreeFile`. `DiskController` keeps the data of a collection without
  its file, so that deaths in its runs find what a task wrote; `BTreeFile` has what they may miss.
- Ranges with their bounds in the wrong order in `MemoryController`: there they throw as in
  `DiskController`. The service has them (`backward_range`).
- A failing `CreateProcess`, and handle numbers that are given out again in the middle of a race.
- `from_memory` and `to_memory`, declared and never defined.
- Trees of more than one node **inside** the memory controller, where splits and merges
  would move inner trees as well; what `erase_inner` reads past the end of a vector to
  return an iterator (`b_tree.h:674`), which no caller uses; reverse iterators.
- Routes with **missing or unreadable parameters**; reads for a time the user gives (their
  controllers' part is `read_at` in the controllers); what is typed and shown.
- Moving and destroying **allocators**, parent allocators, foreign pointers, overflow of
  `value_size * values_count`. `allocator_global_heap`, which `main` uses, is `operator new`.
- **Student records** are bytes to and from a file, a value in the models.
- **Loggers** write lines to streams; nothing the system does depends on them.
- **Other exercises** (`src/Other`: labs of operating systems and numerical mathematics, big
  integers, search trees of another course, a copy of the allocators), the vendored
  headers, and tests. They are most of the repository's lines and no part of this
  system: each is a sequential program of its own, without state that lives between
  calls of the database. That is why the share of the repository's lines that the
  models map is small, though of the database itself they leave out little but
  formatting and parsing.

## Plan

Everything on the plan up to 10 is done.

1. `VersionedMap`, `TreeHistory`: history of one tree, refinement, proofs.
2. `PathLocks`, `DiskController`: locks, requests, history on disk, answers; theorems.
3. `DiskRestart`: death and start.
4. `TreesInTrees`, `MemoryController`: trees by value, mutexes, reads of the past; that
   nested mutexes exclude, as theorems.
5. `RequestService`, `Service`: client, routes and answers, with losses and deaths; theorems.
6. `Heart`: the watchdog, composed with the service; theorems.
7. `BTree`, `BTreeRange`, `BTreeFile`: nodes, ranges, writes and deaths.
8. `Heap` and four allocators; theorems of two.
9. `DiskHistoryProofs`, and the same for the memory controller: the history on disk and its
   restarts, the histories of trees in trees; theorems.
10. `BTreeProofs`: order, balance and lookups of the tree in memory; theorems.
11. Left: the two files of a collection as two renames; trees of several nodes inside the
   memory controller; `PathLocks` with requests that arrive for ever, where a unique
   waiter starves.

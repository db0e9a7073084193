--------------------------- MODULE DiskHistoryProofs ---------------------------
(***************************************************************************)
(* For any requests, any database to start with and any number of deaths:  *)
(* what the disk controller keeps is what its clients were told is done.   *)
(* Every entry of _history leads from one version of the database to the   *)
(* next; what the bucket holds is what the entries took away; _root is at  *)
(* the version the two stacks stand at, values apart, which come back with *)
(* the last of the entries.                                                *)
(***************************************************************************)
EXTENDS DiskRestart, DiskControllerProofs

-------------------------------------------------------------------------------
(* The invariant. *)

\* The helpers of a task are those of its path, from the root down.
HelpersNamed ==
  \A t \in Task : \A n \in 1..Len(held[t]) :
    held[t][n] = [path |-> SubSeq(request[t].path, 1, n - 1),
                  unique |-> UniqueLock(request[t].op, n)]

\* The two stacks are one list of the recorded changes, cut where the replay stands.
EntryAt(i) == IF i <= Len(history) THEN history[i] ELSE undone[Changes + 1 - i]
Entries == 1..Changes

Rooted(D) == \A q \in D, p \in Path : IsPrefix(p, q) => p \in D

\* The directories are D, and the keys those of version d.
ShapeIs(store, d, D) ==
  /\ DOMAIN store = D
  /\ \A p \in D, k \in Key : store[p].data[k] = NoVal <=> d[p][k] = NoVal

SameKeys(d, e, D) == \A p \in D, k \in Key : d[p][k] = NoVal <=> e[p][k] = NoVal
ParentIn(p, D) == Len(p) = 1 \/ Parent(p) \in D

\* Change c can be made of version d.
Applicable(d, c) ==
  \/ c.op \in AddOps /\ c.path \notin DOMAIN d /\ ParentIn(c.path, DOMAIN d)
  \/ c.op \in RemoveOps /\ c.path \in DOMAIN d /\ ParentIn(c.path, DOMAIN d)
  \/ /\ c.op \in DataOps /\ c.path \in DOMAIN d
     /\ d[c.path][c.key] = NoVal <=> c.op = "insert"

\* ... and leaves the directories and keys of e.
Leads(d, c, e) ==
  /\ Applicable(d, c)
  /\ c.op \in AddOps =>
       /\ DOMAIN e = DOMAIN d \cup {c.path} /\ SameKeys(d, e, DOMAIN d)
       /\ \A k \in Key : e[c.path][k] = NoVal
  /\ c.op \in RemoveOps =>
       DOMAIN e = DOMAIN d \ Below(d, c.path) /\ SameKeys(d, e, DOMAIN e)
  /\ c.op \in DataOps =>
       /\ DOMAIN e = DOMAIN d
       /\ \A p \in DOMAIN d, k \in Key :
            <<p, k>> # <<c.path, c.key>> => (d[p][k] = NoVal <=> e[p][k] = NoVal)
       /\ e[c.path][c.key] = NoVal <=> c.op = "remove"

StacksCover ==
  /\ Len(history) + Len(undone) = Changes
  /\ \A i \in Entries : EntryAt(i).time = i

IndexesOnce ==
  /\ \A i \in Entries : EntryAt(i).index < nextIndex
  /\ \A i, j \in Entries : EntryAt(i).index = EntryAt(j).index => i = j

VersionsLinked ==
  /\ \A i \in 1..Len(versions) : Rooted(DOMAIN versions[i])
  /\ \A i \in Entries : Leads(versions[i], EntryAt(i), versions[i + 1])

\* What an entry takes away when it is made, or taken back: the subtree of its path
\* in the version that has it.
InBucket(i) == EntryAt(i).op \in IF i <= Len(history) THEN RemoveOps ELSE AddOps
VersionWith(i) == IF EntryAt(i).op \in RemoveOps THEN versions[i] ELSE versions[i + 1]
Holds(x, d, p) == x \in DOMAIN bucket /\ ShapeIs(bucket[x], d, Below(d, p))

BucketHolds ==
  /\ \A x \in DOMAIN bucket : x \in Nat /\ x < nextIndex
  /\ \A i \in Entries : EntryAt(i).index \in DOMAIN bucket <=> InBucket(i)
  /\ \A i \in Entries : InBucket(i) => Holds(EntryAt(i).index, VersionWith(i), EntryAt(i).path)

\* A change that is made and not recorded.
InFlightPending ==
  \A t \in InFlight :
    /\ Applicable(Current, request[t])
    /\ request[t].op \in RemoveOps =>
         /\ saved[t].index < nextIndex
         /\ \A i \in Entries : EntryAt(i).index # saved[t].index
         /\ Holds(saved[t].index, Current, request[t].path)

Replaying == \E t \in Task : pc[t] \in {"revert", "look", "redo"}

\* Without a read of the past, _root is what the recorded changes and those in flight
\* make of it.
SettledAt(p) ==
  /\ \A t \in InFlight : Touches(request[t], p) =>
       Agree(DataOf(root), Changed(Current, ChangeOf(request[t])), p)
  /\ (\A t \in InFlight : ~Touches(request[t], p)) => Agree(DataOf(root), Current, p)
Settled == ~Replaying => undone = <<>> /\ \A p \in Path : SettledAt(p)

\* An entry, or a request, about the value of key k at path p.
TouchesKey(e, p, k) == Touches(e, p) /\ (e.op \in DataOps => e.key = k)
LastTouch(i, p, k) ==
  /\ TouchesKey(EntryAt(i), p, k)
  /\ \A j \in Entries : j > i => ~TouchesKey(EntryAt(j), p, k)

\* The entry that gave a key its value can give it again: an insertion always has it,
\* an update, which changes place with the value it replaces, when it is undone.
ValuesKept ==
  \A p \in DOMAIN Current, k \in Key, i \in Entries :
    Current[p][k] # NoVal /\ LastTouch(i, p, k) =>
      /\ EntryAt(i).op \in {"insert", "update"}
      /\ EntryAt(i).op = "insert" \/ i > Len(history) => EntryAt(i).val = Current[p][k]

\* During a read of the past _root has the shape of the version reached, and the values
\* no undone entry will bring back.
AtVersion ==
  Replaying =>
    /\ ShapeIs(root, AsOf(Len(history)), DOMAIN AsOf(Len(history)))
    /\ \A p \in DOMAIN Current, k \in Key :
         /\ Current[p][k] # NoVal
         /\ \A i \in Entries : i > Len(history) => ~TouchesKey(EntryAt(i), p, k)
         => p \in DOMAIN root /\ root[p].data[k] = Current[p][k]

\* A read of the past goes back to the version it asks for, and no further.
RevertStops ==
  \A t \in Task :
    /\ pc[t] = "revert" => Len(history) >= Requested(t)
    /\ pc[t] = "look" => Len(history) = Requested(t)

RecordInv ==
  /\ StacksCover /\ IndexesOnce /\ VersionsLinked
  /\ BucketHolds /\ InFlightPending
  /\ Settled /\ ValuesKept /\ AtVersion /\ RevertStops

-------------------------------------------------------------------------------
(* Paths. *)

LEMMA PathNames ==
  ASSUME NEW p \in Path
  PROVE  p \in Seq(Name) /\ Len(p) \in Nat \ {0}
<1>1. p \in Seq(Name) /\ p # <<>>  BY NameAssumption
<1> QED  BY <1>1

LEMMA PrefixMeans ==
  ASSUME NEW p \in Seq(Name), NEW q \in Seq(Name)
  PROVE  IsPrefix(p, q) <=> Len(p) <= Len(q) /\ \A i \in 1..Len(p) : p[i] = q[i]
<1>1. CASE Len(p) <= Len(q)
  <2>1. SubSeq(p, 1, Len(p)) = p  OBVIOUS
  <2>2. /\ SubSeq(q, 1, Len(p)) \in Seq(Name) /\ Len(SubSeq(q, 1, Len(p))) = Len(p)
        /\ \A i \in 1..Len(p) : SubSeq(q, 1, Len(p))[i] = q[i]
    BY <1>1
  <2>3. p = SubSeq(q, 1, Len(p)) <=> \A i \in 1..Len(p) : p[i] = SubSeq(q, 1, Len(p))[i]
    BY <2>2
  <2> QED  BY <1>1, <2>1, <2>2, <2>3 DEF IsPrefix
<1>2. CASE ~(Len(p) <= Len(q))  BY <1>2 DEF IsPrefix
<1> QED  BY <1>1, <1>2

LEMMA PrefixSelf ==
  ASSUME NEW p \in Path
  PROVE  IsPrefix(p, p)
BY PathNames, PrefixMeans

LEMMA PrefixTransitive ==
  ASSUME NEW p \in Path, NEW q \in Path, NEW r \in Path, IsPrefix(p, q), IsPrefix(q, r)
  PROVE  IsPrefix(p, r)
<1>1. /\ p \in Seq(Name) /\ q \in Seq(Name) /\ r \in Seq(Name)
      /\ Len(p) \in Nat /\ Len(q) \in Nat /\ Len(r) \in Nat
  BY PathNames
<1>2. Len(p) <= Len(q) /\ \A i \in 1..Len(p) : p[i] = q[i]  BY <1>1, PrefixMeans
<1>3. Len(q) <= Len(r) /\ \A i \in 1..Len(q) : q[i] = r[i]  BY <1>1, PrefixMeans
<1>4. \A i \in 1..Len(p) : i \in 1..Len(q) /\ p[i] = r[i]  BY <1>1, <1>2, <1>3
<1> QED  BY <1>1, <1>2, <1>3, <1>4, PrefixMeans

\* What is above a path is above its parent, and a parent is not below.
LEMMA PrefixParent ==
  ASSUME NEW p \in Path, Len(p) # 1
  PROVE  /\ ~IsPrefix(p, Parent(p))
         /\ \A q \in Path : IsPrefix(q, p) /\ q # p => IsPrefix(q, Parent(p))
<1>1. p \in Seq(Name) /\ Len(p) \in Nat \ {0}  BY PathNames
<1>2. /\ Parent(p) \in Seq(Name) /\ Len(Parent(p)) = Len(p) - 1
      /\ \A i \in 1..(Len(p) - 1) : Parent(p)[i] = p[i]
  <2>1. PICK n \in Nat : n = Len(p) - 1  BY <1>1
  <2>2. n <= Len(p)  BY <1>1, <2>1
  <2>3. /\ SubSeq(p, 1, n) \in Seq(Name) /\ Len(SubSeq(p, 1, n)) = n
        /\ \A i \in 1..n : SubSeq(p, 1, n)[i] = p[i]
    BY <1>1, <2>2
  <2> QED  BY <2>1, <2>3 DEF Parent
<1>3. ~IsPrefix(p, Parent(p))  BY <1>1, <1>2, PrefixMeans
<1>4. ASSUME NEW q \in Path, IsPrefix(q, p), q # p
      PROVE  IsPrefix(q, Parent(p))
  <2>1. q \in Seq(Name) /\ Len(q) \in Nat  BY PathNames
  <2>2. Len(q) <= Len(p) /\ \A i \in 1..Len(q) : q[i] = p[i]  BY <1>1, <1>4, <2>1, PrefixMeans
  <2>3. Len(q) # Len(p)
    <3>1. SUFFICES ASSUME Len(q) = Len(p) PROVE FALSE  OBVIOUS
    <3>2. \A i \in 1..Len(p) : q[i] = p[i]  BY <2>2, <3>1
    <3>3. q = p  BY <1>1, <2>1, <3>1, <3>2
    <3> QED  BY <1>4, <3>3
  <2>4. Len(q) <= Len(Parent(p))  BY <1>1, <1>2, <2>1, <2>2, <2>3
  <2>5. \A i \in 1..Len(q) : q[i] = Parent(p)[i]  BY <1>1, <1>2, <2>1, <2>2, <2>4
  <2> QED  BY <1>2, <2>1, <2>4, <2>5, PrefixMeans
<1> QED  BY <1>3, <1>4

\* The only path that contains a path of one name is that path.
LEMMA PrefixOfOne ==
  ASSUME NEW p \in Path, NEW q \in Path, Len(p) = 1, IsPrefix(q, p)
  PROVE  q = p
<1>1. p \in Seq(Name) /\ q \in Seq(Name) /\ Len(q) \in Nat \ {0}  BY PathNames
<1>2. Len(q) <= Len(p) /\ \A i \in 1..Len(q) : q[i] = p[i]  BY <1>1, PrefixMeans
<1>3. Len(q) = 1  BY <1>1, <1>2
<1> QED  BY <1>1, <1>2, <1>3

-------------------------------------------------------------------------------
(* Who is inside. *)

\* Where a task holds a lock, whatever it does.
Inside == {"check", "act", "opened", "log", "revert", "look", "redo", "unlock"}

LEMMA InsideHolds ==
  ASSUME ControlInv, NEW t \in Task, pc[t] \in Inside
  PROVE  Len(held[t]) > 0
<1>1. InScope(t, pc[t]) /\ Depth(request[t].op) \in 1..4
  BY DepthRange DEF ControlInv, HeldAsScoped
<1>2. CASE pc[t] \in {"act", "opened", "log"}
  <2>1. Len(held[t]) = Depth(request[t].op)  BY <1>1, <1>2 DEF InScope
  <2> QED  BY <1>1, <2>1
<1>3. CASE pc[t] \in {"revert", "look", "redo"}
  <2>1. Len(held[t]) = 1  BY <1>1, <1>3 DEF InScope
  <2> QED  BY <2>1
<1> QED  BY <1>1, <1>2, <1>3 DEF InScope, Inside

\* A request that takes the root for itself is the only one inside.
LEMMA Alone ==
  ASSUME ControlInv, UniqueIsExclusive, NEW t \in Task, pc[t] \in Inside,
         request[t].op \notin {"update", "remove", "read"}
  PROVE  \A u \in Task \ {t} : pc[u] \notin Inside
<1>1. SUFFICES ASSUME NEW u \in Task \ {t}, pc[u] \in Inside PROVE FALSE  OBVIOUS
<1>2. Len(held[t]) > 0 /\ Len(held[u]) > 0  BY <1>1, InsideHolds
<1>3. UniqueLock(request[t].op, 1)  BY DEF UniqueLock
<1>4. Len(held[u]) = 0  BY <1>2, <1>3, AloneAtRoot
<1> QED  BY <1>2, <1>4

LEMMA ReplayAlone ==
  ASSUME ControlInv, UniqueIsExclusive, NEW t \in Task, pc[t] \in {"revert", "look", "redo"}
  PROVE  /\ Replaying /\ InFlight = {}
         /\ \A u \in Task \ {t} : pc[u] \notin Inside
<1>1. InScope(t, pc[t])  BY DEF ControlInv, HeldAsScoped
<1>2. request[t].op = "read_at"  BY <1>1 DEF InScope
<1>3. \A u \in Task \ {t} : pc[u] \notin Inside  BY <1>2, Alone DEF Inside
<1> QED  BY <1>3 DEF Replaying, InFlight, Inside

\* Nothing is undone while a request is in flight.
LEMMA InFlightSettled ==
  ASSUME ControlInv, UniqueIsExclusive, NEW t \in Task, pc[t] \in {"act", "opened", "log"}
  PROVE  ~Replaying
<1>1. SUFFICES ASSUME NEW u \in Task, pc[u] \in {"revert", "look", "redo"} PROVE FALSE
  BY DEF Replaying
<1>2. \A v \in Task \ {u} : pc[v] \notin Inside  BY <1>1, ReplayAlone
<1> QED  BY <1>1, <1>2 DEF Inside

LEMMA HelpersNext ==
  ASSUME ControlInv, HelpersNamed, [Next]_vars
  PROVE  HelpersNamed'
<1>1. CASE UNCHANGED <<held, request>>  BY <1>1 DEF HelpersNamed
<1>2. ASSUME NEW t \in Task, Start(t) PROVE HelpersNamed'
  <2>1. held' = held /\ Len(held[t]) = 0 /\ \A u \in Task \ {t} : request'[u] = request[u]
    BY <1>2 DEF Start, ControlInv, HeldAsScoped, InScope
  <2>2. ASSUME NEW u \in Task, NEW n \in 1..Len(held'[u])
        PROVE  held'[u][n] = [path |-> SubSeq(request'[u].path, 1, n - 1),
                              unique |-> UniqueLock(request'[u].op, n)]
    <3>1. u # t  BY <2>1, <2>2
    <3>2. held'[u] = held[u] /\ request'[u] = request[u]  BY <2>1, <3>1
    <3>3. n \in 1..Len(held[u])  BY <2>2, <3>2
    <3> QED  BY <3>2, <3>3 DEF HelpersNamed
  <2> QED  BY <2>2, Zenon DEF HelpersNamed
<1>3. ASSUME NEW t \in Task, TakeLock(t) PROVE HelpersNamed'
  <2>1. /\ held[t] \in Seq(Helper) /\ Len(held[t]) \in Nat /\ request' = request
    BY <1>3 DEF ControlInv, TakeLock, taskVars
  <2>2. PICK n : n = Len(held[t]) + 1 /\ n \in Nat \ {0}  BY <2>1
  <2>3. Lock(t, SubSeq(request[t].path, 1, n - 1), UniqueLock(request[t].op, n))
    BY <1>3, <2>2 DEF TakeLock
  <2>4. PICK h : h = [path |-> SubSeq(request[t].path, 1, n - 1),
                      unique |-> UniqueLock(request[t].op, n)]
    OBVIOUS
  <2>5. held' = [held EXCEPT ![t] = Append(@, h)]  BY <2>3, <2>4 DEF Lock
  <2>6. held'[t] = Append(held[t], h) /\ \A u \in Task \ {t} : held'[u] = held[u]
    BY <2>5 DEF ControlInv
  <2>7. ASSUME NEW m \in 1..Len(held'[t])
        PROVE  held'[t][m] = [path |-> SubSeq(request[t].path, 1, m - 1),
                              unique |-> UniqueLock(request[t].op, m)]
    <3>1. Len(held'[t]) = n  BY <2>1, <2>2, <2>6
    <3>2. CASE m = n  BY <2>1, <2>2, <2>4, <2>6, <3>2
    <3>3. CASE m # n
      <4>1. m \in 1..Len(held[t])  BY <2>1, <2>2, <2>7, <3>1, <3>3
      <4>2. held'[t][m] = held[t][m]  BY <2>1, <2>6, <4>1
      <4> QED  BY <4>1, <4>2 DEF HelpersNamed
    <3> QED  BY <3>2, <3>3
  <2> QED  BY <2>1, <2>6, <2>7 DEF HelpersNamed
<1>4. ASSUME NEW t \in Task, ReleaseLock(t) PROVE HelpersNamed'
  <2>1. /\ held[t] \in Seq(Helper) /\ Unlock(t) /\ request' = request
    BY <1>4 DEF ControlInv, ReleaseLock, taskVars
  <2>2. Len(held[t]) \in Nat \ {0}  BY <2>1 DEF Unlock
  <2>3. held'[t] = SubSeq(held[t], 1, Len(held[t]) - 1)
        /\ \A u \in Task \ {t} : held'[u] = held[u]
    BY <2>1 DEF Unlock, ControlInv
  <2>4. Len(held'[t]) = Len(held[t]) - 1
        /\ \A i \in 1..(Len(held[t]) - 1) : held'[t][i] = held[t][i]
    BY <2>1, <2>2, <2>3
  <2>5. \A i \in 1..Len(held'[t]) : i \in 1..Len(held[t]) /\ held'[t][i] = held[t][i]
    BY <2>2, <2>4
  <2> QED  BY <2>1, <2>3, <2>5 DEF HelpersNamed
<1>5. ASSUME NEW t \in Task, RevertStep(t) \/ RedoStep(t) PROVE HelpersNamed'
  BY <1>1, <1>5 DEF RevertStep, RedoStep, taskVars
<1>6. ASSUME NEW t \in Task, TaskStep(t) PROVE HelpersNamed'
  <2>1. request' = request  BY <1>6, StepTargets
  <2> QED
    BY <1>1, <1>3, <1>4, <1>5, <1>6, <2>1, OperationControl, PassageControl
       DEF TaskStep, lockVars
<1>7. CASE Finished \/ UNCHANGED vars  BY <1>1, <1>7 DEF Finished, vars
<1>8. ASSUME NEW t \in Task, Get(t) PROVE HelpersNamed'  BY <1>1, <1>8 DEF Get
<1> QED  BY <1>2, <1>6, <1>7, <1>8 DEF Next

\* A writer of a collection is the only request at work in it.
LEMMA WritersApart ==
  ASSUME ControlInv, HelpersNamed, UniqueIsExclusive, NEW t \in Task, NEW u \in Task,
         pc[t] \in {"act", "opened", "log"}, request[t].op \in {"update", "remove"},
         pc[u] \in {"act", "opened", "log"}, request[u].op \in DataOps \cup {"read"},
         request[u].path = request[t].path
  PROVE  t = u
<1>1. \A v \in {t, u} : InScope(v, pc[v]) /\ Depth(request[v].op) = 4
  BY DEF ControlInv, HeldAsScoped, Depth, DataOps
<1>2. Len(held[t]) = 4 /\ Len(held[u]) = 4  BY <1>1 DEF InScope
<1>3. held[t] \in Seq(Helper) /\ held[u] \in Seq(Helper)  BY DEF ControlInv
<1>4. 4 \in DOMAIN held[t] /\ 4 \in DOMAIN held[u]  BY <1>2, <1>3
<1>5. PICK p : p = SubSeq(request[t].path, 1, 3)  OBVIOUS
<1>6. held[t][4] = [path |-> p, unique |-> TRUE]
  <2>1. held[t][4] = [path |-> p, unique |-> UniqueLock(request[t].op, 4)]
    <3>1. \A n \in 1..4 : held[t][n] = [path |-> SubSeq(request[t].path, 1, n - 1),
                                       unique |-> UniqueLock(request[t].op, n)]
      BY <1>2 DEF HelpersNamed
    <3> QED  BY <1>5, <3>1
  <2>2. UniqueLock(request[t].op, 4) = TRUE  BY <1>1 DEF UniqueLock
  <2> QED  BY <2>1, <2>2, Zenon
<1>7. held[u][4].path = p
  <2>1. held[u][4] = [path |-> p, unique |-> UniqueLock(request[u].op, 4)]
    <3>1. \A n \in 1..4 : held[u][n] = [path |-> SubSeq(request[u].path, 1, n - 1),
                                       unique |-> UniqueLock(request[u].op, n)]
      BY <1>2 DEF HelpersNamed
    <3> QED  BY <1>5, <3>1
  <2>2. \A b : [path |-> p, unique |-> b].path = p  OBVIOUS
  <2> QED  BY <2>1, <2>2, Zenon
<1>8. HoldsUnique(t, p)  BY <1>4, <1>6 DEF HoldsUnique
<1>9. p \in HeldPaths(u)  BY <1>4, <1>7 DEF HeldPaths
<1>10. p \in LockPath
  <2>1. held[t][4] \in Helper  BY <1>3, <1>4
  <2> QED  BY <1>6, <2>1 DEF Helper
<1> QED  BY <1>8, <1>9, <1>10 DEF UniqueIsExclusive

-------------------------------------------------------------------------------
(* Versions, and the changes between them. *)

\* What is put in place of the value of a key.
NewVal(c) == IF c.op = "remove" THEN NoVal ELSE c.val

LEMMA ChangedMeans ==
  ASSUME NEW d, NEW c, c.op \in DirOps \cup DataOps
  PROVE  /\ c.op \in AddOps => Changed(d, ChangeOf(c)) = With(d, c.path, NoData)
         /\ c.op \in RemoveOps => Changed(d, ChangeOf(c)) = Without(d, c.path)
         /\ c.op \in DataOps =>
              Changed(d, ChangeOf(c))
                = [d EXCEPT ![c.path] = [d[c.path] EXCEPT ![c.key] = NewVal(c)]]
<1>1. PICK x : x = ChangeOf(c)  OBVIOUS
<1>2. x.op = c.op /\ x.path = c.path /\ x.key = c.key /\ x.val = c.val  BY <1>1 DEF ChangeOf
<1>3. CASE c.op \in AddOps
  <2>1. Changed(d, x) = With(d, x.path, NoData)  BY <1>2, <1>3 DEF Changed, AddOps, RemoveOps
  <2> QED  BY <1>1, <1>2, <1>3, <2>1 DEF AddOps, RemoveOps, DataOps
<1>4. CASE c.op \in RemoveOps
  <2>1. Changed(d, x) = Without(d, x.path)  BY <1>2, <1>4 DEF Changed, AddOps, RemoveOps
  <2> QED  BY <1>1, <1>2, <1>4, <2>1 DEF AddOps, RemoveOps, DataOps
<1>5. CASE c.op \in DataOps
  <2>1. Changed(d, x) = [d EXCEPT ![x.path] = [d[x.path] EXCEPT ![x.key] = NewVal(c)]]
    BY <1>2, <1>5 DEF Changed, AddOps, RemoveOps, DataOps, NewVal
  <2> QED  BY <1>1, <1>2, <1>5, <2>1 DEF AddOps, RemoveOps, DataOps
<1> QED  BY <1>3, <1>4, <1>5 DEF DirOps

LEMMA AgreeTransitive ==
  ASSUME NEW d, NEW e, NEW f, NEW p, Agree(d, e, p), Agree(e, f, p)
  PROVE  Agree(d, f, p) /\ Agree(e, d, p)
BY DEF Agree

\* A change changes what it touches, and depends on nothing else.
LEMMA ChangedElsewhere ==
  ASSUME NEW d, NEW c, c.op \in DirOps \cup DataOps, c.path \in Path,
         NEW p \in Path, ~Touches(c, p)
  PROVE  Agree(Changed(d, ChangeOf(c)), d, p)
<1>1. p # c.path  BY PrefixSelf DEF Touches
<1>2. CASE c.op \in AddOps
  <2>1. Changed(d, ChangeOf(c)) = With(d, c.path, NoData)  BY <1>2, ChangedMeans
  <2> QED  BY <1>1, <2>1 DEF Agree, With
<1>3. CASE c.op \in RemoveOps
  <2>1. Changed(d, ChangeOf(c)) = Without(d, c.path)  BY <1>3, ChangedMeans
  <2>2. ~IsPrefix(c.path, p)  BY <1>3 DEF Touches, DirOps
  <2> QED  BY <2>1, <2>2 DEF Agree, Without, Restrict, Below
<1>4. CASE c.op \in DataOps
  <2>1. Changed(d, ChangeOf(c)) = [d EXCEPT ![c.path] = [d[c.path] EXCEPT ![c.key] = NewVal(c)]]
    BY <1>4, ChangedMeans
  <2> QED  BY <1>1, <2>1 DEF Agree
<1> QED  BY <1>2, <1>3, <1>4 DEF DirOps

LEMMA ChangedAlike ==
  ASSUME NEW d, NEW e, NEW c, c.op \in DirOps \cup DataOps, NEW p, Agree(d, e, p)
  PROVE  Agree(Changed(d, ChangeOf(c)), Changed(e, ChangeOf(c)), p)
<1>1. CASE c.op \in AddOps
  <2>1. /\ Changed(d, ChangeOf(c)) = With(d, c.path, NoData)
        /\ Changed(e, ChangeOf(c)) = With(e, c.path, NoData)
    BY <1>1, ChangedMeans
  <2> QED  BY <2>1 DEF Agree, With
<1>2. CASE c.op \in RemoveOps
  <2>1. /\ Changed(d, ChangeOf(c)) = Without(d, c.path)
        /\ Changed(e, ChangeOf(c)) = Without(e, c.path)
    BY <1>2, ChangedMeans
  <2> QED  BY <2>1 DEF Agree, Without, Restrict, Below
<1>3. CASE c.op \in DataOps
  <2>1. \A v \in {d, e} : Changed(v, ChangeOf(c))
          = [v EXCEPT ![c.path] = [v[c.path] EXCEPT ![c.key] = NewVal(c)]]
    BY <1>3, ChangedMeans
  <2> QED  BY <2>1 DEF Agree
<1> QED  BY <1>1, <1>2, <1>3 DEF DirOps

\* What it is about is all that decides whether it can be made.
LEMMA ApplicableAlike ==
  ASSUME NEW d, NEW e, NEW c, c.op \in DataOps, Agree(d, e, c.path), Applicable(d, c)
  PROVE  Applicable(e, c)
BY DEF Applicable, Agree, DataOps, AddOps, RemoveOps

LEMMA RootedChanged ==
  ASSUME NEW d \in Snapshot, Rooted(DOMAIN d), NEW c, c.op \in DirOps \cup DataOps,
         c.path \in Path, Applicable(d, c)
  PROVE  Rooted(DOMAIN Changed(d, ChangeOf(c)))
<1>0. DOMAIN d \subseteq Path  BY IsSnapshot
<1>1. CASE c.op \in AddOps
  <2>0. Changed(d, ChangeOf(c)) = With(d, c.path, NoData)  BY <1>1, ChangedMeans
  <2>1. DOMAIN Changed(d, ChangeOf(c)) = DOMAIN d \cup {c.path}  BY <2>0 DEF With
  <2>2. ParentIn(c.path, DOMAIN d)  BY <1>1 DEF Applicable, AddOps, RemoveOps, DataOps
  <2>3. ASSUME NEW p \in Path, IsPrefix(p, c.path), p # c.path
        PROVE  p \in DOMAIN d
    <3>1. Len(c.path) # 1  BY <2>3, PrefixOfOne
    <3>2. IsPrefix(p, Parent(c.path)) /\ Parent(c.path) \in DOMAIN d
      BY <2>2, <2>3, <3>1, PrefixParent DEF ParentIn
    <3> QED  BY <3>2 DEF Rooted
  <2> QED  BY <2>1, <2>3 DEF Rooted
<1>2. CASE c.op \in RemoveOps
  <2>0. Changed(d, ChangeOf(c)) = Without(d, c.path)  BY <1>2, ChangedMeans
  <2>1. DOMAIN Changed(d, ChangeOf(c)) = DOMAIN d \ Below(d, c.path)
    BY <2>0 DEF Without, Restrict
  <2>2. ASSUME NEW q \in DOMAIN d \ Below(d, c.path), NEW p \in Path, IsPrefix(p, q)
        PROVE  p \in DOMAIN d \ Below(d, c.path)
    <3>1. p \in DOMAIN d  BY <2>2 DEF Rooted
    <3>2. ~IsPrefix(c.path, p)  BY <1>0, <2>2, PrefixTransitive DEF Below
    <3> QED  BY <3>1, <3>2 DEF Below
  <2> QED  BY <2>1, <2>2 DEF Rooted
<1>3. CASE c.op \in DataOps
  <2>0. Changed(d, ChangeOf(c)) = [d EXCEPT ![c.path] = [d[c.path] EXCEPT ![c.key] = NewVal(c)]]
    BY <1>3, ChangedMeans
  <2>1. DOMAIN Changed(d, ChangeOf(c)) = DOMAIN d  BY <2>0
  <2> QED  BY <2>1
<1> QED  BY <1>1, <1>2, <1>3 DEF DirOps

\* An entry with the operation, the path and the key of a change that is made.
LEMMA ChangedLeads ==
  ASSUME NEW d \in Snapshot, NEW c, c.op \in DirOps \cup DataOps, Applicable(d, c),
         c.op \in DataOps => c.key \in Key,
         c.op \in {"insert", "update"} => c.val \in Val,
         NEW e, e.op = c.op, e.path = c.path, e.key = c.key
  PROVE  Leads(d, e, Changed(d, ChangeOf(c)))
<1>1. Applicable(d, e)  BY DEF Applicable
<1>2. CASE c.op \in AddOps
  <2>1. Changed(d, ChangeOf(c)) = With(d, c.path, NoData)  BY <1>2, ChangedMeans
  <2>2. c.path \notin DOMAIN d  BY <1>2 DEF Applicable, AddOps, RemoveOps, DataOps
  <2>3. e.op \notin RemoveOps \cup DataOps  BY <1>2 DEF AddOps, RemoveOps, DataOps
  <2> QED  BY <1>1, <2>1, <2>2, <2>3 DEF Leads, With, SameKeys, NoData
<1>3. CASE c.op \in RemoveOps
  <2>1. Changed(d, ChangeOf(c)) = Without(d, c.path)  BY <1>3, ChangedMeans
  <2>2. e.op \notin AddOps \cup DataOps  BY <1>3 DEF AddOps, RemoveOps, DataOps
  <2> QED  BY <1>1, <2>1, <2>2 DEF Leads, Without, Restrict, SameKeys
<1>4. CASE c.op \in DataOps
  <2>1. Changed(d, ChangeOf(c)) = [d EXCEPT ![c.path] = [d[c.path] EXCEPT ![c.key] = NewVal(c)]]
    BY <1>4, ChangedMeans
  <2>2. c.path \in DOMAIN d  BY <1>4 DEF Applicable, AddOps, RemoveOps, DataOps
  <2>3. d[c.path] \in [Key -> Val \cup {NoVal}]  BY <2>2, IsSnapshot
  <2>4. NewVal(c) = NoVal <=> c.op = "remove"
    BY <1>4, NoValAssumption DEF NewVal, DataOps
  <2>5. e.op \notin AddOps \cup RemoveOps  BY <1>4 DEF AddOps, RemoveOps, DataOps
  <2>6. PICK w : w = Changed(d, ChangeOf(c))  OBVIOUS
  <2>7. DOMAIN w = DOMAIN d /\ w[c.path] = [d[c.path] EXCEPT ![c.key] = NewVal(c)]
        /\ \A p \in DOMAIN d \ {c.path} : w[p] = d[p]
    BY <2>1, <2>2, <2>6
  <2>8. w[c.path][c.key] = NewVal(c) /\ \A k \in Key \ {c.key} : w[c.path][k] = d[c.path][k]
    BY <1>4, <2>3, <2>7
  <2>9. \A p \in DOMAIN d, k \in Key : <<p, k>> # <<c.path, c.key>> => w[p][k] = d[p][k]
    BY <2>7, <2>8
  <2> QED  BY <1>1, <2>4, <2>5, <2>6, <2>7, <2>8, <2>9 DEF Leads
<1> QED  BY <1>2, <1>3, <1>4 DEF DirOps

LEMMA LeadsFields ==
  ASSUME NEW d, NEW e, NEW c, NEW b, Leads(d, c, e), b.op = c.op, b.path = c.path, b.key = c.key
  PROVE  Leads(d, b, e)
BY DEF Leads, Applicable

-------------------------------------------------------------------------------
(* Undo and redo, between two versions. *)

\* Version w is version v without what is below p.
Cut(v, p, w) ==
  /\ p \in DOMAIN v /\ DOMAIN w = DOMAIN v \ Below(v, p)
  /\ SameKeys(v, w, DOMAIN w)

\* An addition is taken back, and a removal made, by cutting.
LEMMA LeadsCut ==
  ASSUME NEW d, NEW c, NEW e, Leads(d, c, e), c.path \in Path, DOMAIN d \subseteq Path,
         Rooted(DOMAIN d)
  PROVE  /\ c.op \in RemoveOps => Cut(d, c.path, e)
         /\ c.op \in AddOps => Cut(e, c.path, d)
<1>1. ASSUME c.op \in RemoveOps PROVE Cut(d, c.path, e)
  BY <1>1 DEF Leads, Applicable, Cut, AddOps, RemoveOps, DataOps
<1>2. ASSUME c.op \in AddOps PROVE Cut(e, c.path, d)
  <2>1. /\ c.path \notin DOMAIN d /\ DOMAIN e = DOMAIN d \cup {c.path}
        /\ SameKeys(d, e, DOMAIN d)
    BY <1>2 DEF Leads, Applicable, AddOps, RemoveOps, DataOps
  <2>2. \A q \in DOMAIN d : ~IsPrefix(c.path, q)  BY <2>1 DEF Rooted
  <2>3. Below(e, c.path) = {c.path}  BY <2>1, <2>2, PrefixSelf DEF Below
  <2> QED  BY <2>1, <2>3 DEF Cut, SameKeys
<1> QED  BY <1>1, <1>2

LEMMA MoveOut ==
  ASSUME NEW v, NEW p, NEW w, NEW x, Cut(v, p, w), ShapeIs(root, v, DOMAIN v),
         MoveToBucket(p, x)
  PROVE  /\ ShapeIs(root', w, DOMAIN w)
         /\ DOMAIN bucket' = DOMAIN bucket \cup {x}
         /\ ShapeIs(bucket'[x], v, Below(v, p))
         /\ \A y \in DOMAIN bucket \ {x} : bucket'[y] = bucket[y]
         /\ \A q \in DOMAIN root : ~IsPrefix(p, q) => q \in DOMAIN root' /\ root'[q] = root[q]
<1>1. DOMAIN root = DOMAIN v /\ Below(root, p) = Below(v, p)  BY DEF ShapeIs, Below
<1>2. /\ DOMAIN root' = DOMAIN v \ Below(v, p)
      /\ \A q \in DOMAIN root' : root'[q] = root[q]
  BY <1>1 DEF MoveToBucket, Without, Restrict
<1>3. ShapeIs(root', w, DOMAIN w)  BY <1>2 DEF Cut, ShapeIs, SameKeys
<1>4. bucket' = With(bucket, x, Restrict(root, Below(v, p)))  BY <1>1 DEF MoveToBucket
<1>5. /\ DOMAIN bucket' = DOMAIN bucket \cup {x}
      /\ bucket'[x] = Restrict(root, Below(v, p))
      /\ \A y \in DOMAIN bucket \ {x} : bucket'[y] = bucket[y]
  BY <1>4 DEF With
<1>6. ShapeIs(Restrict(root, Below(v, p)), v, Below(v, p))
  BY <1>1 DEF ShapeIs, Restrict, Below
<1> QED  BY <1>1, <1>2, <1>3, <1>5, <1>6 DEF Below

LEMMA MoveIn ==
  ASSUME NEW v, NEW p, NEW w, NEW x, Cut(v, p, w), ShapeIs(root, w, DOMAIN w),
         ShapeIs(bucket[x], v, Below(v, p)), MoveBack(x)
  PROVE  /\ ShapeIs(root', v, DOMAIN v)
         /\ DOMAIN bucket' = DOMAIN bucket \ {x}
         /\ \A y \in DOMAIN bucket \ {x} : bucket'[y] = bucket[y]
         /\ \A q \in DOMAIN root : ~IsPrefix(p, q) => q \in DOMAIN root' /\ root'[q] = root[q]
<1>1. PICK moved : moved = bucket[x]  OBVIOUS
<1>2. DOMAIN moved = Below(v, p) /\ DOMAIN root = DOMAIN v \ Below(v, p)
  BY <1>1 DEF ShapeIs, Cut
<1>3. root' = [q \in DOMAIN moved \cup DOMAIN root |->
                 IF q \in DOMAIN moved THEN moved[q] ELSE root[q]]
  BY <1>1 DEF MoveBack
<1>4. DOMAIN root' = DOMAIN v  BY <1>2, <1>3 DEF Below
<1>5. ASSUME NEW q \in DOMAIN v, NEW k \in Key
      PROVE  root'[q].data[k] = NoVal <=> v[q][k] = NoVal
  <2>1. CASE q \in Below(v, p)
    <3>1. root'[q] = moved[q]  BY <1>2, <1>3, <2>1
    <3> QED  BY <1>1, <2>1, <3>1 DEF ShapeIs
  <2>2. CASE q \notin Below(v, p)
    <3>1. root'[q] = root[q] /\ q \in DOMAIN w  BY <1>2, <1>3, <2>2 DEF Cut
    <3> QED  BY <3>1 DEF ShapeIs, Cut, SameKeys
  <2> QED  BY <2>1, <2>2
<1>6. /\ DOMAIN bucket' = DOMAIN bucket \ {x}
      /\ \A y \in DOMAIN bucket \ {x} : bucket'[y] = bucket[y]
  BY DEF MoveBack, Restrict
<1>7. \A q \in DOMAIN root : ~IsPrefix(p, q) => q \in DOMAIN root' /\ root'[q] = root[q]
  BY <1>2, <1>3 DEF Below
<1> QED  BY <1>4, <1>5, <1>6, <1>7 DEF ShapeIs

\* What SetValue and InsertValue have in common.
SetsData(p, k, x) ==
  /\ DOMAIN root' = DOMAIN root /\ \A q \in DOMAIN root \ {p} : root'[q] = root[q]
  /\ root'[p].data = [root[p].data EXCEPT ![k] = x]

LEMMA ValuesSet ==
  ASSUME StoreOK(root), NEW p \in DOMAIN root, NEW k \in Key, NEW x \in Val \cup {NoVal}
  PROVE  /\ SetValue(p, k, x) => SetsData(p, k, x)
         /\ \A c : InsertValue(p, k, x, c) => SetsData(p, k, x)
<1>1. root[p] \in Content  BY DEF StoreOK
<1>2. ASSUME SetValue(p, k, x) PROVE SetsData(p, k, x)
  <2>1. root' = [root EXCEPT ![p] = [root[p] EXCEPT !.data = [root[p].data EXCEPT ![k] = x]]]
    BY <1>2 DEF SetValue
  <2>2. root'[p] = [root[p] EXCEPT !.data = [root[p].data EXCEPT ![k] = x]]  BY <2>1
  <2>3. root'[p].data = [root[p].data EXCEPT ![k] = x]  BY <1>1, <2>2 DEF Content
  <2> QED  BY <2>1, <2>3 DEF SetsData
<1>3. ASSUME NEW c, InsertValue(p, k, x, c) PROVE SetsData(p, k, x)
  <2>1. PICK nodes :
          root' = [root EXCEPT ![p] = [data |-> [root[p].data EXCEPT ![k] = x], nodes |-> nodes]]
    BY <1>3 DEF InsertValue
  <2>2. root'[p] = [data |-> [root[p].data EXCEPT ![k] = x], nodes |-> nodes]  BY <2>1
  <2> QED  BY <2>1, <2>2 DEF SetsData
<1> QED  BY <1>2, <1>3

LEMMA SetShape ==
  ASSUME StoreOK(root), NEW v, NEW w, ShapeIs(root, v, DOMAIN v), NEW p \in DOMAIN v,
         NEW k \in Key, NEW x, SetsData(p, k, x), DOMAIN w = DOMAIN v,
         \A q \in DOMAIN v, l \in Key :
           <<q, l>> # <<p, k>> => (v[q][l] = NoVal <=> w[q][l] = NoVal),
         x = NoVal <=> w[p][k] = NoVal
  PROVE  /\ ShapeIs(root', w, DOMAIN w)
         /\ root'[p].data[k] = x
         /\ \A q \in DOMAIN root, l \in Key : <<q, l>> # <<p, k>> =>
              q \in DOMAIN root' /\ root'[q].data[l] = root[q].data[l]
<1>1. DOMAIN root = DOMAIN v  BY DEF ShapeIs
<1>2. root[p].data \in [Key -> Val \cup {NoVal}]  BY <1>1 DEF StoreOK, Content
<1>3. root'[p].data[k] = x /\ \A l \in Key \ {k} : root'[p].data[l] = root[p].data[l]
  BY <1>2 DEF SetsData
<1>4. \A q \in DOMAIN root, l \in Key : <<q, l>> # <<p, k>> =>
        q \in DOMAIN root' /\ root'[q].data[l] = root[q].data[l]
  BY <1>3 DEF SetsData
<1>5. ASSUME NEW q \in DOMAIN w, NEW l \in Key
      PROVE  root'[q].data[l] = NoVal <=> w[q][l] = NoVal
  <2>1. CASE <<q, l>> = <<p, k>>  BY <1>3, <2>1
  <2>2. CASE <<q, l>> # <<p, k>>  BY <1>1, <1>4, <1>5, <2>2 DEF ShapeIs
  <2> QED  BY <2>1, <2>2
<1> QED  BY <1>1, <1>3, <1>4, <1>5 DEF ShapeIs, SetsData

\* What entry c takes away is in the bucket under its index, or is nowhere.
Bucketed(c, v, ops) ==
  /\ c.op \in ops =>
       c.index \in DOMAIN bucket /\ ShapeIs(bucket[c.index], v, Below(v, c.path))
  /\ c.op \notin ops => c.index \notin DOMAIN bucket

\* A step from one version to the next of the replay, with the bucket it leaves.
Moved(c, v, w, ops) ==
  /\ ShapeIs(root', w, DOMAIN w)
  /\ \A x : x # c.index =>
       /\ x \in DOMAIN bucket' <=> x \in DOMAIN bucket
       /\ x \in DOMAIN bucket => bucket'[x] = bucket[x]
  /\ c.op \in ops =>
       c.index \in DOMAIN bucket' /\ ShapeIs(bucket'[c.index], v, Below(v, c.path))
  /\ c.op \notin ops => c.index \notin DOMAIN bucket'
  /\ \A p \in DOMAIN root, k \in Key :
       ~TouchesKey(c, p, k) => p \in DOMAIN root' /\ root'[p].data[k] = root[p].data[k]

LEMMA UndoMoves ==
  ASSUME FilesOK, NEW c \in Logged, NEW d, NEW e, DOMAIN d \subseteq Path, Rooted(DOMAIN d),
         Leads(d, c, e), ShapeIs(root, e, DOMAIN e), Bucketed(c, d, RemoveOps)
  PROVE  Undoable(c) /\ (Undo(c) => Moved(c, e, d, AddOps))
<1>1. c \in Entry /\ c.path \in Path /\ c.op \in DirOps \cup DataOps
  BY DEF Logged, Entry
<1>2. /\ c.op \in RemoveOps => Cut(d, c.path, e)
      /\ c.op \in AddOps => Cut(e, c.path, d)
      /\ DOMAIN root = DOMAIN e /\ StoreOK(root)
  BY <1>1, LeadsCut DEF ShapeIs, FilesOK
<1>3. CASE c.op \in AddOps
  <2>1. c.op \notin RemoveOps \cup DataOps  BY <1>3 DEF AddOps, RemoveOps, DataOps
  <2>2. Undoable(c)  BY <1>2, <1>3, <2>1 DEF Undoable, Cut, Bucketed
  <2>3. ASSUME Undo(c) PROVE Moved(c, e, d, AddOps)
    <3>1. MoveToBucket(c.path, c.index)
      BY <1>3, <2>1, <2>3 DEF Undo, AddOps
    <3>2. /\ ShapeIs(root', d, DOMAIN d)
          /\ DOMAIN bucket' = DOMAIN bucket \cup {c.index}
          /\ ShapeIs(bucket'[c.index], e, Below(e, c.path))
          /\ \A y \in DOMAIN bucket \ {c.index} : bucket'[y] = bucket[y]
          /\ \A q \in DOMAIN root :
               ~IsPrefix(c.path, q) => q \in DOMAIN root' /\ root'[q] = root[q]
      BY <1>2, <1>3, <3>1, MoveOut
    <3>3. \A p, k : ~TouchesKey(c, p, k) => ~IsPrefix(c.path, p)
      BY <1>3, <2>1 DEF TouchesKey, Touches, DirOps
    <3> QED  BY <1>3, <3>2, <3>3 DEF Moved
  <2> QED  BY <2>2, <2>3
<1>4. CASE c.op \in RemoveOps
  <2>1. c.op \notin AddOps \cup DataOps  BY <1>4 DEF AddOps, RemoveOps, DataOps
  <2>2. Undoable(c)
    <3>1. c.index \in DOMAIN bucket  BY <1>4 DEF Bucketed
    <3>2. c.path \notin DOMAIN root
      BY <1>1, <1>2, <1>4, PrefixSelf DEF Cut, Below
    <3>3. ParentExists(c.path)
      <4>1. ParentIn(c.path, DOMAIN d)  BY <1>4, <2>1 DEF Leads, Applicable
      <4>2. Len(c.path) # 1 => ~IsPrefix(c.path, Parent(c.path))  BY <1>1, PrefixParent
      <4> QED  BY <1>2, <1>4, <4>1, <4>2 DEF ParentIn, ParentExists, Cut, Below
    <3> QED  BY <1>4, <3>1, <3>2, <3>3 DEF Undoable
  <2>3. ASSUME Undo(c) PROVE Moved(c, e, d, AddOps)
    <3>1. MoveBack(c.index)  BY <1>4, <2>1, <2>3 DEF Undo, RemoveOps
    <3>2. /\ ShapeIs(root', d, DOMAIN d)
          /\ DOMAIN bucket' = DOMAIN bucket \ {c.index}
          /\ \A y \in DOMAIN bucket \ {c.index} : bucket'[y] = bucket[y]
          /\ \A q \in DOMAIN root :
               ~IsPrefix(c.path, q) => q \in DOMAIN root' /\ root'[q] = root[q]
      <4>1. ShapeIs(bucket[c.index], d, Below(d, c.path))  BY <1>4 DEF Bucketed
      <4> QED  BY <1>2, <1>4, <3>1, <4>1, MoveIn
    <3>3. \A p, k : ~TouchesKey(c, p, k) => ~IsPrefix(c.path, p)
      BY <1>4, <2>1 DEF TouchesKey, Touches, DirOps
    <3> QED  BY <2>1, <3>2, <3>3 DEF Moved
  <2> QED  BY <2>2, <2>3
<1>5. CASE c.op \in DataOps
  <2>1. c.op \notin AddOps \cup RemoveOps  BY <1>5 DEF AddOps, RemoveOps, DataOps
  <2>2. /\ c.path \in DOMAIN d /\ DOMAIN e = DOMAIN d /\ c.key \in Key /\ c.val \in Val
        /\ \A p \in DOMAIN d, k \in Key :
             <<p, k>> # <<c.path, c.key>> => (d[p][k] = NoVal <=> e[p][k] = NoVal)
        /\ e[c.path][c.key] = NoVal <=> c.op = "remove"
        /\ d[c.path][c.key] = NoVal <=> c.op = "insert"
    BY <1>5, <2>1 DEF Leads, Applicable, Logged
  <2>3. Undoable(c)  BY <1>2, <1>5, <2>2 DEF Undoable, ShapeIs
  <2>4. ASSUME Undo(c) PROVE Moved(c, e, d, AddOps)
    <3>1. PICK x \in Val \cup {NoVal} :
            /\ SetValue(c.path, c.key, x) \/ \E n : InsertValue(c.path, c.key, x, n)
            /\ bucket' = bucket /\ (x = NoVal <=> c.op = "insert")
      BY <1>5, <2>1, <2>2, <2>4, NoValAssumption DEF Undo, DataOps
    <3>2. SetsData(c.path, c.key, x)  BY <1>2, <2>2, <3>1, ValuesSet
    <3>3. /\ ShapeIs(root', d, DOMAIN d)
          /\ \A q \in DOMAIN root, l \in Key : <<q, l>> # <<c.path, c.key>> =>
               q \in DOMAIN root' /\ root'[q].data[l] = root[q].data[l]
      BY <1>2, <2>2, <3>1, <3>2, SetShape
    <3>4. \A p, k : ~TouchesKey(c, p, k) => <<p, k>> # <<c.path, c.key>>
      BY <1>5, <2>1 DEF TouchesKey, Touches, DirOps
    <3>5. c.index \notin DOMAIN bucket  BY <2>1 DEF Bucketed
    <3> QED  BY <2>1, <3>1, <3>3, <3>4, <3>5 DEF Moved
  <2> QED  BY <2>3, <2>4
<1> QED  BY <1>1, <1>3, <1>4, <1>5 DEF DirOps

LEMMA RedoMoves ==
  ASSUME FilesOK, NEW c \in Logged, NEW d, NEW e, DOMAIN d \subseteq Path, Rooted(DOMAIN d),
         Leads(d, c, e), ShapeIs(root, d, DOMAIN d), Bucketed(c, e, AddOps)
  PROVE  /\ Redoable(c)
         /\ Redo(c) => /\ Moved(c, d, e, RemoveOps)
                       /\ c.op \in {"insert", "update"} =>
                            c.path \in DOMAIN root' /\ root'[c.path].data[c.key] = c.val
<1>1. c \in Entry /\ c.path \in Path /\ c.op \in DirOps \cup DataOps
  BY DEF Logged, Entry
<1>2. /\ c.op \in RemoveOps => Cut(d, c.path, e)
      /\ c.op \in AddOps => Cut(e, c.path, d)
      /\ DOMAIN root = DOMAIN d /\ StoreOK(root)
  BY <1>1, LeadsCut DEF ShapeIs, FilesOK
<1>3. CASE c.op \in RemoveOps
  <2>1. c.op \notin AddOps \cup DataOps  BY <1>3 DEF AddOps, RemoveOps, DataOps
  <2>2. Redoable(c)  BY <1>2, <1>3, <2>1 DEF Redoable, Cut, Bucketed
  <2>3. ASSUME Redo(c) PROVE Moved(c, d, e, RemoveOps)
    <3>1. MoveToBucket(c.path, c.index)
      BY <1>3, <2>1, <2>3 DEF Redo, RemoveOps
    <3>2. /\ ShapeIs(root', e, DOMAIN e)
          /\ DOMAIN bucket' = DOMAIN bucket \cup {c.index}
          /\ ShapeIs(bucket'[c.index], d, Below(d, c.path))
          /\ \A y \in DOMAIN bucket \ {c.index} : bucket'[y] = bucket[y]
          /\ \A q \in DOMAIN root :
               ~IsPrefix(c.path, q) => q \in DOMAIN root' /\ root'[q] = root[q]
      BY <1>2, <1>3, <3>1, MoveOut
    <3>3. \A p, k : ~TouchesKey(c, p, k) => ~IsPrefix(c.path, p)
      BY <1>3, <2>1 DEF TouchesKey, Touches, DirOps
    <3> QED  BY <1>3, <3>2, <3>3 DEF Moved
  <2> QED  BY <2>1, <2>2, <2>3 DEF DataOps
<1>4. CASE c.op \in AddOps
  <2>1. c.op \notin RemoveOps \cup DataOps  BY <1>4 DEF AddOps, RemoveOps, DataOps
  <2>2. Redoable(c)
    <3>1. c.index \in DOMAIN bucket  BY <1>4 DEF Bucketed
    <3>2. c.path \notin DOMAIN root /\ ParentExists(c.path)
      BY <1>2, <1>4, <2>1 DEF Leads, Applicable, ParentIn, ParentExists
    <3> QED  BY <1>4, <3>1, <3>2 DEF Redoable
  <2>3. ASSUME Redo(c) PROVE Moved(c, d, e, RemoveOps)
    <3>1. MoveBack(c.index)  BY <1>4, <2>1, <2>3 DEF Redo, AddOps
    <3>2. /\ ShapeIs(root', e, DOMAIN e)
          /\ DOMAIN bucket' = DOMAIN bucket \ {c.index}
          /\ \A y \in DOMAIN bucket \ {c.index} : bucket'[y] = bucket[y]
          /\ \A q \in DOMAIN root :
               ~IsPrefix(c.path, q) => q \in DOMAIN root' /\ root'[q] = root[q]
      <4>1. ShapeIs(bucket[c.index], e, Below(e, c.path))  BY <1>4 DEF Bucketed
      <4> QED  BY <1>2, <1>4, <3>1, <4>1, MoveIn
    <3>3. \A p, k : ~TouchesKey(c, p, k) => ~IsPrefix(c.path, p)
      BY <1>4, <2>1 DEF TouchesKey, Touches, DirOps
    <3> QED  BY <2>1, <3>2, <3>3 DEF Moved
  <2> QED  BY <2>1, <2>2, <2>3 DEF DataOps
<1>5. CASE c.op \in DataOps
  <2>1. c.op \notin AddOps \cup RemoveOps  BY <1>5 DEF AddOps, RemoveOps, DataOps
  <2>2. /\ c.path \in DOMAIN d /\ DOMAIN e = DOMAIN d /\ c.key \in Key /\ c.val \in Val
        /\ \A p \in DOMAIN d, k \in Key :
             <<p, k>> # <<c.path, c.key>> => (d[p][k] = NoVal <=> e[p][k] = NoVal)
        /\ e[c.path][c.key] = NoVal <=> c.op = "remove"
        /\ d[c.path][c.key] = NoVal <=> c.op = "insert"
    BY <1>5, <2>1 DEF Leads, Applicable, Logged
  <2>3. Redoable(c)  BY <1>2, <1>5, <2>2 DEF Redoable, ShapeIs
  <2>4. ASSUME Redo(c)
        PROVE  /\ Moved(c, d, e, RemoveOps)
               /\ c.op \in {"insert", "update"} =>
                    c.path \in DOMAIN root' /\ root'[c.path].data[c.key] = c.val
    <3>1. PICK x \in Val \cup {NoVal} :
            /\ SetValue(c.path, c.key, x) \/ \E n : InsertValue(c.path, c.key, x, n)
            /\ bucket' = bucket /\ (x = NoVal <=> c.op = "remove")
            /\ c.op # "remove" => x = c.val
      BY <1>5, <2>1, <2>2, <2>4, NoValAssumption DEF Redo, DataOps
    <3>2. SetsData(c.path, c.key, x)  BY <1>2, <2>2, <3>1, ValuesSet
    <3>3. /\ ShapeIs(root', e, DOMAIN e)
          /\ root'[c.path].data[c.key] = x
          /\ \A q \in DOMAIN root, l \in Key : <<q, l>> # <<c.path, c.key>> =>
               q \in DOMAIN root' /\ root'[q].data[l] = root[q].data[l]
      BY <1>2, <2>2, <3>1, <3>2, SetShape
    <3>4. \A p, k : ~TouchesKey(c, p, k) => <<p, k>> # <<c.path, c.key>>
      BY <1>5, <2>1 DEF TouchesKey, Touches, DirOps
    <3>5. c.index \notin DOMAIN bucket  BY <2>1 DEF Bucketed
    <3>6. c.path \in DOMAIN root'  BY <1>2, <2>2, <3>2 DEF SetsData
    <3> QED  BY <2>1, <3>1, <3>3, <3>4, <3>5, <3>6 DEF Moved
  <2> QED  BY <2>3, <2>4
<1> QED  BY <1>1, <1>3, <1>4, <1>5 DEF DirOps

-------------------------------------------------------------------------------
(* The two stacks as one list. *)

LEMMA Counted ==
  ASSUME DataInv, StacksCover
  PROVE  /\ Changes \in Nat /\ Len(history) \in Nat /\ Len(undone) \in Nat
         /\ Len(versions) = Changes + 1 /\ Len(history) + Len(undone) = Changes
         /\ \A i \in Entries : EntryAt(i) \in Logged
         /\ \A i \in 1..(Changes + 1) : versions[i] \in Snapshot
         /\ Current = versions[Changes + 1]
<1>1. /\ history \in Seq(Logged) /\ undone \in Seq(Logged)
      /\ versions \in Seq(Snapshot) /\ versions # <<>>
  BY DEF DataInv, StacksOK
<1>2. Len(versions) \in Nat \ {0} /\ Len(history) \in Nat /\ Len(undone) \in Nat  BY <1>1
<1>3. Changes \in Nat /\ Len(versions) = Changes + 1  BY <1>2 DEF Changes
<1>4. Len(history) + Len(undone) = Changes  BY DEF StacksCover
<1>5. ASSUME NEW i \in Entries PROVE EntryAt(i) \in Logged
  <2>1. i \in 1..Changes  BY DEF Entries
  <2>2. CASE i <= Len(history)
    <3>1. history[i] \in Logged  BY <1>1, <1>2, <1>3, <2>1, <2>2
    <3> QED  BY <2>2, <3>1 DEF EntryAt
  <2>3. CASE ~(i <= Len(history))
    <3>1. Changes + 1 - i \in 1..Len(undone)  BY <1>2, <1>3, <1>4, <2>1, <2>3
    <3>2. undone[Changes + 1 - i] \in Logged  BY <1>1, <3>1
    <3> QED  BY <2>3, <3>2 DEF EntryAt
  <2> QED  BY <2>2, <2>3
<1>6. \A i \in 1..(Changes + 1) : versions[i] \in Snapshot  BY <1>1, <1>3
<1>7. Current = versions[Changes + 1]  BY DEF Current, AsOf
<1> QED  BY <1>2, <1>3, <1>4, <1>5, <1>6, <1>7

LEMMA ExchangedFields ==
  ASSUME NEW e \in Logged
  PROVE  /\ Exchanged(e).op = e.op /\ Exchanged(e).path = e.path /\ Exchanged(e).key = e.key
         /\ Exchanged(e).index = e.index /\ Exchanged(e).time = e.time
         /\ e.op # "update" => Exchanged(e) = e
         /\ e.op = "update" => Exchanged(e).val = root[e.path].data[e.key]
<1>1. e \in Entry  BY DEF Logged
<1>2. CASE e.op = "update"
  <2>1. Exchanged(e) = [e EXCEPT !.val = root[e.path].data[e.key]]  BY <1>2 DEF Exchanged
  <2> QED  BY <1>1, <1>2, <2>1 DEF Entry
<1>3. CASE e.op # "update"  BY <1>3 DEF Exchanged
<1> QED  BY <1>2, <1>3

\* A step of the replay takes entry m from one stack to the other.
Carried(m) ==
  /\ Changes' = Changes /\ m \in Entries
  /\ \A i \in Entries : EntryAt(i)' = IF i = m THEN Exchanged(EntryAt(m)) ELSE EntryAt(i)

LEMMA RevertCarries ==
  ASSUME DataInv, StacksCover, history # <<>>, versions' = versions,
         history' = Front(history), undone' = Append(undone, Exchanged(Last(history)))
  PROVE  /\ Carried(Len(history)) /\ Last(history) = EntryAt(Len(history))
         /\ Len(history') = Len(history) - 1 /\ Len(undone') = Len(undone) + 1
<1>1. history \in Seq(Logged) /\ undone \in Seq(Logged)  BY DEF DataInv, StacksOK
<1>2. PICK h \in Nat : h = Len(history) - 1
  <2>1. Len(history) \in Nat \ {0}  BY <1>1
  <2> QED  BY <2>1
<1>3. Len(history) = h + 1 /\ Len(undone) \in Nat  BY <1>1, <1>2
<1>4. /\ Changes \in Nat /\ Changes' = Changes /\ h + 1 + Len(undone) = Changes
  BY <1>2, <1>3, Counted DEF Changes
<1>5. history' = SubSeq(history, 1, h) /\ Last(history) = history[h + 1]
  BY <1>2, <1>3 DEF Front, Last
<1>6. Len(history') = h /\ \A i \in 1..h : history'[i] = history[i]  BY <1>1, <1>3, <1>5
<1>7. PICK x : x = Exchanged(history[h + 1]) /\ undone' = Append(undone, x)  BY <1>5
<1>8. Len(undone') = Len(undone) + 1 /\ undone'[Len(undone) + 1] = x
      /\ \A i \in 1..Len(undone) : undone'[i] = undone[i]
  BY <1>1, <1>7
<1>9. history[h + 1] = EntryAt(h + 1)  BY <1>2, <1>3 DEF EntryAt
<1>10. ASSUME NEW i \in Entries
       PROVE  EntryAt(i)' = IF i = h + 1 THEN Exchanged(EntryAt(h + 1)) ELSE EntryAt(i)
  <2>1. i \in 1..Changes  BY DEF Entries
  <2>2. EntryAt(i)' = IF i <= h THEN history'[i] ELSE undone'[Changes + 1 - i]
    BY <1>4, <1>6 DEF EntryAt
  <2>3. CASE i <= h
    <3>1. history'[i] = history[i]  BY <1>6, <2>1, <2>3
    <3>2. EntryAt(i) = history[i]
      <4>1. i <= Len(history)  BY <1>2, <1>3, <2>1, <2>3
      <4> QED  BY <4>1 DEF EntryAt
    <3>3. i # h + 1  BY <1>2, <2>1, <2>3
    <3> QED  BY <2>2, <2>3, <3>1, <3>2, <3>3
  <2>4. CASE i = h + 1
    <3>1. Changes + 1 - i = Len(undone) + 1  BY <1>2, <1>3, <1>4, <2>4
    <3>2. ~(i <= h)  BY <1>2, <2>4
    <3> QED  BY <1>7, <1>8, <1>9, <2>2, <2>4, <3>1, <3>2
  <2>5. CASE i > h + 1
    <3>1. Changes + 1 - i \in 1..Len(undone)  BY <1>2, <1>3, <1>4, <2>1, <2>5
    <3>2. ~(i <= h) /\ ~(i <= Len(history))  BY <1>2, <1>3, <2>1, <2>5
    <3>3. undone'[Changes + 1 - i] = undone[Changes + 1 - i]  BY <1>8, <3>1
    <3>4. EntryAt(i) = undone[Changes + 1 - i]  BY <3>2 DEF EntryAt
    <3>5. i # h + 1  BY <1>2, <2>1, <2>5
    <3> QED  BY <2>2, <3>2, <3>3, <3>4, <3>5
  <2> QED  BY <1>2, <2>1, <2>3, <2>4, <2>5
<1>11. h + 1 \in Entries  BY <1>2, <1>3, <1>4 DEF Entries
<1> QED  BY <1>2, <1>3, <1>4, <1>5, <1>6, <1>8, <1>9, <1>10, <1>11 DEF Carried

LEMMA RedoCarries ==
  ASSUME DataInv, StacksCover, undone # <<>>, versions' = versions,
         undone' = Front(undone), history' = Append(history, Exchanged(Last(undone)))
  PROVE  /\ Carried(Len(history) + 1) /\ Last(undone) = EntryAt(Len(history) + 1)
         /\ Len(history') = Len(history) + 1 /\ Len(undone') = Len(undone) - 1
<1>1. history \in Seq(Logged) /\ undone \in Seq(Logged)  BY DEF DataInv, StacksOK
<1>2. PICK u \in Nat : u = Len(undone) - 1
  <2>1. Len(undone) \in Nat \ {0}  BY <1>1
  <2> QED  BY <2>1
<1>3. PICK h \in Nat : h = Len(history)  BY <1>1
<1>4. /\ Changes \in Nat /\ Changes' = Changes /\ h + u + 1 = Changes /\ Len(undone) = u + 1
  BY <1>1, <1>2, <1>3, Counted DEF Changes
<1>5. undone' = SubSeq(undone, 1, u) /\ Last(undone) = undone[u + 1]
  BY <1>2, <1>4 DEF Front, Last
<1>6. Len(undone') = u /\ \A i \in 1..u : undone'[i] = undone[i]  BY <1>1, <1>4, <1>5
<1>7. PICK x : x = Exchanged(undone[u + 1]) /\ history' = Append(history, x)  BY <1>5
<1>8. Len(history') = h + 1 /\ history'[h + 1] = x /\ \A i \in 1..h : history'[i] = history[i]
  BY <1>1, <1>3, <1>7
<1>9. undone[u + 1] = EntryAt(h + 1)
  <2>1. Changes + 1 - (h + 1) = u + 1 /\ ~(h + 1 <= Len(history))  BY <1>3, <1>4
  <2> QED  BY <2>1 DEF EntryAt
<1>10. ASSUME NEW i \in Entries
       PROVE  EntryAt(i)' = IF i = h + 1 THEN Exchanged(EntryAt(h + 1)) ELSE EntryAt(i)
  <2>1. i \in 1..Changes  BY DEF Entries
  <2>2. EntryAt(i)' = IF i <= h + 1 THEN history'[i] ELSE undone'[Changes + 1 - i]
    BY <1>4, <1>8 DEF EntryAt
  <2>3. CASE i <= h
    <3>1. history'[i] = history[i] /\ i <= h + 1 /\ i # h + 1  BY <1>3, <1>8, <2>1, <2>3
    <3> QED  BY <1>3, <2>2, <2>3, <3>1 DEF EntryAt
  <2>4. CASE i = h + 1
    <3>1. i <= h + 1  BY <2>4
    <3> QED  BY <1>7, <1>8, <1>9, <2>2, <2>4, <3>1
  <2>5. CASE i > h + 1
    <3>1. Changes + 1 - i \in 1..u  BY <1>2, <1>3, <1>4, <2>1, <2>5
    <3>2. ~(i <= h + 1) /\ ~(i <= Len(history)) /\ i # h + 1  BY <1>3, <2>1, <2>5
    <3>3. undone'[Changes + 1 - i] = undone[Changes + 1 - i]  BY <1>6, <3>1
    <3> QED  BY <2>2, <3>2, <3>3 DEF EntryAt
  <2> QED  BY <1>3, <2>1, <2>3, <2>4, <2>5
<1>11. h + 1 \in Entries  BY <1>2, <1>3, <1>4 DEF Entries
<1> QED  BY <1>2, <1>3, <1>4, <1>5, <1>6, <1>8, <1>9, <1>10, <1>11 DEF Carried

-------------------------------------------------------------------------------
(* The replay keeps the records. *)

LEMMA CarriedFields ==
  ASSUME DataInv, StacksCover, NEW m, Carried(m), NEW i \in Entries
  PROVE  /\ EntryAt(i)'.op = EntryAt(i).op /\ EntryAt(i)'.path = EntryAt(i).path
         /\ EntryAt(i)'.key = EntryAt(i).key /\ EntryAt(i)'.index = EntryAt(i).index
         /\ EntryAt(i)'.time = EntryAt(i).time
<1>1. EntryAt(i) \in Logged  BY Counted
<1>2. CASE i = m
  <2>1. EntryAt(i)' = Exchanged(EntryAt(i))  BY <1>2 DEF Carried
  <2> QED  BY <1>1, <2>1, ExchangedFields
<1>3. CASE i # m
  <2>1. EntryAt(i)' = EntryAt(i)  BY <1>3 DEF Carried
  <2> QED  BY <2>1
<1> QED  BY <1>2, <1>3

LEMMA CarriedRecords ==
  ASSUME DataInv, StacksCover, IndexesOnce, VersionsLinked, BucketHolds,
         NEW m, Carried(m), UNCHANGED <<versions, nextIndex>>,
         Len(history') + Len(undone') = Changes,
         \A i \in Entries \ {m} : i <= Len(history') <=> i <= Len(history),
         NEW c, c = EntryAt(m), NEW v, v = VersionWith(m),
         NEW ops, InBucket(m)' <=> c.op \in ops,
         \A x : x # c.index =>
           /\ x \in DOMAIN bucket' <=> x \in DOMAIN bucket
           /\ x \in DOMAIN bucket => bucket'[x] = bucket[x],
         c.op \in ops =>
           c.index \in DOMAIN bucket' /\ ShapeIs(bucket'[c.index], v, Below(v, c.path)),
         c.op \notin ops => c.index \notin DOMAIN bucket'
  PROVE  StacksCover' /\ IndexesOnce' /\ VersionsLinked' /\ BucketHolds'
<1>1. Changes' = Changes /\ Entries' = Entries /\ m \in Entries  BY DEF Carried, Entries
<1>2. \A i \in Entries :
        /\ EntryAt(i)'.op = EntryAt(i).op /\ EntryAt(i)'.path = EntryAt(i).path
        /\ EntryAt(i)'.key = EntryAt(i).key /\ EntryAt(i)'.index = EntryAt(i).index
        /\ EntryAt(i)'.time = EntryAt(i).time
  BY CarriedFields
<1>3. StacksCover'  BY <1>1, <1>2 DEF StacksCover
<1>4. IndexesOnce'  BY <1>1, <1>2 DEF IndexesOnce
<1>5. VersionsLinked'
  <2>1. ASSUME NEW i \in Entries PROVE Leads(versions[i], EntryAt(i)', versions[i + 1])
    <3>1. Leads(versions[i], EntryAt(i), versions[i + 1])  BY DEF VersionsLinked
    <3>2. PICK b : b = EntryAt(i)'  OBVIOUS
    <3>3. b.op = EntryAt(i).op /\ b.path = EntryAt(i).path /\ b.key = EntryAt(i).key
      BY <1>2, <3>2
    <3> QED  BY <3>1, <3>2, <3>3, LeadsFields
  <2>2. \A i \in Entries : Leads(versions[i], EntryAt(i), versions[i + 1])'  BY <2>1
  <2> QED  BY <1>1, <2>2 DEF VersionsLinked
<1>6. \A i \in Entries : VersionWith(i)' = VersionWith(i)  BY <1>2 DEF VersionWith
<1>7. c.index < nextIndex /\ c.index \in Nat
  <2>1. c \in Logged  BY <1>1, Counted
  <2> QED  BY <1>1, <2>1 DEF IndexesOnce, Logged, Entry
<1>8. ASSUME NEW i \in Entries
      PROVE  /\ EntryAt(i)'.index \in DOMAIN bucket' <=> InBucket(i)'
             /\ InBucket(i)' => Holds(EntryAt(i).index, VersionWith(i), EntryAt(i).path)'
  <2>1. CASE i = m
    <3>1. EntryAt(i)'.index = c.index /\ EntryAt(i)'.op = c.op /\ EntryAt(i)'.path = c.path
      BY <1>2, <2>1
    <3>2. VersionWith(i)' = v  BY <1>1, <1>6, <2>1
    <3> QED  BY <2>1, <3>1, <3>2 DEF Holds
  <2>2. CASE i # m
    <3>1. EntryAt(i).index # c.index  BY <1>1, <2>2 DEF IndexesOnce
    <3>2. InBucket(i)' <=> InBucket(i)  BY <1>2, <2>2 DEF InBucket
    <3>3. EntryAt(i).index \in DOMAIN bucket <=> InBucket(i)  BY DEF BucketHolds
    <3>4. InBucket(i) => Holds(EntryAt(i).index, VersionWith(i), EntryAt(i).path)
      BY DEF BucketHolds
    <3>5. ASSUME InBucket(i)
          PROVE  Holds(EntryAt(i).index, VersionWith(i), EntryAt(i).path)'
      <4>1. PICK x, w, p : x = EntryAt(i).index /\ w = VersionWith(i) /\ p = EntryAt(i).path
        OBVIOUS
      <4>2. x \in DOMAIN bucket /\ ShapeIs(bucket[x], w, Below(w, p))
        BY <3>4, <3>5, <4>1 DEF Holds
      <4>3. x \in DOMAIN bucket' /\ bucket'[x] = bucket[x]  BY <3>1, <4>1, <4>2
      <4>4. x = EntryAt(i)'.index /\ w = VersionWith(i)' /\ p = EntryAt(i)'.path
        BY <1>2, <1>6, <4>1
      <4> QED  BY <4>2, <4>3, <4>4 DEF Holds
    <3> QED  BY <1>2, <3>1, <3>2, <3>3, <3>5
  <2> QED  BY <2>1, <2>2
<1>9. \A x \in DOMAIN bucket' : x \in Nat /\ x < nextIndex'
  BY <1>7 DEF BucketHolds
<1>10. BucketHolds'  BY <1>1, <1>8, <1>9 DEF BucketHolds
<1> QED  BY <1>3, <1>4, <1>5, <1>10

\* Where the replay stands, and what it needs to move on.
LEMMA StandsBetween ==
  ASSUME DataInv, StacksCover, VersionsLinked, BucketHolds, NEW m \in Entries
  PROVE  /\ DOMAIN versions[m] \subseteq Path /\ Rooted(DOMAIN versions[m])
         /\ EntryAt(m) \in Logged /\ Leads(versions[m], EntryAt(m), versions[m + 1])
         /\ m <= Len(history) => Bucketed(EntryAt(m), versions[m], RemoveOps)
         /\ ~(m <= Len(history)) => Bucketed(EntryAt(m), versions[m + 1], AddOps)
         /\ AsOf(m) = versions[m + 1] /\ AsOf(m - 1) = versions[m]
<1>1. /\ Changes \in Nat /\ m \in 1..Changes /\ m \in Int /\ EntryAt(m) \in Logged
      /\ Len(versions) = Changes + 1 /\ versions[m] \in Snapshot
  BY Counted DEF Entries
<1>2. DOMAIN versions[m] \subseteq Path  BY <1>1, IsSnapshot
<1>3. Rooted(DOMAIN versions[m])  BY <1>1 DEF VersionsLinked
<1>4. Leads(versions[m], EntryAt(m), versions[m + 1])  BY DEF VersionsLinked
<1>5. PICK c : c = EntryAt(m)  OBVIOUS
<1>6. /\ c.index \in DOMAIN bucket <=> InBucket(m)
      /\ InBucket(m) => Holds(c.index, VersionWith(m), c.path)
  BY <1>5 DEF BucketHolds
<1>7. c.op \in RemoveOps => c.op \notin AddOps  BY DEF AddOps, RemoveOps
<1>8. m <= Len(history) => Bucketed(c, versions[m], RemoveOps)
  BY <1>5, <1>6 DEF InBucket, VersionWith, Holds, Bucketed
<1>9. ~(m <= Len(history)) => Bucketed(c, versions[m + 1], AddOps)
  BY <1>5, <1>6, <1>7 DEF InBucket, VersionWith, Holds, Bucketed
<1>10. AsOf(m) = versions[m + 1] /\ AsOf(m - 1) = versions[m]
  <2>1. m - 1 + 1 = m  BY <1>1
  <2> QED  BY <2>1 DEF AsOf
<1> QED  BY <1>1, <1>2, <1>3, <1>4, <1>5, <1>8, <1>9, <1>10

LEMMA TouchFields ==
  ASSUME NEW b, NEW c, b.op = c.op, b.path = c.path, b.key = c.key, NEW p, NEW k
  PROVE  TouchesKey(b, p, k) <=> TouchesKey(c, p, k)
BY DEF TouchesKey, Touches

\* revert_to can undo the entry it takes, and stands at the version before it then.
LEMMA RevertRecords ==
  ASSUME ControlInv, UniqueIsExclusive, DataInv, RecordInv, NEW t \in Task, pc[t] = "revert",
         MustUndo(t)
  PROVE  /\ Undoable(Last(history))
         /\ RevertStep(t) => RecordInv'
<1>0. PICK m : m = Len(history)  OBVIOUS
<1>1. /\ StacksCover /\ IndexesOnce /\ VersionsLinked /\ BucketHolds /\ InFlightPending
      /\ Settled /\ ValuesKept /\ AtVersion /\ RevertStops
  BY DEF RecordInv
<1>2. /\ Replaying /\ InFlight = {} /\ \A u \in Task \ {t} : pc[u] \notin Inside
  BY ReplayAlone
<1>3. /\ Changes \in Nat /\ m \in Nat /\ Len(undone) \in Nat /\ m + Len(undone) = Changes
      /\ history \in Seq(Logged) /\ history # <<>>
  BY <1>1, <1>0, Counted DEF DataInv, StacksOK, MustUndo
<1>4. m \in Entries /\ m \in 1..Changes  BY <1>0, <1>3 DEF Entries
<1>5. PICK c, d, e : c = EntryAt(m) /\ d = versions[m] /\ e = versions[m + 1]  OBVIOUS
<1>6. Last(history) = c  BY <1>0, <1>3, <1>5 DEF Last, EntryAt
<1>7. /\ DOMAIN d \subseteq Path /\ Rooted(DOMAIN d) /\ c \in Logged /\ Leads(d, c, e)
      /\ Bucketed(c, d, RemoveOps) /\ AsOf(m) = e /\ AsOf(m - 1) = d
  BY <1>1, <1>0, <1>3, <1>4, <1>5, StandsBetween
<1>8. ShapeIs(root, e, DOMAIN e)  BY <1>1, <1>0, <1>2, <1>7 DEF AtVersion
<1>9. Undoable(c) /\ (Undo(c) => Moved(c, e, d, AddOps))
  BY <1>7, <1>8, UndoMoves DEF DataInv
<1>10. ASSUME RevertStep(t) PROVE RecordInv'
  <2>1. /\ Undo(c) /\ history' = Front(history) /\ undone' = Append(undone, Exchanged(c))
        /\ UNCHANGED <<nextIndex, versions, pc, request, saved>>
    BY <1>6, <1>10 DEF RevertStep, taskVars
  <2>2. Moved(c, e, d, AddOps)  BY <1>9, <2>1
  <2>3. Carried(m) /\ Len(history') = m - 1 /\ Len(undone') = Len(undone) + 1
    BY <1>1, <1>0, <1>3, <1>6, <2>1, RevertCarries
  <2>4. Changes' = Changes /\ Entries' = Entries /\ Current' = Current
    BY <2>1 DEF Changes, Entries, Current, AsOf
  <2>5. \A i \in Entries :
          /\ EntryAt(i)'.op = EntryAt(i).op /\ EntryAt(i)'.path = EntryAt(i).path
          /\ EntryAt(i)'.key = EntryAt(i).key /\ EntryAt(i)'.time = EntryAt(i).time
    BY <1>1, <2>3, CarriedFields
  <2>6. StacksCover' /\ IndexesOnce' /\ VersionsLinked' /\ BucketHolds'
    <3>1. Len(history') + Len(undone') = Changes  BY <1>3, <2>3
    <3>2. \A i \in Entries \ {m} : i <= Len(history') <=> i <= m
      BY <1>3, <2>3 DEF Entries
    <3>3. InBucket(m)' <=> c.op \in AddOps
      <4>1. ~(m <= Len(history'))  BY <1>3, <2>3
      <4>2. EntryAt(m)'.op = c.op  BY <1>4, <1>5, <2>5
      <4> QED  BY <4>1, <4>2 DEF InBucket
    <3>4. PICK v : v = VersionWith(m)  OBVIOUS
    <3>5. c.op \in AddOps => v = e
      BY <1>5, <3>4 DEF VersionWith, AddOps, RemoveOps
    <3> QED
      BY <1>1, <1>0, <1>5, <2>1, <2>2, <2>3, <3>1, <3>2, <3>3, <3>4, <3>5, CarriedRecords DEF Moved
  <2>7. InFlightPending' /\ Settled'
    <3>1. InFlight' = {} /\ Replaying'  BY <1>2, <2>1 DEF InFlight, Replaying
    <3> QED  BY <3>1 DEF InFlightPending, Settled
  <2>8. \A i \in Entries : \A p, k : TouchesKey(EntryAt(i)', p, k) <=> TouchesKey(EntryAt(i), p, k)
    BY <2>5, TouchFields
  <2>9. AtVersion'
    <3>1. AsOf(Len(history))' = d
      <4>1. AsOf(m - 1) = d  BY <1>7
      <4> QED  BY <2>1, <2>3, <4>1 DEF AsOf
    <3>2. ShapeIs(root', d, DOMAIN d)  BY <2>2 DEF Moved
    <3>3. ASSUME NEW p \in DOMAIN Current, NEW k \in Key, Current[p][k] # NoVal,
                 \A i \in Entries : i > m - 1 => ~TouchesKey(EntryAt(i)', p, k)
          PROVE  p \in DOMAIN root' /\ root'[p].data[k] = Current[p][k]
      <4>1. \A i \in Entries : i > m => ~TouchesKey(EntryAt(i), p, k)
        BY <1>3, <2>8, <3>3 DEF Entries
      <4>2. ~TouchesKey(c, p, k)
        <5>1. m > m - 1  BY <1>3
        <5> QED  BY <1>4, <1>5, <2>8, <3>3, <5>1
      <4>3. p \in DOMAIN root /\ root[p].data[k] = Current[p][k]
        BY <1>1, <1>0, <1>2, <3>3, <4>1 DEF AtVersion
      <4> QED  BY <2>2, <4>2, <4>3 DEF Moved
    <3> QED  BY <2>3, <2>4, <3>1, <3>2, <3>3 DEF AtVersion
  <2>10. ValuesKept'
    <3>1. SUFFICES ASSUME NEW p \in DOMAIN Current, NEW k \in Key, NEW i \in Entries,
                          Current[p][k] # NoVal, TouchesKey(EntryAt(i)', p, k),
                          \A j \in Entries : j > i => ~TouchesKey(EntryAt(j)', p, k)
                   PROVE  /\ EntryAt(i)'.op \in {"insert", "update"}
                          /\ EntryAt(i)'.op = "insert" \/ i > m - 1
                               => EntryAt(i)'.val = Current[p][k]
      BY <2>3, <2>4 DEF ValuesKept, LastTouch
    <3>2. LastTouch(i, p, k)  BY <2>8, <3>1 DEF LastTouch
    <3>3. /\ EntryAt(i).op \in {"insert", "update"}
          /\ EntryAt(i).op = "insert" \/ i > m => EntryAt(i).val = Current[p][k]
      BY <1>1, <1>0, <3>1, <3>2 DEF ValuesKept
    <3>4. CASE i # m
      <4>1. EntryAt(i)' = EntryAt(i)  BY <2>3, <3>4 DEF Carried
      <4>2. i > m - 1 => i > m  BY <1>3, <3>4 DEF Entries
      <4> QED  BY <3>3, <4>1, <4>2
    <3>5. CASE i = m
      <4>1. EntryAt(i)' = Exchanged(c)  BY <1>5, <2>3, <3>5 DEF Carried
      <4>2. CASE c.op = "insert"
        <5>1. Exchanged(c) = c  BY <4>2, <1>7, ExchangedFields
        <5> QED  BY <1>5, <3>3, <3>5, <4>1, <4>2, <5>1
      <4>3. CASE c.op = "update"
        <5>1. c.path = p /\ c.key = k
          BY <1>5, <3>2, <3>5, <4>3
             DEF LastTouch, TouchesKey, Touches, DirOps, AddOps, RemoveOps, DataOps
        <5>2. p \in DOMAIN root /\ root[p].data[k] = Current[p][k]
          BY <1>1, <1>0, <1>2, <3>1, <3>2, <3>5 DEF AtVersion, LastTouch
        <5>3. Exchanged(c).val = root[p].data[k] /\ Exchanged(c).op = "update"
          BY <1>7, <4>3, <5>1, ExchangedFields
        <5> QED  BY <4>1, <5>2, <5>3
      <4> QED  BY <1>5, <3>3, <3>5, <4>2, <4>3
    <3> QED  BY <3>4, <3>5
  <2>11. RevertStops'
    <3>1. ASSUME NEW u \in Task PROVE /\ pc'[u] = "revert" => m - 1 >= Requested(u)'
                                      /\ pc'[u] # "look"
      <4>1. CASE u # t  BY <1>2, <2>1, <4>1 DEF Inside
      <4>2. CASE u = t
        <5>1. Requested(t)' = Requested(t)  BY <2>1, <2>4 DEF Requested
        <5>2. c.time = m  BY <1>1, <1>4, <1>5 DEF StacksCover
        <5>3. m > request[t].time  BY <1>6, <5>2 DEF MustUndo
        <5>4. request[t].time \in Nat  BY RequestTyped DEF RequestType
        <5>5. m - 1 >= Requested(t)  BY <1>3, <5>3, <5>4 DEF Requested
        <5> QED  BY <2>1, <4>2, <5>1, <5>5
      <4> QED  BY <4>1, <4>2
    <3> QED  BY <2>3, <3>1 DEF RevertStops
  <2> QED  BY <2>6, <2>7, <2>9, <2>10, <2>11 DEF RecordInv
<1> QED  BY <1>6, <1>9, <1>10

\* redo_all can redo the entry it takes, and brings back what the entry left.
LEMMA RedoRecords ==
  ASSUME ControlInv, UniqueIsExclusive, DataInv, RecordInv, NEW t \in Task, pc[t] = "redo",
         undone # <<>>
  PROVE  /\ Redoable(Last(undone))
         /\ RedoStep(t) => RecordInv'
<1>0. PICK m : m = Len(history) + 1  OBVIOUS
<1>1. /\ StacksCover /\ IndexesOnce /\ VersionsLinked /\ BucketHolds /\ InFlightPending
      /\ Settled /\ ValuesKept /\ AtVersion /\ RevertStops
  BY DEF RecordInv
<1>2. /\ Replaying /\ InFlight = {} /\ \A u \in Task \ {t} : pc[u] \notin Inside
  BY ReplayAlone
<1>3. /\ Changes \in Nat /\ Len(history) \in Nat /\ Len(undone) \in Nat \ {0}
      /\ m \in Nat /\ Len(history) = m - 1 /\ m - 1 + Len(undone) = Changes
      /\ undone \in Seq(Logged)
  BY <1>0, <1>1, Counted DEF DataInv, StacksOK
<1>4. m \in Entries /\ m \in 1..Changes  BY <1>3 DEF Entries
<1>5. PICK c, d, e : c = EntryAt(m) /\ d = versions[m] /\ e = versions[m + 1]  OBVIOUS
<1>6. Last(undone) = c
  <2>1. ~(m <= Len(history)) /\ Changes + 1 - m = Len(undone)  BY <1>3
  <2> QED  BY <1>5, <2>1 DEF Last, EntryAt
<1>7. /\ DOMAIN d \subseteq Path /\ Rooted(DOMAIN d) /\ c \in Logged /\ Leads(d, c, e)
      /\ Bucketed(c, e, AddOps) /\ AsOf(m) = e /\ AsOf(Len(history)) = d
  BY <1>1, <1>3, <1>4, <1>5, StandsBetween
<1>8. ShapeIs(root, d, DOMAIN d)  BY <1>1, <1>2, <1>7 DEF AtVersion
<1>9. /\ Redoable(c)
      /\ Redo(c) => /\ Moved(c, d, e, RemoveOps)
                    /\ c.op \in {"insert", "update"} =>
                         c.path \in DOMAIN root' /\ root'[c.path].data[c.key] = c.val
  BY <1>7, <1>8, RedoMoves DEF DataInv
<1>10. ASSUME RedoStep(t) PROVE RecordInv'
  <2>1. /\ Redo(c) /\ undone' = Front(undone) /\ history' = Append(history, Exchanged(c))
        /\ UNCHANGED <<nextIndex, versions, pc, request, saved>>
    BY <1>6, <1>10 DEF RedoStep, taskVars
  <2>2. Moved(c, d, e, RemoveOps)  BY <1>9, <2>1
  <2>3. Carried(m) /\ Len(history') = m /\ Len(undone') = Len(undone) - 1
    BY <1>0, <1>1, <1>3, <1>6, <2>1, RedoCarries
  <2>4. Changes' = Changes /\ Entries' = Entries /\ Current' = Current
    BY <2>1 DEF Changes, Entries, Current, AsOf
  <2>5. \A i \in Entries :
          /\ EntryAt(i)'.op = EntryAt(i).op /\ EntryAt(i)'.path = EntryAt(i).path
          /\ EntryAt(i)'.key = EntryAt(i).key /\ EntryAt(i)'.time = EntryAt(i).time
    BY <1>1, <2>3, CarriedFields
  <2>6. StacksCover' /\ IndexesOnce' /\ VersionsLinked' /\ BucketHolds'
    <3>1. Len(history') + Len(undone') = Changes  BY <1>3, <2>3
    <3>2. \A i \in Entries \ {m} : i <= Len(history') <=> i <= Len(history)
      BY <1>3, <2>3 DEF Entries
    <3>3. InBucket(m)' <=> c.op \in RemoveOps
      <4>1. m <= Len(history')  BY <1>3, <2>3
      <4>2. EntryAt(m)'.op = c.op  BY <1>4, <1>5, <2>5
      <4> QED  BY <4>1, <4>2 DEF InBucket
    <3>4. PICK v : v = VersionWith(m)  OBVIOUS
    <3>5. c.op \in RemoveOps => v = d  BY <1>5, <3>4 DEF VersionWith
    <3> QED
      BY <1>1, <1>5, <2>1, <2>2, <2>3, <3>1, <3>2, <3>3, <3>4, <3>5, CarriedRecords DEF Moved
  <2>7. InFlightPending' /\ Settled'
    <3>1. InFlight' = {} /\ Replaying'  BY <1>2, <2>1 DEF InFlight, Replaying
    <3> QED  BY <3>1 DEF InFlightPending, Settled
  <2>8. \A i \in Entries : \A p, k : TouchesKey(EntryAt(i)', p, k) <=> TouchesKey(EntryAt(i), p, k)
    BY <2>5, TouchFields
  <2>9. AtVersion'
    <3>1. AsOf(Len(history))' = e
      <4>1. AsOf(m) = e  BY <1>7
      <4> QED  BY <2>1, <2>3, <4>1 DEF AsOf
    <3>2. ShapeIs(root', e, DOMAIN e)  BY <2>2 DEF Moved
    <3>3. ASSUME NEW p \in DOMAIN Current, NEW k \in Key, Current[p][k] # NoVal,
                 \A i \in Entries : i > m => ~TouchesKey(EntryAt(i)', p, k)
          PROVE  p \in DOMAIN root' /\ root'[p].data[k] = Current[p][k]
      <4>1. \A i \in Entries : i > m => ~TouchesKey(EntryAt(i), p, k)  BY <2>8, <3>3
      <4>2. CASE TouchesKey(c, p, k)
        <5>1. LastTouch(m, p, k)  BY <1>5, <4>1, <4>2 DEF LastTouch
        <5>2. m > Len(history)  BY <1>3
        <5>3. c.op \in {"insert", "update"} /\ c.val = Current[p][k]
          BY <1>1, <1>4, <1>5, <3>3, <5>1, <5>2 DEF ValuesKept
        <5>4. c.path = p /\ c.key = k
          BY <4>2, <5>3 DEF TouchesKey, Touches, DirOps, AddOps, RemoveOps, DataOps
        <5> QED  BY <1>9, <2>1, <5>3, <5>4
      <4>3. CASE ~TouchesKey(c, p, k)
        <5>1. \A i \in Entries : i > Len(history) => i = m \/ i > m  BY <1>3 DEF Entries
        <5>2. \A i \in Entries : i > Len(history) => ~TouchesKey(EntryAt(i), p, k)
          BY <1>5, <4>1, <4>3, <5>1
        <5>3. p \in DOMAIN root /\ root[p].data[k] = Current[p][k]
          BY <1>1, <1>2, <3>3, <5>2 DEF AtVersion
        <5> QED  BY <2>2, <4>3, <5>3 DEF Moved
      <4> QED  BY <4>2, <4>3
    <3> QED  BY <2>3, <2>4, <3>1, <3>2, <3>3 DEF AtVersion
  <2>10. ValuesKept'
    <3>1. SUFFICES ASSUME NEW p \in DOMAIN Current, NEW k \in Key, NEW i \in Entries,
                          Current[p][k] # NoVal, TouchesKey(EntryAt(i)', p, k),
                          \A j \in Entries : j > i => ~TouchesKey(EntryAt(j)', p, k)
                   PROVE  /\ EntryAt(i)'.op \in {"insert", "update"}
                          /\ EntryAt(i)'.op = "insert" \/ i > m
                               => EntryAt(i)'.val = Current[p][k]
      BY <2>3, <2>4 DEF ValuesKept, LastTouch
    <3>2. LastTouch(i, p, k)  BY <2>8, <3>1 DEF LastTouch
    <3>3. /\ EntryAt(i).op \in {"insert", "update"}
          /\ EntryAt(i).op = "insert" \/ i > m - 1 => EntryAt(i).val = Current[p][k]
      BY <1>1, <1>3, <3>1, <3>2 DEF ValuesKept
    <3>4. CASE i # m
      <4>1. EntryAt(i)' = EntryAt(i)  BY <2>3, <3>4 DEF Carried
      <4>2. i > m => i > m - 1  BY <1>3, <3>4 DEF Entries
      <4> QED  BY <3>3, <4>1, <4>2
    <3>5. CASE i = m
      <4>1. EntryAt(i)' = Exchanged(c)  BY <1>5, <2>3, <3>5 DEF Carried
      <4>2. CASE c.op = "insert"
        <5>1. Exchanged(c) = c  BY <4>2, <1>7, ExchangedFields
        <5> QED  BY <1>5, <3>3, <3>5, <4>1, <4>2, <5>1
      <4>3. CASE c.op = "update"
        <5>1. Exchanged(c).op = "update"  BY <1>7, <4>3, ExchangedFields
        <5>2. ~(i > m)  BY <1>3, <3>5
        <5> QED  BY <4>1, <5>1, <5>2
      <4> QED  BY <1>5, <3>3, <3>5, <4>2, <4>3
    <3> QED  BY <3>4, <3>5
  <2>11. RevertStops'
    <3>1. \A u \in Task : pc'[u] \notin {"revert", "look"}  BY <1>2, <2>1 DEF Inside
    <3> QED  BY <3>1 DEF RevertStops
  <2> QED  BY <2>6, <2>7, <2>9, <2>10, <2>11 DEF RecordInv
<1> QED  BY <1>6, <1>9, <1>10

-------------------------------------------------------------------------------
(* The steps that change no record. *)

LEMMA RecordsStand ==
  ASSUME UNCHANGED <<bucket, history, undone, nextIndex, versions>>,
         StacksCover, IndexesOnce, VersionsLinked, BucketHolds, ValuesKept
  PROVE  /\ StacksCover' /\ IndexesOnce' /\ VersionsLinked' /\ BucketHolds' /\ ValuesKept'
         /\ Changes' = Changes /\ Entries' = Entries /\ Current' = Current
         /\ \A i : EntryAt(i)' = EntryAt(i)
<1>1. /\ Changes' = Changes /\ Entries' = Entries /\ Current' = Current
      /\ \A i : EntryAt(i)' = EntryAt(i)
  BY DEF Changes, Entries, Current, AsOf, EntryAt
<1>2. \A i : /\ InBucket(i)' <=> InBucket(i)
             /\ VersionWith(i)' = VersionWith(i)
  BY <1>1 DEF InBucket, VersionWith
<1>3. \A x, d, p : Holds(x, d, p)' <=> Holds(x, d, p)  BY DEF Holds, ShapeIs
<1>4. \A i, p, k : LastTouch(i, p, k)' <=> LastTouch(i, p, k)  BY <1>1 DEF LastTouch
<1>5. StacksCover' /\ IndexesOnce'  BY <1>1 DEF StacksCover, IndexesOnce
<1>6. VersionsLinked'  BY <1>1 DEF VersionsLinked
<1>7. BucketHolds'  BY <1>1, <1>2, <1>3 DEF BucketHolds
<1>8. ValuesKept'  BY <1>1, <1>4 DEF ValuesKept
<1> QED  BY <1>1, <1>5, <1>6, <1>7, <1>8

\* A step to a place where the task has as much in flight, and undone, as before.
LEMMA QuietRecords ==
  ASSUME RecordInv, UNCHANGED <<root, bucket, history, undone, nextIndex, versions, saved>>,
         InFlight' = InFlight, \A u \in InFlight : request'[u] = request[u],
         Replaying' <=> Replaying, RevertStops'
  PROVE  RecordInv'
<1>1. /\ StacksCover /\ IndexesOnce /\ VersionsLinked /\ BucketHolds /\ InFlightPending
      /\ Settled /\ ValuesKept /\ AtVersion
  BY DEF RecordInv
<1>2. /\ StacksCover' /\ IndexesOnce' /\ VersionsLinked' /\ BucketHolds' /\ ValuesKept'
      /\ Changes' = Changes /\ Entries' = Entries /\ Current' = Current
      /\ \A i : EntryAt(i)' = EntryAt(i)
  BY <1>1, RecordsStand
<1>3. InFlightPending'
  <2>1. \A x, d, p : Holds(x, d, p)' <=> Holds(x, d, p)  BY DEF Holds, ShapeIs
  <2> QED  BY <1>1, <1>2, <2>1 DEF InFlightPending
<1>4. Settled'
  <2>1. \A p \in Path : SettledAt(p)' <=> SettledAt(p)  BY <1>2 DEF SettledAt
  <2> QED  BY <1>1, <2>1 DEF Settled
<1>5. AtVersion'
  <2>1. AsOf(Len(history))' = AsOf(Len(history))  BY DEF AsOf
  <2> QED  BY <1>1, <1>2, <2>1 DEF AtVersion, ShapeIs
<1> QED  BY <1>2, <1>3, <1>4, <1>5 DEF RecordInv

LEMMA PassRecords ==
  ASSUME ControlInv, RecordInv, NEW t \in Task, NEW l, Goto(t, l),
         UNCHANGED <<root, bucket, history, undone, nextIndex, versions, saved>>,
         \A u \in Task \ {t} : request'[u] = request[u],
         pc[t] # "log", l # "log",
         pc[t] \in {"revert", "look", "redo"} <=> l \in {"revert", "look", "redo"},
         l # "revert", l = "look" => request' = request /\ Len(history) = Requested(t)
  PROVE  RecordInv'
<1>1. pc'[t] = l /\ \A u \in Task \ {t} : pc'[u] = pc[u]  BY DEF Goto, ControlInv
<1>2. InFlight' = InFlight /\ \A u \in InFlight : request'[u] = request[u]
  BY <1>1 DEF InFlight
<1>3. Replaying' <=> Replaying  BY <1>1 DEF Replaying
<1>4. \A u \in Task : request'[u] = request[u] => Requested(u)' = Requested(u)
  BY DEF Requested, Changes
<1>5. RevertStops'  BY <1>1, <1>4 DEF RecordInv, RevertStops
<1> QED  BY <1>2, <1>3, <1>5, QuietRecords

LEMMA RefuseRecords ==
  ASSUME ControlInv, RecordInv, NEW t \in Task, pc[t] \in {"act", "opened"},
         Refuse(t) \/ Read(t), ActFrame
  PROVE  RecordInv'
<1>1. /\ Goto(t, "unlock") /\ request' = request
      /\ UNCHANGED <<root, bucket, history, undone, nextIndex, versions, saved>>
  BY DEF Refuse, Read, ActFrame
<1> QED  BY <1>1, PassRecords

\* A read of the past looks where it should: what it did not have to undo is not
\* later than the time it asks for.
LEMMA RevertDoneStands ==
  ASSUME ControlInv, DataInv, RecordInv, NEW t \in Task, pc[t] = "revert", ~MustUndo(t)
  PROVE  Len(history) = Requested(t)
<1>1. StacksCover /\ Len(history) >= Requested(t)  BY DEF RecordInv, RevertStops
<1>2. /\ Changes \in Nat /\ Len(history) \in Nat /\ Len(history) <= Changes
      /\ history \in Seq(Logged)
  BY <1>1, Counted DEF DataInv, StacksOK
<1>3. request[t].time \in Nat  BY RequestTyped DEF RequestType
<1>4. CASE history = <<>>  BY <1>1, <1>2, <1>3, <1>4 DEF Requested
<1>5. CASE history # <<>>
  <2>1. Len(history) \in Entries  BY <1>2, <1>5 DEF Entries
  <2>2. EntryAt(Len(history)) = Last(history)  BY <1>2 DEF EntryAt, Last
  <2>3. Last(history).time = Len(history)  BY <1>1, <2>1, <2>2 DEF StacksCover
  <2>4. Len(history) <= request[t].time  BY <1>2, <1>3, <1>5, <2>3 DEF MustUndo
  <2> QED  BY <1>1, <1>2, <1>3, <2>4 DEF Requested
<1> QED  BY <1>4, <1>5

LEMMA PassageRecords ==
  ASSUME ControlInv, DataInv, RecordInv, NEW t \in Task,
         \/ TakeLock(t) /\ pc'[t] # "revert"
         \/ CheckPath(t) \/ OpenTree(t) \/ RevertDone(t) \/ Look(t) \/ ReleaseLock(t) \/ Publish(t)
  PROVE  RecordInv'
<1>1. CASE TakeLock(t) /\ pc'[t] # "revert"
  <2>1. PICK l : Goto(t, l) /\ l \in {"check", "act"}
    <3>1. \A l : Goto(t, l) => pc'[t] = l  BY DEF Goto, ControlInv
    <3>2. \E l \in {"check", "act", "revert"} : Goto(t, l)  BY <1>1 DEF TakeLock
    <3> QED  BY <1>1, <3>1, <3>2
  <2>2. /\ pc[t] = "lock" /\ request' = request
        /\ UNCHANGED <<root, bucket, history, undone, nextIndex, versions, saved>>
    BY <1>1 DEF TakeLock, storeVars, historyVars, taskVars
  <2> QED  BY <2>1, <2>2, PassRecords
<1>2. CASE CheckPath(t)
  <2>1. PICK l \in {"lock", "unlock"} : Goto(t, l)  BY <1>2 DEF CheckPath
  <2>2. /\ pc[t] = "check" /\ request' = request
        /\ UNCHANGED <<root, bucket, history, undone, nextIndex, versions, saved>>
    BY <1>2 DEF CheckPath, storeVars, historyVars
  <2> QED  BY <2>1, <2>2, PassRecords
<1>3. CASE OpenTree(t)
  <2>1. /\ pc[t] = "act" /\ Goto(t, "opened") /\ request' = request
        /\ UNCHANGED <<root, bucket, history, undone, nextIndex, versions, saved>>
    BY <1>3 DEF OpenTree, storeVars, historyVars, taskVars
  <2> QED  BY <2>1, PassRecords
<1>4. CASE RevertDone(t)
  <2>1. /\ pc[t] = "revert" /\ ~MustUndo(t) /\ Goto(t, "look") /\ request' = request
        /\ UNCHANGED <<root, bucket, history, undone, nextIndex, versions, saved>>
    BY <1>4 DEF RevertDone, storeVars, historyVars, taskVars
  <2>2. Len(history) = Requested(t)  BY <2>1, RevertDoneStands
  <2> QED  BY <2>1, <2>2, PassRecords
<1>5. CASE Look(t)
  <2>1. /\ pc[t] = "look" /\ Goto(t, "redo") /\ request' = request
        /\ UNCHANGED <<root, bucket, history, undone, nextIndex, versions, saved>>
    BY <1>5 DEF Look, storeVars, historyVars
  <2> QED  BY <2>1, PassRecords
<1>6. CASE ReleaseLock(t)
  <2>1. PICK l \in {"publish", "unlock"} : Goto(t, l)  BY <1>6 DEF ReleaseLock
  <2>2. /\ pc[t] = "unlock" /\ request' = request
        /\ UNCHANGED <<root, bucket, history, undone, nextIndex, versions, saved>>
    BY <1>6 DEF ReleaseLock, storeVars, historyVars, taskVars
  <2> QED  BY <2>1, <2>2, PassRecords
<1>7. CASE Publish(t)
  <2>1. /\ pc[t] = "publish" /\ Goto(t, "finished") /\ request' = request
        /\ UNCHANGED <<root, bucket, history, undone, nextIndex, versions, saved>>
    BY <1>7 DEF Publish, storeVars, historyVars
  <2> QED  BY <2>1, PassRecords
<1> QED  BY <1>1, <1>2, <1>3, <1>4, <1>5, <1>6, <1>7

LEMMA StartRecords ==
  ASSUME ControlInv, RecordInv, NEW t \in Task, Start(t)
  PROVE  RecordInv'
<1>1. /\ pc[t] = "new" /\ Goto(t, "lock")
      /\ UNCHANGED <<root, bucket, history, undone, nextIndex, versions, saved>>
      /\ \A u \in Task \ {t} : request'[u] = request[u]
  BY DEF Start, storeVars, historyVars, ControlInv
<1> QED  BY <1>1, PassRecords

LEMMA StillRecords ==
  ASSUME RecordInv, UNCHANGED <<root, bucket, history, undone, nextIndex, versions, saved,
                                pc, request>>
  PROVE  RecordInv'
<1>1. InFlight' = InFlight /\ (Replaying' <=> Replaying) /\ RevertStops'
  BY DEF InFlight, Replaying, RevertStops, Requested, Changes, RecordInv
<1> QED  BY <1>1, QuietRecords

-------------------------------------------------------------------------------
(* Into the past and back. *)

LEMMA StoreFields ==
  ASSUME NEW store
  PROVE  /\ DOMAIN DataOf(store) = DOMAIN store
         /\ \A p \in DOMAIN store : DataOf(store)[p] = store[p].data
BY DEF DataOf

ReplayIsAlone ==
  \A t \in Task : pc[t] \in {"revert", "look", "redo"} =>
    InFlight = {} /\ \A u \in Task \ {t} : pc[u] \notin Inside

LEMMA ReplayAloneAlways == ControlInv /\ UniqueIsExclusive => ReplayIsAlone
BY ReplayAlone DEF ReplayIsAlone

LEMMA TakeRootRecords ==
  ASSUME ControlInv, ControlInv', UniqueIsExclusive', DataInv, RecordInv, NEW t \in Task,
         TakeLock(t), pc'[t] = "revert"
  PROVE  RecordInv'
<1>1. /\ pc[t] = "lock" /\ \A u \in Task \ {t} : pc'[u] = pc[u]
      /\ UNCHANGED <<root, bucket, history, undone, nextIndex, versions, saved, request>>
  BY DEF TakeLock, Goto, ControlInv, storeVars, historyVars, taskVars
<1>2. InFlight' = {} /\ \A u \in Task \ {t} : pc'[u] \notin Inside
  <2>1. ReplayIsAlone'  BY ReplayAloneAlways, PTL
  <2> QED  BY <2>1 DEF ReplayIsAlone
<1>3. InFlight = {} /\ ~Replaying /\ Replaying'
  BY <1>1, <1>2 DEF InFlight, Replaying, Inside
<1>4. /\ StacksCover /\ IndexesOnce /\ VersionsLinked /\ BucketHolds /\ ValuesKept /\ Settled
  BY DEF RecordInv
<1>5. /\ StacksCover' /\ IndexesOnce' /\ VersionsLinked' /\ BucketHolds' /\ ValuesKept'
      /\ Changes' = Changes /\ Entries' = Entries /\ Current' = Current
      /\ \A i : EntryAt(i)' = EntryAt(i)
  BY <1>1, <1>4, RecordsStand
<1>6. InFlightPending' /\ Settled'  BY <1>2, <1>3 DEF InFlightPending, Settled
<1>7. /\ undone = <<>> /\ Changes \in Nat /\ Len(history) = Changes
      /\ Current \in Snapshot
  BY <1>3, <1>4, Counted DEF Settled
<1>8. \A p \in Path : Agree(DataOf(root), Current, p)  BY <1>3, <1>4 DEF Settled, SettledAt
<1>9. DOMAIN root = DOMAIN Current /\ \A p \in DOMAIN root : root[p].data = Current[p]
  <2>1. DOMAIN root \subseteq Path  BY DEF DataInv, FilesOK, StoreOK
  <2>2. DOMAIN Current \subseteq Path  BY <1>7, IsSnapshot
  <2> QED  BY <1>8, <2>1, <2>2, StoreFields DEF Agree
<1>10. AtVersion'
  <2>1. AsOf(Len(history))' = Current  BY <1>1, <1>7 DEF AsOf, Current
  <2>2. ShapeIs(root', Current, DOMAIN Current)  BY <1>1, <1>9 DEF ShapeIs
  <2>3. \A p \in DOMAIN Current, k \in Key :
          p \in DOMAIN root' /\ root'[p].data[k] = Current[p][k]
    BY <1>1, <1>9
  <2> QED  BY <1>5, <2>1, <2>2, <2>3 DEF AtVersion
<1>11. RevertStops'
  <2>1. Len(history) >= Requested(t)
    <3>1. request[t].time \in Nat  BY RequestTyped DEF RequestType
    <3> QED  BY <1>7, <3>1 DEF Requested
  <2>2. \A u \in Task : Requested(u)' = Requested(u)  BY <1>1, <1>5 DEF Requested
  <2>3. \A u \in Task \ {t} : pc'[u] \notin {"revert", "look"}  BY <1>2 DEF Inside
  <2> QED  BY <1>1, <2>1, <2>2, <2>3 DEF RevertStops
<1> QED  BY <1>5, <1>6, <1>10, <1>11 DEF RecordInv

\* With nothing left to redo, _root is the database of all the changes again.
LEMMA ReplayedIsCurrent ==
  ASSUME DataInv, StacksCover, AtVersion, Replaying, undone = <<>>
  PROVE  \A p \in Path : Agree(DataOf(root), Current, p)
<1>1. Changes \in Nat /\ Len(history) = Changes /\ Current \in Snapshot
  BY Counted
<1>2. AsOf(Len(history)) = Current  BY <1>1 DEF AsOf, Current
<1>3. DOMAIN root = DOMAIN Current  BY <1>2 DEF AtVersion, ShapeIs
<1>4. \A i \in Entries : ~(i > Len(history))  BY <1>1 DEF Entries
<1>5. \A p \in DOMAIN Current, k \in Key : Current[p][k] # NoVal => root[p].data[k] = Current[p][k]
  BY <1>4 DEF AtVersion
<1>6. \A p \in DOMAIN Current, k \in Key : Current[p][k] = NoVal => root[p].data[k] = NoVal
  BY <1>2, <1>3 DEF AtVersion, ShapeIs
<1>7. ASSUME NEW p \in DOMAIN Current PROVE root[p].data = Current[p]
  <2>1. root[p].data \in [Key -> Val \cup {NoVal}]
    BY <1>3, <1>7 DEF DataInv, FilesOK, StoreOK, Content
  <2>2. Current[p] \in [Key -> Val \cup {NoVal}]  BY <1>1, <1>7, IsSnapshot
  <2>3. \A k \in Key : root[p].data[k] = Current[p][k]  BY <1>5, <1>6, <1>7
  <2> QED  BY <2>1, <2>2, <2>3
<1> QED  BY <1>3, <1>7, StoreFields DEF Agree

LEMMA RedoDoneRecords ==
  ASSUME ControlInv, UniqueIsExclusive, DataInv, RecordInv, NEW t \in Task, RedoDone(t)
  PROVE  RecordInv'
<1>1. /\ pc[t] = "redo" /\ undone = <<>> /\ pc'[t] = "unlock"
      /\ \A u \in Task \ {t} : pc'[u] = pc[u]
      /\ UNCHANGED <<root, bucket, history, undone, nextIndex, versions, saved, request>>
  BY DEF RedoDone, Goto, ControlInv, storeVars, historyVars, taskVars
<1>2. Replaying /\ InFlight = {} /\ \A u \in Task \ {t} : pc[u] \notin Inside
  BY <1>1, ReplayAlone
<1>3. \A u \in Task : pc'[u] \notin {"revert", "look", "redo", "log"}
  BY <1>1, <1>2 DEF Inside
<1>4. InFlight' = {} /\ ~Replaying' /\ RevertStops'
  BY <1>3 DEF InFlight, Replaying, RevertStops
<1>5. /\ StacksCover /\ IndexesOnce /\ VersionsLinked /\ BucketHolds /\ ValuesKept /\ AtVersion
  BY DEF RecordInv
<1>6. /\ StacksCover' /\ IndexesOnce' /\ VersionsLinked' /\ BucketHolds' /\ ValuesKept'
      /\ Current' = Current
  BY <1>1, <1>5, RecordsStand
<1>7. \A p \in Path : Agree(DataOf(root'), Current', p)
  BY <1>1, <1>2, <1>5, <1>6, ReplayedIsCurrent
<1>8. Settled'
  <2>1. \A p \in Path : SettledAt(p)'  BY <1>4, <1>7 DEF SettledAt
  <2> QED  BY <1>1, <2>1 DEF Settled
<1> QED  BY <1>4, <1>6, <1>8 DEF RecordInv, InFlightPending, AtVersion

-------------------------------------------------------------------------------
(* Changes, from when they are made until they are recorded. *)

LEMMA InFlightKind ==
  ASSUME ControlInv, NEW t \in Task, pc[t] \in {"act", "opened", "log"}
  PROVE  request[t].op \in DirOps \cup DataOps \cup {"read"}
<1>1. request[t].op # "read_at"  BY DEF ControlInv, HeldAsScoped, InScope
<1> QED  BY <1>1, RequestTyped DEF RequestType, ReadOps

\* Two requests at work, one of which has changed something, are about two collections.
LEMMA InFlightApart ==
  ASSUME ControlInv, HelpersNamed, UniqueIsExclusive, NEW t \in Task,
         pc[t] \in {"act", "opened", "log"}, NEW u \in InFlight, u # t,
         request[u].op # "read"
  PROVE  /\ request[t].op \in {"update", "remove", "read"}
         /\ request[u].op \in {"update", "remove"}
         /\ request[u].path # request[t].path
<1>1. u \in Task /\ pc[u] = "log"  BY DEF InFlight
<1>2. request[t].op \in {"update", "remove", "read"}
  <2>1. SUFFICES ASSUME request[t].op \notin {"update", "remove", "read"} PROVE FALSE  OBVIOUS
  <2>2. pc[u] \notin Inside  BY <1>1, <2>1, Alone DEF Inside
  <2> QED  BY <1>1, <2>2 DEF Inside
<1>3. request[u].op \in {"update", "remove"}
  <2>1. SUFFICES ASSUME request[u].op \notin {"update", "remove", "read"} PROVE FALSE  OBVIOUS
  <2>2. pc[t] \notin Inside  BY <1>1, <2>1, Alone DEF Inside
  <2> QED  BY <2>2 DEF Inside
<1>4. request[u].path # request[t].path
  <2>1. request[t].op \in DataOps \cup {"read"}  BY <1>2 DEF DataOps
  <2> QED  BY <1>1, <1>3, <2>1, WritersApart
<1> QED  BY <1>2, <1>3, <1>4

LEMMA InFlightChanges ==
  ASSUME ControlInv, DataInv, NEW u \in InFlight
  PROVE  /\ u \in Task /\ pc[u] = "log" /\ request[u].op \in DirOps \cup DataOps
         /\ request[u].op # "read" /\ request[u] \in Request /\ request[u].path \in Path
<1>1. u \in Task /\ pc[u] = "log"  BY DEF InFlight
<1>2. request[u].op \in DirOps \cup DataOps  BY <1>1 DEF DataInv, LocalsOK
<1>3. request[u] \in Request /\ request[u].path \in Path  BY <1>1, RequestTyped DEF RequestType
<1> QED  BY <1>1, <1>2, <1>3 DEF DirOps, AddOps, RemoveOps, DataOps

\* What a request at work finds is what is recorded, where it is about to change it.
LEMMA FindsCurrent ==
  ASSUME ControlInv, HelpersNamed, UniqueIsExclusive, DataInv, RecordInv, NEW t \in Task,
         pc[t] \in {"act", "opened"}
  PROVE  /\ ~Replaying /\ undone = <<>>
         /\ Agree(DataOf(root), Current, request[t].path)
         /\ request[t].op \notin {"update", "remove", "read"} =>
              InFlight = {} /\ \A p \in Path : Agree(DataOf(root), Current, p)
<1>1. ~Replaying  BY InFlightSettled
<1>2. undone = <<>> /\ \A p \in Path : SettledAt(p)  BY <1>1 DEF RecordInv, Settled
<1>3. t \notin InFlight  BY DEF InFlight
<1>4. \A u \in InFlight :
        /\ request[t].op \in {"update", "remove", "read"}
        /\ request[u].op \in {"update", "remove"} /\ request[u].path # request[t].path
  BY <1>3, InFlightApart, InFlightChanges
<1>5. \A u \in InFlight : ~Touches(request[u], request[t].path)
  BY <1>4 DEF Touches, DirOps, AddOps, RemoveOps
<1>6. request[t].path \in Path  BY RequestTyped DEF RequestType
<1>7. Agree(DataOf(root), Current, request[t].path)  BY <1>2, <1>5, <1>6 DEF SettledAt
<1>8. ASSUME request[t].op \notin {"update", "remove", "read"}
      PROVE  InFlight = {} /\ \A p \in Path : Agree(DataOf(root), Current, p)
  <2>1. InFlight = {}  BY <1>4, <1>8
  <2> QED  BY <1>2, <2>1 DEF SettledAt
<1> QED  BY <1>1, <1>2, <1>7, <1>8

\* A change that is made is in flight.
LEMMA ChangeSettles ==
  ASSUME ControlInv, HelpersNamed, UniqueIsExclusive, DataInv, RecordInv, NEW t \in Task,
         pc[t] \in {"act", "opened"}, Goto(t, "log"), request[t].op \in DirOps \cup DataOps,
         UNCHANGED <<request, undone, versions>>,
         \A p \in Path : Agree(DataOf(root'), Changed(DataOf(root), ChangeOf(request[t])), p)
  PROVE  /\ InFlight' = InFlight \cup {t} /\ ~Replaying'
         /\ Settled' /\ AtVersion' /\ RevertStops'
<1>1. pc'[t] = "log" /\ \A u \in Task \ {t} : pc'[u] = pc[u]  BY DEF Goto, ControlInv
<1>2. /\ InFlight' = InFlight \cup {t} /\ t \notin InFlight
  BY <1>1 DEF InFlight
<1>3. ~Replaying /\ undone = <<>> /\ \A p \in Path : SettledAt(p)
  BY FindsCurrent DEF RecordInv, Settled
<1>4. ~Replaying' /\ RevertStops'  BY <1>1, <1>3 DEF Replaying, RevertStops
<1>5. PICK c : c = request[t]  OBVIOUS
<1>6. c.path \in Path /\ c.op \in DirOps \cup DataOps  BY <1>5, RequestTyped DEF RequestType
<1>7. ASSUME NEW p \in Path PROVE SettledAt(p)'
  <2>1. Current' = Current  BY DEF Current, AsOf, Changes
  <2>2. Agree(DataOf(root'), Changed(DataOf(root), ChangeOf(c)), p)  BY <1>5
  <2>3. \A u \in InFlight : c.op \in DataOps /\ request[u].op \in DataOps /\ request[u].path # c.path
    <3>1. \A u \in InFlight : /\ request[t].op \in {"update", "remove", "read"}
                              /\ request[u].op \in {"update", "remove"}
                              /\ request[u].path # request[t].path
      BY <1>2, InFlightApart, InFlightChanges
    <3> QED  BY <1>5, <1>6, <3>1 DEF DataOps, DirOps, AddOps, RemoveOps
  <2>4. \A u \in InFlight : ~(Touches(request[u], p) /\ Touches(c, p))
    BY <2>3 DEF Touches, DirOps, AddOps, RemoveOps, DataOps
  <2>5. CASE Touches(c, p)
    <3>1. \A u \in InFlight : ~Touches(request[u], p)  BY <2>4, <2>5
    <3>2. Agree(DataOf(root), Current, p)  BY <1>3, <3>1 DEF SettledAt
    <3>3. Agree(Changed(DataOf(root), ChangeOf(c)), Changed(Current, ChangeOf(c)), p)
      BY <1>6, <3>2, ChangedAlike
    <3>4. Agree(DataOf(root'), Changed(Current, ChangeOf(c)), p)
      BY <2>2, <3>3, AgreeTransitive
    <3> QED  BY <1>2, <1>5, <2>1, <2>5, <3>1, <3>4 DEF SettledAt
  <2>6. CASE ~Touches(c, p)
    <3>1. Agree(Changed(DataOf(root), ChangeOf(c)), DataOf(root), p)
      BY <1>6, <2>6, ChangedElsewhere
    <3>2. Agree(DataOf(root'), DataOf(root), p)  BY <2>2, <3>1, AgreeTransitive
    <3>3. \A d : Agree(DataOf(root), d, p) => Agree(DataOf(root'), d, p)
      BY <3>2, AgreeTransitive
    <3> QED  BY <1>2, <1>3, <1>5, <2>1, <2>6, <3>3 DEF SettledAt
  <2> QED  BY <2>5, <2>6
<1>8. Settled'  BY <1>3, <1>7 DEF Settled
<1> QED  BY <1>2, <1>4, <1>8 DEF AtVersion

\* The directory a request about a directory is about to act in.
LEMMA ParentThere ==
  ASSUME ControlInv, CheckedPathStays, NEW t \in Task, pc[t] = "act", request[t].op \in DirOps
  PROVE  ParentIn(request[t].path, DOMAIN root)
<1>1. Len(request[t].path) = Depth(request[t].op)
  BY RequestTyped, CollectionRequestAssumption
<1>2. Len(held[t]) = Depth(request[t].op) /\ request[t].op # "read_at"
  BY DEF ControlInv, HeldAsScoped, InScope
<1>3. Depth(request[t].op) \in 1..4  BY RequestTyped, DepthRange
<1>4. SUFFICES ASSUME Depth(request[t].op) # 1 PROVE Parent(request[t].path) \in DOMAIN root
  BY <1>1 DEF ParentIn
<1>5. PICK n : n = Depth(request[t].op) - 1  OBVIOUS
<1>6. n \in 1..(Len(held[t]) - 0) /\ n < Depth(request[t].op)  BY <1>2, <1>3, <1>4, <1>5
<1>7. SubSeq(request[t].path, 1, n) \in DOMAIN root  BY <1>2, <1>6 DEF CheckedPathStays
<1> QED  BY <1>1, <1>5, <1>7 DEF Parent

LEMMA ChangeApplicable ==
  ASSUME ControlInv, HelpersNamed, UniqueIsExclusive, CheckedPathStays, DataInv, RecordInv,
         NEW t \in Task, pc[t] \in {"act", "opened"}, request[t].op \in DirOps => pc[t] = "act",
         \/ request[t].op \in AddOps /\ request[t].path \notin DOMAIN root
         \/ request[t].op \in RemoveOps /\ request[t].path \in DOMAIN root
         \/ request[t].op \in DataOps /\ (Stored(t) = NoVal <=> request[t].op = "insert")
  PROVE  Applicable(Current, request[t])
<1>1. Agree(DataOf(root), Current, request[t].path)  BY FindsCurrent
<1>2. DOMAIN DataOf(root) = DOMAIN root /\ \A p \in DOMAIN root : DataOf(root)[p] = root[p].data
  BY StoreFields
<1>3. CASE request[t].op \in DirOps
  <2>1. ParentIn(request[t].path, DOMAIN root)  BY <1>3, ParentThere
  <2>2. \A p \in Path : Agree(DataOf(root), Current, p)
    BY <1>3, FindsCurrent DEF DirOps, AddOps, RemoveOps
  <2>3. DOMAIN root \subseteq Path  BY DEF DataInv, FilesOK, StoreOK
  <2>4. DOMAIN root \subseteq DOMAIN Current  BY <1>2, <2>2, <2>3 DEF Agree
  <2>5. ParentIn(request[t].path, DOMAIN Current)  BY <2>1, <2>4 DEF ParentIn
  <2> QED  BY <1>1, <1>2, <1>3, <2>5 DEF Applicable, Agree, DirOps, AddOps, RemoveOps, DataOps
<1>4. CASE request[t].op \in DataOps
  <2>1. request[t].path \in DOMAIN root  BY <1>4, CollectionThere
  <2>2. request[t].path \in DOMAIN Current /\ Current[request[t].path] = root[request[t].path].data
    BY <1>1, <1>2, <2>1 DEF Agree
  <2>3. Stored(t) = NoVal <=> request[t].op = "insert"
    BY <1>4 DEF DataOps, DirOps, AddOps, RemoveOps
  <2> QED  BY <1>4, <2>2, <2>3 DEF Applicable, Stored
<1> QED  BY <1>3, <1>4 DEF DirOps

\* Of the others that are in flight, none removed a directory.
LEMMA OthersPending ==
  ASSUME ControlInv, HelpersNamed, UniqueIsExclusive, DataInv, RecordInv, NEW t \in Task,
         pc[t] \in {"act", "opened", "log"}, request' = request, NEW u \in InFlight, u # t
  PROVE  /\ request'[u].op \notin RemoveOps
         /\ Applicable(Current, request'[u]) /\ request'[u].op \in DataOps
<1>1. request[u].op \in {"update", "remove"}  BY InFlightApart, InFlightChanges
<1> QED  BY <1>1 DEF RecordInv, InFlightPending, RemoveOps, DataOps

LEMMA ChangeRecords ==
  ASSUME ControlInv, HelpersNamed, UniqueIsExclusive, DataInv, RecordInv, NEW t \in Task,
         pc[t] \in {"act", "opened"}, Goto(t, "log"), request[t].op \in AddOps \cup DataOps,
         UNCHANGED <<request, bucket, history, undone, nextIndex, versions>>,
         Applicable(Current, request[t]),
         \A p \in Path : Agree(DataOf(root'), Changed(DataOf(root), ChangeOf(request[t])), p)
  PROVE  RecordInv'
<1>1. /\ InFlight' = InFlight \cup {t} /\ Settled' /\ AtVersion' /\ RevertStops'
  BY ChangeSettles DEF DirOps
<1>2. /\ StacksCover' /\ IndexesOnce' /\ VersionsLinked' /\ BucketHolds' /\ ValuesKept'
      /\ Current' = Current
  BY RecordsStand DEF RecordInv
<1>3. request[t].op \notin RemoveOps  BY DEF AddOps, DataOps, RemoveOps
<1>4. InFlightPending'  BY <1>1, <1>2, <1>3, OthersPending DEF InFlightPending
<1> QED  BY <1>1, <1>2, <1>4 DEF RecordInv

\* ... and what a removal took away waits in the bucket.
LEMMA DiscardRecords ==
  ASSUME ControlInv, HelpersNamed, UniqueIsExclusive, CheckedPathStays, DataInv, RecordInv,
         NEW t \in Task, pc[t] = "act", request[t].op \in RemoveOps, Discard(t), ActFrame
  PROVE  RecordInv'
<1>1. CASE request[t].path \notin DOMAIN root
  <2>1. Refuse(t)  BY <1>1 DEF Discard
  <2> QED  BY <2>1, RefuseRecords
<1>2. CASE request[t].path \in DOMAIN root
  <2>0. PICK c, x : c = request[t] /\ x = nextIndex  OBVIOUS
  <2>1. /\ MoveToBucket(c.path, x) /\ Goto(t, "log") /\ nextIndex' = x + 1
        /\ saved' = [saved EXCEPT ![t].index = x]
        /\ UNCHANGED <<request, history, undone, versions>>
    BY <1>2, <2>0 DEF Discard, ActFrame
  <2>2. Applicable(Current, c)  BY <1>2, <2>0, ChangeApplicable
  <2>3. InFlight = {} /\ \A p \in Path : Agree(DataOf(root), Current, p)
    BY FindsCurrent DEF RemoveOps
  <2>4. DOMAIN bucket' = DOMAIN bucket \cup {x} /\ bucket'[x] = Restrict(root, Below(root, c.path))
        /\ \A y \in DOMAIN bucket \ {x} : bucket'[y] = bucket[y]
    BY <2>1 DEF MoveToBucket, With
  <2>5. root' = Without(root, c.path)  BY <2>1 DEF MoveToBucket
  <2>6. \A p \in Path : Agree(DataOf(root'), Changed(DataOf(root), ChangeOf(c)), p)
    <3>1. Changed(DataOf(root), ChangeOf(c)) = Without(DataOf(root), c.path)
      BY <2>0, ChangedMeans DEF DirOps
    <3>2. DataOf(root') = Without(DataOf(root), c.path)
      BY <2>5 DEF DataOf, Without, Below, Restrict
    <3> QED  BY <3>1, <3>2 DEF Agree
  <2>7. /\ InFlight' = InFlight \cup {t} /\ Settled' /\ AtVersion' /\ RevertStops'
    BY <2>0, <2>1, <2>6, ChangeSettles DEF DirOps
  <2>8. /\ StacksCover /\ IndexesOnce /\ VersionsLinked /\ BucketHolds /\ ValuesKept
        /\ nextIndex \in Nat
    BY DEF RecordInv, DataInv, StacksOK
  <2>9. /\ Changes' = Changes /\ Entries' = Entries /\ Current' = Current
        /\ \A i : EntryAt(i)' = EntryAt(i)
    BY <2>1 DEF Changes, Entries, Current, AsOf, EntryAt
  <2>10. StacksCover' /\ VersionsLinked' /\ ValuesKept'
    BY <2>1, <2>8, <2>9 DEF StacksCover, VersionsLinked, ValuesKept, LastTouch
  <2>11. \A i \in Entries : EntryAt(i).index \in Nat /\ EntryAt(i).index < x
    BY <2>0, <2>8, Counted DEF IndexesOnce, Logged, Entry
  <2>12. IndexesOnce'  BY <2>0, <2>1, <2>8, <2>9, <2>11 DEF IndexesOnce
  <2>13. BucketHolds'
    <3>1. \A y \in DOMAIN bucket' : y \in Nat /\ y < nextIndex'
      BY <2>0, <2>1, <2>4, <2>8 DEF BucketHolds
    <3>2. \A i : /\ InBucket(i)' <=> InBucket(i)
                 /\ VersionWith(i)' = VersionWith(i)
      BY <2>1, <2>9 DEF InBucket, VersionWith
    <3>3. \A i \in Entries : /\ EntryAt(i).index \in DOMAIN bucket' <=> EntryAt(i).index \in DOMAIN bucket
                             /\ EntryAt(i).index # x
      BY <2>0, <2>4, <2>8, <2>11
    <3>4. ASSUME NEW y \in DOMAIN bucket, y # x, NEW d, NEW p, Holds(y, d, p)
          PROVE  Holds(y, d, p)'
      BY <2>4, <3>4 DEF Holds, ShapeIs
    <3> QED  BY <2>8, <2>9, <3>1, <3>2, <3>3, <3>4 DEF BucketHolds
  <2>14. InFlightPending'
    <3>1. saved'[t].index = x  BY <2>1 DEF DataInv, LocalsOK
    <3>2. x < x + 1 /\ \A i \in Entries : EntryAt(i).index # x  BY <2>0, <2>8, <2>11
    <3>3. Holds(x, Current, c.path)'
      <4>1. c.path \in Path /\ DOMAIN root \subseteq Path
        BY <2>0, RequestTyped DEF RequestType, DataInv, FilesOK, StoreOK
      <4>2. DOMAIN Current \subseteq Path  BY <2>8, CurrentSnapshot, IsSnapshot DEF DataInv
      <4>3. DOMAIN root = DOMAIN Current /\ \A p \in DOMAIN root : root[p].data = Current[p]
        BY <2>3, <4>1, <4>2, StoreFields DEF Agree
      <4>4. Below(root, c.path) = Below(Current, c.path)  BY <4>3 DEF Below
      <4>5. /\ DOMAIN bucket'[x] = Below(Current, c.path)
            /\ \A p \in Below(Current, c.path) : bucket'[x][p] = root[p] /\ p \in DOMAIN Current
        BY <2>4, <4>3, <4>4 DEF Restrict, Below
      <4>6. ShapeIs(bucket'[x], Current, Below(Current, c.path))
        BY <4>3, <4>5 DEF ShapeIs
      <4> QED  BY <2>4, <2>9, <4>6 DEF Holds
    <3> QED  BY <2>0, <2>1, <2>2, <2>3, <2>7, <2>9, <3>1, <3>2, <3>3 DEF InFlightPending
  <2> QED  BY <2>7, <2>10, <2>12, <2>13, <2>14 DEF RecordInv
<1> QED  BY <1>1, <1>2

LEMMA CreateRecords ==
  ASSUME ControlInv, HelpersNamed, UniqueIsExclusive, CheckedPathStays, DataInv, RecordInv,
         NEW t \in Task, pc[t] = "act", request[t].op \in AddOps,
         NEW content \in {Directory, EmptyCollection}, Create(t, content), ActFrame
  PROVE  RecordInv'
<1>1. CASE request[t].path \in DOMAIN root
  <2>1. Refuse(t)  BY <1>1 DEF Create
  <2> QED  BY <2>1, RefuseRecords
<1>2. CASE request[t].path \notin DOMAIN root
  <2>1. /\ root' = With(root, request[t].path, content) /\ Goto(t, "log")
        /\ UNCHANGED <<request, bucket, history, undone, nextIndex, versions>>
    BY <1>2 DEF Create, ActFrame
  <2>2. Applicable(Current, request[t])  BY <1>2, ChangeApplicable
  <2>3. Changed(DataOf(root), ChangeOf(request[t])) = With(DataOf(root), request[t].path, NoData)
    BY ChangedMeans DEF DirOps
  <2>4. content.data = NoData  BY DEF Directory, EmptyCollection
  <2>5. DataOf(root') = With(DataOf(root), request[t].path, NoData)
    BY <2>1, <2>4 DEF DataOf, With
  <2> QED  BY <2>1, <2>2, <2>3, <2>5, ChangeRecords DEF Agree
<1> QED  BY <1>1, <1>2

\* The change of one value in the files is the change of the data.
LEMMA SetChanges ==
  ASSUME StoreOK(root), NEW c, c.op \in DataOps, c.path \in DOMAIN root,
         SetsData(c.path, c.key, NewVal(c))
  PROVE  \A p \in Path : Agree(DataOf(root'), Changed(DataOf(root), ChangeOf(c)), p)
<1>1. Changed(DataOf(root), ChangeOf(c))
        = [DataOf(root) EXCEPT ![c.path] = [DataOf(root)[c.path] EXCEPT ![c.key] = NewVal(c)]]
  BY ChangedMeans
<1>2. DOMAIN DataOf(root') = DOMAIN root' /\ \A p \in DOMAIN root' : DataOf(root')[p] = root'[p].data
  BY StoreFields
<1>3. DOMAIN DataOf(root) = DOMAIN root /\ \A p \in DOMAIN root : DataOf(root)[p] = root[p].data
  BY StoreFields
<1> QED  BY <1>1, <1>2, <1>3 DEF Agree, SetsData

LEMMA InsertRecords ==
  ASSUME ControlInv, HelpersNamed, UniqueIsExclusive, CheckedPathStays, DataInv, RecordInv,
         NEW t \in Task, Insert(t)
  PROVE  RecordInv'
<1>1. pc[t] = "opened" /\ request[t].op = "insert" /\ ActFrame  BY DEF Insert, Working
<1>2. CASE Stored(t) # NoVal
  <2>1. Refuse(t)  BY <1>2 DEF Insert
  <2> QED  BY <1>1, <2>1, RefuseRecords
<1>3. CASE Stored(t) = NoVal
  <2>0. PICK c : c = request[t]  OBVIOUS
  <2>1. /\ InsertValue(c.path, c.key, c.val, countOfNode) /\ Goto(t, "log")
        /\ UNCHANGED <<request, bucket, history, undone, nextIndex, versions>>
    BY <1>3, <2>0 DEF Insert, ActFrame
  <2>2. c.op \in DataOps /\ c.op \notin DirOps  BY <1>1, <2>0 DEF DataOps, DirOps, AddOps, RemoveOps
  <2>3. Applicable(Current, c)  BY <1>1, <1>3, <2>0, <2>2, ChangeApplicable
  <2>4. c.path \in DOMAIN root /\ c.key \in Key /\ c.val \in Val
    BY <1>1, <2>0, <2>2, CollectionThere, RequestTyped, CollectionRequestAssumption
  <2>5. SetsData(c.path, c.key, c.val)  BY <2>1, <2>4, ValuesSet DEF DataInv, FilesOK
  <2>6. NewVal(c) = c.val  BY <1>1, <2>0 DEF NewVal
  <2>7. \A p \in Path : Agree(DataOf(root'), Changed(DataOf(root), ChangeOf(c)), p)
    BY <2>2, <2>4, <2>5, <2>6, SetChanges DEF DataInv, FilesOK
  <2> QED  BY <1>1, <2>0, <2>1, <2>2, <2>3, <2>7, ChangeRecords
<1> QED  BY <1>2, <1>3

LEMMA OverwriteRecords ==
  ASSUME ControlInv, HelpersNamed, UniqueIsExclusive, CheckedPathStays, DataInv, RecordInv,
         NEW t \in Task, Update(t) \/ RemoveKey(t)
  PROVE  RecordInv'
<1>1. pc[t] = "opened" /\ request[t].op \in {"update", "remove"} /\ ActFrame
  BY DEF Update, RemoveKey, Working
<1>2. CASE Stored(t) = NoVal
  <2>1. Refuse(t)  BY <1>2 DEF Update, RemoveKey
  <2> QED  BY <1>1, <2>1, RefuseRecords
<1>3. CASE Stored(t) # NoVal
  <2>0. PICK c : c = request[t]  OBVIOUS
  <2>1. /\ SetValue(c.path, c.key, NewVal(c)) /\ Goto(t, "log")
        /\ UNCHANGED <<request, bucket, history, undone, nextIndex, versions>>
    BY <1>3, <2>0 DEF Update, RemoveKey, Working, NewVal, ActFrame
  <2>2. c.op \in DataOps /\ c.op \notin DirOps /\ c.op # "insert"
    BY <1>1, <2>0 DEF DataOps, DirOps, AddOps, RemoveOps
  <2>3. Applicable(Current, c)  BY <1>1, <1>3, <2>0, <2>2, ChangeApplicable
  <2>4. c.path \in DOMAIN root /\ c.key \in Key /\ NewVal(c) \in Val \cup {NoVal}
    BY <1>1, <2>0, <2>2, CollectionThere, RequestTyped, CollectionRequestAssumption DEF NewVal
  <2>5. SetsData(c.path, c.key, NewVal(c))  BY <2>1, <2>4, ValuesSet DEF DataInv, FilesOK
  <2>6. \A p \in Path : Agree(DataOf(root'), Changed(DataOf(root), ChangeOf(c)), p)
    BY <2>2, <2>4, <2>5, SetChanges DEF DataInv, FilesOK
  <2> QED  BY <1>1, <2>0, <2>1, <2>2, <2>3, <2>6, ChangeRecords
<1> QED  BY <1>2, <1>3

LEMMA DirectoryRecords ==
  ASSUME ControlInv, HelpersNamed, UniqueIsExclusive, CheckedPathStays, DataInv, RecordInv,
         NEW t \in Task,
         \/ AddPool(t) \/ RemovePool(t) \/ AddScheme(t) \/ RemoveScheme(t)
         \/ AddCollection(t) \/ RemoveCollection(t)
  PROVE  RecordInv'
<1>1. CASE AddPool(t) \/ AddScheme(t)
  <2>1. pc[t] = "act" /\ request[t].op \in AddOps /\ Create(t, Directory) /\ ActFrame
    BY <1>1 DEF AddPool, AddScheme, Acting, AddOps
  <2> QED  BY <2>1, CreateRecords
<1>2. CASE AddCollection(t)
  <2>1. pc[t] = "act" /\ request[t].op \in AddOps /\ Create(t, EmptyCollection) /\ ActFrame
    BY <1>2 DEF AddCollection, Acting, AddOps
  <2> QED  BY <2>1, CreateRecords
<1>3. CASE RemovePool(t) \/ RemoveScheme(t) \/ RemoveCollection(t)
  <2>1. pc[t] = "act" /\ request[t].op \in RemoveOps /\ Discard(t) /\ ActFrame
    BY <1>3 DEF RemovePool, RemoveScheme, RemoveCollection, Acting, RemoveOps
  <2> QED  BY <2>1, DiscardRecords
<1> QED  BY <1>1, <1>2, <1>3

\* The entry a change leaves.
EntryOf(t) ==
  [op |-> request[t].op, path |-> request[t].path, index |-> LoggedIndex(t),
   key |-> request[t].key, val |-> LoggedVal(t), time |-> Len(versions)]

\* Where the new entry stands.
LEMMA LogExtends ==
  ASSUME ControlInv, UniqueIsExclusive, DataInv, RecordInv, NEW t \in Task, Log(t),
         NEW n, n = Changes, NEW f, f = Changed(Current, ChangeOf(request[t]))
  PROVE  /\ ~Replaying /\ undone = <<>> /\ undone' = <<>>
         /\ n \in Nat /\ Len(history) = n /\ Len(history') = n + 1
         /\ Entries = 1..n /\ Entries' = 1..(n + 1)
         /\ Changes' = n + 1 /\ Len(versions) = n + 1 /\ Len(versions') = n + 2
         /\ Current = versions[n + 1] /\ Current' = f /\ versions'[n + 2] = f
         /\ \A i \in 1..(n + 1) : versions'[i] = versions[i]
         /\ \A i \in 1..n : EntryAt(i)' = EntryAt(i) /\ EntryAt(i) = history[i]
         /\ EntryAt(n + 1)' = EntryOf(t)
<1>1. /\ pc[t] = "log" /\ undone' = undone
      /\ history' = Append(history, EntryOf(t)) /\ versions' = Append(versions, f)
  BY DEF Log, EntryOf
<1>2. ~Replaying /\ undone = <<>>
  <2>1. ~Replaying  BY <1>1, InFlightSettled
  <2> QED  BY <2>1 DEF RecordInv, Settled
<1>3. /\ n \in Nat /\ Len(history) = n /\ Len(versions) = n + 1 /\ Current = versions[n + 1]
      /\ history \in Seq(Logged) /\ versions \in Seq(Snapshot)
  BY <1>2, Counted DEF RecordInv, DataInv, StacksOK
<1>4. /\ Len(history') = n + 1 /\ history'[n + 1] = EntryOf(t)
      /\ \A i \in 1..n : history'[i] = history[i]
  BY <1>1, <1>3
<1>5. /\ Len(versions') = n + 2 /\ versions'[n + 2] = f
      /\ \A i \in 1..(n + 1) : versions'[i] = versions[i]
  BY <1>1, <1>3
<1>6. Changes' = n + 1  BY <1>3, <1>5 DEF Changes
<1>7. Current' = f
  <2>1. Changes' + 1 = n + 2  BY <1>3, <1>6
  <2> QED  BY <1>5, <2>1 DEF Current, AsOf
<1>8. Entries = 1..n /\ Entries' = 1..(n + 1)  BY <1>6 DEF Entries
<1>9. \A i \in 1..n : EntryAt(i)' = EntryAt(i) /\ EntryAt(i) = history[i]
  <2>1. \A i \in 1..n : i <= n /\ i <= n + 1  BY <1>3
  <2> QED  BY <1>3, <1>4, <2>1 DEF EntryAt
<1>10. EntryAt(n + 1)' = EntryOf(t)
  <2>1. n + 1 <= Len(history')  BY <1>3, <1>4
  <2> QED  BY <1>4, <2>1 DEF EntryAt
<1> QED
  BY <1>1, <1>2, <1>3, <1>4, <1>5, <1>6, <1>7, <1>8, <1>9, <1>10

\* Its index is its own, and what it took away, or did not, is in the bucket under it.
LEMMA LogIndex ==
  ASSUME ControlInv, UniqueIsExclusive, DataInv, RecordInv, NEW t \in Task, Log(t)
  PROVE  /\ EntryOf(t).index \in Nat /\ EntryOf(t).index < nextIndex'
         /\ nextIndex' \in Nat /\ nextIndex <= nextIndex'
         /\ \A i \in Entries : EntryAt(i).index # EntryOf(t).index
         /\ request[t].op \in RemoveOps => Holds(EntryOf(t).index, Current, request[t].path)
         /\ request[t].op \notin RemoveOps => EntryOf(t).index \notin DOMAIN bucket
<1>1. /\ t \in InFlight /\ nextIndex \in Nat /\ saved[t].index \in Nat
      /\ nextIndex' = IF request[t].op \in RemoveOps THEN nextIndex ELSE nextIndex + 1
      /\ EntryOf(t).index = IF request[t].op \in RemoveOps THEN saved[t].index ELSE nextIndex
  BY DEF Log, InFlight, DataInv, StacksOK, LocalsOK, DrawsAnew, EntryOf, LoggedIndex
<1>2. \A i \in Entries : EntryAt(i).index \in Nat /\ EntryAt(i).index < nextIndex
  BY Counted DEF RecordInv, IndexesOnce, Logged, Entry
<1>3. CASE request[t].op \in RemoveOps
  BY <1>1, <1>3 DEF RecordInv, InFlightPending
<1>4. CASE request[t].op \notin RemoveOps
  <2>1. nextIndex \notin DOMAIN bucket  BY <1>1 DEF RecordInv, BucketHolds
  <2> QED  BY <1>1, <1>2, <1>4, <2>1
<1> QED  BY <1>3, <1>4

\* Only an insertion or an update leaves a value, and it is the one it brought.
LEMMA LogValue ==
  ASSUME ControlInv, DataInv, RecordInv, NEW t \in Task, Log(t),
         NEW f, f = Changed(Current, ChangeOf(request[t])),
         NEW p \in DOMAIN f, NEW k \in Key, f[p][k] # NoVal, Current \in Snapshot
  PROVE  /\ TouchesKey(request[t], p, k) =>
              /\ EntryOf(t).op \in {"insert", "update"}
              /\ EntryOf(t).val = f[p][k]
         /\ ~TouchesKey(request[t], p, k) => p \in DOMAIN Current /\ Current[p][k] = f[p][k]
<1>0. PICK c : c = request[t]  OBVIOUS
<1>1. t \in InFlight /\ pc[t] = "log"  BY DEF Log, InFlight
<1>2. c.op \in DirOps \cup DataOps /\ c.path \in Path  BY <1>0, <1>1, InFlightChanges
<1>3. Applicable(Current, c) /\ Rooted(DOMAIN Current)
  <2>1. Changes \in Nat /\ Len(versions) = Changes + 1 /\ Current = versions[Changes + 1]
    BY Counted DEF RecordInv
  <2>2. Changes + 1 \in 1..Len(versions)  BY <2>1
  <2> QED  BY <1>0, <1>1, <2>1, <2>2 DEF RecordInv, InFlightPending, VersionsLinked
<1>4. /\ c.op \in AddOps => f = With(Current, c.path, NoData)
      /\ c.op \in RemoveOps => f = Without(Current, c.path)
      /\ c.op \in DataOps =>
           f = [Current EXCEPT ![c.path] = [Current[c.path] EXCEPT ![c.key] = NewVal(c)]]
  BY <1>0, <1>2, ChangedMeans
<1>5. DOMAIN Current \subseteq Path /\ \A q \in DOMAIN Current : Current[q] \in [Key -> Val \cup {NoVal}]
  BY IsSnapshot
<1>6. CASE c.op \in AddOps
  <2>1. DOMAIN f = DOMAIN Current \cup {c.path} /\ f[c.path] = NoData
        /\ \A q \in DOMAIN Current \ {c.path} : f[q] = Current[q]
    BY <1>4, <1>6 DEF With
  <2>2. p # c.path  BY <2>1 DEF NoData
  <2>3. p \in DOMAIN Current /\ Current[p][k] = f[p][k]  BY <2>1, <2>2
  <2>4. c.path \notin DOMAIN Current  BY <1>3, <1>6 DEF Applicable, AddOps, RemoveOps, DataOps
  <2>5. ~IsPrefix(c.path, p)  BY <1>2, <1>3, <2>3, <2>4 DEF Rooted
  <2> QED  BY <1>0, <1>6, <2>3, <2>5 DEF TouchesKey, Touches, DirOps
<1>7. CASE c.op \in RemoveOps
  <2>1. /\ DOMAIN f = DOMAIN Current \ Below(Current, c.path)
        /\ \A q \in DOMAIN f : f[q] = Current[q]
    BY <1>4, <1>7 DEF Without, Restrict
  <2>2. p \in DOMAIN Current /\ Current[p][k] = f[p][k] /\ ~IsPrefix(c.path, p)
    BY <2>1 DEF Below
  <2> QED  BY <1>0, <1>7, <2>2 DEF TouchesKey, Touches, DirOps
<1>8. CASE c.op \in DataOps
  <2>1. DOMAIN f = DOMAIN Current /\ \A q \in DOMAIN f \ {c.path} : f[q] = Current[q]
    BY <1>4, <1>8
  <2>2. /\ \A l \in Key \ {c.key} : p = c.path => f[p][l] = Current[p][l]
        /\ p = c.path /\ k = c.key => f[p][k] = NewVal(c)
    BY <1>4, <1>5, <1>8, <2>1
  <2>3. CASE p = c.path /\ k = c.key
    <3>1. f[p][k] = NewVal(c)  BY <2>2, <2>3
    <3>2. c.op # "remove"  BY <3>1 DEF NewVal
    <3>3. EntryOf(t).val = c.val /\ EntryOf(t).op = c.op  BY <1>0, <3>2 DEF EntryOf, LoggedVal
    <3>4. TouchesKey(c, p, k)
      BY <1>8, <2>3 DEF TouchesKey, Touches, DirOps, AddOps, RemoveOps, DataOps
    <3> QED  BY <1>0, <1>8, <3>1, <3>2, <3>3, <3>4 DEF NewVal, DataOps
  <2>4. CASE ~(p = c.path /\ k = c.key)
    <3>1. ~TouchesKey(c, p, k)
      BY <1>8, <2>4 DEF TouchesKey, Touches, DirOps, AddOps, RemoveOps, DataOps
    <3> QED  BY <1>0, <2>1, <2>2, <2>4, <3>1
  <2> QED  BY <2>3, <2>4
<1> QED  BY <1>2, <1>6, <1>7, <1>8 DEF DirOps

\* The recorded changes and those still in flight go on making what is under _root.
LEMMA LogSettles ==
  ASSUME ControlInv, HelpersNamed, UniqueIsExclusive, DataInv, RecordInv, NEW t \in Task, Log(t)
  PROVE  InFlightPending' /\ Settled' /\ AtVersion' /\ RevertStops'
<1>0. PICK c, n, f : c = request[t] /\ n = Changes /\ f = Changed(Current, ChangeOf(c))  OBVIOUS
<1>1. /\ pc[t] = "log" /\ pc'[t] = "unlock" /\ \A u \in Task \ {t} : pc'[u] = pc[u]
      /\ UNCHANGED <<root, bucket, undone, request, saved>>
  BY DEF Log, Goto, ControlInv, storeVars
<1>2. ~Replaying /\ undone' = <<>> /\ Current' = f  BY <1>0, LogExtends
<1>3. InFlight' = InFlight \ {t} /\ t \in InFlight  BY <1>1 DEF InFlight
<1>4. ~Replaying' /\ RevertStops'  BY <1>1, <1>2 DEF Replaying, RevertStops
<1>5. c.op \in DirOps \cup DataOps /\ c.path \in Path  BY <1>0, <1>3, InFlightChanges
<1>6. ASSUME NEW u \in InFlight \ {t}
      PROVE  /\ request'[u] = request[u] /\ request[u].op \in DataOps
             /\ request[u].op \in DirOps \cup DataOps /\ request[u].path \in Path
             /\ request[u].op \notin RemoveOps /\ Applicable(Current, request[u])
             /\ ~Touches(c, request[u].path)
  <2>1. /\ request[u].op \in {"update", "remove"} /\ request[u].path # c.path
        /\ c.op \in {"update", "remove", "read"}
    BY <1>0, <1>1, InFlightApart, InFlightChanges
  <2>2. c.op \notin DirOps  BY <2>1 DEF DirOps, AddOps, RemoveOps
  <2>3. ~Touches(c, request[u].path)  BY <2>1, <2>2 DEF Touches
  <2>4. Applicable(Current, request[u])  BY DEF RecordInv, InFlightPending
  <2> QED  BY <1>1, <2>1, <2>3, <2>4, InFlightChanges DEF DataOps, RemoveOps
<1>7. \A p \in Path : ~Touches(c, p) => Agree(Current, f, p)
  <2>1. \A p \in Path : ~Touches(c, p) => Agree(f, Current, p)
    BY <1>0, <1>5, ChangedElsewhere
  <2> QED  BY <2>1 DEF Agree
<1>8. InFlightPending'
  <2>1. ASSUME NEW u \in InFlight \ {t} PROVE Applicable(f, request[u])
    <3>1. Agree(Current, f, request[u].path)  BY <1>6, <1>7
    <3> QED  BY <1>6, <3>1, ApplicableAlike
  <2> QED  BY <1>2, <1>3, <1>6, <2>1 DEF InFlightPending
<1>9. ASSUME NEW p \in Path PROVE SettledAt(p)'
  <2>1. SettledAt(p)  BY <1>2 DEF RecordInv, Settled
  <2>2. ASSUME NEW u \in InFlight \ {t}, Touches(request[u], p)
        PROVE  Agree(DataOf(root), Changed(f, ChangeOf(request[u])), p)
    <3>1. Agree(DataOf(root), Changed(Current, ChangeOf(request[u])), p)
      BY <2>1, <2>2 DEF SettledAt
    <3>2. p = request[u].path  BY <1>6, <2>2 DEF Touches, DirOps, AddOps, RemoveOps, DataOps
    <3>3. Agree(Current, f, p)  BY <1>6, <1>7, <3>2
    <3>4. Agree(Changed(Current, ChangeOf(request[u])), Changed(f, ChangeOf(request[u])), p)
      BY <1>6, <3>3, ChangedAlike
    <3> QED  BY <3>1, <3>4, AgreeTransitive
  <2>3. ASSUME \A u \in InFlight \ {t} : ~Touches(request[u], p)
        PROVE  Agree(DataOf(root), f, p)
    <3>1. CASE Touches(c, p)  BY <1>0, <1>3, <2>1, <3>1 DEF SettledAt
    <3>2. CASE ~Touches(c, p)
      <4>1. Agree(DataOf(root), Current, p)  BY <1>0, <2>1, <2>3, <3>2 DEF SettledAt
      <4>2. Agree(Current, f, p)  BY <1>7, <3>2
      <4> QED  BY <4>1, <4>2, AgreeTransitive
    <3> QED  BY <3>1, <3>2
  <2> QED  BY <1>1, <1>2, <1>3, <2>2, <2>3 DEF SettledAt
<1> QED  BY <1>2, <1>4, <1>8, <1>9 DEF Settled, AtVersion

LEMMA LogRecords ==
  ASSUME ControlInv, HelpersNamed, UniqueIsExclusive, DataInv, RecordInv, NEW t \in Task, Log(t)
  PROVE  RecordInv'
<1>0. PICK c, n, f : c = request[t] /\ n = Changes /\ f = Changed(Current, ChangeOf(c))  OBVIOUS
<1>1. PICK e : e = EntryOf(t)  OBVIOUS
<1>2. /\ undone = <<>> /\ undone' = <<>>
      /\ n \in Nat /\ Len(history) = n /\ Len(history') = n + 1
      /\ Entries = 1..n /\ Entries' = 1..(n + 1)
      /\ Changes' = n + 1 /\ Len(versions) = n + 1 /\ Len(versions') = n + 2
      /\ Current = versions[n + 1] /\ Current' = f /\ versions'[n + 2] = f
      /\ \A i \in 1..(n + 1) : versions'[i] = versions[i]
      /\ \A i \in 1..n : EntryAt(i)' = EntryAt(i) /\ EntryAt(i) = history[i]
      /\ EntryAt(n + 1)' = e
  BY <1>0, <1>1, LogExtends
<1>3. bucket' = bucket /\ t \in InFlight /\ pc[t] = "log"  BY DEF Log, storeVars, InFlight
<1>4. c.op \in DirOps \cup DataOps /\ c.path \in Path /\ Applicable(Current, c)
  BY <1>0, <1>3, InFlightChanges DEF RecordInv, InFlightPending
<1>5. e.op = c.op /\ e.path = c.path /\ e.key = c.key /\ e.time = n + 1
  BY <1>0, <1>1, <1>2 DEF EntryOf
<1>6. /\ StacksCover /\ IndexesOnce /\ VersionsLinked /\ BucketHolds /\ ValuesKept
  BY DEF RecordInv
<1>7. Current \in Snapshot /\ Rooted(DOMAIN Current)
  <2>1. n + 1 \in 1..Len(versions)  BY <1>2
  <2> QED  BY <1>2, <1>6, <2>1, CurrentSnapshot DEF VersionsLinked, DataInv
<1>8. /\ e.index \in Nat /\ e.index < nextIndex' /\ nextIndex' \in Nat /\ nextIndex <= nextIndex'
      /\ nextIndex \in Nat
      /\ \A i \in 1..n : EntryAt(i).index # e.index
      /\ c.op \in RemoveOps => Holds(e.index, Current, c.path)
      /\ c.op \notin RemoveOps => e.index \notin DOMAIN bucket
  BY <1>0, <1>1, <1>2, LogIndex DEF DataInv, StacksOK
<1>9. \A i \in 1..(n + 1) : i \in 1..n \/ i = n + 1  BY <1>2
<1>10. \A i \in 1..n : i \in 1..(n + 1) /\ i + 1 \in 1..(n + 1) /\ i <= n /\ i <= n + 1 /\ i # n + 1
  BY <1>2
<1>11. StacksCover'
  <2>1. \A i \in 1..n : EntryAt(i)'.time = i  BY <1>2, <1>6 DEF StacksCover
  <2>2. Len(history') + Len(undone') = n + 1  BY <1>2
  <2> QED  BY <1>2, <1>5, <1>9, <2>1, <2>2 DEF StacksCover
<1>12. IndexesOnce'
  <2>1. \A i \in 1..n : EntryAt(i).index < nextIndex'
    <3>1. \A i \in 1..n : EntryAt(i).index \in Nat /\ EntryAt(i).index < nextIndex
      BY <1>2, <1>6, Counted DEF IndexesOnce, Logged, Entry
    <3> QED  BY <1>8, <3>1
  <2>2. \A i, j \in 1..n : EntryAt(i).index = EntryAt(j).index => i = j
    BY <1>2, <1>6 DEF IndexesOnce
  <2> QED  BY <1>2, <1>8, <1>9, <2>1, <2>2 DEF IndexesOnce
<1>13. VersionsLinked'
  <2>1. Rooted(DOMAIN f)  BY <1>0, <1>4, <1>7, RootedChanged
  <2>2. Leads(Current, e, f)
    <3>1. /\ c.op \in DataOps => c.key \in Key
          /\ c.op \in {"insert", "update"} => c.val \in Val
      BY <1>0, <1>3, InFlightChanges, CollectionRequestAssumption
    <3> QED  BY <1>0, <1>4, <1>5, <1>7, <3>1, ChangedLeads
  <2>3. \A i \in 1..Len(versions') : Rooted(DOMAIN versions'[i])
    <3>1. \A i \in 1..(n + 2) : i \in 1..(n + 1) \/ i = n + 2  BY <1>2
    <3>2. \A i \in 1..(n + 1) : Rooted(DOMAIN versions[i])  BY <1>2, <1>6 DEF VersionsLinked
    <3> QED  BY <1>2, <2>1, <3>1, <3>2
  <2>4. \A i \in 1..n : Leads(versions'[i], EntryAt(i)', versions'[i + 1])
    <3>1. \A i \in 1..n : Leads(versions[i], EntryAt(i), versions[i + 1])
      BY <1>2, <1>6 DEF VersionsLinked
    <3> QED  BY <1>2, <1>10, <3>1
  <2>5. Leads(versions'[n + 1], EntryAt(n + 1)', versions'[n + 1 + 1])
    <3>1. n + 1 + 1 = n + 2 /\ n + 1 \in 1..(n + 1)  BY <1>2
    <3> QED  BY <1>2, <2>2, <3>1
  <2> QED  BY <1>2, <1>9, <2>3, <2>4, <2>5 DEF VersionsLinked
<1>14. BucketHolds'
  <2>1. \A x \in DOMAIN bucket' : x \in Nat /\ x < nextIndex'
    BY <1>3, <1>6, <1>8 DEF BucketHolds
  <2>2. \A x, d, p : Holds(x, d, p) <=> x \in DOMAIN bucket /\ ShapeIs(bucket[x], d, Below(d, p))
    BY DEF Holds
  <2>3. ASSUME NEW i \in 1..n
        PROVE  /\ InBucket(i)' <=> InBucket(i)
               /\ VersionWith(i)' = VersionWith(i)
    BY <1>2, <1>10, <2>3 DEF InBucket, VersionWith
  <2>4. InBucket(n + 1)' <=> c.op \in RemoveOps  BY <1>2, <1>5 DEF InBucket
  <2>5. c.op \in RemoveOps => VersionWith(n + 1)' = Current
    <3>1. n + 1 \in 1..(n + 1)  BY <1>2
    <3> QED  BY <1>2, <1>5, <3>1 DEF VersionWith
  <2>6. \A i \in 1..n :
          /\ EntryAt(i).index \in DOMAIN bucket <=> InBucket(i)
          /\ InBucket(i) => Holds(EntryAt(i).index, VersionWith(i), EntryAt(i).path)
    BY <1>2, <1>6 DEF BucketHolds
  <2>7. e.index \in DOMAIN bucket <=> c.op \in RemoveOps  BY <1>8 DEF Holds
  <2>8. ASSUME NEW i \in 1..(n + 1)
        PROVE  /\ EntryAt(i)'.index \in DOMAIN bucket <=> InBucket(i)'
               /\ InBucket(i)' =>
                    ShapeIs(bucket[EntryAt(i)'.index], VersionWith(i)',
                            Below(VersionWith(i)', EntryAt(i)'.path))
    <3>1. CASE i \in 1..n  BY <1>2, <2>2, <2>3, <2>6, <3>1
    <3>2. CASE i = n + 1  BY <1>2, <1>5, <1>8, <2>2, <2>4, <2>5, <2>7, <3>2
    <3> QED  BY <1>9, <2>8, <3>1, <3>2
  <2> QED  BY <1>2, <1>3, <2>1, <2>8 DEF BucketHolds, Holds
<1>15. ValuesKept'
  <2>1. SUFFICES ASSUME NEW p \in DOMAIN f, NEW k \in Key, NEW i \in 1..(n + 1), f[p][k] # NoVal,
                        TouchesKey(EntryAt(i)', p, k),
                        \A j \in 1..(n + 1) : j > i => ~TouchesKey(EntryAt(j)', p, k)
                 PROVE  /\ EntryAt(i)'.op \in {"insert", "update"}
                        /\ EntryAt(i)'.op = "insert" \/ i > n + 1 => EntryAt(i)'.val = f[p][k]
    BY <1>2 DEF ValuesKept, LastTouch
  <2>2. /\ TouchesKey(c, p, k) => e.op \in {"insert", "update"} /\ e.val = f[p][k]
        /\ ~TouchesKey(c, p, k) => p \in DOMAIN Current /\ Current[p][k] = f[p][k]
    BY <1>0, <1>1, <1>7, <2>1, LogValue
  <2>3. TouchesKey(e, p, k) <=> TouchesKey(c, p, k)  BY <1>5, TouchFields
  <2>4. CASE i = n + 1  BY <1>2, <2>1, <2>2, <2>3, <2>4
  <2>5. CASE i \in 1..n
    <3>1. n + 1 > i /\ n + 1 \in 1..(n + 1)  BY <1>2, <2>5
    <3>2. ~TouchesKey(c, p, k)  BY <1>2, <2>1, <2>3, <3>1
    <3>3. p \in DOMAIN Current /\ Current[p][k] = f[p][k]  BY <2>2, <3>2
    <3>4. \A j \in 1..n : j > i => ~TouchesKey(EntryAt(j), p, k)  BY <1>2, <1>10, <2>1
    <3>5. LastTouch(i, p, k)  BY <1>2, <2>1, <2>5, <3>4 DEF LastTouch
    <3>6. /\ EntryAt(i).op \in {"insert", "update"}
          /\ EntryAt(i).op = "insert" => EntryAt(i).val = f[p][k]
      BY <1>2, <1>6, <2>1, <2>5, <3>3, <3>5 DEF ValuesKept
    <3>7. ~(i > n + 1)  BY <1>2, <2>5
    <3> QED  BY <1>2, <2>5, <3>6, <3>7
  <2> QED  BY <1>9, <2>4, <2>5
<1> QED  BY <1>11, <1>12, <1>13, <1>14, <1>15, LogSettles DEF RecordInv

-------------------------------------------------------------------------------
(* The invariant of the controller, and of one that is started again. *)

HistoryInv ==
  ControlInv /\ LockInv /\ CheckedPathStays /\ DataInv /\ HelpersNamed /\ RecordInv

LEMMA RecordNext ==
  ASSUME ControlInv, UniqueIsExclusive, ControlInv', UniqueIsExclusive', CheckedPathStays,
         DataInv, HelpersNamed, RecordInv, [Next]_vars
  PROVE  RecordInv'
<1>1. CASE Finished \/ UNCHANGED vars  BY <1>1, StillRecords DEF Finished, vars
<1>2. ASSUME NEW t \in Task, Get(t) PROVE RecordInv'
  BY <1>2, StillRecords DEF Get, storeVars, historyVars
<1>3. ASSUME NEW t \in Task, TakeLock(t) PROVE RecordInv'
  <2>1. CASE pc'[t] = "revert"  BY <1>3, <2>1, TakeRootRecords
  <2>2. CASE pc'[t] # "revert"  BY <1>3, <2>2, PassageRecords
  <2> QED  BY <2>1, <2>2
<1>4. ASSUME NEW t \in Task, Read(t) PROVE RecordInv'
  BY <1>4, RefuseRecords DEF Read, Working
<1>5. ASSUME NEW t \in Task, RevertStep(t) PROVE RecordInv'
  BY <1>5, RevertRecords DEF RevertStep
<1>6. ASSUME NEW t \in Task, RedoStep(t) PROVE RecordInv'
  BY <1>6, RedoRecords DEF RedoStep
<1>7. ASSUME NEW t \in Task, TaskStep(t) PROVE RecordInv'
  BY <1>3, <1>4, <1>5, <1>6, <1>7, PassageRecords, DirectoryRecords, InsertRecords,
     OverwriteRecords, LogRecords, RedoDoneRecords DEF TaskStep
<1> QED  BY <1>1, <1>2, <1>7, StartRecords DEF Next

LEMMA HistoryNext == HistoryInv /\ [Next]_vars => HistoryInv'
<1>1. SUFFICES ASSUME HistoryInv, [Next]_vars PROVE HistoryInv'  OBVIOUS
<1>2. /\ ControlInv /\ LockInv /\ CheckedPathStays /\ DataInv /\ HelpersNamed /\ RecordInv
      /\ UniqueIsExclusive
  BY <1>1, LockInvExcludes DEF HistoryInv
<1>3. ControlInv' /\ [LockNext]_lockVars  BY <1>1, <1>2, ControlNext
<1>4. LockInv'  BY <1>2, <1>3, LockInvNext
<1>5. UniqueIsExclusive'  BY <1>4, LockInvExcludes, PTL
<1>6. CheckedPathStays'  BY <1>1, <1>2, CheckedNext
<1>7. DataInv'  BY <1>1, <1>2, DataNext
<1>8. HelpersNamed'  BY <1>1, <1>2, HelpersNext
<1>9. RecordInv'  BY <1>1, <1>2, <1>3, <1>5, RecordNext
<1> QED  BY <1>3, <1>4, <1>6, <1>7, <1>8, <1>9 DEF HistoryInv

\* A controller that has just been started, for the first time or again.
Fresh ==
  /\ LockInit
  /\ StoreOK(root) /\ Rooted(DOMAIN root) /\ DOMAIN bucket = {}
  /\ versions = <<DataOf(root)>> /\ history = <<>> /\ undone = <<>>
  /\ nextIndex = 0 /\ countOfNode = 0
  /\ pc \in [Task -> {"new", "lost"}] /\ request \in [Task -> Request]
  /\ saved \in [Task -> [index : Nat, val : Val \cup {NoVal}]]

LEMMA FreshHolds == Fresh => HistoryInv
<1>1. SUFFICES ASSUME Fresh PROVE HistoryInv  OBVIOUS
<1>2. /\ \A t \in Task : pc[t] \in {"new", "lost"}
      /\ held = [t \in Task |-> <<>>] /\ \A t \in Task : held[t] = <<>>
  BY <1>1 DEF Fresh, LockInit
<1>3. ControlInv
  <2>1. HeldAsScoped  BY <1>2 DEF HeldAsScoped, InScope
  <2>2. pc \in [Task -> Labels]  BY <1>1 DEF Fresh, Labels
  <2>3. held \in [Task -> Seq(Helper)]  BY <1>2
  <2> QED  BY <1>1, <2>1, <2>2, <2>3 DEF ControlInv, Fresh
<1>4. LockInv  BY <1>1, LockInvInit DEF Fresh
<1>5. CheckedPathStays  BY <1>2 DEF CheckedPathStays
<1>6. DataInv
  <2>1. DataOf(root) \in Snapshot  BY <1>1, DataSnapshot DEF Fresh
  <2>2. versions \in Seq(Snapshot) \ {<<>>}  BY <1>1, <2>1 DEF Fresh
  <2>3. LocalsOK  BY <1>1, <1>2 DEF Fresh, LocalsOK
  <2> QED  BY <1>1, <2>2, <2>3 DEF Fresh, DataInv, FilesOK, StacksOK
<1>7. HelpersNamed  BY <1>2 DEF HelpersNamed
<1>8. RecordInv
  <2>1. /\ Len(versions) = 1 /\ versions[1] = DataOf(root) /\ Len(history) = 0 /\ Len(undone) = 0
        /\ undone = <<>> /\ DOMAIN bucket = {} /\ Rooted(DOMAIN root)
    BY <1>1 DEF Fresh
  <2>2. Changes = 0 /\ Entries = {}  BY <2>1 DEF Changes, Entries
  <2>3. Current = DataOf(root)  BY <2>1, <2>2 DEF Current, AsOf
  <2>4. InFlight = {} /\ ~Replaying /\ RevertStops
    BY <1>2 DEF InFlight, Replaying, RevertStops
  <2>5. StacksCover /\ IndexesOnce /\ BucketHolds /\ ValuesKept
    BY <2>1, <2>2 DEF StacksCover, IndexesOnce, BucketHolds, ValuesKept
  <2>6. VersionsLinked  BY <2>1, <2>2, StoreFields DEF VersionsLinked
  <2>7. Settled  BY <2>1, <2>3, <2>4 DEF Settled, SettledAt, Agree
  <2> QED  BY <2>4, <2>5, <2>6, <2>7 DEF RecordInv, InFlightPending, AtVersion
<1> QED  BY <1>3, <1>4, <1>5, <1>6, <1>7, <1>8 DEF HistoryInv

LEMMA InitFresh == Init => Fresh
<1>1. SUFFICES ASSUME Init PROVE Fresh  OBVIOUS
<1>2. (CHOOSE r \in Request : TRUE) \in Request  BY RequestAssumption
<1>3. StoreOK(root) /\ Rooted(DOMAIN root)
  BY <1>1, BaseAssumption DEF Init, StoreOK, Rooted
<1> QED  BY <1>1, <1>2, <1>3 DEF Init, Fresh

\* The directories under _root are those some changes of the past left.
LEMMA RootRooted ==
  ASSUME HistoryInv
  PROVE  Rooted(DOMAIN root)
<1>1. /\ ControlInv /\ DataInv /\ HelpersNamed /\ RecordInv /\ UniqueIsExclusive
      /\ StacksCover /\ VersionsLinked
  BY LockInvExcludes DEF HistoryInv, RecordInv
<1>2. /\ Changes \in Nat /\ Len(history) \in Nat /\ Len(history) <= Changes
      /\ Len(versions) = Changes + 1 /\ Current = versions[Changes + 1] /\ Current \in Snapshot
  BY <1>1, Counted, CurrentSnapshot DEF DataInv
<1>3. CASE Replaying
  <2>1. Len(history) + 1 \in 1..Len(versions)  BY <1>2
  <2> QED  BY <1>1, <1>3, <2>1 DEF RecordInv, AtVersion, ShapeIs, AsOf, VersionsLinked
<1>4. CASE ~Replaying
  <2>1. \A p \in Path : SettledAt(p)  BY <1>1, <1>4 DEF RecordInv, Settled
  <2>2. DOMAIN root \subseteq Path /\ DOMAIN DataOf(root) = DOMAIN root
    BY <1>1, StoreFields DEF DataInv, FilesOK, StoreOK
  <2>3. DOMAIN Current \subseteq Path /\ Rooted(DOMAIN Current)
    <3>1. Changes + 1 \in 1..Len(versions)  BY <1>2
    <3> QED  BY <1>1, <1>2, <3>1, IsSnapshot DEF VersionsLinked
  <2>4. ASSUME NEW t \in InFlight, request[t].op \in DirOps PROVE Rooted(DOMAIN root)
    <3>1. PICK c : c = request[t]  OBVIOUS
    <3>2. PICK f : f = Changed(Current, ChangeOf(c))  OBVIOUS
    <3>3. /\ c.op \in DirOps \cup DataOps /\ c.path \in Path /\ Applicable(Current, c)
          /\ c \in Request
      BY <1>1, <3>1, InFlightChanges DEF RecordInv, InFlightPending
    <3>4. \A u \in InFlight : u = t
      <4>1. t \in Task /\ pc[t] = "log" /\ request[t].op \notin {"update", "remove", "read"}
        BY <1>1, <2>4, InFlightChanges DEF DirOps, AddOps, RemoveOps
      <4> QED  BY <1>1, <4>1, InFlightApart, InFlightChanges
    <3>5. f \in Snapshot
      <4>1. c.op \in {"insert", "update"} => c.val \in Val
        BY <3>3, CollectionRequestAssumption
      <4>2. /\ ChangeOf(c).path \in Path /\ ChangeOf(c).op \in DirOps \cup DataOps
            /\ ChangeOf(c).op \in {"insert", "update"} => ChangeOf(c).val \in Val
        BY <3>3, <4>1 DEF ChangeOf
      <4> QED  BY <1>2, <3>2, <4>2, ChangedSnapshot
    <3>6. \A p \in Path : Agree(DataOf(root), f, p)
      <4>1. ASSUME NEW p \in Path PROVE Agree(DataOf(root), f, p)
        <5>1. CASE Touches(c, p)  BY <2>1, <2>4, <3>1, <3>2, <5>1 DEF SettledAt
        <5>2. CASE ~Touches(c, p)
          <6>1. Agree(DataOf(root), Current, p)  BY <2>1, <3>1, <3>4, <5>2 DEF SettledAt
          <6>2. Agree(f, Current, p)  BY <3>2, <3>3, <5>2, ChangedElsewhere
          <6> QED  BY <6>1, <6>2 DEF Agree
        <5> QED  BY <5>1, <5>2
      <4> QED  BY <4>1
    <3>7. DOMAIN f \subseteq Path  BY <3>5, IsSnapshot
    <3>8. DOMAIN root = DOMAIN f  BY <2>2, <3>6, <3>7 DEF Agree
    <3>9. Rooted(DOMAIN f)  BY <1>2, <2>3, <3>2, <3>3, RootedChanged
    <3> QED  BY <3>8, <3>9
  <2>5. CASE \A t \in InFlight : request[t].op \notin DirOps
    <3>1. ASSUME NEW p \in Path PROVE p \in DOMAIN root <=> p \in DOMAIN Current
      <4>1. CASE \E t \in InFlight : Touches(request[t], p)
        <5>1. PICK t \in InFlight : Touches(request[t], p)  BY <4>1
        <5>2. request[t].op \in DirOps \cup DataOps  BY <1>1, InFlightChanges
        <5>3. request[t].op \in DataOps  BY <2>5, <5>2
        <5>4. DOMAIN Changed(Current, ChangeOf(request[t])) = DOMAIN Current
          <6>1. PICK c : c = request[t]  OBVIOUS
          <6>2. Changed(Current, ChangeOf(c))
                  = [Current EXCEPT ![c.path] = [Current[c.path] EXCEPT ![c.key] = NewVal(c)]]
            BY <5>2, <5>3, <6>1, ChangedMeans
          <6> QED  BY <6>1, <6>2
        <5> QED  BY <2>1, <2>2, <5>1, <5>4 DEF SettledAt, Agree
      <4>2. CASE \A t \in InFlight : ~Touches(request[t], p)
        BY <2>1, <2>2, <4>2 DEF SettledAt, Agree
      <4> QED  BY <4>1, <4>2
    <3>2. DOMAIN root = DOMAIN Current  BY <2>2, <2>3, <3>1
    <3> QED  BY <2>3, <3>2
  <2> QED  BY <2>4, <2>5
<1> QED  BY <1>3, <1>4

LEMMA RestartFresh == HistoryInv /\ Restart => Fresh'
<1>1. SUFFICES ASSUME HistoryInv, Restart PROVE Fresh'  OBVIOUS
<1>2. root' = root  BY <1>1 DEF Restart, RootFound
<1>3. StoreOK(root') /\ Rooted(DOMAIN root')
  BY <1>1, <1>2, RootRooted DEF HistoryInv, DataInv, FilesOK
<1>4. LockInit'  BY <1>1 DEF Restart, LockInit
<1>5. pc' \in [Task -> {"new", "lost"}]  BY <1>1 DEF Restart
<1>6. request' \in [Task -> Request] /\ saved' \in [Task -> [index : Nat, val : Val \cup {NoVal}]]
  BY <1>1 DEF Restart, HistoryInv, ControlInv, DataInv, LocalsOK
<1>7. /\ DOMAIN bucket' = {} /\ versions' = <<DataOf(root')>> /\ history' = <<>>
      /\ undone' = <<>> /\ nextIndex' = 0 /\ countOfNode' = 0
  BY <1>1 DEF Restart
<1> QED  BY <1>3, <1>4, <1>5, <1>6, <1>7 DEF Fresh

\* What the stacks of operations, the open writers and the files say of each other is
\* true of every state of a process: every theorem below rests on it.
THEOREM HistoryKept == Spec => []HistoryInv
BY InitFresh, FreshHolds, HistoryNext, PTL DEF Spec

\* It is true again after any number of deaths, of the changes recorded since the last.
THEOREM HistoryKeptByRestarts == RestartSpec => []HistoryInv
<1>1. HistoryInv /\ [RestartNext]_vars => HistoryInv'
  <2>1. SUFFICES ASSUME HistoryInv, [RestartNext]_vars PROVE HistoryInv'  OBVIOUS
  <2>2. CASE [Next]_vars  BY <2>1, <2>2, HistoryNext
  <2>3. CASE Restart
    <3>1. Fresh'  BY <2>1, <2>3, RestartFresh
    <3> QED  BY <3>1, FreshHolds, PTL
  <2> QED  BY <2>1, <2>2, <2>3 DEF RestartNext
<1> QED  BY <1>1, InitFresh, FreshHolds, PTL DEF RestartSpec

-------------------------------------------------------------------------------
(* What it means for the clients. *)

LEMMA RecordedReads == HistoryInv => ReadsAreRecorded
<1>1. SUFFICES ASSUME HistoryInv, NEW t \in Task, pc[t] = "opened", request[t].op = "read"
               PROVE  root[request[t].path].data = Current[request[t].path]
  BY DEF ReadsAreRecorded
<1>2. Agree(DataOf(root), Current, request[t].path)
  BY <1>1, FindsCurrent, LockInvExcludes DEF HistoryInv
<1>3. request[t].path \in DOMAIN root  BY <1>1, CollectionThere DEF HistoryInv
<1> QED  BY <1>2, <1>3, StoreFields DEF Agree

\* A read at the present finds in a collection what the recorded changes left there:
\* no writer that has yet to push its entry on _history is at work on it.
THEOREM ReadsOnlyRecords == Spec => []ReadsAreRecorded
BY HistoryKept, RecordedReads, PTL

LEMMA AgreeingIsEqual ==
  ASSUME NEW d \in Snapshot, NEW e \in Snapshot, \A p \in Path : Agree(d, e, p)
  PROVE  d = e
<1>1. /\ DOMAIN d \subseteq Path /\ d = [p \in DOMAIN d |-> d[p]]
      /\ DOMAIN e \subseteq Path /\ e = [p \in DOMAIN e |-> e[p]]
  BY IsSnapshot
<1>2. DOMAIN d = DOMAIN e /\ \A p \in DOMAIN d : d[p] = e[p]  BY <1>1 DEF Agree
<1> QED  BY <1>1, <1>2

LEMMA CurrentWhenQuiet == HistoryInv => QuietIsCurrent
<1>1. SUFFICES ASSUME HistoryInv, \A t \in Task : held[t] = <<>>
               PROVE  DataOf(root) = Current
  BY DEF QuietIsCurrent
<1>2. \A t \in Task : pc[t] \notin Inside
  <2>1. \A t \in Task : ~(Len(held[t]) > 0)  BY <1>1
  <2> QED  BY <1>1, <2>1, InsideHolds DEF HistoryInv
<1>3. InFlight = {} /\ ~Replaying  BY <1>2 DEF InFlight, Replaying, Inside
<1>4. \A p \in Path : Agree(DataOf(root), Current, p)
  BY <1>1, <1>3 DEF HistoryInv, RecordInv, Settled, SettledAt
<1>5. DataOf(root) \in Snapshot /\ Current \in Snapshot
  BY <1>1, DataSnapshot, CurrentSnapshot DEF HistoryInv, DataInv, FilesOK
<1> QED  BY <1>4, <1>5, AgreeingIsEqual

\* Whatever was undone and redone meanwhile, a controller nobody works on keeps the
\* database the recorded changes make of the one it started with.
THEOREM QuietDatabase == Spec => []QuietIsCurrent
BY HistoryKept, CurrentWhenQuiet, PTL

LEMMA ReplayFinds == HistoryInv => ReplayNeverFails
BY LockInvExcludes, RevertRecords, RedoRecords DEF HistoryInv, ReplayNeverFails

\* revert_to and redo_all find every directory, bucket and key they are about to
\* rename, erase or update: neither throws with a replay half done.
THEOREM ReplayAlwaysCan == Spec => []ReplayNeverFails
BY HistoryKept, ReplayFinds, PTL

\* Between two versions that agree in shape there are the same keys.
LEMMA ShapesAlike ==
  ASSUME NEW d, ShapeIs(root, d, DOMAIN d)
  PROVE  Shape(DataOf(root)) = Shape(d)
<1>1. DOMAIN DataOf(root) = DOMAIN d /\ \A p \in DOMAIN d : DataOf(root)[p] = root[p].data
  BY StoreFields DEF ShapeIs
<1>2. \A p \in DOMAIN d :
        {k \in Key : DataOf(root)[p][k] # NoVal} = {k \in Key : d[p][k] # NoVal}
  BY <1>1 DEF ShapeIs
<1> QED  BY <1>1, <1>2 DEF Shape

LEMMA LooksAtTime == HistoryInv => HistoricalShape
<1>1. SUFFICES ASSUME HistoryInv, NEW t \in Task, pc[t] = "look"
               PROVE  Shape(DataOf(root)) = Shape(AsOf(Requested(t)))
  BY DEF HistoricalShape
<1>2. Len(history) = Requested(t)  BY <1>1 DEF HistoryInv, RecordInv, RevertStops
<1>3. Replaying  BY <1>1 DEF Replaying
<1> QED  BY <1>1, <1>2, <1>3, ShapesAlike DEF HistoryInv, RecordInv, AtVersion

\* A read with need_persist finds the pools, schemes, collections and keys there were
\* at the time it asks for.
THEOREM PastHasItsShape == Spec => []HistoricalShape
BY HistoryKept, LooksAtTime, PTL

LEMMA RestartKeeps ==
  ASSUME HistoryInv, Restart
  PROVE  /\ undone = <<>> => IsCurrentWithInFlight(AsOf(0)')
         /\ \/ IsCurrentWithInFlight(AsOf(0)')
            \/ \E n \in 0..Changes : Shape(AsOf(0)') = Shape(AsOf(n))
<1>1. AsOf(0)' = DataOf(root)
  <2>1. versions' = <<DataOf(root)>>  BY DEF Restart, RootFound
  <2>2. 0 + 1 = 1  OBVIOUS
  <2> QED  BY <2>1, <2>2 DEF AsOf
<1>2. CASE Replaying
  <2>1. ShapeIs(root, AsOf(Len(history)), DOMAIN AsOf(Len(history)))
    BY <1>2 DEF HistoryInv, RecordInv, AtVersion
  <2>2. Len(history) \in 0..Changes  BY Counted DEF HistoryInv, RecordInv
  <2>3. Shape(DataOf(root)) = Shape(AsOf(Len(history)))  BY <2>1, ShapesAlike
  <2>4. ASSUME undone = <<>> PROVE IsCurrentWithInFlight(DataOf(root))
    <3>1. \A p \in Path : Agree(DataOf(root), Current, p)
      BY <1>2, <2>4, ReplayedIsCurrent DEF HistoryInv, RecordInv
    <3>2. InFlight = {}
      BY <1>2, ReplayAlone, LockInvExcludes DEF HistoryInv, Replaying
    <3> QED  BY <3>1, <3>2 DEF IsCurrentWithInFlight
  <2> QED  BY <1>1, <2>2, <2>3, <2>4
<1>3. CASE ~Replaying
  <2>1. \A p \in Path : SettledAt(p)  BY <1>3 DEF HistoryInv, RecordInv, Settled
  <2>2. IsCurrentWithInFlight(DataOf(root))  BY <2>1 DEF IsCurrentWithInFlight, SettledAt
  <2> QED  BY <1>1, <2>2
<1> QED  BY <1>2, <1>3

\* A death outside the reads of the past loses nothing a client was told is done: the
\* constructor finds the recorded changes, and those that were made and not recorded.
THEOREM RestartKeeping == RestartSpec => RestartKeepsRecorded
<1>1. HistoryInv => (Restart /\ undone = <<>> => IsCurrentWithInFlight(AsOf(0)'))
  BY RestartKeeps
<1> QED  BY <1>1, HistoryKeptByRestarts, PTL DEF RestartSpec, RestartKeepsRecorded

\* A death during one leaves, at worst, the pools, schemes, collections and keys of
\* one moment of the past: never those of no moment.
THEOREM RestartFinding == RestartSpec => RestartFindsAMoment
<1>1. HistoryInv =>
        (Restart =>
           \/ IsCurrentWithInFlight(AsOf(0)')
           \/ \E n \in 0..Changes : Shape(AsOf(0)') = Shape(AsOf(n)))
  BY RestartKeeps
<1> QED  BY <1>1, HistoryKeptByRestarts, PTL DEF RestartSpec, RestartFindsAMoment

\* None of the properties of one process is lost with it: they hold again in the next,
\* which starts with what it finds.
THEOREM TrueInEveryProcess ==
  RestartSpec => [](ReadsAreRecorded /\ QuietIsCurrent /\ ReplayNeverFails /\ HistoricalShape)
BY HistoryKeptByRestarts, RecordedReads, CurrentWhenQuiet, ReplayFinds, LooksAtTime, PTL
===============================================================================

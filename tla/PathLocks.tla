------------------------------- MODULE PathLocks -------------------------------
(***************************************************************************)
(* lock_helper of the disk controller: named readers-writer locks kept in  *)
(* one map, _opened_dirs_files, from the path of a directory or collection *)
(* to a pair (unique, count), under a mutex and a condition variable.      *)
(* The constructor waits until the path has no entry, or has a shared one  *)
(* and a shared lock is wanted; the destructor removes the entry with its  *)
(* last holder.  Threads nest the helpers as C++ scopes do: last taken,    *)
(* first released.                                                         *)
(***************************************************************************)
EXTENDS Integers, Sequences, FiniteSets

CONSTANTS
  Task,     \* requests, each on a thread of its own
  LockPath  \* lockable paths: "", pool, pool/scheme, pool/scheme/collection

ASSUME TaskAssumption == IsFiniteSet(Task)

VARIABLES
  opened,  \* _opened_dirs_files: path -> [unique, count]
  held     \* the lock_helpers alive in each task, innermost last

lockVars == <<opened, held>>

LockEntry == [unique : BOOLEAN, count : Nat \ {0}]
Helper == [path : LockPath, unique : BOOLEAN]

\* The paths task t has a helper for, and the tasks with a helper for p.
HeldPaths(t) == {held[t][i].path : i \in DOMAIN held[t]}
Holders(p) == {t \in Task : p \in HeldPaths(t)}

HoldsUnique(t, p) == [path |-> p, unique |-> TRUE] \in {held[t][i] : i \in DOMAIN held[t]}

-------------------------------------------------------------------------------

LockInit ==
  /\ opened = [p \in {} |-> [unique |-> FALSE, count |-> 0]]
  /\ held = [t \in Task |-> <<>>]

\* Fault: a unique lock is granted beside shared ones.
MayLockUnlessUnique(p, unique) ==
  p \in DOMAIN opened => ~opened[p].unique

\* The condition lock_helper's constructor waits for.
MayLock(p, unique) ==
  p \in DOMAIN opened => ~unique /\ ~opened[p].unique

Lock(t, p, unique) ==
  /\ p \notin HeldPaths(t)
  /\ MayLock(p, unique)
  /\ opened' = [q \in DOMAIN opened \cup {p} |->
                  IF q # p THEN opened[q]
                  ELSE IF p \in DOMAIN opened
                       THEN [opened[p] EXCEPT !.count = @ + 1]
                       ELSE [unique |-> unique, count |-> 1]]
  /\ held' = [held EXCEPT ![t] = Append(@, [path |-> p, unique |-> unique])]

Innermost(t) == held[t][Len(held[t])]

Unlock(t) ==
  LET p == Innermost(t).path IN
  /\ held[t] # <<>>
  /\ opened' = IF opened[p].count = 1
               THEN [q \in DOMAIN opened \ {p} |-> opened[q]]
               ELSE [opened EXCEPT ![p].count = @ - 1]
  /\ held' = [held EXCEPT ![t] = SubSeq(@, 1, Len(@) - 1)]

LockNext ==
  \E t \in Task :
    \/ \E p \in LockPath, unique \in BOOLEAN : Lock(t, p, unique)
    \/ Unlock(t)

LockSpec == LockInit /\ [][LockNext]_lockVars

-------------------------------------------------------------------------------
(* Properties *)

\* In particular no entry is left with a count of zero.
LockTypeOK ==
  /\ DOMAIN opened \subseteq LockPath
  /\ opened \in [DOMAIN opened -> LockEntry]
  /\ held \in [Task -> Seq(Helper)]

\* The map agrees with the helpers that are alive: a path has an entry exactly
\* while somebody holds it, and the count is the number of holders, so that no
\* destructor misses its entry and no entry outlives its holders.
MapMatchesHelpers ==
  /\ \A t \in Task : \A i \in DOMAIN held[t] : held[t][i].path \in DOMAIN opened
  /\ \A p \in DOMAIN opened : opened[p].count = Cardinality(Holders(p))
  /\ \A p \in DOMAIN opened : Holders(p) # {}

\* A unique lock excludes every other lock on the same path.
UniqueIsExclusive ==
  \A t, u \in Task, p \in LockPath :
    HoldsUnique(t, p) /\ p \in HeldPaths(u) => t = u

-------------------------------------------------------------------------------
(* What makes the properties inductive. *)

\* No task locks a path it has locked already.
HeldOnce ==
  \A t \in Task : \A i, j \in DOMAIN held[t] :
    held[t][i].path = held[t][j].path => i = j

\* An entry has the mode its holders asked for, and a unique one has one holder.
ModesAgree ==
  /\ \A t \in Task : \A i \in DOMAIN held[t] :
       opened[held[t][i].path].unique = held[t][i].unique
  /\ \A p \in DOMAIN opened : opened[p].unique => opened[p].count = 1

\* The map is the one the alive helpers should have left, modes included.
LockInv == LockTypeOK /\ MapMatchesHelpers /\ HeldOnce /\ ModesAgree
===============================================================================

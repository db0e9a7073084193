------------------------- MODULE DiskControllerProofs -------------------------
(***************************************************************************)
(* First the lock map: for any finite set of threads and any paths, it     *)
(* agrees with the helpers that are alive, and a unique lock excludes      *)
(* every other.  The count of an entry is the cardinality of its set of    *)
(* holders; the proof follows that set through the two actions.            *)
(*                                                                         *)
(* Then the controller, for any set of requests: it uses its locks as      *)
(* PathLocks describes them, so that a unique lock_helper on the root      *)
(* leaves no other task with any; hence a path stays once it is checked,   *)
(* and a tree that is about to insert owns the node counter.               *)
(***************************************************************************)
EXTENDS DiskController, FiniteSetTheorems, TLAPS

(***************************************************************************)
(* The lock map.                                                           *)
(***************************************************************************)

\* The threads holding a path are finitely many.
LEMMA HoldersFinite ==
  ASSUME NEW p
  PROVE  IsFiniteSet(Holders(p))
<1>1. Holders(p) \in SUBSET Task  BY DEF Holders
<1>2. IsFiniteSet(Task)  BY TaskAssumption
<1> QED  BY <1>1, <1>2, FS_Subset

-------------------------------------------------------------------------------
(* What the two actions do to the helpers of a thread. *)

\* A constructed lock_helper is the new innermost one of its thread.
LEMMA LockHelpers ==
  ASSUME LockTypeOK, NEW t \in Task, NEW p \in LockPath, NEW unique \in BOOLEAN,
         Lock(t, p, unique)
  PROVE  /\ held' \in [Task -> Seq(Helper)]
         /\ \A u \in Task \ {t} : held'[u] = held[u]
         /\ Len(held'[t]) = Len(held[t]) + 1
         /\ \A i \in 1..Len(held[t]) : held'[t][i] = held[t][i]
         /\ held'[t][Len(held[t]) + 1] = [path |-> p, unique |-> unique]
<1>1. held \in [Task -> Seq(Helper)]  BY DEF LockTypeOK
<1>2. held' = [held EXCEPT ![t] = Append(@, [path |-> p, unique |-> unique])]  BY DEF Lock
<1>3. [path |-> p, unique |-> unique] \in Helper  BY DEF Helper
<1>4. held[t] \in Seq(Helper)  BY <1>1
<1>5. held'[t] = Append(held[t], [path |-> p, unique |-> unique])  BY <1>1, <1>2
<1>6. Append(held[t], [path |-> p, unique |-> unique]) \in Seq(Helper)  BY <1>3, <1>4
<1>7. held' \in [Task -> Seq(Helper)]  BY <1>1, <1>2, <1>6
<1>8. \A u \in Task \ {t} : held'[u] = held[u]  BY <1>1, <1>2
<1> QED  BY <1>4, <1>5, <1>7, <1>8

\* A destroyed lock_helper was the innermost one.
LEMMA UnlockHelpers ==
  ASSUME LockTypeOK, NEW t \in Task, Unlock(t)
  PROVE  /\ held' \in [Task -> Seq(Helper)]
         /\ \A u \in Task \ {t} : held'[u] = held[u]
         /\ Len(held[t]) \in Nat \ {0}
         /\ Len(held'[t]) = Len(held[t]) - 1
         /\ \A i \in 1..(Len(held[t]) - 1) : held'[t][i] = held[t][i]
         /\ Innermost(t) \in Helper
<1>1. held \in [Task -> Seq(Helper)]  BY DEF LockTypeOK
<1>2. held' = [held EXCEPT ![t] = SubSeq(@, 1, Len(@) - 1)]  BY DEF Unlock
<1>3. held[t] \in Seq(Helper)  BY <1>1
<1>4. held[t] # <<>>  BY DEF Unlock
<1>5. Len(held[t]) \in Nat \ {0}  BY <1>3, <1>4
<1>6. held'[t] = SubSeq(held[t], 1, Len(held[t]) - 1)  BY <1>1, <1>2
<1>7. SubSeq(held[t], 1, Len(held[t]) - 1) \in Seq(Helper)  BY <1>3, <1>5
<1>8. held' \in [Task -> Seq(Helper)]  BY <1>1, <1>2, <1>7
<1>9. \A u \in Task \ {t} : held'[u] = held[u]  BY <1>1, <1>2
<1>10. Innermost(t) \in Helper  BY <1>3, <1>5 DEF Innermost
<1> QED  BY <1>3, <1>5, <1>6, <1>8, <1>9, <1>10

\* The domain of a thread's helpers, in the form the other proofs use.
LEMMA HelperIndices ==
  ASSUME LockTypeOK, NEW t \in Task
  PROVE  DOMAIN held[t] = 1..Len(held[t]) /\ Len(held[t]) \in Nat
         /\ \A i \in 1..Len(held[t]) : held[t][i] \in Helper
<1>1. held[t] \in Seq(Helper)  BY DEF LockTypeOK
<1> QED  BY <1>1

\* The set of holders grows by the thread that locks.
LEMMA LockHolders ==
  ASSUME LockTypeOK, NEW t \in Task, NEW p \in LockPath, NEW unique \in BOOLEAN,
         Lock(t, p, unique), NEW q
  PROVE  Holders(q)' = IF q = p THEN Holders(q) \cup {t} ELSE Holders(q)
<1>1. DOMAIN held[t] = 1..Len(held[t]) /\ Len(held[t]) \in Nat  BY HelperIndices
<1>2. \A u \in Task \ {t} : held'[u] = held[u]  BY LockHelpers
<1>3. \A u \in Task \ {t} : HeldPaths(u)' = HeldPaths(u)  BY <1>2 DEF HeldPaths
<1>4. DOMAIN held'[t] = 1..(Len(held[t]) + 1)
  <2>1. held'[t] \in Seq(Helper)  BY LockHelpers
  <2>2. Len(held'[t]) = Len(held[t]) + 1  BY LockHelpers
  <2> QED  BY <2>1, <2>2
<1>5. /\ \A i \in 1..Len(held[t]) : held'[t][i] = held[t][i]
      /\ held'[t][Len(held[t]) + 1] = [path |-> p, unique |-> unique]
  BY LockHelpers
<1>6. HeldPaths(t)' = HeldPaths(t) \cup {p}
  <2>1. 1..(Len(held[t]) + 1) = 1..Len(held[t]) \cup {Len(held[t]) + 1}  BY <1>1
  <2>2. HeldPaths(t)' = {held'[t][i].path : i \in 1..Len(held[t])}
                        \cup {held'[t][Len(held[t]) + 1].path}
    BY <1>4, <2>1 DEF HeldPaths
  <2>3. {held'[t][i].path : i \in 1..Len(held[t])} = {held[t][i].path : i \in 1..Len(held[t])}
    BY <1>5
  <2>4. held'[t][Len(held[t]) + 1].path = p  BY <1>5
  <2> QED  BY <1>1, <2>2, <2>3, <2>4 DEF HeldPaths
<1> QED  BY <1>3, <1>6 DEF Holders

\* ... and shrinks by the thread that unlocks.
LEMMA UnlockHolders ==
  ASSUME LockTypeOK, HeldOnce, NEW t \in Task, Unlock(t), NEW q
  PROVE  Holders(q)' = IF q = Innermost(t).path THEN Holders(q) \ {t} ELSE Holders(q)
<1>1. DOMAIN held[t] = 1..Len(held[t]) /\ Len(held[t]) \in Nat  BY HelperIndices
<1>2. \A u \in Task \ {t} : HeldPaths(u)' = HeldPaths(u)
  <2>1. \A u \in Task \ {t} : held'[u] = held[u]  BY UnlockHelpers
  <2> QED  BY <2>1 DEF HeldPaths
<1>3. Len(held[t]) \in Nat \ {0}  BY UnlockHelpers
<1>4. DOMAIN held'[t] = 1..(Len(held[t]) - 1)
  <2>1. held'[t] \in Seq(Helper)  BY UnlockHelpers
  <2>2. Len(held'[t]) = Len(held[t]) - 1  BY UnlockHelpers
  <2> QED  BY <2>1, <2>2
<1>5. \A i \in 1..(Len(held[t]) - 1) : held'[t][i] = held[t][i]  BY UnlockHelpers
<1>6. HeldPaths(t)' = {held[t][i].path : i \in 1..(Len(held[t]) - 1)}
  BY <1>4, <1>5 DEF HeldPaths
<1>7. 1..Len(held[t]) = 1..(Len(held[t]) - 1) \cup {Len(held[t])}  BY <1>3
<1>8. HeldPaths(t) = HeldPaths(t)' \cup {Innermost(t).path}
  BY <1>1, <1>6, <1>7 DEF HeldPaths, Innermost
<1>9. Innermost(t).path \notin HeldPaths(t)'
  <2>1. SUFFICES ASSUME NEW i \in 1..(Len(held[t]) - 1), held[t][i].path = Innermost(t).path
                 PROVE  FALSE
    BY <1>6
  <2>2. i \in 1..Len(held[t]) /\ Len(held[t]) \in 1..Len(held[t]) /\ i # Len(held[t])  BY <1>3
  <2> QED  BY <1>1, <2>1, <2>2 DEF HeldOnce, Innermost
<1>10. HeldPaths(t)' = HeldPaths(t) \ {Innermost(t).path}  BY <1>8, <1>9
<1>11. t \in Task /\ Holders(q)' = {u \in Task : q \in HeldPaths(u)'}  BY DEF Holders
<1> QED  BY <1>2, <1>10, <1>11 DEF Holders

-------------------------------------------------------------------------------
(* Its entries. *)

LEMMA LockTypeStep ==
  ASSUME LockTypeOK, NEW t \in Task, NEW p \in LockPath, NEW unique \in BOOLEAN,
         Lock(t, p, unique)
  PROVE  /\ LockTypeOK'
         /\ DOMAIN opened' = DOMAIN opened \cup {p}
         /\ \A q \in DOMAIN opened \ {p} : opened'[q] = opened[q]
         /\ p \in DOMAIN opened =>
              /\ ~unique /\ ~opened[p].unique
              /\ opened'[p].unique = opened[p].unique
              /\ opened'[p].count = opened[p].count + 1
         /\ p \notin DOMAIN opened => opened'[p] = [unique |-> unique, count |-> 1]
<1>1. held' \in [Task -> Seq(Helper)]  BY LockHelpers
<1>2. opened \in [DOMAIN opened -> LockEntry] /\ DOMAIN opened \subseteq LockPath  BY DEF LockTypeOK
<1>3. opened' = [q \in DOMAIN opened \cup {p} |->
                   IF q # p THEN opened[q]
                   ELSE IF p \in DOMAIN opened
                        THEN [opened[p] EXCEPT !.count = @ + 1]
                        ELSE [unique |-> unique, count |-> 1]]
  BY DEF Lock
<1>4. DOMAIN opened' = DOMAIN opened \cup {p}  BY <1>3
<1>5. \A q \in DOMAIN opened \ {p} : opened'[q] = opened[q]  BY <1>3
<1>6. CASE p \in DOMAIN opened
  <2>1. opened[p] \in LockEntry  BY <1>2, <1>6
  <2>2. opened'[p] = [opened[p] EXCEPT !.count = @ + 1]  BY <1>3, <1>6
  <2>3. ~unique /\ ~opened[p].unique  BY <1>6 DEF Lock, MayLock
  <2>4. opened'[p] \in LockEntry /\ opened'[p].unique = opened[p].unique
        /\ opened'[p].count = opened[p].count + 1
    BY <2>1, <2>2 DEF LockEntry
  <2>5. opened' \in [DOMAIN opened' -> LockEntry]  BY <1>2, <1>3, <1>4, <1>5, <2>4
  <2> QED  BY <1>1, <1>2, <1>4, <1>5, <1>6, <2>3, <2>4, <2>5 DEF LockTypeOK
<1>7. CASE p \notin DOMAIN opened
  <2>1. opened'[p] = [unique |-> unique, count |-> 1]  BY <1>3, <1>7
  <2>2. opened'[p] \in LockEntry  BY <2>1 DEF LockEntry
  <2>3. opened' \in [DOMAIN opened' -> LockEntry]  BY <1>2, <1>3, <1>4, <1>5, <2>2
  <2> QED  BY <1>1, <1>2, <1>4, <1>5, <1>7, <2>1, <2>3 DEF LockTypeOK
<1> QED  BY <1>6, <1>7

\* The innermost path of a thread has an entry, and only that entry changes:
\* the last holder takes it away.
LEMMA UnlockTypeStep ==
  ASSUME LockInv, NEW t \in Task, Unlock(t)
  PROVE  /\ LockTypeOK'
         /\ Innermost(t).path \in DOMAIN opened
         /\ \A q \in DOMAIN opened \ {Innermost(t).path} :
              q \in DOMAIN opened' /\ opened'[q] = opened[q]
         /\ DOMAIN opened' \subseteq DOMAIN opened
         /\ opened[Innermost(t).path].count = 1 => Innermost(t).path \notin DOMAIN opened'
         /\ opened[Innermost(t).path].count # 1 =>
              /\ Innermost(t).path \in DOMAIN opened'
              /\ opened'[Innermost(t).path].unique = opened[Innermost(t).path].unique
              /\ opened'[Innermost(t).path].count = opened[Innermost(t).path].count - 1
<1>0. LockTypeOK /\ MapMatchesHelpers  BY DEF LockInv
<1>1. held' \in [Task -> Seq(Helper)]  BY <1>0, UnlockHelpers
<1>2. opened \in [DOMAIN opened -> LockEntry] /\ DOMAIN opened \subseteq LockPath  BY <1>0 DEF LockTypeOK
<1>3. PICK p : p = Innermost(t).path  OBVIOUS
<1>4. p \in DOMAIN opened
  <2>1. Len(held[t]) \in Nat \ {0}  BY <1>0, UnlockHelpers
  <2>2. DOMAIN held[t] = 1..Len(held[t])  BY <1>0, HelperIndices
  <2>3. Len(held[t]) \in DOMAIN held[t]  BY <2>1, <2>2
  <2> QED  BY <1>0, <1>3, <2>3 DEF MapMatchesHelpers, Innermost
<1>5. opened' = IF opened[p].count = 1
                THEN [q \in DOMAIN opened \ {p} |-> opened[q]]
                ELSE [opened EXCEPT ![p].count = @ - 1]
  BY <1>3 DEF Unlock
<1>6. opened[p] \in LockEntry  BY <1>2, <1>4
<1>7. CASE opened[p].count = 1
  <2>1. opened' = [q \in DOMAIN opened \ {p} |-> opened[q]]  BY <1>5, <1>7
  <2>2. opened' \in [DOMAIN opened' -> LockEntry] /\ DOMAIN opened' \subseteq LockPath  BY <1>2, <2>1
  <2> QED  BY <1>1, <1>3, <1>4, <1>7, <2>1, <2>2 DEF LockTypeOK
<1>8. CASE opened[p].count # 1
  <2>1. opened' = [opened EXCEPT ![p].count = @ - 1]  BY <1>5, <1>8
  <2>2. opened[p].count - 1 \in Nat \ {0}  BY <1>6, <1>8 DEF LockEntry
  <2>3. opened'[p] = [opened[p] EXCEPT !.count = @ - 1]  BY <1>2, <1>4, <2>1
  <2>4. opened'[p] \in LockEntry /\ opened'[p].unique = opened[p].unique
        /\ opened'[p].count = opened[p].count - 1
    BY <1>6, <2>2, <2>3 DEF LockEntry
  <2>5. DOMAIN opened' = DOMAIN opened /\ \A q \in DOMAIN opened \ {p} : opened'[q] = opened[q]
    BY <1>2, <2>1
  <2>6. opened' \in [DOMAIN opened' -> LockEntry]  BY <1>2, <2>1, <2>4, <2>5
  <2> QED  BY <1>1, <1>2, <1>3, <1>4, <1>8, <2>4, <2>5, <2>6 DEF LockTypeOK
<1> QED  BY <1>7, <1>8

-------------------------------------------------------------------------------
(* Where the helpers of the next state come from. *)

LEMMA LockOrigins ==
  ASSUME LockTypeOK, NEW t \in Task, NEW p \in LockPath, NEW unique \in BOOLEAN,
         Lock(t, p, unique)
  PROVE  \A u \in Task : \A i \in DOMAIN held'[u] :
           \/ i \in DOMAIN held[u] /\ held'[u][i] = held[u][i]
           \/ u = t /\ i = Len(held[t]) + 1 /\ held'[u][i] = [path |-> p, unique |-> unique]
<1>1. TAKE u \in Task
<1>2. TAKE i \in DOMAIN held'[u]
<1>3. CASE u # t
  <2>1. held'[u] = held[u]  BY <1>3, LockHelpers
  <2> QED  BY <2>1
<1>4. CASE u = t
  <2>1. held'[t] \in Seq(Helper) /\ Len(held'[t]) = Len(held[t]) + 1  BY LockHelpers
  <2>2. Len(held[t]) \in Nat /\ DOMAIN held[t] = 1..Len(held[t])  BY HelperIndices
  <2>3. i \in 1..(Len(held[t]) + 1)  BY <1>4, <2>1
  <2>4. i \in 1..Len(held[t]) \/ i = Len(held[t]) + 1  BY <2>2, <2>3
  <2>5. /\ \A j \in 1..Len(held[t]) : held'[t][j] = held[t][j]
        /\ held'[t][Len(held[t]) + 1] = [path |-> p, unique |-> unique]
    BY LockHelpers
  <2> QED  BY <1>4, <2>2, <2>4, <2>5
<1> QED  BY <1>3, <1>4

LEMMA UnlockOrigins ==
  ASSUME LockTypeOK, HeldOnce, NEW t \in Task, Unlock(t)
  PROVE  \A u \in Task : \A i \in DOMAIN held'[u] :
           /\ i \in DOMAIN held[u] /\ held'[u][i] = held[u][i]
           /\ u = t => held[u][i].path # Innermost(t).path
<1>1. TAKE u \in Task
<1>2. TAKE i \in DOMAIN held'[u]
<1>3. CASE u # t
  <2>1. held'[u] = held[u]  BY <1>3, UnlockHelpers
  <2> QED  BY <1>3, <2>1
<1>4. CASE u = t
  <2>1. held'[t] \in Seq(Helper)  BY UnlockHelpers
  <2>2. Len(held'[t]) = Len(held[t]) - 1  BY UnlockHelpers
  <2>3. Len(held[t]) \in Nat \ {0}  BY UnlockHelpers
  <2>4. DOMAIN held[t] = 1..Len(held[t])  BY HelperIndices
  <2>5. i \in 1..(Len(held[t]) - 1)  BY <1>4, <2>1, <2>2
  <2>6. i \in DOMAIN held[t] /\ Len(held[t]) \in DOMAIN held[t] /\ i # Len(held[t])
    BY <2>3, <2>4, <2>5
  <2>7. held'[t][i] = held[t][i]  BY <2>5, UnlockHelpers
  <2>8. held[t][i].path # Innermost(t).path  BY <2>6 DEF HeldOnce, Innermost
  <2> QED  BY <1>4, <2>6, <2>7, <2>8
<1> QED  BY <1>3, <1>4

\* A path somebody holds has an entry.
LEMMA HeldHasEntry ==
  ASSUME MapMatchesHelpers, NEW p, Holders(p) # {}
  PROVE  p \in DOMAIN opened
<1>1. PICK u \in Task : p \in HeldPaths(u)  BY DEF Holders
<1>2. PICK i \in DOMAIN held[u] : p = held[u][i].path  BY <1>1 DEF HeldPaths
<1> QED  BY <1>2 DEF MapMatchesHelpers

-------------------------------------------------------------------------------
(* The two actions preserve the invariant. *)

LEMMA LockPreserves ==
  ASSUME LockInv, NEW t \in Task, NEW p \in LockPath, NEW unique \in BOOLEAN,
         Lock(t, p, unique)
  PROVE  LockInv'
<1>0. LockTypeOK /\ MapMatchesHelpers /\ HeldOnce /\ ModesAgree  BY DEF LockInv
<1>1. LockTypeOK'  BY <1>0, LockTypeStep
<1>2. DOMAIN opened' = DOMAIN opened \cup {p}  BY <1>0, LockTypeStep
<1>3. \A q \in DOMAIN opened \ {p} : opened'[q] = opened[q]  BY <1>0, LockTypeStep
<1>4. p \in DOMAIN opened =>
        /\ ~unique /\ ~opened[p].unique
        /\ opened'[p].unique = opened[p].unique
        /\ opened'[p].count = opened[p].count + 1
  BY <1>0, LockTypeStep
<1>5. p \notin DOMAIN opened => opened'[p] = [unique |-> unique, count |-> 1]
  BY <1>0, LockTypeStep
<1>6. \A u \in Task : \A i \in DOMAIN held'[u] :
        \/ i \in DOMAIN held[u] /\ held'[u][i] = held[u][i]
        \/ u = t /\ i = Len(held[t]) + 1 /\ held'[u][i] = [path |-> p, unique |-> unique]
  BY <1>0, LockOrigins
<1>7. p \notin HeldPaths(t)  BY DEF Lock
<1>8. \A u \in Task : \A i \in DOMAIN held[u] : held[u][i].path \in DOMAIN opened
  BY <1>0 DEF MapMatchesHelpers
<1>9. MapMatchesHelpers'
  <2>1. \A u \in Task : \A i \in DOMAIN held'[u] : held'[u][i].path \in DOMAIN opened'
    BY <1>2, <1>6, <1>8
  <2>2. \A q \in DOMAIN opened' : opened'[q].count = Cardinality(Holders(q)')
                                 /\ Holders(q)' # {}
    <3>1. TAKE q \in DOMAIN opened'
    <3>2. Holders(q)' = IF q = p THEN Holders(q) \cup {t} ELSE Holders(q)
      BY <1>0, LockHolders
    <3>3. CASE q # p
      BY <1>0, <1>2, <1>3, <3>2, <3>3 DEF MapMatchesHelpers
    <3>4. CASE q = p /\ p \in DOMAIN opened
      <4>1. t \notin Holders(p)  BY <1>7 DEF Holders
      <4>2. Cardinality(Holders(p) \cup {t}) = Cardinality(Holders(p)) + 1
        BY <4>1, HoldersFinite, FS_AddElement
      <4>3. opened[p].count = Cardinality(Holders(p))  BY <1>0, <3>4 DEF MapMatchesHelpers
      <4> QED  BY <1>4, <3>2, <3>4, <4>2, <4>3
    <3>5. CASE q = p /\ p \notin DOMAIN opened
      <4>1. Holders(p) = {}  BY <1>0, <3>5, HeldHasEntry
      <4>2. Holders(q)' = {t}  BY <3>2, <3>5, <4>1
      <4>3. Cardinality({t}) = 1  BY FS_Singleton
      <4>4. opened'[p].count = 1  BY <1>5, <3>5
      <4> QED  BY <3>5, <4>2, <4>3, <4>4
    <3> QED  BY <3>3, <3>4, <3>5
  <2> QED  BY <2>1, <2>2 DEF MapMatchesHelpers
<1>10. HeldOnce'
  <2>1. \A i \in DOMAIN held[t] : held[t][i].path # p  BY <1>7 DEF HeldPaths
  <2>2. \A u \in Task : \A i, j \in DOMAIN held'[u] :
          held'[u][i].path = held'[u][j].path => i = j
    BY <1>0, <1>6, <2>1 DEF HeldOnce
  <2> QED  BY <2>2 DEF HeldOnce
<1>11. ModesAgree'
  <2>1. \A u \in Task : \A i \in DOMAIN held'[u] :
          opened'[held'[u][i].path].unique = held'[u][i].unique
    <3>1. TAKE u \in Task
    <3>2. TAKE i \in DOMAIN held'[u]
    <3>3. CASE i \in DOMAIN held[u] /\ held'[u][i] = held[u][i]
      <4>1. held[u][i].path \in DOMAIN opened  BY <1>8, <3>3
      <4>2. opened[held[u][i].path].unique = held[u][i].unique  BY <1>0, <3>3 DEF ModesAgree
      <4>3. opened'[held[u][i].path].unique = opened[held[u][i].path].unique
        BY <1>3, <1>4, <4>1
      <4> QED  BY <3>3, <4>2, <4>3
    <3>4. CASE held'[u][i] = [path |-> p, unique |-> unique]
      <4>1. CASE p \in DOMAIN opened
        <5>1. opened[p].unique \in BOOLEAN
          BY <1>0, <4>1 DEF LockTypeOK, LockEntry
        <5>2. opened'[p].unique = unique  BY <1>4, <4>1, <5>1
        <5> QED  BY <3>4, <5>2
      <4>2. CASE p \notin DOMAIN opened
        BY <1>5, <3>4, <4>2
      <4> QED  BY <4>1, <4>2
    <3> QED  BY <1>6, <3>3, <3>4
  <2>2. \A q \in DOMAIN opened' : opened'[q].unique => opened'[q].count = 1
    <3>1. TAKE q \in DOMAIN opened'
    <3>2. CASE q # p  BY <1>0, <1>2, <1>3, <3>2 DEF ModesAgree
    <3>3. CASE q = p /\ p \in DOMAIN opened
      <4>1. ~opened[p].unique /\ opened'[p].unique = opened[p].unique  BY <1>4, <3>3
      <4>2. ~opened'[p].unique  BY <4>1, Zenon
      <4> QED  BY <3>3, <4>2, Zenon
    <3>4. CASE q = p /\ p \notin DOMAIN opened
      <4>1. opened'[p].count = 1  BY <1>5, <3>4
      <4> QED  BY <3>4, <4>1
    <3> QED  BY <3>2, <3>3, <3>4
  <2> QED  BY <2>1, <2>2 DEF ModesAgree
<1> QED  BY <1>1, <1>9, <1>10, <1>11 DEF LockInv

LEMMA UnlockPreserves ==
  ASSUME LockInv, NEW t \in Task, Unlock(t)
  PROVE  LockInv'
<1>0. LockTypeOK /\ MapMatchesHelpers /\ HeldOnce /\ ModesAgree  BY DEF LockInv
<1>1. PICK p : p = Innermost(t).path  OBVIOUS
<1>2. LockTypeOK' /\ p \in DOMAIN opened /\ DOMAIN opened' \subseteq DOMAIN opened
  BY <1>1, UnlockTypeStep
<1>3. \A q \in DOMAIN opened \ {p} : q \in DOMAIN opened' /\ opened'[q] = opened[q]
  BY <1>1, UnlockTypeStep
<1>4. opened[p].count = 1 => p \notin DOMAIN opened'  BY <1>1, UnlockTypeStep
<1>5. opened[p].count # 1 =>
        /\ p \in DOMAIN opened'
        /\ opened'[p].unique = opened[p].unique
        /\ opened'[p].count = opened[p].count - 1
  BY <1>1, UnlockTypeStep
<1>6. \A u \in Task : \A i \in DOMAIN held'[u] :
        /\ i \in DOMAIN held[u] /\ held'[u][i] = held[u][i]
        /\ u = t => held[u][i].path # p
  BY <1>0, <1>1, UnlockOrigins
<1>7. t \in Holders(p)
  <2>1. Len(held[t]) \in Nat \ {0}  BY <1>0, UnlockHelpers
  <2>2. DOMAIN held[t] = 1..Len(held[t])  BY <1>0, HelperIndices
  <2>3. Len(held[t]) \in DOMAIN held[t]  BY <2>1, <2>2
  <2> QED  BY <1>1, <2>3 DEF Holders, HeldPaths, Innermost
<1>8. \A q \in DOMAIN opened : opened[q].count = Cardinality(Holders(q)) /\ Holders(q) # {}
  BY <1>0 DEF MapMatchesHelpers
<1>9. opened[p].count = 1 => Holders(p) = {t}
  <2>1. Cardinality(Holders(p)) = opened[p].count  BY <1>2, <1>8
  <2>2. IsFiniteSet(Holders(p))  BY HoldersFinite
  <2>3. Cardinality(Holders(p)) = 1 => \E x : Holders(p) = {x}  BY <2>2, FS_Singleton
  <2> QED  BY <1>7, <2>1, <2>3
<1>10. MapMatchesHelpers'
  <2>1. \A u \in Task : \A i \in DOMAIN held'[u] : held'[u][i].path \in DOMAIN opened'
    <3>1. TAKE u \in Task
    <3>2. TAKE i \in DOMAIN held'[u]
    <3>3. i \in DOMAIN held[u] /\ held'[u][i] = held[u][i]  BY <1>6
    <3>4. held[u][i].path \in DOMAIN opened  BY <1>0, <3>3 DEF MapMatchesHelpers
    <3>5. CASE held[u][i].path # p  BY <1>3, <3>3, <3>4, <3>5
    <3>6. CASE held[u][i].path = p
      <4>1. u # t  BY <1>6, <3>6
      <4>2. u \in Holders(p)  BY <3>3, <3>6 DEF Holders, HeldPaths
      <4>3. opened[p].count # 1  BY <1>9, <4>1, <4>2
      <4> QED  BY <1>5, <3>3, <3>6, <4>3
    <3> QED  BY <3>5, <3>6
  <2>2. \A q \in DOMAIN opened' : opened'[q].count = Cardinality(Holders(q)')
                                 /\ Holders(q)' # {}
    <3>1. TAKE q \in DOMAIN opened'
    <3>2. Holders(q)' = IF q = p THEN Holders(q) \ {t} ELSE Holders(q)
      BY <1>0, <1>1, UnlockHolders
    <3>3. CASE q # p  BY <1>2, <1>3, <1>8, <3>2, <3>3
    <3>4. CASE q = p
      <4>1. opened[p].count # 1  BY <1>4, <3>4
      <4>2. Cardinality(Holders(p) \ {t}) = Cardinality(Holders(p)) - 1
        BY <1>7, HoldersFinite, FS_RemoveElement
      <4>3. opened'[p].count = Cardinality(Holders(p)')  BY <1>2, <1>5, <1>8, <3>2, <3>4, <4>1, <4>2
      <4>4. opened'[p].count # 0
        <5>1. opened'[p] \in LockEntry  BY <1>2, <3>4 DEF LockTypeOK
        <5> QED  BY <5>1 DEF LockEntry
      <4>5. Holders(p)' # {}  BY <4>3, <4>4, FS_EmptySet
      <4> QED  BY <3>4, <4>3, <4>5
    <3> QED  BY <3>3, <3>4
  <2> QED  BY <2>1, <2>2 DEF MapMatchesHelpers
<1>11. HeldOnce'
  <2>1. \A u \in Task : \A i, j \in DOMAIN held'[u] :
          held'[u][i].path = held'[u][j].path => i = j
    BY <1>0, <1>6 DEF HeldOnce
  <2> QED  BY <2>1 DEF HeldOnce
<1>12. ModesAgree'
  <2>1. \A u \in Task : \A i \in DOMAIN held'[u] :
          opened'[held'[u][i].path].unique = held'[u][i].unique
    <3>1. TAKE u \in Task
    <3>2. TAKE i \in DOMAIN held'[u]
    <3>3. i \in DOMAIN held[u] /\ held'[u][i] = held[u][i]  BY <1>6
    <3>4. opened[held[u][i].path].unique = held[u][i].unique  BY <1>0, <3>3 DEF ModesAgree
    <3>5. held[u][i].path \in DOMAIN opened  BY <1>0, <3>3 DEF MapMatchesHelpers
    <3>6. held'[u][i].path \in DOMAIN opened'  BY <1>10 DEF MapMatchesHelpers
    <3>7. opened'[held[u][i].path].unique = opened[held[u][i].path].unique
      BY <1>3, <1>4, <1>5, <3>3, <3>5, <3>6
    <3> QED  BY <3>3, <3>4, <3>7
  <2>2. \A q \in DOMAIN opened' : opened'[q].unique => opened'[q].count = 1
    <3>1. TAKE q \in DOMAIN opened'
    <3>2. opened[q].unique => opened[q].count = 1  BY <1>0, <1>2 DEF ModesAgree
    <3>3. CASE q # p  BY <1>2, <1>3, <3>2, <3>3
    <3>4. CASE q = p  BY <1>4, <1>5, <3>2, <3>4
    <3> QED  BY <3>3, <3>4
  <2> QED  BY <2>1, <2>2 DEF ModesAgree
<1> QED  BY <1>2, <1>10, <1>11, <1>12 DEF LockInv

-------------------------------------------------------------------------------
(* What the lock map is. *)

LEMMA LockInvInit == LockInit => LockInv
<1>1. SUFFICES ASSUME LockInit PROVE LockInv  OBVIOUS
<1>2. DOMAIN opened = {} /\ opened \in [DOMAIN opened -> LockEntry]  BY <1>1 DEF LockInit
<1>3. held \in [Task -> Seq(Helper)] /\ \A t \in Task : DOMAIN held[t] = {}
  BY <1>1 DEF LockInit
<1> QED  BY <1>2, <1>3 DEF LockInv, LockTypeOK, MapMatchesHelpers, HeldOnce, ModesAgree

LEMMA LockInvNext == LockInv /\ [LockNext]_lockVars => LockInv'
<1>1. SUFFICES ASSUME LockInv, [LockNext]_lockVars PROVE LockInv'  OBVIOUS
<1>2. CASE UNCHANGED lockVars
  <2>1. opened' = opened /\ held' = held  BY <1>2 DEF lockVars
  <2>2. LockTypeOK' /\ HeldOnce' /\ ModesAgree'
    BY <1>1, <2>1 DEF LockInv, LockTypeOK, HeldOnce, ModesAgree
  <2>3. \A q : Holders(q)' = Holders(q)  BY <2>1 DEF Holders, HeldPaths
  <2>4. MapMatchesHelpers'  BY <1>1, <2>1, <2>3 DEF LockInv, MapMatchesHelpers
  <2> QED  BY <2>2, <2>4 DEF LockInv
<1>3. CASE LockNext
  BY <1>1, <1>3, LockPreserves, UnlockPreserves DEF LockNext
<1> QED  BY <1>1, <1>2, <1>3

\* The modes that agree leave a unique entry one holder.
LEMMA LockInvExcludes == LockInv => UniqueIsExclusive
<1>1. SUFFICES ASSUME LockInv, NEW t \in Task, NEW u \in Task, NEW p \in LockPath,
                      HoldsUnique(t, p), p \in HeldPaths(u)
               PROVE  t = u
  BY DEF UniqueIsExclusive
<1>2. PICK i \in DOMAIN held[t] : held[t][i] = [path |-> p, unique |-> TRUE]
  BY <1>1 DEF HoldsUnique
<1>3. t \in Holders(p) /\ u \in Holders(p)
  <2>1. held[t][i].path = p  BY <1>2
  <2> QED  BY <1>1, <2>1 DEF Holders, HeldPaths
<1>4. p \in DOMAIN opened  BY <1>1, <1>3, HeldHasEntry DEF LockInv
<1>5. opened[p].unique  BY <1>1, <1>2 DEF LockInv, ModesAgree
<1>6. opened[p].count = 1  BY <1>1, <1>4, <1>5 DEF LockInv, ModesAgree
<1>7. Cardinality(Holders(p)) = 1  BY <1>1, <1>4, <1>6 DEF LockInv, MapMatchesHelpers
<1>8. \E x : Holders(p) = {x}  BY <1>7, HoldersFinite, FS_Singleton
<1> QED  BY <1>3, <1>8

\* The map of the controller is, in every reachable state, the one its alive
\* lock_helpers should have left there, with their modes.
THEOREM LockInvariant == LockSpec => []LockInv
BY LockInvInit, LockInvNext, PTL DEF LockSpec

\* No entry of _opened_dirs_files is lost while it is needed, or left behind.
THEOREM LockMapCorrect == LockSpec => []MapMatchesHelpers
<1>1. LockInv => MapMatchesHelpers  BY DEF LockInv
<1> QED  BY <1>1, LockInvariant, PTL

\* Mutual exclusion: a thread with a unique lock_helper for a path is the only
\* one with any lock_helper for it.
THEOREM MutualExclusion == LockSpec => []UniqueIsExclusive
BY LockInvExcludes, LockInvariant, PTL

(***************************************************************************)
(* The controller.                                                         *)
(***************************************************************************)

\* The control state and the locks that go with it.
ControlInv ==
  /\ held \in [Task -> Seq(Helper)]
  /\ pc \in [Task -> Labels]
  /\ request \in [Task -> Request]
  /\ HeldAsScoped

\* Every operation takes between one and four locks.
LEMMA DepthRange ==
  ASSUME NEW r \in Request
  PROVE  Depth(r.op) \in 1..4 /\ (r.op = "read_at" => Depth(r.op) = 1)
<1>1. r.op \in DirOps \cup DataOps \cup ReadOps  BY RequestAssumption DEF RequestType
<1> QED  BY <1>1 DEF DirOps, AddOps, RemoveOps, DataOps, ReadOps, Depth

\* The first lock_helper of every operation is the root's.
LEMMA RootFirst ==
  ASSUME NEW r \in Request
  PROVE  SubSeq(r.path, 1, 0) = <<>>
BY PathAssumption

-------------------------------------------------------------------------------
(* ControlInv is inductive. *)

\* A task that goes on elsewhere with the locks it has.
LEMMA GotoKeeps ==
  ASSUME ControlInv, NEW t \in Task, NEW l \in Labels, pc' = [pc EXCEPT ![t] = l],
         held' = held, request' = request, InScope(t, l)
  PROVE  ControlInv'
<1>1. pc' \in [Task -> Labels]  BY DEF ControlInv
<1>2. HeldAsScoped'
  <2>1. SUFFICES ASSUME NEW u \in Task PROVE InScope(u, pc[u])'  BY DEF HeldAsScoped
  <2>2. CASE u = t
    <3>1. pc'[u] = l  BY <2>2 DEF ControlInv
    <3> QED  BY <2>2, <3>1 DEF InScope
  <2>3. CASE u # t
    <3>1. pc'[u] = pc[u]  BY <2>3 DEF ControlInv
    <3>2. InScope(u, pc[u])  BY DEF ControlInv, HeldAsScoped
    <3> QED  BY <3>1, <3>2 DEF InScope
  <2> QED  BY <2>2, <2>3
<1> QED  BY <1>1, <1>2 DEF ControlInv

\* What is in scope depends only on the task's own locks and request.
LEMMA OthersInScope ==
  ASSUME ControlInv, NEW t \in Task, NEW u \in Task, u # t,
         held'[u] = held[u], request'[u] = request[u], pc'[u] = pc[u]
  PROVE  InScope(u, pc[u])'
<1>1. InScope(u, pc[u])  BY DEF ControlInv, HeldAsScoped
<1> QED  BY <1>1 DEF InScope

LEMMA StartControl ==
  ASSUME ControlInv, NEW t \in Task, Start(t)
  PROVE  ControlInv'
<1>1. PICK r \in Request : request' = [request EXCEPT ![t] = r]  BY DEF Start
<1>2. pc' = [pc EXCEPT ![t] = "lock"] /\ held' = held  BY DEF Start, Goto
<1>3. request' \in [Task -> Request] /\ pc' \in [Task -> Labels]
  BY <1>1, <1>2 DEF ControlInv, Labels
<1>4. Len(held[t]) = 0  BY DEF ControlInv, HeldAsScoped, InScope, Start
<1>5. InScope(t, "lock")'
  <2>1. request'[t] \in Request  BY <1>3
  <2>2. Depth(request'[t].op) \in 1..4  BY <2>1, DepthRange
  <2>3. Len(held'[t]) = 0  BY <1>2, <1>4
  <2> QED  BY <2>2, <2>3 DEF InScope
<1>6. \A u \in Task \ {t} : InScope(u, pc[u])'
  BY <1>1, <1>2, OthersInScope DEF ControlInv
<1>7. pc'[t] = "lock"  BY <1>2 DEF ControlInv
<1>8. HeldAsScoped'  BY <1>5, <1>6, <1>7 DEF HeldAsScoped, InScope
<1> QED  BY <1>2, <1>3, <1>8 DEF ControlInv

LEMMA TakeLockControl ==
  ASSUME ControlInv, NEW t \in Task, TakeLock(t)
  PROVE  /\ ControlInv'
         /\ \E p \in LockPath, unique \in BOOLEAN : Lock(t, p, unique)
<1>1. request[t] \in Request /\ request' = request
  BY DEF ControlInv, TakeLock, taskVars
<1>2. held[t] \in Seq(Helper) /\ Len(held[t]) \in Nat  BY DEF ControlInv
<1>3. PICK n \in Nat \ {0} : n = Len(held[t]) + 1  BY <1>2
<1>4. n <= Depth(request[t].op) /\ InScope(t, pc[t])
  <2>1. InScope(t, pc[t]) /\ pc[t] = "lock"  BY DEF ControlInv, HeldAsScoped, TakeLock
  <2>2. Len(held[t]) < Depth(request[t].op)  BY <2>1 DEF InScope
  <2>3. Depth(request[t].op) \in 1..4  BY <1>1, DepthRange
  <2> QED  BY <1>2, <1>3, <2>1, <2>2, <2>3
<1>5. PICK p, unique : /\ p = SubSeq(request[t].path, 1, n - 1)
                       /\ unique = UniqueLock(request[t].op, n)
  OBVIOUS
<1>6. Lock(t, p, unique)  BY <1>3, <1>5 DEF TakeLock
<1>7. p \in LockPath
  <2>1. Depth(request[t].op) \in 1..4  BY <1>1, DepthRange
  <2>2. n \in 1..Depth(request[t].op)  BY <1>3, <1>4, <2>1
  <2> QED  BY <1>1, <1>5, <2>2, PathAssumption
<1>8. unique \in BOOLEAN  BY <1>5 DEF UniqueLock
<1>9. held' = [held EXCEPT ![t] = Append(@, [path |-> p, unique |-> unique])]
  BY <1>6 DEF Lock
<1>10. [path |-> p, unique |-> unique] \in Helper  BY <1>7, <1>8 DEF Helper
<1>11. held' \in [Task -> Seq(Helper)]
  <2>1. Append(held[t], [path |-> p, unique |-> unique]) \in Seq(Helper)  BY <1>2, <1>10
  <2> QED  BY <1>9, <2>1 DEF ControlInv
<1>12. held'[t] = Append(held[t], [path |-> p, unique |-> unique])
  BY <1>9 DEF ControlInv
<1>13. Len(held'[t]) = n /\ held'[t][n] = [path |-> p, unique |-> unique]
       /\ \A i \in 1..Len(held[t]) : held'[t][i] = held[t][i]
  BY <1>2, <1>3, <1>10, <1>12
<1>14. held'[t][1] = [path |-> <<>>, unique |-> UniqueLock(request[t].op, 1)]
  <2>1. CASE n = 1
    <3>1. p = <<>>  BY <1>1, <1>5, <2>1, RootFirst
    <3> QED  BY <1>5, <1>13, <2>1, <3>1
  <2>2. CASE n # 1
    <3>1. Len(held[t]) > 0  BY <1>2, <1>3, <2>2
    <3>2. held'[t][1] = held[t][1]  BY <1>2, <1>13, <3>1
    <3> QED  BY <1>4, <3>1, <3>2 DEF InScope
  <2> QED  BY <2>1, <2>2
<1>15. PICK l \in Labels :
         /\ pc' = [pc EXCEPT ![t] = l]
         /\ \/ n < Depth(request[t].op) /\ l = "check"
            \/ ~(n < Depth(request[t].op)) /\ request[t].op = "read_at" /\ l = "revert"
            \/ ~(n < Depth(request[t].op)) /\ request[t].op # "read_at" /\ l = "act"
  BY <1>3 DEF TakeLock, Goto, Labels
<1>16. InScope(t, l)'
  <2>1. Depth(request[t].op) \in 1..4 /\ (request[t].op = "read_at" => Depth(request[t].op) = 1)
    BY <1>1, DepthRange
  <2>2. n > 0  BY <1>3
  <2> QED  BY <1>1, <1>3, <1>4, <1>13, <1>14, <1>15, <2>1, <2>2 DEF InScope
<1>17. pc' \in [Task -> Labels] /\ pc'[t] = l  BY <1>15 DEF ControlInv
<1>18. \A u \in Task \ {t} : InScope(u, pc[u])'
  BY <1>1, <1>9, <1>15, OthersInScope DEF ControlInv
<1>19. HeldAsScoped'  BY <1>16, <1>17, <1>18 DEF HeldAsScoped, InScope
<1> QED  BY <1>1, <1>6, <1>7, <1>8, <1>11, <1>17, <1>19 DEF ControlInv

LEMMA ReleaseLockControl ==
  ASSUME ControlInv, NEW t \in Task, ReleaseLock(t)
  PROVE  ControlInv' /\ Unlock(t)
<1>1. request[t] \in Request /\ request' = request
  BY DEF ControlInv, ReleaseLock, taskVars
<1>2. held[t] \in Seq(Helper)  BY DEF ControlInv
<1>3. Unlock(t) /\ InScope(t, pc[t])  BY DEF ReleaseLock, ControlInv, HeldAsScoped
<1>4. Len(held[t]) \in Nat \ {0}  BY <1>2, <1>3 DEF Unlock
<1>5. held' = [held EXCEPT ![t] = SubSeq(@, 1, Len(@) - 1)]  BY <1>3 DEF Unlock
<1>6. held'[t] = SubSeq(held[t], 1, Len(held[t]) - 1)  BY <1>5 DEF ControlInv
<1>7. held'[t] \in Seq(Helper) /\ Len(held'[t]) = Len(held[t]) - 1
      /\ \A i \in 1..(Len(held[t]) - 1) : held'[t][i] = held[t][i]
  BY <1>2, <1>4, <1>6
<1>8. held' \in [Task -> Seq(Helper)]  BY <1>5, <1>6, <1>7 DEF ControlInv
<1>9. Len(held'[t]) > 0 =>
        held'[t][1] = [path |-> <<>>, unique |-> UniqueLock(request[t].op, 1)]
  <2>1. SUFFICES ASSUME Len(held'[t]) > 0 PROVE held'[t][1] = held[t][1]
    BY <1>3, <1>4 DEF InScope
  <2> QED  BY <1>4, <1>7, <2>1
<1>10. PICK l \in Labels :
         /\ pc' = [pc EXCEPT ![t] = l]
         /\ \/ Len(held[t]) = 1 /\ l = "publish"
            \/ Len(held[t]) # 1 /\ l = "unlock"
  BY DEF ReleaseLock, Goto, Labels
<1>11. InScope(t, l)'
  <2>1. PICK n \in Nat \ {0} : n = Len(held[t])  BY <1>4
  <2>2. Len(held'[t]) = n - 1  BY <1>7, <2>1
  <2>3. CASE n = 1
    <3>1. l = "publish"  BY <1>10, <2>1, <2>3
    <3>2. Len(held'[t]) = 0  BY <2>2, <2>3
    <3> QED  BY <1>1, <3>1, <3>2 DEF InScope
  <2>4. CASE n # 1
    <3>1. l = "unlock"  BY <1>10, <2>1, <2>4
    <3>2. n - 1 > 0  BY <2>4
    <3>3. Len(held'[t]) > 0  BY <2>2, <3>2
    <3> QED  BY <1>1, <1>9, <3>1, <3>3 DEF InScope
  <2> QED  BY <2>3, <2>4
<1>12. pc' \in [Task -> Labels] /\ pc'[t] = l  BY <1>10 DEF ControlInv
<1>13. \A u \in Task \ {t} : InScope(u, pc[u])'
  BY <1>1, <1>5, <1>10, OthersInScope DEF ControlInv
<1>14. HeldAsScoped'  BY <1>11, <1>12, <1>13 DEF HeldAsScoped, InScope
<1> QED  BY <1>1, <1>3, <1>8, <1>12, <1>14 DEF ControlInv
\* What ActFrame and the shared tails of the operations leave to be said.
LEMMA ActControl ==
  ASSUME ControlInv, NEW t \in Task, NEW l \in {"log", "unlock", "opened"},
         pc[t] \in {"act", "opened"}, Goto(t, l), UNCHANGED <<opened, held, request>>
  PROVE  ControlInv'
<1>1. request[t] \in Request /\ Depth(request[t].op) \in 1..4
  BY DepthRange DEF ControlInv
<1>2. InScope(t, pc[t])  BY DEF ControlInv, HeldAsScoped
<1>3. Len(held[t]) = Depth(request[t].op) /\ request[t].op # "read_at"
  BY <1>2 DEF InScope
<1>4. Len(held[t]) > 0  BY <1>1, <1>3
<1>5. held[t][1] = [path |-> <<>>, unique |-> UniqueLock(request[t].op, 1)]
  BY <1>2, <1>4 DEF InScope
<1>6. InScope(t, l)  BY <1>3, <1>4, <1>5 DEF InScope
<1>7. l \in Labels  BY DEF Labels
<1> QED  BY <1>6, <1>7, GotoKeeps DEF Goto

LEMMA OperationControl ==
  ASSUME ControlInv, NEW t \in Task,
         \/ AddPool(t) \/ RemovePool(t) \/ AddScheme(t) \/ RemoveScheme(t)
         \/ AddCollection(t) \/ RemoveCollection(t) \/ OpenTree(t)
         \/ Insert(t) \/ Update(t) \/ RemoveKey(t) \/ Read(t)
  PROVE  ControlInv' /\ UNCHANGED lockVars
<1>1. pc[t] \in {"act", "opened"} /\ UNCHANGED <<opened, held, request>>
  BY DEF AddPool, RemovePool, AddScheme, RemoveScheme, AddCollection, RemoveCollection,
         OpenTree, Insert, Update, RemoveKey, Read, Acting, Working, ActFrame, taskVars
<1>2. \E l \in {"log", "unlock", "opened"} : Goto(t, l)
  <2>1. CASE AddPool(t) \/ AddScheme(t) \/ AddCollection(t)
    BY <2>1 DEF AddPool, AddScheme, AddCollection, Create, Refuse
  <2>2. CASE RemovePool(t) \/ RemoveScheme(t) \/ RemoveCollection(t)
    BY <2>2 DEF RemovePool, RemoveScheme, RemoveCollection, Discard, Refuse
  <2>3. CASE OpenTree(t)  BY <2>3 DEF OpenTree
  <2>4. CASE Insert(t)  BY <2>4 DEF Insert, Refuse
  <2>5. CASE Update(t)  BY <2>5 DEF Update, Refuse
  <2>6. CASE RemoveKey(t)  BY <2>6 DEF RemoveKey, Refuse
  <2>7. CASE Read(t)  BY <2>7 DEF Read
  <2> QED  BY <2>1, <2>2, <2>3, <2>4, <2>5, <2>6, <2>7
<1> QED  BY <1>1, <1>2, ActControl DEF lockVars

\* The steps between the operations.
LEMMA PassageControl ==
  ASSUME ControlInv, NEW t \in Task,
         \/ CheckPath(t) \/ Log(t) \/ RevertDone(t) \/ Look(t) \/ RedoDone(t) \/ Publish(t)
  PROVE  ControlInv' /\ UNCHANGED lockVars
<1>1. UNCHANGED <<opened, held, request>>
  BY DEF CheckPath, Log, RevertDone, Look, RedoDone, Publish, taskVars
<1>2. InScope(t, pc[t])  BY DEF ControlInv, HeldAsScoped
<1>3. \E l \in Labels : Goto(t, l) /\ InScope(t, l)
  <2>1. CASE CheckPath(t)
    <3>1. pc[t] = "check" /\ (Goto(t, "lock") \/ Goto(t, "unlock"))  BY <2>1 DEF CheckPath
    <3>2. InScope(t, "lock") /\ InScope(t, "unlock")  BY <1>2, <3>1 DEF InScope
    <3> QED  BY <3>1, <3>2 DEF Labels
  <2>2. CASE Log(t)
    <3>1. pc[t] = "log" /\ Goto(t, "unlock")  BY <2>2 DEF Log
    <3>2. Len(held[t]) = Depth(request[t].op)  BY <1>2, <3>1 DEF InScope
    <3>3. Depth(request[t].op) \in 1..4  BY DepthRange DEF ControlInv
    <3>4. Len(held[t]) > 0  BY <3>2, <3>3
    <3>5. InScope(t, "unlock")  BY <1>2, <3>4 DEF InScope
    <3> QED  BY <3>1, <3>5 DEF Labels
  <2>3. CASE RevertDone(t)
    <3>1. pc[t] = "revert" /\ Goto(t, "look")  BY <2>3 DEF RevertDone
    <3>2. InScope(t, "look")  BY <1>2, <3>1 DEF InScope
    <3> QED  BY <3>1, <3>2 DEF Labels
  <2>4. CASE Look(t)
    <3>1. pc[t] = "look" /\ Goto(t, "redo")  BY <2>4 DEF Look
    <3>2. InScope(t, "redo")  BY <1>2, <3>1 DEF InScope
    <3> QED  BY <3>1, <3>2 DEF Labels
  <2>5. CASE RedoDone(t)
    <3>1. pc[t] = "redo" /\ Goto(t, "unlock")  BY <2>5 DEF RedoDone
    <3>2. Len(held[t]) = 1  BY <1>2, <3>1 DEF InScope
    <3>3. InScope(t, "unlock")  BY <1>2, <3>2 DEF InScope
    <3> QED  BY <3>1, <3>3 DEF Labels
  <2>6. CASE Publish(t)
    <3>1. pc[t] = "publish" /\ Goto(t, "finished")  BY <2>6 DEF Publish
    <3>2. InScope(t, "finished")  BY <1>2, <3>1 DEF InScope
    <3> QED  BY <3>1, <3>2 DEF Labels
  <2> QED  BY <2>1, <2>2, <2>3, <2>4, <2>5, <2>6
<1> QED  BY <1>1, <1>3, GotoKeeps DEF Goto, lockVars

\* Steps that leave the control and the locks alone.
LEMMA StillControl ==
  ASSUME ControlInv, UNCHANGED <<opened, held, request, pc>>
  PROVE  ControlInv' /\ UNCHANGED lockVars
<1>1. HeldAsScoped'  BY DEF ControlInv, HeldAsScoped, InScope
<1> QED  BY <1>1 DEF ControlInv, lockVars

LEMMA ControlInit == Init => ControlInv
<1>1. SUFFICES ASSUME Init PROVE ControlInv  OBVIOUS
<1>2. held = [t \in Task |-> <<>>] /\ pc = [t \in Task |-> "new"]
  BY <1>1 DEF Init, LockInit
<1>3. request \in [Task -> Request]
  <2>1. (CHOOSE r \in Request : TRUE) \in Request  BY RequestAssumption
  <2> QED  BY <1>1, <2>1 DEF Init
<1>4. HeldAsScoped  BY <1>2 DEF HeldAsScoped, InScope
<1> QED  BY <1>2, <1>3, <1>4 DEF ControlInv, Labels

\* Every step keeps the control invariant, and is a step of PathLocks.
LEMMA ControlNext ==
  ASSUME ControlInv, [Next]_vars
  PROVE  ControlInv' /\ [LockNext]_lockVars
<1>1. CASE UNCHANGED vars  BY <1>1, StillControl DEF vars
<1>2. CASE Finished  BY <1>2, StillControl DEF Finished, vars
<1>3. ASSUME NEW t \in Task, Start(t) PROVE ControlInv' /\ [LockNext]_lockVars
  BY <1>3, StartControl DEF Start, lockVars
<1>4. ASSUME NEW t \in Task, Get(t) PROVE ControlInv' /\ [LockNext]_lockVars
  BY <1>4, StillControl DEF Get
<1>5. ASSUME NEW t \in Task, TakeLock(t) PROVE ControlInv' /\ [LockNext]_lockVars
  BY <1>5, TakeLockControl DEF LockNext
<1>6. ASSUME NEW t \in Task, ReleaseLock(t) PROVE ControlInv' /\ [LockNext]_lockVars
  BY <1>6, ReleaseLockControl DEF LockNext
<1>7. ASSUME NEW t \in Task, RevertStep(t) \/ RedoStep(t)
      PROVE  ControlInv' /\ [LockNext]_lockVars
  BY <1>7, StillControl DEF RevertStep, RedoStep, taskVars
<1>8. ASSUME NEW t \in Task, TaskStep(t) PROVE ControlInv' /\ [LockNext]_lockVars
  BY <1>5, <1>6, <1>7, <1>8, OperationControl, PassageControl DEF TaskStep
<1> QED  BY <1>1, <1>2, <1>3, <1>4, <1>8 DEF Next

-------------------------------------------------------------------------------
(* The theorems on locks. *)

\* Every request, whichever way it goes, has exactly the locks of its scope.
THEOREM LocksAsScoped == Spec => []HeldAsScoped
<1>1. ControlInv => HeldAsScoped  BY DEF ControlInv
<1>2. ControlInv /\ [Next]_vars => ControlInv'  BY ControlNext
<1> QED  BY <1>1, <1>2, ControlInit, PTL DEF Spec

\* The controller uses its locks as PathLocks describes: everything proved of
\* PathLocks holds of the controller.
THEOREM UsesPathLocks == Spec => LockSpec
<1>1. Init => LockInit  BY DEF Init
<1>2. ControlInv /\ [Next]_vars => ControlInv' /\ [LockNext]_lockVars  BY ControlNext
<1> QED  BY <1>1, <1>2, ControlInit, PTL DEF Spec, LockSpec

\* Two requests never hold one path when either holds it uniquely.
THEOREM ControllerExcludes == Spec => []UniqueIsExclusive
BY UsesPathLocks, MutualExclusion, PTL
-------------------------------------------------------------------------------
(* Who may touch the directories and the counter. *)

\* A unique lock on the root leaves no other task with any lock.
LEMMA AloneAtRoot ==
  ASSUME ControlInv, UniqueIsExclusive, NEW t \in Task, NEW u \in Task, t # u,
         Len(held[u]) > 0, UniqueLock(request[u].op, 1)
  PROVE  Len(held[t]) = 0
<1>1. SUFFICES ASSUME Len(held[t]) # 0 PROVE FALSE  OBVIOUS
<1>2. held[t] \in Seq(Helper) /\ held[u] \in Seq(Helper)  BY DEF ControlInv
<1>3. Len(held[t]) > 0  BY <1>1, <1>2
<1>4. InScope(t, pc[t]) /\ InScope(u, pc[u])  BY DEF ControlInv, HeldAsScoped
<1>5. held[t][1].path = <<>> /\ held[u][1] = [path |-> <<>>, unique |-> TRUE]
  <2>1. held[t][1] = [path |-> <<>>, unique |-> UniqueLock(request[t].op, 1)]
    BY <1>3, <1>4 DEF InScope
  <2>2. held[u][1] = [path |-> <<>>, unique |-> UniqueLock(request[u].op, 1)]
    BY <1>4 DEF InScope
  <2>3. UniqueLock(request[u].op, 1) = TRUE  BY DEF UniqueLock
  <2>4. held[u][1] = [path |-> <<>>, unique |-> TRUE]  BY <2>2, <2>3, Zenon
  <2>5. \A b : [path |-> <<>>, unique |-> b].path = <<>>  OBVIOUS
  <2>6. held[t][1].path = <<>>  BY <2>1, <2>5, Zenon
  <2> QED  BY <2>4, <2>6
<1>6. 1 \in DOMAIN held[t] /\ 1 \in DOMAIN held[u]  BY <1>2, <1>3
<1>7. <<>> \in HeldPaths(t)  BY <1>5, <1>6 DEF HeldPaths
<1>8. HoldsUnique(u, <<>>)  BY <1>5, <1>6 DEF HoldsUnique
<1>9. <<>> \in LockPath  BY LockPathAssumption
<1> QED  BY <1>7, <1>8, <1>9 DEF UniqueIsExclusive

\* A task without locks touches neither the directories nor the counter.
LEMMA OutsideLocks ==
  ASSUME ControlInv, NEW t \in Task, Len(held[t]) = 0, TaskStep(t)
  PROVE  UNCHANGED <<root, countOfNode>>
<1>1. InScope(t, pc[t]) /\ Depth(request[t].op) \in 1..4
  BY DepthRange DEF ControlInv, HeldAsScoped
<1>2. pc[t] \notin {"check", "act", "opened", "log", "revert", "look", "redo", "unlock"}
  BY <1>1 DEF InScope
<1>3. TakeLock(t) \/ Publish(t)
  BY <1>2 DEF TaskStep, CheckPath, AddPool, RemovePool, AddScheme, RemoveScheme,
              AddCollection, RemoveCollection, Acting, OpenTree, Insert, Update, RemoveKey,
              Read, Working, Log, RevertStep, RevertDone, Look, RedoStep, RedoDone, ReleaseLock
<1> QED  BY <1>3 DEF TakeLock, Publish, storeVars

\* A task moves its own program counter only; it goes down its path by locks and
\* checks, and opens a tree in OpenTree only.
LEMMA StepTargets ==
  ASSUME ControlInv, NEW t \in Task, TaskStep(t)
  PROVE  /\ request' = request
         /\ \A u \in Task \ {t} : pc'[u] = pc[u]
         /\ pc'[t] = "opened" => OpenTree(t)
         /\ pc'[t] \in {"lock", "check", "act"} => TakeLock(t) \/ CheckPath(t)
<1>1. CASE OpenTree(t)  BY <1>1 DEF OpenTree, Goto, taskVars, ControlInv
<1>2. CASE RevertStep(t) \/ RedoStep(t)
  <2>1. pc[t] \in {"revert", "redo"} /\ pc' = pc /\ request' = request
    BY <1>2 DEF RevertStep, RedoStep, taskVars
  <2> QED  BY <2>1
<1>3. CASE TakeLock(t) \/ CheckPath(t)
  BY <1>3 DEF TakeLock, CheckPath, Goto, taskVars, ControlInv
<1>4. CASE Log(t) \/ RevertDone(t) \/ Look(t) \/ RedoDone(t) \/ ReleaseLock(t) \/ Publish(t)
  BY <1>4 DEF Log, RevertDone, Look, RedoDone, ReleaseLock, Publish, Goto, taskVars, ControlInv
<1>5. CASE AddPool(t) \/ AddScheme(t) \/ AddCollection(t)
  BY <1>5 DEF AddPool, AddScheme, AddCollection, Create, Refuse, Goto, ActFrame, ControlInv
<1>6. CASE RemovePool(t) \/ RemoveScheme(t) \/ RemoveCollection(t)
  BY <1>6 DEF RemovePool, RemoveScheme, RemoveCollection, Discard, Refuse, Goto, ActFrame,
              ControlInv
<1>7. CASE Insert(t) \/ Update(t) \/ RemoveKey(t) \/ Read(t)
  BY <1>7 DEF Insert, Update, RemoveKey, Read, Refuse, Goto, ActFrame, ControlInv
<1> QED  BY <1>1, <1>2, <1>3, <1>4, <1>5, <1>6, <1>7 DEF TaskStep

\* The locks of the others stay.
LEMMA OthersLocks ==
  ASSUME ControlInv, [Next]_vars, NEW t \in Task, NEW u \in Task, t # u, TaskStep(u)
  PROVE  held'[t] = held[t]
<1>1. CASE TakeLock(u)  BY <1>1 DEF TakeLock, Lock, ControlInv
<1>2. CASE ReleaseLock(u)  BY <1>2 DEF ReleaseLock, Unlock, ControlInv
<1>3. CASE RevertStep(u) \/ RedoStep(u)  BY <1>3 DEF RevertStep, RedoStep
<1> QED
  BY <1>1, <1>2, <1>3, OperationControl, PassageControl DEF TaskStep, lockVars

\* A step that takes a directory away has the root for itself.
LEMMA RemovalsAlone ==
  ASSUME ControlInv, NEW t \in Task, TaskStep(t), ~(DOMAIN root \subseteq DOMAIN root')
  PROVE  Len(held[t]) > 0 /\ UniqueLock(request[t].op, 1)
<1>1. InScope(t, pc[t]) /\ Depth(request[t].op) \in 1..4
  BY DepthRange DEF ControlInv, HeldAsScoped
<1>2. CASE RemovePool(t) \/ RemoveScheme(t) \/ RemoveCollection(t)
  <2>1. pc[t] = "act" /\ request[t].op \in {"remove_pool", "remove_scheme", "remove_collection"}
    BY <1>2 DEF RemovePool, RemoveScheme, RemoveCollection, Acting
  <2>2. Len(held[t]) > 0  BY <1>1, <2>1 DEF InScope
  <2> QED  BY <2>1, <2>2 DEF UniqueLock
<1>3. CASE RevertStep(t) \/ RedoStep(t)
  <2>1. pc[t] \in {"revert", "redo"}  BY <1>3 DEF RevertStep, RedoStep
  <2>2. Len(held[t]) = 1 /\ request[t].op = "read_at"  BY <1>1, <2>1 DEF InScope
  <2> QED  BY <2>2 DEF UniqueLock
<1>4. CASE AddPool(t) \/ AddScheme(t) \/ AddCollection(t)
  <2>1. PICK content : Create(t, content)
    BY <1>4 DEF AddPool, AddScheme, AddCollection
  <2>2. DOMAIN root \subseteq DOMAIN root'  BY <2>1 DEF Create, Refuse, With
  <2> QED  BY <2>2
<1>5. CASE Insert(t) \/ Update(t) \/ RemoveKey(t) \/ Read(t)
  <2>1. DOMAIN root' = DOMAIN root
    BY <1>5 DEF Insert, Update, RemoveKey, Read, Refuse, SetValue, InsertValue
  <2> QED  BY <2>1
<1>6. CASE root' = root  BY <1>6
<1>7. CASE \/ TakeLock(t) \/ CheckPath(t) \/ OpenTree(t) \/ Log(t) \/ RevertDone(t) \/ Look(t)
           \/ RedoDone(t) \/ ReleaseLock(t) \/ Publish(t)
  BY <1>6, <1>7 DEF TakeLock, CheckPath, OpenTree, Log, RevertDone, Look, RedoDone, ReleaseLock,
                    Publish, storeVars
<1> QED  BY <1>2, <1>3, <1>4, <1>5, <1>7 DEF TaskStep

-------------------------------------------------------------------------------
(* The counter of an open tree. *)

\* A task with a tree open for insertion holds the root alone, and no other step
\* resets the counter or changes the tree.
LEMMA OwnerStands ==
  ASSUME ControlInv, UniqueIsExclusive, NEW t \in Task, NEW u \in Task, t # u,
         Len(held[t]) > 0, UniqueLock(request[t].op, 1), TaskStep(u)
  PROVE  UNCHANGED <<root, countOfNode>>
<1>1. Len(held[u]) = 0  BY AloneAtRoot
<1> QED  BY <1>1, OutsideLocks

LEMMA CounterNext ==
  ASSUME ControlInv, UniqueIsExclusive, CounterIsOwn, [Next]_vars
  PROVE  CounterIsOwn'
<1>1. SUFFICES ASSUME NEW t \in Task, pc'[t] = "opened", request'[t].op = "insert"
               PROVE  countOfNode' = root'[request'[t].path].nodes
  BY DEF CounterIsOwn
<1>2. CASE UNCHANGED <<pc, request, root, countOfNode>>
  BY <1>1, <1>2 DEF CounterIsOwn
<1>3. ASSUME NEW u \in Task, Start(u)
      PROVE  countOfNode' = root'[request'[t].path].nodes
  <2>1. t # u /\ pc[t] = "opened" /\ request'[t] = request[t]
    BY <1>1, <1>3 DEF Start, Goto, ControlInv
  <2>2. UNCHANGED <<root, countOfNode>>  BY <1>3 DEF Start, storeVars
  <2> QED  BY <1>1, <2>1, <2>2 DEF CounterIsOwn
<1>4. ASSUME TaskStep(t)
      PROVE  countOfNode' = root'[request'[t].path].nodes
  <2>1. OpenTree(t)  BY <1>1, <1>4, StepTargets
  <2> QED  BY <2>1 DEF OpenTree, storeVars, taskVars
<1>5. ASSUME NEW u \in Task, u # t, TaskStep(u)
      PROVE  countOfNode' = root'[request'[t].path].nodes
  <2>1. request' = request /\ pc'[t] = pc[t]  BY <1>5, StepTargets
  <2>2. pc[t] = "opened" /\ request[t].op = "insert"  BY <1>1, <2>1
  <2>3. InScope(t, pc[t])  BY DEF ControlInv, HeldAsScoped
  <2>4. Depth(request[t].op) \in 1..4  BY DepthRange DEF ControlInv
  <2>4a. Len(held[t]) = Depth(request[t].op)  BY <2>2, <2>3 DEF InScope
  <2>4b. Len(held[t]) > 0  BY <2>4, <2>4a
  <2>5. UniqueLock(request[t].op, 1)  BY <2>2 DEF UniqueLock
  <2>6. UNCHANGED <<root, countOfNode>>  BY <1>5, <2>4b, <2>5, OwnerStands
  <2> QED  BY <2>1, <2>2, <2>6 DEF CounterIsOwn
<1>6. ASSUME NEW u \in Task, Get(u)
      PROVE  countOfNode' = root'[request'[t].path].nodes
  BY <1>2, <1>6 DEF Get, storeVars
<1>7. CASE Finished \/ UNCHANGED vars
  BY <1>2, <1>7 DEF Finished, vars
<1> QED  BY <1>3, <1>4, <1>5, <1>6, <1>7 DEF Next

\* A tree that is about to insert owns the static counter of node positions, for
\* any number of clients, requests and collections.
THEOREM CounterOwned == Spec => []CounterIsOwn
<1>1. Init => CounterIsOwn  BY DEF Init, CounterIsOwn
<1>2. ControlInv /\ UniqueIsExclusive /\ CounterIsOwn /\ [Next]_vars => ControlInv' /\ CounterIsOwn'
  BY ControlNext, CounterNext
<1> QED  BY <1>1, <1>2, ControlInit, ControllerExcludes, PTL DEF Spec

-------------------------------------------------------------------------------
(* What a task has checked. *)

LEMMA CheckedNext ==
  ASSUME ControlInv, UniqueIsExclusive, CheckedPathStays, [Next]_vars
  PROVE  CheckedPathStays'
<1> DEFINE Descending == {"lock", "check", "act", "opened"}
           Checked(label, n) == n - (IF label = "check" THEN 1 ELSE 0)
<1>1. SUFFICES ASSUME NEW t \in Task, pc'[t] \in Descending, request'[t].op # "read_at",
                      NEW n \in 1..Checked(pc'[t], Len(held'[t])), n < Depth(request'[t].op)
               PROVE  SubSeq(request'[t].path, 1, n) \in DOMAIN root'
  BY DEF CheckedPathStays
<1>2. held[t] \in Seq(Helper) /\ Len(held[t]) \in Nat  BY DEF ControlInv
<1>3. Depth(request[t].op) \in 1..4 /\ InScope(t, pc[t])
  BY DepthRange DEF ControlInv, HeldAsScoped
<1>4. ASSUME pc[t] \in Descending, n \in 1..Checked(pc[t], Len(held[t])),
             request'[t] = request[t], DOMAIN root \subseteq DOMAIN root'
      PROVE  SubSeq(request'[t].path, 1, n) \in DOMAIN root'
  BY <1>1, <1>4 DEF CheckedPathStays
<1>5. CASE UNCHANGED <<pc, held, request, root>>  BY <1>1, <1>4, <1>5
<1>6. ASSUME NEW u \in Task, Start(u)
      PROVE  SubSeq(request'[t].path, 1, n) \in DOMAIN root'
  <2>1. CASE u = t
    <3>1. pc[t] = "new" /\ pc'[t] = "lock" /\ held' = held
      BY <1>6, <2>1 DEF Start, Goto, ControlInv
    <3>2. Len(held[t]) = 0  BY <1>3, <3>1 DEF InScope
    <3> QED  BY <1>1, <3>1, <3>2
  <2>2. CASE u # t
    <3>1. pc'[t] = pc[t] /\ held' = held /\ request'[t] = request[t] /\ root' = root
      BY <1>6, <2>2 DEF Start, Goto, ControlInv, storeVars
    <3> QED  BY <1>1, <1>4, <3>1
  <2> QED  BY <2>1, <2>2
<1>7. ASSUME TaskStep(t)
      PROVE  SubSeq(request'[t].path, 1, n) \in DOMAIN root'
  <2>1. request' = request  BY <1>7, StepTargets
  <2>2. CASE OpenTree(t)
    <3>1. pc[t] = "act" /\ pc'[t] = "opened" /\ held' = held /\ root' = root
      BY <2>2 DEF OpenTree, Goto, ControlInv, storeVars
    <3> QED  BY <1>1, <1>4, <2>1, <3>1
  <2>3. CASE TakeLock(t)
    <3>1. pc[t] = "lock" /\ root' = root  BY <2>3 DEF TakeLock, storeVars
    <3>2. Len(held'[t]) = Len(held[t]) + 1
      BY <1>2, <2>3 DEF TakeLock, Lock, ControlInv
    <3>3. pc'[t] = "check" \/ ~(Len(held[t]) + 1 < Depth(request[t].op))
      BY <2>3 DEF TakeLock, Goto, ControlInv
    <3>4. n \in 1..Len(held[t])
      <4>1. CASE pc'[t] = "check"
        <5>1. n \in 1..(Len(held'[t]) - 1)  BY <1>1, <4>1
        <5> QED  BY <1>2, <3>2, <5>1
      <4>2. CASE pc'[t] # "check"
        <5>1. n \in 1..Len(held'[t]) /\ n < Depth(request[t].op)  BY <1>1, <2>1, <4>2
        <5>2. ~(Len(held[t]) + 1 < Depth(request[t].op))  BY <3>3, <4>2
        <5> QED  BY <1>2, <1>3, <3>2, <5>1, <5>2
      <4> QED  BY <4>1, <4>2
    <3> QED  BY <1>4, <2>1, <3>1, <3>4
  <2>4. CASE CheckPath(t)
    <3>1. pc[t] = "check" /\ held' = held /\ root' = root
      BY <2>4 DEF CheckPath, storeVars
    <3>2. pc'[t] = "lock" /\ SubSeq(request[t].path, 1, Len(held[t])) \in DOMAIN root
      BY <1>1, <2>4 DEF CheckPath, Goto, ControlInv
    <3>3. n \in 1..Len(held[t])  BY <1>1, <3>1, <3>2
    <3>4. CASE n = Len(held[t])  BY <2>1, <3>1, <3>2, <3>4
    <3>5. CASE n # Len(held[t])
      <4>1. n \in 1..(Len(held[t]) - 1)  BY <1>2, <3>3, <3>5
      <4> QED  BY <1>4, <2>1, <3>1, <4>1
    <3> QED  BY <3>4, <3>5
  <2> QED  BY <1>1, <1>7, <2>2, <2>3, <2>4, StepTargets
<1>8. ASSUME NEW u \in Task, u # t, TaskStep(u)
      PROVE  SubSeq(request'[t].path, 1, n) \in DOMAIN root'
  <2>1. request' = request /\ pc'[t] = pc[t] /\ held'[t] = held[t]
    BY <1>8, StepTargets, OthersLocks
  <2>2. CASE DOMAIN root \subseteq DOMAIN root'  BY <1>1, <1>4, <2>1, <2>2
  <2>3. CASE ~(DOMAIN root \subseteq DOMAIN root')
    <3>1. Len(held[u]) > 0 /\ UniqueLock(request[u].op, 1)  BY <1>8, <2>3, RemovalsAlone
    <3>2. Len(held[t]) = 0  BY <1>8, <3>1, AloneAtRoot
    <3> QED  BY <1>1, <2>1, <3>2
  <2> QED  BY <2>2, <2>3
<1>9. ASSUME NEW u \in Task, Get(u)
      PROVE  SubSeq(request'[t].path, 1, n) \in DOMAIN root'
  BY <1>5, <1>9 DEF Get, storeVars
<1>10. CASE Finished \/ UNCHANGED vars  BY <1>5, <1>10 DEF Finished, vars
<1> QED  BY <1>6, <1>7, <1>8, <1>9, <1>10 DEF Next

\* What a task has found to exist exists until the task has acted on it: nothing
\* is removed under a request on its way down.
THEOREM PathsStay == Spec => []CheckedPathStays
<1>1. Init => CheckedPathStays
  <2>1. SUFFICES ASSUME Init PROVE CheckedPathStays  OBVIOUS
  <2>2. \A t \in Task : pc[t] = "new"  BY <2>1 DEF Init
  <2> QED  BY <2>2 DEF CheckedPathStays
<1>2. ControlInv /\ UniqueIsExclusive /\ CheckedPathStays /\ [Next]_vars
      => ControlInv' /\ CheckedPathStays'
  BY ControlNext, CheckedNext
<1> QED  BY <1>1, <1>2, ControlInit, ControllerExcludes, PTL DEF Spec

-------------------------------------------------------------------------------
(* The data: directories, files, the bucket and the two stacks. *)

StoreOK(store) == DOMAIN store \subseteq Path /\ \A p \in DOMAIN store : store[p] \in Content

\* What a version is, and what an entry of the stacks must be, so that it can be
\* undone and redone.
Snapshot == UNION {[D -> [Key -> Val \cup {NoVal}]] : D \in SUBSET Path}
Logged == {e \in Entry : e.op \in DataOps => e.key \in Key /\ e.val \in Val}

\* TypeOK, and what keeps it: the removed trees are well formed, and a removal that
\* is about to be recorded has the value it removed.
FilesOK == StoreOK(root) /\ \A i \in DOMAIN bucket : StoreOK(bucket[i])
StacksOK ==
  /\ history \in Seq(Logged) /\ undone \in Seq(Logged)
  /\ versions \in Seq(Snapshot) \ {<<>>} /\ nextIndex \in Nat
LocalsOK ==
  /\ saved \in [Task -> [index : Nat, val : Val \cup {NoVal}]]
  /\ \A t \in Task : pc[t] = "log" => /\ request[t].op \in DirOps \cup DataOps
                                      /\ request[t].op = "remove" => saved[t].val \in Val

DataInv == FilesOK /\ StacksOK /\ LocalsOK /\ countOfNode \in Nat

LEMMA NewContents == Directory \in Content /\ EmptyCollection \in Content
BY BoundsAssumption DEF Directory, EmptyCollection, Content, NoData

LEMMA WithKeeps ==
  ASSUME NEW store, StoreOK(store), NEW p \in Path, NEW c \in Content
  PROVE  StoreOK(With(store, p, c))
BY DEF StoreOK, With

LEMMA MoveToBucketKeeps ==
  ASSUME FilesOK, NEW p, NEW i, MoveToBucket(p, i)
  PROVE  FilesOK'
<1>1. Below(root, p) \subseteq DOMAIN root  BY DEF Below
<1>2. StoreOK(root')  BY <1>1 DEF MoveToBucket, Without, Restrict, FilesOK, StoreOK
<1>3. StoreOK(Restrict(root, Below(root, p)))  BY <1>1 DEF Restrict, FilesOK, StoreOK
<1>4. ASSUME NEW j \in DOMAIN bucket' PROVE StoreOK(bucket'[j])
  <2>1. bucket' = With(bucket, i, Restrict(root, Below(root, p)))  BY DEF MoveToBucket
  <2>2. CASE j = i  BY <1>3, <2>1, <2>2 DEF With
  <2>3. CASE j # i
    <3>1. j \in DOMAIN bucket /\ bucket'[j] = bucket[j]  BY <1>4, <2>1, <2>3 DEF With
    <3> QED  BY <3>1 DEF FilesOK
  <2> QED  BY <2>2, <2>3
<1> QED  BY <1>2, <1>4 DEF FilesOK, StoreOK

LEMMA MoveBackKeeps ==
  ASSUME FilesOK, NEW i \in DOMAIN bucket, MoveBack(i)
  PROVE  FilesOK'
<1>1. StoreOK(bucket[i])  BY DEF FilesOK
<1>2. StoreOK(root')  BY <1>1 DEF MoveBack, FilesOK, StoreOK
<1>3. \A j \in DOMAIN bucket' : j \in DOMAIN bucket /\ bucket'[j] = bucket[j]
  BY DEF MoveBack, Restrict
<1> QED  BY <1>2, <1>3 DEF FilesOK, StoreOK

LEMMA SetValueKeeps ==
  ASSUME FilesOK, NEW p, NEW k, NEW v \in Val \cup {NoVal}, SetValue(p, k, v), bucket' = bucket
  PROVE  FilesOK'
<1>1. DOMAIN root' = DOMAIN root  BY DEF SetValue
<1>2. ASSUME NEW q \in DOMAIN root PROVE root'[q] \in Content
  <2>1. root[q] \in Content  BY DEF FilesOK, StoreOK
  <2>2. CASE q # p  BY <2>1, <2>2 DEF SetValue
  <2>3. CASE q = p
    <3>1. root'[q] = [root[q] EXCEPT !.data = [root[q].data EXCEPT ![k] = v]]
      BY <2>3 DEF SetValue
    <3>2. [root[q].data EXCEPT ![k] = v] \in [Key -> Val \cup {NoVal}]  BY <2>1 DEF Content
    <3> QED  BY <2>1, <3>1, <3>2 DEF Content
  <2> QED  BY <2>2, <2>3
<1> QED  BY <1>1, <1>2 DEF FilesOK, StoreOK

LEMMA InsertValueKeeps ==
  ASSUME FilesOK, NEW p, NEW k, NEW v \in Val, NEW c \in Nat, InsertValue(p, k, v, c),
         bucket' = bucket
  PROVE  FilesOK' /\ countOfNode' \in Nat
<1>1. PICK grown, nodes :
        /\ grown \in 0..2
        /\ nodes = IF c + grown > root[p].nodes /\ grown > 0 THEN c + grown ELSE root[p].nodes
        /\ nodes <= MaxNodes
        /\ countOfNode' = c + grown
        /\ root' = [root EXCEPT ![p] = [data |-> [@.data EXCEPT ![k] = v], nodes |-> nodes]]
  BY DEF InsertValue
<1>2. DOMAIN root' = DOMAIN root  BY <1>1
<1>3. ASSUME NEW q \in DOMAIN root PROVE root'[q] \in Content
  <2>1. root[q] \in Content  BY DEF FilesOK, StoreOK
  <2>2. CASE q # p  BY <1>1, <2>1, <2>2
  <2>3. CASE q = p
    <3>1. root'[q] = [data |-> [root[q].data EXCEPT ![k] = v], nodes |-> nodes]  BY <1>1, <2>3
    <3>2. [root[q].data EXCEPT ![k] = v] \in [Key -> Val \cup {NoVal}]  BY <2>1 DEF Content
    <3>3. root[p].nodes \in Nat /\ MaxNodes \in Nat  BY <2>1, <2>3, BoundsAssumption DEF Content
    <3>4. nodes \in 0..MaxNodes  BY <1>1, <3>3
    <3> QED  BY <3>1, <3>2, <3>4 DEF Content
  <2> QED  BY <2>2, <2>3
<1> QED  BY <1>1, <1>2, <1>3 DEF FilesOK, StoreOK

\* Undo and redo of a logged entry leave well formed files and an entry that is one.
LEMMA ExchangedLogged ==
  ASSUME FilesOK, NEW e \in Logged,
         e.op = "update" => e.path \in DOMAIN root /\ root[e.path].data[e.key] # NoVal
  PROVE  Exchanged(e) \in Logged
<1>1. CASE e.op # "update"  BY <1>1 DEF Exchanged
<1>2. CASE e.op = "update"
  <2>1. e \in Entry /\ e.key \in Key  BY <1>2 DEF Logged, DataOps
  <2>2. root[e.path] \in Content  BY <1>2 DEF FilesOK, StoreOK
  <2>3. root[e.path].data[e.key] \in Val  BY <1>2, <2>1, <2>2 DEF Content
  <2>4. Exchanged(e) = [e EXCEPT !.val = root[e.path].data[e.key]]  BY <1>2 DEF Exchanged
  <2> QED  BY <2>1, <2>3, <2>4 DEF Logged, Entry
<1> QED  BY <1>1, <1>2

LEMMA UndoKeeps ==
  ASSUME FilesOK, countOfNode \in Nat, NEW e \in Logged, Undoable(e), Undo(e)
  PROVE  FilesOK' /\ countOfNode' \in Nat /\ Exchanged(e) \in Logged
<1>1. e.op \in AddOps \cup RemoveOps \cup {"insert", "update", "remove"}
  BY DEF Logged, Entry, DirOps, DataOps
<1>2. CASE e.op \in AddOps
  BY <1>2, MoveToBucketKeeps, ExchangedLogged DEF Undo, AddOps, RemoveOps
<1>3. CASE e.op \in RemoveOps
  <2>1. e.index \in DOMAIN bucket /\ MoveBack(e.index) /\ UNCHANGED countOfNode
    BY <1>3 DEF Undoable, Undo, AddOps, RemoveOps, DataOps
  <2> QED  BY <1>3, <2>1, MoveBackKeeps, ExchangedLogged DEF RemoveOps
<1>4. CASE e.op \in DataOps
  <2>1. /\ e.path \in DOMAIN root
        /\ root[e.path].data[e.key] = NoVal <=> e.op = "remove"
    BY <1>4 DEF Undoable, AddOps, RemoveOps, DataOps
  <2>2. e.val \in Val /\ Exchanged(e) \in Logged
    BY <1>4, <2>1, ExchangedLogged DEF Logged
  <2>3. root[e.path].nodes \in Nat  BY <2>1 DEF FilesOK, StoreOK, Content
  <2>4. CASE e.op \in {"insert", "update"}
    <3>1. /\ SetValue(e.path, e.key, IF e.op = "insert" THEN NoVal ELSE e.val)
          /\ countOfNode' = root[e.path].nodes /\ bucket' = bucket
      BY <2>4 DEF Undo, AddOps, RemoveOps
    <3> QED  BY <2>2, <2>3, <3>1, SetValueKeeps
  <2>5. CASE e.op = "remove"
    <3>1. InsertValue(e.path, e.key, e.val, root[e.path].nodes) /\ bucket' = bucket
      BY <2>5 DEF Undo, AddOps, RemoveOps
    <3> QED  BY <2>2, <2>3, <3>1, InsertValueKeeps
  <2> QED  BY <1>4, <2>4, <2>5 DEF DataOps
<1> QED  BY <1>1, <1>2, <1>3, <1>4 DEF DataOps

LEMMA RedoKeeps ==
  ASSUME FilesOK, countOfNode \in Nat, NEW e \in Logged, Redoable(e), Redo(e)
  PROVE  FilesOK' /\ countOfNode' \in Nat /\ Exchanged(e) \in Logged
<1>1. e.op \in AddOps \cup RemoveOps \cup {"insert", "update", "remove"}
  BY DEF Logged, Entry, DirOps, DataOps
<1>2. CASE e.op \in RemoveOps
  BY <1>2, MoveToBucketKeeps, ExchangedLogged DEF Redo, AddOps, RemoveOps
<1>3. CASE e.op \in AddOps
  <2>1. e.index \in DOMAIN bucket /\ MoveBack(e.index) /\ UNCHANGED countOfNode
    BY <1>3 DEF Redoable, Redo, AddOps, RemoveOps, DataOps
  <2> QED  BY <1>3, <2>1, MoveBackKeeps, ExchangedLogged DEF AddOps
<1>4. CASE e.op \in DataOps
  <2>1. /\ e.path \in DOMAIN root
        /\ root[e.path].data[e.key] = NoVal <=> e.op = "insert"
    BY <1>4 DEF Redoable, AddOps, RemoveOps, DataOps
  <2>2. e.val \in Val /\ Exchanged(e) \in Logged
    BY <1>4, <2>1, ExchangedLogged DEF Logged
  <2>3. root[e.path].nodes \in Nat  BY <2>1 DEF FilesOK, StoreOK, Content
  <2>4. CASE e.op \in {"remove", "update"}
    <3>1. /\ SetValue(e.path, e.key, IF e.op = "remove" THEN NoVal ELSE e.val)
          /\ countOfNode' = root[e.path].nodes /\ bucket' = bucket
      BY <2>4 DEF Redo, AddOps, RemoveOps
    <3> QED  BY <2>2, <2>3, <3>1, SetValueKeeps
  <2>5. CASE e.op = "insert"
    <3>1. InsertValue(e.path, e.key, e.val, root[e.path].nodes) /\ bucket' = bucket
      BY <2>5 DEF Redo, AddOps, RemoveOps
    <3> QED  BY <2>2, <2>3, <3>1, InsertValueKeeps
  <2> QED  BY <1>4, <2>4, <2>5 DEF DataOps
<1> QED  BY <1>1, <1>2, <1>3, <1>4 DEF DataOps

LEMMA PopOne ==
  ASSUME NEW s \in Seq(Logged), s # <<>>
  PROVE  Last(s) \in Logged /\ Front(s) \in Seq(Logged)
BY DEF Last, Front

LEMMA ReplayData ==
  ASSUME DataInv, NEW t \in Task, RevertStep(t) \/ RedoStep(t)
  PROVE  DataInv'
<1>1. LocalsOK' /\ versions' \in Seq(Snapshot) \ {<<>>} /\ nextIndex' \in Nat
  BY DEF DataInv, StacksOK, LocalsOK, RevertStep, RedoStep, taskVars
<1>2. history \in Seq(Logged) /\ undone \in Seq(Logged)  BY DEF DataInv, StacksOK
<1>3. CASE RevertStep(t)
  <2>1. history # <<>> /\ Undoable(Last(history)) /\ Undo(Last(history))
        /\ history' = Front(history) /\ undone' = Append(undone, Exchanged(Last(history)))
    BY <1>3 DEF RevertStep, MustUndo
  <2>2. Last(history) \in Logged /\ Front(history) \in Seq(Logged)  BY <1>2, <2>1, PopOne
  <2>3. FilesOK' /\ countOfNode' \in Nat /\ Exchanged(Last(history)) \in Logged
    BY <2>1, <2>2, UndoKeeps DEF DataInv
  <2> QED  BY <1>1, <1>2, <2>1, <2>2, <2>3 DEF DataInv, StacksOK
<1>4. CASE RedoStep(t)
  <2>1. undone # <<>> /\ Redoable(Last(undone)) /\ Redo(Last(undone))
        /\ undone' = Front(undone) /\ history' = Append(history, Exchanged(Last(undone)))
    BY <1>4 DEF RedoStep
  <2>2. Last(undone) \in Logged /\ Front(undone) \in Seq(Logged)  BY <1>2, <2>1, PopOne
  <2>3. FilesOK' /\ countOfNode' \in Nat /\ Exchanged(Last(undone)) \in Logged
    BY <2>1, <2>2, RedoKeeps DEF DataInv
  <2> QED  BY <1>1, <1>2, <2>1, <2>2, <2>3 DEF DataInv, StacksOK
<1> QED  BY <1>3, <1>4

\* A collection a task has gone down to is there.
LEMMA CollectionThere ==
  ASSUME ControlInv, CheckedPathStays, NEW t \in Task, pc[t] \in {"act", "opened"},
         request[t].op \in DataOps \cup {"read"}
  PROVE  request[t].path \in DOMAIN root
<1>1. request[t] \in Request /\ Len(request[t].path) = 3
  BY CollectionRequestAssumption DEF ControlInv
<1>2. Depth(request[t].op) = 4 /\ request[t].op # "read_at"  BY DEF Depth, DataOps
<1>3. Len(held[t]) = 4
  <2>1. InScope(t, pc[t])  BY DEF ControlInv, HeldAsScoped
  <2> QED  BY <1>2, <2>1 DEF InScope
<1>4. SubSeq(request[t].path, 1, 3) \in DOMAIN root
  <2>1. \A n \in 1..4 : n < 4 => SubSeq(request[t].path, 1, n) \in DOMAIN root
    <3>1. pc[t] \in {"lock", "check", "act", "opened"} /\ pc[t] # "check"  OBVIOUS
    <3>2. \A n \in 1..(4 - 0) : n < 4 => SubSeq(request[t].path, 1, n) \in DOMAIN root
      BY <1>2, <1>3, <3>1 DEF CheckedPathStays
    <3> QED  BY <3>2
  <2> QED  BY <2>1
<1>5. SubSeq(request[t].path, 1, 3) = request[t].path
  <2>1. PICK path \in Seq(Name) : path = request[t].path /\ Len(path) = 3
    BY <1>1, NameAssumption, RequestAssumption DEF RequestType
  <2> QED  BY <2>1
<1> QED  BY <1>4, <1>5

LEMMA RequestTyped ==
  ASSUME ControlInv, NEW t \in Task
  PROVE  request[t] \in Request /\ request[t] \in RequestType
BY RequestAssumption DEF ControlInv

\* A task that goes on elsewhere with the values it has; only a removal of a key
\* goes on to its record with more to say.
LEMMA LocalsKeep ==
  ASSUME ControlInv, LocalsOK, NEW t \in Task, NEW l, Goto(t, l), saved' = saved,
         request' = request, l = "log" => request[t].op \in (DirOps \cup DataOps) \ {"remove"}
  PROVE  LocalsOK'
<1>1. ASSUME NEW u \in Task, pc'[u] = "log"
      PROVE  /\ request'[u].op \in DirOps \cup DataOps
             /\ request'[u].op = "remove" => saved'[u].val \in Val
  <2>1. CASE u = t  BY <1>1, <2>1 DEF Goto, ControlInv
  <2>2. CASE u # t  BY <1>1, <2>2 DEF Goto, ControlInv, LocalsOK
  <2> QED  BY <2>1, <2>2
<1> QED  BY <1>1 DEF LocalsOK

LEMMA CreateData ==
  ASSUME ControlInv, DataInv, NEW t \in Task, NEW content \in {Directory, EmptyCollection},
         Create(t, content), ActFrame, request[t].op \in DirOps
  PROVE  DataInv'
<1>1. request' = request /\ StacksOK' = StacksOK
  <2>1. UNCHANGED <<history, undone, versions, nextIndex, request>>
    BY DEF Create, Refuse, ActFrame
  <2> QED  BY <2>1 DEF StacksOK
<1>2. LocalsOK'
  <2>1. saved' = saved /\ \E l : Goto(t, l)  BY DEF Create, Refuse
  <2>2. request[t].op # "remove"  BY DEF DirOps, AddOps, RemoveOps
  <2> QED  BY <1>1, <2>1, <2>2, LocalsKeep DEF DataInv
<1>3. FilesOK' /\ countOfNode' \in Nat
  <2>1. CASE request[t].path \in DOMAIN root
    <3>1. UNCHANGED <<root, bucket, countOfNode>>  BY <2>1 DEF Create, Refuse
    <3> QED  BY <3>1 DEF DataInv, FilesOK, StoreOK
  <2>2. CASE request[t].path \notin DOMAIN root
    <3>1. /\ root' = With(root, request[t].path, content) /\ bucket' = bucket
          /\ countOfNode' = IF content = Directory THEN countOfNode ELSE content.nodes
      BY <2>2 DEF Create
    <3>2. content \in Content /\ request[t].path \in Path
      BY NewContents, RequestTyped DEF RequestType
    <3>3. content.nodes \in Nat  BY DEF Directory, EmptyCollection
    <3>4. StoreOK(root')  BY <3>1, <3>2, WithKeeps DEF DataInv, FilesOK
    <3> QED  BY <3>1, <3>3, <3>4 DEF DataInv, FilesOK, StoreOK
  <2> QED  BY <2>1, <2>2
<1> QED  BY <1>1, <1>2, <1>3 DEF DataInv

LEMMA DiscardData ==
  ASSUME ControlInv, DataInv, NEW t \in Task, Discard(t), ActFrame, request[t].op \in DirOps
  PROVE  DataInv'
<1>1. UNCHANGED <<history, undone, versions, request>>  BY DEF ActFrame
<1>2. CASE request[t].path \in DOMAIN root
  <2>1. /\ MoveToBucket(request[t].path, nextIndex) /\ countOfNode' = countOfNode
        /\ nextIndex' = nextIndex + 1 /\ Goto(t, "log")
        /\ saved' = [saved EXCEPT ![t].index = nextIndex]
    BY <1>2 DEF Discard
  <2>2. FilesOK'  BY <2>1, MoveToBucketKeeps DEF DataInv
  <2>3. StacksOK'  BY <1>1, <2>1 DEF DataInv, StacksOK
  <2>4. LocalsOK'
    <3>1. saved' \in [Task -> [index : Nat, val : Val \cup {NoVal}]]
      BY <2>1 DEF DataInv, LocalsOK, StacksOK
    <3>2. ASSUME NEW u \in Task, pc'[u] = "log"
          PROVE  /\ request'[u].op \in DirOps \cup DataOps
                 /\ request'[u].op = "remove" => saved'[u].val \in Val
      <4>1. CASE u = t  BY <1>1, <4>1 DEF DirOps, AddOps, RemoveOps
      <4>2. CASE u # t
        <5>1. pc'[u] = pc[u] /\ saved'[u] = saved[u]
          BY <2>1, <4>2 DEF Goto, ControlInv, DataInv, LocalsOK
        <5> QED  BY <1>1, <3>2, <5>1 DEF DataInv, LocalsOK
      <4> QED  BY <4>1, <4>2
    <3> QED  BY <3>1, <3>2 DEF LocalsOK
  <2> QED  BY <2>1, <2>2, <2>3, <2>4 DEF DataInv
<1>3. CASE request[t].path \notin DOMAIN root
  <2>1. Goto(t, "unlock") /\ UNCHANGED <<root, bucket, nextIndex, saved, countOfNode>>
    BY <1>3 DEF Discard, Refuse
  <2>2. LocalsOK'  BY <1>1, <2>1, LocalsKeep DEF DataInv
  <2> QED  BY <1>1, <2>1, <2>2 DEF DataInv, FilesOK, StoreOK, StacksOK
<1> QED  BY <1>2, <1>3

LEMMA DirectoryData ==
  ASSUME ControlInv, DataInv, NEW t \in Task,
         \/ AddPool(t) \/ RemovePool(t) \/ AddScheme(t) \/ RemoveScheme(t)
         \/ AddCollection(t) \/ RemoveCollection(t)
  PROVE  DataInv'
<1>1. CASE AddPool(t) \/ AddScheme(t) \/ AddCollection(t)
  <2>1. PICK content \in {Directory, EmptyCollection} :
          Create(t, content) /\ ActFrame /\ request[t].op \in DirOps
    BY <1>1 DEF AddPool, AddScheme, AddCollection, Acting, DirOps, AddOps
  <2> QED  BY <2>1, CreateData
<1>2. CASE RemovePool(t) \/ RemoveScheme(t) \/ RemoveCollection(t)
  <2>1. Discard(t) /\ ActFrame /\ request[t].op \in DirOps
    BY <1>2 DEF RemovePool, RemoveScheme, RemoveCollection, Acting, DirOps, RemoveOps
  <2> QED  BY <2>1, DiscardData
<1> QED  BY <1>1, <1>2

\* A request that is refused, or only read, changes nothing but where its task is.
LEMMA NoChangeData ==
  ASSUME ControlInv, DataInv, NEW t \in Task, Goto(t, "unlock"), countOfNode' \in Nat,
         UNCHANGED <<root, bucket, nextIndex, saved, history, undone, versions, request>>
  PROVE  DataInv'
<1>1. LocalsOK'  BY LocalsKeep DEF DataInv
<1> QED  BY <1>1 DEF DataInv, FilesOK, StoreOK, StacksOK

LEMMA DriftNat ==
  ASSUME countOfNode \in Nat, NEW t \in Task, Drift(t)
  PROVE  countOfNode' \in Nat
BY DEF Drift

LEMMA InsertData ==
  ASSUME ControlInv, DataInv, NEW t \in Task, Insert(t)
  PROVE  DataInv'
<1>1. UNCHANGED <<history, undone, versions, request>> /\ request[t].op = "insert"
  BY DEF Insert, ActFrame, Working
<1>2. CASE Stored(t) # NoVal
  <2>1. Refuse(t) /\ countOfNode' = countOfNode  BY <1>2 DEF Insert
  <2> QED  BY <1>1, <2>1, NoChangeData DEF Refuse, DataInv
<1>3. CASE Stored(t) = NoVal
  <2>1. /\ InsertValue(request[t].path, request[t].key, request[t].val, countOfNode)
        /\ Goto(t, "log") /\ UNCHANGED <<bucket, nextIndex, saved>>
    BY <1>3 DEF Insert
  <2>2. request[t].val \in Val
    BY <1>1, RequestTyped, CollectionRequestAssumption
  <2>3. FilesOK' /\ countOfNode' \in Nat  BY <2>1, <2>2, InsertValueKeeps DEF DataInv
  <2>4. request[t].op \in (DirOps \cup DataOps) \ {"remove"}  BY <1>1 DEF DataOps
  <2>5. LocalsOK'  BY <1>1, <2>1, <2>4, LocalsKeep DEF DataInv
  <2> QED  BY <1>1, <2>1, <2>3, <2>5 DEF DataInv, StacksOK
<1> QED  BY <1>2, <1>3

LEMMA UpdateData ==
  ASSUME ControlInv, DataInv, NEW t \in Task, Update(t)
  PROVE  DataInv'
<1>1. UNCHANGED <<history, undone, versions, request>> /\ request[t].op = "update"
  BY DEF Update, ActFrame, Working
<1>2. countOfNode' \in Nat  BY DriftNat DEF Update, DataInv
<1>3. CASE Stored(t) = NoVal
  <2>1. Refuse(t)  BY <1>3 DEF Update
  <2> QED  BY <1>1, <1>2, <2>1, NoChangeData DEF Refuse
<1>4. CASE Stored(t) # NoVal
  <2>1. /\ SetValue(request[t].path, request[t].key, request[t].val)
        /\ Goto(t, "log") /\ UNCHANGED <<bucket, nextIndex, saved>>
    BY <1>4 DEF Update
  <2>2. request[t].val \in Val
    BY <1>1, RequestTyped, CollectionRequestAssumption
  <2>3. FilesOK'  BY <2>1, <2>2, SetValueKeeps DEF DataInv
  <2>4. request[t].op \in (DirOps \cup DataOps) \ {"remove"}  BY <1>1 DEF DataOps
  <2>5. LocalsOK'  BY <1>1, <2>1, <2>4, LocalsKeep DEF DataInv
  <2> QED  BY <1>1, <1>2, <2>1, <2>3, <2>5 DEF DataInv, StacksOK
<1> QED  BY <1>3, <1>4

LEMMA RemoveKeyData ==
  ASSUME ControlInv, CheckedPathStays, DataInv, NEW t \in Task, RemoveKey(t)
  PROVE  DataInv'
<1>1. UNCHANGED <<history, undone, versions, request>> /\ request[t].op = "remove"
      /\ pc[t] = "opened"
  BY DEF RemoveKey, ActFrame, Working
<1>2. countOfNode' \in Nat  BY DriftNat DEF RemoveKey, DataInv
<1>3. CASE Stored(t) = NoVal
  <2>1. Refuse(t)  BY <1>3 DEF RemoveKey
  <2> QED  BY <1>1, <1>2, <2>1, NoChangeData DEF Refuse
<1>4. CASE Stored(t) # NoVal
  <2>1. /\ SetValue(request[t].path, request[t].key, NoVal)
        /\ saved' = [saved EXCEPT ![t].val = Stored(t)]
        /\ Goto(t, "log") /\ UNCHANGED <<bucket, nextIndex>>
    BY <1>4 DEF RemoveKey
  <2>2. Stored(t) \in Val
    <3>1. root[request[t].path] \in Content
      BY <1>1, CollectionThere DEF DataOps, DataInv, FilesOK, StoreOK
    <3>2. request[t].key \in Key
      BY <1>1, RequestTyped, CollectionRequestAssumption DEF DataOps
    <3> QED  BY <1>4, <3>1, <3>2 DEF Stored, Content
  <2>3. FilesOK'  BY <2>1, SetValueKeeps DEF DataInv
  <2>4. LocalsOK'
    <3>1. saved' \in [Task -> [index : Nat, val : Val \cup {NoVal}]] /\ saved'[t].val \in Val
      BY <2>1, <2>2 DEF DataInv, LocalsOK
    <3>2. ASSUME NEW u \in Task, u # t, pc'[u] = "log"
          PROVE  /\ request'[u].op \in DirOps \cup DataOps
                 /\ request'[u].op = "remove" => saved'[u].val \in Val
      <4>1. pc'[u] = pc[u] /\ saved'[u] = saved[u]
        BY <2>1, <3>2 DEF Goto, ControlInv, DataInv, LocalsOK
      <4> QED  BY <1>1, <3>2, <4>1 DEF DataInv, LocalsOK
    <3>3. request'[t].op \in DirOps \cup DataOps  BY <1>1 DEF DataOps
    <3> QED  BY <3>1, <3>2, <3>3 DEF LocalsOK
  <2> QED  BY <1>1, <1>2, <2>1, <2>3, <2>4 DEF DataInv, StacksOK
<1> QED  BY <1>3, <1>4

LEMMA ReadData ==
  ASSUME ControlInv, DataInv, NEW t \in Task, Read(t)
  PROVE  DataInv'
<1>1. countOfNode' \in Nat
  <2>1. CASE Reversed(request[t])  BY <2>1 DEF Read, DataInv
  <2>2. CASE ~Reversed(request[t])  BY <2>2, DriftNat DEF Read, DataInv
  <2> QED  BY <2>1, <2>2
<1> QED  BY <1>1, NoChangeData DEF Read, ActFrame

LEMMA RecordFields ==
  ASSUME NEW op \in DirOps \cup DataOps, NEW path \in Path, NEW key \in Key \cup {NoVal},
         NEW val \in Val \cup {NoVal}, NEW index \in Nat, NEW time \in Nat
  PROVE  [op |-> op, path |-> path, index |-> index, key |-> key, val |-> val,
          time |-> time] \in Entry
BY DEF Entry

\* A snapshot is a function from some paths to maps from keys to values.
LEMMA IsSnapshot ==
  ASSUME NEW d
  PROVE  d \in Snapshot <=> /\ DOMAIN d \subseteq Path
                            /\ d = [p \in DOMAIN d |-> d[p]]
                            /\ \A p \in DOMAIN d : d[p] \in [Key -> Val \cup {NoVal}]
<1>1. ASSUME d \in Snapshot
      PROVE  /\ DOMAIN d \subseteq Path
             /\ d = [p \in DOMAIN d |-> d[p]]
             /\ \A p \in DOMAIN d : d[p] \in [Key -> Val \cup {NoVal}]
  BY <1>1 DEF Snapshot
<1>2. ASSUME DOMAIN d \subseteq Path, d = [p \in DOMAIN d |-> d[p]],
             \A p \in DOMAIN d : d[p] \in [Key -> Val \cup {NoVal}]
      PROVE  d \in Snapshot
  <2>1. d \in [DOMAIN d -> [Key -> Val \cup {NoVal}]]  BY <1>2
  <2> QED  BY <1>2, <2>1 DEF Snapshot
<1> QED  BY <1>1, <1>2

LEMMA DataSnapshot ==
  ASSUME NEW store, StoreOK(store)
  PROVE  DataOf(store) \in Snapshot
<1>1. /\ DOMAIN DataOf(store) = DOMAIN store
      /\ \A p \in DOMAIN store : DataOf(store)[p] = store[p].data
      /\ DataOf(store) = [p \in DOMAIN store |-> DataOf(store)[p]]
  BY DEF DataOf
<1>2. \A p \in DOMAIN store : store[p].data \in [Key -> Val \cup {NoVal}]
  BY DEF StoreOK, Content
<1> QED  BY <1>1, <1>2, IsSnapshot DEF StoreOK

\* A change leaves a snapshot.
LEMMA ChangedSnapshot ==
  ASSUME NEW d \in Snapshot, NEW c, c.path \in Path, c.op \in DirOps \cup DataOps,
         c.op \in {"insert", "update"} => c.val \in Val
  PROVE  Changed(d, c) \in Snapshot
<1>1. /\ DOMAIN d \subseteq Path
      /\ d = [p \in DOMAIN d |-> d[p]]
      /\ \A p \in DOMAIN d : d[p] \in [Key -> Val \cup {NoVal}]
  BY IsSnapshot
<1>2. CASE c.op \in AddOps
  <2>1. Changed(d, c) = With(d, c.path, NoData)  BY <1>2 DEF Changed, AddOps, RemoveOps
  <2>2. With(d, c.path, NoData) \in Snapshot
    BY <1>1, IsSnapshot DEF With, NoData
  <2> QED  BY <2>1, <2>2
<1>3. CASE c.op \in RemoveOps
  <2>1. Changed(d, c) = Without(d, c.path)  BY <1>3 DEF Changed, AddOps, RemoveOps
  <2>2. Without(d, c.path) \in Snapshot
    BY <1>1, IsSnapshot DEF Without, Restrict
  <2> QED  BY <2>1, <2>2
<1>4. CASE c.op \in DataOps
  <2>1. PICK v \in Val \cup {NoVal} :
          Changed(d, c) = [d EXCEPT ![c.path] = [d[c.path] EXCEPT ![c.key] = v]]
    BY <1>4 DEF Changed, AddOps, RemoveOps, DataOps
  <2>2. ASSUME NEW p \in DOMAIN d
        PROVE  Changed(d, c)[p] \in [Key -> Val \cup {NoVal}]
    <3>1. CASE p # c.path  BY <1>1, <2>1, <3>1
    <3>2. CASE p = c.path
      <4>1. Changed(d, c)[p] = [d[p] EXCEPT ![c.key] = v]  BY <2>1, <3>2
      <4>2. d[p] \in [Key -> Val \cup {NoVal}]  BY <1>1
      <4>3. [d[p] EXCEPT ![c.key] = v] \in [Key -> Val \cup {NoVal}]  BY <4>2
      <4> QED  BY <4>1, <4>3
    <3> QED  BY <3>1, <3>2
  <2>3. DOMAIN Changed(d, c) = DOMAIN d  BY <2>1
  <2>4. Changed(d, c) = [p \in DOMAIN d |-> Changed(d, c)[p]]  BY <2>1
  <2> QED  BY <1>1, <2>2, <2>3, <2>4, IsSnapshot
<1> QED  BY <1>2, <1>3, <1>4 DEF DirOps

LEMMA CurrentSnapshot ==
  ASSUME StacksOK
  PROVE  Current \in Snapshot /\ Current = versions[Len(versions)] /\ Changes \in Nat
<1>1. versions \in Seq(Snapshot) /\ versions # <<>>  BY DEF StacksOK
<1>2. Len(versions) \in Nat \ {0}  BY <1>1
<1>3. Changes + 1 = Len(versions)  BY <1>2 DEF Changes
<1> QED  BY <1>1, <1>2, <1>3 DEF Current, AsOf, Changes

\* What Log pushes can be undone and redone later.
LEMMA LogData ==
  ASSUME ControlInv, DataInv, NEW t \in Task, Log(t)
  PROVE  DataInv'
<1> DEFINE r == request[t]
           e == [op |-> r.op, path |-> r.path, index |-> LoggedIndex(t), key |-> r.key,
                 val |-> LoggedVal(t), time |-> Len(versions)]
<1>1. r \in Request /\ r \in RequestType  BY RequestTyped
<1>2. /\ r.op \in DirOps \cup DataOps
      /\ r.op = "remove" => saved[t].val \in Val
      /\ saved[t] \in [index : Nat, val : Val \cup {NoVal}]
  BY DEF Log, DataInv, LocalsOK
<1>3. LoggedIndex(t) \in Nat  BY <1>2 DEF LoggedIndex, DataInv, StacksOK
<1>4. /\ LoggedVal(t) \in Val \cup {NoVal}
      /\ r.op \in DataOps => r.key \in Key /\ LoggedVal(t) \in Val
  <2>1. CASE r.op = "remove"
    <3>1. LoggedVal(t) = saved[t].val  BY <2>1 DEF LoggedVal
    <3> QED  BY <1>1, <1>2, <2>1, <3>1, CollectionRequestAssumption
  <2>2. CASE r.op # "remove"
    <3>1. LoggedVal(t) = r.val  BY <2>2 DEF LoggedVal
    <3> QED  BY <1>1, <2>2, <3>1, CollectionRequestAssumption DEF RequestType, DataOps
  <2> QED  BY <2>1, <2>2
<1>5. /\ versions \in Seq(Snapshot) \ {<<>>} /\ Len(versions) \in Nat
      /\ nextIndex \in Nat /\ history \in Seq(Logged)
  BY DEF DataInv, StacksOK
<1>6. e \in Logged
  <2>1. r.path \in Path /\ r.key \in Key \cup {NoVal}  BY <1>1 DEF RequestType
  <2>2. Len(versions) \in Nat  BY <1>5
  <2>3. e \in Entry  BY <1>2, <1>3, <1>4, <2>1, <2>2, RecordFields
  <2> QED  BY <1>4, <2>3 DEF Logged
<1>7. history' = Append(history, e) /\ undone' = undone /\ nextIndex' \in Nat
  BY <1>5 DEF Log
<1>8. versions' = Append(versions, Changed(Current, ChangeOf(r)))  BY DEF Log
<1>9. versions' \in Seq(Snapshot) \ {<<>>}
  <2>1. Current \in Snapshot  BY CurrentSnapshot DEF DataInv
  <2>2. r.path \in Path /\ (r.op \in {"insert", "update"} => r.val \in Val)
    BY <1>1, CollectionRequestAssumption DEF RequestType
  <2>3. Changed(Current, ChangeOf(r)) \in Snapshot
    BY <1>2, <2>1, <2>2, ChangedSnapshot DEF ChangeOf
  <2> QED  BY <1>5, <1>8, <2>3
<1>10. StacksOK'  BY <1>5, <1>6, <1>7, <1>9 DEF DataInv, StacksOK
<1>11. LocalsOK'  BY LocalsKeep DEF Log, DataInv
<1> QED  BY <1>10, <1>11 DEF Log, DataInv, FilesOK, StoreOK, storeVars

\* The steps that only pass on, those of the locks among them.
LEMMA PassageData ==
  ASSUME ControlInv, DataInv, NEW t \in Task,
         \/ TakeLock(t) \/ CheckPath(t) \/ RevertDone(t) \/ Look(t) \/ RedoDone(t)
         \/ ReleaseLock(t) \/ Publish(t)
  PROVE  DataInv'
<1>1. UNCHANGED <<root, bucket, history, undone, nextIndex, versions, saved, request>>
  BY DEF TakeLock, CheckPath, RevertDone, Look, RedoDone, ReleaseLock, Publish, storeVars,
         historyVars, taskVars
<1>2. \E l \in Labels \ {"log"} : Goto(t, l)
  BY DEF TakeLock, CheckPath, RevertDone, Look, RedoDone, ReleaseLock, Publish, Labels
<1>3. LocalsOK'  BY <1>1, <1>2, LocalsKeep DEF DataInv
<1>4. countOfNode' \in Nat
  <2>1. CASE countOfNode' = countOfNode  BY <2>1 DEF DataInv
  <2>2. CASE Look(t) /\ countOfNode' # countOfNode
    <3>1. /\ request[t].path \in DOMAIN root
          /\ countOfNode' = root[request[t].path].nodes
      BY <2>2 DEF Look
    <3> QED  BY <3>1 DEF DataInv, FilesOK, StoreOK, Content
  <2> QED
    BY <2>1, <2>2 DEF TakeLock, CheckPath, RevertDone, RedoDone, ReleaseLock, Publish
<1> QED  BY <1>1, <1>3, <1>4 DEF DataInv, FilesOK, StoreOK, StacksOK

LEMMA OpenTreeData ==
  ASSUME ControlInv, CheckedPathStays, DataInv, NEW t \in Task, OpenTree(t)
  PROVE  DataInv'
<1>1. UNCHANGED <<root, bucket, history, undone, nextIndex, versions, saved, request>>
      /\ Goto(t, "opened")
  BY DEF OpenTree, storeVars, historyVars, taskVars
<1>2. LocalsOK'  BY <1>1, LocalsKeep DEF DataInv
<1>3. request[t].path \in DOMAIN root  BY CollectionThere DEF OpenTree
<1>4. countOfNode' \in Nat
  BY <1>3 DEF OpenTree, DataInv, FilesOK, StoreOK, Content
<1> QED  BY <1>1, <1>2, <1>4 DEF DataInv, FilesOK, StoreOK, StacksOK

\* Steps outside the tasks.
LEMMA StartData ==
  ASSUME ControlInv, DataInv, NEW t \in Task, Start(t)
  PROVE  DataInv'
<1>1. UNCHANGED <<root, bucket, history, undone, nextIndex, versions, saved, countOfNode>>
      /\ Goto(t, "lock")
  BY DEF Start, storeVars, historyVars
<1>2. ASSUME NEW u \in Task, pc'[u] = "log"
      PROVE  u # t /\ pc[u] = "log" /\ request'[u] = request[u]
  BY <1>1, <1>2 DEF Start, Goto, ControlInv
<1>3. LocalsOK'  BY <1>1, <1>2 DEF DataInv, LocalsOK
<1> QED  BY <1>1, <1>3 DEF DataInv, FilesOK, StoreOK, StacksOK

LEMMA StillData ==
  ASSUME DataInv, UNCHANGED <<root, bucket, history, undone, nextIndex, versions, saved,
                              countOfNode, pc, request>>
  PROVE  DataInv'
BY DEF DataInv, FilesOK, StoreOK, StacksOK, LocalsOK

LEMMA DataInit == Init => DataInv
<1>1. SUFFICES ASSUME Init PROVE DataInv  OBVIOUS
<1>2. StoreOK(root) /\ DOMAIN bucket = {}  BY <1>1, BaseAssumption DEF Init, StoreOK
<1>3. LocalsOK  BY <1>1 DEF Init, LocalsOK
<1>4. StacksOK
  <2>1. DataOf(Base) \in Snapshot  BY <1>1, <1>2, DataSnapshot DEF Init
  <2>2. versions = <<DataOf(Base)>>  BY <1>1 DEF Init
  <2>3. versions \in Seq(Snapshot) \ {<<>>}  BY <2>1, <2>2
  <2> QED  BY <1>1, <2>3 DEF Init, StacksOK
<1> QED  BY <1>1, <1>2, <1>3, <1>4 DEF Init, DataInv, FilesOK

LEMMA DataNext ==
  ASSUME ControlInv, CheckedPathStays, DataInv, [Next]_vars
  PROVE  DataInv'
<1>1. CASE Finished \/ UNCHANGED vars  BY <1>1, StillData DEF Finished, vars
<1>2. ASSUME NEW t \in Task, Get(t) PROVE DataInv'
  BY <1>2, StillData DEF Get, storeVars, historyVars
<1>3. ASSUME NEW t \in Task, TaskStep(t) PROVE DataInv'
  BY <1>3, PassageData, DirectoryData, OpenTreeData, InsertData, UpdateData, RemoveKeyData,
     ReadData, LogData, ReplayData DEF TaskStep
<1> QED  BY <1>1, <1>2, <1>3, StartData DEF Next

\* Whatever is asked and however the tasks interleave: files and removed files are
\* well formed and have no more nodes than fit, the counter never falls below zero,
\* and every entry of the stacks can say what it would put back, a change of a key
\* with a value.
THEOREM DataCorrect == Spec => []TypeOK
<1>1. ControlInv /\ LockInv /\ DataInv => TypeOK
  <2>1. SUFFICES ASSUME ControlInv, LockInv, DataInv PROVE TypeOK  OBVIOUS
  <2>2. LockTypeOK  BY <2>1 DEF LockInv
  <2>3. history \in Seq(Logged) /\ undone \in Seq(Logged)  BY <2>1 DEF DataInv, StacksOK
  <2>4. /\ \A i \in DOMAIN history : history[i] \in Logged
        /\ \A i \in DOMAIN undone : undone[i] \in Logged
    BY <2>3
  <2>5. request \in [Task -> RequestType] /\ pc \in [Task -> Labels]
    BY <2>1, RequestAssumption DEF ControlInv
  <2> QED
    BY <2>1, <2>2, <2>4, <2>5 DEF TypeOK, DataInv, FilesOK, StoreOK, StacksOK, Logged
<1>2. ControlInv /\ CheckedPathStays /\ DataInv /\ [Next]_vars => DataInv'  BY DataNext
<1>3. ControlInv /\ [Next]_vars => ControlInv'  BY ControlNext
<1> QED
  BY <1>1, <1>2, <1>3, ControlInit, DataInit, PathsStay, UsesPathLocks, LockInvariant, PTL DEF Spec
===============================================================================

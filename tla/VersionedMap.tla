----------------------------- MODULE VersionedMap -----------------------------
(***************************************************************************)
(* What a tree with history promises its readers: every committed change   *)
(* starts a new version of the map, stamped with the time of the change,   *)
(* versions are never altered afterwards, and a historical read of time T  *)
(* is answered from the last version that is not younger than T.           *)
(* TreeHistory (the undo/redo stacks of b_tree.h) implements this module.  *)
(***************************************************************************)
EXTENDS Integers, Sequences

CONSTANTS
  Key,    \* keys of the tree
  Val,    \* values of the tree
  NoVal,  \* "this key is absent", not a value
  Time    \* the instants (natural numbers) changes and reads may name

VARIABLES
  versions, \* sequence of [since, map]: the map from time since on
  view      \* what a historical read currently shows: <<>> or <<map>>

absVars == <<versions, view>>

Map == [Key -> Val \cup {NoVal}]
EmptyMap == [k \in Key |-> NoVal]
Version == [since : Time, map : Map]

Newest == versions[Len(versions)]

\* i is the version a read of time T must see: the last one not younger than T.
IsVersionAt(i, T) ==
  /\ i \in 1 .. Len(versions)
  /\ versions[i].since <= T
  /\ \A j \in 1 .. Len(versions) : j > i => versions[j].since > T

Init ==
  /\ versions = <<[since |-> 0, map |-> EmptyMap]>>
  /\ view = <<>>

\* A change of one key, never older than the changes before it. Writing the
\* value that is already there still makes a version; removing needs a value.
Commit(k, w, now) ==
  /\ w = NoVal => Newest.map[k] # NoVal
  /\ now >= Newest.since
  /\ versions' = Append(versions,
                        [since |-> now, map |-> [Newest.map EXCEPT ![k] = w]])
  /\ UNCHANGED view

Show(T) ==
  /\ view = <<>>
  /\ \E i \in 1 .. Len(versions) :
       IsVersionAt(i, T) /\ view' = <<versions[i].map>>
  /\ UNCHANGED versions

Hide ==
  /\ view # <<>>
  /\ view' = <<>>
  /\ UNCHANGED versions

Next ==
  \/ \E k \in Key, w \in Val \cup {NoVal}, now \in Time : Commit(k, w, now)
  \/ \E T \in Time : Show(T)
  \/ Hide

Spec == Init /\ [][Next]_absVars

===============================================================================

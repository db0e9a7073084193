-------------------------------- MODULE Database --------------------------------
(***************************************************************************)
(* What controller_int promises, whichever controller serves it: requests, *)
(* the data they are about, and what a sequence of changes makes of it.    *)
(***************************************************************************)
EXTENDS SequencesExt

CONSTANTS
  Key, Val,  \* keys and values of the collections
  NoVal,     \* no value
  Path,      \* paths of pools, schemes and collections: <<p>>, <<p, s>>, <<p, s, c>>
  Request    \* the requests clients send

AddOps == {"add_pool", "add_scheme", "add_collection"}
RemoveOps == {"remove_pool", "remove_scheme", "remove_collection"}
DirOps == AddOps \cup RemoveOps
DataOps == {"insert", "update", "remove"}
ReadOps == {"read", "read_at"}

RequestType == [op : DirOps \cup DataOps \cup ReadOps, path : Path,
                key : Key \cup {NoVal}, val : Val \cup {NoVal}, time : Nat]

ASSUME RequestAssumption == Request \subseteq RequestType /\ Request # {}
ASSUME NoValAssumption == NoVal \notin Val

\* How many locks each operation takes: the root's, the pool's, the scheme's,
\* the collection's.
Depth(op) ==
  CASE op \in {"add_pool", "remove_pool", "read_at"} -> 1
    [] op \in {"add_scheme", "remove_scheme"} -> 2
    [] op \in {"add_collection", "remove_collection"} -> 3
    [] op \in {"insert", "update", "remove", "read"} -> 4

-------------------------------------------------------------------------------
(* Data as a map from paths to maps from keys to values. *)

NoData == [k \in Key |-> NoVal]
Below(store, p) == {q \in DOMAIN store : IsPrefix(p, q)}
Without(store, p) == Restrict(store, DOMAIN store \ Below(store, p))
Parent(p) == SubSeq(p, 1, Len(p) - 1)
With(store, p, content) ==
  [q \in DOMAIN store \cup {p} |-> IF q = p THEN content ELSE store[q]]

ChangeOf(r) == [op |-> r.op, path |-> r.path, key |-> r.key, val |-> r.val]

Changed(d, c) ==
  CASE c.op \in AddOps -> With(d, c.path, NoData)
    [] c.op \in RemoveOps -> Without(d, c.path)
    [] c.op \in {"insert", "update"} -> [d EXCEPT ![c.path][c.key] = c.val]
    [] c.op = "remove" -> [d EXCEPT ![c.path][c.key] = NoVal]

\* What is left of d after the changes, in their order.
AfterAll(d, changes) ==
  LET after[n \in 0..Len(changes)] ==
        IF n = 0 THEN d ELSE Changed(after[n - 1], changes[n])
  IN after[Len(changes)]

\* The directories and keys there are, without the values.
Shape(d) == [p \in DOMAIN d |-> {k \in Key : d[p][k] # NoVal}]
===============================================================================

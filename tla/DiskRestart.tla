------------------------------- MODULE DiskRestart -------------------------------
(***************************************************************************)
(* The disk controller in a process that may die and be started again, as  *)
(* heart does when the server stops answering.  What is under _root stays; *)
(* the constructor empties _bucket; locks, tasks, history and answers were *)
(* in memory.  The process dies between the steps of DiskController: a     *)
(* rename or a change of a tree file is taken to be atomic.                *)
(***************************************************************************)
EXTENDS DiskController

\* What the constructor leaves under _root.
\* Faults: it empties _root as well; it puts back what it finds in _bucket.
RootEmptied == [q \in {} |-> Directory]
BucketRestored == FoldSet(LAMBDA i, r : r @@ bucket[i], root, DOMAIN bucket)
RootFound == root

Restart ==
  /\ opened' = [q \in {} |-> [unique |-> FALSE, count |-> 0]]
  /\ held' = [t \in Task |-> <<>>]
  /\ root' = RootFound
  /\ bucket' = [i \in {} |-> Base]
  /\ history' = <<>> /\ undone' = <<>>
  /\ versions' = <<DataOf(root')>>
  /\ nextIndex' = 0 /\ countOfNode' = 0
  /\ pc' = [t \in Task |-> IF pc[t] = "new" THEN "new" ELSE "lost"]
  /\ results' = [t \in {} |-> "none"]
  /\ UNCHANGED <<request, saved, answer>>

RestartNext == Next \/ Restart
RestartSpec == Init /\ [][RestartNext]_vars

-------------------------------------------------------------------------------
(* Properties *)

\* The changes whose task has made them and has yet to record them.
InFlight == {t \in Task : pc[t] = "log"}

\* The paths a request changes.
Touches(r, p) == IF r.op \in DirOps THEN IsPrefix(r.path, p) ELSE p = r.path

Agree(d, e, p) ==
  /\ p \in DOMAIN d <=> p \in DOMAIN e
  /\ p \in DOMAIN d => d[p] = e[p]

\* At every path d is what the recorded changes and those in flight make of it.
IsCurrentWithInFlight(d) ==
  \A p \in Path :
    \/ \E t \in InFlight :
         /\ Touches(request[t], p)
         /\ Agree(d, Changed(Current, ChangeOf(request[t])), p)
    \/ /\ \A t \in InFlight : ~Touches(request[t], p)
       /\ Agree(d, Current, p)

\* Nothing a client was told is done is lost with the process.
NoLossOnRestart ==
  [][Restart => IsCurrentWithInFlight(AsOf(0)')]_vars

\* The same while no read has anything undone.
RestartKeepsRecorded ==
  [][Restart /\ undone = <<>> => IsCurrentWithInFlight(AsOf(0)')]_vars

\* What a restart finds, at worst, are the pools, schemes, collections and keys
\* of some moment since the last start.
RestartFindsAMoment ==
  [][Restart =>
       \/ IsCurrentWithInFlight(AsOf(0)')
       \/ \E n \in 0..Changes : Shape(AsOf(0)') = Shape(AsOf(n))]_vars
===============================================================================

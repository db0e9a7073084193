---------------------------- MODULE MCDiskConcurrent ----------------------------
(* Three requests of any kind served at once by a process that may die and be    *)
(* started again; when all have come to an end, one more, a read of the past,    *)
(* goes back over what they did.                                                 *)
EXTENDS MCDiskController, DiskRestart

CONSTANT last  \* the task of the read of the past

ThenReads == ReadsAt(InSmall, {0, 1, 2})
AllAndThenReads == AllRequests \cup ThenReads

Died == \E t \in Task : pc[t] = "lost"

\* Bound: what clients still ask of the process that was started again.
AfterRestart == OnDirs({"remove_scheme"}, InScheme) \cup Updates(InLarge, {second})

AllAnswered ==
  \A t \in Task \ {last} : pc[t] \in {"finished", "lost"} /\ t \notin DOMAIN results

StartInTurn(t) ==
  /\ Start(t)
  /\ IF t = last THEN AllAnswered /\ request'[t] \in ThenReads
     ELSE request'[t] \in IF Died THEN AfterRestart ELSE AllRequests

\* Bound: the process dies once.
DieOnce == ~Died /\ Restart

MCNext ==
  \/ \E t \in Task : StartInTurn(t) \/ TaskStep(t) \/ Get(t)
  \/ Finished
  \/ DieOnce

MCSpec == Init /\ [][MCNext]_vars

SymmetricFirst == Permutations(Task \ {last})
===============================================================================

-------------------------------- MODULE MCService --------------------------------
(* Instances of Service in which few things happen in all: clients that speak,    *)
(* their commands, messages lost, crashes and slow answers of the server, and     *)
(* Enter in the watchdog, which counts for two.                                   *)
EXTENDS Service

CONSTANT MaxEvents  \* bound: how many of them

Speakers == {c \in Client : guid[c] # NoGuid \/ dialog[c] # "prompt"}

Events ==
  Cardinality(Speakers) + sent + losses + troubles + IF mainPc = "enter" THEN 0 ELSE 2

MCSpec == Init /\ [][Next /\ (Events <= MaxEvents)']_vars /\ Fairness
==================================================================================

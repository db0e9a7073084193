----------------------------- MODULE MCTreeHistory -----------------------------
(* TreeHistory on two keys and two values, four changes over three instants.  *)
EXTENDS TreeHistory
===============================================================================

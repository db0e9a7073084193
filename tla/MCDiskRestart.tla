----------------------------- MODULE MCDiskRestart -----------------------------
(* Instances of DiskRestart for TLC, on those of DiskController. *)
EXTENDS MCDiskController, DiskRestart

RestartRequests ==
  OnDirs({"remove_scheme", "add_scheme"}, InScheme)
  \cup OnDirs({"add_collection", "remove_collection"}, InSmall)
  \cup Inserts(InSmall, {first}) \cup Updates(InSmall, {second}) \cup Updates(InLarge, {second})
  \cup Removals(InLarge) \cup ReadsAt(InSmall, {0, 1})
===============================================================================

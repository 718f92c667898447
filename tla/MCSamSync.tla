----------------------------- MODULE MCSamSync -----------------------------
(* Two links, which are paired, unlinked and switched between. *)
EXTENDS SamSync, TLC

LinkSymmetry == Permutations(Links)
LinkCommands == {"pair", "unlink", "switch", "pull"}
============================================================================

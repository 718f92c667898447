------------------------- MODULE MCContactPipeline -------------------------
(* Two touches, symmetric, hits only or hits with debuffs.                  *)
EXTENDS ContactPipeline, TLC

Hits == {"hit"}
HitsAndStatuses == {"hit", "status"}
ContactSymmetry == Permutations(Contacts)
============================================================================

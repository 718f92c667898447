--------------------------- MODULE MCSamRegister ---------------------------
EXTENDS SamRegister

(* One link, on which a recovery is used. *)
Recoveries == {"recovery"}
=============================================================================

---------------------------- MODULE MCPersistence ----------------------------
(* The first start of all, or one with files that hold more than the        *)
(* defaults: two maxima, the default one below the other.                   *)
EXTENDS Persistence

States   == {Absent, [current_hp |-> MaxHp, combat_enabled |-> TRUE]}
Profiles == {Absent} \cup {[maximum_hp |-> MaxHp, source |-> s, enabled |-> TRUE, edits |-> Edits] : s \in Sources}
=============================================================================

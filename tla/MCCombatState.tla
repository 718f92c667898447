--------------------------- MODULE MCCombatState ---------------------------
(* Two hit types (one of them the block-piercing critical), one ticking     *)
(* status Sam.py tracks and one ticking status it does not, on a clock of a *)
(* few instants.                                                            *)
EXTENDS CombatState

MCHitTypes    == {"weak", "critical"}
MCStatuses    == {"burn", "poison"}
MCTracked     == {"burn"}
MCDamage      == [h \in MCHitTypes |-> IF h = "weak" THEN 1 ELSE 2]
MCDuration    == [s \in MCStatuses |-> IF s = "burn" THEN 2 ELSE 3]
MCTickSeconds == [s \in MCStatuses |-> IF s = "burn" THEN 1 ELSE 2]
MCTickDamage  == [s \in MCStatuses |-> 1]
MCMaxima      == {1, 3}
MCHeals       == {1}
MCPercents    == {25}
============================================================================

------------------------- MODULE MCActionTelemetry -------------------------
(* A spell and an item button, one bus of two bits that are alike.        *)
EXTENDS ActionTelemetry, TLC

MCDirectFields == {"spell_cast_type", "item_use_type"}
MCKoFields     == {"spell_cast_type"}
BitSymmetry    == Permutations(Bits)
============================================================================

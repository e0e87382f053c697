--------------------------- MODULE MCSlotHandoff ---------------------------
(***************************************************************************)
(* Model-checking instances of SlotHandoff.                                *)
(***************************************************************************)
EXTENDS SlotHandoff

CONSTANTS a1, a2, b1, b2, ka, kb, s1, s2, s3

KeyOf == [j \in Jobs |-> IF j \in {a1, a2} THEN ka ELSE kb]
OneSlot == [k \in Keys |-> 1]

\* Two producers that also recover and complete, and the maintenance.
Work == [s \in Sessions |-> CASE s = s1 -> {"enqueue", "recover"}
                              [] s = s2 -> {"complete", "enqueue"}
                              [] s = s3 -> {"promote"}]
=============================================================================

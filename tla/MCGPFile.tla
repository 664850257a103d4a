----------------------------- MODULE MCGPFile -----------------------------
(* GPFile with two slots, two payloads of different compressed lengths and *)
(* two non-zero timestamps.                                                *)
EXTENDS GPFile

CONSTANTS d1, d2

MCData == {d1, d2}
MCCompLen == [d \in MCData |-> IF d = d1 THEN 1 ELSE 2]
MCUncompLen == [d \in MCData |-> 3]
NoFailures == {}
AllFailures == {"crash", "partial", "openFail"}
=============================================================================

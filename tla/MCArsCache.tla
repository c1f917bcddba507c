----------------------------- MODULE MCArsCache -----------------------------
(***************************************************************************)
(* Instances of ArsCache for TLC.                                          *)
(***************************************************************************)
EXTENDS ArsCache, TLC

CONSTANTS g1, g2, g3, p1, p2, k1, k2

ThreeCallers == {g1, g2, g3}
TwoProcesses == {p1, p2}
InTwo == [c \in ThreeCallers |-> IF c = g3 THEN p2 ELSE p1]
TwoKeys == {k1, k2}
SecondKey == {k2}
Troubles == {{}, {"factory"}, {"read", "write"}}
=============================================================================

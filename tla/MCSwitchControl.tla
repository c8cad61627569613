--------------------------- MODULE MCSwitchControl ---------------------------
(* Three connections, which are interchangeable, for SwitchControl. *)
EXTENDS SwitchControl, TLC

CONSTANTS c1, c2, c3
ConnSymmetry == Permutations(Conns)
=============================================================================

---------------------------- MODULE MCSourceGate ----------------------------
(* Interchangeable connections for SourceGate. *)
EXTENDS SourceGate, TLC

CONSTANTS c1, c2, c3
ConnSymmetry == Permutations(Conns)
=============================================================================

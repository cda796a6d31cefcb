----------------------------- MODULE MCPositioner -----------------------------
(* Instances of Positioner for TLC.                                        *)
EXTENDS Positioner, TLC

CONSTANTS f1, f2, f3

Symmetry == Permutations(File)
=============================================================================

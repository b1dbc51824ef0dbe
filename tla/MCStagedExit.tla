---------------------------- MODULE MCStagedExit ----------------------------
(* Instances of StagedExit for TLC.                                        *)
EXTENDS StagedExit, TLC

CONSTANTS p1, p2, s1, s2, s3

Symmetry == Permutations(Sells)
=============================================================================

----------------------------- MODULE MCRobinhood -----------------------------
(* Instances of RobinhoodCapital for TLC.                                  *)
EXTENDS RobinhoodCapital, TLC

CONSTANTS v1, v2, v3, other, null

Symmetry == Permutations(Evidences)
=============================================================================

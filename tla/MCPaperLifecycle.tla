-------------------------- MODULE MCPaperLifecycle --------------------------
(* Instances of PaperLifecycle for TLC.                                    *)
EXTENDS PaperLifecycle, TLC

CONSTANTS e1, e2

Symmetry == Permutations(Signatures)
=============================================================================

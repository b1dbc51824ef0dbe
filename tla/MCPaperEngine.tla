---------------------------- MODULE MCPaperEngine ----------------------------
(* Instances of PaperEngine for TLC.                                       *)
EXTENDS PaperEngine, TLC

CONSTANTS t1, t2, e1, e2, nobody

(* A runner of one unit.                                                   *)
MCRunner  == [u \in 0..Full |-> IF u = 0 THEN 0 ELSE 1]
MCChanges == {-1, 1}

Symmetry == Permutations(Tokens) \cup Permutations(Entities)
=============================================================================

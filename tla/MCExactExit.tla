----------------------------- MODULE MCExactExit -----------------------------
(* Instances of ExactExit for TLC.                                         *)
EXTENDS ExactExit, TLC

CONSTANTS e1, e2, worker, o1, o2
=============================================================================

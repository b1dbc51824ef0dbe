---------------------------- MODULE MCSignalIntake ----------------------------
(* Instances of SignalIntake for TLC.                                      *)
EXTENDS SignalIntake, TLC

CONSTANTS t1, e1, e2, e3, nobody, s1, s2, s3, noswap

MCRunner  == [u \in 0..Full |-> IF u = 0 THEN 0 ELSE 1]
MCChanges == {-1}

MCTokenOf    == [s \in Swaps |-> t1]
MCEntityOf   == [s \in Swaps |-> IF s = s1 THEN e1 ELSE IF s = s2 THEN e2 ELSE e3]
MCTierOf     == [s \in Swaps |-> IF s = s2 THEN "A" ELSE "S"]
MCObservedAt == [s \in Swaps |-> IF s = s1 THEN 1 ELSE 2]
=============================================================================

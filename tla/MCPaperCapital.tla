--------------------------- MODULE MCPaperCapital ---------------------------
(* Instances of PaperCapital for TLC.                                      *)
EXTENDS PaperCapitalRefinement, TLC

CONSTANTS r1, r2, a, b, c, residual1, residual2

(* Solana, FOMO and Robinhood v5.2 entries reserve an exact amount against *)
(* the whole portfolio; robinhood_chain_decision uses a smaller capacity;  *)
(* the downsizing form is the default of reserve_paper_capital.            *)
MCCalls ==
  {[requested |-> n, minimum |-> n, capacity |-> Units, downsize |-> FALSE] : n \in 1..2}
  \cup {[requested |-> 2, minimum |-> 2, capacity |-> Units - 1, downsize |-> FALSE],
        [requested |-> 3, minimum |-> 1, capacity |-> Units, downsize |-> TRUE],
        [requested |-> 3, minimum |-> 0, capacity |-> Units - 1, downsize |-> TRUE]}

MCReturns == {-1, 1}

MCSymmetry == Permutations({a, b, c}) \cup Permutations({r1, r2})
              \cup Permutations({residual1, residual2})
LegacySymmetry == Permutations({a, b}) \cup Permutations({r1, r2})
=============================================================================

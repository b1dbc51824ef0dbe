----------------------- MODULE PaperCapitalRefinement -----------------------
(***************************************************************************)
(* The two tables of PaperCapital, read as the single account of           *)
(* PortfolioAccount: the release half of every key is forgotten.           *)
(***************************************************************************)
EXTENDS PaperCapital

OneOf(set) == CHOOSE r \in Releases : r \in set

HeldBy(i) ==
  IF ActiveRows(i) = {} THEN 0
  ELSE reservations[<<OneOf(ActiveRows(i)), i>>].reserved

PositionOf(i) ==
  [state |-> IF ActiveRows(i) # {} THEN "open"
             ELSE IF Rows(i) = {} THEN "unused" ELSE "closed",
   held  |-> HeldBy(i)]

RealisedBy(i) ==
  IF Settled(i) = {} THEN NoSettlement
  ELSE settlements[<<OneOf(Settled(i)), i>>]

Account == INSTANCE PortfolioAccount
             WITH free     <- Units - ActiveTotal,
                  position <- [i \in AllIds |-> PositionOf(i)],
                  realised <- [i \in AllIds |-> RealisedBy(i)]

(* Across every release and restart the ledger is one account: each step   *)
(* of reserve, cancel, settle or a staged exit opens, closes or realises   *)
(* one position of PortfolioAccount, and nothing else moves.               *)
ImplementsAccount == Account!Spec
=============================================================================

----------------------------- MODULE PaperEngine -----------------------------
(***************************************************************************)
(* The durable paper engine: strategy.py decides, portfolio.py (through    *)
(* execution_realism.py) fills, engine.py appends the evidence and         *)
(* durable_engine.py saves a checkpoint and restores it.                   *)
(*                                                                         *)
(* A handler runs without interruption on the event loop, but each event   *)
(* it appends and its checkpoint are transactions of their own: one of     *)
(* them may raise (the handler ends there, the process goes on) and the    *)
(* process may be lost before any of them.  The handler's work in memory   *)
(* is done between its first append and the next one.                      *)
(*                                                                         *)
(* Prices, ages and quotes are free choices, and so is the NAV that sizes  *)
(* an entry: Starter and Full are what the highest NAV allows.  Cash is in *)
(* whole units, so the 1e-6 tolerance of an exact entry is not seen.  A    *)
(* token unit is what one unit of cash buys, so units are also the cost    *)
(* basis without fees.  The portfolio facade and its ledger each have a    *)
(* map of positions: one and the same object until a checkpoint is         *)
(* restored, which replaces the facade's only.  From then on a buy of a    *)
(* token the facade has no position of is put in the ledger's map, where   *)
(* neither exits nor checkpoints see it.                                   *)
(***************************************************************************)
EXTENDS Integers, FiniteSets

CONSTANTS
  Tokens,        \* token mints
  Entities,      \* economic entities behind the wallets
  Nobody,        \* no entity
  Capital,       \* initial_capital_usd
  Starter,       \* the largest notional of a starter
  Full,          \* the largest notional of a full position
  Fees,          \* network_fee_usd of an exact entry
  Runner,        \* units a harvest leaves of a position
  Changes,       \* what a sale returns beyond its cost basis
  MaxRaises,     \* bound: appends or saves that raise
  MaxLosses      \* bound: losses of the process

ASSUME EngineAssumption ==
  /\ IsFiniteSet(Tokens)
  /\ Nobody \notin Entities
  /\ Capital \in Nat
  /\ Full \in Nat
  /\ Starter \in 0..Full
  /\ Fees \subseteq Nat
  /\ Runner \in [0..Full -> Nat]
  /\ Runner[0] = 0
  /\ \A u \in 1..Full : Runner[u] \in 1..u
  /\ Changes \subseteq Int
  /\ MaxRaises \in Nat
  /\ MaxLosses \in Nat

VARIABLES
  cash,          \* ledger.cash_usd
  positions,     \* PaperPortfolio.positions
  book,          \* CanonicalPaperCapitalLedger.positions
  shared,        \* the two maps are one object
  bought,        \* history: the notional ever bought of a token
  candidates,    \* strategy.candidates
  handler,       \* what the handler running has still to write
  checkpoint,    \* paper_engine_checkpoint
  covered,       \* no engine event is newer than the checkpoint
  process,       \* "running", "lost", or "blocked": the restore raised
  raises, losses

portfolio == <<cash, positions, book, shared, bought>>
durable   == <<checkpoint, covered>>
vars == <<portfolio, candidates, handler, durable, process, raises, losses>>

Statuses == {"waiting", "confirmed", "rejected", "expired", "closed"}

Candidate   == [status : Statuses \cup {"none"}, tier : {"S", "A"}, scout : Entities \cup {Nobody},
                harvested : BOOLEAN]
NoCandidate == [status |-> "none", tier |-> "A", scout |-> Nobody, harvested |-> FALSE]

(* closed is closed_at: set once, with the outcome appended to closed.     *)
Position   == [exists : BOOLEAN, units : Nat, closed : BOOLEAN]
NoPosition == [exists |-> FALSE, units |-> 0, closed |-> FALSE]

Positions  == [Tokens -> Position]
IsOpen(p)  == p.units > 0 /\ ~ p.closed

Idle == [pc |-> "idle", outcome |-> FALSE]

(* What a checkpoint has of the memory, and its row.                       *)
Memory == [stored |-> TRUE, cash |-> cash, positions |-> positions, candidates |-> candidates]
Genesis(stored) ==
  [stored |-> stored, cash |-> Capital, positions |-> [t \in Tokens |-> NoPosition],
   candidates |-> [t \in Tokens |-> NoCandidate]]

Ready == process = "running" /\ handler = Idle

-----------------------------------------------------------------------------
(* Memory after a position object of the facade is changed: the ledger     *)
(* sees the change only if its map is the same one.                        *)
SetPosition(t, p) ==
  /\ positions' = [positions EXCEPT ![t] = p]
  /\ book' = IF shared THEN [book EXCEPT ![t] = p] ELSE book
  /\ shared' = shared

(* register_position puts a new object in the ledger's map.                *)
Register(t, p) ==
  /\ book' = [book EXCEPT ![t] = p]
  /\ positions' = IF shared THEN [positions EXCEPT ![t] = p] ELSE positions
  /\ shared' = shared

Bought(p, n) == [exists |-> TRUE, units |-> p.units + n, closed |-> p.closed]

(* Mutant: the notional is not bounded by the cash.                        *)
NotionalUnbounded(size) == size

Notional(size) == IF size <= cash THEN size ELSE cash

(* A fill for n that costs n + fee.                                        *)
Fill(t, n, fee) ==
  /\ cash' = cash - n - fee
  /\ bought' = [bought EXCEPT ![t] = bought[t] + n]
  /\ IF positions[t].exists THEN SetPosition(t, Bought(positions[t], n))
     ELSE Register(t, Bought(NoPosition, n))

(* apply of an entry intent: a theoretical fill with the cash there is, an *)
(* exact one for all that is intended and its fee, or a refusal when what  *)
(* was simulated is not what can be bought now.                            *)
Buy(t, size) ==
  \/ \E intended \in 0..size : Fill(t, Notional(intended), 0)
  \/ \E intended \in 1..size, fee \in Fees :
       intended + fee <= cash /\ Fill(t, intended, fee)
  \/ UNCHANGED portfolio

(* _sell and, when everything is sold, _close_outcome.                     *)
Sold(p, n, last) ==
  [exists |-> p.exists, units |-> p.units - n, closed |-> last]

Proceeds(n) == IF n = 0 THEN {0} ELSE {n + change : change \in Changes} \cap Nat

Sell(t, n, last) ==
  /\ \E proceeds \in Proceeds(n) : cash' = cash + proceeds
  /\ SetPosition(t, Sold(positions[t], n, last))
  /\ bought' = bought

(* apply of an exit intent, which finds no position or a closed one too.   *)
SellAll(t) ==
  IF IsOpen(positions[t]) THEN Sell(t, positions[t].units, TRUE) ELSE UNCHANGED portfolio

Harvest(t) ==
  IF IsOpen(positions[t])
  THEN Sell(t, positions[t].units - Runner[positions[t].units], FALSE)
  ELSE UNCHANGED portfolio

(* The first append of a handler has committed; what follows is written    *)
(* next: an intent if there is one, then an outcome if one was closed, and *)
(* the checkpoint.                                                         *)
Writes(intent, outcome) ==
  /\ covered' = FALSE
  /\ handler' = [pc |-> IF intent THEN "intent" ELSE "save", outcome |-> outcome]
  /\ UNCHANGED <<checkpoint, process, raises, losses>>

-----------------------------------------------------------------------------
(* strategy.first_touch.                                                   *)
Touched(entity, tier, clean) ==
  [status |-> IF clean THEN "waiting" ELSE "rejected", tier |-> tier, scout |-> entity,
   harvested |-> FALSE]

(* on_first_touch: an S-tier scout's clean touch opens a starter.          *)
FirstTouch(t, entity, tier, clean) ==
  LET new    == candidates[t].status = "none"
      opens  == new /\ clean /\ tier = "S"
  IN  /\ Ready
      /\ candidates' = IF new THEN [candidates EXCEPT ![t] = Touched(entity, tier, clean)]
                       ELSE candidates
      /\ IF opens THEN Buy(t, Starter) ELSE UNCHANGED portfolio
      /\ Writes(opens, FALSE)

(* Mutant: a candidate is confirmed whatever its status.                   *)
ConfirmableAlways(t, entity, clean) ==
  candidates[t].status # "none" /\ entity # candidates[t].scout /\ clean

(* strategy.confirm's early returns; timely is the window and the chase.   *)
Confirmable(t, entity, clean) ==
  candidates[t].status = "waiting" /\ entity # candidates[t].scout /\ clean

(* on_confirmation: the rest of an S-tier position, or all of an A-tier.   *)
Confirm(t, entity, clean, timely) ==
  LET confirms == Confirmable(t, entity, clean) /\ timely
  IN  /\ Ready
      /\ candidates' = IF confirms THEN [candidates EXCEPT ![t].status = "confirmed"]
                       ELSE candidates
      /\ IF confirms THEN Buy(t, IF candidates[t].tier = "S" THEN Full - Starter ELSE Full)
         ELSE UNCHANGED portfolio
      /\ Writes(confirms, FALSE)

(* on_price for a token on whose candidate on_clock decides nothing.       *)
PriceMarks(t) ==
  /\ Ready
  /\ UNCHANGED <<portfolio, candidates>>
  /\ Writes(FALSE, FALSE)

(* Mutant: an expired starter is left to the next price.                   *)
PriceExpiresOnly(t) ==
  /\ Ready
  /\ candidates[t].status = "waiting"
  /\ candidates' = [candidates EXCEPT ![t].status = "expired"]
  /\ UNCHANGED portfolio
  /\ Writes(FALSE, FALSE)

(* The confirmation window is over: EXIT_STARTER for an S-tier candidate.  *)
PriceExpires(t) ==
  LET exits == candidates[t].tier = "S"
  IN  /\ Ready
      /\ candidates[t].status = "waiting"
      /\ candidates' = [candidates EXCEPT ![t].status = "expired"]
      /\ IF exits THEN SellAll(t) ELSE UNCHANGED portfolio
      /\ Writes(exits, exits /\ IsOpen(positions[t]))

PriceHarvests(t) ==
  /\ Ready
  /\ candidates[t].status = "confirmed" /\ ~ candidates[t].harvested
  /\ candidates' = [candidates EXCEPT ![t].harvested = TRUE]
  /\ Harvest(t)
  /\ Writes(TRUE, FALSE)

(* Stop, stagnation, timeout, or a harvested runner's trailing stop.       *)
PriceCloses(t) ==
  /\ Ready
  /\ candidates[t].status = "confirmed"
  /\ candidates' = [candidates EXCEPT ![t].status = "closed"]
  /\ SellAll(t)
  /\ Writes(TRUE, IsOpen(positions[t]))

-----------------------------------------------------------------------------
AppendIntent ==
  /\ process = "running" /\ handler.pc = "intent"
  /\ covered' = FALSE
  /\ handler' = [handler EXCEPT !.pc = IF handler.outcome THEN "outcome" ELSE "save"]
  /\ UNCHANGED <<portfolio, candidates, checkpoint, process, raises, losses>>

AppendOutcome ==
  /\ process = "running" /\ handler.pc = "outcome"
  /\ covered' = FALSE
  /\ handler' = [handler EXCEPT !.pc = "save"]
  /\ UNCHANGED <<portfolio, candidates, checkpoint, process, raises, losses>>

(* _state_dict, which walks the facade's positions.                        *)
Saved == Memory

(* _save_checkpoint at the end of the handler.                             *)
SaveCheckpoint ==
  /\ process = "running" /\ handler.pc = "save"
  /\ checkpoint' = Saved
  /\ covered' = TRUE
  /\ handler' = Idle
  /\ UNCHANGED <<portfolio, candidates, process, raises, losses>>

(* The handler's next transaction raises; memory stays as it is.           *)
Raise ==
  /\ process = "running" /\ handler # Idle
  /\ raises < MaxRaises
  /\ raises' = raises + 1
  /\ handler' = Idle
  /\ UNCHANGED <<portfolio, candidates, durable, process, losses>>

(* _purge_engine_candidates: candidates and marks of tokens whose twenty   *)
(* seconds are over and that the facade has no position of; then, when one *)
(* was there, the checkpoint, which may raise.                             *)
Purgeable(t) == ~ positions[t].exists

Purge(t) ==
  /\ Ready
  /\ Purgeable(t)
  /\ candidates' = [candidates EXCEPT ![t] = NoCandidate]
  /\ \/ /\ checkpoint' = [Saved EXCEPT !.candidates = candidates']
        /\ covered' = TRUE
        /\ raises' = raises
     \/ /\ raises < MaxRaises
        /\ raises' = raises + 1
        /\ UNCHANGED durable
  /\ UNCHANGED <<portfolio, handler, process, losses>>

(* The memory is gone; the variables keep what it was until a restart.     *)
Lose ==
  /\ process = "running"
  /\ losses < MaxLosses
  /\ losses' = losses + 1
  /\ process' = "lost"
  /\ handler' = Idle
  /\ UNCHANGED <<portfolio, candidates, durable, raises>>

(* Mutant: events newer than the checkpoint do not stop the restore.       *)
RestorableAlways == TRUE

Restorable == covered

(* The constructor and _restore_or_fail_closed.  A row gives the facade    *)
(* maps of its own; without a row the genesis objects stay shared.         *)
Start ==
  /\ process = "lost"
  /\ IF Restorable
     THEN /\ process' = "running"
          /\ cash' = checkpoint.cash
          /\ positions' = checkpoint.positions
          /\ candidates' = checkpoint.candidates
          /\ book' = [t \in Tokens |-> NoPosition]
          /\ shared' = ~ checkpoint.stored
          /\ bought' = bought
     ELSE /\ process' = "blocked"
          /\ UNCHANGED <<portfolio, candidates>>
  /\ UNCHANGED <<handler, durable, raises, losses>>

(* The first start of a database; _materialize_verified_genesis_checkpoint *)
(* may store the row before anything happens.                              *)
Init ==
  /\ cash = Capital
  /\ positions = [t \in Tokens |-> NoPosition]
  /\ book = positions
  /\ shared = TRUE
  /\ bought = [t \in Tokens |-> 0]
  /\ candidates = [t \in Tokens |-> NoCandidate]
  /\ handler = Idle
  /\ checkpoint \in {Genesis(FALSE), Genesis(TRUE)}
  /\ covered = TRUE
  /\ process = "running"
  /\ raises = 0
  /\ losses = 0

Price(t) == PriceMarks(t) \/ PriceExpires(t) \/ PriceHarvests(t) \/ PriceCloses(t)

Write == AppendIntent \/ AppendOutcome \/ SaveCheckpoint

Next ==
  \/ \E t \in Tokens, entity \in Entities, tier \in {"S", "A"}, clean \in BOOLEAN :
       FirstTouch(t, entity, tier, clean)
  \/ \E t \in Tokens, entity \in Entities, clean, timely \in BOOLEAN :
       Confirm(t, entity, clean, timely)
  \/ \E t \in Tokens : Price(t)
  \/ Write
  \/ Raise
  \/ \E t \in Tokens : Purge(t)
  \/ Lose
  \/ Start

Spec == Init /\ [][Next]_vars

-----------------------------------------------------------------------------
(* Type invariant: cash is never overdrawn, and every map is well formed.  *)
TypeOK ==
  /\ cash \in Nat
  /\ positions \in Positions /\ book \in Positions /\ shared \in BOOLEAN
  /\ bought \in [Tokens -> Nat]
  /\ candidates \in [Tokens -> Candidate]
  /\ handler \in [pc : {"idle", "intent", "outcome", "save"}, outcome : BOOLEAN]
  /\ checkpoint \in [stored : BOOLEAN, cash : Nat, positions : Positions,
                     candidates : [Tokens -> Candidate]]
  /\ covered \in BOOLEAN
  /\ process \in {"running", "lost", "blocked"}
  /\ raises \in 0..MaxRaises /\ losses \in 0..MaxLosses

(* An open position always has a candidate that can still exit it: no      *)
(* refused or empty fill, handler that raised half way, purge or restart   *)
(* leaves a position whose candidate is gone or was given up, which        *)
(* nothing would ever sell.  It is so for what the facade can see.         *)
OpenPositionsAreWatched ==
  \A t \in Tokens : IsOpen(positions[t]) => candidates[t].status \in {"waiting", "confirmed"}

(* What was ever bought of a token, fees apart and in all runs together,   *)
(* stays within a full position: a repeated touch, two racing              *)
(* confirmations, a purge or a restart between starter and add buy no more.*)
(* It is so for every token before the first restore and ever after for    *)
(* those the facade has a position of; another token is then bought again  *)
(* after every purge, since its positions are in the ledger's map only.    *)
BoughtWithinFull ==
  \A t \in Tokens : shared \/ positions[t].exists => bought[t] <= Full

(* A restart goes on with exactly the cash, the positions and the          *)
(* candidates of positions that the lost process had, or not at all:       *)
(* "startup fails closed rather than guessing or silently resetting".      *)
RestartIsExactOrBlocked ==
  [][(process = "lost" /\ process' = "running") =>
       /\ cash' = cash /\ positions' = positions
       /\ \A t \in Tokens : positions[t].exists => candidates'[t] = candidates[t]]_vars

(* "It only restores the exact in-memory paper state": a restart does not  *)
(* change the open positions the NAV is computed from.                     *)
RestartKeepsNav ==
  [][(process = "lost" /\ process' = "running") =>
       \A t \in Tokens : IsOpen(book[t]) => book'[t] = book[t]]_vars
=============================================================================

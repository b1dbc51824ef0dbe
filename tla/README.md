# A verification project for ROI Convergence

ROI Convergence is a paper-only trading research engine. It watches several venues, decides
on paper entries, gives each accepted entry a fraction of the paper portfolio of its ledger, exits
the position against an exact sell quote and an unsigned simulation, and learns from the
measured return. Nothing it does moves money; what it must get right is its *evidence*: that
a portfolio is shared honestly between the lanes, releases and restarts that use its ledger, and
that every position that should have been exited is measured once, from an attempt that really
happened.

This directory holds TLA+ modules translated from the code, TLC configurations that check
them on small instances, and proofs checked by TLAPS. Paths below are relative to
`src/src/solana_roi/` unless they say otherwise.

## 1. The system

One Python process runs. Its main asyncio event loop works on the canonical SQLite store; HTTP
status requests run in threads beside it. In the deployed configuration the Robinhood worker is an
OS thread with an event loop and a SQLite file of its own
(`robinhood_worker_isolation_repair.py:53-66`, `464-466`), so its reservations are made in a
ledger of its own and share no portfolio with the Solana lanes. On its loop two tasks act on
positions: the one that enters, and the settlement scheduler
(`robinhood_event_driven_settlement.py:168-175`). The process is stopped and replaced at every
deploy, and the databases outlive it. Functionality is layered: a module wraps a method of an earlier module
at import, and the order of installation (`v51_production_authority.py`,
`v52_production_authority.py`) decides what a call finally does. The models take that final
composition; for a sell it is

    _final_sell (v52_market_validation_completion)
      -> _completed_solana_sell (v52_profit_confidence_completion)   staged exits
        -> ... -> _sell_with_v5 (risk_conditioned_alpha_v5)
          -> _sell_exact (v51_exact_exit_execution)                  durable exact exits

and for a buy `_completed_solana_buy`, which wraps `_buy_with_v5` and awaits a further quote
after it. When an observation has been handled, the FOMO trial of the same signature is
recorded, and then suppressed beside a SOLANA entry, in two transactions without an await between
them. Reservations and settlements are synchronised by a loop of their own, every second.

| Component | State it keeps | Operations | Talks to |
|---|---|---|---|
| Atomic paper capital (`v51_atomic_paper_capital.py`) | reservations, settlements | reserve, cancel, settle, reconcile | every lane calls it, each call a `BEGIN IMMEDIATE` transaction |
| Durable exact exits (`v51_exact_exit_execution.py`, `v51_exit_due_recovery.py`, the attempt in `v51_paper_lifecycle_runtime.py`) | liquidation rows, attempt records, outcomes and their execution model | open, attempt, retry, settle each lane | awaits quote and simulation; feeds outcomes |
| Staged exits (`v52_profit_confidence_completion.py`) | position lifecycle, fills, three outcome tables | choose a slice, fill, finalise | awaits a route; writes the outcome capital is settled with |
| Paper lifecycle runtime (`v51_paper_lifecycle_runtime.py`, `v52_canonical_portfolio_restart_repair.py`, `v52_cross_lane_paper_certification_repair.py`) | trials, lifecycle events | decide, fund, demote, settle | a one-second loop between trials, outcomes and capital |
| Robinhood shared capital (`v52_robinhood_shared_capital_repair.py`, `v52_robinhood_canonical_capital_bridge.py`) | capital lineage of lots | reserve, link, recover, cancel, realise a slice | the ledger tables of the worker's file |
| Robinhood position lifecycle (`v52_robinhood_position_lifecycle.py`, `robinhood_event_driven_settlement.py`, `robinhood_chain_*.py`) | lots, positions, pending evidence | start, scale, re-enter, de-risk, run, close | Robinhood shared capital, wrapped around every entry and exit; entries and exits are two tasks |
| Webhook intake and ingestion (`webhook_queue.py`, `webhook_ingress.py`, `collecting_ingestion.py`) | inbox rows, recorded swaps, the first-touch claim of each token | enqueue, take, complete, retry; record, claim, assess, quote | one worker and the direct plane in front of the engine |
| Activation gate (`activation.py`) | decisions | authorise or refuse an entry | asked by the ingestion, reads the engine's portfolio |
| Durable paper engine (`engine.py`, `strategy.py`, `portfolio.py`, `execution_realism.py`, `durable_engine.py`, `ephemeral_candidate_retention.py`) | candidates, positions, cash; the appended events and a checkpoint | first touch, confirmation, price, purge, save, restore | called by the ingestion, the price clock (`observation.py`) and the reaper |
| Candidate ledger and pipeline (`v51_candidate_ledger.py`, `v51_candidate_pipeline.py`) | stages of a candidate | append stage, classify | ingestion, decision |
| Certification replication (`certification_*.py`) | generations, chunks, cursors | bootstrap, incremental page, acknowledge | a second service |
| Realtime tracking and continuity | stream and poll frontiers, gap clocks | advance, detect loss, recover | providers |
| Wallet discovery, economic certification, learning governance, dashboards | derived statistics | recompute, read | read the evidence |

What is hard in this code: every `await` between reading a row and writing it lets another
task of the same loop, or a status thread, change what was read; one logical step is several
SQLite transactions, and the process may be lost between any two; every pass is repeated
each second and after every deploy, so every write must bear repetition, under another
release commit too. `PROJECT.json` lists the hazards at their lines.

What makes each part correct: the portfolio is never over-committed and no replay creates
capital (capital); a due exit closes, is measured once and cites an attempt that happened
(exact exits); amounts, stages and outcomes of a position agree with its fills (staged
exits); an opportunity is entered once unless its buy was cut short, a refused entry holds nothing, a
measured one gives its capital back (lifecycle); an open Robinhood lot has a reservation of its own for
what it holds, one piece of evidence buys once, and the row of a position agrees with its lots unless
an exit has written over a scale (Robinhood); nothing is bought but what the claim and
the gate allow, an open position is always watched, and a restart is exact or refused (intake
and engine).

## 2. The modules

| Module | Models |
|---|---|
| `PaperCapital` | the reservation ledger and the staged-slice transaction of the Robinhood bridge on it |
| `PortfolioAccount` | what the ledger promises: one account with a free amount and positions that open, close and are realised once |
| `PaperCapitalRefinement` | the mapping from the first to the second: the release half of every key is forgotten |
| `PaperCapitalProofs` | proofs about `PaperCapital` |
| `PaperCapitalRefinementProofs` | the proof of that refinement |
| `ExactExit` | liquidation rows, attempts, retry pass, outcomes, the status request's mirror |
| `StagedExit` | overlapping sells over the open positions of one token |
| `PaperLifecycle` | buys, the loop's funding and settlement, restarts and deploys, over an instance of `PaperCapital` |
| `RobinhoodCapital` | the position of one Robinhood token, its lots and their lineage, over an instance of `PaperCapital` |
| `PaperEngine` | strategy, fills, appended events, checkpoint, purge, raises, losses and restores of the durable engine |
| `SignalIntake` | queue, worker, direct plane, ingestion, claim and gate; extends `PaperEngine` and drives its actions |
| `ExactExitProofs`, `StagedExitProofs`, `PaperLifecycleProofs`, `RobinhoodProofs`, `PaperEngineProofs`, `SignalIntakeProofs` | proofs about those; `PaperLifecycleProofs` and `RobinhoodProofs` carry the theorems of `PaperCapitalProofs` over to their instance of the ledger, `SignalIntakeProofs` those of `PaperEngineProofs` |
| `MC*` | instances for TLC: constants, symmetry |

**PaperCapital.** `reservations` and `settlements` are the two tables, keyed by (release, id)
as their unique indexes are. Each operation is one action since each is one
`BEGIN IMMEDIATE` transaction. A branch that raises after a rollback, or writes only a metric
row, is a stuttering step. Fractions are whole units of the portfolio, so the code's
tolerances of 1e-12 disappear; the SUM over active rows is the cardinality of the set of
units they hold. `LegacyInit` is a table as releases before the canonical portfolio left it.

**ExactExit.** A task is an asyncio task: `running` holds the one that has the loop, and
`Await` gives it up. `SellSignal`, `StartFinal`, `StartFomo` are `_sell_exact` cut at its awaits;
`RetryPass` is `_retry_due_with_exit_due`; `Answer`, `UpdateRow` and `SettleLane` are what
`_attempt_liquidation` does after its await, one action per commit; `StatusRead` may fall
between any two, because it runs in a thread. `due` abstracts the clock: the rows whose
`next_retry_at` has come or which are five seconds old. The balance-artifact commit, the
mirror into the v5 outcomes and the batch limit of 32 rows are left out; missing
credentials, which answer without an await, are an `Answer` that is not executable.

**StagedExit.** A sell is a task. `Consider` reads the position and chooses the slice,
`RouteUnavailable` or `Fill` follow the await, `FinaliseFinal`, `FinaliseLead` and
`FinaliseV5` are the three transactions of `_finalize_profit_outcomes`. Units stand for the
SOL an exit returned, and what the fills of a position sold is counted as a set of units. The exit
lane of a position and the fractions of its profile are fixed; rotation updates, signal events and
learning governance are left out.

**PaperLifecycle.** `BaseBuy` is the recording of a SOLANA trial, `FinishBuy` what
`_completed_solana_buy` decides after its await. Without another await, but each a transaction of its
own, `RecordFomo` commits the FOMO row and `CheckFomo` suppresses it beside a SOLANA entry or after a
terminal rejection; `CutBuy` is an exception in one of them (an append, for instance), which
`_observe_with_fomo_paper` swallows, and a loss of the process may come between them too.
`SyncEntry` and `Demote` are the two transactions of `_sync_solana_entry` and
`_sync_fomo_entry`; `SettleOne` is one reservation of `sync_settlements_across_releases`. A pass
visits positions one at a time, in any order. `Measure` stands for an exit engine: which
positions it selects is modelled, how it measures them is `ExactExit` and `StagedExit`.
`Lose` ends buys in progress, since a signature once scheduled is not scheduled again. The
lifecycle events, an audit trail nothing reads back, are left out. FOMO trials opened by
the independent market flow have signatures of their own, so they never meet a SOLANA trial; in
the model they are buys whose SOLANA trial is observed only.

**RobinhoodCapital.** `entry` is what the entry task is at, `exit` what the settlement task is at, and
each may act in the awaits of the other. An entry is cut at its transactions: `AskCapital` (reserve, or
replay what the ledger has for the evidence, and the test of the target), `DropEntry` (refused or
raised after the await: the reservation is cancelled) or `CommitLot` (which adds to whatever the open
position has become), then `FinishEntry` (the link). `Recover` is the link made up for when the
evidence is seen again. `StartExit` copies the position when its first open lot is a trial of the
running release; after the quotes `ExitAll`, `Derisk` or `EnterRunner` read the lots again, cut them and
write the position from the copy (`AfterExit`), in one transaction, and one `SyncLot` per lot follows
over the ledger; `KeepRunner` and `DropExit` are the other ends. `overtaken` is a history variable: an
exit has written over a scale it had not seen. Another user of the file's ledger may act between any
two (with a file of its own those are other tokens' lots; without, other lanes), and a loss of the
process, to the same release or the next, drops what both tasks were at. Shares are rounded down as
the code does. A composition without a production provider settles inside the entry task's loop
and is left out.
Evidence is a model value: its discovery, its scoring and the waiting for it to be complete
are not in the model, nor is the return of an exit.

**PaperEngine.** A handler runs without interruption on the event loop, but each append and the
checkpoint are transactions of their own: the memory's change comes with the first append
(`FirstTouch`, `Confirm`, the four `Price...` actions), `AppendIntent`, `AppendOutcome` and `SaveCheckpoint`
follow, `Raise` ends the handler before any of them and `Lose` the process. `covered` is what the restore
asks the event table: is anything newer than the checkpoint? `positions` is the facade's map and
`book` the ledger's, one object until a restore replaces the first only; `bought` is what was ever
bought of a token, in all runs. An exact fill costs its notional and a network fee, a theoretical one
its notional. Starter and full size are what the highest NAV allows, and any smaller size may be
filled; cash is in whole units, so the tolerance of 1e-6 of an exact entry is not seen. Prices, ages,
risk and quotes are free choices. The reports of the engine and the tables others keep in the event
store are left out.

**SignalIntake.** A swap's ingestion is cut at its awaits: `Record` (from the queue by `TakeRow` or directly
by `Hydrate`), `Claim`, `RegisterTouch` / `AskQuote` / `Assessed`, `Authorize` / `Refuse`, and `Promote`,
the engine call that follows the gate's decision without an await (`Free` keeps everyone else out).
`HandlerWrites`, `HandlerReturns` and `HandlerRaises` are the engine's transactions, as the calling task
sees them; `ClockPrices` and `Reap` the other two callers. `Fail` is an await that raises or is cancelled.
`RejectRow` is an ingestion that raises before anything is recorded: each time for a `Malformed` payload, at
most `MaxFailures` times for another. `MarkComplete` and `MarkRetry` are the worker's own writes, an update
and then an append; nothing catches what they raise, so they may end the worker's task (`alive`) for as long
as the process lives. Every swap is a buy of an eligible wallet and the cohort is armed; other swaps are
recorded and go no further in the code.

## 3. What is checked

| Run | Instance | Shows |
|---|---|---|
| `capital` | 3 ids, 2 residuals, 2 releases, 4 units, five call shapes | conservation, one row per id, settlements match and free exactly what they account for, history is immutable, the ledger implements `PortfolioAccount` |
| `capital_legacy` | 2 ids with rows in 2 releases, over-committed | grants stay within the portfolio, duplicates fail closed |
| `exact_exit` | 1 entry, 2 lanes, 2 attempts, a sell task and the loop, 1 crash, fair | counted attempts have records, a total loss comes only after the whole window, the first measurement stands and cites a record; an exit that became due closes, and is measured if no crash intervenes |
| `staged_exit` | 2 positions of 8 units, 3 sells, 1 crash | remaining amounts equal what fills left, stages never regress, the three outcome tables agree, a spent position is measured if no crash intervenes |
| `staged_exit_oversold` | 1 position, 2 sells | violation, section 5 |
| `lifecycle` | 2 signatures, 4 units, SOLANA size 3, FOMO size 2, 2 releases, 1 restart or cut buy, fair; 195,370 states | one entry per opportunity unless its buy was cut, refused entries hold nothing; measured capital returns, entries end funded or dropped |
| `lifecycle_twice` | 1 signature, no restart | violation, section 5 |
| `robinhood` | 3 pieces of evidence, another user of the ledger with 1 id, 4 units, target 3, 3 lots, 2 releases, 1 loss, entry and settlement task; 598,372 states | open lots are backed, evidence enters once, the row of the position never says more than its lots and is their sum unless an exit wrote over a scale, no more is realised than was sold, reserved capital follows exposure |
| `engine` | 2 tokens, 2 entities, 3 units of cash, starter 1, full 2, fee 1, 1 raise, 2 losses; 6.2 million states | purchases of a token stay within a full position as far as the facade sees it, open positions are watched, a restart is exact or refused |
| `engine_restart` | 5 units of cash, full 3, no raise, 1 loss | violation, section 5 |
| `intake` | 2 swaps of one token (S tier and A tier), the payload of the second malformed, 2 failures, 1 raise, 1 loss, fair; 247,961 states | the candidate is the claim, entries were authorised, no silent restart, the queue drains unless it is held or its worker has ended |
| `intake_retry` | no malformed payload, 1 failure, no raise, no loss | violation, section 5 |

**Why the bounds are enough.** Four units and requests of one to three make every outcome of a
reservation occur: granted, downsized, rejected for the capacity of the call and for what
others hold. Two releases are the smallest number in which replay can miss a row, and two
residual ids let a lot be cut twice. Two attempts have a first that can be retried and a last
that cannot; one sell task beside the loop gives every overlap of two attempts, which
is all the row can tell apart, since a third late answer overwrites as the second
did. Eight units with slices of two, four and a runner of one go through every stage, and
three sells give a pair of overlapping fills with a third before, between or after them.
One crash falls between every two commits, and the sells and passes after it meet every
state it can leave. In `lifecycle` two signatures compete for four units with sizes of three and two, so
that funding one refuses the other while two FOMO entries fit; one fault is a restart or a cut buy, and the
deploy is a second loss. Three pieces of evidence are a start, a scale and a re-entry;
a target of three is cut to three lots of one, or one lot of three that is de-risked twice and then
runs; a scale falls into an exit's awaits and an exit into an entry's; the other user's two units refuse a
third and fourth. Three units of cash are a full position with its fee or without, and not two, so the
bounded notional, an empty fill and a refused exact fill occur; two losses let a restored engine be
lost again. Two swaps of one token are a claim and its confirmation, in
either order of arrival and of the chain, each by the queue, the direct plane or both; one payload
that is never parsed holds the other row or waits behind it, and two failures let an await and a write of
the worker fail in one behaviour. Most of this
does not depend on the bounds at all: section 4 lists what is proved for every instance. Deadlock is not
checked: each model ends when its bounded inputs are used up. Symmetry is used in runs
without liveness only.

**Fairness.** `ExactExit!Fairness`: the event loop runs ready tasks and every request has a
timeout, so a task that can step infinitely often does (strong fairness, because another
task may hold the loop in between); the loop's retry pass is repeated for as long as the
process runs; time passes. No sell signal and no executable answer is owed: a due exit
closes even if every attempt fails. `PaperLifecycle!LoopFairness`: the loop ticks every second
and each tick visits every candidate and every measured reservation (weak fairness per
position; the batch limits of 512 and 4096 rows exceed what is ever open). No exit is owed.
`SignalIntake!LiveSpec`: a task that is ready gets its turn whenever the loop is free (strong fairness,
as handlers and other tasks have the loop in between), its awaits have deadlines, the worker polls for as
long as its task lives, a handler runs to its end and the platform starts a lost process (weak fairness).
Nothing starts an ended worker in a process that runs (`api.py:103-105` creates its task once), so nothing
is promised of the queue then. Neither a delivery, nor the price clock, nor a favourable answer is owed: a
swap that is recorded may always be declined.

## 4. What is proved

TLAPS checks the `*Proofs` modules from the named assumptions on the constants alone: finite sets
of releases, ids, signatures, entries, positions, evidence, swaps and tokens, portfolios and sizes of any
number of units, calls of any admissible shape, any number of attempts, sells, failures, raises,
restarts and losses. Type correctness is proved of every state machine that a run checks but
`PortfolioAccount`.

*Capital.* The inductive invariant is `TypeOK`, `CapitalConserved`, `OneRowPerReservation`,
`SettlementMatchesReservation` and one strengthening: an active row holds at least a unit,
without which a settlement could free nothing and look like none. The argument
rests on `TotalAfterWrite`: replacing one row changes the total by the difference of what the
two rows hold (by cardinalities of disjoint slices of the set of held units), and on `GrantFits`:
a grant fits into what the caller's capacity leaves. `LegacyGrantsBounded` and
`LegacyDuplicatesStand` need only the type invariant, so they hold from any legacy table.
`LedgerImplementsAccount` is the refinement: because an id has one row, that row and its settlement
say what the position of the account is, and each operation moves one position or none.

*Lifecycle.* `EnteredOnce` needs to know that the FOMO trial is absent until the buy
is decided (`FomoComesLast`) and that no sync demotes while a buy runs on to its check (`OneTaskRuns`):
only then does the check see the SOLANA trial as it will stay. It says no more than the code gives:
between the commit of the FOMO row and the check, and after an exception or a loss in between, both
lanes are entered.
`RefusedHoldNone` needs that whoever is about to be demoted is an entry whose rows are absent
or rejected in every release (`RefusingAreUnfundedEntries`), which in turn needs that nothing is ever
cancelled. `LifecycleKeepsLedger` maps every step
of the composition to a ledger operation or a stutter, and `SharedPortfolioConserved` then carries
the capital proof over by instantiating `PaperCapitalProofs`; `LifecycleImplementsAccount` does the same
with the refinement, so buys, loop, restarts and deploys are together one `PortfolioAccount`.
`ActiveCapitalCanSettle` follows from the ledger's invariant: an active row is the only row of its id and has
no settlement, so the settlement is never refused.

*Exact exits.* A task carries rows it read before an await, so the invariant has to say what
stays true of them: the attempts such a row counted are on record (`RecordedJob`), and, since
records are only added, they are still on record when the answer comes, however many tasks were at
the same row (`SoundTasks`). `OpenRowsHaveAttempts` keeps the count below the window's end for rows
that can be attempted again.

*Staged exits.* What a sell chose goes stale while it awaits its route. `QueuesAreUnsold` says that
a sell has sold nothing of the positions it has yet to book, so a fill is counted once;
`Carries` what a sell past its await knows of its position; `CountedAreComplete` that a position whose
settlement outcome is written has the two others too, or a running sell that is writing them, or was cut
by a loss; `SpentAreBeingMeasured` that a spent position is measured or a running sell is at it.

*Robinhood.* Both tasks may be under way at once, so the invariant speaks of each beside the other.
`OpenLotsStayBacked` needs the whole lineage: the capital asked for stays there while the
base validation is awaited, whatever an exit does meanwhile, and no lot has used it (`QuotesAreFunded`),
every lot's reservations are its own (`LineagesAreOwn`), every slice takes something off, so residual ids
do not run out (`AccountsAreBounded`), evidence is used once (`EvidenceIsUsedOnce`), and generations are
counted by lots (`GenerationsHaveLots`). `TypeCorrect` bounds the row of a position by its target
although it is tested before the awaits: what a scale saw is still all there is, since an exit only takes
away (`ScalesFit`, `SeenIsOpen`). It bounds the row, not the exposure: lots an exit has
lost from the row come on top.
`RobinhoodKeepsLedger` carries the theorems of the ledger over (`PortfolioConserved`), its refinement
(`RobinhoodImplementsAccount`) included; the portfolio is that of the ledger the worker uses.
`TasksAreNeverStuck` follows an entry and an exit to their next transactions: the reservation asked for is
still active and alone, the lot just committed is there to be linked, and the residual id of the next slice
is new because nothing else is ever reserved under the ids of a lineage (`ResidualsFollowSlices`).
`RowNeverExceedsLots` and `PositionIsItsLots` are about sums over any number of lots without an
induction: a sum is the number of its units (`UnitsIn`), so sums are compared by mapping units to units.
`Proportion` maps the rounded shares of an exit into what the lots hold, hence the last lot's left-over is
never negative; with the code's own check that it fits into that lot, an exit takes from the lots exactly
what it takes from its copy of the position (`SharesSum`). That copy is never more than the lots hold
(`RowIsCovered`), which is why a stale write can only lose units of the row; as long as none was lost
(`~overtaken`) row and lots agree. That there is a last lot follows from strict subsets of a finite set
being well founded (`LastExists`).
`OnlySoldIsRealised` keeps the books of a lineage (`SlicesAreBooked`): nothing is settled under a lot's ids
before its link, afterwards at most what was taken off its account, and the account is never behind the
lot. `ReservedIsExposure` describes the token's reservations until the process is first lost (`Orderly`):
each is exactly the account of a linked lot or the entry under way, the queue is exactly the lots out of
sync, and only the lot being entered is unlinked; without an entry or a cut under way that is a bijection
between reserved units and units of lots, beside an exit that awaits its quotes and after a stale write too.
`ExitsReachEveryLot` is the same description read for the slices: each lot that holds less than its account
is in the queue of the exit under way, and in line.

*Engine.* `Fits` ties the status of a candidate to the position of its token: an unconfirmed candidate's
token has been bought no more than a starter (`Limit`, `Within`), an ended one's position is not open, and
without a candidate there is none. `WithinFull` counts what was ever bought, not what an object in a map
remembers; after a restore it speaks only of tokens the facade has a position of, because a first purchase
then goes to the ledger's map and is forgotten at the next purge. It must hold of the checkpoint too, and a
checkpoint that no event is newer than must be what the memory is (`CoveredIsMemory`): then a restore that
is not refused keeps it. Behind the intake `OneCallAtATime` shows that the engine is never entered by two
tasks, and that nothing comes between a decision of the gate and the call it leads to.

*Intake.* Candidates in memory and in the checkpoint come from the claims (`AreClaims`), what was ever
bought of a token is at most what authorised swaps allow, and a candidate that still waits has had no more
than its starter (`EntriesInv`, `WaitForTheRest`), and a task keeps what it knew across its awaits
(`TaskKnows`): its claim stands, and a task the gate has let through found a portfolio with history
or was the first ever authorised. `IntakeKeepsEngine` shows every step to be an engine step or to leave the
engine alone, so `OpenPositionsAreWatched` and the rest hold behind the intake. `EntriesAreAuthorized` is stronger
than the engine's own bound: with one claim per token, purges and restores do not lead to a second
purchase.

The queue in front of the engine is shown to lose and double nothing (`QueueKeepsPayloads`): a step leaves
it alone, appends a payload that has no row, or moves the first row to the complete ones (`QueueMoves`), also
when it is the process that is lost.

*How far the findings reach.* Four runs end in a counterexample (section 5); for each a theorem says
what must happen first, so that what is left of the broken statement is proved for every instance.

| Finding | What holds | Under |
|---|---|---|
| `lifecycle_twice` | `FundedOnceWhenDecided`, `FundedAsLastDecided`: one opportunity is funded once unless its buy was cut, and as it was last decided | the loop never funds a SOLANA trial before its buy has decided it (`DecidedBeforeFunded`) |
| `staged_exit_oversold` | `ApartNeverOversold`, `ApartCountsEveryFill`: no more is sold than held, and the outcome counts every fill | no two sells await a route for the same position (`SellsAreApart`) |
| `engine_restart` | `NavIsExactUntilLoss`: NAV and trading see one map | the process has not been lost |
| `intake_retry` | `UnfailedIntakeIsComplete`: a complete row was ingested or is being ingested | no await or write of the intake failed, no handler raised, the process was not lost |

Each hypothesis excludes one order of steps or one kind of failure and nothing else. None is promised by
the code: the runs show that it breaks them. Without any of them `OutcomesWereSold` still holds: an
outcome never counts what no fill sold. `ClosedMeansMeasured` does the same for the exits a loss of the process
leaves closed and unmeasured: until the first loss each lane of a closed exit is measured or the task that
closed it is on its way there (`Carefully` follows a task through its opened rows).

*Liveness* (`DueExitsClose`, `MeasuredCapitalReturns`, `EntriesAreFundedOrDropped`, `QueueDrains`) stays
model-checked: fairness and ENABLED are beyond this prover. The invariants these properties rest on
are proved: an open row never runs out of attempts and a terminal one has used them all
(`OpenRowsCanBeRetried`), active capital can always be settled (`ActiveCapitalCanSettle`), and a worker
that waits does so for a task that exists in a process that runs (`WorkerWaitsForATask`). Every
invariant and action property of a passing run, and the refinement, is stated by a theorem.

## 5. Where the code and its own words differ

Each of these is a run that TLC finishes with a counterexample; the statement is quoted in
`PROJECT.json`.

- `staged_exit_oversold`: the slice is chosen before the await and booked after it, so overlapping
  sells sell more than the position holds; the remainder is clamped at zero.
- `lifecycle_twice`: the loop funds a SOLANA trial that its buy has not finally decided; when the
  buy defers it, the reservation stays, and the FOMO trial of the same signature is funded too.
- `engine_restart`: a restore replaces the facade's map of positions and leaves the ledger's empty one,
  which the NAV is computed from: after a restart the open positions are missing from it.
- `intake_retry`: a swap is recorded before the awaits of its ingestion. When one of them fails, the retry
  of its row finds a duplicate, and the row is complete although the swap was never assessed.

Other behaviours of the models that a reader should know of:

- *Exits.* The update after an attempt has no guard on the row's status: the retry pass may take
  an `exit_due` row whose immediate attempt still awaits its answer, and a failed late answer reopens an
  executed row. A row is committed as closed before its outcomes, so a process lost in between leaves a
  closed exit that nobody measures; likewise after the fill that spends a staged position. A status
  request gives an open FOMO position the return of the unified lane, and the exact return is ignored
  afterwards. A FOMO trial recorded after its sell has no exit row.
- *Lifecycle.* An exception or a loss between the commit of a FOMO row and its suppression leaves both lanes
  of the signature entered, and both are funded: no later pass repeats the check. A trial resized after it was funded keeps its first reservation; an entry may be
  measured before it is funded and then be refused; positions open at a deploy are selected by no exit
  engine of the next release. A CLOSED lifecycle event that fails after its settlement is not
  written again.
- *Robinhood.* A lot that is linked by a recovery only after an exit has sold from it has more reserved than
  its account: its slice raises, and the lots after it in the same exit are not reached until the next
  one. `ExitsReachEveryLot` shows that this takes a loss of the process. A scale committed while an exit
  awaits its quotes is lost to the row of the position: the row may be closed over an open lot, whose
  capital then stays reserved, and what is scaled afterwards comes on top of the target. The
  scale may also be added to a row the exit has meanwhile made de-risking or a runner, which is what
  `v52_robinhood_position_lifecycle.py:413-415` blocks at the time of the choice. After a
  deploy the scheduler selects only trials of the running release
  (`robinhood_event_driven_settlement.py:76-83`), so lots of an earlier release are not exited, although
  `robinhood_strategy_alignment_repair.py:642` reports
  `"open_position_scope": "all_unsettled_paper_trials_across_releases"`.
- *Capital.* A transaction that finds the database busy is tried eight times and then raises in the
  middle of its pass, which the next tick repeats.
- *Engine and intake.* After a restore a token the facade has no position of is bought into the ledger's map
  only, where neither exits nor checkpoints see it; the engine alone would buy it again after every purge,
  the claim in front of it prevents that. A malformed payload at the head of the queue holds every
  later row, and an exception of the worker's own writes ends its task until the process is started
  again. An authorised entry that is lost before the engine had it leaves the cohort
  without continuity: the gate refuses everything from then on. A task that fails after its claim
  leaves the token dead, since a later swap finds the claim taken and no candidate. An exception of
  the handler leaves the price clock's task, which is not started again. Only tokens first touched in
  the last 300 seconds are priced.

## 6. Not modelled, and the plan

Left out for good: provider transports and fail-over, storage maintenance, dashboards, statistical
certification, wallet scoring, learning governance, deployment (network and file-system effects, or
arithmetic over data without a protocol between actors). They make up most of the repository: the
definitions of these modules stand for about one fortieth of the implementation's lines. What is
covered is narrow and deliberate: the parts that hold capital, measure exits and admit entries; nothing
is claimed of the rest.

Left for later, in this order:

1. `CandidateLedger`: stages of a candidate and its terminal classification, across the process's
   loss; it records what the modelled parts decide and decides nothing itself.
2. `CertificationReplication`: generations, pages and acknowledgements under loss and restart;
   abstractly a prefix copy of the source tables.
3. The frontier of realtime tracking: gap clocks and recovery. Several dozen repairs wrapped
   around each other decide it, and which of them are in force must be settled first.
4. `RpcGovernor`: priority admission, no starvation under the limits it declares.
5. The FOMO market flow's own trials, which enter `PaperLifecycle` as buys of their own now.
6. In `RobinhoodCapital`, the hold of an entry until its evidence is complete; in
   `PaperLifecycle`, the lifecycle event trail and the choice of lane and size.

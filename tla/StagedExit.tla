------------------------------ MODULE StagedExit ------------------------------
(***************************************************************************)
(* The staged exits of v52_profit_confidence_completion.py: what a sell of *)
(* a token does while the token has open selected v5 positions.            *)
(*                                                                         *)
(* Each observed sell is a task of one event loop.  It reads the open      *)
(* positions once and considers them in turn.  For each it reads how much  *)
(* remains, decides on a slice, awaits a route for exactly that slice and  *)
(* only then books the fill: the fill and the position in one transaction, *)
(* and, when the position is spent or the exit was urgent, the outcomes in *)
(* three more.  Between two awaits a task is interrupted only by the loss  *)
(* of the process, which also forgets the sell: it is not observed again.  *)
(*                                                                         *)
(* Amounts are raw token units; a fill is measured by the units it sold.   *)
(* The exit profile of the lane (its fractions of the total, rounded) is   *)
(* fixed here, although outcomes may adjust it between sells.              *)
(***************************************************************************)
EXTENDS Integers, Sequences, FiniteSets, SequencesExt, FiniteSetsExt

CONSTANTS
  Positions,     \* selected v5 entries of one token, each with its exit lane
  TotalRaw,      \* total_token_raw of a position
  FirstRaw,      \* total * first_derisk_fraction, at least one
  SecondRaw,     \* total * second_derisk_fraction
  RunnerRaw,     \* total * runner_fraction
  Sells,         \* signatures of the sells observed
  MaxCrashes     \* bound: how often the process is lost

ASSUME StagedExitAssumption ==
  /\ IsFiniteSet(Positions)
  /\ TotalRaw \in Nat \ {0}
  /\ FirstRaw \in 1..TotalRaw
  /\ SecondRaw \in 0..TotalRaw
  /\ RunnerRaw \in 0..TotalRaw
  /\ IsFiniteSet(Sells)
  /\ MaxCrashes \in Nat

VARIABLES
  lifecycle,     \* v52_staged_position_lifecycle, by position
  fills,         \* v52_staged_exit_fills: units sold, by position and sell
  final,         \* profit_first_final_outcomes: units the exit counted
  leads,         \* v52_wallet_lead_outcomes, likewise
  v5,            \* risk_conditioned_alpha_v5_outcomes, likewise
  tasks,         \* what each sell is doing
  running,       \* the sell that holds the event loop, if any
  crashes

durable == <<lifecycle, fills, final, leads, v5>>
vars    == <<lifecycle, fills, final, leads, v5, tasks, running, crashes>>

Lifecycle   == [opened : BOOLEAN, remaining : 0..TotalRaw, stage : 0..3, closed : BOOLEAN]
NoLifecycle == [opened |-> FALSE, remaining |-> 0, stage |-> 0, closed |-> FALSE]
NewLifecycle == [opened |-> TRUE, remaining |-> TotalRaw, stage |-> 0, closed |-> FALSE]

Idle(pc) == [pc |-> pc, queue |-> <<>>, raw |-> 0, stage |-> 0, urgent |-> FALSE, counted |-> 0]
Unseen   == Idle("unseen")
Done     == Idle("done")

Considering(queue) ==
  [pc |-> "consider", queue |-> queue, raw |-> 0, stage |-> 0, urgent |-> FALSE, counted |-> 0]

Quoting(queue, slice, stage, urgent) ==
  [pc |-> "quote", queue |-> queue, raw |-> slice, stage |-> stage, urgent |-> urgent,
   counted |-> 0]

Finalising(pc, queue, counted) ==
  [pc |-> pc, queue |-> queue, raw |-> 0, stage |-> 0, urgent |-> FALSE, counted |-> counted]

(* SUM(token_raw) of the fills of a position, as the units they sold.      *)
UnitsSold(sales) == {u \in Sells \X (1..TotalRaw) : u[2] <= sales[u[1]]}
Sold(p)      == Cardinality(UnitsSold(fills[p]))
Position(t)  == Head(tasks[t].queue)
Unmeasured   == 0                       \* a measured exit sold at least one unit

(* _open_selected_positions: selected entries without a v5 outcome.        *)
OpenPositions == {p \in Positions : v5[p] = Unmeasured}

-----------------------------------------------------------------------------
(* A task gives up the event loop at an await, or when it has finished.    *)
Await(t, task) == tasks' = [tasks EXCEPT ![t] = task] /\ running' = {}
Keep(t, task)  == tasks' = [tasks EXCEPT ![t] = task] /\ running' = {t}

NextPosition(t) ==
  IF Tail(tasks[t].queue) = <<>> THEN Await(t, Done)
  ELSE Keep(t, Considering(Tail(tasks[t].queue)))

(* _completed_solana_sell up to its loop, after the awaits of              *)
(* _resolve_counterfactuals.  Without an open position the sell is the     *)
(* exact exit engine's.                                                    *)
ObserveSell(t, order) ==
  /\ running = {}
  /\ tasks[t].pc = "unseen"
  /\ IF order = <<>> THEN Await(t, Done)
     ELSE Keep(t, Considering(order))
  /\ UNCHANGED <<durable, crashes>>

(* The slice a sell wants of what it reads.  An urgent exit takes all that *)
(* remains; otherwise there are two de-risking stages, and neither sells   *)
(* into the runner.                                                        *)
AboveRunner(l) == IF l.remaining > RunnerRaw THEN l.remaining - RunnerRaw ELSE 0

Slice(l, urgent) ==
  CASE urgent -> l.remaining
    [] ~urgent /\ l.stage = 0 -> Min({l.remaining, FirstRaw, AboveRunner(l)})
    [] ~urgent /\ l.stage = 1 ->
         Min({l.remaining, Max({1, SecondRaw, AboveRunner(l)}), AboveRunner(l)})
    [] OTHER       -> 0

NextStage(l, urgent) == IF urgent THEN 3 ELSE l.stage + 1

(* _ensure_lifecycle, the exit signal and the choice of the slice.         *)
Consider(t, signal) ==
  LET p      == Position(t)
      l      == IF lifecycle[p].opened THEN lifecycle[p] ELSE NewLifecycle
      urgent == signal = "urgent"
      slice  == Slice(l, urgent)
  IN  /\ running = {t}
      /\ tasks[t].pc = "consider"
      /\ lifecycle' = [lifecycle EXCEPT ![p] = l]
      /\ IF signal = "hold" \/ slice = 0
         THEN NextPosition(t)
         ELSE Await(t, Quoting(tasks[t].queue, slice, NextStage(l, urgent), urgent))
      /\ UNCHANGED <<fills, final, leads, v5, crashes>>

(* _exact_stage_fill without a route, or at a loss after fees.             *)
RouteUnavailable(t) ==
  /\ running = {}
  /\ tasks[t].pc = "quote"
  /\ NextPosition(t)
  /\ UNCHANGED <<durable, crashes>>

(* Mutants: the stage is overwritten; a slice larger than what remains is  *)
(* not booked; the remaining amount is not clamped at zero.                *)
BookedStageOverwritten(l, raw, stage) ==
  [l EXCEPT !.remaining = IF raw < @ THEN @ - raw ELSE 0, !.stage = stage]

BookedPartOnly(l, raw, stage) ==
  [l EXCEPT !.remaining = IF raw < @ THEN @ - raw ELSE @,
            !.stage = IF stage > @ THEN stage ELSE @]

BookedUnclamped(l, raw, stage) ==
  [l EXCEPT !.remaining = @ - raw, !.stage = IF stage > @ THEN stage ELSE @]

(* The UPDATE of the position: MAX(0, remaining - raw), MAX(stage, ...).   *)
Booked(l, raw, stage) ==
  [opened |-> l.opened, closed |-> l.closed,
   remaining |-> IF raw < l.remaining THEN l.remaining - raw ELSE 0,
   stage     |-> IF stage > l.stage THEN stage ELSE l.stage]

ClosedOut(l) == [opened |-> l.opened, closed |-> TRUE, remaining |-> 0, stage |-> l.stage]

(* Mutant: only an urgent exit is finalised.                               *)
SpentUrgentOnly(t, remaining) == tasks[t].urgent

(* What the sell finalises after its fill.                                 *)
Spent(t, remaining) == tasks[t].urgent \/ remaining = 0

(* _exact_stage_fill with a route: the slice chosen before the await is    *)
(* booked, whatever happened to the position since.                        *)
Fill(t) ==
  LET p      == Position(t)
      booked == Booked(lifecycle[p], tasks[t].raw, tasks[t].stage)
  IN  /\ running = {}
      /\ tasks[t].pc = "quote"
      /\ fills' = [fills EXCEPT ![p][t] = tasks[t].raw]
      /\ lifecycle' = [lifecycle EXCEPT ![p] = booked]
      /\ IF Spent(t, booked.remaining)
         THEN Keep(t, Finalising("final", tasks[t].queue, 0))
         ELSE NextPosition(t)
      /\ UNCHANGED <<final, leads, v5, crashes>>

(* Mutant: the outcomes are INSERT OR REPLACE.                             *)
RecordedReplacing(table, p, counted) == [table EXCEPT ![p] = counted]

(* INSERT OR IGNORE of an outcome.                                         *)
Recorded(table, p, counted) ==
  [table EXCEPT ![p] = IF @ = Unmeasured THEN counted ELSE @]

(* _finalize_profit_outcomes: the fills are summed, the final outcomes     *)
(* inserted and the position closed ...                                    *)
FinaliseFinal(t) ==
  LET p == Position(t)
  IN  /\ running = {t}
      /\ tasks[t].pc = "final"
      /\ final' = Recorded(final, p, Sold(p))
      /\ lifecycle' = [lifecycle EXCEPT ![p] = ClosedOut(lifecycle[p])]
      /\ Keep(t, Finalising("leads", tasks[t].queue, Sold(p)))
      /\ UNCHANGED <<fills, leads, v5, crashes>>

(* ... then the wallet-lead outcome ...                                    *)
FinaliseLead(t) ==
  /\ running = {t}
  /\ tasks[t].pc = "leads"
  /\ leads' = Recorded(leads, Position(t), tasks[t].counted)
  /\ Keep(t, Finalising("v5", tasks[t].queue, tasks[t].counted))
  /\ UNCHANGED <<lifecycle, fills, final, v5, crashes>>

(* ... then the v5 outcome, which settles the capital.                     *)
FinaliseV5(t) ==
  /\ running = {t}
  /\ tasks[t].pc = "v5"
  /\ v5' = Recorded(v5, Position(t), tasks[t].counted)
  /\ NextPosition(t)
  /\ UNCHANGED <<lifecycle, fills, final, leads, crashes>>

(* The process is lost between two commits.  The tables stay; a sell that  *)
(* was being handled is not observed again.                                *)
Crash ==
  /\ crashes < MaxCrashes
  /\ crashes' = crashes + 1
  /\ tasks' = [t \in Sells |-> IF tasks[t].pc = "unseen" THEN Unseen ELSE Done]
  /\ running' = {}
  /\ UNCHANGED durable

Init ==
  /\ lifecycle = [p \in Positions |-> NoLifecycle]
  /\ fills = [p \in Positions |-> [s \in Sells |-> 0]]
  /\ final = [p \in Positions |-> Unmeasured]
  /\ leads = [p \in Positions |-> Unmeasured]
  /\ v5 = [p \in Positions |-> Unmeasured]
  /\ tasks = [t \in Sells |-> Unseen]
  /\ running = {}
  /\ crashes = 0

Next ==
  \/ \E t \in Sells :
       \/ \E order \in SetToSeqs(OpenPositions) : ObserveSell(t, order)
       \/ \E signal \in {"hold", "derisk", "urgent"} : Consider(t, signal)
       \/ RouteUnavailable(t)
       \/ Fill(t)
       \/ FinaliseFinal(t)
       \/ FinaliseLead(t)
       \/ FinaliseV5(t)
  \/ Crash

Spec == Init /\ [][Next]_vars

-----------------------------------------------------------------------------
(* Type invariant: positions, fills, outcomes and tasks are well formed.   *)
TypeOK ==
  /\ lifecycle \in [Positions -> Lifecycle]
  /\ fills \in [Positions -> [Sells -> 0..TotalRaw]]
  /\ \A outcome \in {final, leads, v5} :
       outcome \in [Positions -> 0..(TotalRaw * Cardinality(Sells))]
  /\ \A t \in Sells :
       /\ tasks[t].pc \in {"unseen", "consider", "quote", "final", "leads", "v5", "done"}
       /\ tasks[t].queue \in Seq(Positions)
       /\ tasks[t].pc \in {"unseen", "quote", "done"} <=> t \notin running
  /\ running \subseteq Sells

(* Until it is closed a position holds exactly what its fills have left of *)
(* it, however many sells booked theirs against the same amount.           *)
RemainingIsAccounted ==
  \A p \in Positions :
    lifecycle[p].opened /\ ~lifecycle[p].closed =>
      lifecycle[p].remaining = Max({0, TotalRaw - Sold(p)})

(* The stage of a position never goes back, so a late de-risking fill does *)
(* not open a stage that an urgent exit has passed.                        *)
StageNeverRegresses ==
  [][ \A p \in Positions : lifecycle'[p].stage >= lifecycle[p].stage ]_vars

(* The strategy evidence, the wallet evidence and the outcome the capital  *)
(* is settled with all come from the same finalisation of a position, also *)
(* when two sells finalise it.                                             *)
MeasurementsAgree ==
  \A p \in Positions :
    /\ leads[p] # Unmeasured => leads[p] = final[p]
    /\ v5[p] # Unmeasured => v5[p] = final[p]

(* As long as the process is not lost, a position of which nothing is     *)
(* left is measured, unless the sell that spent it is still at it: no      *)
(* other sell will ever look at it again.                                  *)
SpentPositionsAreMeasured ==
  \A p \in Positions :
    (crashes = 0 /\ running = {} /\ lifecycle[p].opened /\ lifecycle[p].remaining = 0) =>
      v5[p] # Unmeasured

-----------------------------------------------------------------------------
(* What the code says of itself and does not keep.                         *)

(* "exact_held_size_required", "exit_quote_amount_must_equal_actual_       *)
(* position_units": the sells of a position never sell more than it holds. *)
SoldWithinHeld == \A p \in Positions : Sold(p) <= TotalRaw
=============================================================================

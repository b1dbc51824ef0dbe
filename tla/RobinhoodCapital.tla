-------------------------- MODULE RobinhoodCapital --------------------------
(***************************************************************************)
(* The Robinhood paper position of one token and the capital its lots      *)
(* hold: v52_robinhood_position_lifecycle.py wrapped by                    *)
(* v52_robinhood_shared_capital_repair.py, with the functions that         *)
(* v52_robinhood_canonical_capital_bridge.py puts in their place, over the *)
(* ledger tables (PaperCapital) of the store the worker is given.          *)
(*                                                                         *)
(* Two tasks of one event loop act on the position: the entry task, and    *)
(* the settlement scheduler of robinhood_event_driven_settlement.py.  An   *)
(* entry reserves, awaits quotes, commits a lot and links it; an exit      *)
(* copies the position, awaits quotes, commits its cut of the lots and     *)
(* realises it lot by lot.  Each task may act in the awaits of the other,  *)
(* and in no other place; the process may be lost between any two          *)
(* transactions, and with it what both tasks were at.                      *)
(*                                                                         *)
(* Fractions are units of the portfolio and a lot holds as many tokens as  *)
(* units (one entry price), so shares are rounded down as the code does.   *)
(* What the market says (strength, flow, stop, harvest, hold time) is a    *)
(* free choice.                                                            *)
(***************************************************************************)
EXTENDS Integers, FiniteSets

CONSTANTS
  Evidences,     \* evidence fingerprints; also the entry reservation ids
  Others,        \* reservation ids of other users of the ledger's file
  Nothing,       \* NULL in an evidence or reservation column
  Units,         \* units in the whole portfolio
  OtherSizes,    \* fractions they reserve
  Target,        \* target_fraction of a position
  MaxLots,       \* bound: trials of this token
  MaxRelease,    \* bound: releases deployed over one database
  MaxLosses      \* bound: restarts and deploys together

LotIds    == 1..MaxLots
Residuals == LotIds \X (1..Target)      \* "robinhood-v52:trial:<l>:residual:<n>"

ASSUME RobinhoodAssumption ==
  /\ IsFiniteSet(Evidences) /\ IsFiniteSet(Others)
  /\ Evidences \cap Others = {}
  /\ (Evidences \cup Others) \cap Residuals = {}
  /\ Nothing \notin Evidences \cup Others \cup Residuals
  /\ Units \in Nat
  /\ OtherSizes \subseteq 1..Units
  /\ Target \in 1..Units
  /\ MaxLots \in Nat
  /\ MaxRelease \in Nat \ {0}
  /\ MaxLosses \in Nat

Releases == 1..MaxRelease

VARIABLES
  reservations, settlements,  \* the ledger
  lots,          \* v52_robinhood_position_lots with their capital lineage
  position,      \* the latest v52_robinhood_positions row of the token
  entry,         \* what the entry task is doing
  exit,          \* what the settlement scheduler is doing
  release,       \* the release running
  losses,
  overtaken      \* history: an exit has written over a scale it had not seen

ledger == <<reservations, settlements>>
vars   == <<ledger, lots, position, entry, exit, release, losses, overtaken>>

Whole(f) == [requested |-> f, minimum |-> f, capacity |-> Units, downsize |-> FALSE]

Ledger == INSTANCE PaperCapital WITH
            Ids <- Evidences \cup Others, Returns <- {0},
            Calls <- {Whole(f) : f \in 1..Units}

(* link is capital_reservation_id and current_reservation_id, which the    *)
(* code always writes together; accounted is accounted_remaining_fraction, *)
(* slices is settlement_sequence.                                          *)
Lot == [evidence : Evidences \cup {Nothing}, generation : 0..MaxLots,
        release : Releases, entry : 0..Target, remaining : 0..Target,
        link : Evidences \cup Residuals \cup {Nothing},
        accounted : 0..Target, slices : 0..Target]
NoLot == [evidence |-> Nothing, generation |-> 0, release |-> 1, entry |-> 0,
          remaining |-> 0, link |-> Nothing, accounted |-> 0, slices |-> 0]

Open       == {"entered", "scaling", "de_risking", "runner"}
Position   == [status : {"none", "closed"} \cup Open, remaining : 0..Target, stage : 0..2,
               evidence : Evidences \cup {Nothing}, generation : 0..MaxLots]
NoPosition == [status |-> "none", remaining |-> 0, stage |-> 0,
               evidence |-> Nothing, generation |-> 0]

(* The entry task: evidence and fraction it was granted, and whether it    *)
(* set out to open a position or to scale one.                             *)
NoEntry == [pc |-> "idle", evidence |-> Nothing, fraction |-> 0, stage |-> "none"]
Asking(pc, e, f, stage) == [pc |-> pc, evidence |-> e, fraction |-> f, stage |-> stage]

(* The scheduler: its copy of the position, then the lots to synchronise.  *)
NoExit == [pc |-> "idle", remaining |-> 0, status |-> "none", stage |-> 0, queue |-> {}]
Seen   == [pc |-> "quoting", remaining |-> position.remaining, status |-> position.status,
           stage |-> position.stage, queue |-> {}]
Syncing(queue) ==
  IF queue = {} THEN NoExit
  ELSE [pc |-> "syncing", remaining |-> 0, status |-> "none", stage |-> 0, queue |-> queue]

(* A task between two transactions with no await in between: the other one *)
(* waits, the process may still be lost.                                   *)
EntryRuns == entry.pc \in {"refused", "linking"}
ExitRuns  == exit.pc = "syncing"

Taken      == {l \in LotIds : lots[l].entry > 0}
LotsOf(e)  == {l \in Taken : lots[l].evidence = e}
OpenLots   == {l \in Taken : lots[l].remaining > 0}
Linked     == {l \in Taken : lots[l].link # Nothing}

(* The open lots of the position's latest row.                             *)
PositionLots == {l \in OpenLots : lots[l].generation = position.generation}

(* Every unit of the lots in a set, for a count of units per lot.          *)
UnitsIn(set, count) == Cardinality({u \in set \X (1..Target) : u[2] <= count[u[1]]})
Remaining == [l \in LotIds |-> lots[l].remaining]

(* The reservation a lot's capital is under: its entry's until it is       *)
(* linked, the current one of its lineage afterwards.                      *)
Backing(l) == IF lots[l].link = Nothing THEN lots[l].evidence ELSE lots[l].link

Holds(i, f) == \E r \in Releases : /\ Ledger!ActiveRows(i) = {r}
                                   /\ reservations[<<r, i>>].reserved >= f

-----------------------------------------------------------------------------
(* _choose_with_lifecycle lets no evidence through that the position had   *)
(* last.  Its test of the status may be outdated by the awaits that follow *)
(* and is made again by Valid.                                             *)
Choosable(e) == position.evidence # e

(* Mutant: the durable lot is looked for in the open position only.        *)
KnownOpenOnly(e) == {l \in LotsOf(e) : lots[l].remaining > 0}

(* The lots _matching_lot_canonical finds, whatever release wrote them.    *)
Known(e) == LotsOf(e)

Stage == IF position.status \in Open THEN "scale" ELSE "starter"

(* Mutant: the target bounds each lot, not the position.                   *)
ValidEach(f) == position.status \in Open => position.status \in {"entered", "scaling"}

(* What _validate_and_commit tests before its awaits: a position may be    *)
(* scaled until it is de-risked, and up to its target.                     *)
Valid(f) ==
  position.status \in Open =>
    /\ position.status \in {"entered", "scaling"}
    /\ position.remaining + f <= Target

(* _validate_with_shared_capital up to its first await, for evidence that  *)
(* has no lot: reserve the whole fraction, or replay what the ledger has   *)
(* for it, and validate.                                                   *)
AskCapital(e, f) ==
  LET asked == Asking(IF Valid(f) THEN "quoting" ELSE "refused", e, f, Stage)
  IN  /\ entry = NoEntry /\ ~ExitRuns
      /\ Choosable(e)
      /\ Known(e) = {}
      /\ IF Ledger!CanonicalStatus(e) = "absent"
         THEN /\ Ledger!Reserve(release, e, Whole(f))
              /\ entry' = IF Ledger!Granted(Whole(f)) > 0 THEN asked ELSE NoEntry
         ELSE /\ UNCHANGED ledger
              /\ entry' = IF Holds(e, f) THEN asked ELSE NoEntry
      /\ UNCHANGED <<lots, position, exit, release, losses, overtaken>>

(* Mutant: a refused entry keeps its reservation.                          *)
DropEntryKeeping ==
  /\ entry.pc \in {"quoting", "refused"} /\ ~ExitRuns
  /\ entry' = NoEntry
  /\ UNCHANGED <<ledger, lots, position, exit, release, losses, overtaken>>

(* The validation refuses, raises, or times out, or _persist_lot does not  *)
(* find what it expects: _cancel_unlinked_reservation.                     *)
DropEntry ==
  /\ entry.pc \in {"quoting", "refused"} /\ ~ExitRuns
  /\ Ledger!Cancel(entry.evidence)
  /\ entry' = NoEntry
  /\ UNCHANGED <<lots, position, exit, release, losses, overtaken>>

(* _persist_lot: a new position, or one more lot of whatever the open one  *)
(* has become; only its being open is tested again after the awaits.       *)
NewLot(e, f, generation) ==
  [evidence |-> e, generation |-> generation, release |-> release, entry |-> f,
   remaining |-> f, link |-> Nothing, accounted |-> 0, slices |-> 0]

Entered(e, f) ==
  [status |-> "entered", remaining |-> f, stage |-> 0, evidence |-> e,
   generation |-> position.generation + 1]

Scaled(e, f) ==
  [status |-> "scaling", remaining |-> position.remaining + f, stage |-> position.stage,
   evidence |-> e, generation |-> position.generation]

CommitLot(l) ==
  LET e    == entry.evidence
      f    == entry.fraction
      next == IF position.status \in Open THEN Scaled(e, f) ELSE Entered(e, f)
  IN  /\ entry.pc = "quoting" /\ ~ExitRuns
      /\ entry.stage = Stage
      /\ l \notin Taken /\ 1..(l - 1) \subseteq Taken
      /\ position' = next
      /\ lots' = [lots EXCEPT ![l] = NewLot(e, f, next.generation)]
      /\ entry' = Asking("linking", e, f, entry.stage)
      /\ UNCHANGED <<ledger, exit, release, losses, overtaken>>

(* _link_reservation_canonical: what a lot is once it is linked.           *)
WithLink(lot) ==
  [evidence |-> lot.evidence, generation |-> lot.generation, release |-> lot.release,
   entry |-> lot.entry, remaining |-> lot.remaining, link |-> lot.evidence,
   accounted |-> lot.remaining, slices |-> 0]

(* _recover_entry_link finds the open lot of the evidence first, then the  *)
(* latest, and links it unless it has a lineage.                           *)
Found(e, l) ==
  /\ l \in LotsOf(e)
  /\ \A k \in LotsOf(e) : k # l => lots[k].remaining = 0
  /\ lots[l].remaining > 0 \/ \A k \in LotsOf(e) : k <= l

LinkLot(e, l) ==
  /\ Found(e, l)
  /\ lots[l].link = Nothing
  /\ Holds(e, lots[l].remaining)
  /\ lots' = [lots EXCEPT ![l] = WithLink(lots[l])]
  /\ UNCHANGED <<ledger, position, exit, release, losses, overtaken>>

(* After the commit; then the entry is done, linked or not (a raise).      *)
FinishEntry ==
  /\ entry.pc = "linking" /\ ~ExitRuns
  /\ entry' = NoEntry
  /\ \/ \E l \in LotIds : LinkLot(entry.evidence, l)
     \/ /\ \A l \in LotIds : ~ (/\ Found(entry.evidence, l)
                                /\ lots[l].link = Nothing
                                /\ Holds(entry.evidence, lots[l].remaining))
        /\ UNCHANGED <<ledger, lots, position, exit, release, losses, overtaken>>

(* The same at the start of a later validation of that evidence, which     *)
(* then reserves and enters nothing.                                       *)
Recover(e) ==
  /\ entry = NoEntry /\ ~ExitRuns
  /\ Choosable(e)
  /\ \E l \in LotIds : LinkLot(e, l)
  /\ UNCHANGED entry

-----------------------------------------------------------------------------
(* _settle_one_with_lifecycle up to its first await: a position is copied  *)
(* when its first open lot is a trial of the release that runs, the only   *)
(* trials _open_trials selects.                                            *)
Leader == CHOOSE l \in PositionLots : \A k \in PositionLots : l <= k

StartExit ==
  /\ exit = NoExit /\ ~EntryRuns
  /\ position.status \in Open
  /\ PositionLots # {}
  /\ lots[Leader].release = release
  /\ exit' = Seen
  /\ UNCHANGED <<ledger, lots, position, entry, release, losses, overtaken>>

(* A quote fails, or the position is held.                                 *)
DropExit ==
  /\ exit.pc = "quoting" /\ ~EntryRuns
  /\ exit' = NoExit
  /\ UNCHANGED <<ledger, lots, position, entry, release, losses, overtaken>>

(* _apply_exit reads the open lots again: each sells its share, rounded    *)
(* down, and the last one what is left over; nothing happens when that     *)
(* does not fit.                                                           *)
Last == CHOOSE l \in PositionLots : \A k \in PositionLots : k <= l

RoundedShare(l, sell) == (sell * lots[l].remaining) \div UnitsIn(PositionLots, Remaining)

LeftOver(sell) ==
  sell - UnitsIn(PositionLots \ {Last}, [l \in LotIds |->
                   IF l \in PositionLots THEN RoundedShare(l, sell) ELSE 0])

(* Mutant: the last lot, too, sells its rounded share only.                *)
ShareRounded(l, sell) ==
  IF l \notin PositionLots THEN 0 ELSE RoundedShare(l, sell)

Share(l, sell) ==
  IF l \notin PositionLots THEN 0
  ELSE IF l = Last THEN (IF LeftOver(sell) > 0 THEN LeftOver(sell) ELSE 0)
  ELSE RoundedShare(l, sell)

Sellable(sell) ==
  /\ PositionLots # {}
  /\ sell \in 1..UnitsIn(PositionLots, Remaining)
  /\ LeftOver(sell) <= lots[Last].remaining

Cut(lot, share) ==
  [evidence |-> lot.evidence, generation |-> lot.generation, release |-> lot.release,
   entry |-> lot.entry,
   remaining |-> IF share < lot.remaining THEN lot.remaining - share ELSE 0,
   link |-> lot.link, accounted |-> lot.accounted, slices |-> lot.slices]

(* _sync_position_capital passes over the lots of the position that have   *)
(* no lineage, and those whose remaining fraction is accounted for.        *)
OutOfSync(table) ==
  {l \in LotIds : /\ table[l].generation = position.generation
                  /\ table[l].link # Nothing
                  /\ table[l].remaining < table[l].accounted}

(* Mutant: the row keeps the fraction that was seen.                       *)
AfterExitKeeping(sell, status, stage) ==
  [status |-> IF exit.remaining <= sell THEN "closed" ELSE status,
   remaining |-> exit.remaining, stage |-> stage, evidence |-> position.evidence,
   generation |-> position.generation]

(* The row is written from the copy made before the awaits.                *)
AfterExit(sell, status, stage) ==
  [status |-> IF exit.remaining <= sell THEN "closed" ELSE status,
   remaining |-> IF exit.remaining <= sell THEN 0 ELSE exit.remaining - sell,
   stage |-> stage, evidence |-> position.evidence, generation |-> position.generation]

ApplyExit(sell, status, stage) ==
  /\ exit.pc = "quoting" /\ ~EntryRuns
  /\ IF Sellable(sell)
     THEN /\ lots' = [l \in LotIds |-> IF l \in PositionLots
                                       THEN Cut(lots[l], Share(l, sell)) ELSE lots[l]]
          /\ position' = AfterExit(sell, status, stage)
          /\ overtaken' = (overtaken \/ exit.remaining # position.remaining)
     ELSE UNCHANGED <<lots, position, overtaken>>
  /\ exit' = Syncing(OutOfSync(lots'))
  /\ UNCHANGED <<ledger, entry, release, losses>>

(* The three kinds of exit of _settle_one_with_lifecycle, by what the copy *)
(* of the position says.                                                   *)
ExitAll == ApplyExit(exit.remaining, "closed", exit.stage)

Derisk(sell) ==
  /\ exit.status # "runner"
  /\ exit.stage < 2
  /\ sell <= exit.remaining
  /\ ApplyExit(sell, "de_risking", exit.stage + 1)

EnterRunner(keep) ==
  /\ exit.status # "runner"
  /\ exit.stage = 2
  /\ keep < exit.remaining
  /\ ApplyExit(exit.remaining - keep, "runner", 2)

(* A position that is small enough already: the row as it is now becomes   *)
(* the runner.                                                             *)
KeepRunner ==
  /\ exit.pc = "quoting" /\ ~EntryRuns
  /\ exit.status # "runner"
  /\ exit.stage = 2
  /\ position' = [position EXCEPT !.status = "runner"]
  /\ exit' = NoExit
  /\ UNCHANGED <<ledger, lots, entry, release, losses, overtaken>>

(* Mutant: the lineage stays with the settled reservation.                 *)
SettledInPlace(lot, residual) ==
  [evidence |-> lot.evidence, generation |-> lot.generation, release |-> lot.release,
   entry |-> lot.entry, remaining |-> lot.remaining, link |-> lot.link,
   accounted |-> lot.remaining, slices |-> lot.slices + 1]

(* What _settle_lot_delta_canonical makes of the lineage.                  *)
Settled(lot, residual) ==
  [evidence |-> lot.evidence, generation |-> lot.generation, release |-> lot.release,
   entry |-> lot.entry, remaining |-> lot.remaining,
   link |-> IF lot.remaining > 0 THEN residual ELSE lot.link,
   accounted |-> lot.remaining, slices |-> lot.slices + 1]

InLine(l) == \E r \in Releases : /\ Ledger!ActiveRows(lots[l].link) = {r}
                                 /\ reservations[<<r, lots[l].link>>].reserved
                                      = lots[l].accounted

(* Mutant: the slice realises the whole reservation.                       *)
SyncLotWhole(l) ==
  LET residual == <<l, lots[l].slices + 1>>
  IN  /\ ExitRuns
      /\ l \in exit.queue /\ \A k \in exit.queue : l <= k
      /\ Ledger!SettleSlice(lots[l].link, residual, 0, 0)
      /\ lots' = [lots EXCEPT ![l] = Settled(lots[l], residual)]
      /\ exit' = Syncing(exit.queue \ {l})
      /\ UNCHANGED <<position, entry, release, losses, overtaken>>

(* _settle_lot_delta_canonical for the next lot.  A reservation that is    *)
(* not exactly what the lineage accounts for raises, and the lots that     *)
(* follow are not reached.                                                 *)
SyncLot(l) ==
  LET residual == <<l, lots[l].slices + 1>>
  IN  /\ ExitRuns
      /\ l \in exit.queue /\ \A k \in exit.queue : l <= k
      /\ IF InLine(l)
         THEN /\ Ledger!SettleSlice(lots[l].link, residual, lots[l].remaining, 0)
              /\ lots' = [lots EXCEPT ![l] = Settled(lots[l], residual)]
              /\ exit' = Syncing(exit.queue \ {l})
         ELSE /\ exit' = NoExit
              /\ UNCHANGED <<ledger, lots>>
      /\ UNCHANGED <<position, entry, release, losses, overtaken>>

-----------------------------------------------------------------------------
(* What else uses the ledger's file, between any two transactions: lots of *)
(* other tokens, or other lanes where the worker is not given a file of    *)
(* its own.                                                                *)
OtherReserves(o, f) ==
  /\ Ledger!Reserve(release, o, Whole(f))
  /\ UNCHANGED <<lots, position, entry, exit, release, losses, overtaken>>

OtherSettles(o) ==
  /\ Ledger!Settle(o, 0)
  /\ UNCHANGED <<lots, position, entry, exit, release, losses, overtaken>>

(* The process is lost; it comes back as the same release or the next.     *)
Lose(next) ==
  /\ losses < MaxLosses
  /\ losses' = losses + 1
  /\ next \in Releases /\ next \in {release, release + 1}
  /\ release' = next
  /\ entry' = NoEntry /\ exit' = NoExit
  /\ UNCHANGED <<ledger, lots, position, overtaken>>

Init ==
  /\ Ledger!Init
  /\ lots = [l \in LotIds |-> NoLot]
  /\ position = NoPosition
  /\ entry = NoEntry /\ exit = NoExit
  /\ release = 1
  /\ losses = 0
  /\ overtaken = FALSE

Next ==
  \/ \E e \in Evidences, f \in 1..Target : AskCapital(e, f)
  \/ DropEntry
  \/ \E l \in LotIds : CommitLot(l)
  \/ FinishEntry
  \/ \E e \in Evidences : Recover(e)
  \/ StartExit
  \/ DropExit
  \/ ExitAll
  \/ \E sell \in 1..Target : Derisk(sell)
  \/ \E keep \in 0..Target : EnterRunner(keep)
  \/ KeepRunner
  \/ \E l \in LotIds : SyncLot(l)
  \/ \E o \in Others, f \in OtherSizes : OtherReserves(o, f)
  \/ \E o \in Others : OtherSettles(o)
  \/ \E next \in Releases : Lose(next)

Spec == Init /\ [][Next]_vars

-----------------------------------------------------------------------------
(* Type invariant: ledger, lots, position and tasks are well formed; the   *)
(* position's row never passes its target, which is tested before an await *)
(* and added to after it.                                                  *)
TypeOK ==
  /\ Ledger!TypeOK
  /\ lots \in [LotIds -> Lot]
  /\ position \in Position
  /\ entry \in [pc : {"idle", "quoting", "refused", "linking"},
                evidence : Evidences \cup {Nothing}, fraction : 0..Target,
                stage : {"none", "starter", "scale"}]
  /\ exit \in [pc : {"idle", "quoting", "syncing"}, remaining : 0..Target,
               status : {"none"} \cup Open, stage : 0..2, queue : SUBSET LotIds]
  /\ release \in Releases
  /\ losses \in 0..MaxLosses
  /\ overtaken \in BOOLEAN

(* An open lot always has an active reservation of its own that covers     *)
(* what it still holds: before and after its link, between an exit and its *)
(* synchronisation, beside the other task, and after any loss of the       *)
(* process.  Open exposure is never beyond the portfolio of the ledger.    *)
OpenLotsAreBacked ==
  \A l \in OpenLots : /\ Holds(Backing(l), lots[l].remaining)
                      /\ \A k \in OpenLots : k # l => Backing(k) # Backing(l)

(* One piece of evidence buys one lot in the life of the database, however *)
(* often it is seen again, by whichever release, after a loss between the  *)
(* commit of the lot and its link included.                                *)
EvidenceEntersOnce == \A e \in Evidences : Cardinality(LotsOf(e)) <= 1

(* The row of a position never says more than its open lots hold, and an   *)
(* open position has an open lot to sell, whatever was scaled in an exit's *)
(* awaits.  It may say less: what an exit writes over a scale is lost to   *)
(* the row, and its lot then stays open under a closed position.           *)
PositionIsCovered ==
  /\ position.remaining <= UnitsIn(PositionLots, Remaining)
  /\ position.status \in Open => position.remaining > 0

(* Unless an exit has written over a scale, the position is the sum of its *)
(* lots, after proportional exits too: no exit leaves a closed position    *)
(* with an open lot.                                                       *)
PositionMatchesUnlessOvertaken ==
  ~overtaken =>
    /\ position.remaining = UnitsIn(OpenLots, Remaining)
    /\ position.status \in Open <=> OpenLots # {}
    /\ \A l \in OpenLots : lots[l].generation = position.generation

(* The ledger realises no more of a lot than exits have sold of it, over   *)
(* all its slices, although an exit and its slice are two transactions.    *)
RealisedWasSold ==
  \A l \in Linked :
    Cardinality({u \in (Ledger!Keys \X (1..Units)) :
                   /\ u[1][2] \in {lots[l].evidence} \cup {<<l, n>> : n \in 1..Target}
                   /\ u[2] <= settlements[u[1]].fraction})
      <= lots[l].entry - lots[l].remaining

(* As long as the process is not lost, exactly the open lots' fractions    *)
(* are reserved whenever no entry is in progress and no exit between its   *)
(* cut and its slices, an exit that awaits its quotes or has written over  *)
(* a scale included: a refused entry has given its capital back and an     *)
(* exit has released what it sold.                                         *)
CapitalFollowsExposure ==
  (losses = 0 /\ entry = NoEntry /\ ~ExitRuns) =>
    Cardinality({h \in Ledger!HeldUnits(reservations) : h[1][2] \notin Others})
      = UnitsIn(OpenLots, Remaining)

(* The ledger moves only as its own operations allow.                      *)
LedgerIsKept == Ledger!Spec
=============================================================================

--------------------------- MODULE PaperLifecycle ---------------------------
(***************************************************************************)
(* How a paper entry gets its capital and gives it back: the buy that      *)
(* decides the entry, the lifecycle runtime that reserves and settles, and *)
(* the deploys in between, over the ledger of PaperCapital.                *)
(*                                                                         *)
(* A buy first records its SOLANA trial, then awaits another quote for it  *)
(* and only then decides the trial for good.  Without an await, but in     *)
(* transactions of their own, it goes on to record the FOMO trial of the   *)
(* same signature, decided without a look at the SOLANA one, and then to   *)
(* suppress it when both are entered: a loss of the process or an          *)
(* exception in between leaves both entered.  Meanwhile, every second, the *)
(* lifecycle loop reserves capital for every entered trial of its release  *)
(* and settles what has an outcome.  The loop's passes are taken one       *)
(* position at a time, in any order: each is a transaction of its own.     *)
(* What an exit measures is PaperCapital's net return and has no part      *)
(* here; when it happens is ExactExit's and StagedExit's.                  *)
(*                                                                         *)
(* Sizes are units of the portfolio, as in PaperCapital.                   *)
(***************************************************************************)
EXTENDS Integers, FiniteSets

CONSTANTS
  Signatures,    \* buys observed: source_signature
  Units,         \* units in the whole portfolio
  SolanaSizes,   \* position_fraction a SOLANA trial may get
  FomoSizes,     \* position_fraction a FOMO trial may get
  MaxRelease,    \* bound: releases deployed over one database
  MaxFaults      \* bound: restarts of a release, and exceptions that cut a buy

ASSUME LifecycleAssumption ==
  /\ IsFiniteSet(Signatures)
  /\ Units \in Nat
  /\ SolanaSizes \subseteq 1..Units
  /\ FomoSizes \subseteq 1..Units
  /\ MaxRelease \in Nat \ {0}
  /\ MaxFaults \in Nat

Releases  == 1..MaxRelease
Positions == {"solana", "fomo"} \X Signatures     \* _reservation_id
Solana(e) == <<"solana", e>>
Fomo(e)   == <<"fomo", e>>

VARIABLES
  reservations, settlements,  \* the ledger
  trials,        \* risk_conditioned_alpha_v5_trials and fomo_paper_trials
  outcomes,      \* positions with a row in their surface's outcome table
  buys,          \* what the buy of each signature is doing
  refusing,      \* the position a sync was refused capital for and must demote
  release,       \* the release running
  faults

ledger  == <<reservations, settlements>>
durable == <<ledger, trials, outcomes>>
vars    == <<durable, buys, refusing, release, faults>>

(* The lifecycle runtime reserves the whole position or nothing.           *)
Whole(size) == [requested |-> size, minimum |-> size, capacity |-> Units, downsize |-> FALSE]

Ledger == INSTANCE PaperCapital WITH
            Ids <- Positions, Residuals <- {}, Returns <- {0},
            Calls <- {Whole(size) : size \in 1..Units}

Decisions == {"absent", "entered", "observed", "refused"}
Trial     == [decision : Decisions, size : 0..Units, release : 0..MaxRelease]
NoTrial   == [decision |-> "absent", size |-> 0, release |-> 0]
Decided(decision, size) == [decision |-> decision, size |-> size, release |-> release]

(* Trials are selected by the release_commit (or its epoch) that runs.     *)
Entered(p)  == trials[p].decision = "entered"
Current(p)  == trials[p].release = release
Status(p)   == Ledger!CanonicalStatus(p)

(* A buy that has decided and not returned holds the event loop, and so    *)
(* does a sync between its refusal and its demotion.                       *)
Deciding  == {e \in Signatures : buys[e] \in {"decided", "recorded"}}
EventLoop == refusing = {} /\ Deciding = {}

-----------------------------------------------------------------------------
(* The base buy records its trial, entered or not, and _completed_solana_  *)
(* buy awaits an execution for the size the completion wants.              *)
BaseBuy(e) ==
  /\ EventLoop
  /\ buys[e] = "unseen"
  /\ \E trial \in {Decided("observed", 0)} \cup {Decided("entered", s) : s \in SolanaSizes} :
       trials' = [trials EXCEPT ![Solana(e)] = trial]
  /\ buys' = [buys EXCEPT ![e] = "quoting"]
  /\ UNCHANGED <<ledger, outcomes, refusing, release, faults>>

(* The buy resumes: the trial is entered at the size of the new quote,     *)
(* deferred (unless a sync has already refused it), or kept as it was (a   *)
(* rejection, a high chase, an exception).                                 *)
SolanaTrials(trial) ==
  {trial} \cup {Decided("entered", s) : s \in SolanaSizes}
    \cup (IF trial.decision = "refused" THEN {} ELSE {Decided("observed", 0)})

FinishBuy(e) ==
  /\ EventLoop
  /\ buys[e] = "quoting"
  /\ \E solana \in SolanaTrials(trials[Solana(e)]) :
       trials' = [trials EXCEPT ![Solana(e)] = solana]
  /\ buys' = [buys EXCEPT ![e] = "decided"]
  /\ UNCHANGED <<ledger, outcomes, refusing, release, faults>>

(* _record_paper_trial commits the FOMO row, on what FOMO evidence says,   *)
(* or finds nothing to record.                                             *)
RecordFomo(e) ==
  /\ buys[e] = "decided"
  /\ \E fomo \in {NoTrial, Decided("observed", 0)} \cup {Decided("entered", s) : s \in FomoSizes} :
       trials' = [trials EXCEPT ![Fomo(e)] = fomo]
  /\ buys' = [buys EXCEPT ![e] = "recorded"]
  /\ UNCHANGED <<ledger, outcomes, refusing, release, faults>>

(* Mutant: the check looks for capital at work instead of an entry.        *)
SameOpportunityFunded(e) == Status(Solana(e)) = "active"

(* _same_opportunity_solana_entry                                          *)
SameOpportunity(e) == Entered(Solana(e))

(* _suppress_fomo_entry: only an entry is touched.                         *)
Suppressed(trial) ==
  IF trial.decision = "entered"
  THEN [decision |-> "observed", size |-> 0, release |-> trial.release]
  ELSE trial

(* The check that ends the buy: the FOMO entry is suppressed beside a      *)
(* SOLANA entry, or by a terminal rejection of the SOLANA trial.           *)
CheckFomo(e) ==
  /\ buys[e] = "recorded"
  /\ \/ trials' = [trials EXCEPT ![Fomo(e)] = Suppressed(trials[Fomo(e)])]
     \/ ~SameOpportunity(e) /\ UNCHANGED trials
  /\ buys' = [buys EXCEPT ![e] = "done"]
  /\ UNCHANGED <<ledger, outcomes, refusing, release, faults>>

(* An append, a lookup or the suppressing transaction raises: observe      *)
(* swallows it and what was still to do for the buy is left undone.        *)
CutBuy(e) ==
  /\ e \in Deciding
  /\ faults < MaxFaults
  /\ faults' = faults + 1
  /\ buys' = [buys EXCEPT ![e] = "cut"]
  /\ UNCHANGED <<durable, refusing, release>>

-----------------------------------------------------------------------------
(* Mutants: a settled reservation is taken for a refusal; a replayed       *)
(* rejection is taken for a success.                                       *)
RefusedUnlessActive(status) == status # "active"
RefusedAtFirst(status)      == status = "absent"

(* The statuses for which a sync demotes the trial.                        *)
Refused(status) == status \notin {"active", "settled"}

(* _sync_solana_entry, _sync_fomo_entry: reserve, or replay what the       *)
(* ledger already holds, and go on to demote the trial when that is not    *)
(* an active or settled reservation.                                       *)
SyncEntry(p) ==
  /\ EventLoop
  /\ Entered(p) /\ Current(p)
  /\ IF Status(p) = "absent"
     THEN /\ Ledger!Reserve(release, p, Whole(trials[p].size))
          /\ refusing' = IF Ledger!Granted(Whole(trials[p].size)) = 0 THEN {p} ELSE {}
     ELSE /\ UNCHANGED ledger
          /\ refusing' = IF Refused(Status(p)) THEN {p} ELSE {}
  /\ UNCHANGED <<trials, outcomes, buys, release, faults>>

(* Mutant: the demoted trial keeps its position_fraction.                  *)
DemoteKeepingSize(p) ==
  /\ p \in refusing
  /\ trials' = [trials EXCEPT ![p].decision = "refused"]
  /\ refusing' = {}
  /\ UNCHANGED <<ledger, outcomes, buys, release, faults>>

(* What a demotion makes of a trial.                                       *)
Refusal(trial) == [decision |-> "refused", size |-> 0, release |-> trial.release]

(* The second transaction of a refused sync.                               *)
Demote(p) ==
  /\ p \in refusing
  /\ trials' = [trials EXCEPT ![p] = Refusal(trials[p])]
  /\ refusing' = {}
  /\ UNCHANGED <<ledger, outcomes, buys, release, faults>>

(* An exit engine measures a position: it looks for entered trials of its  *)
(* own release, and not at their capital.                                  *)
Measure(p) ==
  /\ EventLoop
  /\ Entered(p) /\ Current(p)
  /\ p \notin outcomes
  /\ outcomes' = outcomes \cup {p}
  /\ UNCHANGED <<ledger, trials, buys, refusing, release, faults>>

(* Mutant: the join looks only for reservations of the running release.    *)
HasOutcomeOfRelease(p) == p \in outcomes /\ Current(p)

(* _active_outcomes: reservations joined with the outcomes of their        *)
(* surface, whatever the release of either.                                *)
HasOutcome(p) == p \in outcomes

(* sync_settlements_across_releases and _settle_one, for one reservation.  *)
SettleOne(p) ==
  /\ EventLoop
  /\ HasOutcome(p)
  /\ Ledger!Settle(p, 0)
  /\ UNCHANGED <<trials, outcomes, buys, refusing, release, faults>>

-----------------------------------------------------------------------------
(* The process is lost: a buy that was under way is not taken up again     *)
(* (its observation is not new), a refused trial not yet demoted remains.  *)
Lose ==
  /\ buys' = [e \in Signatures |-> IF buys[e] \in {"unseen", "done"} THEN buys[e] ELSE "cut"]
  /\ refusing' = {}
  /\ UNCHANGED durable

Restart ==
  /\ faults < MaxFaults
  /\ faults' = faults + 1
  /\ Lose
  /\ UNCHANGED release

(* A new release over the same database.                                   *)
Deploy ==
  /\ release < MaxRelease
  /\ release' = release + 1
  /\ Lose
  /\ UNCHANGED faults

Init ==
  /\ Ledger!Init
  /\ trials = [p \in Positions |-> NoTrial]
  /\ outcomes = {}
  /\ buys = [e \in Signatures |-> "unseen"]
  /\ refusing = {}
  /\ release = 1
  /\ faults = 0

Next ==
  \/ \E e \in Signatures : BaseBuy(e) \/ FinishBuy(e) \/ RecordFomo(e) \/ CheckFomo(e) \/ CutBuy(e)
  \/ \E p \in Positions : SyncEntry(p) \/ Demote(p) \/ Measure(p) \/ SettleOne(p)
  \/ Restart
  \/ Deploy

Spec == Init /\ [][Next]_vars

(* The lifecycle loop ticks every second for as long as a process runs,    *)
(* and every tick syncs every candidate and every measured reservation; a  *)
(* buy that has resumed runs to its end without an await.                  *)
LoopFairness ==
  /\ \A p \in Positions : WF_vars(SyncEntry(p)) /\ WF_vars(Demote(p)) /\ WF_vars(SettleOne(p))
  /\ \A e \in Signatures : WF_vars(RecordFomo(e)) /\ WF_vars(CheckFomo(e))

LiveSpec == Spec /\ LoopFairness

-----------------------------------------------------------------------------
(* Type invariant: the ledger, the trials and the tasks are well formed.   *)
TypeOK ==
  /\ Ledger!TypeOK
  /\ trials \in [Positions -> Trial]
  /\ outcomes \subseteq Positions
  /\ buys \in [Signatures -> {"unseen", "quoting", "decided", "recorded", "done", "cut"}]
  /\ refusing \subseteq Positions /\ Cardinality(refusing) <= 1
  /\ release \in Releases
  /\ \A p \in Positions : trials[p].size > 0 <=> Entered(p)

(* The SOLANA and FOMO trials of one signature are never both entered when *)
(* the buy has run to its end, whatever refusals, resizes and deferrals    *)
(* came between; a buy cut before its check may leave both, and the loop   *)
(* sees neither before the check.                                          *)
EnteredOnceUnlessCut ==
  \A e \in Signatures :
    Entered(Solana(e)) /\ Entered(Fomo(e)) => buys[e] \in {"recorded", "cut"}

(* An entry that was refused capital holds none, in any release: the sync  *)
(* never demotes a trial whose capital is at work or was already realised. *)
RefusedHoldNoCapital ==
  \A p \in Positions :
    trials[p].decision = "refused" =>
      \A r \in Releases : reservations[<<r, p>>].status \in {"absent", "rejected"}

(* Whatever the buys, the loop, restarts and deploys do, the ledger moves  *)
(* only as its own operations allow.                                       *)
LedgerIsKept == Ledger!Spec

(* Once measured, a position gives its capital back, also when the release *)
(* that reserved it is gone.                                               *)
MeasuredCapitalReturns ==
  \A p \in Positions : (Status(p) = "active" /\ p \in outcomes) ~> Status(p) = "settled"

(* An entry of the running release does not stay entered without capital,  *)
(* although a loss of the process may come between its refusal and its     *)
(* demotion.                                                               *)
EntriesAreFundedOrDropped ==
  \A p \in Positions :
    (Entered(p) /\ Current(p)) ~>
      (~Entered(p) \/ ~Current(p) \/ Status(p) \in {"active", "settled"})

-----------------------------------------------------------------------------
(* What the code says of itself and does not keep.                         *)

(* "one economic opportunity cannot consume portfolio capital twice".      *)
OpportunityFundedOnce ==
  \A e \in Signatures : ~(Status(Solana(e)) = "active" /\ Status(Fomo(e)) = "active")
=============================================================================

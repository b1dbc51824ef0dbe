------------------------ MODULE PaperLifecycleProofs ------------------------
(***************************************************************************)
(* Proofs about PaperLifecycle, for every set of buys, every portfolio and *)
(* any number of releases and restarts.                                    *)
(***************************************************************************)
EXTENDS PaperLifecycle, FiniteSetTheorems, TLAPS

Unfunded == {"absent", "rejected"}

(* The ledger has no cancelled row: the lifecycle runtime never cancels.   *)
NeverCancelled == \A k \in Ledger!Keys : reservations[k].status # "cancelled"

(* Whoever is about to be demoted is an entry that holds nothing.          *)
RefusingAreUnfundedEntries ==
  \A p \in refusing :
    /\ Entered(p)
    /\ \A r \in Releases : reservations[<<r, p>>].status \in Unfunded

(* The FOMO trial of a signature is recorded when its buy has resumed.     *)
FomoComesLast ==
  \A e \in Signatures :
    buys[e] \in {"unseen", "quoting", "decided"} => trials[Fomo(e)].decision = "absent"

(* A sync between refusal and demotion shares the event loop with no buy.  *)
OneTaskRuns == refusing # {} => Deciding = {}

(* The inductive invariant.                                                *)
IInv ==
  /\ TypeOK
  /\ NeverCancelled
  /\ RefusingAreUnfundedEntries
  /\ RefusedHoldNoCapital
  /\ FomoComesLast
  /\ OneTaskRuns
  /\ EnteredOnceUnlessCut

-----------------------------------------------------------------------------
(* Positions of different signatures or surfaces are different.            *)
LEMMA PositionsDiffer ==
  /\ \A e \in Signatures : Solana(e) \in Positions /\ Fomo(e) \in Positions
  /\ \A e, f \in Signatures : Solana(e) # Fomo(f)
  /\ \A e, f \in Signatures : e # f => Solana(e) # Solana(f) /\ Fomo(e) # Fomo(f)
  /\ \A p \in Positions : \E e \in Signatures : p = Solana(e) \/ p = Fomo(e)
BY DEF Positions, Solana, Fomo

LEMMA AtMostOne ==
  ASSUME NEW p \in Positions, NEW some \in {{p}, {}}
  PROVE  some \subseteq Positions /\ Cardinality(some) <= 1
<1>1. Cardinality({p}) = 1
  BY FS_Singleton
<1>2. Cardinality({}) = 0
  BY FS_EmptySet
<1>3. CASE some = {p}
  BY <1>1, <1>3
<1>4. CASE some = {}
  BY <1>2, <1>4
<1>. QED  BY <1>3, <1>4

LEMMA LedgerKeys == Ledger!Keys = Releases \X Positions
BY DEF Ledger!Keys, Ledger!AllIds

(* A reservation of the whole position is granted whole or not at all.     *)
LEMMA WholeOrNothing ==
  ASSUME NEW size \in 1..Units
  PROVE  /\ Ledger!Granted(Whole(size)) \in {0, size}
         /\ Ledger!NewRow(Ledger!Granted(Whole(size))) \in Ledger!Row
         /\ Ledger!NewRow(Ledger!Granted(Whole(size))).status \in {"active", "rejected"}
         /\ Ledger!Granted(Whole(size)) = 0
              => Ledger!NewRow(Ledger!Granted(Whole(size))).status = "rejected"
<1>. Units \in Nat
  BY LifecycleAssumption
<1>1. Ledger!Granted(Whole(size)) \in {0, size}
  BY DEF Ledger!Granted, Whole
<1>. QED  BY <1>1 DEF Ledger!NewRow, Ledger!Row, Ledger!Statuses

(* A status for which a sync demotes is that of a position without         *)
(* capital.                                                                *)
LEMMA RefusedIsUnfunded ==
  ASSUME Ledger!TypeOK, NeverCancelled, NEW p \in Positions, Refused(Status(p))
  PROVE  \A r \in Releases : reservations[<<r, p>>].status \in Unfunded
<1>. SUFFICES ASSUME NEW r \in Releases
              PROVE  reservations[<<r, p>>].status \in Unfunded
  OBVIOUS
<1>1. <<r, p>> \in Ledger!Keys
  BY LedgerKeys
<1>2. reservations[<<r, p>>].status \in Ledger!Statuses \ {"cancelled"}
  BY <1>1 DEF Ledger!TypeOK, Ledger!Row, NeverCancelled
<1>3. reservations[<<r, p>>].status \notin {"active", "settled"}
  BY DEF Refused, Status, Ledger!CanonicalStatus
<1>. QED  BY <1>2, <1>3 DEF Ledger!Statuses, Unfunded

-----------------------------------------------------------------------------
(* The first state satisfies the invariant.                                *)
LEMMA InitIInv == Init => IInv
<1>. SUFFICES ASSUME Init PROVE IInv
  OBVIOUS
<1>. USE LifecycleAssumption
<1>1. Ledger!TypeOK
  BY LedgerKeys DEF Init, Ledger!Init, Ledger!TypeOK, Ledger!Row, Ledger!Statuses,
     Ledger!AbsentRow, Ledger!Settlement, Ledger!NoSettlement
<1>2. trials \in [Positions -> Trial] /\ \A p \in Positions : trials[p] = NoTrial
  BY DEF Init, Trial, NoTrial, Decisions
<1>3. refusing = {} /\ Cardinality(refusing) <= 1
  BY FS_EmptySet DEF Init
<1>4. \A p \in Positions : trials[p].size > 0 <=> Entered(p)
  BY <1>2 DEF NoTrial, Entered
<1>5. TypeOK
  BY <1>1, <1>2, <1>3, <1>4 DEF Init, TypeOK, Releases
<1>6. \A k \in Ledger!Keys : reservations[k].status = "absent"
  BY DEF Init, Ledger!Init, Ledger!AbsentRow
<1>7. NeverCancelled
  BY <1>6 DEF NeverCancelled
<1>8. RefusingAreUnfundedEntries /\ OneTaskRuns
  BY <1>3 DEF RefusingAreUnfundedEntries, OneTaskRuns
<1>9. RefusedHoldNoCapital
  BY <1>2 DEF RefusedHoldNoCapital, NoTrial
<1>10. FomoComesLast /\ EnteredOnceUnlessCut
  BY <1>2, PositionsDiffer DEF FomoComesLast, EnteredOnceUnlessCut, Entered, NoTrial
<1>. QED  BY <1>5, <1>7, <1>8, <1>9, <1>10 DEF IInv

(* A buy decides trials of its own signature, and leaves the ledger alone. *)
LEMMA DecidedIsTrial ==
  ASSUME release \in Releases
  PROVE  /\ Decided("observed", 0) \in Trial
         /\ \A s \in 1..Units : Decided("entered", s) \in Trial
BY LifecycleAssumption DEF Decided, Trial, Decisions, Releases

LEMMA BaseBuyIInv ==
  ASSUME IInv, NEW e \in Signatures, BaseBuy(e)
  PROVE  IInv'
<1>. USE LifecycleAssumption DEF IInv
<1>1. PICK trial \in {Decided("observed", 0)} \cup {Decided("entered", s) : s \in SolanaSizes} :
        trials' = [trials EXCEPT ![Solana(e)] = trial]
  BY DEF BaseBuy
<1>2. /\ buys' = [buys EXCEPT ![e] = "quoting"]
      /\ UNCHANGED <<ledger, outcomes, refusing, release, faults>>
      /\ buys[e] = "unseen" /\ refusing = {}
  BY DEF BaseBuy, EventLoop
<1>3. trial \in Trial /\ trial.decision # "refused" /\ (trial.size > 0 <=> trial.decision = "entered")
  BY DecidedIsTrial DEF TypeOK, Decided
<1>4. Solana(e) \in Positions /\ trials \in [Positions -> Trial]
  BY PositionsDiffer DEF TypeOK
<1>5. /\ trials'[Solana(e)] = trial
      /\ \A p \in Positions : p # Solana(e) => trials'[p] = trials[p]
  BY <1>1, <1>4
<1>6. \A f \in Signatures : trials'[Fomo(f)] = trials[Fomo(f)]
  BY <1>5, PositionsDiffer
<1>7. TypeOK'
  <2>1. Ledger!TypeOK'
    BY <1>2 DEF TypeOK, Ledger!TypeOK, ledger
  <2>2. trials' \in [Positions -> Trial]
    BY <1>1, <1>3, <1>4
  <2>3. \A p \in Positions : trials'[p].size > 0 <=> Entered(p)'
    BY <1>3, <1>5 DEF TypeOK, Entered
  <2>. QED  BY <1>2, <2>1, <2>2, <2>3 DEF TypeOK
<1>8. RefusedHoldNoCapital'
  BY <1>2, <1>3, <1>5 DEF RefusedHoldNoCapital, ledger
<1>9. FomoComesLast'
  BY <1>2, <1>6 DEF FomoComesLast, TypeOK
<1>10. EnteredOnceUnlessCut'
  <2>. SUFFICES ASSUME NEW f \in Signatures, Entered(Solana(f))', Entered(Fomo(f))'
                PROVE  buys'[f] \in {"recorded", "cut"}
    BY DEF EnteredOnceUnlessCut
  <2>1. CASE f = e
    BY <1>2, <1>6, <2>1 DEF FomoComesLast, Entered
  <2>2. CASE f # e
    BY <1>2, <1>5, <1>6, <2>2, PositionsDiffer DEF EnteredOnceUnlessCut, Entered, TypeOK
  <2>. QED  BY <2>1, <2>2
<1>11. NeverCancelled' /\ RefusingAreUnfundedEntries' /\ OneTaskRuns'
  BY <1>2 DEF NeverCancelled, RefusingAreUnfundedEntries, OneTaskRuns, ledger
<1>. QED  BY <1>7, <1>8, <1>9, <1>10, <1>11

(* What the steps of a buy that has resumed have in common: they decide    *)
(* one trial, with the event loop to themselves.                           *)
LEMMA DecisionIInv ==
  ASSUME IInv, NEW e \in Signatures, NEW p \in {Solana(e), Fomo(e)}, NEW trial \in Trial,
         trials' = [trials EXCEPT ![p] = trial],
         trial.size > 0 <=> trial.decision = "entered",
         trial.decision = "refused" => trial = trials[p],
         NEW pc \in {"decided", "recorded", "done"},
         buys' = [buys EXCEPT ![e] = pc],
         refusing = {},
         UNCHANGED <<ledger, outcomes, refusing, release, faults>>,
         pc = "decided" => trials'[Fomo(e)].decision = "absent",
         Entered(Solana(e))' /\ Entered(Fomo(e))' => pc = "recorded"
  PROVE  IInv'
<1>. USE LifecycleAssumption DEF IInv
<1>1. p \in Positions /\ trials \in [Positions -> Trial]
  BY PositionsDiffer DEF TypeOK
<1>2. /\ trials'[p] = trial
      /\ \A q \in Positions : q # p => trials'[q] = trials[q]
  BY <1>1
<1>3. TypeOK'
  <2>1. Ledger!TypeOK'
    BY DEF TypeOK, Ledger!TypeOK, ledger
  <2>2. trials' \in [Positions -> Trial]
    BY <1>1
  <2>3. \A q \in Positions : trials'[q].size > 0 <=> Entered(q)'
    BY <1>2 DEF TypeOK, Entered
  <2>4. buys' \in [Signatures -> {"unseen", "quoting", "decided", "recorded", "done", "cut"}]
    BY DEF TypeOK
  <2>. QED  BY <2>1, <2>2, <2>3, <2>4 DEF TypeOK
<1>4. RefusedHoldNoCapital'
  BY <1>2 DEF RefusedHoldNoCapital, ledger
<1>5. \A f \in Signatures : f # e => /\ trials'[Solana(f)] = trials[Solana(f)]
                                    /\ trials'[Fomo(f)] = trials[Fomo(f)]
                                    /\ buys'[f] = buys[f]
  BY <1>2, PositionsDiffer DEF TypeOK
<1>6. buys'[e] = pc
  BY DEF TypeOK
<1>7. FomoComesLast'
  BY <1>5, <1>6 DEF FomoComesLast
<1>8. EnteredOnceUnlessCut'
  <2>. SUFFICES ASSUME NEW f \in Signatures, Entered(Solana(f))', Entered(Fomo(f))'
                PROVE  buys'[f] \in {"recorded", "cut"}
    BY DEF EnteredOnceUnlessCut
  <2>1. CASE f = e
    BY <1>6, <2>1
  <2>2. CASE f # e
    BY <1>5, <2>2 DEF EnteredOnceUnlessCut, Entered
  <2>. QED  BY <2>1, <2>2
<1>9. NeverCancelled' /\ RefusingAreUnfundedEntries' /\ OneTaskRuns'
  BY DEF NeverCancelled, RefusingAreUnfundedEntries, OneTaskRuns, ledger
<1>. QED  BY <1>3, <1>4, <1>7, <1>8, <1>9

LEMMA FinishBuyIInv ==
  ASSUME IInv, NEW e \in Signatures, FinishBuy(e)
  PROVE  IInv'
<1>. USE LifecycleAssumption DEF IInv
<1>1. PICK trial \in SolanaTrials(trials[Solana(e)]) :
        trials' = [trials EXCEPT ![Solana(e)] = trial]
  BY DEF FinishBuy
<1>2. /\ buys[e] = "quoting" /\ buys' = [buys EXCEPT ![e] = "decided"]
      /\ UNCHANGED <<ledger, outcomes, refusing, release, faults>>
      /\ refusing = {}
  BY DEF FinishBuy, EventLoop
<1>3. /\ Solana(e) \in Positions /\ Fomo(e) \in Positions /\ Solana(e) # Fomo(e)
      /\ trials \in [Positions -> Trial]
  BY PositionsDiffer DEF TypeOK
<1>4. /\ trial \in Trial
      /\ trial.size > 0 <=> trial.decision = "entered"
      /\ trial.decision = "refused" => trial = trials[Solana(e)]
  BY <1>3, DecidedIsTrial DEF TypeOK, Decided, SolanaTrials, Entered
<1>5. trials'[Fomo(e)].decision = "absent"
  BY <1>1, <1>2, <1>3 DEF FomoComesLast
<1>6. ~ Entered(Fomo(e))'
  BY <1>5 DEF Entered
<1>. QED  BY <1>1, <1>2, <1>4, <1>5, <1>6, DecisionIInv

LEMMA RecordFomoIInv ==
  ASSUME IInv, NEW e \in Signatures, RecordFomo(e)
  PROVE  IInv'
<1>. USE LifecycleAssumption DEF IInv
<1>1. PICK trial \in {NoTrial, Decided("observed", 0)} \cup {Decided("entered", s) : s \in FomoSizes} :
        trials' = [trials EXCEPT ![Fomo(e)] = trial]
  BY DEF RecordFomo
<1>2. /\ buys[e] = "decided" /\ buys' = [buys EXCEPT ![e] = "recorded"]
      /\ UNCHANGED <<ledger, outcomes, refusing, release, faults>>
  BY DEF RecordFomo
<1>3. refusing = {}
  BY <1>2 DEF OneTaskRuns, Deciding
<1>4. NoTrial \in Trial
  BY DEF NoTrial, Trial, Decisions
<1>5. /\ trial \in Trial
      /\ trial.size > 0 <=> trial.decision = "entered"
      /\ trial.decision # "refused"
  BY <1>4, DecidedIsTrial DEF TypeOK, Decided, NoTrial
<1>. QED  BY <1>1, <1>2, <1>3, <1>5, DecisionIInv

LEMMA CheckFomoIInv ==
  ASSUME IInv, NEW e \in Signatures, CheckFomo(e)
  PROVE  IInv'
<1>. USE LifecycleAssumption DEF IInv
<1>1. /\ buys[e] = "recorded" /\ buys' = [buys EXCEPT ![e] = "done"]
      /\ UNCHANGED <<ledger, outcomes, refusing, release, faults>>
  BY DEF CheckFomo
<1>2. refusing = {}
  BY <1>1 DEF OneTaskRuns, Deciding
<1>3. /\ Solana(e) \in Positions /\ Fomo(e) \in Positions /\ Solana(e) # Fomo(e)
      /\ trials \in [Positions -> Trial]
  BY PositionsDiffer DEF TypeOK
<1>4. PICK trial : trial = Suppressed(trials[Fomo(e)])
  OBVIOUS
<1>5. CASE trials' = [trials EXCEPT ![Fomo(e)] = Suppressed(trials[Fomo(e)])]
  <2>1. trials[Fomo(e)] \in Trial /\ (trials[Fomo(e)].size > 0 <=> trials[Fomo(e)].decision = "entered")
    BY <1>3 DEF TypeOK, Entered
  <2>2. /\ trial \in Trial
        /\ trial.size > 0 <=> trial.decision = "entered"
        /\ trial.decision = "refused" => trial = trials[Fomo(e)]
        /\ trial.decision # "entered"
    BY <1>4, <2>1 DEF Suppressed, Trial, Decisions
  <2>3. trials' = [trials EXCEPT ![Fomo(e)] = trial]
    BY <1>4, <1>5
  <2>4. ~ Entered(Fomo(e))'
    BY <1>3, <2>2, <2>3 DEF Entered
  <2>. QED  BY <1>1, <1>2, <2>2, <2>3, <2>4, DecisionIInv
<1>6. CASE ~ SameOpportunity(e) /\ UNCHANGED trials
  <2>1. PICK same \in Trial : same = trials[Fomo(e)]
    BY <1>3
  <2>2. trials' = [trials EXCEPT ![Fomo(e)] = same]
    BY <1>3, <1>6, <2>1
  <2>3. same.size > 0 <=> same.decision = "entered"
    BY <1>3, <2>1 DEF TypeOK, Entered
  <2>4. ~ Entered(Solana(e))'
    BY <1>6 DEF SameOpportunity, Entered
  <2>. QED  BY <1>1, <1>2, <2>1, <2>2, <2>3, <2>4, DecisionIInv
<1>. QED  BY <1>5, <1>6 DEF CheckFomo

LEMMA CutBuyIInv ==
  ASSUME IInv, NEW e \in Signatures, CutBuy(e)
  PROVE  IInv'
<1>. USE DEF IInv
<1>1. /\ buys' = [buys EXCEPT ![e] = "cut"]
      /\ e \in Deciding
      /\ UNCHANGED <<ledger, trials, outcomes, refusing, release>>
  BY DEF CutBuy, durable
<1>2. TypeOK'
  <2>1. Ledger!TypeOK'
    BY <1>1 DEF TypeOK, Ledger!TypeOK, ledger
  <2>2. buys' \in [Signatures -> {"unseen", "quoting", "decided", "recorded", "done", "cut"}]
    BY <1>1 DEF TypeOK
  <2>. QED  BY <1>1, <2>1, <2>2 DEF TypeOK, Entered
<1>3. buys'[e] = "cut" /\ \A f \in Signatures : f # e => buys'[f] = buys[f]
  BY <1>1 DEF TypeOK
<1>4. FomoComesLast' /\ EnteredOnceUnlessCut'
  BY <1>1, <1>3 DEF FomoComesLast, EnteredOnceUnlessCut, Entered
<1>5. OneTaskRuns'
  BY <1>1 DEF OneTaskRuns
<1>. QED  BY <1>1, <1>2, <1>4, <1>5 DEF NeverCancelled, RefusingAreUnfundedEntries,
            RefusedHoldNoCapital, Entered, ledger

(* A funded or refused entry changes the ledger at its own position.       *)
LEMMA SyncEntryIInv ==
  ASSUME IInv, NEW p \in Positions, SyncEntry(p)
  PROVE  IInv'
<1>. USE LifecycleAssumption DEF IInv
<1>1. /\ UNCHANGED <<trials, outcomes, buys, release, faults>> /\ Entered(p) /\ release \in Releases
      /\ Deciding = {}
  BY DEF SyncEntry, EventLoop, TypeOK
<1>2. CASE Status(p) = "absent"
  <2>. DEFINE k   == <<release, p>>
              row == Ledger!NewRow(Ledger!Granted(Whole(trials[p].size)))
  <2>1. trials[p].size \in 1..Units
    BY <1>1 DEF TypeOK, Trial
  <2>2. k \in Ledger!Keys /\ reservations \in [Ledger!Keys -> Ledger!Row]
    BY <1>1, LedgerKeys DEF TypeOK, Ledger!TypeOK
  <2>3. /\ reservations' = [reservations EXCEPT ![k] = row]
        /\ settlements' = settlements
        /\ Ledger!Rows(p) = {}
        /\ refusing' = IF Ledger!Granted(Whole(trials[p].size)) = 0 THEN {p} ELSE {}
    BY <1>2 DEF SyncEntry, Ledger!Reserve
  <2>4. row \in Ledger!Row /\ row.status \in {"active", "rejected"}
    BY <2>1, WholeOrNothing
  <2>5. reservations'[k] = row /\ \A q \in Ledger!Keys : q # k => reservations'[q] = reservations[q]
    BY <2>2, <2>3
  <2>6. TypeOK'
    <3>1. Ledger!TypeOK'
      BY <2>2, <2>3, <2>4 DEF TypeOK, Ledger!TypeOK
    <3>2. refusing' \subseteq Positions /\ Cardinality(refusing') <= 1
      BY <2>3, AtMostOne
    <3>. QED  BY <1>1, <3>1, <3>2 DEF TypeOK, Entered
  <2>7. NeverCancelled'
    BY <2>4, <2>5 DEF NeverCancelled
  <2>8. RefusingAreUnfundedEntries'
    <3>. SUFFICES ASSUME refusing' = {p}, NEW r \in Releases
                  PROVE  reservations'[<<r, p>>].status \in Unfunded
      BY <1>1, <2>3 DEF RefusingAreUnfundedEntries, Entered
    <3>1. row.status = "rejected"
      BY <2>1, <2>3, WholeOrNothing
    <3>2. reservations[<<r, p>>].status = "absent"
      BY <2>3 DEF Ledger!Rows
    <3>3. <<r, p>> \in Ledger!Keys
      BY LedgerKeys
    <3>. QED  BY <2>5, <3>1, <3>2, <3>3 DEF Unfunded
  <2>9. RefusedHoldNoCapital'
    BY <1>1, <2>5, LedgerKeys DEF RefusedHoldNoCapital, Entered
  <2>10. OneTaskRuns'
    BY <1>1 DEF OneTaskRuns, Deciding
  <2>11. FomoComesLast' /\ EnteredOnceUnlessCut'
    BY <1>1 DEF FomoComesLast, EnteredOnceUnlessCut, Entered
  <2>. QED  BY <2>6, <2>7, <2>8, <2>9, <2>10, <2>11
<1>3. CASE Status(p) # "absent"
  <2>1. UNCHANGED ledger /\ refusing' = IF Refused(Status(p)) THEN {p} ELSE {}
    BY <1>3 DEF SyncEntry
  <2>2. TypeOK'
    <3>1. Ledger!TypeOK'
      BY <2>1 DEF TypeOK, Ledger!TypeOK, ledger
    <3>2. refusing' \subseteq Positions /\ Cardinality(refusing') <= 1
      BY <2>1, AtMostOne
    <3>. QED  BY <1>1, <3>1, <3>2 DEF TypeOK, Entered
  <2>3. RefusingAreUnfundedEntries'
    BY <1>1, <2>1, RefusedIsUnfunded DEF RefusingAreUnfundedEntries, TypeOK, Entered, ledger
  <2>. QED  BY <1>1, <2>1, <2>2, <2>3 DEF NeverCancelled, RefusedHoldNoCapital,
              FomoComesLast, OneTaskRuns, Deciding, EnteredOnceUnlessCut, Entered, ledger
<1>. QED  BY <1>2, <1>3

LEMMA DemoteIInv ==
  ASSUME IInv, NEW p \in Positions, Demote(p)
  PROVE  IInv'
<1>. USE LifecycleAssumption DEF IInv
<1>1. /\ p \in refusing
      /\ trials' = [trials EXCEPT ![p] = Refusal(trials[p])]
      /\ refusing' = {}
      /\ UNCHANGED <<ledger, outcomes, buys, release, faults>>
  BY DEF Demote
<1>2. trials \in [Positions -> Trial]
  BY DEF TypeOK
<1>3. /\ trials'[p] \in Trial /\ trials'[p].decision = "refused" /\ trials'[p].size = 0
      /\ \A q \in Positions : q # p => trials'[q] = trials[q]
  BY <1>1, <1>2 DEF Refusal, Trial, Decisions
<1>4. TypeOK'
  <2>1. Ledger!TypeOK'
    BY <1>1 DEF TypeOK, Ledger!TypeOK, ledger
  <2>2. trials' \in [Positions -> Trial]
    BY <1>1, <1>2, <1>3
  <2>3. refusing' \subseteq Positions /\ Cardinality(refusing') <= 1
    BY <1>1, FS_EmptySet
  <2>4. \A q \in Positions : trials'[q].size > 0 <=> Entered(q)'
    BY <1>3 DEF TypeOK, Entered
  <2>. QED  BY <1>1, <2>1, <2>2, <2>3, <2>4 DEF TypeOK
<1>5. RefusedHoldNoCapital'
  BY <1>1, <1>3 DEF RefusedHoldNoCapital, RefusingAreUnfundedEntries, Unfunded, ledger
<1>6. FomoComesLast'
  <2>. SUFFICES ASSUME NEW e \in Signatures, buys[e] \in {"unseen", "quoting", "decided"}
                PROVE  trials'[Fomo(e)].decision = "absent"
    BY <1>1 DEF FomoComesLast
  <2>1. trials[Fomo(e)].decision = "absent"
    BY DEF FomoComesLast
  <2>2. Fomo(e) # p
    BY <1>1, <2>1 DEF RefusingAreUnfundedEntries, Entered
  <2>. QED  BY <1>3, <2>1, <2>2, PositionsDiffer
<1>7. EnteredOnceUnlessCut'
  BY <1>1, <1>3, PositionsDiffer DEF EnteredOnceUnlessCut, Entered
<1>8. NeverCancelled' /\ RefusingAreUnfundedEntries' /\ OneTaskRuns'
  BY <1>1 DEF NeverCancelled, RefusingAreUnfundedEntries, OneTaskRuns, ledger
<1>. QED  BY <1>4, <1>5, <1>6, <1>7, <1>8

LEMMA MeasureIInv ==
  ASSUME IInv, NEW p \in Positions, Measure(p)
  PROVE  IInv'
<1>. USE DEF IInv
<1>1. /\ outcomes' = outcomes \cup {p}
      /\ refusing = {}
      /\ UNCHANGED <<ledger, trials, buys, refusing, release, faults>>
  BY DEF Measure, EventLoop
<1>2. TypeOK'
  <2>1. Ledger!TypeOK'
    BY <1>1 DEF TypeOK, Ledger!TypeOK, ledger
  <2>. QED  BY <1>1, <2>1 DEF TypeOK, Entered
<1>. QED  BY <1>1, <1>2 DEF NeverCancelled, RefusingAreUnfundedEntries, RefusedHoldNoCapital,
            FomoComesLast, OneTaskRuns, EnteredOnceUnlessCut, Entered, ledger

(* A settlement closes an active row.                                      *)
LEMMA SettleOneIInv ==
  ASSUME IInv, NEW p \in Positions, SettleOne(p)
  PROVE  IInv'
<1>. USE LifecycleAssumption DEF IInv
<1>1. PICK r \in Releases :
        /\ Ledger!Settleable(r, p)
        /\ settlements' = [settlements EXCEPT ![<<r, p>>] =
                             [fraction |-> reservations[<<r, p>>].reserved, net |-> 0]]
        /\ reservations' = [reservations EXCEPT ![<<r, p>>].status = "settled"]
  BY DEF SettleOne, Ledger!Settle
<1>2. /\ refusing = {}
      /\ UNCHANGED <<trials, outcomes, buys, refusing, release, faults>>
  BY DEF SettleOne, EventLoop
<1>. DEFINE k == <<r, p>>
<1>3. k \in Ledger!Keys /\ reservations[k].status = "active"
  BY <1>1, LedgerKeys DEF Ledger!Settleable, Ledger!ActiveRows
<1>4. /\ reservations \in [Ledger!Keys -> Ledger!Row]
      /\ settlements \in [Ledger!Keys -> Ledger!Settlement]
  BY DEF TypeOK, Ledger!TypeOK
<1>5. /\ reservations'[k] \in Ledger!Row
      /\ reservations'[k].status = "settled"
      /\ \A q \in Ledger!Keys : q # k => reservations'[q] = reservations[q]
  BY <1>1, <1>3, <1>4 DEF Ledger!Row, Ledger!Statuses
<1>6. TypeOK'
  <2>1. reservations' \in [Ledger!Keys -> Ledger!Row]
    BY <1>1, <1>3, <1>4, <1>5
  <2>2. [fraction |-> reservations[k].reserved, net |-> 0] \in Ledger!Settlement
    BY <1>3, <1>4 DEF Ledger!Row, Ledger!Settlement
  <2>3. Ledger!TypeOK'
    BY <1>1, <1>3, <1>4, <2>1, <2>2 DEF Ledger!TypeOK
  <2>. QED  BY <1>2, <2>3 DEF TypeOK, Entered
<1>7. NeverCancelled'
  BY <1>5 DEF NeverCancelled
<1>8. RefusedHoldNoCapital'
  <2>1. trials[p].decision # "refused"
    BY <1>3 DEF RefusedHoldNoCapital
  <2>. QED  BY <1>2, <1>5, <2>1, LedgerKeys DEF RefusedHoldNoCapital
<1>. QED  BY <1>2, <1>6, <1>7, <1>8 DEF RefusingAreUnfundedEntries,
            FomoComesLast, OneTaskRuns, EnteredOnceUnlessCut, Entered

(* Losing the process only ends buys and forgets a refusal.                *)
LEMMA LoseIInv ==
  ASSUME IInv, Lose, release' \in Releases
  PROVE  IInv'
<1>. USE DEF IInv
<1>1. /\ buys' = [e \in Signatures |-> IF buys[e] \in {"unseen", "done"} THEN buys[e] ELSE "cut"]
      /\ refusing' = {}
      /\ UNCHANGED <<ledger, trials, outcomes>>
  BY DEF Lose, durable
<1>2. TypeOK'
  <2>1. Ledger!TypeOK'
    BY <1>1 DEF TypeOK, Ledger!TypeOK, ledger
  <2>2. buys' \in [Signatures -> {"unseen", "quoting", "decided", "recorded", "done", "cut"}]
    BY <1>1 DEF TypeOK
  <2>3. refusing' \subseteq Positions /\ Cardinality(refusing') <= 1
    BY <1>1, FS_EmptySet
  <2>. QED  BY <1>1, <2>1, <2>2, <2>3 DEF TypeOK, Entered
<1>3. FomoComesLast' /\ EnteredOnceUnlessCut'
  BY <1>1 DEF FomoComesLast, EnteredOnceUnlessCut, Entered
<1>4. OneTaskRuns'
  BY <1>1 DEF OneTaskRuns
<1>. QED  BY <1>1, <1>2, <1>3, <1>4 DEF NeverCancelled, RefusingAreUnfundedEntries,
            RefusedHoldNoCapital, Entered, ledger

LEMMA NextIInv == IInv /\ [Next]_vars => IInv'
<1>. SUFFICES ASSUME IInv, [Next]_vars PROVE IInv'
  OBVIOUS
<1>1. CASE \E e \in Signatures :
             BaseBuy(e) \/ FinishBuy(e) \/ RecordFomo(e) \/ CheckFomo(e) \/ CutBuy(e)
  BY <1>1, BaseBuyIInv, FinishBuyIInv, RecordFomoIInv, CheckFomoIInv, CutBuyIInv
<1>2. CASE \E p \in Positions : SyncEntry(p) \/ Demote(p) \/ Measure(p) \/ SettleOne(p)
  BY <1>2, SyncEntryIInv, DemoteIInv, MeasureIInv, SettleOneIInv
<1>3. CASE Restart
  <2>1. Lose /\ release' = release
    BY <1>3 DEF Restart
  <2>. QED  BY <2>1, LoseIInv DEF IInv, TypeOK
<1>4. CASE Deploy
  <2>1. Lose /\ release' = release + 1 /\ release < MaxRelease
    BY <1>4 DEF Deploy
  <2>2. release' \in Releases
    BY <2>1, LifecycleAssumption DEF IInv, TypeOK, Releases
  <2>. QED  BY <2>1, <2>2, LoseIInv
<1>5. CASE UNCHANGED vars
  <2>. USE <1>5 DEF vars, durable, ledger
  <2>1. TypeOK'
    BY DEF IInv, TypeOK, Ledger!TypeOK, Entered
  <2>. QED  BY <2>1 DEF IInv, NeverCancelled, RefusingAreUnfundedEntries, RefusedHoldNoCapital,
              FomoComesLast, OneTaskRuns, Deciding, EnteredOnceUnlessCut, Entered
<1>. QED  BY <1>1, <1>2, <1>3, <1>4, <1>5 DEF Next

-----------------------------------------------------------------------------
THEOREM SpecIInv == Spec => []IInv
<1>. QED  BY InitIInv, NextIInv, PTL DEF Spec

(* Trials, tasks and tables stay well formed.                              *)
THEOREM LifecycleTypeCorrect == Spec => []TypeOK
<1>1. IInv => TypeOK
  BY DEF IInv
<1>. QED  BY <1>1, SpecIInv, PTL

(* Both trials of a signature are entered only between the commit of the   *)
(* FOMO row and its check, or for good when an exception or a loss came    *)
(* between the two: refusals, resizes, deferrals and the loop never do it. *)
THEOREM EnteredOnce == Spec => []EnteredOnceUnlessCut
<1>1. IInv => EnteredOnceUnlessCut
  BY DEF IInv
<1>. QED  BY <1>1, SpecIInv, PTL

(* A trial demoted for lack of capital holds none in any release.          *)
THEOREM RefusedHoldNone == Spec => []RefusedHoldNoCapital
<1>1. IInv => RefusedHoldNoCapital
  BY DEF IInv
<1>. QED  BY <1>1, SpecIInv, PTL

(* Every step of the composition is a step of the ledger or leaves it.     *)
LEMMA StepsOfLedger == IInv /\ [Next]_vars => [Ledger!Next]_(Ledger!vars)
<1>. SUFFICES ASSUME IInv, [Next]_vars PROVE [Ledger!Next]_(Ledger!vars)
  OBVIOUS
<1>. USE DEF Ledger!vars
<1>1. ASSUME NEW e \in Signatures,
             BaseBuy(e) \/ FinishBuy(e) \/ RecordFomo(e) \/ CheckFomo(e) \/ CutBuy(e)
      PROVE  UNCHANGED Ledger!vars
  BY <1>1 DEF BaseBuy, FinishBuy, RecordFomo, CheckFomo, CutBuy, durable, ledger
<1>2. ASSUME NEW p \in Positions, SyncEntry(p)
      PROVE  Ledger!Next \/ UNCHANGED Ledger!vars
  <2>1. CASE Status(p) = "absent"
    <3>1. trials[p].size \in 1..Units
      BY <1>2, LifecycleAssumption DEF SyncEntry, IInv, TypeOK, Trial
    <3>2. release \in Releases
      BY DEF IInv, TypeOK
    <3>3. Ledger!Reserve(release, p, Whole(trials[p].size))
      BY <1>2, <2>1 DEF SyncEntry
    <3>. QED  BY <3>1, <3>2, <3>3 DEF Ledger!Next
  <2>2. CASE Status(p) # "absent"
    BY <1>2, <2>2 DEF SyncEntry, ledger
  <2>. QED  BY <2>1, <2>2
<1>3. ASSUME NEW p \in Positions, Demote(p) \/ Measure(p)
      PROVE  UNCHANGED Ledger!vars
  BY <1>3 DEF Demote, Measure, ledger
<1>4. ASSUME NEW p \in Positions, SettleOne(p)
      PROVE  Ledger!Next
  BY <1>4 DEF SettleOne, Ledger!Next
<1>5. CASE Restart \/ Deploy
  BY <1>5 DEF Restart, Deploy, Lose, durable, ledger
<1>6. CASE UNCHANGED vars
  BY <1>6 DEF vars, durable, ledger
<1>. QED  BY <1>1, <1>2, <1>3, <1>4, <1>5, <1>6 DEF Next

(* The lifecycle implements the ledger: whatever it does, the two tables   *)
(* change only by operations of the atomic capital module.                 *)
THEOREM LifecycleKeepsLedger == Spec => LedgerIsKept
<1>1. Init => Ledger!Init
  BY DEF Init
<1>. QED  BY <1>1, SpecIInv, StepsOfLedger, PTL DEF Spec, LedgerIsKept, Ledger!Spec

-----------------------------------------------------------------------------
(* What is proved of the ledger alone holds of the ledger in use.  Capital *)
(* is the same instance as Ledger, with the theorems about it.             *)
Capital == INSTANCE PaperCapitalRefinementProofs WITH
             Ids <- Positions, Residuals <- {}, Returns <- {0},
             Calls <- {Whole(size) : size \in 1..Units}

LEMMA LedgerAssumption == Capital!CapitalAssumption
<1>. USE LifecycleAssumption
<1>1. IsFiniteSet(Releases)
  BY FS_Interval DEF Releases
<1>2. IsFiniteSet({"solana", "fomo"})
  <2>1. IsFiniteSet({"solana"})
    BY FS_Singleton
  <2>2. IsFiniteSet({"solana"} \cup {"fomo"})
    BY <2>1, FS_AddElement
  <2>3. {"solana"} \cup {"fomo"} = {"solana", "fomo"}
    OBVIOUS
  <2>. QED  BY <2>2, <2>3
<1>3. IsFiniteSet(Positions)
  BY <1>2, FS_Product DEF Positions
<1>4. \A S : IsFiniteSet(S) <=> Capital!IsFiniteSet(S)
  BY DEF IsFiniteSet, Capital!IsFiniteSet
<1>5. Positions \cup {} = Positions
  OBVIOUS
<1>6. {Whole(size) : size \in 1..Units} \subseteq Capital!Call
  <2>. SUFFICES ASSUME NEW size \in 1..Units PROVE Whole(size) \in Capital!Call
    OBVIOUS
  <2>1. size \in Nat /\ Units \in 0..Units
    OBVIOUS
  <2>. QED  BY <2>1 DEF Capital!Call, Whole
<1>. QED  BY <1>1, <1>3, <1>4, <1>5, <1>6 DEF Capital!CapitalAssumption, Capital!AllIds

LEMMA SameTotal == \A table : Capital!Total(table) = Ledger!Total(table)
BY DEF Capital!Total, Ledger!Total, Capital!Cardinality, Ledger!Cardinality,
       Capital!HeldUnits, Ledger!HeldUnits, Capital!Keys, Ledger!Keys,
       Capital!AllIds, Ledger!AllIds, Capital!UnitsOf, Ledger!UnitsOf

LEMMA SameInit == Ledger!Init => Capital!Init
BY DEF Ledger!Init, Capital!Init, Capital!Keys, Ledger!Keys, Capital!AllIds, Ledger!AllIds,
       Capital!AbsentRow, Ledger!AbsentRow, Capital!NoSettlement, Ledger!NoSettlement

LEMMA SameNext == Ledger!Next <=> Capital!Next
<1>1. \A r, i, call : Capital!Reserve(r, i, call) <=> Ledger!Reserve(r, i, call)
  BY SameTotal
  DEF Capital!Reserve, Ledger!Reserve, Capital!Rows, Ledger!Rows, Capital!NewRow, Ledger!NewRow,
      Capital!Granted, Ledger!Granted, Capital!Available, Ledger!Available,
      Capital!ActiveTotal, Ledger!ActiveTotal
<1>2. \A i, net : Capital!Settle(i, net) <=> Ledger!Settle(i, net)
  BY DEF Capital!Settle, Ledger!Settle, Capital!Settleable, Ledger!Settleable,
         Capital!ActiveRows, Ledger!ActiveRows, Capital!Settled, Ledger!Settled
<1>3. \A i : Capital!Cancel(i) <=> Ledger!Cancel(i)
  BY DEF Capital!Cancel, Ledger!Cancel, Capital!ActiveRows, Ledger!ActiveRows
<1>. QED  BY <1>1, <1>2, <1>3 DEF Ledger!Next, Capital!Next

(* However buys, restarts and deploys interleave with the loop, SOLANA and *)
(* FOMO entries of all releases together never hold more than the one      *)
(* portfolio.                                                              *)
THEOREM SharedPortfolioConserved == Spec => []Ledger!CapitalConserved
<1>1. Ledger!Init => Capital!IInv
  BY SameInit, LedgerAssumption, Capital!InitIInv
<1>2. Capital!IInv /\ [Ledger!Next]_(Ledger!vars) => Capital!IInv'
  BY SameNext, LedgerAssumption, Capital!NextIInv DEF Ledger!vars, Capital!vars
<1>3. Capital!IInv => Ledger!CapitalConserved
  BY SameTotal DEF Capital!IInv, Ledger!CapitalConserved, Capital!CapitalConserved,
     Capital!ActiveTotal, Ledger!ActiveTotal
<1>. QED  BY <1>1, <1>2, <1>3, LifecycleKeepsLedger, PTL DEF LedgerIsKept, Ledger!Spec

(* The ledger in use is an execution of the capital module as such.        *)
LEMMA LedgerIsCapital == Spec => Capital!Spec
<1>1. Ledger!Init => Capital!Init
  BY SameInit
<1>2. [Ledger!Next]_(Ledger!vars) => [Capital!Next]_(Capital!vars)
  BY SameNext DEF Ledger!vars, Capital!vars
<1>. QED  BY <1>1, <1>2, LifecycleKeepsLedger, PTL DEF LedgerIsKept, Ledger!Spec, Capital!Spec

(* Through the ledger the lifecycle is one account: whatever buys, the     *)
(* loop, restarts and deploys do, each position is opened at most once and *)
(* gives its units back at most once, leaving one result.                  *)
THEOREM LifecycleImplementsAccount == Spec => Capital!ImplementsAccount
<1>1. Capital!Spec => Capital!ImplementsAccount
  BY LedgerAssumption, Capital!LedgerImplementsAccount
<1>. QED  BY <1>1, LedgerIsCapital, PTL

(* Capital at work is never locked: whatever releases and restarts lie     *)
(* behind a reservation, the ledger takes its settlement, for it never     *)
(* finds a second active row or an earlier settlement of the same id.      *)
SettlementIsOpen ==
  \A p \in Positions : Status(p) = "active" => \E r \in Releases : Ledger!Settleable(r, p)

(* Why MeasuredCapitalReturns is never stuck: an active position passes    *)
(* every check of settle_paper_capital in every reachable state.           *)
THEOREM ActiveCapitalCanSettle == Spec => []SettlementIsOpen
<1>1. Capital!Spec => []Capital!IInv
  BY LedgerAssumption, Capital!SpecIInv
<1>2. Capital!IInv => SettlementIsOpen
  <2>. SUFFICES ASSUME Capital!IInv, NEW p \in Positions, Status(p) = "active"
                PROVE  \E r \in Releases : Ledger!Settleable(r, p)
    BY DEF SettlementIsOpen
  <2>1. PICK r \in Releases : reservations[<<r, p>>].status = "active"
    BY DEF Status, Ledger!CanonicalStatus
  <2>2. p \in Capital!AllIds /\ \A q \in Releases : <<q, p>> \in Capital!Keys
    BY DEF Capital!Keys, Capital!AllIds
  <2>3. \A q \in Releases : reservations[<<q, p>>].status # "absent" => q = r
    BY <2>1, <2>2 DEF Capital!IInv, Capital!OneRowPerReservation, Capital!Rows
  <2>4. Ledger!ActiveRows(p) = {r}
    BY <2>1, <2>3 DEF Ledger!ActiveRows
  <2>5. ASSUME NEW q \in Releases PROVE ~ (settlements[<<q, p>>].fraction > 0)
    BY <2>1, <2>2, <2>3 DEF Capital!IInv, Capital!SettlementMatchesReservation
  <2>. QED  BY <2>4, <2>5 DEF Ledger!Settleable, Ledger!Settled
<1>. QED  BY <1>1, <1>2, LedgerIsCapital, PTL

-----------------------------------------------------------------------------
(* What the ledger and the buys owe each other as long as no SOLANA trial  *)
(* is funded before its buy has decided it.                                *)

(* The base trial of a buy that still awaits its quote may change.         *)
Undecided(e) == buys[e] \in {"unseen", "quoting"}

(* The step of the loop that funds a trial its buy may still defer.        *)
FundsUndecided(e) ==
  Undecided(e) /\ Status(Solana(e)) = "absent" /\ Status(Solana(e))' # "absent"

FundsOnlyDecided == \A e \in Signatures : ~ FundsUndecided(e)

DecidedBeforeFunded == [][FundsOnlyDecided]_vars

(* Capital at work, or realised, is of an entered trial and has its size.  *)
FundedAsDecided ==
  \A p \in Positions : \A r \in Releases :
    reservations[<<r, p>>].status \in {"active", "settled"} =>
      Entered(p) /\ reservations[<<r, p>>].reserved = trials[p].size

(* No trial gets a reservation before its buy is through with it.          *)
RowsComeAfterBuys ==
  \A e \in Signatures : \A r \in Releases :
    /\ reservations[<<r, Solana(e)>>].status # "absent" => ~ Undecided(e)
    /\ reservations[<<r, Fomo(e)>>].status # "absent" => buys[e] \in {"done", "cut"}

Decisive == FundedAsDecided /\ RowsComeAfterBuys

(* A trial that a buy is about to decide holds no capital.                 *)
LEMMA BuyIsDecisive ==
  ASSUME IInv, Decisive, NEW e \in Signatures,
         BaseBuy(e) \/ FinishBuy(e) \/ RecordFomo(e) \/ CheckFomo(e) \/ CutBuy(e)
  PROVE  Decisive'
<1>1. /\ UNCHANGED ledger
      /\ buys[e] \notin {"done", "cut"}
      /\ ~ Undecided(e) => ~ Undecided(e)'
      /\ \A f \in Signatures : f # e => buys'[f] = buys[f]
  BY DEF BaseBuy, FinishBuy, RecordFomo, CheckFomo, CutBuy, Deciding, Undecided, IInv, TypeOK, durable
<1>2. \A p \in Positions : \/ trials'[p] = trials[p]
                           \/ p = Solana(e) /\ Undecided(e)
                           \/ p = Fomo(e)
  <2>1. CASE BaseBuy(e) \/ FinishBuy(e)
    BY <2>1, PositionsDiffer DEF BaseBuy, FinishBuy, Undecided, IInv, TypeOK
  <2>2. CASE RecordFomo(e) \/ CheckFomo(e)
    BY <2>2, PositionsDiffer DEF RecordFomo, CheckFomo, IInv, TypeOK
  <2>3. CASE CutBuy(e)
    BY <2>3 DEF CutBuy, durable
  <2>. QED  BY <2>1, <2>2, <2>3
<1>3. FundedAsDecided'
  <2>. SUFFICES ASSUME NEW p \in Positions, NEW r \in Releases,
                       reservations[<<r, p>>].status \in {"active", "settled"}
                PROVE  Entered(p)' /\ reservations[<<r, p>>].reserved = trials'[p].size
    BY <1>1 DEF FundedAsDecided, ledger
  <2>1. ~ (p = Solana(e) /\ Undecided(e)) /\ p # Fomo(e)
    BY <1>1 DEF Decisive, RowsComeAfterBuys
  <2>. QED  BY <1>2, <2>1 DEF Decisive, FundedAsDecided, Entered
<1>4. RowsComeAfterBuys'
  BY <1>1 DEF Decisive, RowsComeAfterBuys, Undecided, ledger
<1>. QED  BY <1>3, <1>4 DEF Decisive

LEMMA SyncIsDecisive ==
  ASSUME IInv, Decisive, NEW p \in Positions, SyncEntry(p),
         \A e \in Signatures : ~ FundsUndecided(e)
  PROVE  Decisive'
<1>1. UNCHANGED <<trials, buys>> /\ Entered(p) /\ release \in Releases /\ Deciding = {}
  BY DEF SyncEntry, EventLoop, IInv, TypeOK
<1>2. CASE Status(p) # "absent"
  BY <1>1, <1>2
  DEF SyncEntry, Decisive, FundedAsDecided, RowsComeAfterBuys, Undecided, Entered, ledger
<1>3. CASE Status(p) = "absent"
  <2>. DEFINE k   == <<release, p>>
              row == Ledger!NewRow(Ledger!Granted(Whole(trials[p].size)))
  <2>1. trials[p].size \in 1..Units
    BY <1>1, LifecycleAssumption DEF IInv, TypeOK, Trial
  <2>2. k \in Ledger!Keys /\ reservations' = [reservations EXCEPT ![k] = row]
    BY <1>1, <1>3, LedgerKeys DEF SyncEntry, Ledger!Reserve
  <2>3. /\ reservations'[k] = row
        /\ \A q \in Ledger!Keys : q # k => reservations'[q] = reservations[q]
    BY <2>2 DEF IInv, TypeOK, Ledger!TypeOK
  <2>4. row.status \in {"active", "rejected"} /\ (row.status = "active" => row.reserved = trials[p].size)
    BY <2>1, WholeOrNothing DEF Ledger!NewRow
  <2>5. FundedAsDecided'
    BY <1>1, <2>3, <2>4, LedgerKeys DEF Decisive, FundedAsDecided, Entered
  <2>6. Status(p)' # "absent"
    <3>1. reservations'[k].status \in {"active", "rejected"}
      BY <2>3, <2>4
    <3>. QED  BY <1>1, <3>1 DEF Status, Ledger!CanonicalStatus
  <2>7. RowsComeAfterBuys'
    <3>. SUFFICES ASSUME NEW e \in Signatures, NEW r \in Releases
                  PROVE  /\ reservations'[<<r, Solana(e)>>].status # "absent" => ~ Undecided(e)
                         /\ reservations'[<<r, Fomo(e)>>].status # "absent"
                              => buys[e] \in {"done", "cut"}
      BY <1>1 DEF RowsComeAfterBuys, Undecided
    <3>1. CASE Solana(e) = p
      <4>1. ~ Undecided(e)
        BY <1>3, <2>6, <3>1 DEF FundsUndecided
      <4>2. <<r, Fomo(e)>> \in Ledger!Keys /\ <<r, Fomo(e)>> # k
        BY <3>1, LedgerKeys, PositionsDiffer
      <4>. QED  BY <2>3, <4>1, <4>2 DEF Decisive, RowsComeAfterBuys
    <3>2. CASE Fomo(e) = p
      <4>1. buys[e] \notin {"unseen", "quoting", "decided"}
        BY <1>1, <3>2 DEF IInv, FomoComesLast, Entered
      <4>2. buys[e] \in {"done", "cut"}
        BY <1>1, <4>1 DEF Deciding, IInv, TypeOK
      <4>. QED  BY <4>2 DEF Undecided
    <3>3. CASE Solana(e) # p /\ Fomo(e) # p
      <4>1. /\ <<r, Solana(e)>> \in Ledger!Keys /\ <<r, Solana(e)>> # k
            /\ <<r, Fomo(e)>> \in Ledger!Keys /\ <<r, Fomo(e)>> # k
        BY <3>3, LedgerKeys, PositionsDiffer
      <4>. QED  BY <2>3, <4>1 DEF Decisive, RowsComeAfterBuys
    <3>. QED  BY <3>1, <3>2, <3>3
  <2>. QED  BY <2>5, <2>7 DEF Decisive
<1>. QED  BY <1>2, <1>3

LEMMA DemoteIsDecisive ==
  ASSUME IInv, Decisive, NEW p \in Positions, Demote(p)
  PROVE  Decisive'
<1>1. /\ p \in refusing /\ UNCHANGED <<ledger, buys>>
      /\ \A q \in Positions : q # p => trials'[q] = trials[q]
  BY DEF Demote, IInv, TypeOK
<1>2. \A r \in Releases : reservations[<<r, p>>].status \in Unfunded
  BY <1>1 DEF IInv, RefusingAreUnfundedEntries
<1>. QED  BY <1>1, <1>2 DEF Decisive, FundedAsDecided, RowsComeAfterBuys, Undecided, Entered, Unfunded,
          ledger

LEMMA SettleIsDecisive ==
  ASSUME IInv, Decisive, NEW p \in Positions, SettleOne(p)
  PROVE  Decisive'
<1>1. PICK r \in Releases :
        /\ Ledger!Settleable(r, p)
        /\ reservations' = [reservations EXCEPT ![<<r, p>>].status = "settled"]
  BY DEF SettleOne, Ledger!Settle
<1>2. UNCHANGED <<trials, buys>> /\ reservations \in [Ledger!Keys -> Ledger!Row]
  BY DEF SettleOne, IInv, TypeOK, Ledger!TypeOK
<1>. DEFINE k == <<r, p>>
<1>3. k \in Ledger!Keys /\ reservations[k].status = "active"
  BY <1>1, LedgerKeys DEF Ledger!Settleable, Ledger!ActiveRows
<1>4. /\ reservations'[k].reserved = reservations[k].reserved
      /\ \A q \in Ledger!Keys : q # k => reservations'[q] = reservations[q]
  BY <1>1, <1>2, <1>3 DEF Ledger!Row
<1>5. \A q \in Ledger!Keys : /\ reservations'[q].reserved = reservations[q].reserved
                             /\ reservations'[q].status # reservations[q].status
                                  => reservations[q].status = "active"
  BY <1>3, <1>4
<1>. QED  BY <1>2, <1>5, LedgerKeys, PositionsDiffer
          DEF Decisive, FundedAsDecided, RowsComeAfterBuys, Undecided, Entered

LEMMA NextIsDecisive ==
  IInv /\ Decisive /\ [Next]_vars /\ [FundsOnlyDecided]_vars => Decisive'
<1>. SUFFICES ASSUME IInv, Decisive, [Next]_vars, [FundsOnlyDecided]_vars
              PROVE  Decisive'
  OBVIOUS
<1>1. CASE UNCHANGED vars
  BY <1>1 DEF vars, durable, ledger, Decisive, FundedAsDecided, RowsComeAfterBuys, Undecided, Entered
<1>2. ASSUME NEW e \in Signatures,
             BaseBuy(e) \/ FinishBuy(e) \/ RecordFomo(e) \/ CheckFomo(e) \/ CutBuy(e)
      PROVE  Decisive'
  BY <1>2, BuyIsDecisive
<1>3. ASSUME NEW p \in Positions, SyncEntry(p), ~ UNCHANGED vars
      PROVE  Decisive'
  BY <1>3, SyncIsDecisive DEF FundsOnlyDecided
<1>4. ASSUME NEW p \in Positions, Demote(p) \/ SettleOne(p)
      PROVE  Decisive'
  BY <1>4, DemoteIsDecisive, SettleIsDecisive
<1>5. ASSUME NEW p \in Positions, Measure(p)
      PROVE  Decisive'
  BY <1>5 DEF Measure, Decisive, FundedAsDecided, RowsComeAfterBuys, Undecided, Entered, ledger
<1>6. CASE Restart \/ Deploy
  <2>1. /\ UNCHANGED <<reservations, trials>>
        /\ \A e \in Signatures : /\ buys[e] \in {"done", "cut"} => buys'[e] \in {"done", "cut"}
                                 /\ ~ Undecided(e) => ~ Undecided(e)'
    BY <1>6 DEF Restart, Deploy, Lose, Undecided, durable, ledger
  <2>. QED  BY <2>1 DEF Decisive, FundedAsDecided, RowsComeAfterBuys, Entered
<1>. QED  BY <1>1, <1>2, <1>3, <1>4, <1>5, <1>6 DEF Next

LEMMA DecisiveHolds == Spec /\ DecidedBeforeFunded => []Decisive
<1>1. Init => Decisive
  BY LedgerKeys, PositionsDiffer
  DEF Init, Ledger!Init, Ledger!AbsentRow, Decisive, FundedAsDecided, RowsComeAfterBuys
<1>. QED  BY <1>1, NextIsDecisive, SpecIInv, PTL DEF Spec, DecidedBeforeFunded

(* Both trials of one opportunity hold capital only after its buy was cut. *)
FundedOnceUnlessCut ==
  \A e \in Signatures :
    Status(Solana(e)) = "active" /\ Status(Fomo(e)) = "active" => buys[e] = "cut"

(* How far the finding of lifecycle_twice reaches: if the loop never funds *)
(* a SOLANA trial before its buy has decided it, one opportunity holds     *)
(* capital twice only where an exception or a loss cut the buy before its  *)
(* check; refusals, restarts and deploys elsewhere do not do it.           *)
THEOREM FundedOnceWhenDecided == Spec /\ DecidedBeforeFunded => []FundedOnceUnlessCut
<1>1. IInv /\ Decisive => FundedOnceUnlessCut
  <2>. SUFFICES ASSUME IInv, Decisive, NEW e \in Signatures,
                       Status(Solana(e)) = "active", Status(Fomo(e)) = "active"
                PROVE  buys[e] = "cut"
    BY DEF FundedOnceUnlessCut
  <2>1. \A p \in Positions : Status(p) = "active" => Entered(p)
    BY DEF Status, Ledger!CanonicalStatus, Decisive, FundedAsDecided
  <2>2. buys[e] \in {"recorded", "cut"}
    BY <2>1, PositionsDiffer DEF IInv, EnteredOnceUnlessCut
  <2>3. buys[e] \in {"done", "cut"}
    BY DEF Status, Ledger!CanonicalStatus, Decisive, RowsComeAfterBuys
  <2>. QED  BY <2>2, <2>3
<1>. QED  BY <1>1, SpecIInv, DecisiveHolds, PTL

(* Under the same condition what the ledger holds of a position, or has    *)
(* realised, is of an entered trial and exactly its size: no buy resizes a *)
(* trial after its capital was reserved.                                   *)
THEOREM FundedAsLastDecided == Spec /\ DecidedBeforeFunded => []FundedAsDecided
<1>1. Decisive => FundedAsDecided
  BY DEF Decisive
<1>. QED  BY <1>1, DecisiveHolds, PTL
=============================================================================

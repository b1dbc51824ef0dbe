-------------------------- MODULE SignalIntakeProofs --------------------------
(***************************************************************************)
(* Proofs about SignalIntake, for any swaps, tokens, entities and sizes,   *)
(* and any number of failures, raises and losses of the process.  What     *)
(* PaperEngineProofs shows of the engine alone holds behind the intake.    *)
(***************************************************************************)
EXTENDS SignalIntake, PaperEngineProofs, FiniteSetTheorems, SequenceTheorems

(* Candidates, in memory or in the checkpoint, come from the claims.       *)
AreClaims(table) ==
  \A t \in Tokens : table[t].status # "none" =>
    /\ firstTouch[t] # NoSwap
    /\ table[t].scout = TouchEntity(t)
    /\ table[t].tier = TierOf[firstTouch[t]]

(* Of a token whose candidate waits no more than a starter was bought.     *)
WaitForTheRest(table) ==
  \A t \in Tokens : table[t].status = "waiting" => bought[t] <= StarterAllowed(t)

(* What was bought, and what the candidates may still buy: those of the    *)
(* checkpoint, when a restart may bring them back.                         *)
EntriesInv ==
  /\ EntriesWereAuthorized
  /\ WaitForTheRest(candidates)
  /\ covered => WaitForTheRest(checkpoint.candidates)
  /\ \A t \in Tokens : firstTouch[t] = NoSwap => bought[t] = 0

(* Nothing was bought of a token, and nothing can be but by its claim.     *)
Unbought(t) ==
  /\ bought[t] = 0
  /\ candidates[t].status = "none"
  /\ checkpoint.candidates[t].status = "none"

AuthorizedAreTouched == \A s \in authorized : firstTouch[TokenOf[s]] # NoSwap

HasHistory == (\E u \in Tokens : positions[u].exists) \/ Cardinality(authorized) = 1

Knowing == {"assessing", "quoting", "authorized"}

(* What stays true of a task across its awaits.                            *)
TaskKnows(s) ==
  /\ claimed[s] => firstTouch[TokenOf[s]] = s
  /\ task[s] \in Knowing => firstTouch[TokenOf[s]] # NoSwap
  /\ task[s] \in Knowing /\ claimed[s] => Unbought(TokenOf[s])
  /\ task[s] \in {"quoting", "authorized"} /\ claimed[s] => TierOf[s] = "S"
  /\ task[s] = "authorized" =>
       /\ s \in authorized
       /\ HasHistory
       /\ ~ claimed[s] => EntityOf[s] # TouchEntity(TokenOf[s])

(* The inductive invariant, beside the engine's.                           *)
IntakeInv ==
  /\ IInv
  /\ IntakeTypeOK
  /\ AreClaims(candidates) /\ AreClaims(checkpoint.candidates)
  /\ EntriesInv
  /\ AuthorizedAreTouched
  /\ \A s \in Swaps : TaskKnows(s)
  /\ \A s, u \in Swaps : task[s] = "authorized" /\ task[u] = "authorized" => s = u
  /\ working => inbox # << >>

-----------------------------------------------------------------------------
(* Every step of the intake is a step of the engine or none of its.        *)
LEMMA StepsAreEngineSteps ==
  ASSUME IntakeTypeOK, [IntakeNext]_<<vars, intake>>
  PROVE  [Next]_vars
<1>. USE IntakeAssumption
<1>1. ASSUME NEW s \in Swaps
      PROVE  TokenOf[s] \in Tokens /\ EntityOf[s] \in Entities /\ TierOf[s] \in {"S", "A"}
  OBVIOUS
<1>2. ASSUME NEW s \in Swaps, Record(s)
      PROVE  [Next]_vars
  BY <1>1, <1>2 DEF Record, Next
<1>3. ASSUME NEW s \in Swaps, TaskStep(s)
      PROVE  [Next]_vars
  <2>1. CASE RegisterTouch(s)
    BY <1>1, <2>1 DEF RegisterTouch, Next
  <2>2. CASE Promote(s)
    BY <1>1, <2>2 DEF Promote, Next
  <2>3. CASE ~ RegisterTouch(s) /\ ~ Promote(s)
    BY <1>3, <2>3 DEF TaskStep, Claim, AskQuote, Assessed, Authorize, Refuse, Decline
  <2>. QED  BY <2>1, <2>2, <2>3
<1>4. ASSUME NEW s \in Swaps, Enqueue(s) \/ Fail(s)
      PROVE  [Next]_vars
  BY <1>4 DEF Enqueue, Fail
<1>5. CASE TakeRow
  <2>1. Head(inbox) \in Swaps
    BY <1>5 DEF TakeRow, Polls, IntakeTypeOK
  <2>. QED  BY <1>2, <1>5, <2>1 DEF TakeRow, Polls
<1>6. CASE CompleteDuplicate \/ RowReturns \/ RejectRow
  BY <1>6 DEF CompleteDuplicate, RowReturns, RejectRow
<1>7. CASE HandlerWrites \/ HandlerReturns \/ HandlerRaises
  BY <1>7 DEF HandlerWrites, HandlerReturns, HandlerRaises, Next, Write
<1>8. ASSUME NEW t \in Tokens, ClockPrices(t) \/ Reap(t)
      PROVE  [Next]_vars
  BY <1>8 DEF ClockPrices, Reap, Next
<1>9. CASE LoseProcess \/ StartProcess
  BY <1>9 DEF LoseProcess, StartProcess, Next
<1>10. CASE UNCHANGED <<vars, intake>>
  BY <1>10
<1>. QED  BY <1>2, <1>3, <1>4, <1>5, <1>6, <1>7, <1>8, <1>9, <1>10 DEF IntakeNext, Hydrate

-----------------------------------------------------------------------------
(* Engine steps that buy nothing and bring no new candidate.               *)
Quiet ==
  /\ bought' = bought
  /\ \A u \in Tokens : candidates'[u].status # "none" =>
       /\ candidates[u].status # "none"
       /\ candidates'[u].scout = candidates[u].scout
       /\ candidates'[u].tier = candidates[u].tier
  /\ \A u \in Tokens : candidates'[u].status = "waiting" => candidates[u].status = "waiting"
  /\ \/ checkpoint' = checkpoint /\ (covered' => covered)
     \/ checkpoint'.candidates = candidates'

LEMMA PriceIsQuiet ==
  ASSUME IInv, NEW t \in Tokens, Price(t)
  PROVE  Quiet
<1>1. candidates \in [Tokens -> Candidate]
  BY DEF IInv, TypeOK
<1>2. checkpoint' = checkpoint /\ (covered' => covered)
  BY DEF Price, PriceMarks, PriceExpires, PriceHarvests, PriceCloses, Writes
<1>3. bought' = bought
  BY DEF Price, PriceMarks, PriceExpires, PriceHarvests, PriceCloses, SellAll, Harvest, Sell, portfolio
<1>4. \A u \in Tokens :
        /\ candidates'[u].status # "none" =>
             /\ candidates[u].status # "none"
             /\ candidates'[u].scout = candidates[u].scout
             /\ candidates'[u].tier = candidates[u].tier
        /\ candidates'[u].status = "waiting" => candidates[u].status = "waiting"
  <2>1. CASE candidates' = candidates
    BY <2>1
  <2>2. CASE /\ candidates[t].status # "none"
             /\ \/ \E status \in {"expired", "closed"} :
                     candidates' = [candidates EXCEPT ![t].status = status]
                \/ candidates' = [candidates EXCEPT ![t].harvested = TRUE]
    <3>1. PICK c : /\ candidates' = [candidates EXCEPT ![t] = c]
                   /\ c.scout = candidates[t].scout /\ c.tier = candidates[t].tier
                   /\ c.status = "waiting" => candidates[t].status = "waiting"
      BY <1>1, <2>2 DEF Candidate
    <3>. QED  BY <1>1, <2>2, <3>1
  <2>. QED  BY <2>1, <2>2 DEF Price, PriceMarks, PriceExpires, PriceHarvests, PriceCloses
<1>. QED  BY <1>2, <1>3, <1>4 DEF Quiet

LEMMA OthersAreQuiet ==
  ASSUME IInv, \/ AppendIntent \/ AppendOutcome \/ SaveCheckpoint \/ Raise \/ Lose
               \/ UNCHANGED vars
  PROVE  Quiet /\ UNCHANGED portfolio
<1>1. UNCHANGED portfolio /\ candidates' = candidates
  BY DEF AppendIntent, AppendOutcome, SaveCheckpoint, Raise, Lose, vars
<1>2. (checkpoint' = checkpoint /\ (covered' => covered)) \/ checkpoint'.candidates = candidates'
  BY <1>1 DEF AppendIntent, AppendOutcome, SaveCheckpoint, Raise, Lose, vars, durable, Saved, Memory
<1>. QED  BY <1>1, <1>2 DEF Quiet, portfolio

LEMMA PurgeIsQuiet ==
  ASSUME IInv, NEW t \in Tokens, Purge(t)
  PROVE  Quiet
<1>1. UNCHANGED portfolio /\ candidates' = [candidates EXCEPT ![t] = NoCandidate]
  BY DEF Purge
<1>2. candidates \in [Tokens -> Candidate] /\ NoCandidate.status = "none"
  BY DEF IInv, TypeOK, NoCandidate
<1>3. (checkpoint' = checkpoint /\ (covered' => covered)) \/ checkpoint'.candidates = candidates'
  BY <1>1 DEF Purge, Saved, Memory, durable
<1>4. \A u \in Tokens : candidates'[u] = candidates[u] \/ candidates'[u].status = "none"
  BY <1>1, <1>2
<1>. QED  BY <1>1, <1>3, <1>4 DEF Quiet, portfolio

(* The claims and authorisations of a step are kept and only added to.     *)
TablesGrow ==
  /\ \A t \in Tokens : firstTouch[t] # NoSwap => firstTouch'[t] = firstTouch[t]
  /\ authorized \subseteq authorized'

LEMMA AllowedAreNat ==
  ASSUME NEW t
  PROVE  StarterAllowed(t) \in Nat /\ RestAllowed(t) \in Nat
BY EngineAssumption DEF StarterAllowed, RestAllowed

(* What is allowed stays so.                                               *)
LEMMA AllowedGrow ==
  ASSUME IntakeInv, TablesGrow, NEW t \in Tokens, firstTouch[t] # NoSwap
  PROVE  StarterAllowed(t) <= StarterAllowed(t)' /\ RestAllowed(t) <= RestAllowed(t)'
<1>1. firstTouch'[t] = firstTouch[t] /\ authorized \subseteq authorized'
  BY DEF TablesGrow
<1>2. TouchEntity(t)' = TouchEntity(t)
  BY <1>1 DEF TouchEntity
<1>3. Starter \in Nat /\ Full \in Nat /\ Full - Starter \in Nat
  BY EngineAssumption
<1>4. StarterAllowed(t) <= StarterAllowed(t)'
  BY <1>1, <1>3 DEF StarterAllowed
<1>5. RestAllowed(t) <= RestAllowed(t)'
  <2>1. PICK k \in Nat : k = IF TierOf[firstTouch[t]] = "S" THEN Full - Starter ELSE Full
    BY <1>3
  <2>2. RestAllowed(t) =
          IF \E s \in authorized : TokenOf[s] = t /\ EntityOf[s] # TouchEntity(t) THEN k ELSE 0
    BY <2>1 DEF RestAllowed
  <2>3. RestAllowed(t)' =
          IF \E s \in authorized' : TokenOf[s] = t /\ EntityOf[s] # TouchEntity(t) THEN k ELSE 0
    BY <1>1, <1>2, <2>1 DEF RestAllowed
  <2>. QED  BY <1>1, <2>1, <2>2, <2>3
<1>. QED  BY <1>4, <1>5

(* A token of which nothing more was bought.                               *)
LEMMA UntouchedStays ==
  ASSUME IntakeInv, TablesGrow, NEW t \in Tokens, bought'[t] = bought[t]
  PROVE  /\ bought'[t] <= StarterAllowed(t)' + RestAllowed(t)'
         /\ firstTouch[t] # NoSwap /\ bought[t] <= StarterAllowed(t) => bought'[t] <= StarterAllowed(t)'
         /\ firstTouch'[t] = NoSwap => bought'[t] = 0
<1>1. /\ StarterAllowed(t) \in Nat /\ RestAllowed(t) \in Nat
      /\ StarterAllowed(t)' \in Nat /\ RestAllowed(t)' \in Nat
  BY AllowedAreNat, EngineAssumption DEF StarterAllowed, RestAllowed
<1>2. bought[t] \in Nat /\ bought[t] <= StarterAllowed(t) + RestAllowed(t)
  BY DEF IntakeInv, IInv, TypeOK, EntriesInv, EntriesWereAuthorized
<1>3. CASE firstTouch[t] = NoSwap
  <2>1. bought[t] = 0
    BY <1>3 DEF IntakeInv, EntriesInv
  <2>. QED  BY <1>1, <1>3, <2>1
<1>4. CASE firstTouch[t] # NoSwap
  <2>1. StarterAllowed(t) <= StarterAllowed(t)' /\ RestAllowed(t) <= RestAllowed(t)'
    BY <1>4, AllowedGrow
  <2>2. firstTouch'[t] # NoSwap
    BY <1>4 DEF TablesGrow
  <2>. QED  BY <1>1, <1>2, <2>1, <2>2
<1>. QED  BY <1>3, <1>4

LEMMA QuietKeeps ==
  ASSUME IntakeInv, Quiet, TablesGrow
  PROVE  AreClaims(candidates)' /\ AreClaims(checkpoint.candidates)' /\ EntriesInv'
<1>1. AreClaims(candidates)'
  BY DEF IntakeInv, Quiet, TablesGrow, AreClaims, TouchEntity
<1>2. checkpoint' = checkpoint => AreClaims(checkpoint.candidates)'
  BY DEF IntakeInv, TablesGrow, AreClaims, TouchEntity
<1>3. checkpoint'.candidates = candidates' => AreClaims(checkpoint.candidates)'
  BY <1>1 DEF AreClaims
<1>4. \A t \in Tokens :
        /\ bought'[t] <= StarterAllowed(t)' + RestAllowed(t)'
        /\ firstTouch[t] # NoSwap /\ bought[t] <= StarterAllowed(t) => bought'[t] <= StarterAllowed(t)'
        /\ firstTouch'[t] = NoSwap => bought'[t] = 0
  BY UntouchedStays DEF Quiet
<1>5. WaitForTheRest(candidates)'
  BY <1>4 DEF IntakeInv, Quiet, EntriesInv, WaitForTheRest, AreClaims
<1>6. covered' => WaitForTheRest(checkpoint.candidates)'
  <2>1. CASE checkpoint' = checkpoint /\ (covered' => covered)
    BY <1>4, <2>1 DEF IntakeInv, EntriesInv, WaitForTheRest, AreClaims
  <2>2. CASE checkpoint'.candidates = candidates'
    BY <1>5, <2>2 DEF WaitForTheRest
  <2>. QED  BY <2>1, <2>2 DEF Quiet
<1>7. EntriesInv'
  BY <1>4, <1>5, <1>6 DEF EntriesInv, EntriesWereAuthorized
<1>. QED  BY <1>1, <1>2, <1>3, <1>7 DEF Quiet

-----------------------------------------------------------------------------
(* The first touch and the confirmation, with what the intake calls them   *)
(* for.                                                                    *)
LEMMA BuyBuys ==
  ASSUME IInv, NEW t \in Tokens, NEW size \in Nat, Buy(t, size)
  PROVE  /\ \A u \in Tokens : u # t => bought'[u] = bought[u]
         /\ bought'[t] \in Nat /\ bought'[t] <= bought[t] + size
<1>1. bought \in [Tokens -> Nat] /\ cash \in Nat
  BY DEF IInv, TypeOK
<1>2. CASE UNCHANGED portfolio
  <2>1. bought' = bought
    BY <1>2 DEF portfolio
  <2>. QED  BY <1>1, <2>1
<1>3. CASE \E n \in 0..size : \E fee : Fill(t, n, fee)
  <2>1. PICK n \in 0..size : bought' = [bought EXCEPT ![t] = bought[t] + n]
    BY <1>3 DEF Fill
  <2>2. bought'[t] = bought[t] + n /\ \A u \in Tokens : u # t => bought'[u] = bought[u]
    BY <1>1, <2>1
  <2>. QED  BY <1>1, <2>1, <2>2
<1>4. ASSUME NEW intended \in 0..size, Fill(t, Notional(intended), 0)
      PROVE  \E n \in 0..size : \E fee : Fill(t, n, fee)
  <2>1. Notional(intended) \in 0..size
    BY <1>1 DEF Notional
  <2>. QED  BY <1>4, <2>1
<1>5. ASSUME NEW intended \in 1..size, NEW fee \in Fees, Fill(t, intended, fee)
      PROVE  \E n \in 0..size : \E f : Fill(t, n, f)
  <2>1. intended \in 0..size
    OBVIOUS
  <2>. QED  BY <1>5, <2>1
<1>. QED  BY <1>2, <1>3, <1>4, <1>5 DEF Buy

(* A registered touch is the claim, and buys at most a starter.            *)
LEMMA TouchEffect ==
  ASSUME IInv, NEW t \in Tokens, NEW entity \in Entities, NEW tier \in {"S", "A"},
         FirstTouch(t, entity, tier, TRUE)
  PROVE  /\ checkpoint' = checkpoint /\ ~ covered'
         /\ \A u \in Tokens : u # t => candidates'[u] = candidates[u] /\ bought'[u] = bought[u]
         /\ \/ candidates'[t] = candidates[t] /\ bought'[t] = bought[t]
            \/ /\ candidates'[t].scout = entity /\ candidates'[t].tier = tier
               /\ bought'[t] \in Nat
               /\ bought'[t] <= bought[t] + (IF tier = "S" THEN Starter ELSE 0)
         /\ tier = "A" => UNCHANGED portfolio
<1>. DEFINE new   == candidates[t].status = "none"
            opens == new /\ tier = "S"
<1>1. candidates \in [Tokens -> Candidate] /\ bought \in [Tokens -> Nat] /\ Starter \in Nat
  BY EngineAssumption DEF IInv, TypeOK
<1>2. /\ candidates' = IF new THEN [candidates EXCEPT ![t] = Touched(entity, tier, TRUE)] ELSE candidates
      /\ IF opens THEN Buy(t, Starter) ELSE UNCHANGED portfolio
      /\ checkpoint' = checkpoint /\ ~ covered'
  BY DEF FirstTouch, Writes
<1>3. Touched(entity, tier, TRUE).scout = entity /\ Touched(entity, tier, TRUE).tier = tier
  BY DEF Touched
<1>4. /\ \A u \in Tokens : u # t => candidates'[u] = candidates[u]
      /\ new => candidates'[t].scout = entity /\ candidates'[t].tier = tier
      /\ ~ new => candidates'[t] = candidates[t]
  BY <1>1, <1>2, <1>3
<1>5. CASE opens
  <2>1. /\ \A u \in Tokens : u # t => bought'[u] = bought[u]
        /\ bought'[t] \in Nat /\ bought'[t] <= bought[t] + Starter
    BY <1>1, <1>2, <1>5, BuyBuys
  <2>. QED  BY <1>2, <1>4, <1>5, <2>1
<1>6. CASE ~ opens
  <2>1. UNCHANGED portfolio /\ bought' = bought
    BY <1>2, <1>6 DEF portfolio
  <2>2. bought'[t] \in Nat /\ bought'[t] <= bought[t] + (IF tier = "S" THEN Starter ELSE 0)
    BY <1>1, <2>1
  <2>. HIDE DEF opens
  <2>. QED  BY <1>2, <1>4, <2>1, <2>2
<1>. QED  BY <1>5, <1>6

(* A confirmation ends the wait, and buys at most the rest.                *)
LEMMA ConfirmEffect ==
  ASSUME IInv, NEW t \in Tokens, NEW entity \in Entities, NEW timely \in BOOLEAN,
         Confirm(t, entity, TRUE, timely)
  PROVE  /\ checkpoint' = checkpoint /\ ~ covered'
         /\ \A u \in Tokens : u # t => candidates'[u] = candidates[u] /\ bought'[u] = bought[u]
         /\ \/ candidates'[t] = candidates[t] /\ bought'[t] = bought[t]
            \/ /\ candidates[t].status = "waiting" /\ candidates'[t].status = "confirmed"
               /\ candidates'[t].scout = candidates[t].scout
               /\ candidates'[t].tier = candidates[t].tier
               /\ bought'[t] \in Nat
               /\ bought'[t] <= bought[t] + (IF candidates[t].tier = "S" THEN Full - Starter ELSE Full)
<1>. DEFINE confirms == Confirmable(t, entity, TRUE) /\ timely
            size     == IF candidates[t].tier = "S" THEN Full - Starter ELSE Full
<1>1. candidates \in [Tokens -> Candidate] /\ bought \in [Tokens -> Nat] /\ size \in Nat
  BY EngineAssumption DEF IInv, TypeOK
<1>2. /\ candidates' = IF confirms THEN [candidates EXCEPT ![t].status = "confirmed"] ELSE candidates
      /\ IF confirms THEN Buy(t, size) ELSE UNCHANGED portfolio
      /\ checkpoint' = checkpoint /\ ~ covered'
  BY DEF Confirm, Writes
<1>3. CASE confirms
  <2>1. candidates[t].status = "waiting"
    BY <1>3 DEF Confirmable
  <2>2. PICK k \in Nat : k = size
    BY <1>1
  <2>3. /\ bought'[t] \in Nat /\ bought'[t] <= bought[t] + k
        /\ \A u \in Tokens : u # t => bought'[u] = bought[u]
    BY <1>2, <1>3, <2>2, BuyBuys
  <2>4. candidates' = [candidates EXCEPT ![t].status = "confirmed"]
    BY <1>2, <1>3
  <2>5. /\ candidates'[t].scout = candidates[t].scout /\ candidates'[t].tier = candidates[t].tier
        /\ candidates'[t].status = "confirmed"
    BY <1>1, <2>4 DEF Candidate
  <2>6. \A u \in Tokens : u # t => candidates'[u] = candidates[u]
    BY <1>1, <2>4
  <2>. QED  BY <1>2, <2>1, <2>2, <2>3, <2>5, <2>6
<1>4. CASE ~ confirms
  BY <1>1, <1>2, <1>4 DEF portfolio
<1>. QED  BY <1>3, <1>4

-----------------------------------------------------------------------------
PCs == {"none", "marking", "refreshing", "assessing", "quoting", "authorized", "promoting", "over"}

StaysUnbought(t) == Unbought(t) => Unbought(t)'

(* A step that teaches no task anything and claims nothing.                *)
Plain ==
  /\ UNCHANGED <<firstTouch, authorized, claimed>>
  /\ \A u \in Swaps : task'[u] = task[u] \/ task'[u] \notin Knowing
  /\ (\A u \in Swaps : task'[u] # "authorized") \/ UNCHANGED positions
  /\ \A u \in Swaps : task'[u] \in Knowing /\ firstTouch[TokenOf[u]] = u
                       => StaysUnbought(TokenOf[u])

LEMMA PlainTasks ==
  ASSUME IntakeInv, Plain
  PROVE  /\ \A s \in Swaps : TaskKnows(s)'
         /\ \A s, u \in Swaps : task'[s] = "authorized" /\ task'[u] = "authorized" => s = u
<1>1. ASSUME NEW s \in Swaps
      PROVE  TaskKnows(s)'
  <2>1. TaskKnows(s) /\ UNCHANGED <<firstTouch, authorized, claimed>>
    BY DEF IntakeInv, Plain
  <2>2. CASE task'[s] \notin Knowing
    <3>1. task'[s] # "authorized" /\ task'[s] # "quoting"
      BY <2>2 DEF Knowing
    <3>. QED  BY <2>1, <2>2, <3>1 DEF TaskKnows
  <2>3. CASE task'[s] = task[s]
    <3>1. task'[s] = "authorized" => HasHistory'
      BY <2>1, <2>3 DEF Plain, HasHistory, TaskKnows, portfolio
    <3>2. TouchEntity(TokenOf[s])' = TouchEntity(TokenOf[s])
      BY <2>1 DEF TouchEntity
    <3>3. task'[s] \in Knowing /\ claimed'[s] => Unbought(TokenOf[s])'
      BY <2>1, <2>3 DEF Plain, TaskKnows, StaysUnbought
    <3>. QED  BY <2>1, <2>3, <3>1, <3>2, <3>3 DEF TaskKnows
  <2>. QED  BY <2>2, <2>3 DEF Plain
<1>2. \A s, u \in Swaps : task'[s] = "authorized" /\ task'[u] = "authorized" => s = u
  BY DEF IntakeInv, Plain, Knowing
<1>. QED  BY <1>1, <1>2

(* Of an unbought token a quiet step buys nothing.                         *)
LEMMA QuietUnbought ==
  ASSUME Quiet, NEW t \in Tokens, Unbought(t)
  PROVE  Unbought(t)'
BY DEF Quiet, Unbought

LEMMA QuietTasks ==
  ASSUME Quiet, UNCHANGED <<firstTouch, authorized, claimed>>,
         \A u \in Swaps : task'[u] = task[u] \/ task'[u] \notin Knowing,
         (\A u \in Swaps : task'[u] # "authorized") \/ UNCHANGED positions
  PROVE  Plain
<1>1. \A u \in Swaps : TokenOf[u] \in Tokens
  BY IntakeAssumption
<1>2. ASSUME NEW u \in Swaps
      PROVE  StaysUnbought(TokenOf[u])
  BY <1>1, QuietUnbought DEF StaysUnbought
<1>. QED  BY <1>2 DEF Plain

LEMMA PlainKeeps ==
  ASSUME IntakeInv, IInv', IntakeTypeOK', Quiet, Plain, working' => inbox' # << >>
  PROVE  IntakeInv'
<1>1. TablesGrow
  BY DEF Plain, TablesGrow
<1>2. AuthorizedAreTouched'
  BY DEF IntakeInv, Plain, AuthorizedAreTouched
<1>. QED  BY <1>1, <1>2, QuietKeeps, PlainTasks DEF IntakeInv

LEMMA EngineStays ==
  ASSUME IntakeInv, [IntakeNext]_<<vars, intake>>
  PROVE  IInv' /\ TypeOK'
<1>1. IInv'
  BY StepsAreEngineSteps, NextIInv DEF IntakeInv
<1>. QED  BY <1>1 DEF IInv

(* The types of everything but the engine.                                 *)
LEMMA TypesStay ==
  ASSUME IntakeInv, TypeOK',
         recorded' \subseteq Swaps, authorized' \subseteq Swaps,
         completed' \subseteq Swaps, ingested' \subseteq Swaps,
         firstTouch' \in [Tokens -> Swaps \cup {NoSwap}],
         inbox' \in Seq(Swaps), working' \in BOOLEAN, alive' \in BOOLEAN,
         task' \in [Swaps -> PCs], claimed' \in [Swaps -> BOOLEAN],
         failures' \in 0..MaxFailures
  PROVE  IntakeTypeOK'
BY DEF IntakeTypeOK, PCs

LEMMA TypesNow ==
  ASSUME IntakeInv
  PROVE  /\ recorded \subseteq Swaps /\ authorized \subseteq Swaps
         /\ completed \subseteq Swaps /\ ingested \subseteq Swaps
         /\ firstTouch \in [Tokens -> Swaps \cup {NoSwap}]
         /\ inbox \in Seq(Swaps) /\ working \in BOOLEAN /\ alive \in BOOLEAN
         /\ task \in [Swaps -> PCs] /\ claimed \in [Swaps -> BOOLEAN]
         /\ failures \in 0..MaxFailures
         /\ IInv
BY DEF IntakeInv, IntakeTypeOK, PCs

LEMMA FreeHasNone ==
  ASSUME Free
  PROVE  Ready /\ \A s \in Swaps : task[s] # "authorized"
BY DEF Free

-----------------------------------------------------------------------------
LEMMA RecordKeeps ==
  ASSUME IntakeInv, IInv', TypeOK', NEW s \in Swaps, Record(s),
         working' \in BOOLEAN, working' => inbox # << >>
  PROVE  IntakeInv'
<1>1. PICK pc \in {"marking", "refreshing"} : task' = [task EXCEPT ![s] = pc]
  BY DEF Record, Goto
<1>2. Quiet
  <2>1. TokenOf[s] \in Tokens
    BY IntakeAssumption
  <2>. QED  BY <2>1, PriceIsQuiet, OthersAreQuiet, TypesNow DEF Record
<1>3. Plain
  <2>1. /\ UNCHANGED <<firstTouch, authorized, claimed>>
        /\ \A u \in Swaps : task'[u] = task[u] \/ task'[u] \notin Knowing
        /\ \A u \in Swaps : task'[u] # "authorized"
    BY <1>1, FreeHasNone, TypesNow DEF Record, Knowing
  <2>. QED  BY <1>2, <2>1, QuietTasks
<1>4. IntakeTypeOK'
  <2>1. recorded' \subseteq Swaps /\ task' \in [Swaps -> PCs]
    BY <1>1, TypesNow DEF Record, PCs
  <2>. QED  BY <2>1, TypesNow, TypesStay DEF Record
<1>5. working' => inbox' # << >>
  BY DEF Record
<1>. QED  BY <1>2, <1>3, <1>4, <1>5, PlainKeeps

(* Whatever the worker's write does, the row is complete or stays.         *)
LEMMA WorkerWrites ==
  ASSUME IntakeInv, MarkComplete \/ MarkRetry
  PROVE  /\ working' = FALSE /\ alive' \in BOOLEAN /\ failures' \in 0..MaxFailures
         /\ failures' = 0 => failures = 0
         /\ \/ UNCHANGED <<inbox, completed>>
            \/ inbox' = Tail(inbox) /\ completed' = completed \cup {Head(inbox)}
<1>1. Survives \/ Dies
  BY DEF MarkComplete, MarkRetry
<1>2. MaxFailures \in Nat /\ failures \in 0..MaxFailures
  BY IntakeAssumption, TypesNow
<1>3. /\ alive' \in BOOLEAN /\ failures' \in 0..MaxFailures
      /\ failures' = 0 => failures = 0
  <2>1. CASE Survives
    BY <1>2, <2>1, TypesNow DEF Survives
  <2>2. CASE Dies
    <3>1. failures' \in 0..MaxFailures /\ failures' # 0 /\ alive' = FALSE
      BY <1>2, <2>2 DEF Dies
    <3>. QED  BY <3>1
  <2>. QED  BY <1>1, <2>1, <2>2
<1>. QED  BY <1>3 DEF MarkComplete, MarkRetry

LEMMA QueueKeeps ==
  ASSUME IntakeInv, IInv', TypeOK',
         (\E s \in Swaps : Enqueue(s)) \/ CompleteDuplicate \/ RowReturns \/ RejectRow
  PROVE  IntakeInv'
<1>1. UNCHANGED <<vars, recorded, firstTouch, authorized, task, claimed, ingested>>
  BY DEF Enqueue, CompleteDuplicate, RowReturns, RejectRow, tables
<1>2. Quiet /\ UNCHANGED portfolio
  BY <1>1, OthersAreQuiet, TypesNow
<1>3. Plain
  BY <1>1, <1>2, QuietTasks DEF portfolio
<1>4. /\ inbox' \in Seq(Swaps) /\ completed' \subseteq Swaps /\ working' \in BOOLEAN
      /\ working' => inbox' # << >>
      /\ alive' \in BOOLEAN /\ failures' \in 0..MaxFailures
  <2>0. PICK q \in Seq(Swaps) : q = inbox
    BY TypesNow
  <2>1. CASE \E s \in Swaps : Enqueue(s)
    <3>1. PICK s \in Swaps : inbox' = Append(q, s)
      BY <2>0, <2>1 DEF Enqueue
    <3>2. Append(q, s) \in Seq(Swaps) /\ Append(q, s) # << >>
      OBVIOUS
    <3>. QED  BY <2>1, <3>1, <3>2, TypesNow DEF Enqueue
  <2>2. CASE inbox # << >> /\ (MarkComplete \/ MarkRetry)
    <3>1. Head(q) \in Swaps /\ Tail(q) \in Seq(Swaps)
      BY <2>0, <2>2
    <3>. QED  BY <2>0, <2>2, <3>1, TypesNow, WorkerWrites
  <2>3. CASE RowReturns
    <3>1. inbox # << >>
      BY <2>3 DEF RowReturns, IntakeInv
    <3>. QED  BY <2>2, <2>3, <3>1 DEF RowReturns
  <2>4. CASE CompleteDuplicate
    BY <2>2, <2>4 DEF CompleteDuplicate, Polls
  <2>5. CASE RejectRow
    <3>1. CASE MarkRetry
      BY <2>2, <2>5, <3>1 DEF RejectRow, Polls
    <3>2. CASE failures < MaxFailures /\ failures' = failures + 1 /\ UNCHANGED queue
      <4>1. failures' \in 0..MaxFailures
        BY <3>2, TypesNow, IntakeAssumption
      <4>. QED  BY <3>2, <4>1, TypesNow DEF queue, IntakeInv
    <3>. QED  BY <2>5, <3>1, <3>2 DEF RejectRow
  <2>. QED  BY <2>1, <2>3, <2>4, <2>5
<1>5. IntakeTypeOK'
  BY <1>1, <1>4, TypesNow, TypesStay
<1>. QED  BY <1>2, <1>3, <1>4, <1>5, PlainKeeps

(* A decision that goes no further, and an await that fails.               *)
LEMMA EndKeeps ==
  ASSUME IntakeInv, IInv', TypeOK', NEW s \in Swaps, Assessed(s) \/ Refuse(s) \/ Fail(s)
  PROVE  IntakeInv'
<1>1. /\ UNCHANGED <<vars, inbox, completed, working, alive, recorded, firstTouch, authorized, claimed>>
      /\ task' = [task EXCEPT ![s] = "over"]
      /\ ingested' \subseteq ingested \cup {s}
      /\ failures' \in 0..MaxFailures
  BY TypesNow, IntakeAssumption DEF Assessed, Refuse, Fail, Decline, Finish, Goto, queue, tables
<1>2. Quiet /\ UNCHANGED portfolio
  BY <1>1, OthersAreQuiet, TypesNow
<1>3. Plain
  <2>1. \A u \in Swaps : task'[u] = task[u] \/ task'[u] \notin Knowing
    BY <1>1, TypesNow DEF Knowing
  <2>. QED  BY <1>1, <1>2, <2>1, QuietTasks DEF portfolio
<1>4. ingested' \subseteq Swaps /\ task' \in [Swaps -> PCs]
  BY <1>1, TypesNow DEF PCs
<1>5. IntakeTypeOK'
  BY <1>1, <1>4, TypesNow, TypesStay
<1>6. working' => inbox' # << >>
  BY <1>1 DEF IntakeInv
<1>. QED  BY <1>2, <1>3, <1>5, <1>6, PlainKeeps

LEMMA HandlerStepsKeep ==
  ASSUME IntakeInv, IInv', TypeOK', HandlerWrites \/ HandlerReturns \/ HandlerRaises
  PROVE  IntakeInv'
<1>1. /\ UNCHANGED <<inbox, completed, working, alive, recorded, firstTouch, authorized, claimed, failures>>
      /\ ingested' \subseteq ingested \cup Swaps
      /\ task' \in [Swaps -> PCs]
      /\ \A u \in Swaps : task'[u] = task[u] \/ task'[u] \in {"refreshing", "over"}
  <2>1. CASE HandlerWrites
    BY <2>1, TypesNow DEF HandlerWrites, intake, queue, tables
  <2>2. CASE HandlerReturns
    BY <2>2, TypesNow DEF HandlerReturns, queue, tables, PCs
  <2>3. CASE HandlerRaises
    BY <2>3, TypesNow DEF HandlerRaises, queue, tables, PCs
  <2>. QED  BY <2>1, <2>2, <2>3
<1>2. Quiet /\ UNCHANGED portfolio
  BY OthersAreQuiet, TypesNow DEF HandlerWrites, HandlerReturns, HandlerRaises
<1>3. Plain
  <2>1. \A u \in Swaps : task'[u] = task[u] \/ task'[u] \notin Knowing
    BY <1>1 DEF Knowing
  <2>. QED  BY <1>1, <1>2, <2>1, QuietTasks DEF portfolio
<1>4. IntakeTypeOK'
  BY <1>1, TypesNow, TypesStay
<1>6. working' => inbox' # << >>
  BY <1>1 DEF IntakeInv
<1>. QED  BY <1>2, <1>3, <1>4, <1>6, PlainKeeps

LEMMA ClocksKeep ==
  ASSUME IntakeInv, IInv', TypeOK', NEW t \in Tokens, ClockPrices(t) \/ Reap(t)
  PROVE  IntakeInv'
<1>1. UNCHANGED <<inbox, completed, working, alive, recorded, firstTouch, authorized, claimed, failures, ingested, task>>
  BY DEF ClockPrices, Reap, intake, queue, tables
<1>2. Quiet
  BY PriceIsQuiet, PurgeIsQuiet, TypesNow DEF ClockPrices, Reap
<1>3. Plain
  BY <1>1, <1>2, FreeHasNone, QuietTasks DEF ClockPrices, Reap
<1>4. IntakeTypeOK'
  BY <1>1, TypesNow, TypesStay
<1>6. working' => inbox' # << >>
  BY <1>1 DEF IntakeInv
<1>. QED  BY <1>2, <1>3, <1>4, <1>6, PlainKeeps

-----------------------------------------------------------------------------
(* The claim: it is made where there was none, or found.                   *)
LEMMA ClaimKeeps ==
  ASSUME IntakeInv, IInv', TypeOK', NEW s \in Swaps, Claim(s)
  PROVE  IntakeInv'
<1>1. PICK t \in Tokens : t = TokenOf[s]
  BY IntakeAssumption
<1>2. PICK first : first = IF Claims(s) THEN s ELSE firstTouch[t]
  OBVIOUS
<1>3. first \in Swaps /\ (Claims(s) => firstTouch[t] = NoSwap) /\ (~ Claims(s) => firstTouch[t] # NoSwap)
  BY <1>1, <1>2, TypesNow DEF Claims
<1>4. /\ firstTouch' = [firstTouch EXCEPT ![t] = first]
      /\ claimed' = [claimed EXCEPT ![s] = Claims(s)]
      /\ UNCHANGED <<vars, inbox, completed, working, alive, recorded, authorized, failures>>
      /\ \A u \in Swaps : task[u] # "authorized"
  BY <1>1, <1>2, FreeHasNone DEF Claim, queue
<1>5. PICK pc \in {"over", "assessing"} : task' = [task EXCEPT ![s] = pc]
  BY DEF Claim, Finish, Goto
<1>6. ingested' \subseteq ingested \cup {s}
  BY DEF Claim, Finish
<1>7. Claims(s) \in BOOLEAN
  BY DEF Claims
<1>8. /\ firstTouch'[t] = first /\ first # NoSwap
      /\ \A u \in Tokens : u # t => firstTouch'[u] = firstTouch[u]
      /\ firstTouch' \in [Tokens -> Swaps \cup {NoSwap}]
      /\ claimed'[s] = Claims(s) /\ claimed' \in [Swaps -> BOOLEAN]
      /\ \A u \in Swaps : u # s => claimed'[u] = claimed[u]
      /\ task'[s] = pc /\ task' \in [Swaps -> PCs]
      /\ \A u \in Swaps : u # s => task'[u] = task[u]
  BY <1>3, <1>4, <1>5, <1>7, TypesNow, IntakeAssumption DEF PCs
<1>9. TablesGrow
  BY <1>2, <1>3, <1>4, <1>8 DEF TablesGrow
<1>10. Quiet
  BY <1>4, OthersAreQuiet, TypesNow
<1>11. IntakeTypeOK'
  <2>1. ingested' \subseteq Swaps
    BY <1>6, TypesNow
  <2>. QED  BY <1>4, <1>8, <2>1, TypesNow, TypesStay
<1>12. AuthorizedAreTouched'
  BY <1>4, <1>9, IntakeAssumption, TypesNow DEF IntakeInv, AuthorizedAreTouched, TablesGrow
<1>13. ASSUME NEW u \in Swaps
       PROVE  TaskKnows(u)' /\ task'[u] # "authorized"
  <2>1. TaskKnows(u) /\ TokenOf[u] \in Tokens /\ u # NoSwap
    BY IntakeAssumption DEF IntakeInv
  <2>2. CASE u = s
    <3>1. claimed'[u] => firstTouch'[TokenOf[u]] = u
      BY <1>1, <1>2, <1>8, <2>2
    <3>2. firstTouch'[TokenOf[u]] # NoSwap
      BY <1>1, <1>8, <2>2
    <3>3. task'[u] \in {"over", "assessing"}
      BY <1>5, <1>8, <2>2
    <3>4. claimed'[u] => Unbought(TokenOf[u])'
      <4>1. SUFFICES ASSUME claimed'[u] PROVE Unbought(t)'
        BY <1>1, <2>2
      <4>2. firstTouch[t] = NoSwap
        BY <1>3, <1>8, <2>2, <4>1
      <4>3. Unbought(t)
        BY <4>2 DEF IntakeInv, AreClaims, EntriesInv, Unbought
      <4>. QED  BY <1>10, <4>3, QuietUnbought
    <3>. QED  BY <3>1, <3>2, <3>3, <3>4 DEF TaskKnows
  <2>3. CASE u # s
    <3>1. claimed'[u] = claimed[u] /\ task'[u] = task[u] /\ task[u] # "authorized"
      BY <1>4, <1>8, <2>3
    <3>2. firstTouch[TokenOf[u]] # NoSwap => firstTouch'[TokenOf[u]] = firstTouch[TokenOf[u]]
      BY <1>9, <2>1 DEF TablesGrow
    <3>3. Unbought(TokenOf[u]) => Unbought(TokenOf[u])'
      BY <1>10, <2>1, QuietUnbought
    <3>. QED  BY <2>1, <3>1, <3>2, <3>3 DEF TaskKnows
  <2>. QED  BY <2>2, <2>3
<1>. QED  BY <1>4, <1>9, <1>10, <1>11, <1>12, <1>13, QuietKeeps DEF IntakeInv

LEMMA AskQuoteKeeps ==
  ASSUME IntakeInv, IInv', TypeOK', NEW s \in Swaps, AskQuote(s)
  PROVE  IntakeInv'
<1>1. /\ UNCHANGED <<vars, inbox, completed, working, alive, recorded, firstTouch, authorized, claimed, failures, ingested>>
      /\ task' = [task EXCEPT ![s] = "quoting"]
      /\ task[s] = "assessing"
      /\ claimed[s] => TierOf[s] = "S"
      /\ \A u \in Swaps : task[u] # "authorized"
  BY FreeHasNone DEF AskQuote, Goto, queue, tables
<1>2. Quiet /\ TablesGrow
  BY <1>1, OthersAreQuiet, TypesNow DEF TablesGrow
<1>3. task' \in [Swaps -> PCs] /\ \A u \in Swaps : task'[u] = IF u = s THEN "quoting" ELSE task[u]
  BY <1>1, TypesNow DEF PCs
<1>4. IntakeTypeOK'
  BY <1>1, <1>3, TypesNow, TypesStay
<1>5. ASSUME NEW u \in Swaps
      PROVE  TaskKnows(u)' /\ task'[u] # "authorized"
  <2>1. TaskKnows(u) /\ TaskKnows(s)
    BY DEF IntakeInv
  <2>2. TokenOf[u] \in Tokens /\ (Unbought(TokenOf[u]) => Unbought(TokenOf[u])')
    BY <1>2, IntakeAssumption, QuietUnbought
  <2>. QED  BY <1>1, <1>3, <2>1, <2>2 DEF TaskKnows, Knowing
<1>6. AuthorizedAreTouched'
  BY <1>1 DEF IntakeInv, AuthorizedAreTouched
<1>. QED  BY <1>1, <1>2, <1>4, <1>5, <1>6, QuietKeeps DEF IntakeInv

(* The gate: it asks for a portfolio with history, or is the first to      *)
(* authorise anything.                                                     *)
LEMMA AuthorizeKeeps ==
  ASSUME IntakeInv, IInv', TypeOK', NEW s \in Swaps, Authorize(s)
  PROVE  IntakeInv'
<1>1. /\ UNCHANGED <<vars, inbox, completed, working, alive, recorded, firstTouch, claimed, failures, ingested>>
      /\ task' = [task EXCEPT ![s] = "authorized"]
      /\ task[s] = "quoting"
      /\ authorized' = authorized \cup {s}
      /\ Continuity
      /\ claimed[s] \/ EntityOf[s] # TouchEntity(TokenOf[s])
      /\ \A u \in Swaps : task[u] # "authorized"
  BY FreeHasNone DEF Authorize, Goto, GatePasses, queue
<1>2. Quiet /\ TablesGrow
  BY <1>1, OthersAreQuiet, TypesNow DEF TablesGrow
<1>3. task' \in [Swaps -> PCs] /\ \A u \in Swaps : task'[u] = IF u = s THEN "authorized" ELSE task[u]
  BY <1>1, TypesNow DEF PCs
<1>4. IntakeTypeOK'
  BY <1>1, <1>3, TypesNow, TypesStay
<1>5. HasHistory'
  <2>1. CASE authorized = {}
    <3>1. Cardinality({s}) = 1
      BY FS_Singleton
    <3>2. authorized' = {s}
      BY <1>1, <2>1
    <3>. QED  BY <3>1, <3>2 DEF HasHistory
  <2>2. CASE authorized # {}
    <3>1. \E t \in Tokens : positions[t].exists
      BY <1>1, <2>2 DEF Continuity
    <3>. QED  BY <1>1, <3>1 DEF HasHistory, vars, portfolio
  <2>. QED  BY <2>1, <2>2
<1>6. ASSUME NEW u \in Swaps
      PROVE  TaskKnows(u)' /\ (task'[u] = "authorized" => u = s)
  <2>1. TaskKnows(u) /\ TaskKnows(s)
    BY DEF IntakeInv
  <2>2. TouchEntity(TokenOf[u])' = TouchEntity(TokenOf[u])
    BY <1>1 DEF TouchEntity
  <2>3. TokenOf[u] \in Tokens /\ (Unbought(TokenOf[u]) => Unbought(TokenOf[u])')
    BY <1>2, IntakeAssumption, QuietUnbought
  <2>4. CASE u = s
    BY <1>1, <1>3, <1>5, <2>1, <2>2, <2>3, <2>4 DEF TaskKnows, Knowing
  <2>5. CASE u # s
    BY <1>1, <1>3, <2>1, <2>3, <2>5 DEF TaskKnows
  <2>. QED  BY <2>4, <2>5
<1>7. AuthorizedAreTouched'
  <2>1. firstTouch[TokenOf[s]] # NoSwap
    BY <1>1 DEF IntakeInv, TaskKnows, Knowing
  <2>. QED  BY <1>1, <2>1 DEF IntakeInv, AuthorizedAreTouched
<1>. QED  BY <1>1, <1>2, <1>4, <1>6, <1>7, QuietKeeps DEF IntakeInv

(* The candidate a claim registers is the claim, and its starter is        *)
(* authorised.                                                             *)
LEMMA TouchOfClaim ==
  ASSUME IntakeInv, NEW s \in Swaps, claimed[s], task[s] \in Knowing,
         TierOf[s] = "S" => s \in authorized,
         FirstTouch(TokenOf[s], EntityOf[s], TierOf[s], TRUE),
         UNCHANGED <<firstTouch, authorized>>
  PROVE  /\ AreClaims(candidates)' /\ AreClaims(checkpoint.candidates)' /\ EntriesInv'
         /\ \A u \in Tokens : firstTouch[u] # s /\ Unbought(u) => Unbought(u)'
<1>1. PICK t \in Tokens : t = TokenOf[s]
  BY IntakeAssumption
<1>2. PICK e \in Entities, tier \in {"S", "A"} : e = EntityOf[s] /\ tier = TierOf[s]
  BY IntakeAssumption
<1>3. IInv /\ FirstTouch(t, e, tier, TRUE)
  BY <1>1, <1>2, TypesNow
<1>4. PICK k : k = IF tier = "S" THEN Starter ELSE 0
  OBVIOUS
<1>5. /\ checkpoint' = checkpoint /\ ~ covered'
      /\ \A u \in Tokens : u # t => candidates'[u] = candidates[u] /\ bought'[u] = bought[u]
      /\ \/ candidates'[t] = candidates[t] /\ bought'[t] = bought[t]
         \/ /\ candidates'[t].scout = e /\ candidates'[t].tier = tier
            /\ bought'[t] \in Nat /\ bought'[t] <= bought[t] + k
  BY <1>3, <1>4, TouchEffect
<1>6. firstTouch[t] = s /\ s # NoSwap /\ bought[t] = 0
  BY <1>1, IntakeAssumption DEF IntakeInv, TaskKnows, Unbought
<1>7. TablesGrow /\ \A u : TouchEntity(u)' = TouchEntity(u)
  BY DEF TouchEntity, TablesGrow
<1>8. TouchEntity(t) = e
  BY <1>2, <1>6 DEF TouchEntity
<1>9. AreClaims(candidates)'
  BY <1>2, <1>5, <1>6, <1>7, <1>8 DEF IntakeInv, AreClaims
<1>10. AreClaims(checkpoint.candidates)'
  BY <1>5, <1>7 DEF IntakeInv, AreClaims
<1>11. \A u \in Tokens : bought'[u] = bought[u] =>
         /\ bought'[u] <= StarterAllowed(u)' + RestAllowed(u)'
         /\ firstTouch[u] # NoSwap /\ bought[u] <= StarterAllowed(u) => bought'[u] <= StarterAllowed(u)'
         /\ firstTouch'[u] = NoSwap => bought'[u] = 0
  BY <1>7, UntouchedStays
<1>12. k = StarterAllowed(t)' /\ k \in Nat /\ RestAllowed(t)' \in Nat
  <2>1. StarterAllowed(t)' = IF \E r \in authorized : s = r /\ TierOf[r] = "S" THEN Starter ELSE 0
    BY <1>6 DEF StarterAllowed
  <2>2. StarterAllowed(t)' = k
    BY <1>2, <1>4, <2>1
  <2>. QED  BY <1>4, <2>2, EngineAssumption DEF RestAllowed
<1>13. bought'[t] <= StarterAllowed(t)' \/ (candidates'[t] = candidates[t] /\ bought'[t] = bought[t])
  BY <1>5, <1>6, <1>12
<1>14. EntriesWereAuthorized'
  <2>1. SUFFICES ASSUME NEW u \in Tokens PROVE bought'[u] <= StarterAllowed(u)' + RestAllowed(u)'
    BY DEF EntriesWereAuthorized
  <2>2. CASE bought'[u] = bought[u]
    BY <1>11, <2>2
  <2>3. CASE u = t /\ bought'[t] \in Nat /\ bought'[t] <= StarterAllowed(t)'
    BY <1>12, <2>3
  <2>. QED  BY <1>5, <1>13, <2>2, <2>3
<1>15. WaitForTheRest(candidates)'
  <2>1. SUFFICES ASSUME NEW u \in Tokens, candidates'[u].status = "waiting"
                 PROVE  bought'[u] <= StarterAllowed(u)'
    BY DEF WaitForTheRest
  <2>2. CASE candidates'[u] = candidates[u] /\ bought'[u] = bought[u]
    BY <1>11, <2>1, <2>2 DEF IntakeInv, EntriesInv, WaitForTheRest, AreClaims
  <2>3. CASE u = t /\ bought'[t] <= StarterAllowed(t)'
    BY <2>3
  <2>. QED  BY <1>5, <1>13, <2>2, <2>3
<1>16. \A u \in Tokens : firstTouch'[u] = NoSwap => bought'[u] = 0
  BY <1>5, <1>6, <1>11
<1>17. \A u \in Tokens : firstTouch[u] # s /\ Unbought(u) => Unbought(u)'
  BY <1>5, <1>6 DEF Unbought
<1>. QED  BY <1>5, <1>9, <1>10, <1>14, <1>15, <1>16, <1>17 DEF EntriesInv

(* A confirmation is bought for an authorised swap of another entity.      *)
LEMMA ConfirmationOfOther ==
  ASSUME IntakeInv, NEW s \in authorized, EntityOf[s] # TouchEntity(TokenOf[s]),
         NEW timely \in BOOLEAN, Confirm(TokenOf[s], EntityOf[s], TRUE, timely),
         UNCHANGED <<firstTouch, authorized>>
  PROVE  /\ AreClaims(candidates)' /\ AreClaims(checkpoint.candidates)' /\ EntriesInv'
         /\ \A u \in Tokens : Unbought(u) => Unbought(u)'
<1>0. s \in Swaps
  BY TypesNow
<1>1. PICK t \in Tokens, e \in Entities : t = TokenOf[s] /\ e = EntityOf[s]
  BY <1>0, IntakeAssumption
<1>2. IInv /\ Confirm(t, e, TRUE, timely)
  BY <1>1, TypesNow
<1>3. PICK k : k = IF candidates[t].tier = "S" THEN Full - Starter ELSE Full
  OBVIOUS
<1>4. /\ checkpoint' = checkpoint /\ ~ covered'
      /\ \A u \in Tokens : u # t => candidates'[u] = candidates[u] /\ bought'[u] = bought[u]
      /\ \/ candidates'[t] = candidates[t] /\ bought'[t] = bought[t]
         \/ /\ candidates[t].status = "waiting" /\ candidates'[t].status = "confirmed"
            /\ candidates'[t].scout = candidates[t].scout
            /\ candidates'[t].tier = candidates[t].tier
            /\ bought'[t] \in Nat /\ bought'[t] <= bought[t] + k
  BY <1>2, <1>3, ConfirmEffect
<1>5. TablesGrow /\ \A u : TouchEntity(u)' = TouchEntity(u)
  BY DEF TouchEntity, TablesGrow
<1>6. AreClaims(candidates)'
  BY <1>4, <1>5 DEF IntakeInv, AreClaims
<1>7. AreClaims(checkpoint.candidates)'
  BY <1>4, <1>5 DEF IntakeInv, AreClaims
<1>8. \A u \in Tokens : bought'[u] = bought[u] =>
         /\ bought'[u] <= StarterAllowed(u)' + RestAllowed(u)'
         /\ firstTouch[u] # NoSwap /\ bought[u] <= StarterAllowed(u) => bought'[u] <= StarterAllowed(u)'
         /\ firstTouch'[u] = NoSwap => bought'[u] = 0
  BY <1>5, UntouchedStays
<1>9. EntriesWereAuthorized'
  <2>1. SUFFICES ASSUME NEW u \in Tokens PROVE bought'[u] <= StarterAllowed(u)' + RestAllowed(u)'
    BY DEF EntriesWereAuthorized
  <2>2. CASE bought'[u] = bought[u]
    BY <1>8, <2>2
  <2>3. CASE u = t /\ candidates[t].status = "waiting" /\ bought'[t] \in Nat /\ bought'[t] <= bought[t] + k
    <3>1. bought[t] <= StarterAllowed(t) /\ TierOf[firstTouch[t]] = candidates[t].tier
      BY <2>3 DEF IntakeInv, EntriesInv, WaitForTheRest, AreClaims
    <3>2. \E r \in authorized : TokenOf[r] = t /\ EntityOf[r] # TouchEntity(t)
      BY <1>1
    <3>3. RestAllowed(t) = k
      BY <1>3, <3>1, <3>2 DEF RestAllowed
    <3>4. StarterAllowed(t)' = StarterAllowed(t) /\ RestAllowed(t)' = RestAllowed(t)
      BY <1>5 DEF StarterAllowed, RestAllowed
    <3>5. bought[t] \in Nat /\ StarterAllowed(t) \in Nat /\ RestAllowed(t) \in Nat
      BY <1>2, AllowedAreNat DEF IInv, TypeOK
    <3>. QED  BY <2>3, <3>1, <3>3, <3>4, <3>5
  <2>. QED  BY <1>4, <2>2, <2>3
<1>10. WaitForTheRest(candidates)'
  <2>1. SUFFICES ASSUME NEW u \in Tokens, candidates'[u].status = "waiting"
                 PROVE  bought'[u] <= StarterAllowed(u)'
    BY DEF WaitForTheRest
  <2>2. candidates'[u] = candidates[u] /\ bought'[u] = bought[u]
    BY <1>4, <2>1
  <2>. QED  BY <1>8, <2>1, <2>2 DEF IntakeInv, EntriesInv, WaitForTheRest, AreClaims
<1>11. \A u \in Tokens : firstTouch'[u] = NoSwap => bought'[u] = 0
  BY <1>4, <1>8 DEF IntakeInv, AreClaims
<1>12. \A u \in Tokens : Unbought(u) => Unbought(u)'
  BY <1>4 DEF Unbought
<1>. QED  BY <1>4, <1>6, <1>7, <1>9, <1>10, <1>11, <1>12 DEF EntriesInv

LEMMA CallsKeep ==
  ASSUME IntakeInv, IInv', TypeOK', NEW s \in Swaps, RegisterTouch(s) \/ Promote(s)
  PROVE  IntakeInv'
<1>1. /\ UNCHANGED <<inbox, completed, working, alive, recorded, firstTouch, authorized, claimed, failures, ingested>>
      /\ task' = [task EXCEPT ![s] = "promoting"]
  BY DEF RegisterTouch, Promote, Goto, queue, tables
<1>2. \A u \in Swaps : u # s => task[u] # "authorized"
  BY FreeHasNone DEF RegisterTouch, Promote, IntakeInv
<1>3. task' \in [Swaps -> PCs] /\ \A u \in Swaps : task'[u] = IF u = s THEN "promoting" ELSE task[u]
  BY <1>1, TypesNow DEF PCs
<1>4. IntakeTypeOK'
  BY <1>1, <1>3, TypesNow, TypesStay
<1>5. /\ AreClaims(candidates)' /\ AreClaims(checkpoint.candidates)' /\ EntriesInv'
      /\ \A u \in Tokens : firstTouch[u] # s /\ Unbought(u) => Unbought(u)'
  <2>1. CASE RegisterTouch(s)
    <3>1. task[s] \in Knowing
      BY <2>1 DEF RegisterTouch, Knowing
    <3>. QED  BY <1>1, <2>1, <3>1, TouchOfClaim DEF RegisterTouch
  <2>2. CASE Promote(s)
    <3>1. task[s] = "authorized" /\ TaskKnows(s) /\ task[s] \in Knowing
      BY <2>2 DEF Promote, IntakeInv, Knowing
    <3>2. CASE claimed[s]
      <4>1. TierOf[s] = "S" /\ s \in authorized
        BY <3>1, <3>2 DEF TaskKnows
      <4>2. FirstTouch(TokenOf[s], EntityOf[s], TierOf[s], TRUE)
        BY <2>2, <3>2, <4>1 DEF Promote
      <4>. QED  BY <1>1, <3>1, <3>2, <4>1, <4>2, TouchOfClaim
    <3>3. CASE ~ claimed[s]
      <4>1. s \in authorized /\ EntityOf[s] # TouchEntity(TokenOf[s])
        BY <3>1, <3>3 DEF TaskKnows
      <4>2. PICK timely \in BOOLEAN : Confirm(TokenOf[s], EntityOf[s], TRUE, timely)
        BY <2>2, <3>3 DEF Promote
      <4>. QED  BY <1>1, <4>1, <4>2, ConfirmationOfOther
    <3>. QED  BY <3>2, <3>3
  <2>. QED  BY <2>1, <2>2
<1>6. Plain
  <2>1. ASSUME NEW u \in Swaps, task'[u] \in Knowing, firstTouch[TokenOf[u]] = u
        PROVE  StaysUnbought(TokenOf[u])
    <3>1. \A v \in Swaps : TokenOf[v] \in Tokens
      BY IntakeAssumption
    <3>2. task'[s] \notin Knowing
      BY <1>3 DEF Knowing
    <3>. QED  BY <1>5, <2>1, <3>1, <3>2 DEF StaysUnbought
  <2>2. \A u \in Swaps : task'[u] # "authorized" /\ (task'[u] = task[u] \/ task'[u] \notin Knowing)
    BY <1>2, <1>3 DEF Knowing
  <2>. QED  BY <1>1, <2>1, <2>2 DEF Plain
<1>7. AuthorizedAreTouched'
  BY <1>1 DEF IntakeInv, AuthorizedAreTouched
<1>. QED  BY <1>1, <1>4, <1>5, <1>6, <1>7, PlainTasks DEF IntakeInv

LEMMA LoseKeeps ==
  ASSUME IntakeInv, IInv', TypeOK', LoseProcess
  PROVE  IntakeInv'
<1>1. /\ UNCHANGED <<inbox, completed, alive, recorded, firstTouch, authorized, failures, ingested>>
      /\ task' = [s \in Swaps |-> "none"] /\ claimed' = [s \in Swaps |-> FALSE] /\ working' = FALSE
  BY DEF LoseProcess, tables
<1>2. Quiet /\ TablesGrow
  BY <1>1, OthersAreQuiet, TypesNow DEF LoseProcess, TablesGrow
<1>3. IntakeTypeOK'
  BY <1>1, TypesNow, TypesStay DEF PCs
<1>4. \A s \in Swaps : TaskKnows(s)' /\ task'[s] # "authorized"
  BY <1>1 DEF TaskKnows, Knowing
<1>5. AuthorizedAreTouched'
  BY <1>1 DEF IntakeInv, AuthorizedAreTouched
<1>. QED  BY <1>1, <1>2, <1>3, <1>4, <1>5, QuietKeeps DEF IntakeInv

(* A restore brings back candidates of the checkpoint, and the positions   *)
(* there were.                                                             *)
LEMMA StartEffect ==
  ASSUME IInv, Start
  PROVE  /\ positions' = positions /\ bought' = bought
         /\ checkpoint' = checkpoint /\ covered' = covered
         /\ candidates' = candidates \/ (covered /\ candidates' = checkpoint.candidates)
<1>1. checkpoint' = checkpoint /\ covered' = covered
  BY DEF Start, durable
<1>2. CASE Restorable
  <2>1. positions' = checkpoint.positions /\ candidates' = checkpoint.candidates /\ bought' = bought
    BY <1>2 DEF Start
  <2>2. checkpoint.positions = positions /\ covered
    BY <1>2 DEF Restorable, IInv, CoveredIsMemory
  <2>. QED  BY <1>1, <2>1, <2>2
<1>3. CASE ~ Restorable
  BY <1>1, <1>3 DEF Start, portfolio
<1>. QED  BY <1>2, <1>3

LEMMA StartKeeps ==
  ASSUME IntakeInv, IInv', TypeOK', StartProcess
  PROVE  IntakeInv'
<1>1. /\ UNCHANGED <<inbox, completed, working, recorded, firstTouch, authorized, claimed, failures, ingested, task>>
      /\ alive' = TRUE
  BY DEF StartProcess, tables
<1>2. /\ positions' = positions /\ bought' = bought
      /\ checkpoint' = checkpoint /\ covered' = covered
      /\ candidates' = candidates \/ (covered /\ candidates' = checkpoint.candidates)
  BY StartEffect, TypesNow DEF StartProcess
<1>3. Plain
  <2>1. \A u \in Swaps : StaysUnbought(TokenOf[u])
    BY <1>2 DEF StaysUnbought, Unbought
  <2>. QED  BY <1>1, <1>2, <2>1 DEF Plain
<1>4. IntakeTypeOK'
  BY <1>1, TypesNow, TypesStay
<1>5. AreClaims(candidates)' /\ AreClaims(checkpoint.candidates)'
  BY <1>1, <1>2 DEF IntakeInv, AreClaims, TouchEntity
<1>6. EntriesInv'
  <2>1. \A t : StarterAllowed(t)' = StarterAllowed(t) /\ RestAllowed(t)' = RestAllowed(t)
    BY <1>1 DEF StarterAllowed, RestAllowed, TouchEntity
  <2>2. EntriesWereAuthorized'
    BY <1>2, <2>1 DEF IntakeInv, EntriesInv, EntriesWereAuthorized
  <2>3. covered' => WaitForTheRest(checkpoint.candidates)'
    BY <1>2, <2>1 DEF IntakeInv, EntriesInv, WaitForTheRest
  <2>4. WaitForTheRest(candidates)'
    BY <1>2, <2>1 DEF IntakeInv, EntriesInv, WaitForTheRest
  <2>. QED  BY <1>1, <1>2, <2>2, <2>3, <2>4 DEF IntakeInv, EntriesInv
<1>7. AuthorizedAreTouched'
  BY <1>1 DEF IntakeInv, AuthorizedAreTouched
<1>. QED  BY <1>1, <1>3, <1>4, <1>5, <1>6, <1>7, PlainTasks DEF IntakeInv

-----------------------------------------------------------------------------
LEMMA IntakeInitInv == IntakeInit => IntakeInv
<1>. SUFFICES ASSUME IntakeInit PROVE IntakeInv
  OBVIOUS
<1>1. IInv /\ TypeOK
  BY InitIInv DEF IntakeInit, IInv
<1>2. /\ bought = [t \in Tokens |-> 0] /\ candidates = [t \in Tokens |-> NoCandidate]
      /\ checkpoint.candidates = candidates
  BY DEF IntakeInit, Init, Genesis
<1>3. AreClaims(candidates) /\ AreClaims(checkpoint.candidates)
  BY <1>2 DEF AreClaims, NoCandidate
<1>4. EntriesInv
  <2>1. \A t \in Tokens : bought[t] = 0 /\ candidates[t].status = "none"
    BY <1>2 DEF NoCandidate
  <2>2. \A t : StarterAllowed(t) \in Nat /\ RestAllowed(t) \in Nat
    BY AllowedAreNat
  <2>3. EntriesWereAuthorized
    BY <2>1, <2>2 DEF EntriesWereAuthorized
  <2>. QED  BY <1>2, <2>1, <2>3 DEF EntriesInv, WaitForTheRest
<1>5. IntakeTypeOK
  <2>1. inbox \in Seq(Swaps)
    BY EmptySeq DEF IntakeInit
  <2>2. failures \in 0..MaxFailures
    BY IntakeAssumption DEF IntakeInit
  <2>. QED  BY <1>1, <2>1, <2>2 DEF IntakeInit, IntakeTypeOK
<1>6. AuthorizedAreTouched /\ \A s \in Swaps : TaskKnows(s) /\ task[s] # "authorized"
  BY DEF IntakeInit, AuthorizedAreTouched, TaskKnows, Knowing
<1>7. ~ working
  BY DEF IntakeInit
<1>. QED  BY <1>1, <1>3, <1>4, <1>5, <1>6, <1>7 DEF IntakeInv

LEMMA IntakeNextInv == IntakeInv /\ [IntakeNext]_<<vars, intake>> => IntakeInv'
<1>. SUFFICES ASSUME IntakeInv, [IntakeNext]_<<vars, intake>> PROVE IntakeInv'
  OBVIOUS
<1>1. IInv' /\ TypeOK'
  BY EngineStays
<1>2. ASSUME NEW s \in Swaps, Hydrate(s)  PROVE IntakeInv'
  <2>1. Record(s) /\ working' = working
    BY <1>2 DEF Hydrate
  <2>2. working' \in BOOLEAN /\ (working' => inbox # << >>)
    BY <2>1, TypesNow DEF IntakeInv
  <2>. QED  BY <1>1, <2>1, <2>2, RecordKeeps
<1>3. CASE TakeRow
  <2>1. Head(inbox) \in Swaps
    BY <1>3, TypesNow DEF TakeRow, Polls
  <2>2. PICK s \in Swaps : s = Head(inbox)
    BY <2>1
  <2>3. Record(s) /\ working' \in BOOLEAN /\ inbox # << >>
    BY <1>3, <2>2 DEF TakeRow, Polls
  <2>. QED  BY <1>1, <2>3, RecordKeeps
<1>4. CASE (\E s \in Swaps : Enqueue(s)) \/ CompleteDuplicate \/ RowReturns \/ RejectRow
  BY <1>1, <1>4, QueueKeeps
<1>5. ASSUME NEW s \in Swaps, TaskStep(s) \/ Fail(s)  PROVE IntakeInv'
  BY <1>1, <1>5, ClaimKeeps, AskQuoteKeeps, AuthorizeKeeps, CallsKeep, EndKeeps DEF TaskStep
<1>6. CASE HandlerWrites \/ HandlerReturns \/ HandlerRaises
  BY <1>1, <1>6, HandlerStepsKeep
<1>7. ASSUME NEW t \in Tokens, ClockPrices(t) \/ Reap(t)  PROVE IntakeInv'
  BY <1>1, <1>7, ClocksKeep
<1>8. CASE LoseProcess \/ StartProcess
  BY <1>1, <1>8, LoseKeeps, StartKeeps
<1>9. CASE UNCHANGED <<vars, intake>>
  <2>1. /\ UNCHANGED vars
        /\ UNCHANGED <<inbox, completed, working, alive, recorded, firstTouch, authorized, claimed, failures, ingested, task>>
    BY <1>9 DEF intake, queue, tables
  <2>2. Quiet /\ UNCHANGED portfolio
    BY <2>1, OthersAreQuiet, TypesNow
  <2>3. Plain
    BY <2>1, <2>2, QuietTasks DEF portfolio
  <2>4. IntakeTypeOK'
    BY <1>1, <2>1, TypesNow, TypesStay
  <2>5. working' => inbox' # << >>
    BY <2>1 DEF IntakeInv
  <2>. QED  BY <1>1, <2>2, <2>3, <2>4, <2>5, PlainKeeps
<1>. QED  BY <1>2, <1>3, <1>4, <1>5, <1>6, <1>7, <1>8, <1>9 DEF IntakeNext

LEMMA IntakeInvHolds == IntakeSpec => []IntakeInv
<1>. QED  BY IntakeInitInv, IntakeNextInv, PTL DEF IntakeSpec

-----------------------------------------------------------------------------
(* Behind the intake the engine does what its own specification says: what *)
(* the queue, the gate and overlapping tasks do to it are steps of it.     *)
THEOREM IntakeKeepsEngine == IntakeSpec => Spec
<1>1. IntakeInit => Init
  BY DEF IntakeInit
<1>2. IntakeInv /\ [IntakeNext]_<<vars, intake>> => [Next]_vars
  BY StepsAreEngineSteps DEF IntakeInv
<1>. QED  BY <1>1, <1>2, IntakeInvHolds, PTL DEF IntakeSpec, Spec

(* So no position the intake led to is left without a candidate that can   *)
(* still exit it.                                                          *)
COROLLARY PositionsBehindTheGateAreWatched == IntakeSpec => []OpenPositionsAreWatched
<1>. QED  BY IntakeKeepsEngine, OpenAreWatched, PTL

(* Tables, queue and tasks stay well formed.                               *)
THEOREM IntakeTypeCorrect == IntakeSpec => []IntakeTypeOK
<1>1. IntakeInv => IntakeTypeOK
  BY DEF IntakeInv
<1>. QED  BY <1>1, IntakeInvHolds, PTL

(* However tasks overlap, fail, are purged, lost or restored, the          *)
(* candidate followed is the swap that claimed the token.                  *)
THEOREM CandidatesAreClaims == IntakeSpec => []CandidateIsTheClaim
<1>1. IntakeInv => CandidateIsTheClaim
  BY DEF IntakeInv, AreClaims, CandidateIsTheClaim
<1>. QED  BY <1>1, IntakeInvHolds, PTL

(* What was ever bought of a token the gate authorised: at most a starter  *)
(* for the claim and the rest for one other entity, over all runs.         *)
THEOREM EntriesAreAuthorized == IntakeSpec => []EntriesWereAuthorized
<1>1. IntakeInv => EntriesWereAuthorized
  BY DEF IntakeInv, EntriesInv
<1>. QED  BY <1>1, IntakeInvHolds, PTL

(* Nothing is bought from a fresh portfolio once an entry was authorised.  *)
THEOREM NeverSilentlyRestarted == IntakeSpec => NoSilentRestart
<1>. DEFINE Grows == \E t \in Tokens : bought'[t] > bought[t]
<1>1. ASSUME IntakeInv, IntakeNext, Grows
      PROVE  (\E u \in Tokens : positions[u].exists) \/ Cardinality(authorized) = 1
  <2>1. bought' # bought
    <3>1. \A t \in Tokens : bought[t] \in Nat
      BY <1>1 DEF IntakeInv, IInv, TypeOK
    <3>. QED  BY <1>1, <3>1
  <2>2. ~ Quiet
    BY <2>1 DEF Quiet
  <2>3. ~ Start
    BY <1>1, <2>1, StartEffect, TypesNow
  <2>4. ~ UNCHANGED portfolio
    BY <2>1 DEF portfolio
  <2>5. \A s \in Swaps : ~ Record(s)
    BY <1>1, <2>2, PriceIsQuiet, OthersAreQuiet, TypesNow, IntakeAssumption DEF Record
  <2>6. ~ TakeRow
    <3>1. SUFFICES ASSUME TakeRow PROVE FALSE
      OBVIOUS
    <3>2. Head(inbox) \in Swaps
      BY <1>1, <3>1, TypesNow DEF TakeRow, Polls
    <3>. QED  BY <2>5, <3>1, <3>2 DEF TakeRow, Polls
  <2>7. \A s \in Swaps : ~ RegisterTouch(s)
    <3>1. SUFFICES ASSUME NEW s \in Swaps, RegisterTouch(s) PROVE FALSE
      OBVIOUS
    <3>2. PICK t \in Tokens, e \in Entities : t = TokenOf[s] /\ e = EntityOf[s]
      BY IntakeAssumption
    <3>3. FirstTouch(t, e, "A", TRUE)
      BY <3>1, <3>2 DEF RegisterTouch
    <3>. QED  BY <1>1, <2>4, <3>3, TouchEffect, TypesNow
  <2>8. \A s \in Swaps : ~ (\/ Claim(s) \/ AskQuote(s) \/ Assessed(s) \/ Authorize(s) \/ Refuse(s)
                            \/ Enqueue(s) \/ Fail(s))
    BY <2>4 DEF Claim, AskQuote, Assessed, Authorize, Refuse, Decline, Enqueue, Fail, vars
  <2>9. ~ (\/ CompleteDuplicate \/ RowReturns \/ RejectRow
           \/ HandlerWrites \/ HandlerReturns \/ HandlerRaises \/ LoseProcess)
    BY <2>4 DEF CompleteDuplicate, RowReturns, RejectRow, HandlerWrites, HandlerReturns, HandlerRaises,
       LoseProcess, vars, AppendIntent, AppendOutcome, SaveCheckpoint, Raise, Lose
  <2>10. \A t \in Tokens : ~ ClockPrices(t) /\ ~ Reap(t)
    BY <1>1, <2>2, PriceIsQuiet, PurgeIsQuiet, TypesNow DEF ClockPrices, Reap
  <2>11. \E s \in Swaps : Promote(s)
    BY <1>1, <2>3, <2>5, <2>6, <2>7, <2>8, <2>9, <2>10 DEF IntakeNext, TaskStep, Hydrate, StartProcess
  <2>. QED  BY <1>1, <2>11 DEF Promote, IntakeInv, TaskKnows, HasHistory
<1>2. IntakeInv /\ [IntakeNext]_<<vars, intake>> =>
        [\A t \in Tokens :
           bought'[t] > bought[t] => \/ \E u \in Tokens : positions[u].exists
                                     \/ Cardinality(authorized) = 1]_<<vars, intake>>
  BY <1>1
<1>. QED  BY <1>2, IntakeInvHolds, PTL DEF IntakeSpec, NoSilentRestart

-----------------------------------------------------------------------------
(* A payload has one row, which is pending or complete.                    *)
PayloadsAreOnce ==
  /\ \A i, j \in 1..Len(inbox) : inbox[i] = inbox[j] => i = j
  /\ \A i \in 1..Len(inbox) : inbox[i] \notin completed

(* Every payload ever accepted is still in the queue or complete.          *)
PayloadsStay ==
  /\ \A s \in Swaps : s \in InboxRows \cup completed => s \in (InboxRows \cup completed)'
  /\ completed \subseteq completed'

(* The worker waits for a task that runs, or has run, for the first row.   *)
WorkerHasItsTask == working => inbox # << >> /\ task[Head(inbox)] # "none"

(* A swap with a task, or a complete row, is recorded; a process that is   *)
(* not running has no task.                                                *)
TasksAreRecorded ==
  /\ \A s \in Swaps : task[s] # "none" => s \in recorded
  /\ completed \subseteq recorded
  /\ process # "running" => ~ working /\ \A s \in Swaps : task[s] = "none"

(* Nothing has failed, raised or been lost so far.                         *)
Unfailed == failures = 0 /\ raises = 0 /\ losses = 0

RecordedAreIngested ==
  Unfailed => \A s \in recorded : s \in ingested \/ task[s] \notin {"none", "over"}

QueueInv == PayloadsAreOnce /\ WorkerHasItsTask /\ TasksAreRecorded /\ RecordedAreIngested

-----------------------------------------------------------------------------
(* What a step can do to the queue.                                        *)
Accepts(s) ==
  /\ s \notin InboxRows \cup completed
  /\ inbox' = Append(inbox, s) /\ completed' = completed
  /\ UNCHANGED <<working, task>>

Completes ==
  /\ inbox # << >> /\ Head(inbox) \in recorded
  /\ inbox' = Tail(inbox) /\ completed' = completed \cup {Head(inbox)}
  /\ ~ working'

LEMMA QueueMoves ==
  ASSUME IntakeInv, TasksAreRecorded, [IntakeNext]_<<vars, intake>>
  PROVE  \/ UNCHANGED <<inbox, completed>>
         \/ \E s \in Swaps : Accepts(s)
         \/ Completes
<1>1. ASSUME NEW s \in Swaps, Hydrate(s) \/ TaskStep(s) \/ Fail(s)  PROVE UNCHANGED <<inbox, completed>>
  BY <1>1 DEF Hydrate, Record, TaskStep, Claim, RegisterTouch, AskQuote, Assessed, Authorize, Refuse,
     Decline, Promote, Fail, queue, tables
<1>2. ASSUME NEW s \in Swaps, Enqueue(s)  PROVE Accepts(s)
  BY <1>2 DEF Enqueue, Accepts
<1>3. CASE TakeRow \/ HandlerWrites \/ HandlerReturns \/ HandlerRaises \/ LoseProcess \/ StartProcess
  BY <1>3 DEF TakeRow, Record, HandlerWrites, HandlerReturns, HandlerRaises, LoseProcess, StartProcess,
     intake, queue
<1>4. ASSUME NEW t \in Tokens, ClockPrices(t) \/ Reap(t)  PROVE UNCHANGED <<inbox, completed>>
  BY <1>4 DEF ClockPrices, Reap, intake, queue
<1>5. CASE CompleteDuplicate
  BY <1>5, WorkerWrites DEF CompleteDuplicate, Polls, Duplicate, Completes
<1>6. CASE RowReturns
  <2>1. inbox # << >>
    BY <1>6 DEF RowReturns, IntakeInv
  <2>2. Head(inbox) \in Swaps
    BY <2>1, TypesNow
  <2>3. Head(inbox) \in recorded
    BY <1>6, <2>2 DEF RowReturns, TasksAreRecorded
  <2>. QED  BY <1>6, <2>1, <2>3, WorkerWrites DEF RowReturns, Completes
<1>8. CASE RejectRow
  BY <1>8 DEF RejectRow, MarkRetry, queue
<1>7. CASE UNCHANGED <<vars, intake>>
  BY <1>7 DEF intake, queue
<1>. QED  BY <1>1, <1>2, <1>3, <1>4, <1>5, <1>6, <1>7, <1>8 DEF IntakeNext

(* A sequence of rows of a set S that are apart from each other and done.  *)
LEMMA AppendedRows ==
  ASSUME NEW S, NEW q \in Seq(S), NEW s \in S, NEW r, r = Append(q, s)
  PROVE  /\ Len(r) = Len(q) + 1 /\ r[Len(q) + 1] = s
         /\ \A i \in 1..Len(q) : r[i] = q[i]
         /\ q # << >> => r # << >> /\ Head(r) = Head(q)
OBVIOUS

LEMMA TailRows ==
  ASSUME NEW S, NEW q \in Seq(S), q # << >>, NEW r, r = Tail(q)
  PROVE  /\ Len(q) \in Nat /\ Len(q) > 0 /\ Len(r) = Len(q) - 1
         /\ Head(q) = q[1]
         /\ \A i \in 1..Len(r) : r[i] = q[i + 1]
OBVIOUS

LEMMA QueueKeepsOnce ==
  ASSUME PayloadsAreOnce, inbox \in Seq(Swaps),
         UNCHANGED <<inbox, completed>> \/ (\E s \in Swaps : Accepts(s)) \/ Completes
  PROVE  PayloadsAreOnce' /\ PayloadsStay
<1>1. CASE UNCHANGED <<inbox, completed>>
  BY <1>1 DEF PayloadsAreOnce, PayloadsStay, InboxRows
<1>2. ASSUME NEW s \in Swaps, Accepts(s)
      PROVE  PayloadsAreOnce' /\ PayloadsStay
  <2>1. PICK q, r : q = inbox /\ r = inbox'
    OBVIOUS
  <2>2. q \in Seq(Swaps) /\ r = Append(q, s)
    BY <1>2, <2>1 DEF Accepts
  <2>3. /\ Len(q) \in Nat /\ Len(r) = Len(q) + 1 /\ r[Len(q) + 1] = s
        /\ \A i \in 1..Len(q) : r[i] = q[i]
    BY <2>2, AppendedRows
  <2>4. s \notin completed /\ \A i \in 1..Len(q) : q[i] # s
    BY <1>2, <2>1 DEF Accepts, InboxRows
  <2>5. \A i \in 1..Len(r) : i \in 1..Len(q) \/ i = Len(q) + 1
    BY <2>3
  <2>6. completed' = completed
    BY <1>2 DEF Accepts
  <2>7. \A i, j \in 1..Len(r) : r[i] = r[j] => i = j
    BY <2>1, <2>3, <2>4, <2>5 DEF PayloadsAreOnce
  <2>8. \A i \in 1..Len(r) : r[i] \notin completed
    BY <2>1, <2>3, <2>4, <2>5 DEF PayloadsAreOnce
  <2>9. \A i \in 1..Len(q) : i \in 1..Len(r) /\ r[i] = q[i]
    BY <2>3
  <2>10. PayloadsStay
    BY <2>1, <2>6, <2>9 DEF PayloadsStay, InboxRows
  <2>. QED  BY <2>1, <2>6, <2>7, <2>8, <2>10 DEF PayloadsAreOnce
<1>3. CASE Completes
  <2>1. PICK q, r : q = inbox /\ r = inbox'
    OBVIOUS
  <2>2. q \in Seq(Swaps) /\ q # << >> /\ r = Tail(q) /\ completed' = completed \cup {Head(q)}
    BY <1>3, <2>1 DEF Completes
  <2>3. /\ Len(q) \in Nat /\ Len(q) > 0 /\ Len(r) = Len(q) - 1
        /\ Head(q) = q[1]
        /\ \A i \in 1..Len(r) : r[i] = q[i + 1]
    BY <2>2, TailRows
  <2>4. \A i \in 1..Len(r) : i \in Nat /\ i + 1 \in 1..Len(q) /\ i + 1 # 1 /\ 1 \in 1..Len(q)
    BY <2>3
  <2>5. \A i, j \in 1..Len(r) : r[i] = r[j] => i = j
    <3>. TAKE i, j \in 1..Len(r)
    <3>1. q[i + 1] = q[j + 1] => i + 1 = j + 1
      BY <2>1, <2>4 DEF PayloadsAreOnce
    <3>. QED  BY <2>3, <2>4, <3>1
  <2>6. \A i \in 1..Len(r) : r[i] \notin completed /\ r[i] # Head(q)
    BY <2>1, <2>3, <2>4 DEF PayloadsAreOnce
  <2>7. \A i \in 1..Len(q) : i = 1 \/ (i - 1 \in 1..Len(r) /\ r[i - 1] = q[i])
    <3>. TAKE i \in 1..Len(q)
    <3>1. i # 1 => i - 1 \in 1..Len(r) /\ (i - 1) + 1 = i
      BY <2>3
    <3>. QED  BY <2>3, <3>1
  <2>8. PayloadsStay
    <3>1. ASSUME NEW i \in 1..Len(q)
          PROVE  q[i] \in completed' \/ \E j \in 1..Len(r) : r[j] = q[i]
      BY <2>2, <2>3, <2>7
    <3>2. completed \subseteq completed'
      BY <2>2
    <3>. QED  BY <2>1, <3>1, <3>2 DEF PayloadsStay, InboxRows
  <2>. QED  BY <2>1, <2>2, <2>5, <2>6, <2>8 DEF PayloadsAreOnce
<1>. QED  BY <1>1, <1>2, <1>3

-----------------------------------------------------------------------------
(* What a step can do to the tasks while the process lives: none is        *)
(* forgotten, none begins unrecorded, and none ends unsaid unless an await *)
(* or the engine failed.                                                   *)
TasksGoOn ==
  /\ \A s \in Swaps : task'[s] = "none" => task[s] = "none"
  /\ \A s \in Swaps : task'[s] # "none" => s \in recorded'
  /\ recorded \subseteq recorded' /\ ingested \subseteq ingested'
  /\ process' = process \/ (process = "lost" /\ UNCHANGED <<task, working>>)
  /\ Unfailed' =>
       /\ Unfailed
       /\ \A s \in Swaps : task'[s] = "over" => task[s] = "over" \/ s \in ingested'
       /\ \A s \in recorded' : s \in recorded \/ task'[s] \notin {"none", "over"}

Counting == raises \in Nat /\ losses \in Nat /\ failures \in Nat

LEMMA CountersAreNat == IntakeInv => Counting
BY IntakeAssumption, EngineAssumption DEF IntakeInv, IInv, TypeOK, IntakeTypeOK, Counting

(* The engine's steps but the loss and the start leave the process alone.  *)
LEMMA EngineGoesOn ==
  ASSUME Counting,
         \/ \E t \in Tokens : Price(t) \/ Purge(t)
         \/ \E t, e, tier, b : FirstTouch(t, e, tier, b)
         \/ \E t, e, b, timely : Confirm(t, e, b, timely)
         \/ AppendIntent \/ AppendOutcome \/ SaveCheckpoint \/ UNCHANGED vars
  PROVE  /\ process' = process
         /\ raises' = 0 /\ losses' = 0 => raises = 0 /\ losses = 0
<1>1. CASE \E t \in Tokens : Purge(t)
  BY <1>1 DEF Purge, Counting
<1>2. CASE \E t \in Tokens : Price(t)
  BY <1>2 DEF Price, PriceMarks, PriceExpires, PriceHarvests, PriceCloses, Writes
<1>3. CASE (\E t, e, tier, b : FirstTouch(t, e, tier, b)) \/ \E t, e, b, timely : Confirm(t, e, b, timely)
  BY <1>3 DEF FirstTouch, Confirm, Writes
<1>4. CASE AppendIntent \/ AppendOutcome \/ SaveCheckpoint \/ UNCHANGED vars
  BY <1>4 DEF AppendIntent, AppendOutcome, SaveCheckpoint, vars
<1>. QED  BY <1>1, <1>2, <1>3, <1>4

LEMMA RecordGoesOn ==
  ASSUME IntakeInv, TasksAreRecorded, NEW s \in Swaps, Record(s)
  PROVE  TasksGoOn
<1>1. PICK pc \in {"marking", "refreshing"} : task' = [task EXCEPT ![s] = pc]
  BY DEF Record, Goto
<1>2. \A u \in Swaps : task'[u] = IF u = s THEN pc ELSE task[u]
  BY <1>1, TypesNow
<1>3. recorded' = recorded \cup {s} /\ ingested' = ingested /\ failures' = failures
  BY DEF Record
<1>4. /\ process' = process
      /\ raises' = 0 /\ losses' = 0 => raises = 0 /\ losses = 0
  <2>1. TokenOf[s] \in Tokens
    BY IntakeAssumption
  <2>. QED  BY <2>1, EngineGoesOn, CountersAreNat DEF Record
<1>. QED  BY <1>2, <1>3, <1>4, TypesNow DEF TasksGoOn, TasksAreRecorded, Unfailed

(* One task goes on to its next await, or to its end.                      *)
LEMMA TaskGoesOn ==
  ASSUME IntakeInv, TasksAreRecorded, NEW s \in Swaps, TaskStep(s) \/ Fail(s)
  PROVE  TasksGoOn
<1>1. PICK pc \in {"assessing", "quoting", "authorized", "promoting", "over"} :
        task' = [task EXCEPT ![s] = pc]
  BY DEF TaskStep, Claim, RegisterTouch, AskQuote, Assessed, Authorize, Refuse, Decline, Finish, Promote,
     Fail, Goto
<1>2. \A u \in Swaps : task'[u] = IF u = s THEN pc ELSE task[u]
  BY <1>1, TypesNow
<1>3. task[s] # "none"
  BY DEF TaskStep, Claim, RegisterTouch, AskQuote, Assessed, Authorize, Refuse, Promote, Fail
<1>4. recorded' = recorded
  BY DEF TaskStep, Claim, RegisterTouch, AskQuote, Assessed, Authorize, Refuse, Decline, Promote, Fail, tables
<1>5. ingested \subseteq ingested'
  BY DEF TaskStep, Claim, RegisterTouch, AskQuote, Assessed, Authorize, Refuse, Decline, Finish, Promote, Fail
<1>6. Unfailed' /\ pc = "over" => s \in ingested'
  <2>1. CASE Fail(s)
    <3>1. failures' # 0
      BY <2>1, CountersAreNat DEF Fail, Counting
    <3>. QED  BY <3>1 DEF Unfailed
  <2>2. CASE Claim(s)
    <3>1. \/ ingested' = ingested \cup {s}
          \/ task' = [task EXCEPT ![s] = "assessing"]
      BY <2>2 DEF Claim, Finish, Goto
    <3>. QED  BY <1>2, <3>1, TypesNow
  <2>3. CASE Assessed(s) \/ Refuse(s)
    BY <2>3 DEF Assessed, Refuse, Decline, Finish
  <2>4. CASE RegisterTouch(s) \/ AskQuote(s) \/ Authorize(s) \/ Promote(s)
    <3>1. PICK qc \in {"quoting", "authorized", "promoting"} : task' = [task EXCEPT ![s] = qc]
      BY <2>4 DEF RegisterTouch, AskQuote, Authorize, Promote, Goto
    <3>. QED  BY <1>2, <3>1, TypesNow
  <2>. QED  BY <2>1, <2>2, <2>3, <2>4 DEF TaskStep
<1>7. /\ process' = process
      /\ raises' = 0 /\ losses' = 0 => raises = 0 /\ losses = 0
  <2>1. CASE RegisterTouch(s) \/ Promote(s)
    BY <2>1, EngineGoesOn, CountersAreNat DEF RegisterTouch, Promote
  <2>2. CASE Claim(s) \/ AskQuote(s) \/ Assessed(s) \/ Authorize(s) \/ Refuse(s) \/ Fail(s)
    BY <2>2, EngineGoesOn, CountersAreNat DEF Claim, AskQuote, Assessed, Authorize, Refuse, Decline, Fail
  <2>. QED  BY <2>1, <2>2 DEF TaskStep
<1>8. failures' = 0 => failures = 0
  <2>1. CASE Fail(s)
    BY <2>1, CountersAreNat DEF Fail, Counting
  <2>2. CASE TaskStep(s)
    BY <2>2 DEF TaskStep, Claim, RegisterTouch, AskQuote, Assessed, Authorize, Refuse, Decline, Promote
  <2>. QED  BY <2>1, <2>2
<1>. QED  BY <1>2, <1>3, <1>4, <1>5, <1>6, <1>7, <1>8 DEF TasksGoOn, TasksAreRecorded, Unfailed

LEMMA HandlerGoesOn ==
  ASSUME IntakeInv, TasksAreRecorded, HandlerWrites \/ HandlerReturns \/ HandlerRaises
  PROVE  TasksGoOn
<1>1. recorded' = recorded /\ ingested \subseteq ingested' /\ failures' = failures
  BY DEF HandlerWrites, HandlerReturns, HandlerRaises, intake, tables
<1>2. CASE HandlerWrites
  <2>1. task' = task
    BY <1>2 DEF HandlerWrites, intake
  <2>2. /\ process' = process
        /\ raises' = 0 /\ losses' = 0 => raises = 0 /\ losses = 0
    BY <1>2, EngineGoesOn, CountersAreNat DEF HandlerWrites
  <2>. QED  BY <1>1, <2>1, <2>2 DEF TasksGoOn, TasksAreRecorded, Unfailed
<1>3. CASE HandlerReturns
  <2>1. /\ \A s \in Swaps : task'[s] = IF task[s] = "marking" THEN "refreshing"
                                       ELSE IF task[s] = "promoting" THEN "over" ELSE task[s]
        /\ \A s \in Swaps : task[s] = "promoting" => s \in ingested'
    BY <1>3 DEF HandlerReturns
  <2>2. /\ process' = process
        /\ raises' = 0 /\ losses' = 0 => raises = 0 /\ losses = 0
    BY <1>3, EngineGoesOn, CountersAreNat DEF HandlerReturns
  <2>. QED  BY <1>1, <2>1, <2>2 DEF TasksGoOn, TasksAreRecorded, Unfailed
<1>4. CASE HandlerRaises
  <2>1. \A s \in Swaps : task'[s] = IF s \in Calling THEN "over" ELSE task[s]
    BY <1>4 DEF HandlerRaises
  <2>2. \A s \in Swaps : s \in Calling => task[s] # "none"
    BY DEF Calling
  <2>3. process' = process /\ raises' # 0
    BY <1>4, CountersAreNat DEF HandlerRaises, Raise, Counting
  <2>. QED  BY <1>1, <2>1, <2>2, <2>3 DEF TasksGoOn, TasksAreRecorded, Unfailed
<1>. QED  BY <1>2, <1>3, <1>4

LEMMA StepsGoOn ==
  ASSUME IntakeInv, TasksAreRecorded, [IntakeNext]_<<vars, intake>>, ~ LoseProcess
  PROVE  TasksGoOn
<1>1. ASSUME NEW s \in Swaps, Hydrate(s) \/ TaskStep(s) \/ Fail(s)  PROVE TasksGoOn
  BY <1>1, RecordGoesOn, TaskGoesOn DEF Hydrate
<1>2. CASE TakeRow
  <2>1. Head(inbox) \in Swaps
    BY <1>2, TypesNow DEF TakeRow, Polls
  <2>. QED  BY <1>2, <2>1, RecordGoesOn DEF TakeRow, Polls
<1>3. CASE HandlerWrites \/ HandlerReturns \/ HandlerRaises
  BY <1>3, HandlerGoesOn
<1>4. CASE \/ \E s \in Swaps : Enqueue(s)
           \/ CompleteDuplicate \/ RowReturns \/ RejectRow \/ UNCHANGED <<vars, intake>>
           \/ \E t \in Tokens : ClockPrices(t) \/ Reap(t)
  <2>1. UNCHANGED <<task, recorded, ingested>>
    BY <1>4 DEF Enqueue, CompleteDuplicate, RowReturns, RejectRow, ClockPrices, Reap, intake, tables
  <2>4. failures' = 0 => failures = 0
    <3>1. CASE CompleteDuplicate \/ RowReturns
      BY <3>1, WorkerWrites DEF CompleteDuplicate, RowReturns
    <3>2. CASE RejectRow
      <4>1. CASE MarkRetry
        BY <4>1, WorkerWrites
      <4>2. CASE failures' = failures + 1
        BY <4>2, CountersAreNat DEF Counting
      <4>. QED  BY <3>2, <4>1, <4>2 DEF RejectRow
    <3>. QED  BY <1>4, <3>1, <3>2 DEF Enqueue, ClockPrices, Reap, intake
  <2>2. UNCHANGED vars \/ \E t \in Tokens : Price(t) \/ Purge(t)
    BY <1>4 DEF Enqueue, CompleteDuplicate, RowReturns, RejectRow, ClockPrices, Reap
  <2>3. /\ process' = process
        /\ raises' = 0 /\ losses' = 0 => raises = 0 /\ losses = 0
    BY <2>2, EngineGoesOn, CountersAreNat
  <2>. QED  BY <2>1, <2>3, <2>4 DEF TasksGoOn, TasksAreRecorded, Unfailed
<1>5. CASE StartProcess
  <2>1. UNCHANGED <<task, working, recorded, ingested, failures, raises, losses>> /\ process = "lost"
    BY <1>5 DEF StartProcess, Start, tables
  <2>. QED  BY <2>1 DEF TasksGoOn, TasksAreRecorded, Unfailed
<1>. QED  BY <1>1, <1>2, <1>3, <1>4, <1>5 DEF IntakeNext

(* Whether the worker waits.                                               *)
LEMMA WorkerMoves ==
  ASSUME IntakeInv, TasksAreRecorded, [IntakeNext]_<<vars, intake>>, working'
  PROVE  \/ TakeRow
         \/ working /\ UNCHANGED <<inbox, completed>>
         \/ working /\ \E s \in Swaps : Accepts(s)
<1>1. CASE TakeRow
  BY <1>1
<1>2. CASE ~ TakeRow
  <2>1. working' = working \/ working' = FALSE
    BY <1>2 DEF IntakeNext, Hydrate, Enqueue, TaskStep, Claim, RegisterTouch, AskQuote, Assessed, Authorize,
       Refuse, Decline, Promote, Fail, CompleteDuplicate, RowReturns, RejectRow, MarkComplete, MarkRetry,
       HandlerWrites, HandlerReturns, HandlerRaises, ClockPrices, Reap, LoseProcess, StartProcess, intake, queue
  <2>. QED  BY <2>1, QueueMoves DEF Completes
<1>. QED  BY <1>1, <1>2

LEMMA QueueNextInv ==
  ASSUME IntakeInv, QueueInv, [IntakeNext]_<<vars, intake>>
  PROVE  QueueInv' /\ PayloadsStay
<1>1. PayloadsAreOnce' /\ PayloadsStay
  BY QueueMoves, QueueKeepsOnce, TypesNow DEF QueueInv
<1>2. CASE LoseProcess
  <2>1. /\ UNCHANGED <<completed, recorded, ingested, failures>>
        /\ \A s \in Swaps : task'[s] = "none"
        /\ ~ working'
    BY <1>2 DEF LoseProcess, tables
  <2>2. losses' # 0
    BY <1>2, CountersAreNat DEF LoseProcess, Lose, Counting
  <2>. QED  BY <1>1, <2>1, <2>2
         DEF QueueInv, WorkerHasItsTask, TasksAreRecorded, RecordedAreIngested, Unfailed
<1>3. CASE ~ LoseProcess
  <2>1. TasksGoOn
    BY <1>3, StepsGoOn DEF QueueInv
  <2>2. TasksAreRecorded'
    <3>1. completed' \subseteq recorded'
      BY <2>1, QueueMoves DEF Accepts, Completes, TasksGoOn, QueueInv, TasksAreRecorded
    <3>2. process' # "running" => ~ working' /\ \A s \in Swaps : task'[s] = "none"
      <4>1. CASE process' # process
        BY <2>1, <4>1 DEF TasksGoOn, QueueInv, TasksAreRecorded
      <4>2. CASE process' = process /\ process # "running"
        <5>1. ~ working /\ \A s \in Swaps : task[s] = "none"
          BY <4>2 DEF QueueInv, TasksAreRecorded
        <5>2. IntakeNext => (\E s \in Swaps : Fail(s)) \/ UNCHANGED <<working, task>>
          BY <1>3, <4>2, <5>1 DEF IntakeNext, Hydrate, TakeRow, Record, Enqueue, TaskStep, Claim, RegisterTouch,
             AskQuote, Assessed, Authorize, Refuse, Promote, CompleteDuplicate, RowReturns, RejectRow, Polls, HandlerWrites,
             HandlerReturns, HandlerRaises, AppendIntent, AppendOutcome, SaveCheckpoint, Raise,
             ClockPrices, Reap, StartProcess, Free, Ready, intake, queue
        <5>3. \A s \in Swaps : ~ Fail(s)
          BY <4>2 DEF Fail, Ready
        <5>. QED  BY <5>1, <5>2, <5>3 DEF intake, queue
      <4>. QED  BY <4>1, <4>2
    <3>. QED  BY <2>1, <3>1, <3>2 DEF TasksAreRecorded, TasksGoOn
  <2>3. WorkerHasItsTask'
    <3>. SUFFICES ASSUME working' PROVE inbox' # << >> /\ task'[Head(inbox')] # "none"
      BY DEF WorkerHasItsTask
    <3>1. CASE TakeRow
      <4>1. inbox # << >> /\ inbox' = inbox /\ Head(inbox) \in Swaps
        BY <3>1, TypesNow DEF TakeRow, Polls, Record
      <4>2. PICK pc \in {"marking", "refreshing"} : task' = [task EXCEPT ![Head(inbox)] = pc]
        BY <3>1 DEF TakeRow, Record, Goto
      <4>. QED  BY <4>1, <4>2, TypesNow
    <3>2. CASE working /\ UNCHANGED <<inbox, completed>>
      <4>1. inbox # << >> /\ Head(inbox) \in Swaps /\ task[Head(inbox)] # "none"
        BY <3>2, TypesNow DEF QueueInv, WorkerHasItsTask
      <4>. QED  BY <2>1, <3>2, <4>1 DEF TasksGoOn
    <3>3. CASE working /\ \E s \in Swaps : Accepts(s)
      <4>1. PICK s \in Swaps : Accepts(s)
        BY <3>3
      <4>2. PICK q, r : q = inbox /\ r = inbox'
        OBVIOUS
      <4>3. q \in Seq(Swaps) /\ q # << >> /\ r = Append(q, s) /\ task[Head(q)] # "none" /\ task' = task
        BY <3>3, <4>1, <4>2, TypesNow DEF Accepts, QueueInv, WorkerHasItsTask
      <4>4. r # << >> /\ Head(r) = Head(q)
        BY <4>3, AppendedRows
      <4>. QED  BY <4>2, <4>3, <4>4
    <3>. QED  BY <3>1, <3>2, <3>3, WorkerMoves DEF QueueInv
  <2>4. RecordedAreIngested'
    <3>. SUFFICES ASSUME Unfailed', NEW s \in recorded'
                  PROVE  s \in ingested' \/ task'[s] \notin {"none", "over"}
      BY DEF RecordedAreIngested
    <3>0. recorded' \subseteq Swaps
      <4>1. IntakeInv'
        BY IntakeNextInv
      <4>. QED  BY <4>1 DEF IntakeInv, IntakeTypeOK
    <3>1. Unfailed /\ s \in Swaps
      BY <2>1, <3>0 DEF TasksGoOn
    <3>2. CASE s \in recorded
      BY <2>1, <3>1, <3>2 DEF TasksGoOn, QueueInv, RecordedAreIngested
    <3>3. CASE s \notin recorded
      BY <2>1, <3>1, <3>3 DEF TasksGoOn
    <3>. QED  BY <3>2, <3>3
  <2>. QED  BY <1>1, <2>2, <2>3, <2>4 DEF QueueInv
<1>. QED  BY <1>2, <1>3

LEMMA QueueInitInv == IntakeInit => QueueInv
<1>. SUFFICES ASSUME IntakeInit PROVE QueueInv
  OBVIOUS
<1>1. inbox = << >> /\ Len(inbox) = 0 /\ completed = {} /\ ~ working /\ recorded = {} /\ process = "running"
      /\ \A s \in Swaps : task[s] = "none"
  BY DEF IntakeInit, Init
<1>2. 1..Len(inbox) = {}
  BY <1>1
<1>. QED  BY <1>1, <1>2
       DEF QueueInv, PayloadsAreOnce, WorkerHasItsTask, TasksAreRecorded, RecordedAreIngested

LEMMA QueueInvHolds == IntakeSpec => [](IntakeInv /\ QueueInv)
<1>1. IntakeInit => IntakeInv /\ QueueInv
  BY IntakeInitInv, QueueInitInv
<1>2. (IntakeInv /\ QueueInv) /\ [IntakeNext]_<<vars, intake>> => (IntakeInv /\ QueueInv)'
  BY IntakeNextInv, QueueNextInv
<1>. QED  BY <1>1, <1>2, PTL DEF IntakeSpec

(* The durable queue neither loses nor doubles a payload: whatever fails,  *)
(* is cancelled or is lost with the process, what was accepted stays       *)
(* pending or complete, in one row, and what is complete stays so.         *)
THEOREM QueueKeepsPayloads ==
  IntakeSpec => []PayloadsAreOnce /\ [][PayloadsStay]_<<vars, intake>>
<1>1. IntakeInv /\ QueueInv => PayloadsAreOnce
  BY DEF QueueInv
<1>2. (IntakeInv /\ QueueInv) /\ [IntakeNext]_<<vars, intake>> => [PayloadsStay]_<<vars, intake>>
  BY QueueNextInv
<1>. QED  BY <1>1, <1>2, QueueInvHolds, PTL DEF IntakeSpec

(* The safety half of QueueDrains: while the worker waits, the first row   *)
(* has a task that runs or is over, in a process that runs, so that what   *)
(* it waits for can come: no loss of the process or other task leaves it   *)
(* waiting for nobody.                                                     *)
THEOREM WorkerWaitsForATask ==
  IntakeSpec => [](working => process = "running" /\ inbox # << >> /\ task[Head(inbox)] # "none")
<1>1. QueueInv => (working => process = "running" /\ inbox # << >> /\ task[Head(inbox)] # "none")
  BY DEF QueueInv, WorkerHasItsTask, TasksAreRecorded
<1>. QED  BY <1>1, QueueInvHolds, PTL

(* The exact reach of the finding on retried rows: until an await fails,   *)
(* the engine raises or the process is lost, a complete row is one whose   *)
(* swap was ingested or has a task that is still at it.                    *)
THEOREM UnfailedIntakeIsComplete == IntakeSpec => [](Unfailed => CompletedWereIngested)
<1>1. QueueInv => (Unfailed => CompletedWereIngested)
  BY DEF QueueInv, TasksAreRecorded, RecordedAreIngested, CompletedWereIngested
<1>. QED  BY <1>1, QueueInvHolds, PTL

-----------------------------------------------------------------------------
(* Tasks between the gate's decision and the return of the engine's        *)
(* handler.                                                                *)
Caller(s) == task[s] \in {"marking", "authorized", "promoting"}

EngineHasOneCaller ==
  /\ \A s, u \in Swaps : Caller(s) /\ Caller(u) => s = u
  /\ \A s \in Swaps : task[s] \in {"marking", "promoting"} => ~ Ready /\ process = "running"
  /\ \A s \in Swaps : task[s] = "authorized" => Ready

LEMMA FreeHasNoCaller ==
  ASSUME EngineHasOneCaller, Free
  PROVE  \A s \in Swaps : ~ Caller(s)
BY DEF EngineHasOneCaller, Free, Caller

(* A call of the engine begins a handler.                                  *)
LEMMA CallsBegin ==
  ASSUME \/ \E t : Price(t)
         \/ \E t, e, tier, b : FirstTouch(t, e, tier, b)
         \/ \E t, e, b, timely : Confirm(t, e, b, timely)
  PROVE  ~ Ready' /\ process' = "running" /\ Ready
<1>1. PICK b, c : Ready /\ Writes(b, c)
  BY DEF Price, PriceMarks, PriceExpires, PriceHarvests, PriceCloses, FirstTouch, Confirm
<1>. QED  BY <1>1 DEF Writes, Ready, Idle

LEMMA OneCallerNext ==
  ASSUME IntakeInv, QueueInv, EngineHasOneCaller, [IntakeNext]_<<vars, intake>>
  PROVE  EngineHasOneCaller'
<1>1. ASSUME NEW s \in Swaps, Record(s)  PROVE EngineHasOneCaller'
  <2>1. Ready /\ \A u \in Swaps : ~ Caller(u)
    BY <1>1, FreeHasNoCaller DEF Record, Free
  <2>2. CASE Goto(s, "marking") /\ Price(TokenOf[s])
    <3>1. ~ Ready' /\ process' = "running"
      BY <2>2, CallsBegin
    <3>2. \A u \in Swaps : task'[u] = IF u = s THEN "marking" ELSE task[u]
      BY <2>2, TypesNow DEF Goto
    <3>. QED  BY <2>1, <3>1, <3>2 DEF EngineHasOneCaller, Caller
  <2>3. CASE Goto(s, "refreshing")
    <3>1. \A u \in Swaps : task'[u] = IF u = s THEN "refreshing" ELSE task[u]
      BY <2>3, TypesNow DEF Goto
    <3>. QED  BY <2>1, <3>1 DEF EngineHasOneCaller, Caller
  <2>. QED  BY <1>1, <2>2, <2>3 DEF Record
<1>2. ASSUME NEW s \in Swaps, RegisterTouch(s) \/ Promote(s)  PROVE EngineHasOneCaller'
  <2>1. \A u \in Swaps : u # s => ~ Caller(u)
    BY <1>2, FreeHasNoCaller DEF RegisterTouch, Promote, EngineHasOneCaller, Caller
  <2>2. ~ Ready' /\ process' = "running"
    BY <1>2, CallsBegin DEF RegisterTouch, Promote
  <2>3. \A u \in Swaps : task'[u] = IF u = s THEN "promoting" ELSE task[u]
    BY <1>2, TypesNow DEF RegisterTouch, Promote, Goto
  <2>. QED  BY <2>1, <2>2, <2>3 DEF EngineHasOneCaller, Caller
<1>3. ASSUME NEW s \in Swaps, Authorize(s)  PROVE EngineHasOneCaller'
  <2>1. /\ Ready /\ UNCHANGED vars
        /\ \A u \in Swaps : ~ Caller(u)
    BY <1>3, FreeHasNoCaller DEF Authorize, Free
  <2>2. \A u \in Swaps : task'[u] = IF u = s THEN "authorized" ELSE task[u]
    BY <1>3, TypesNow DEF Authorize, Goto
  <2>3. Ready'
    BY <2>1 DEF Ready, vars
  <2>. QED  BY <2>1, <2>2, <2>3 DEF EngineHasOneCaller, Caller
<1>4. ASSUME NEW s \in Swaps, Claim(s) \/ AskQuote(s) \/ Assessed(s) \/ Refuse(s) \/ Fail(s)
      PROVE  EngineHasOneCaller'
  <2>1. UNCHANGED vars
    BY <1>4 DEF Claim, AskQuote, Assessed, Refuse, Decline, Fail
  <2>2. PICK pc \in {"assessing", "quoting", "over"} : task' = [task EXCEPT ![s] = pc]
    BY <1>4 DEF Claim, AskQuote, Assessed, Refuse, Decline, Finish, Fail, Goto
  <2>3. \A u \in Swaps : task'[u] = IF u = s THEN pc ELSE task[u]
    BY <2>2, TypesNow
  <2>4. Ready' = Ready /\ process' = process
    BY <2>1 DEF Ready, vars
  <2>. QED  BY <2>3, <2>4 DEF EngineHasOneCaller, Caller
<1>5. CASE HandlerReturns \/ HandlerRaises
  <2>1. ~ Ready
    BY <1>5 DEF HandlerReturns, HandlerRaises, SaveCheckpoint, Raise, Ready, Idle
  <2>2. \A u \in Swaps : task[u] # "authorized"
    BY <2>1 DEF EngineHasOneCaller
  <2>3. \A u \in Swaps : ~ Caller(u)'
    BY <1>5, <2>2 DEF HandlerReturns, HandlerRaises, Caller, Calling
  <2>. QED  BY <2>3 DEF EngineHasOneCaller, Caller
<1>6. CASE HandlerWrites
  <2>1. ~ Ready /\ ~ Ready' /\ process' = process /\ task' = task
    <3>1. handler \in [pc : {"idle", "intent", "outcome", "save"}, outcome : BOOLEAN]
      BY TypesNow DEF IInv, TypeOK
    <3>2. process' = process /\ task' = task /\ handler.pc \in {"intent", "outcome"}
      BY <1>6 DEF HandlerWrites, AppendIntent, AppendOutcome, intake
    <3>3. PICK pc \in {"outcome", "save"} : handler' = [handler EXCEPT !.pc = pc]
      BY <1>6 DEF HandlerWrites, AppendIntent, AppendOutcome
    <3>4. handler'.pc # "idle" /\ handler.pc # "idle"
      BY <3>1, <3>2, <3>3
    <3>. QED  BY <3>2, <3>4 DEF Ready, Idle
  <2>. QED  BY <2>1 DEF EngineHasOneCaller, Caller
<1>7. CASE LoseProcess
  BY <1>7 DEF LoseProcess, EngineHasOneCaller, Caller
<1>8. CASE StartProcess
  <2>1. task' = task /\ \A s \in Swaps : task[s] = "none"
    BY <1>8 DEF StartProcess, Start, QueueInv, TasksAreRecorded
  <2>. QED  BY <2>1 DEF EngineHasOneCaller, Caller
<1>9. ASSUME NEW t \in Tokens, ClockPrices(t) \/ Reap(t)  PROVE EngineHasOneCaller'
  <2>1. task' = task /\ \A u \in Swaps : ~ Caller(u)
    BY <1>9, FreeHasNoCaller DEF ClockPrices, Reap, intake
  <2>. QED  BY <2>1 DEF EngineHasOneCaller, Caller
<1>10. CASE \/ \E s \in Swaps : Enqueue(s)
            \/ CompleteDuplicate \/ RowReturns \/ RejectRow \/ UNCHANGED <<vars, intake>>
  <2>1. UNCHANGED vars /\ task' = task
    BY <1>10 DEF Enqueue, CompleteDuplicate, RowReturns, RejectRow, intake
  <2>2. Ready' = Ready /\ process' = process
    BY <2>1 DEF Ready, vars
  <2>. QED  BY <2>1, <2>2 DEF EngineHasOneCaller, Caller
<1>11. CASE TakeRow
  <2>1. Head(inbox) \in Swaps
    BY <1>11, TypesNow DEF TakeRow, Polls
  <2>. QED  BY <1>1, <1>11, <2>1 DEF TakeRow, Polls
<1>. QED  BY <1>1, <1>2, <1>3, <1>4, <1>5, <1>6, <1>7, <1>8, <1>9, <1>10, <1>11
       DEF IntakeNext, TaskStep, Hydrate

(* Two swaps are never in the engine at once: between a task's decision at *)
(* the gate and the return of the handler it called no other task decides  *)
(* or calls, so the cash and the positions the gate saw are those the      *)
(* engine buys with, and a handler's return or exception goes to the one   *)
(* task that called it.                                                    *)
THEOREM OneCallAtATime == IntakeSpec => []EngineHasOneCaller
<1>1. IntakeInit => EngineHasOneCaller
  BY DEF IntakeInit, EngineHasOneCaller, Caller
<1>2. EngineHasOneCaller /\ (IntakeInv /\ QueueInv) /\ [IntakeNext]_<<vars, intake>> => EngineHasOneCaller'
  BY OneCallerNext
<1>. QED  BY <1>1, <1>2, QueueInvHolds, PTL DEF IntakeSpec
=============================================================================

---------------------------- MODULE SignalIntake ----------------------------
(***************************************************************************)
(* From a delivered swap to the paper engine: the durable webhook queue    *)
(* (webhook_queue.py), the ingestion of a swap with its awaits             *)
(* (collecting_ingestion.py), the first-touch claim (storage.py) and the   *)
(* activation gate (activation.py), in front of PaperEngine.               *)
(*                                                                         *)
(* Every swap here is a buy of an eligible S- or A-tier wallet and the     *)
(* cohort is armed: all other swaps are recorded and go no further.  A     *)
(* swap may come by the queue, whose worker takes one row at a time, and   *)
(* by the direct plane, whose tasks overlap each other and the worker; an  *)
(* await may fail, be cancelled by its deadline, or be cut by a loss of    *)
(* the process.  Between two awaits a task runs alone.                     *)
(*                                                                         *)
(* A payload may be one the queue's parser raises on each time it is tried *)
(* (the direct plane parses the transaction itself), and a write of the    *)
(* worker may raise, which nothing catches: its task is then over until    *)
(* the process starts again.                                               *)
(***************************************************************************)
EXTENDS PaperEngine, Sequences

CONSTANTS
  Swaps,         \* normalized swaps
  TokenOf,       \* [Swaps -> Tokens]
  EntityOf,      \* [Swaps -> Entities]
  TierOf,        \* [Swaps -> {"S", "A"}], of the swap's wallet
  ObservedAt,    \* [Swaps -> Nat], the order of the chain
  NoSwap,
  Malformed,     \* swaps whose queued payload the parser raises on
  MaxFailures    \* bound: awaits and writes of the intake that fail

ASSUME IntakeAssumption ==
  /\ IsFiniteSet(Swaps)
  /\ TokenOf \in [Swaps -> Tokens] /\ EntityOf \in [Swaps -> Entities]
  /\ TierOf \in [Swaps -> {"S", "A"}] /\ ObservedAt \in [Swaps -> Nat]
  /\ NoSwap \notin Swaps
  /\ Malformed \subseteq Swaps
  /\ MaxFailures \in Nat

VARIABLES
  recorded,      \* normalized_swaps
  firstTouch,    \* token_first_touches: the swap that claimed the token
  authorized,    \* candidate_activation_decision events with PAPER_ENTRY_AUTHORIZED
  inbox,         \* pending rows of helius_webhook_inbox, oldest first
  completed,     \* complete rows
  working,       \* the queue's worker awaits the ingestion of the first row
  alive,         \* the worker's task runs
  task,          \* where the ingestion of a swap stands
  claimed,       \* first_claimed_now of each task
  ingested,      \* swaps whose ingestion has run to its own end
  failures

queue  == <<inbox, completed, working, alive>>
tables == <<recorded, firstTouch, authorized>>
intake == <<queue, tables, task, claimed, ingested, failures>>

InboxRows == {inbox[i] : i \in 1..Len(inbox)}

(* No task is between the gate's decision and the engine call it leads to, *)
(* and no handler of the engine runs: the event loop is free.              *)
Free == Ready /\ \A s \in Swaps : task[s] # "authorized"

Calling == {s \in Swaps : task[s] \in {"marking", "promoting"}}

TouchEntity(t) == EntityOf[firstTouch[t]]

Goto(s, pc) == task' = [task EXCEPT ![s] = pc]

(* The ingestion returns a decision.                                       *)
Finish(s) == Goto(s, "over") /\ ingested' = ingested \cup {s}

Decline(s) ==
  /\ Finish(s)
  /\ UNCHANGED <<vars, queue, tables, claimed, failures>>

-----------------------------------------------------------------------------
(* ingest_swap of a swap not yet recorded, up to its first await: its mark *)
(* is a price for the engine, unless that mark is known already.           *)
Record(s) ==
  /\ Free
  /\ s \notin recorded
  /\ recorded' = recorded \cup {s}
  /\ \/ Goto(s, "marking") /\ Price(TokenOf[s])
     \/ Goto(s, "refreshing") /\ UNCHANGED vars
  /\ UNCHANGED <<firstTouch, authorized, inbox, completed, alive, claimed, ingested, failures>>

(* A task of the direct plane.                                             *)
Hydrate(s) == Record(s) /\ UNCHANGED working

(* DurableHeliusWebhookQueue.enqueue: one row per payload.                 *)
Enqueue(s) ==
  /\ process = "running"
  /\ s \notin InboxRows \cup completed
  /\ inbox' = Append(inbox, s)
  /\ UNCHANGED <<vars, completed, working, alive, tables, task, claimed, ingested, failures>>

(* HeliusWebhookWorker polls while it lives, one row at a time.            *)
Polls == Free /\ alive /\ ~ working /\ inbox # << >>

(* It takes the oldest pending row, whatever became of it before, and      *)
(* awaits its ingestion, which returns at once for a swap recorded already.*)
TakeRow ==
  /\ Polls
  /\ Head(inbox) \notin Malformed
  /\ Record(Head(inbox))
  /\ working' = TRUE

(* The worker's write is done, or it raises through run and ends the task. *)
Survives == alive' = alive /\ failures' = failures

Dies == failures < MaxFailures /\ failures' = failures + 1 /\ alive' = FALSE

(* mark_complete: the update, then an append.                              *)
MarkComplete ==
  /\ working' = FALSE
  /\ \/ /\ inbox' = Tail(inbox)
        /\ completed' = completed \cup {Head(inbox)}
        /\ Survives \/ Dies
     \/ UNCHANGED <<inbox, completed>> /\ Dies

(* mark_retry: the row is pending still, and the oldest.                   *)
MarkRetry ==
  /\ working' = FALSE
  /\ UNCHANGED <<inbox, completed>>
  /\ Survives \/ Dies

(* The parser raises, or recording does before anything is recorded.       *)
RejectRow ==
  /\ Polls
  /\ IF Head(inbox) \in Malformed THEN MarkRetry
     ELSE failures < MaxFailures /\ failures' = failures + 1 /\ UNCHANGED queue
  /\ UNCHANGED <<vars, tables, task, claimed, ingested>>

(* Mutant: a swap counts as a duplicate once it has been ingested.         *)
DuplicateIngested(s) == s \in ingested

Duplicate(s) == s \in recorded

CompleteDuplicate ==
  /\ Polls
  /\ Head(inbox) \notin Malformed
  /\ Duplicate(Head(inbox))
  /\ MarkComplete
  /\ UNCHANGED <<vars, tables, task, claimed, ingested>>

(* The ingestion has returned, or it raised and the row stays first.       *)
RowReturns ==
  /\ Free
  /\ working /\ task[Head(inbox)] = "over"
  /\ IF Head(inbox) \in ingested THEN MarkComplete ELSE MarkRetry
  /\ UNCHANGED <<vars, tables, task, claimed, ingested>>

(* Mutant: the claim replaces the row of the token.                        *)
ClaimReplaces(s) == TRUE

(* claim_first_touch inserts only where there is no row.                   *)
Claims(s) == firstTouch[TokenOf[s]] = NoSwap

(* token_first_touch_has_earlier_eligible_swap.                            *)
ChronologyConflict(t, first) ==
  \E s \in recorded : TokenOf[s] = t /\ ObservedAt[s] < ObservedAt[first]

(* After collectors.refresh: claim or find the first touch of the token.   *)
Claim(s) ==
  LET t     == TokenOf[s]
      first == IF Claims(s) THEN s ELSE firstTouch[t]
  IN  /\ Free
      /\ task[s] = "refreshing"
      /\ firstTouch' = [firstTouch EXCEPT ![t] = first]
      /\ claimed' = [claimed EXCEPT ![s] = Claims(s)]
      /\ IF \/ ChronologyConflict(t, first)
            \/ ~ Claims(s) /\ EntityOf[s] = EntityOf[first]
         THEN Finish(s)
         ELSE Goto(s, "assessing") /\ ingested' = ingested
      /\ UNCHANGED <<vars, queue, recorded, authorized, failures>>

(* Mutant: the claim of an S-tier wallet is registered without the gate.   *)
RegisterTouchOfAny(s) ==
  /\ Free
  /\ task[s] = "assessing"
  /\ claimed[s]
  /\ FirstTouch(TokenOf[s], EntityOf[s], TierOf[s], TRUE)
  /\ Goto(s, "promoting")
  /\ UNCHANGED <<queue, tables, claimed, ingested, failures>>

(* After the first risk snapshot: without evidence the swap is only        *)
(* recorded; otherwise an A-tier touch is registered if it is clean, and a *)
(* starter or a confirmation goes on to its quote.                         *)
RegisterTouch(s) ==
  /\ Free
  /\ task[s] = "assessing"
  /\ claimed[s] /\ TierOf[s] = "A"
  /\ FirstTouch(TokenOf[s], EntityOf[s], "A", TRUE)
  /\ Goto(s, "promoting")
  /\ UNCHANGED <<queue, tables, claimed, ingested, failures>>

AskQuote(s) ==
  /\ Free
  /\ task[s] = "assessing"
  /\ IF claimed[s] THEN TierOf[s] = "S" ELSE candidates[TokenOf[s]].status = "waiting"
  /\ Goto(s, "quoting")
  /\ UNCHANGED <<vars, queue, tables, claimed, ingested, failures>>

Assessed(s) ==
  /\ Free
  /\ task[s] = "assessing"
  /\ Decline(s)

(* Mutant: the gate does not ask for continuity.                           *)
ContinuityUnchecked == TRUE

(* runtime_continuity_ok of an armed cohort.                               *)
Continuity ==
  IF authorized = {} THEN cash = Capital /\ \A t \in Tokens : ~ positions[t].exists
  ELSE \E t \in Tokens : positions[t].exists

(* evaluate: what it refuses whatever the evidence says.                   *)
GatePasses(s) ==
  /\ Continuity
  /\ ~ ChronologyConflict(TokenOf[s], firstTouch[TokenOf[s]])
  /\ claimed[s] \/ EntityOf[s] # TouchEntity(TokenOf[s])

(* After the quote and the second snapshot: the gate's decision is         *)
(* appended.  Evidence may always refuse it.                               *)
Authorize(s) ==
  /\ Free
  /\ task[s] = "quoting"
  /\ GatePasses(s)
  /\ authorized' = authorized \cup {s}
  /\ Goto(s, "authorized")
  /\ UNCHANGED <<vars, queue, recorded, firstTouch, claimed, ingested, failures>>

Refuse(s) ==
  /\ Free
  /\ task[s] = "quoting"
  /\ Decline(s)

(* The engine call that follows in the same breath.                        *)
Promote(s) ==
  /\ task[s] = "authorized"
  /\ IF claimed[s] THEN FirstTouch(TokenOf[s], EntityOf[s], "S", TRUE)
     ELSE \E timely \in BOOLEAN : Confirm(TokenOf[s], EntityOf[s], TRUE, timely)
  /\ Goto(s, "promoting")
  /\ UNCHANGED <<queue, tables, claimed, ingested, failures>>

(* An await raises or its deadline cancels it, or the engine's first       *)
(* append raises.                                                          *)
Fail(s) ==
  /\ Ready
  /\ \/ task[s] = "authorized"
     \/ Free /\ task[s] \in {"refreshing", "assessing", "quoting"}
  /\ failures < MaxFailures
  /\ failures' = failures + 1
  /\ Goto(s, "over")
  /\ UNCHANGED <<vars, queue, tables, claimed, ingested>>

-----------------------------------------------------------------------------
(* The engine's writes; its handler returns to the task that called it, or *)
(* raises through it.                                                      *)
HandlerWrites == (AppendIntent \/ AppendOutcome) /\ UNCHANGED intake

HandlerReturns ==
  /\ SaveCheckpoint
  /\ task' = [s \in Swaps |-> IF task[s] = "marking" THEN "refreshing"
                             ELSE IF task[s] = "promoting" THEN "over" ELSE task[s]]
  /\ ingested' = ingested \cup {s \in Swaps : task[s] = "promoting"}
  /\ UNCHANGED <<queue, tables, claimed, failures>>

HandlerRaises ==
  /\ Raise
  /\ task' = [s \in Swaps |-> IF s \in Calling THEN "over" ELSE task[s]]
  /\ UNCHANGED <<queue, tables, claimed, ingested, failures>>

(* The price clock and the reaper.                                         *)
ClockPrices(t) ==
  /\ Free
  /\ firstTouch[t] # NoSwap
  /\ Price(t)
  /\ UNCHANGED intake

Reap(t) ==
  /\ Free
  /\ \E s \in recorded : TokenOf[s] = t
  /\ Purge(t)
  /\ UNCHANGED intake

LoseProcess ==
  /\ Lose
  /\ task' = [s \in Swaps |-> "none"]
  /\ claimed' = [s \in Swaps |-> FALSE]
  /\ working' = FALSE
  /\ UNCHANGED <<inbox, completed, alive, tables, ingested, failures>>

(* main starts the worker's task again.                                    *)
StartProcess ==
  /\ Start
  /\ alive' = TRUE
  /\ UNCHANGED <<inbox, completed, working, tables, task, claimed, ingested, failures>>

IntakeInit ==
  /\ Init
  /\ recorded = {}
  /\ firstTouch = [t \in Tokens |-> NoSwap]
  /\ authorized = {}
  /\ inbox = << >>
  /\ completed = {}
  /\ working = FALSE
  /\ alive = TRUE
  /\ task = [s \in Swaps |-> "none"]
  /\ claimed = [s \in Swaps |-> FALSE]
  /\ ingested = {}
  /\ failures = 0

TaskStep(s) ==
  \/ Claim(s) \/ RegisterTouch(s) \/ AskQuote(s) \/ Assessed(s)
  \/ Authorize(s) \/ Refuse(s) \/ Promote(s)

IntakeNext ==
  \/ \E s \in Swaps : Enqueue(s) \/ Hydrate(s) \/ TaskStep(s) \/ Fail(s)
  \/ TakeRow \/ RejectRow \/ CompleteDuplicate \/ RowReturns
  \/ HandlerWrites \/ HandlerReturns \/ HandlerRaises
  \/ \E t \in Tokens : ClockPrices(t) \/ Reap(t)
  \/ LoseProcess
  \/ StartProcess

IntakeSpec == IntakeInit /\ [][IntakeNext]_<<vars, intake>>

(* The event loop gives every task that is ready its turn whenever it is   *)
(* free, every await has a deadline, a handler runs to its end, the worker *)
(* polls while its task runs, and the platform starts a lost process.      *)
Worker == TakeRow \/ CompleteDuplicate \/ RowReturns

LiveSpec ==
  /\ IntakeSpec
  /\ \A s \in Swaps : SF_<<vars, intake>>(TaskStep(s))
  /\ SF_<<vars, intake>>(Worker)
  /\ WF_<<vars, intake>>(HandlerWrites \/ HandlerReturns)
  /\ WF_<<vars, intake>>(StartProcess)

-----------------------------------------------------------------------------
(* Type invariant.                                                         *)
IntakeTypeOK ==
  /\ TypeOK
  /\ recorded \subseteq Swaps /\ authorized \subseteq Swaps
  /\ completed \subseteq Swaps /\ ingested \subseteq Swaps
  /\ firstTouch \in [Tokens -> Swaps \cup {NoSwap}]
  /\ inbox \in Seq(Swaps) /\ working \in BOOLEAN /\ alive \in BOOLEAN
  /\ task \in [Swaps -> {"none", "marking", "refreshing", "assessing", "quoting",
                        "authorized", "promoting", "over"}]
  /\ claimed \in [Swaps -> BOOLEAN]
  /\ failures \in 0..MaxFailures

(* The candidate the engine follows is the one whose swap claimed the      *)
(* token, whatever tasks overlapped, failed or were lost since.            *)
CandidateIsTheClaim ==
  \A t \in Tokens : candidates[t].status # "none" =>
    /\ firstTouch[t] # NoSwap
    /\ candidates[t].scout = TouchEntity(t)
    /\ candidates[t].tier = TierOf[firstTouch[t]]

(* What was ever bought of a token, through losses, restores and purges,   *)
(* was authorised by the gate: at most one starter, for the swap of an     *)
(* S-tier wallet that claimed the token, and at most one rest of the       *)
(* position, for a swap of another entity.                                 *)
StarterAllowed(t) ==
  IF \E s \in authorized : firstTouch[t] = s /\ TierOf[s] = "S" THEN Starter ELSE 0

RestAllowed(t) ==
  IF \E s \in authorized : TokenOf[s] = t /\ EntityOf[s] # TouchEntity(t)
  THEN IF TierOf[firstTouch[t]] = "S" THEN Full - Starter ELSE Full
  ELSE 0

EntriesWereAuthorized ==
  \A t \in Tokens : bought[t] <= StarterAllowed(t) + RestAllowed(t)

(* "Never silently restart an armed experiment back at a fresh $500        *)
(* in-memory ledger": nothing is bought from a portfolio without history   *)
(* once an entry has been authorised.                                      *)
NoSilentRestart ==
  [][\A t \in Tokens :
       bought'[t] > bought[t] => \/ \E u \in Tokens : positions[u].exists
                                 \/ Cardinality(authorized) = 1]_<<vars, intake>>

(* A row at which the worker stays, or one that waits for it.              *)
Behind(s) ==
  \E i, j \in 1..Len(inbox) : i <= j /\ inbox[i] \in Malformed /\ inbox[j] = s

(* Every payload in the queue gets completed, through failed ingestions,   *)
(* raising writes and losses of the process, unless the worker's task or,  *)
(* in the engine's restore, the process has ended, or a malformed payload  *)
(* holds the queue.                                                        *)
QueueDrains ==
  \A s \in Swaps :
    s \in InboxRows ~> \/ s \in completed
                      \/ process = "blocked" \/ ~ alive \/ Behind(s)

(* "Rows remain pending until the complete downstream ingestion path       *)
(* succeeds": the swap of a complete row has been ingested, or a task is   *)
(* still at it.                                                            *)
CompletedWereIngested ==
  \A s \in completed : s \in ingested \/ task[s] \notin {"none", "over"}
=============================================================================

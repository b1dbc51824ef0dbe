------------------------------ MODULE ExactExit ------------------------------
(***************************************************************************)
(* The durable paper exit engine: v51_exact_exit_execution.py with the     *)
(* attempt of v51_paper_lifecycle_runtime.py and the retry selection of    *)
(* v51_exit_due_recovery.py, as production installs them.                  *)
(*                                                                         *)
(* A sell signal opens a liquidation row for an entry and, after it, one   *)
(* for the entry's FOMO position.  An attempt reads the row, awaits a      *)
(* quote and its simulation, and only then writes: the attempt record, the *)
(* row, the outcomes.  Several asyncio tasks do this in one process: a     *)
(* task keeps the event loop (running) from the answer it awaited until    *)
(* its next await, so attempts of different tasks overlap, but what one    *)
(* writes after its answer is interrupted only by the loss of the process. *)
(*                                                                         *)
(* The v5.2 composition keeps this engine for every sell of a token that   *)
(* has no open selected v5 position (StagedExit has those).  Wall-clock    *)
(* times are abstracted to the set due of rows whose time has come.  A     *)
(* retry pass selects at most 32 rows; fewer exist here.                   *)
(***************************************************************************)
EXTENDS Integers, Sequences, FiniteSets, SequencesExt

CONSTANTS
  Entries,       \* source_signature of the entries with final trials, one token
  Lanes,         \* how many final trials (lanes) an entry has
  MaxAttempts,   \* len(EXIT_RETRY_ELAPSED_SECONDS)
  Worker,        \* the lifecycle loop: runs retry passes only
  Observers,     \* research tasks: sell signals, each followed by a retry pass
  MaxCrashes     \* bound: how often the process is lost

ASSUME ExactExitAssumption ==
  /\ IsFiniteSet(Entries)
  /\ Lanes \in Nat \ {0}
  /\ MaxAttempts \in Nat \ {0}
  /\ Worker \notin Observers
  /\ MaxCrashes \in Nat

Tasks  == Observers \cup {Worker}
Scopes == {"final", "fomo"}
Rows   == Entries \X Scopes

VARIABLES
  liquidations,  \* profit_first_final_exit_liquidations: status, attempt_count
  attempts,      \* status each attempt of a row was first recorded with
  outcomes,      \* what each lane of a row was measured as, citing an attempt
  fomoTrials,    \* fomo_paper_trials: is there a paper_enter row
  due,           \* rows whose retry time, or stale age, has been reached
  tasks,         \* what each task is doing, and with which rows it read
  running,       \* the task that holds the event loop, if any
  crashes

durable == <<liquidations, attempts, outcomes, fomoTrials, due>>
vars    == <<liquidations, attempts, outcomes, fomoTrials, due, tasks, running, crashes>>

Closed   == {"executed", "terminal"}
Verdicts == {"failed"} \cup Closed
Unmeasured == [result |-> "none", cites |-> 0]

(* What _attempt_liquidation reads from its row before it awaits.          *)
Job == [row : Rows, count : 0..(MaxAttempts - 1)]

Idle == [pc |-> "idle", queue |-> <<>>, groups |-> <<>>, verdict |-> "failed", lane |-> 1]

Selling(pc, groups) ==
  [pc |-> pc, queue |-> <<>>, groups |-> groups, verdict |-> "failed", lane |-> 1]

Quoting(queue, groups) ==
  [pc |-> "quote", queue |-> queue, groups |-> groups, verdict |-> "failed", lane |-> 1]

Judged(task, verdict) ==
  [pc |-> "update", queue |-> task.queue, groups |-> task.groups,
   verdict |-> verdict, lane |-> 1]

LanesOf(row) == IF row[2] = "final" THEN 1..Lanes ELSE {1}

(* _sell_exact looks for entries with a trial that has no outcome.         *)
Unsold == {e \in Entries : \E l \in 1..Lanes : outcomes[<<e, "final">>][l] = Unmeasured}

RowOf(t)  == Head(tasks[t].queue).row
Number(t) == Head(tasks[t].queue).count + 1       \* attempt_number
Entry(t)  == Head(tasks[t].groups)

-----------------------------------------------------------------------------
(* A task gives up the event loop at an await, or when it has finished.    *)
Await(t, task) == tasks' = [tasks EXCEPT ![t] = task] /\ running' = {}
Keep(t, task)  == tasks' = [tasks EXCEPT ![t] = task] /\ running' = {t}

NextGroup(t) ==
  LET rest == Tail(tasks[t].groups)
  IN  IF rest = <<>> THEN Await(t, Idle)
      ELSE Keep(t, Selling("final", rest))

(* What follows a finished attempt: the FOMO position of the same entry,   *)
(* the next entry of the sell, or the next row of the retry pass.          *)
AfterAttempt(t) ==
  IF tasks[t].groups # <<>>
  THEN IF RowOf(t)[2] = "final"
       THEN Keep(t, Selling("fomo", tasks[t].groups))
       ELSE NextGroup(t)
  ELSE IF Tail(tasks[t].queue) = <<>> THEN Await(t, Idle)
       ELSE Await(t, Quoting(Tail(tasks[t].queue), <<>>))

(* _sell_exact: the entries to exit are read once, before any await.       *)
SellSignal(t, order) ==
  /\ running = {}
  /\ tasks[t].pc = "idle"
  /\ Keep(t, Selling("final", order))
  /\ UNCHANGED <<durable, crashes>>

(* _upsert_liquidation and the check that follows it: only a row that is   *)
(* still exit_due is attempted at once.                                    *)
Upserted(row) ==
  IF liquidations[row].status = "none" THEN [status |-> "exit_due", count |-> 0]
  ELSE liquidations[row]

AttemptIfDue(t, row) ==
  /\ liquidations' = [liquidations EXCEPT ![row] = Upserted(row)]
  /\ Upserted(row).status = "exit_due"
  /\ Await(t, Quoting(<<[row |-> row, count |-> Upserted(row).count]>>, tasks[t].groups))

StartFinal(t) ==
  LET row == <<Entry(t), "final">>
  IN  /\ running = {t}
      /\ tasks[t].pc = "final"
      /\ \/ AttemptIfDue(t, row)
         \/ /\ Upserted(row).status # "exit_due"
            /\ Keep(t, [tasks[t] EXCEPT !.pc = "fomo"])
            /\ UNCHANGED liquidations
      /\ UNCHANGED <<attempts, outcomes, fomoTrials, due, crashes>>

(* _fomo_liquidation_payload: there is a row to open only while the FOMO   *)
(* trial is a paper entry.                                                 *)
StartFomo(t) ==
  LET row == <<Entry(t), "fomo">>
  IN  /\ running = {t}
      /\ tasks[t].pc = "fomo"
      /\ \/ /\ fomoTrials[Entry(t)] = "entered"
            /\ AttemptIfDue(t, row)
         \/ /\ fomoTrials[Entry(t)] = "entered" => Upserted(row).status # "exit_due"
            /\ NextGroup(t)
            /\ UNCHANGED liquidations
      /\ UNCHANGED <<attempts, outcomes, fomoTrials, due, crashes>>

(* Mutant: the selection before the recovery, failed rows only.            *)
RetryableFailedOnly == {row \in due : liquidations[row].status = "failed"}

(* _retry_due_with_exit_due: every due row is read before the first await. *)
Retryable == {row \in due : liquidations[row].status \in {"exit_due", "failed"}}

RetryPass(t) ==
  /\ running = {}
  /\ tasks[t].pc = "idle"
  /\ Retryable # {}
  /\ \E order \in SetToSeqs(Retryable) :
       Await(t, Quoting([i \in DOMAIN order |->
                           [row |-> order[i], count |-> liquidations[order[i]].count]], <<>>))
  /\ UNCHANGED <<durable, crashes>>

(* Mutants: the retry window one attempt too long, or too short.           *)
VerdictTooLate(n, executable) ==
  IF executable THEN "executed"
  ELSE IF n > MaxAttempts THEN "terminal" ELSE "failed"

VerdictTooEarly(n, executable) ==
  IF executable THEN "executed"
  ELSE IF n + 1 >= MaxAttempts THEN "terminal" ELSE "failed"

(* The answer to observe_exact_exit_order, or its time-out.  _retry_at     *)
(* makes a failure terminal when no retry is left.                         *)
Verdict(n, executable) ==
  IF executable THEN "executed"
  ELSE IF n >= MaxAttempts THEN "terminal" ELSE "failed"

(* Mutant: only failures leave an attempt record.                          *)
AnswerFailuresOnly(t, executable) ==
  /\ running = {}
  /\ tasks[t].pc = "quote"
  /\ attempts' = IF executable THEN attempts
                 ELSE [attempts EXCEPT ![RowOf(t)][Number(t)] =
                         Verdict(Number(t), executable)]
  /\ Keep(t, Judged(tasks[t], Verdict(Number(t), executable)))
  /\ UNCHANGED <<liquidations, outcomes, fomoTrials, due, crashes>>

(* _record_attempt: INSERT OR IGNORE by attempt number.                    *)
Answer(t, executable) ==
  LET row == RowOf(t)
      n   == Number(t)
      v   == Verdict(n, executable)
  IN  /\ running = {}
      /\ tasks[t].pc = "quote"
      /\ attempts' = IF attempts[row][n] = "none"
                     THEN [attempts EXCEPT ![row][n] = v] ELSE attempts
      /\ Keep(t, Judged(tasks[t], v))
      /\ UNCHANGED <<liquidations, outcomes, fomoTrials, due, crashes>>

(* Mutant: attempt_count = attempt_count + 1.                              *)
UpdateRowCounting(t) ==
  /\ running = {t}
  /\ tasks[t].pc = "update"
  /\ liquidations' = [liquidations EXCEPT ![RowOf(t)] =
                        [status |-> tasks[t].verdict, count |-> @.count + 1]]
  /\ due' = due \ {RowOf(t)}
  /\ IF tasks[t].verdict \in Closed
     THEN Keep(t, [tasks[t] EXCEPT !.pc = "settle"])
     ELSE AfterAttempt(t)
  /\ UNCHANGED <<attempts, outcomes, fomoTrials, crashes>>

(* The UPDATE of the row: unconditional, from what was read before the     *)
(* await.  A failed attempt schedules its next retry later.                *)
UpdateRow(t) ==
  LET row == RowOf(t)
  IN  /\ running = {t}
      /\ tasks[t].pc = "update"
      /\ liquidations' = [liquidations EXCEPT ![row] =
                            [status |-> tasks[t].verdict, count |-> Number(t)]]
      /\ due' = due \ {row}
      /\ IF tasks[t].verdict \in Closed
         THEN Keep(t, [tasks[t] EXCEPT !.pc = "settle"])
         ELSE AfterAttempt(t)
      /\ UNCHANGED <<attempts, outcomes, fomoTrials, crashes>>

(* Mutant: the outcome is INSERT OR REPLACE too.                           *)
MeasuredReplaced(old, t) == [result |-> tasks[t].verdict, cites |-> Number(t)]

(* One lane of _settle_final, or _settle_fomo.  The outcome is INSERT OR   *)
(* IGNORE, the execution model that cites the attempt INSERT OR REPLACE;   *)
(* the inner transaction of _record_outcome_model commits each lane.       *)
Measured(old, t) ==
  [result |-> IF old.result = "none" THEN tasks[t].verdict ELSE old.result,
   cites  |-> Number(t)]

(* After the last lane the capital settlements are synchronised, which     *)
(* may raise: what the sell or the retry pass had left is then dropped.    *)
SettleLane(t) ==
  LET row  == RowOf(t)
      lane == tasks[t].lane
  IN  /\ running = {t}
      /\ tasks[t].pc = "settle"
      /\ IF row[2] = "fomo" /\ fomoTrials[row[1]] # "entered"
         THEN UNCHANGED outcomes
         ELSE outcomes' = [outcomes EXCEPT ![row][lane] = Measured(@, t)]
      /\ \/ /\ lane + 1 \in LanesOf(row)
            /\ Keep(t, [tasks[t] EXCEPT !.lane = lane + 1])
         \/ /\ lane + 1 \notin LanesOf(row)
            /\ AfterAttempt(t) \/ Await(t, Idle)
      /\ UNCHANGED <<liquidations, attempts, fomoTrials, due, crashes>>

-----------------------------------------------------------------------------
(* Time passes: next_retry_at is reached, or an exit_due row turns five    *)
(* seconds old.                                                            *)
ClockReaches(row) ==
  /\ liquidations[row].status \in {"exit_due", "failed"}
  /\ row \notin due
  /\ due' = due \cup {row}
  /\ UNCHANGED <<liquidations, attempts, outcomes, fomoTrials, tasks, running, crashes>>

(* _record_paper_trial enters a FOMO position beside a final trial, and    *)
(* _sync_fomo_entry turns it back when the shared capital refuses it.      *)
EnterFomo(e) ==
  /\ running = {}
  /\ fomoTrials[e] = "absent"
  /\ fomoTrials' = [fomoTrials EXCEPT ![e] = "entered"]
  /\ UNCHANGED <<liquidations, attempts, outcomes, due, tasks, running, crashes>>

DemoteFomo(e) ==
  /\ running = {}
  /\ fomoTrials[e] = "entered"
  /\ fomoTrials' = [fomoTrials EXCEPT ![e] = "demoted"]
  /\ UNCHANGED <<liquidations, attempts, outcomes, due, tasks, running, crashes>>

(* A status request runs _sync_paper_outcomes of fomo_paper_strategy.py in *)
(* a thread of its own, so between any two commits: an entered FOMO        *)
(* position without an outcome gets that of the entry's unified lane, the  *)
(* last one, by INSERT OR IGNORE and citing no attempt.                    *)
StatusRead(e) ==
  /\ fomoTrials[e] = "entered"
  /\ outcomes[<<e, "final">>][Lanes].result # "none"
  /\ outcomes[<<e, "fomo">>][1].result = "none"
  /\ outcomes' = [outcomes EXCEPT ![<<e, "fomo">>][1].result = "mirrored"]
  /\ UNCHANGED <<liquidations, attempts, fomoTrials, due, tasks, running, crashes>>

(* The process is lost between two commits and starts again: rows stay,    *)
(* tasks do not.                                                           *)
Crash ==
  /\ crashes < MaxCrashes
  /\ crashes' = crashes + 1
  /\ tasks' = [t \in Tasks |-> Idle]
  /\ running' = {}
  /\ UNCHANGED durable

Init ==
  /\ liquidations = [row \in Rows |-> [status |-> "none", count |-> 0]]
  /\ attempts = [row \in Rows |-> [n \in 1..MaxAttempts |-> "none"]]
  /\ outcomes = [row \in Rows |-> [l \in LanesOf(row) |-> Unmeasured]]
  /\ fomoTrials = [e \in Entries |-> "absent"]
  /\ due = {}
  /\ tasks = [t \in Tasks |-> Idle]
  /\ running = {}
  /\ crashes = 0

Step(t) ==
  \/ \E executable \in BOOLEAN : Answer(t, executable)
  \/ UpdateRow(t)
  \/ SettleLane(t)
  \/ StartFinal(t)
  \/ StartFomo(t)

Next ==
  \/ \E t \in Tasks : Step(t) \/ RetryPass(t)
  \/ \E t \in Observers, some \in (SUBSET Unsold) \ {{}} :
       \E order \in SetToSeqs(some) : SellSignal(t, order)
  \/ \E row \in Rows : ClockReaches(row)
  \/ \E e \in Entries : EnterFomo(e) \/ DemoteFomo(e) \/ StatusRead(e)
  \/ Crash

Spec == Init /\ [][Next]_vars

(* The event loop runs ready tasks in turn and every request has a         *)
(* time-out, so a task that can go on infinitely often does; the clock     *)
(* advances and the lifecycle loop keeps ticking.  Sell signals and        *)
(* answers that are executable are never owed.                             *)
Fairness ==
  /\ \A t \in Tasks : SF_vars(Step(t))
  /\ SF_vars(RetryPass(Worker))
  /\ \A row \in Rows : WF_vars(ClockReaches(row))

FairSpec == Spec /\ Fairness

-----------------------------------------------------------------------------
(* Type invariant: rows, records and tasks are well formed; whoever is     *)
(* past its await and not done holds the event loop.                       *)
TypeOK ==
  /\ liquidations \in [Rows -> [status : {"none", "exit_due"} \cup Verdicts,
                                count : 0..MaxAttempts]]
  /\ attempts \in [Rows -> [1..MaxAttempts -> {"none"} \cup Verdicts]]
  /\ \A row \in Rows :
       outcomes[row] \in [LanesOf(row) -> [result : {"none", "mirrored"} \cup Closed,
                                           cites : 0..MaxAttempts]]
  /\ fomoTrials \in [Entries -> {"absent", "entered", "demoted"}]
  /\ due \subseteq Rows
  /\ \A t \in Tasks :
       /\ tasks[t].pc \in {"idle", "quote", "update", "settle", "final", "fomo"}
       /\ tasks[t].queue \in Seq(Job)
       /\ tasks[t].groups \in Seq(Entries)
       /\ (tasks[t].pc \in {"idle", "quote"}) <=> (t \notin running)
  /\ running \subseteq Tasks

(* attempt_count never claims an attempt that left no record, however      *)
(* overlapping attempts overwrite it.                                      *)
CountedAttemptsAreRecorded ==
  \A row \in Rows : \A n \in 1..liquidations[row].count : attempts[row][n] # "none"

(* A total loss is booked only after every attempt of the retry window has *)
(* been recorded: overlap and restarts never shorten the window.           *)
TotalLossOnlyAfterWindow ==
  \A row \in Rows : \A l \in LanesOf(row) :
    outcomes[row][l].result = "terminal" =>
      \A n \in 1..MaxAttempts : attempts[row][n] # "none"

(* The first measurement of a lane stands: an overlapping or repeated      *)
(* settlement never turns a measured exit into another one.                *)
FirstMeasurementStands ==
  [][ \A row \in Rows : \A l \in LanesOf(row) :
        outcomes[row][l].result # "none" =>
          outcomes'[row][l].result = outcomes[row][l].result ]_vars

(* A measurement of the engine is never invented: a lane is measured only  *)
(* after a recorded attempt of its row, which it cites.                    *)
MeasurementCitesRecord ==
  \A row \in Rows : \A l \in LanesOf(row) :
    outcomes[row][l].result \in Closed =>
      /\ outcomes[row][l].cites > 0
      /\ attempts[row][outcomes[row][l].cites] # "none"

(* An exit that became due is closed in the end, whatever fails and        *)
(* whenever the process is lost, and measured in every lane of what is     *)
(* still entered, unless the process was lost between the row's commit and *)
(* the outcomes'.                                                          *)
DueExitsClose ==
  \A row \in Rows :
    liquidations[row].status = "exit_due" ~>
      /\ liquidations[row].status \in Closed
      /\ crashes > 0 \/ (row[2] = "fomo" /\ fomoTrials[row[1]] # "entered")
           \/ \A l \in LanesOf(row) : outcomes[row][l] # Unmeasured
=============================================================================

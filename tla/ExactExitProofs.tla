-------------------------- MODULE ExactExitProofs --------------------------
(***************************************************************************)
(* Proofs about ExactExit, for every set of entries, any number of lanes,  *)
(* attempts, tasks and losses of the process.                              *)
(***************************************************************************)
EXTENDS ExactExit, FiniteSetTheorems, SequenceTheorems, TLAPS

(* A row as a task read it: the attempts it counts were on record by then, *)
(* and records stay.                                                       *)
RecordedJob == {j \in Job : \A n \in 1..j.count : attempts[j.row][n] # "none"}

TaskStates ==
  [pc : {"idle", "quote", "update", "settle", "final", "fomo"}, queue : Seq(RecordedJob),
   groups : Seq(Entries), verdict : Verdicts, lane : Nat]

(* What a task carries across its await, and past it.                      *)
SoundTasks ==
  {task \in TaskStates :
     /\ task.pc \in {"quote", "update", "settle"} => task.queue # <<>>
     /\ task.pc \in {"final", "fomo"} => task.groups # <<>>
     /\ task.pc = "settle" => task.verdict # "failed"
     /\ task.pc \in {"update", "settle"} =>
          LET n == Head(task.queue).count + 1
          IN  /\ attempts[Head(task.queue).row][n] # "none"
              /\ task.verdict = "failed" => n < MaxAttempts
              /\ task.verdict = "terminal" => n = MaxAttempts}

OpenRowsHaveAttempts ==
  \A row \in Rows :
    liquidations[row].status \in {"exit_due", "failed"} => liquidations[row].count < MaxAttempts

(* The inductive invariant.                                                *)
IInv ==
  /\ TypeOK
  /\ DOMAIN outcomes = Rows
  /\ tasks \in [Tasks -> SoundTasks]
  /\ OpenRowsHaveAttempts
  /\ CountedAttemptsAreRecorded
  /\ TotalLossOnlyAfterWindow
  /\ MeasurementCitesRecord

Outcome == [result : {"none", "mirrored"} \cup Closed, cites : 0..MaxAttempts]

(* The last step a task takes in an action.                                *)
Moves(t, task) ==
  \/ task.pc \in {"idle", "quote"} /\ Await(t, task)
  \/ task.pc \notin {"idle", "quote"} /\ Keep(t, task)

-----------------------------------------------------------------------------
LEMMA IdleIsSound == Idle \in SoundTasks /\ Idle.pc = "idle"
<1>1. <<>> \in Seq(RecordedJob) /\ <<>> \in Seq(Entries)
  BY EmptySeq
<1>. QED  BY <1>1 DEF Idle, SoundTasks, TaskStates, Verdicts

LEMMA SellingIsSound ==
  ASSUME NEW pc \in {"final", "fomo"}, NEW groups \in Seq(Entries), groups # <<>>
  PROVE  Selling(pc, groups) \in SoundTasks /\ Selling(pc, groups).pc = pc
<1>1. <<>> \in Seq(RecordedJob)
  BY EmptySeq
<1>. QED  BY <1>1 DEF Selling, SoundTasks, TaskStates, Verdicts

LEMMA QuotingIsSound ==
  ASSUME NEW queue \in Seq(RecordedJob), queue # <<>>, NEW groups \in Seq(Entries)
  PROVE  Quoting(queue, groups) \in SoundTasks /\ Quoting(queue, groups).pc = "quote"
BY DEF Quoting, SoundTasks, TaskStates, Verdicts

(* Records are only added, so what was sound stays so.                     *)
LEMMA SoundStays ==
  ASSUME \A row \in Rows, n \in 1..MaxAttempts :
           attempts[row][n] # "none" => attempts'[row][n] # "none"
  PROVE  SoundTasks \subseteq SoundTasks'
<1>. USE ExactExitAssumption
<1>1. RecordedJob \subseteq RecordedJob'
  BY DEF RecordedJob, Job
<1>2. Seq(RecordedJob) \subseteq Seq(RecordedJob')
  BY <1>1, SeqMonotonic
<1>3. TaskStates \subseteq TaskStates'
  BY <1>2 DEF TaskStates
<1>4. ASSUME NEW task \in SoundTasks PROVE task \in SoundTasks'
  <2>1. task \in TaskStates'
    BY <1>3, <1>4 DEF SoundTasks
  <2>2. ASSUME task.pc \in {"update", "settle"}
        PROVE  attempts'[Head(task.queue).row][Head(task.queue).count + 1] # "none"
    <3>1. Head(task.queue) \in RecordedJob
      BY <1>4, <2>2, HeadTailProperties DEF SoundTasks, TaskStates
    <3>2. Head(task.queue).row \in Rows /\ Head(task.queue).count + 1 \in 1..MaxAttempts
      BY <3>1 DEF RecordedJob, Job
    <3>3. attempts[Head(task.queue).row][Head(task.queue).count + 1] # "none"
      BY <1>4, <2>2 DEF SoundTasks
    <3>. QED  BY <3>2, <3>3
  <2>. QED  BY <1>4, <2>1, <2>2 DEF SoundTasks
<1>. QED  BY <1>4

LEMMA SameSound == UNCHANGED attempts => SoundTasks' = SoundTasks
BY DEF SoundTasks, TaskStates, RecordedJob

(* The part of the type invariant about tasks, from the last move of a     *)
(* task that may move.                                                     *)
LEMMA MovesSound ==
  ASSUME IInv, NEW t \in Tasks, NEW task, task \in SoundTasks', SoundTasks \subseteq SoundTasks',
         Moves(t, task), running \in {{}, {t}}
  PROVE  /\ tasks' \in [Tasks -> SoundTasks']
         /\ \A u \in Tasks : (tasks'[u].pc \in {"idle", "quote"}) <=> (u \notin running')
         /\ running' \subseteq Tasks
<1>1. tasks \in [Tasks -> SoundTasks']
  BY DEF IInv
<1>2. tasks' = [tasks EXCEPT ![t] = task]
  BY DEF Moves, Await, Keep
<1>3. tasks' \in [Tasks -> SoundTasks'] /\ tasks'[t] = task
      /\ \A u \in Tasks : u # t => tasks'[u] = tasks[u]
  BY <1>1, <1>2
<1>4. \A u \in Tasks : u # t => tasks[u].pc \in {"idle", "quote"}
  BY DEF IInv, TypeOK
<1>. QED  BY <1>3, <1>4 DEF Moves, Await, Keep

TasksAreSound == tasks \in [Tasks -> SoundTasks]

TasksAreTyped ==
  \A t \in Tasks :
    /\ tasks[t].pc \in {"idle", "quote", "update", "settle", "final", "fomo"}
    /\ tasks[t].queue \in Seq(Job)
    /\ tasks[t].groups \in Seq(Entries)

LEMMA TasksTyped == TasksAreSound => TasksAreTyped
<1>. SUFFICES ASSUME tasks \in [Tasks -> SoundTasks], NEW t \in Tasks
              PROVE  /\ tasks[t].pc \in {"idle", "quote", "update", "settle", "final", "fomo"}
                     /\ tasks[t].queue \in Seq(Job)
                     /\ tasks[t].groups \in Seq(Entries)
  BY DEF TasksAreSound, TasksAreTyped
<1>1. tasks[t] \in TaskStates
  BY DEF SoundTasks
<1>2. RecordedJob \subseteq Job
  BY DEF RecordedJob
<1>3. tasks[t].queue \in Seq(RecordedJob)
  BY <1>1 DEF TaskStates
<1>4. tasks[t].queue \in Seq(Job)
  BY <1>2, <1>3, SeqMonotonic
<1>. QED  BY <1>1, <1>4 DEF TaskStates

LEMMA TasksTypedNext == TasksAreSound' => TasksAreTyped'
BY TasksTyped, PTL

(* What an attempt under way is about.                                     *)
LEMMA AttemptFacts ==
  ASSUME IInv, NEW t \in Tasks, tasks[t].pc \in {"quote", "update", "settle"}
  PROVE  /\ RowOf(t) \in Rows
         /\ Number(t) \in 1..MaxAttempts
         /\ \A n \in 1..(Number(t) - 1) : attempts[RowOf(t)][n] # "none"
         /\ tasks[t].queue # <<>> /\ tasks[t].queue \in Seq(RecordedJob)
         /\ Tail(tasks[t].queue) \in Seq(RecordedJob)
<1>. USE ExactExitAssumption
<1>1. tasks[t] \in SoundTasks /\ tasks[t] \in TaskStates
  BY DEF IInv, SoundTasks
<1>2. tasks[t].queue # <<>> /\ tasks[t].queue \in Seq(RecordedJob)
  BY <1>1 DEF SoundTasks, TaskStates
<1>3. Head(tasks[t].queue) \in RecordedJob /\ Tail(tasks[t].queue) \in Seq(RecordedJob)
  BY <1>2, HeadTailProperties
<1>. QED  BY <1>2, <1>3 DEF RecordedJob, Job, RowOf, Number

LEMMA NextGroupMoves ==
  ASSUME IInv, NEW t \in Tasks, tasks[t].groups # <<>>, NextGroup(t)
  PROVE  \E task \in SoundTasks : Moves(t, task)
<1>1. tasks[t].groups \in Seq(Entries)
  BY DEF IInv, SoundTasks, TaskStates
<1>2. Tail(tasks[t].groups) \in Seq(Entries)
  BY <1>1, HeadTailProperties
<1>3. CASE Tail(tasks[t].groups) = <<>>
  BY <1>3, IdleIsSound DEF NextGroup, Moves
<1>4. CASE Tail(tasks[t].groups) # <<>>
  <2>1. Selling("final", Tail(tasks[t].groups)) \in SoundTasks
        /\ Selling("final", Tail(tasks[t].groups)).pc = "final"
    BY <1>2, <1>4, SellingIsSound
  <2>2. Keep(t, Selling("final", Tail(tasks[t].groups)))
    BY <1>4 DEF NextGroup
  <2>. QED  BY <2>1, <2>2 DEF Moves
<1>. QED  BY <1>3, <1>4

LEMMA AfterAttemptMoves ==
  ASSUME IInv, NEW t \in Tasks, tasks[t].pc \in {"update", "settle"}, AfterAttempt(t)
  PROVE  \E task \in SoundTasks : Moves(t, task)
<1>1. tasks[t].groups \in Seq(Entries)
  BY DEF IInv, SoundTasks, TaskStates
<1>2. CASE tasks[t].groups # <<>> /\ RowOf(t)[2] = "final"
  <2>1. Selling("fomo", tasks[t].groups) \in SoundTasks
        /\ Selling("fomo", tasks[t].groups).pc = "fomo"
    BY <1>1, <1>2, SellingIsSound
  <2>2. Keep(t, Selling("fomo", tasks[t].groups))
    BY <1>2 DEF AfterAttempt
  <2>. QED  BY <2>1, <2>2 DEF Moves
<1>3. CASE tasks[t].groups # <<>> /\ RowOf(t)[2] # "final"
  BY <1>3, NextGroupMoves DEF AfterAttempt
<1>4. CASE tasks[t].groups = <<>> /\ Tail(tasks[t].queue) = <<>>
  BY <1>4, IdleIsSound DEF AfterAttempt, Moves
<1>5. CASE tasks[t].groups = <<>> /\ Tail(tasks[t].queue) # <<>>
  <2>1. Tail(tasks[t].queue) \in Seq(RecordedJob) /\ <<>> \in Seq(Entries)
    BY AttemptFacts, EmptySeq
  <2>2. Quoting(Tail(tasks[t].queue), <<>>) \in SoundTasks
        /\ Quoting(Tail(tasks[t].queue), <<>>).pc = "quote"
    BY <1>5, <2>1, QuotingIsSound
  <2>3. Await(t, Quoting(Tail(tasks[t].queue), <<>>))
    BY <1>5 DEF AfterAttempt
  <2>. QED  BY <2>2, <2>3 DEF Moves
<1>. QED  BY <1>2, <1>3, <1>4, <1>5

-----------------------------------------------------------------------------
LEMMA InitIInv == Init => IInv
<1>. SUFFICES ASSUME Init PROVE IInv
  OBVIOUS
<1>. USE ExactExitAssumption
<1>1. tasks \in [Tasks -> SoundTasks] /\ \A t \in Tasks : tasks[t].pc = "idle"
  BY IdleIsSound DEF Init
<1>2. TypeOK
  <2>1. liquidations \in [Rows -> [status : {"none", "exit_due"} \cup Verdicts,
                                   count : 0..MaxAttempts]]
    BY DEF Init, Verdicts
  <2>2. attempts \in [Rows -> [1..MaxAttempts -> {"none"} \cup Verdicts]]
    BY DEF Init
  <2>3. \A row \in Rows : outcomes[row] \in [LanesOf(row) -> Outcome]
    <3>1. Unmeasured \in Outcome
      BY DEF Unmeasured, Outcome
    <3>. QED  BY <3>1 DEF Init
  <2>4. /\ fomoTrials \in [Entries -> {"absent", "entered", "demoted"}]
        /\ due \subseteq Rows /\ running \subseteq Tasks /\ \A t \in Tasks : t \notin running
    BY DEF Init
  <2>. QED  BY <1>1, <2>1, <2>2, <2>3, <2>4, TasksTyped DEF TypeOK, Outcome, TasksAreSound, TasksAreTyped
<1>3. \A row \in Rows : \A l \in LanesOf(row) : outcomes[row][l].result = "none"
  BY DEF Init, Unmeasured
<1>. QED  BY <1>1, <1>2, <1>3 DEF Init, IInv, OpenRowsHaveAttempts, CountedAttemptsAreRecorded,
            TotalLossOnlyAfterWindow, MeasurementCitesRecord, Closed

(* A step that leaves rows, records and outcomes alone.                    *)
LEMMA TaskStepIInv ==
  ASSUME IInv, UNCHANGED <<liquidations, attempts, outcomes>>,
         fomoTrials' \in [Entries -> {"absent", "entered", "demoted"}],
         due' \subseteq Rows, tasks' \in [Tasks -> SoundTasks'],
         \A u \in Tasks : (tasks'[u].pc \in {"idle", "quote"}) <=> (u \notin running'),
         running' \subseteq Tasks
  PROVE  IInv'
<1>1. TypeOK'
  BY TasksTypedNext DEF IInv, TypeOK, TasksAreSound, TasksAreTyped
<1>. QED  BY <1>1 DEF IInv, OpenRowsHaveAttempts, CountedAttemptsAreRecorded,
            TotalLossOnlyAfterWindow, MeasurementCitesRecord

LEMMA SellSignalIInv ==
  ASSUME IInv, NEW t \in Tasks, NEW some \in (SUBSET Unsold) \ {{}}, NEW order \in SetToSeqs(some),
         SellSignal(t, order)
  PROVE  IInv'
<1>. USE ExactExitAssumption
<1>1. some \in SUBSET Entries /\ some # {} /\ IsFiniteSet(some)
  <2>1. some \in SUBSET Entries /\ some # {}
    BY DEF Unsold
  <2>. QED  BY <2>1, FS_Subset
<1>2. Cardinality(some) \in Nat /\ Cardinality(some) # 0
  BY <1>1, FS_CardinalityType, FS_EmptySet
<1>3. order \in [1..Cardinality(some) -> some]
  BY DEF SetToSeqs
<1>4. order \in Seq(Entries) /\ order # <<>>
  BY <1>1, <1>2, <1>3
<1>5. Selling("final", order) \in SoundTasks /\ Selling("final", order).pc = "final"
  BY <1>4, SellingIsSound
<1>6. /\ Moves(t, Selling("final", order)) /\ running = {}
      /\ UNCHANGED <<durable, crashes>>
  BY <1>5 DEF SellSignal, Moves
<1>7. SoundTasks' = SoundTasks
  BY <1>6, SameSound DEF durable
<1>. QED  BY <1>5, <1>6, <1>7, MovesSound, TaskStepIInv DEF durable, IInv, TypeOK

LEMMA RetryPassIInv ==
  ASSUME IInv, NEW t \in Tasks, RetryPass(t)
  PROVE  IInv'
<1>. USE ExactExitAssumption
<1>1. PICK order \in SetToSeqs(Retryable) :
        Await(t, Quoting([i \in DOMAIN order |->
                            [row |-> order[i], count |-> liquidations[order[i]].count]], <<>>))
  BY DEF RetryPass
<1>. DEFINE queue == [i \in DOMAIN order |->
                        [row |-> order[i], count |-> liquidations[order[i]].count]]
<1>2. Retryable \in SUBSET Rows /\ Retryable # {} /\ IsFiniteSet(Retryable)
  <2>1. Retryable \in SUBSET Rows /\ Retryable # {}
    BY DEF RetryPass, Retryable, IInv, TypeOK
  <2>2. IsFiniteSet(Scopes)
    <3>1. IsFiniteSet({"final"})
      BY FS_Singleton
    <3>2. IsFiniteSet({"final"} \cup {"fomo"})
      BY <3>1, FS_AddElement
    <3>3. {"final"} \cup {"fomo"} = Scopes
      BY DEF Scopes
    <3>. QED  BY <3>2, <3>3
  <2>3. IsFiniteSet(Rows)
    BY <2>2, FS_Product DEF Rows
  <2>. QED  BY <2>1, <2>3, FS_Subset
<1>3. Cardinality(Retryable) \in Nat /\ Cardinality(Retryable) # 0
  BY <1>2, FS_CardinalityType, FS_EmptySet
<1>4. order \in [1..Cardinality(Retryable) -> Retryable]
  BY DEF SetToSeqs
<1>5. ASSUME NEW row \in Retryable
      PROVE  [row |-> row, count |-> liquidations[row].count] \in RecordedJob
  <2>1. row \in Rows /\ liquidations[row].status \in {"exit_due", "failed"}
    BY <1>2 DEF Retryable
  <2>2. liquidations[row].count \in 0..(MaxAttempts - 1)
    BY <2>1 DEF IInv, TypeOK, OpenRowsHaveAttempts
  <2>. QED  BY <2>1, <2>2 DEF RecordedJob, Job, IInv, CountedAttemptsAreRecorded
<1>6. queue \in Seq(RecordedJob) /\ queue # <<>>
  BY <1>3, <1>4, <1>5
<1>. HIDE DEF queue
<1>7. Quoting(queue, <<>>) \in SoundTasks /\ Quoting(queue, <<>>).pc = "quote"
  <2>1. <<>> \in Seq(Entries)
    BY EmptySeq
  <2>. QED  BY <1>6, <2>1, QuotingIsSound
<1>8. Moves(t, Quoting(queue, <<>>)) /\ running = {} /\ UNCHANGED <<durable, crashes>>
  BY <1>1, <1>7 DEF RetryPass, Moves, queue
<1>9. SoundTasks' = SoundTasks
  BY <1>8, SameSound DEF durable
<1>10. PICK task : task = Quoting(queue, <<>>)
  OBVIOUS
<1>. QED  BY <1>7, <1>8, <1>9, <1>10, MovesSound, TaskStepIInv DEF durable, IInv, TypeOK

(* A step that leaves records and outcomes alone, and keeps the rows well  *)
(* formed.                                                                 *)
LEMMA RowStepIInv ==
  ASSUME IInv, UNCHANGED <<attempts, outcomes, fomoTrials>>, due' \subseteq Rows,
         liquidations' \in [Rows -> [status : {"none", "exit_due"} \cup Verdicts,
                                     count : 0..MaxAttempts]],
         OpenRowsHaveAttempts', CountedAttemptsAreRecorded',
         NEW t \in Tasks, running \in {{}, {t}},
         \E task \in SoundTasks : Moves(t, task)
  PROVE  IInv'
<1>1. SoundTasks' = SoundTasks
  BY SameSound
<1>2. PICK task \in SoundTasks : Moves(t, task)
  OBVIOUS
<1>3. /\ tasks' \in [Tasks -> SoundTasks']
      /\ \A u \in Tasks : (tasks'[u].pc \in {"idle", "quote"}) <=> (u \notin running')
      /\ running' \subseteq Tasks
  BY <1>1, <1>2, MovesSound
<1>4. TypeOK'
  BY <1>3, TasksTypedNext DEF IInv, TypeOK, TasksAreSound, TasksAreTyped
<1>. QED  BY <1>3, <1>4 DEF IInv, TotalLossOnlyAfterWindow, MeasurementCitesRecord

LEMMA UpsertedIs ==
  ASSUME IInv, NEW row \in Rows
  PROVE  /\ Upserted(row) \in [status : {"none", "exit_due"} \cup Verdicts, count : 0..MaxAttempts]
         /\ Upserted(row).status \in {"exit_due", "failed"} => Upserted(row).count < MaxAttempts
         /\ \A n \in 1..Upserted(row).count : attempts[row][n] # "none"
BY ExactExitAssumption
   DEF Upserted, IInv, TypeOK, OpenRowsHaveAttempts, CountedAttemptsAreRecorded

LEMMA AttemptIfDueIInv ==
  ASSUME IInv, NEW t \in Tasks, running = {t}, NEW row \in Rows, AttemptIfDue(t, row),
         UNCHANGED <<attempts, outcomes, fomoTrials, due, crashes>>
  PROVE  IInv'
<1>. USE ExactExitAssumption
<1>. DEFINE job == [row |-> row, count |-> Upserted(row).count]
<1>1. /\ liquidations' = [liquidations EXCEPT ![row] = Upserted(row)]
      /\ Upserted(row).status = "exit_due"
      /\ Await(t, Quoting(<<job>>, tasks[t].groups))
  BY DEF AttemptIfDue
<1>2. liquidations \in [Rows -> [status : {"none", "exit_due"} \cup Verdicts,
                                 count : 0..MaxAttempts]]
  BY DEF IInv, TypeOK
<1>3. job \in RecordedJob
  BY <1>1, UpsertedIs DEF RecordedJob, Job
<1>4. Quoting(<<job>>, tasks[t].groups) \in SoundTasks
      /\ Quoting(<<job>>, tasks[t].groups).pc = "quote"
  <2>1. tasks[t].groups \in Seq(Entries)
    BY DEF IInv, SoundTasks, TaskStates
  <2>2. <<job>> \in Seq(RecordedJob) /\ <<job>> # <<>>
    BY <1>3
  <2>. QED  BY <2>1, <2>2, QuotingIsSound
<1>. HIDE DEF job
<1>5. \E task \in SoundTasks : Moves(t, task)
  BY <1>1, <1>4 DEF Moves
<1>6. /\ liquidations'[row] = Upserted(row)
      /\ \A other \in Rows : other # row => liquidations'[other] = liquidations[other]
      /\ liquidations' \in [Rows -> [status : {"none", "exit_due"} \cup Verdicts,
                                     count : 0..MaxAttempts]]
  BY <1>1, <1>2, UpsertedIs
<1>7. OpenRowsHaveAttempts'
  BY <1>6, UpsertedIs DEF IInv, OpenRowsHaveAttempts
<1>8. CountedAttemptsAreRecorded'
  BY <1>6, UpsertedIs DEF IInv, CountedAttemptsAreRecorded
<1>9. due' \subseteq Rows
  BY DEF IInv, TypeOK
<1>. QED  BY <1>5, <1>6, <1>7, <1>8, <1>9, RowStepIInv

LEMMA StartIInv ==
  ASSUME IInv, NEW t \in Tasks, StartFinal(t) \/ StartFomo(t)
  PROVE  IInv'
<1>1. /\ running = {t}
      /\ UNCHANGED <<attempts, outcomes, fomoTrials, due, crashes>>
      /\ tasks[t] \in SoundTasks /\ tasks[t].pc \in {"final", "fomo"}
      /\ due' \subseteq Rows
      /\ liquidations \in [Rows -> [status : {"none", "exit_due"} \cup Verdicts,
                                    count : 0..MaxAttempts]]
  BY DEF StartFinal, StartFomo, IInv, TypeOK
<1>2. tasks[t].groups # <<>> /\ tasks[t].groups \in Seq(Entries)
  BY <1>1 DEF SoundTasks, TaskStates
<1>3. Entry(t) \in Entries
  BY <1>2, HeadTailProperties DEF Entry
<1>4. \A scope \in Scopes : <<Entry(t), scope>> \in Rows
  BY <1>3 DEF Rows
<1>5. ASSUME NEW scope \in Scopes, AttemptIfDue(t, <<Entry(t), scope>>) PROVE IInv'
  <2>1. PICK row \in Rows : row = <<Entry(t), scope>>
    BY <1>4, <1>5
  <2>2. AttemptIfDue(t, row)
    BY <1>5, <2>1
  <2>. QED  BY <1>1, <2>2, AttemptIfDueIInv
<1>6. CASE /\ StartFinal(t)
           /\ Keep(t, [tasks[t] EXCEPT !.pc = "fomo"])
           /\ UNCHANGED liquidations
  <2>1. [tasks[t] EXCEPT !.pc = "fomo"] \in SoundTasks
        /\ [tasks[t] EXCEPT !.pc = "fomo"].pc = "fomo"
    BY <1>1, <1>2 DEF SoundTasks, TaskStates
  <2>2. \E task \in SoundTasks : Moves(t, task)
    BY <1>6, <2>1 DEF Moves
  <2>3. OpenRowsHaveAttempts' /\ CountedAttemptsAreRecorded'
    BY <1>1, <1>6 DEF IInv, OpenRowsHaveAttempts, CountedAttemptsAreRecorded
  <2>. QED  BY <1>1, <1>6, <2>2, <2>3, RowStepIInv
<1>7. CASE NextGroup(t) /\ UNCHANGED liquidations
  <2>1. \E task \in SoundTasks : Moves(t, task)
    BY <1>2, <1>7, NextGroupMoves
  <2>2. OpenRowsHaveAttempts' /\ CountedAttemptsAreRecorded'
    BY <1>1, <1>7 DEF IInv, OpenRowsHaveAttempts, CountedAttemptsAreRecorded
  <2>. QED  BY <1>1, <1>7, <2>1, <2>2, RowStepIInv
<1>. QED  BY <1>5, <1>6, <1>7 DEF StartFinal, StartFomo, Scopes

(* The answer: its record is there before anything else depends on it.     *)
LEMMA AnswerIInv ==
  ASSUME IInv, NEW t \in Tasks, NEW executable \in BOOLEAN, Answer(t, executable)
  PROVE  IInv'
<1>. USE ExactExitAssumption
<1>. DEFINE row == RowOf(t)
            n   == Number(t)
            v   == Verdict(n, executable)
<1>1. /\ running = {} /\ tasks[t].pc = "quote"
      /\ attempts' = IF attempts[row][n] = "none"
                     THEN [attempts EXCEPT ![row][n] = v] ELSE attempts
      /\ Keep(t, Judged(tasks[t], v))
      /\ UNCHANGED <<liquidations, outcomes, fomoTrials, due, crashes>>
  BY DEF Answer
<1>2. /\ row \in Rows /\ n \in 1..MaxAttempts
      /\ tasks[t].queue # <<>> /\ tasks[t].queue \in Seq(RecordedJob)
  BY <1>1, AttemptFacts
<1>3. /\ v \in Verdicts
      /\ v = "failed" => n < MaxAttempts
      /\ v = "terminal" => n = MaxAttempts
  BY <1>2 DEF Verdict, Verdicts, Closed
<1>4. attempts \in [Rows -> [1..MaxAttempts -> {"none"} \cup Verdicts]]
  BY DEF IInv, TypeOK
<1>. HIDE DEF v
<1>5. attempts' \in [Rows -> [1..MaxAttempts -> {"none"} \cup Verdicts]]
  BY <1>1, <1>2, <1>3, <1>4
<1>6. /\ \A o \in Rows, m \in 1..MaxAttempts : attempts[o][m] # "none" => attempts'[o][m] # "none"
      /\ attempts'[row][n] # "none"
  <2>1. v # "none"
    BY <1>3 DEF Verdicts, Closed
  <2>. QED  BY <1>1, <1>2, <1>4, <2>1
<1>7. SoundTasks \subseteq SoundTasks'
  BY <1>6, SoundStays
<1>8. Judged(tasks[t], v) \in SoundTasks'
  <2>1. tasks[t] \in SoundTasks'
    BY <1>7 DEF IInv
  <2>2. tasks[t] \in TaskStates'
    BY <2>1 DEF SoundTasks
  <2>3. Judged(tasks[t], v) \in TaskStates'
    BY <1>3, <2>2 DEF Judged, TaskStates
  <2>4. /\ Judged(tasks[t], v).pc = "update" /\ Judged(tasks[t], v).queue = tasks[t].queue
        /\ Judged(tasks[t], v).verdict = v
    BY DEF Judged
  <2>5. attempts'[Head(tasks[t].queue).row][Head(tasks[t].queue).count + 1] # "none"
    BY <1>6 DEF RowOf, Number
  <2>. QED  BY <1>2, <1>3, <2>3, <2>4, <2>5 DEF SoundTasks, Number
<1>9. PICK task : task = Judged(tasks[t], v)
  OBVIOUS
<1>10. Moves(t, task) /\ task \in SoundTasks'
  BY <1>1, <1>8, <1>9 DEF Moves, Judged
<1>11. /\ tasks' \in [Tasks -> SoundTasks']
       /\ \A u \in Tasks : (tasks'[u].pc \in {"idle", "quote"}) <=> (u \notin running')
       /\ running' \subseteq Tasks
  BY <1>1, <1>7, <1>10, MovesSound
<1>12. TypeOK'
  BY <1>1, <1>5, <1>11, TasksTypedNext DEF IInv, TypeOK, TasksAreSound, TasksAreTyped
<1>13. OpenRowsHaveAttempts'
  BY <1>1 DEF IInv, OpenRowsHaveAttempts
<1>14. CountedAttemptsAreRecorded'
  <2>. SUFFICES ASSUME NEW o \in Rows, NEW m \in 1..liquidations[o].count
                PROVE  attempts'[o][m] # "none"
    BY <1>1 DEF CountedAttemptsAreRecorded
  <2>1. liquidations[o].count \in 0..MaxAttempts
    BY DEF IInv, TypeOK
  <2>2. m \in 1..MaxAttempts
    BY <2>1
  <2>. QED  BY <1>6, <2>2 DEF IInv, CountedAttemptsAreRecorded
<1>15. TotalLossOnlyAfterWindow'
  BY <1>1, <1>6 DEF IInv, TotalLossOnlyAfterWindow
<1>16. MeasurementCitesRecord'
  <2>. SUFFICES ASSUME NEW o \in Rows, NEW l \in LanesOf(o), outcomes[o][l].result \in Closed
                PROVE  outcomes[o][l].cites > 0 /\ attempts'[o][outcomes[o][l].cites] # "none"
    BY <1>1 DEF MeasurementCitesRecord
  <2>1. /\ outcomes[o][l].cites > 0 /\ attempts[o][outcomes[o][l].cites] # "none"
        /\ outcomes[o][l].cites \in 0..MaxAttempts
    BY DEF IInv, MeasurementCitesRecord, TypeOK
  <2>. QED  BY <1>6, <2>1
<1>. QED  BY <1>1, <1>11, <1>12, <1>13, <1>14, <1>15, <1>16 DEF IInv

LEMMA UpdateRowIInv ==
  ASSUME IInv, NEW t \in Tasks, UpdateRow(t)
  PROVE  IInv'
<1>. USE ExactExitAssumption
<1>. DEFINE row == RowOf(t)
            n   == Number(t)
            new == [status |-> tasks[t].verdict, count |-> n]
<1>1. /\ running = {t} /\ tasks[t].pc = "update"
      /\ liquidations' = [liquidations EXCEPT ![row] = new]
      /\ due' = due \ {row}
      /\ UNCHANGED <<attempts, outcomes, fomoTrials, crashes>>
  BY DEF UpdateRow
<1>2. /\ row \in Rows /\ n \in 1..MaxAttempts
      /\ \A m \in 1..(n - 1) : attempts[row][m] # "none"
      /\ tasks[t].queue # <<>>
  BY <1>1, AttemptFacts
<1>3. tasks[t] \in SoundTasks /\ tasks[t] \in TaskStates
  BY DEF IInv, SoundTasks
<1>4. /\ tasks[t].verdict \in Verdicts
      /\ attempts[row][n] # "none"
      /\ tasks[t].verdict = "failed" => n < MaxAttempts
  BY <1>1, <1>3 DEF SoundTasks, TaskStates, RowOf, Number
<1>5. new \in [status : {"none", "exit_due"} \cup Verdicts, count : 0..MaxAttempts]
  BY <1>2, <1>4
<1>6. /\ liquidations' \in [Rows -> [status : {"none", "exit_due"} \cup Verdicts,
                                     count : 0..MaxAttempts]]
      /\ liquidations'[row] = new
      /\ \A o \in Rows : o # row => liquidations'[o] = liquidations[o]
  BY <1>1, <1>2, <1>5 DEF IInv, TypeOK
<1>7. OpenRowsHaveAttempts'
  BY <1>4, <1>6 DEF IInv, OpenRowsHaveAttempts, Verdicts, Closed
<1>8. CountedAttemptsAreRecorded'
  BY <1>1, <1>2, <1>4, <1>6 DEF IInv, CountedAttemptsAreRecorded
<1>9. \E task \in SoundTasks : Moves(t, task)
  <2>1. CASE AfterAttempt(t)
    BY <1>1, <2>1, AfterAttemptMoves
  <2>2. CASE /\ tasks[t].verdict \in Closed
             /\ Keep(t, [tasks[t] EXCEPT !.pc = "settle"])
    <3>1. [tasks[t] EXCEPT !.pc = "settle"] \in SoundTasks
          /\ [tasks[t] EXCEPT !.pc = "settle"].pc = "settle"
      BY <1>1, <1>3, <2>2 DEF SoundTasks, TaskStates, Closed
    <3>. QED  BY <2>2, <3>1 DEF Moves
  <2>. QED  BY <2>1, <2>2 DEF UpdateRow
<1>10. due' \subseteq Rows
  BY <1>1 DEF IInv, TypeOK
<1>. QED  BY <1>1, <1>6, <1>7, <1>8, <1>9, <1>10, RowStepIInv

(* What one outcome may become.                                            *)
SoundOutcome(row, o) ==
  /\ o \in Outcome
  /\ o.result = "terminal" => \A n \in 1..MaxAttempts : attempts[row][n] # "none"
  /\ o.result \in Closed => o.cites > 0 /\ attempts[row][o.cites] # "none"

LEMMA OutcomesAreSound ==
  ASSUME IInv, NEW row \in Rows, NEW l \in LanesOf(row)
  PROVE  SoundOutcome(row, outcomes[row][l])
BY DEF IInv, TypeOK, TotalLossOnlyAfterWindow, MeasurementCitesRecord, SoundOutcome, Outcome

LEMMA OutcomeStepIInv ==
  ASSUME IInv, UNCHANGED <<liquidations, attempts, fomoTrials, due>>,
         DOMAIN outcomes' = Rows,
         \A row \in Rows : DOMAIN outcomes'[row] = LanesOf(row)
                           /\ outcomes'[row] = [l \in LanesOf(row) |-> outcomes'[row][l]],
         \A row \in Rows : \A l \in LanesOf(row) : (SoundOutcome(row, outcomes[row][l]))',
         tasks' \in [Tasks -> SoundTasks'],
         \A u \in Tasks : (tasks'[u].pc \in {"idle", "quote"}) <=> (u \notin running'),
         running' \subseteq Tasks
  PROVE  IInv'
<1>1. \A row \in Rows : outcomes'[row] \in [LanesOf(row) -> Outcome]
  BY DEF SoundOutcome
<1>2. TypeOK'
  BY <1>1, TasksTypedNext DEF IInv, TypeOK, TasksAreSound, TasksAreTyped, Outcome
<1>3. TotalLossOnlyAfterWindow' /\ MeasurementCitesRecord'
  BY DEF TotalLossOnlyAfterWindow, MeasurementCitesRecord, SoundOutcome
<1>. QED  BY <1>2, <1>3 DEF IInv, OpenRowsHaveAttempts, CountedAttemptsAreRecorded

(* What a settlement writes of an outcome.                                 *)
LEMMA SettleLaneWrites ==
  ASSUME IInv, NEW t \in Tasks, SettleLane(t)
  PROVE  /\ DOMAIN outcomes' = Rows
         /\ \A o \in Rows : /\ DOMAIN outcomes'[o] = LanesOf(o)
                            /\ outcomes'[o] = [l \in LanesOf(o) |-> outcomes'[o][l]]
         /\ \A o \in Rows : \A l \in LanesOf(o) :
              \/ outcomes'[o][l] = outcomes[o][l]
              \/ o = RowOf(t) /\ outcomes'[o][l] = Measured(outcomes[o][l], t)
<1>. DEFINE row  == RowOf(t)
            lane == tasks[t].lane
<1>1. \A o \in Rows : outcomes[o] \in [LanesOf(o) -> Outcome]
  BY DEF IInv, TypeOK, Outcome
<1>2. row \in Rows
  BY AttemptFacts DEF SettleLane
<1>3. CASE UNCHANGED outcomes
  BY <1>1, <1>3 DEF IInv
<1>4. CASE outcomes' = [outcomes EXCEPT ![row][lane] = Measured(outcomes[row][lane], t)]
  <2>. DEFINE lanes == [outcomes[row] EXCEPT ![lane] = Measured(outcomes[row][lane], t)]
  <2>1. outcomes' = [outcomes EXCEPT ![row] = lanes]
    BY <1>4
  <2>2. /\ DOMAIN lanes = LanesOf(row) /\ lanes = [l \in LanesOf(row) |-> lanes[l]]
        /\ \A l \in LanesOf(row) : \/ lanes[l] = outcomes[row][l]
                                   \/ lanes[l] = Measured(outcomes[row][l], t)
    BY <1>1, <1>2
  <2>. HIDE DEF lanes
  <2>3. /\ DOMAIN outcomes' = Rows /\ outcomes'[row] = lanes
        /\ \A o \in Rows : o # row => outcomes'[o] = outcomes[o]
    BY <1>2, <2>1 DEF IInv
  <2>. QED  BY <1>1, <2>2, <2>3
<1>. QED  BY <1>3, <1>4 DEF SettleLane

LEMMA SettleLaneIInv ==
  ASSUME IInv, NEW t \in Tasks, SettleLane(t)
  PROVE  IInv'
<1>. USE ExactExitAssumption
<1>1. /\ running = {t} /\ tasks[t].pc = "settle"
      /\ UNCHANGED <<liquidations, attempts, fomoTrials, due, crashes>>
  BY DEF SettleLane
<1>2. /\ RowOf(t) \in Rows /\ Number(t) \in 1..MaxAttempts
      /\ \A m \in 1..(Number(t) - 1) : attempts[RowOf(t)][m] # "none"
      /\ tasks[t].queue # <<>>
  BY <1>1, AttemptFacts
<1>3. tasks[t] \in SoundTasks /\ tasks[t] \in TaskStates
  BY DEF IInv, SoundTasks
<1>4. /\ tasks[t].verdict \in Verdicts
      /\ attempts[RowOf(t)][Number(t)] # "none"
      /\ tasks[t].verdict = "terminal" => Number(t) = MaxAttempts
  BY <1>1, <1>3 DEF SoundTasks, TaskStates, RowOf, Number
<1>0. tasks[t].verdict # "failed"
  BY <1>1, <1>3 DEF SoundTasks
<1>5. ASSUME NEW l \in LanesOf(RowOf(t))
      PROVE  SoundOutcome(RowOf(t), Measured(outcomes[RowOf(t)][l], t))
  <2>1. SoundOutcome(RowOf(t), outcomes[RowOf(t)][l])
    BY <1>2, OutcomesAreSound
  <2>2. Measured(outcomes[RowOf(t)][l], t) \in Outcome
    BY <1>0, <1>2, <1>4, <2>1 DEF Measured, Outcome, SoundOutcome, Verdicts
  <2>3. Measured(outcomes[RowOf(t)][l], t).cites = Number(t)
    BY DEF Measured
  <2>4. Measured(outcomes[RowOf(t)][l], t).result = "terminal"
          => \A n \in 1..MaxAttempts : attempts[RowOf(t)][n] # "none"
    BY <1>2, <1>4, <2>1 DEF Measured, SoundOutcome
  <2>. QED  BY <1>2, <1>4, <2>2, <2>3, <2>4 DEF SoundOutcome
<1>6. \E task \in SoundTasks : Moves(t, task)
  <2>1. CASE AfterAttempt(t)
    BY <1>1, <2>1, AfterAttemptMoves
  <2>2. CASE Await(t, Idle)
    BY <2>2, IdleIsSound DEF Moves
  <2>3. CASE Keep(t, [tasks[t] EXCEPT !.lane = tasks[t].lane + 1])
    <3>1. [tasks[t] EXCEPT !.lane = tasks[t].lane + 1] \in SoundTasks
          /\ [tasks[t] EXCEPT !.lane = tasks[t].lane + 1].pc = "settle"
      BY <1>1, <1>3 DEF SoundTasks, TaskStates
    <3>. QED  BY <2>3, <3>1 DEF Moves
  <2>. QED  BY <2>1, <2>2, <2>3 DEF SettleLane
<1>7. SoundTasks' = SoundTasks
  BY <1>1, SameSound
<1>8. /\ tasks' \in [Tasks -> SoundTasks']
      /\ \A u \in Tasks : (tasks'[u].pc \in {"idle", "quote"}) <=> (u \notin running')
      /\ running' \subseteq Tasks
  BY <1>1, <1>6, <1>7, MovesSound
<1>9. \A o \in Rows : \A l \in LanesOf(o) : SoundOutcome(o, outcomes'[o][l])
  BY <1>2, <1>5, SettleLaneWrites, OutcomesAreSound
<1>10. \A o \in Rows : \A l \in LanesOf(o) : (SoundOutcome(o, outcomes[o][l]))'
  BY <1>1, <1>9 DEF SoundOutcome
<1>. QED  BY <1>1, <1>8, <1>10, SettleLaneWrites, OutcomeStepIInv

(* A status request gives a measurement only to a lane that has none.      *)
LEMMA StatusReadWrites ==
  ASSUME IInv, NEW e \in Entries, StatusRead(e)
  PROVE  /\ DOMAIN outcomes' = Rows
         /\ \A o \in Rows : /\ DOMAIN outcomes'[o] = LanesOf(o)
                            /\ outcomes'[o] = [l \in LanesOf(o) |-> outcomes'[o][l]]
         /\ \A o \in Rows : \A l \in LanesOf(o) :
              \/ outcomes'[o][l] = outcomes[o][l]
              \/ /\ outcomes[o][l].result = "none"
                 /\ outcomes'[o][l].result = "mirrored" /\ outcomes'[o][l] \in Outcome
<1>. USE ExactExitAssumption
<1>. DEFINE row   == <<e, "fomo">>
            lanes == [outcomes[row] EXCEPT ![1].result = "mirrored"]
<1>1. \A o \in Rows : outcomes[o] \in [LanesOf(o) -> Outcome]
  BY DEF IInv, TypeOK, Outcome
<1>2. row \in Rows /\ 1 \in LanesOf(row)
  BY DEF Rows, Scopes, LanesOf
<1>3. outcomes[row][1].result = "none" /\ outcomes' = [outcomes EXCEPT ![row] = lanes]
  BY DEF StatusRead
<1>4. /\ DOMAIN lanes = LanesOf(row) /\ lanes = [l \in LanesOf(row) |-> lanes[l]]
      /\ \A l \in LanesOf(row) : l # 1 => lanes[l] = outcomes[row][l]
      /\ lanes[1].result = "mirrored" /\ lanes[1] \in Outcome
  BY <1>1, <1>2 DEF Outcome
<1>. HIDE DEF lanes
<1>5. /\ DOMAIN outcomes' = Rows /\ outcomes'[row] = lanes
      /\ \A o \in Rows : o # row => outcomes'[o] = outcomes[o]
  BY <1>2, <1>3 DEF IInv
<1>. QED  BY <1>1, <1>3, <1>4, <1>5

LEMMA StatusReadIInv ==
  ASSUME IInv, NEW e \in Entries, StatusRead(e)
  PROVE  IInv'
<1>1. UNCHANGED <<liquidations, attempts, fomoTrials, due, tasks, running, crashes>>
  BY DEF StatusRead
<1>2. \A o \in Rows : \A l \in LanesOf(o) : SoundOutcome(o, outcomes'[o][l])
  BY StatusReadWrites, OutcomesAreSound DEF SoundOutcome, Closed
<1>3. \A o \in Rows : \A l \in LanesOf(o) : (SoundOutcome(o, outcomes[o][l]))'
  BY <1>1, <1>2 DEF SoundOutcome
<1>4. tasks' \in [Tasks -> SoundTasks'] /\ running' \subseteq Tasks
      /\ \A u \in Tasks : (tasks'[u].pc \in {"idle", "quote"}) <=> (u \notin running')
  BY <1>1, SameSound DEF IInv, TypeOK
<1>. QED  BY <1>1, <1>3, <1>4, StatusReadWrites, OutcomeStepIInv

(* Time, FOMO trials and the loss of the process touch no row and no       *)
(* record.                                                                 *)
LEMMA SurroundingsIInv ==
  ASSUME IInv,
         \/ \E row \in Rows : ClockReaches(row)
         \/ \E e \in Entries : EnterFomo(e) \/ DemoteFomo(e)
         \/ Crash
         \/ UNCHANGED vars
  PROVE  IInv'
<1>1. UNCHANGED <<liquidations, attempts, outcomes>> /\ due' \subseteq Rows
      /\ fomoTrials' \in [Entries -> {"absent", "entered", "demoted"}]
  BY DEF ClockReaches, EnterFomo, DemoteFomo, Crash, vars, durable, IInv, TypeOK
<1>2. SoundTasks' = SoundTasks
  BY <1>1, SameSound
<1>3. \/ UNCHANGED <<tasks, running>>
      \/ tasks' = [t \in Tasks |-> Idle] /\ running' = {}
  BY DEF ClockReaches, EnterFomo, DemoteFomo, Crash, vars
<1>4. /\ tasks' \in [Tasks -> SoundTasks'] /\ running' \subseteq Tasks
      /\ \A u \in Tasks : (tasks'[u].pc \in {"idle", "quote"}) <=> (u \notin running')
  BY <1>2, <1>3, IdleIsSound DEF IInv, TypeOK
<1>. QED  BY <1>1, <1>4, TaskStepIInv

LEMMA NextIInv == IInv /\ [Next]_vars => IInv'
<1>. SUFFICES ASSUME IInv, [Next]_vars PROVE IInv'
  OBVIOUS
<1>1. ASSUME NEW t \in Tasks, Step(t) \/ RetryPass(t) PROVE IInv'
  BY <1>1, AnswerIInv, UpdateRowIInv, SettleLaneIInv, StartIInv, RetryPassIInv DEF Step
<1>2. ASSUME NEW t \in Observers, NEW some \in (SUBSET Unsold) \ {{}},
             NEW order \in SetToSeqs(some), SellSignal(t, order)
      PROVE  IInv'
  BY <1>2, SellSignalIInv DEF Tasks
<1>3. ASSUME NEW e \in Entries, StatusRead(e) PROVE IInv'
  BY <1>3, StatusReadIInv
<1>. QED  BY <1>1, <1>2, <1>3, SurroundingsIInv DEF Next

-----------------------------------------------------------------------------
THEOREM SpecIInv == Spec => []IInv
<1>. QED  BY InitIInv, NextIInv, PTL DEF Spec

(* Rows, records and tasks stay well formed, and one task at most is past  *)
(* its await.                                                              *)
THEOREM TypeCorrect == Spec => []TypeOK
<1>1. IInv => TypeOK
  BY DEF IInv
<1>. QED  BY <1>1, SpecIInv, PTL

(* However attempts overlap, no count claims an unrecorded attempt.        *)
THEOREM CountsAreRecorded == Spec => []CountedAttemptsAreRecorded
<1>1. IInv => CountedAttemptsAreRecorded
  BY DEF IInv
<1>. QED  BY <1>1, SpecIInv, PTL

(* No overlap and no restart shortens the retry window of a total loss.    *)
THEOREM WindowIsKept == Spec => []TotalLossOnlyAfterWindow
<1>1. IInv => TotalLossOnlyAfterWindow
  BY DEF IInv
<1>. QED  BY <1>1, SpecIInv, PTL

(* The engine measures nothing without a recorded attempt to cite.         *)
THEOREM MeasurementsAreCited == Spec => []MeasurementCitesRecord
<1>1. IInv => MeasurementCitesRecord
  BY DEF IInv
<1>. QED  BY <1>1, SpecIInv, PTL

(* Who measures a lane first has measured it for good.                     *)
THEOREM FirstMeasurementIsKept == Spec => FirstMeasurementStands
<1>. DEFINE Stand == \A row \in Rows : \A l \in LanesOf(row) :
                       outcomes[row][l].result # "none" =>
                         outcomes'[row][l].result = outcomes[row][l].result
<1>1. ASSUME IInv, [Next]_vars PROVE [Stand]_vars
  <2>1. CASE UNCHANGED outcomes
    BY <2>1
  <2>2. ASSUME NEW t \in Tasks, SettleLane(t) PROVE Stand
    <3>1. \A o \in Rows : \A l \in LanesOf(o) :
            \/ outcomes'[o][l] = outcomes[o][l]
            \/ outcomes'[o][l] = Measured(outcomes[o][l], t)
      BY <1>1, <2>2, SettleLaneWrites
    <3>2. \A old : old.result # "none" => Measured(old, t).result = old.result
      BY DEF Measured
    <3>. QED  BY <3>1, <3>2
  <2>3. ASSUME NEW e \in Entries, StatusRead(e) PROVE Stand
    BY <2>3, StatusReadWrites, <1>1
  <2>4. \/ UNCHANGED outcomes
        \/ \E t \in Tasks : SettleLane(t)
        \/ \E e \in Entries : StatusRead(e)
    BY <1>1 DEF Next, Step, Answer, UpdateRow, StartFinal, StartFomo, RetryPass, SellSignal,
       ClockReaches, EnterFomo, DemoteFomo, Crash, durable, vars
  <2>. QED  BY <2>1, <2>2, <2>3, <2>4
<1>. QED  BY <1>1, SpecIInv, PTL DEF Spec, FirstMeasurementStands

-----------------------------------------------------------------------------
(* Every attempt is recorded after those before it: overlapping attempts   *)
(* of a row leave no gap in its record.                                    *)
RecordsHaveNoGaps ==
  \A row \in Rows : \A n \in 1..MaxAttempts :
    attempts[row][n] # "none" => \A m \in 1..n : attempts[row][m] # "none"

LEMMA RecordsNext == IInv /\ RecordsHaveNoGaps /\ [Next]_vars => RecordsHaveNoGaps'
<1>. SUFFICES ASSUME IInv, RecordsHaveNoGaps, [Next]_vars PROVE RecordsHaveNoGaps'
  OBVIOUS
<1>. USE ExactExitAssumption
<1>1. CASE UNCHANGED attempts
  BY <1>1 DEF RecordsHaveNoGaps
<1>2. ASSUME NEW t \in Tasks, NEW executable \in BOOLEAN, Answer(t, executable)
      PROVE  RecordsHaveNoGaps'
  <2>1. CASE UNCHANGED attempts
    BY <2>1 DEF RecordsHaveNoGaps
  <2>2. CASE ~ UNCHANGED attempts
    <3>1. tasks[t].pc = "quote"
      BY <1>2 DEF Answer
    <3>2. PICK row \in Rows : row = RowOf(t)
      BY <3>1, AttemptFacts
    <3>3. PICK n \in 1..MaxAttempts : n = Number(t)
      BY <3>1, AttemptFacts
    <3>4. PICK v : v = Verdict(n, executable)
      OBVIOUS
    <3>5. attempts' = [attempts EXCEPT ![row][n] = v]
      BY <1>2, <2>2, <3>2, <3>3, <3>4 DEF Answer
    <3>6. v # "none"
      BY <3>4 DEF Verdict
    <3>7. \A m \in 1..(n - 1) : attempts[row][m] # "none"
      BY <3>1, <3>2, <3>3, AttemptFacts
    <3>8. \A o \in Rows : \A m \in 1..MaxAttempts :
            attempts'[o][m] = IF o = row /\ m = n THEN v ELSE attempts[o][m]
      BY <3>5 DEF IInv, TypeOK
    <3>. SUFFICES ASSUME NEW o \in Rows, NEW k \in 1..MaxAttempts, attempts'[o][k] # "none",
                         NEW m \in 1..k
                  PROVE  attempts'[o][m] # "none"
      BY DEF RecordsHaveNoGaps
    <3>9. m \in 1..MaxAttempts
      OBVIOUS
    <3>10. CASE o = row /\ k = n
      BY <3>6, <3>7, <3>8, <3>9, <3>10
    <3>11. CASE ~ (o = row /\ k = n)
      <4>1. attempts[o][k] # "none"
        BY <3>8, <3>11
      <4>2. attempts[o][m] # "none"
        BY <4>1 DEF RecordsHaveNoGaps
      <4>. QED  BY <3>6, <3>8, <3>9, <4>2
    <3>. QED  BY <3>10, <3>11
  <2>. QED  BY <2>1, <2>2
<1>3. \/ UNCHANGED attempts
      \/ \E t \in Tasks, executable \in BOOLEAN : Answer(t, executable)
  BY DEF Next, Step, UpdateRow, SettleLane, StartFinal, StartFomo, RetryPass, SellSignal,
     ClockReaches, EnterFomo, DemoteFomo, StatusRead, Crash, durable, vars
<1>. QED  BY <1>1, <1>2, <1>3

(* However attempts overlap, the record of a row has no gap.               *)
THEOREM RecordsAreContiguous == Spec => []RecordsHaveNoGaps
<1>1. Init => RecordsHaveNoGaps
  BY ExactExitAssumption DEF Init, RecordsHaveNoGaps
<1>. QED  BY <1>1, RecordsNext, SpecIInv, PTL DEF Spec

(* A row the retry pass selects has an attempt left to make, and a row it  *)
(* will never select again as terminal has used up its window: no row is   *)
(* open with nothing left to try.                                          *)
RowsGoOnOrAreDone ==
  \A row \in Rows :
    /\ liquidations[row].status \in {"exit_due", "failed"} => liquidations[row].count < MaxAttempts
    /\ liquidations[row].status = "terminal" =>
         /\ liquidations[row].count = MaxAttempts
         /\ \A n \in 1..MaxAttempts : attempts[row][n] # "none"

TerminalIsExhausted ==
  \A row \in Rows : liquidations[row].status = "terminal" => liquidations[row].count = MaxAttempts

LEMMA TerminalNext == IInv /\ TerminalIsExhausted /\ [Next]_vars => TerminalIsExhausted'
<1>. SUFFICES ASSUME IInv, TerminalIsExhausted, [Next]_vars PROVE TerminalIsExhausted'
  OBVIOUS
<1>1. CASE UNCHANGED liquidations
  BY <1>1 DEF TerminalIsExhausted
<1>2. ASSUME NEW t \in Tasks, UpdateRow(t) PROVE TerminalIsExhausted'
  <2>1. tasks[t].pc = "update" /\ tasks[t] \in SoundTasks
    BY <1>2 DEF UpdateRow, IInv
  <2>2. tasks[t].verdict = "terminal" => Number(t) = MaxAttempts
    BY <2>1 DEF SoundTasks, Number
  <2>3. liquidations' = [liquidations EXCEPT ![RowOf(t)] =
                           [status |-> tasks[t].verdict, count |-> Number(t)]]
    BY <1>2 DEF UpdateRow
  <2>4. \A o \in Rows : \/ liquidations'[o] = liquidations[o]
                        \/ liquidations'[o] = [status |-> tasks[t].verdict, count |-> Number(t)]
    BY <2>3 DEF IInv, TypeOK
  <2>. QED  BY <2>2, <2>4 DEF TerminalIsExhausted
<1>3. ASSUME NEW t \in Tasks, NEW row \in Rows, AttemptIfDue(t, row) PROVE TerminalIsExhausted'
  <2>1. \A o \in Rows : liquidations'[o] = liquidations[o] \/ liquidations'[o].status = "exit_due"
    BY <1>3 DEF AttemptIfDue, Upserted, IInv, TypeOK
  <2>. QED  BY <2>1 DEF TerminalIsExhausted
<1>4. ASSUME NEW t \in Tasks, StartFinal(t) \/ StartFomo(t)
      PROVE  UNCHANGED liquidations \/ \E row \in Rows : AttemptIfDue(t, row)
  <2>1. tasks[t].pc \in {"final", "fomo"}
    BY <1>4 DEF StartFinal, StartFomo
  <2>2. tasks[t].groups \in Seq(Entries) /\ tasks[t].groups # <<>>
    BY <2>1 DEF IInv, SoundTasks, TaskStates
  <2>3. Entry(t) \in Entries
    BY <2>2, HeadTailProperties DEF Entry
  <2>4. <<Entry(t), "final">> \in Rows /\ <<Entry(t), "fomo">> \in Rows
    BY <2>3 DEF Rows, Scopes
  <2>. QED  BY <1>4, <2>4 DEF StartFinal, StartFomo
<1>5. \/ UNCHANGED liquidations
      \/ \E t \in Tasks : UpdateRow(t) \/ StartFinal(t) \/ StartFomo(t)
  BY DEF Next, Step, Answer, SettleLane, RetryPass, SellSignal,
     ClockReaches, EnterFomo, DemoteFomo, StatusRead, Crash, durable, vars
<1>. QED  BY <1>1, <1>2, <1>3, <1>4, <1>5

(* No row stays open with its retry window used up, and none is terminal   *)
(* before: a due exit never loses the attempts DueExitsClose rests on.     *)
THEOREM OpenRowsCanBeRetried == Spec => []RowsGoOnOrAreDone
<1>1. Init => TerminalIsExhausted
  BY DEF Init, TerminalIsExhausted
<1>2. IInv /\ TerminalIsExhausted => RowsGoOnOrAreDone
  BY DEF IInv, OpenRowsHaveAttempts, CountedAttemptsAreRecorded, TerminalIsExhausted, RowsGoOnOrAreDone
<1>. QED  BY <1>1, <1>2, TerminalNext, SpecIInv, PTL DEF Spec

-----------------------------------------------------------------------------
(* A FOMO position has a row only once its trial was entered.              *)
Opened(row) == row[2] = "fomo" => fomoTrials[row[1]] # "absent"
Entered(row) == row[2] = "fomo" => fomoTrials[row[1]] = "entered"
OpenedJob == {j \in Job : Opened(j.row)}

(* Where a task stands in what it has to settle.                           *)
Careful ==
  {task \in SoundTasks :
     /\ task.queue \in Seq(OpenedJob)
     /\ task.pc = "update" => task.lane = 1
     /\ task.pc = "settle" => task.lane \in LanesOf(Head(task.queue).row)}

Carefully ==
  /\ crashes \in Nat
  /\ \A row \in Rows : liquidations[row].status # "none" => Opened(row)
  /\ tasks \in [Tasks -> Careful]

(* The task on its way to a lane.                                          *)
OnItsWay(row, l) ==
  \E t \in Tasks : tasks[t].pc = "settle" /\ RowOf(t) = row /\ tasks[t].lane <= l

(* Until the process is first lost, each lane of a closed exit that is     *)
(* still entered is measured, or the task that closed it is on its way to  *)
(* the lane: overlap alone leaves no closed exit without its outcomes.     *)
ClosedExitsAreMeasured ==
  crashes = 0 =>
    \A row \in Rows : liquidations[row].status \in Closed /\ Entered(row) =>
      \A l \in LanesOf(row) :
        outcomes[row][l].result # "none" \/ OnItsWay(row, l)

LEMMA IdleIsCareful == Idle \in Careful /\ Idle.pc = "idle"
<1>1. <<>> \in Seq(OpenedJob)
  BY EmptySeq
<1>. QED  BY <1>1, IdleIsSound DEF Idle, Careful

LEMMA SellingIsCareful ==
  ASSUME NEW pc \in {"final", "fomo"}, NEW groups \in Seq(Entries), groups # <<>>
  PROVE  Selling(pc, groups) \in Careful
<1>1. <<>> \in Seq(OpenedJob)
  BY EmptySeq
<1>2. Selling(pc, groups) \in SoundTasks
  BY SellingIsSound
<1>. QED  BY <1>1, <1>2 DEF Selling, Careful

LEMMA QuotingIsCareful ==
  ASSUME NEW queue \in Seq(RecordedJob), queue # <<>>, NEW groups \in Seq(Entries),
         queue \in Seq(OpenedJob)
  PROVE  Quoting(queue, groups) \in Careful
<1>1. Quoting(queue, groups) \in SoundTasks
  BY QuotingIsSound
<1>. QED  BY <1>1 DEF Quoting, Careful

(* What was opened stays opened.                                           *)
LEMMA OpenedStays ==
  ASSUME IInv, [Next]_vars
  PROVE  \A row \in Rows : Opened(row) => Opened(row)'
<1>1. \A e \in Entries : fomoTrials[e] # "absent" => fomoTrials'[e] # "absent"
  <2>1. \/ UNCHANGED fomoTrials
        \/ \E e \in Entries : EnterFomo(e) \/ DemoteFomo(e)
    BY DEF Next, Step, Answer, UpdateRow, SettleLane, StartFinal, StartFomo, RetryPass, SellSignal,
       ClockReaches, StatusRead, Crash, durable, vars
  <2>2. fomoTrials \in [Entries -> {"absent", "entered", "demoted"}]
    BY DEF IInv, TypeOK
  <2>. QED  BY <2>1, <2>2 DEF EnterFomo, DemoteFomo
<1>2. \A row \in Rows : row[1] \in Entries
  BY DEF Rows
<1>. QED  BY <1>1, <1>2 DEF Opened

LEMMA CarefulStays ==
  ASSUME IInv, IInv', \A row \in Rows : Opened(row) => Opened(row)', NEW task \in Careful,
         task \in SoundTasks'
  PROVE  task \in Careful'
<1>1. OpenedJob \subseteq OpenedJob'
  BY DEF OpenedJob, Job
<1>2. Seq(OpenedJob) \subseteq Seq(OpenedJob')
  BY <1>1, SeqMonotonic
<1>. QED  BY <1>2 DEF Careful

(* The task that moves does so with care.                                  *)
MovesCarefully(t) == \E task \in Careful : tasks' = [tasks EXCEPT ![t] = task]

LEMMA MovesCareful ==
  ASSUME IInv, IInv', Carefully, \A row \in Rows : Opened(row) => Opened(row)',
         NEW t \in Tasks, MovesCarefully(t)
  PROVE  tasks' \in [Tasks -> Careful']
<1>1. PICK task \in Careful : tasks' = [tasks EXCEPT ![t] = task]
  BY DEF MovesCarefully
<1>2. \A u \in Tasks : tasks'[u] \in Careful
  BY <1>1 DEF Carefully
<1>3. tasks' \in [Tasks -> SoundTasks']
  BY DEF IInv
<1>4. ASSUME NEW u \in Tasks PROVE tasks'[u] \in Careful'
  BY <1>2, <1>3, CarefulStays
<1>. QED  BY <1>3, <1>4

LEMMA NextGroupCareful ==
  ASSUME IInv, NEW t \in Tasks, tasks[t].groups # <<>>, NextGroup(t)
  PROVE  MovesCarefully(t)
<1>1. tasks[t].groups \in Seq(Entries)
  BY DEF IInv, SoundTasks, TaskStates
<1>2. Tail(tasks[t].groups) \in Seq(Entries)
  BY <1>1, HeadTailProperties
<1>3. CASE Tail(tasks[t].groups) = <<>>
  BY <1>3, IdleIsCareful DEF NextGroup, MovesCarefully, Await
<1>4. CASE Tail(tasks[t].groups) # <<>>
  <2>1. Selling("final", Tail(tasks[t].groups)) \in Careful
    BY <1>2, <1>4, SellingIsCareful
  <2>. QED  BY <1>4, <2>1 DEF NextGroup, MovesCarefully, Keep
<1>. QED  BY <1>3, <1>4

LEMMA AfterAttemptCareful ==
  ASSUME IInv, Carefully, NEW t \in Tasks, tasks[t].pc \in {"update", "settle"}, AfterAttempt(t)
  PROVE  MovesCarefully(t)
<1>1. tasks[t].groups \in Seq(Entries)
  BY DEF IInv, SoundTasks, TaskStates
<1>2. CASE tasks[t].groups # <<>> /\ RowOf(t)[2] = "final"
  <2>1. Selling("fomo", tasks[t].groups) \in Careful
    BY <1>1, <1>2, SellingIsCareful
  <2>. QED  BY <1>2, <2>1 DEF AfterAttempt, MovesCarefully, Keep
<1>3. CASE tasks[t].groups # <<>> /\ RowOf(t)[2] # "final"
  BY <1>3, NextGroupCareful DEF AfterAttempt
<1>4. CASE tasks[t].groups = <<>> /\ Tail(tasks[t].queue) = <<>>
  BY <1>4, IdleIsCareful DEF AfterAttempt, MovesCarefully, Await
<1>5. CASE tasks[t].groups = <<>> /\ Tail(tasks[t].queue) # <<>>
  <2>1. Tail(tasks[t].queue) \in Seq(RecordedJob) /\ <<>> \in Seq(Entries)
        /\ tasks[t].queue # <<>>
    BY AttemptFacts, EmptySeq
  <2>2. tasks[t].queue \in Seq(OpenedJob)
    BY DEF Carefully, Careful
  <2>3. Tail(tasks[t].queue) \in Seq(OpenedJob)
    BY <2>1, <2>2, HeadTailProperties
  <2>4. Quoting(Tail(tasks[t].queue), <<>>) \in Careful
    BY <1>5, <2>1, <2>3, QuotingIsCareful
  <2>. QED  BY <1>5, <2>4 DEF AfterAttempt, MovesCarefully, Await
<1>. QED  BY <1>2, <1>3, <1>4, <1>5

LEMMA SellSignalCareful ==
  ASSUME IInv, NEW t \in Tasks, NEW some \in (SUBSET Unsold) \ {{}}, NEW order \in SetToSeqs(some),
         SellSignal(t, order)
  PROVE  MovesCarefully(t)
<1>. USE ExactExitAssumption
<1>1. some \in SUBSET Entries /\ some # {} /\ IsFiniteSet(some)
  <2>1. some \in SUBSET Entries /\ some # {}
    BY DEF Unsold
  <2>. QED  BY <2>1, FS_Subset
<1>2. Cardinality(some) \in Nat /\ Cardinality(some) # 0
  BY <1>1, FS_CardinalityType, FS_EmptySet
<1>3. order \in [1..Cardinality(some) -> some]
  BY DEF SetToSeqs
<1>4. order \in Seq(Entries) /\ order # <<>>
  BY <1>1, <1>2, <1>3
<1>5. Selling("final", order) \in Careful
  BY <1>4, SellingIsCareful
<1>. QED  BY <1>5 DEF SellSignal, Keep, MovesCarefully

LEMMA RetryPassCareful ==
  ASSUME IInv, Carefully, NEW t \in Tasks, RetryPass(t)
  PROVE  MovesCarefully(t)
<1>. USE ExactExitAssumption
<1>1. PICK order \in SetToSeqs(Retryable) :
        Await(t, Quoting([i \in DOMAIN order |->
                            [row |-> order[i], count |-> liquidations[order[i]].count]], <<>>))
  BY DEF RetryPass
<1>. DEFINE queue == [i \in DOMAIN order |->
                        [row |-> order[i], count |-> liquidations[order[i]].count]]
<1>2. Retryable \in SUBSET Rows /\ Retryable # {} /\ IsFiniteSet(Retryable)
  <2>1. Retryable \in SUBSET Rows /\ Retryable # {}
    BY DEF RetryPass, Retryable, IInv, TypeOK
  <2>2. IsFiniteSet(Scopes)
    <3>1. IsFiniteSet({"final"})
      BY FS_Singleton
    <3>2. IsFiniteSet({"final"} \cup {"fomo"})
      BY <3>1, FS_AddElement
    <3>3. {"final"} \cup {"fomo"} = Scopes
      BY DEF Scopes
    <3>. QED  BY <3>2, <3>3
  <2>3. IsFiniteSet(Rows)
    BY <2>2, FS_Product DEF Rows
  <2>. QED  BY <2>1, <2>3, FS_Subset
<1>3. Cardinality(Retryable) \in Nat /\ Cardinality(Retryable) # 0
  BY <1>2, FS_CardinalityType, FS_EmptySet
<1>4. order \in [1..Cardinality(Retryable) -> Retryable]
  BY DEF SetToSeqs
<1>5. ASSUME NEW row \in Retryable
      PROVE  [row |-> row, count |-> liquidations[row].count] \in RecordedJob \cap OpenedJob
  <2>1. row \in Rows /\ liquidations[row].status \in {"exit_due", "failed"}
    BY <1>2 DEF Retryable
  <2>2. liquidations[row].count \in 0..(MaxAttempts - 1)
    BY <2>1 DEF IInv, TypeOK, OpenRowsHaveAttempts
  <2>3. Opened(row)
    BY <2>1 DEF Carefully
  <2>4. [row |-> row, count |-> liquidations[row].count] \in RecordedJob
    BY <2>1, <2>2 DEF RecordedJob, Job, IInv, CountedAttemptsAreRecorded
  <2>5. [row |-> row, count |-> liquidations[row].count] \in OpenedJob
    BY <2>1, <2>2, <2>3 DEF OpenedJob, Job
  <2>. QED  BY <2>4, <2>5
<1>6. queue \in Seq(RecordedJob) /\ queue \in Seq(OpenedJob) /\ queue # <<>>
  <2>1. queue \in [1..Cardinality(Retryable) -> RecordedJob \cap OpenedJob]
    BY <1>3, <1>4, <1>5
  <2>. HIDE DEF queue
  <2>. QED  BY <1>3, <2>1
<1>. HIDE DEF queue
<1>7. Quoting(queue, <<>>) \in Careful
  <2>1. <<>> \in Seq(Entries)
    BY EmptySeq
  <2>. QED  BY <1>6, <2>1, QuotingIsCareful
<1>8. Await(t, Quoting(queue, <<>>))
  BY <1>1 DEF queue
<1>. QED  BY <1>7, <1>8 DEF Await, MovesCarefully

LEMMA AttemptIfDueCareful ==
  ASSUME IInv, Carefully, NEW t \in Tasks, NEW row \in Rows, Opened(row), AttemptIfDue(t, row)
  PROVE  MovesCarefully(t)
<1>. USE ExactExitAssumption
<1>1. PICK job : job = [row |-> row, count |-> Upserted(row).count]
  OBVIOUS
<1>2. Upserted(row).count \in 0..(MaxAttempts - 1)
      /\ \A n \in 1..Upserted(row).count : attempts[row][n] # "none"
  BY DEF AttemptIfDue, Upserted, IInv, TypeOK, OpenRowsHaveAttempts, CountedAttemptsAreRecorded
<1>3. job \in RecordedJob /\ job \in OpenedJob
  BY <1>1, <1>2 DEF RecordedJob, OpenedJob, Job
<1>4. <<job>> \in Seq(RecordedJob) /\ <<job>> \in Seq(OpenedJob) /\ <<job>> # <<>>
  BY <1>3
<1>5. tasks[t].groups \in Seq(Entries)
  BY DEF IInv, SoundTasks, TaskStates
<1>6. Quoting(<<job>>, tasks[t].groups) \in Careful
  BY <1>4, <1>5, QuotingIsCareful
<1>7. Await(t, Quoting(<<job>>, tasks[t].groups))
  BY <1>1 DEF AttemptIfDue
<1>. QED  BY <1>6, <1>7 DEF Await, MovesCarefully

LEMMA StartCareful ==
  ASSUME IInv, Carefully, NEW t \in Tasks, StartFinal(t) \/ StartFomo(t)
  PROVE  /\ MovesCarefully(t)
         /\ \A row \in Rows : \/ liquidations'[row] = liquidations[row]
                              \/ liquidations'[row].status = "exit_due" /\ Opened(row)
<1>1. tasks[t].pc \in {"final", "fomo"}
  BY DEF StartFinal, StartFomo
<1>2. tasks[t].groups \in Seq(Entries) /\ tasks[t].groups # <<>> /\ tasks[t] \in SoundTasks
      /\ tasks[t] \in Careful
  BY <1>1 DEF IInv, SoundTasks, TaskStates, Carefully
<1>3. Entry(t) \in Entries
  BY <1>2, HeadTailProperties DEF Entry
<1>4. PICK final : final = <<Entry(t), "final">>
  OBVIOUS
<1>5. PICK fomo : fomo = <<Entry(t), "fomo">>
  OBVIOUS
<1>6. final \in Rows /\ fomo \in Rows /\ final[2] = "final" /\ fomo[1] = Entry(t)
  BY <1>3, <1>4, <1>5 DEF Rows, Scopes
<1>7. ASSUME NEW row \in Rows, Opened(row), AttemptIfDue(t, row)
      PROVE  /\ MovesCarefully(t)
             /\ \A o \in Rows : \/ liquidations'[o] = liquidations[o]
                                \/ liquidations'[o].status = "exit_due" /\ Opened(o)
  <2>1. \A o \in Rows : o # row => liquidations'[o] = liquidations[o]
    BY <1>7 DEF AttemptIfDue, IInv, TypeOK
  <2>2. liquidations'[row] = Upserted(row) /\ Upserted(row).status = "exit_due"
    BY <1>7 DEF AttemptIfDue, IInv, TypeOK
  <2>. QED  BY <1>7, <2>1, <2>2, AttemptIfDueCareful
<1>8. CASE AttemptIfDue(t, final)
  BY <1>6, <1>7, <1>8 DEF Opened
<1>9. CASE fomoTrials[Entry(t)] = "entered" /\ AttemptIfDue(t, fomo)
  BY <1>6, <1>7, <1>9 DEF Opened
<1>10. CASE UNCHANGED liquidations /\ Keep(t, [tasks[t] EXCEPT !.pc = "fomo"])
  <2>1. [tasks[t] EXCEPT !.pc = "fomo"] \in TaskStates
    BY <1>2 DEF SoundTasks, TaskStates
  <2>2. [tasks[t] EXCEPT !.pc = "fomo"] \in Careful
    BY <1>2, <2>1 DEF Careful, SoundTasks, TaskStates
  <2>. QED  BY <1>10, <2>2 DEF Keep, MovesCarefully
<1>11. CASE UNCHANGED liquidations /\ NextGroup(t)
  BY <1>2, <1>11, NextGroupCareful
<1>12. \/ AttemptIfDue(t, final)
       \/ UNCHANGED liquidations /\ Keep(t, [tasks[t] EXCEPT !.pc = "fomo"])
       \/ fomoTrials[Entry(t)] = "entered" /\ AttemptIfDue(t, fomo)
       \/ UNCHANGED liquidations /\ NextGroup(t)
  BY <1>4, <1>5 DEF StartFinal, StartFomo
<1>. QED  BY <1>8, <1>9, <1>10, <1>11, <1>12

LEMMA UpdateRowCareful ==
  ASSUME IInv, Carefully, NEW t \in Tasks, UpdateRow(t)
  PROVE  MovesCarefully(t)
<1>1. tasks[t].pc = "update" /\ tasks[t] \in SoundTasks /\ tasks[t] \in Careful
  BY DEF UpdateRow, IInv, Carefully
<1>2. CASE AfterAttempt(t)
  BY <1>1, <1>2, AfterAttemptCareful
<1>3. CASE tasks[t].verdict \in Closed /\ Keep(t, [tasks[t] EXCEPT !.pc = "settle"])
  <2>1. [tasks[t] EXCEPT !.pc = "settle"] \in SoundTasks
    BY <1>1, <1>3 DEF SoundTasks, TaskStates, Closed
  <2>2. 1 \in LanesOf(Head(tasks[t].queue).row)
    BY ExactExitAssumption DEF LanesOf
  <2>3. [tasks[t] EXCEPT !.pc = "settle"] \in Careful
    BY <1>1, <2>1, <2>2 DEF Careful, SoundTasks, TaskStates
  <2>. QED  BY <1>3, <2>3 DEF Keep, MovesCarefully
<1>. QED  BY <1>2, <1>3 DEF UpdateRow

LEMMA SettleLaneCareful ==
  ASSUME IInv, Carefully, NEW t \in Tasks, SettleLane(t)
  PROVE  MovesCarefully(t)
<1>1. tasks[t].pc = "settle" /\ tasks[t] \in SoundTasks /\ tasks[t] \in Careful
  BY DEF SettleLane, IInv, Carefully
<1>2. CASE AfterAttempt(t)
  BY <1>1, <1>2, AfterAttemptCareful
<1>3. CASE Await(t, Idle)
  BY <1>3, IdleIsCareful DEF Await, MovesCarefully
<1>4. CASE /\ tasks[t].lane + 1 \in LanesOf(RowOf(t))
           /\ Keep(t, [tasks[t] EXCEPT !.lane = tasks[t].lane + 1])
  <2>1. [tasks[t] EXCEPT !.lane = tasks[t].lane + 1] \in SoundTasks
    BY <1>1 DEF SoundTasks, TaskStates
  <2>2. [tasks[t] EXCEPT !.lane = tasks[t].lane + 1] \in Careful
    BY <1>1, <1>4, <2>1 DEF Careful, SoundTasks, TaskStates, RowOf
  <2>. QED  BY <1>4, <2>2 DEF Keep, MovesCarefully
<1>. QED  BY <1>2, <1>3, <1>4 DEF SettleLane

LEMMA AnswerCareful ==
  ASSUME IInv, Carefully, NEW t \in Tasks, NEW executable \in BOOLEAN, Answer(t, executable), IInv'
  PROVE  /\ tasks' = [tasks EXCEPT ![t] = Judged(tasks[t], Verdict(Number(t), executable))]
         /\ tasks' \in [Tasks -> Careful']
<1>1. PICK v : v = Verdict(Number(t), executable)
  OBVIOUS
<1>2. tasks' = [tasks EXCEPT ![t] = Judged(tasks[t], v)] /\ UNCHANGED fomoTrials
  BY <1>1 DEF Answer, Keep
<1>3. OpenedJob' = OpenedJob
  BY <1>2 DEF OpenedJob, Opened
<1>4. tasks' \in [Tasks -> SoundTasks']
  BY DEF IInv
<1>5. \A u \in Tasks : tasks'[u] = IF u = t THEN Judged(tasks[t], v) ELSE tasks[u]
  BY <1>2 DEF Carefully
<1>6. ASSUME NEW u \in Tasks PROVE tasks'[u] \in Careful'
  <2>1. tasks[u] \in Careful /\ tasks[t] \in Careful /\ tasks'[u] \in SoundTasks'
    BY <1>4 DEF Carefully
  <2>2. CASE u # t
    BY <1>3, <1>5, <2>1, <2>2 DEF Careful
  <2>3. CASE u = t
    BY <1>3, <1>5, <2>1, <2>3 DEF Careful, Judged
  <2>. QED  BY <2>2, <2>3
<1>. QED  BY <1>1, <1>2, <1>4, <1>6

LEMMA CarefullyNext == IInv /\ Carefully /\ [Next]_vars => Carefully'
<1>. SUFFICES ASSUME IInv, Carefully, [Next]_vars PROVE Carefully'
  OBVIOUS
<1>1. IInv'
  BY NextIInv
<1>2. \A row \in Rows : Opened(row) => Opened(row)'
  BY OpenedStays
<1>3. crashes' \in Nat
  <2>1. Crash \/ UNCHANGED crashes
    BY DEF Next, Step, Answer, UpdateRow, SettleLane, StartFinal, StartFomo, RetryPass,
       SellSignal, ClockReaches, EnterFomo, DemoteFomo, StatusRead, vars
  <2>. QED  BY <2>1 DEF Carefully, Crash
<1>4. \A row \in Rows : liquidations'[row].status # "none" => Opened(row)'
  <2>1. CASE UNCHANGED liquidations
    BY <1>2, <2>1 DEF Carefully
  <2>2. ASSUME NEW t \in Tasks, UpdateRow(t)
        PROVE  \A row \in Rows : liquidations'[row].status # "none" => Opened(row)
    <3>1. tasks[t].pc = "update"
      BY <2>2 DEF UpdateRow
    <3>2. tasks[t].queue \in Seq(OpenedJob) /\ tasks[t].queue # <<>>
      BY <3>1, AttemptFacts DEF Carefully, Careful
    <3>3. Opened(RowOf(t))
      <4>1. Head(tasks[t].queue) \in OpenedJob
        BY <3>2, HeadTailProperties
      <4>. QED  BY <4>1 DEF OpenedJob, RowOf
    <3>4. \A row \in Rows : row # RowOf(t) => liquidations'[row] = liquidations[row]
      BY <2>2 DEF UpdateRow, IInv, TypeOK
    <3>. QED  BY <3>3, <3>4 DEF Carefully
  <2>3. ASSUME NEW t \in Tasks, StartFinal(t) \/ StartFomo(t)
        PROVE  \A row \in Rows : liquidations'[row].status # "none" => Opened(row)
    BY <2>3, StartCareful DEF Carefully
  <2>4. \/ UNCHANGED liquidations
        \/ \E t \in Tasks : UpdateRow(t) \/ StartFinal(t) \/ StartFomo(t)
    BY DEF Next, Step, Answer, SettleLane, RetryPass, SellSignal,
       ClockReaches, EnterFomo, DemoteFomo, StatusRead, Crash, durable, vars
  <2>. QED  BY <1>2, <2>1, <2>2, <2>3, <2>4
<1>5. tasks' \in [Tasks -> Careful']
  <2>1. ASSUME NEW t \in Tasks, MovesCarefully(t) PROVE tasks' \in [Tasks -> Careful']
    BY <1>1, <1>2, <2>1, MovesCareful
  <2>2. CASE UNCHANGED tasks
    <3>. QED  BY <1>1, <1>2, <2>2, CarefulStays DEF Carefully, IInv
  <2>3. CASE Crash
    <3>1. Idle \in Careful'
      <4>1. SoundTasks' = SoundTasks
        BY <2>3, SameSound DEF Crash, durable
      <4>. QED  BY <1>1, <1>2, <4>1, IdleIsCareful, IdleIsSound, CarefulStays
    <3>. QED  BY <2>3, <3>1 DEF Crash
  <2>4. ASSUME NEW t \in Tasks, NEW executable \in BOOLEAN, Answer(t, executable)
        PROVE  tasks' \in [Tasks -> Careful']
    BY <1>1, <2>4, AnswerCareful
  <2>5. ASSUME NEW t \in Observers, NEW some \in (SUBSET Unsold) \ {{}},
               NEW order \in SetToSeqs(some), SellSignal(t, order)
        PROVE  t \in Tasks /\ MovesCarefully(t)
    BY <2>5, SellSignalCareful DEF Tasks
  <2>6. \/ UNCHANGED tasks
        \/ Crash
        \/ \E t \in Tasks, executable \in BOOLEAN : Answer(t, executable)
        \/ \E t \in Tasks : UpdateRow(t) \/ SettleLane(t) \/ StartFinal(t) \/ StartFomo(t) \/ RetryPass(t)
        \/ \E t \in Observers, some \in (SUBSET Unsold) \ {{}} :
              \E order \in SetToSeqs(some) : SellSignal(t, order)
    BY DEF Next, Step, ClockReaches, EnterFomo, DemoteFomo, StatusRead, vars
  <2>. QED  BY <2>1, <2>2, <2>3, <2>4, <2>5, <2>6, UpdateRowCareful, SettleLaneCareful,
              StartCareful, RetryPassCareful
<1>. QED  BY <1>3, <1>4, <1>5 DEF Carefully

(* What a lane's settlement leaves behind.                                 *)
LEMMA SettleLaneMeasures ==
  ASSUME IInv, Carefully, NEW t \in Tasks, SettleLane(t), Entered(RowOf(t))
  PROVE  /\ tasks[t].lane \in LanesOf(RowOf(t))
         /\ outcomes'[RowOf(t)][tasks[t].lane].result # "none"
<1>1. /\ tasks[t].pc = "settle" /\ tasks[t] \in Careful /\ tasks[t] \in TaskStates
      /\ RowOf(t) \in Rows
  BY AttemptFacts DEF SettleLane, Carefully, Careful, SoundTasks
<1>2. PICK row \in Rows : row = RowOf(t)
  BY <1>1
<1>3. tasks[t].lane \in LanesOf(row)
  BY <1>1, <1>2 DEF Careful, RowOf
<1>4. PICK lane \in LanesOf(row) : lane = tasks[t].lane
  BY <1>3
<1>5. PICK m : m = Measured(outcomes[row][lane], t)
  OBVIOUS
<1>6. outcomes' = [outcomes EXCEPT ![row][lane] = m]
  BY <1>2, <1>4, <1>5 DEF SettleLane, Entered
<1>7. outcomes[row] \in [LanesOf(row) -> Outcome]
  BY DEF IInv, TypeOK, Outcome
<1>8. outcomes'[row][lane] = m
  BY <1>6, <1>7 DEF IInv
<1>9. m.result # "none"
  BY <1>1, <1>5 DEF Measured, TaskStates, Verdicts, Closed
<1>. QED  BY <1>2, <1>4, <1>8, <1>9

LEMMA OutcomesGrow ==
  ASSUME IInv, [Next]_vars, NEW row \in Rows, NEW l \in LanesOf(row), outcomes[row][l].result # "none"
  PROVE  outcomes'[row][l].result # "none"
<1>1. CASE UNCHANGED outcomes
  BY <1>1
<1>2. ASSUME NEW t \in Tasks, SettleLane(t) PROVE outcomes'[row][l].result # "none"
  <2>1. \/ outcomes'[row][l] = outcomes[row][l]
        \/ outcomes'[row][l] = Measured(outcomes[row][l], t)
    BY <1>2, SettleLaneWrites
  <2>. QED  BY <2>1 DEF Measured
<1>3. ASSUME NEW e \in Entries, StatusRead(e) PROVE outcomes'[row][l].result # "none"
  BY <1>3, StatusReadWrites
<1>4. \/ UNCHANGED outcomes
      \/ \E t \in Tasks : SettleLane(t)
      \/ \E e \in Entries : StatusRead(e)
  BY DEF Next, Step, Answer, UpdateRow, StartFinal, StartFomo, RetryPass, SellSignal,
     ClockReaches, EnterFomo, DemoteFomo, Crash, durable, vars
<1>. QED  BY <1>1, <1>2, <1>3, <1>4

(* A step of a task that is not settling takes no other task off its way.  *)
LEMMA OthersGoOn ==
  ASSUME IInv, NEW t \in Tasks, tasks[t].pc # "settle",
         \A u \in Tasks : u # t => tasks'[u] = tasks[u],
         NEW row, NEW l, OnItsWay(row, l)
  PROVE  OnItsWay(row, l)'
BY DEF OnItsWay, RowOf

LEMMA ClosedNext ==
  IInv /\ Carefully /\ ClosedExitsAreMeasured /\ [Next]_vars => ClosedExitsAreMeasured'
<1>. SUFFICES ASSUME IInv, Carefully, ClosedExitsAreMeasured, [Next]_vars, crashes' = 0,
                     NEW row \in Rows, liquidations'[row].status \in Closed, Entered(row)',
                     NEW l \in LanesOf(row), outcomes'[row][l].result = "none"
              PROVE  OnItsWay(row, l)'
  BY DEF ClosedExitsAreMeasured, OnItsWay
<1>. USE ExactExitAssumption
<1>1. crashes = 0
  <2>1. Crash \/ UNCHANGED crashes
    BY DEF Next, Step, Answer, UpdateRow, SettleLane, StartFinal, StartFomo, RetryPass,
       SellSignal, ClockReaches, EnterFomo, DemoteFomo, StatusRead, vars
  <2>. QED  BY <2>1 DEF Carefully, Crash
<1>2. ~ Crash
  BY <1>1 DEF Crash
<1>3. l \in Nat /\ 1 <= l
  BY DEF LanesOf
<1>4. outcomes[row][l].result = "none"
  BY OutcomesGrow
<1>5. row[1] \in Entries
  BY DEF Rows
<1>6. ASSUME liquidations[row].status \in Closed PROVE OnItsWay(row, l)
  <2>1. Entered(row)
    <3>1. liquidations[row].status # "none"
      BY <1>6 DEF Closed
    <3>2. Opened(row)
      BY <3>1 DEF Carefully
    <3>3. \/ UNCHANGED fomoTrials
          \/ \E e \in Entries : EnterFomo(e) \/ DemoteFomo(e)
      BY DEF Next, Step, Answer, UpdateRow, SettleLane, StartFinal, StartFomo, RetryPass, SellSignal,
         ClockReaches, StatusRead, Crash, durable, vars
    <3>4. fomoTrials \in [Entries -> {"absent", "entered", "demoted"}]
      BY DEF IInv, TypeOK
    <3>. QED  BY <1>5, <3>2, <3>3, <3>4 DEF Opened, Entered, EnterFomo, DemoteFomo
  <2>. QED  BY <1>1, <1>4, <1>6, <2>1 DEF ClosedExitsAreMeasured, OnItsWay
<1>7. ASSUME UNCHANGED liquidations, NEW t \in Tasks, tasks[t].pc # "settle",
             \A u \in Tasks : u # t => tasks'[u] = tasks[u]
      PROVE  OnItsWay(row, l)'
  BY <1>6, <1>7, OthersGoOn
<1>8. ASSUME NEW t \in Tasks, UpdateRow(t) PROVE OnItsWay(row, l)'
  <2>1. /\ tasks[t].pc = "update" /\ tasks[t] \in Careful /\ tasks[t] \in TaskStates
        /\ RowOf(t) \in Rows /\ tasks \in [Tasks -> Careful]
    BY <1>8, AttemptFacts DEF UpdateRow, Carefully, Careful, SoundTasks
  <2>2. \A u \in Tasks : u # t => tasks'[u] = tasks[u]
    BY <1>8, <2>1, UpdateRowCareful DEF MovesCarefully
  <2>3. CASE row # RowOf(t)
    <3>1. liquidations'[row] = liquidations[row]
      BY <1>8, <2>3 DEF UpdateRow, IInv, TypeOK
    <3>2. OnItsWay(row, l)
      BY <1>6, <3>1
    <3>. QED  BY <2>1, <2>2, <3>2, OthersGoOn
  <2>4. CASE row = RowOf(t)
    <3>1. liquidations'[row].status = tasks[t].verdict
      BY <1>8, <2>4 DEF UpdateRow, IInv, TypeOK
    <3>2. Keep(t, [tasks[t] EXCEPT !.pc = "settle"])
      BY <1>8, <3>1 DEF UpdateRow
    <3>3. tasks'[t] = [tasks[t] EXCEPT !.pc = "settle"]
      BY <2>1, <3>2 DEF Keep
    <3>4. tasks'[t].pc = "settle" /\ tasks'[t].queue = tasks[t].queue /\ tasks'[t].lane = 1
      BY <2>1, <3>3 DEF Careful, TaskStates
    <3>. QED  BY <1>3, <2>4, <3>4 DEF OnItsWay, RowOf
  <2>. QED  BY <2>3, <2>4
<1>9. ASSUME NEW t \in Tasks, SettleLane(t) PROVE OnItsWay(row, l)'
  <2>1. /\ tasks[t].pc = "settle" /\ tasks[t] \in Careful /\ tasks[t] \in TaskStates
        /\ RowOf(t) \in Rows /\ tasks \in [Tasks -> Careful] /\ running = {t}
        /\ UNCHANGED liquidations /\ UNCHANGED fomoTrials
    BY <1>9, AttemptFacts DEF SettleLane, Carefully, Careful, SoundTasks
  <2>2. PICK u \in Tasks : tasks[u].pc = "settle" /\ RowOf(u) = row /\ tasks[u].lane <= l
    BY <1>6, <2>1 DEF OnItsWay
  <2>3. u = t
    BY <2>1, <2>2 DEF IInv, TypeOK
  <2>4. Entered(RowOf(t))
    BY <2>1, <2>2, <2>3 DEF Entered
  <2>5. tasks[t].lane \in LanesOf(row) /\ tasks[t].lane # l
    BY <1>9, <2>2, <2>3, <2>4, SettleLaneMeasures
  <2>6. tasks[t].lane + 1 \in LanesOf(row) /\ tasks[t].lane + 1 <= l
    BY <1>3, <2>2, <2>3, <2>5 DEF LanesOf
  <2>7. Keep(t, [tasks[t] EXCEPT !.lane = tasks[t].lane + 1])
    BY <1>9, <2>2, <2>3, <2>6 DEF SettleLane
  <2>8. tasks'[t] = [tasks[t] EXCEPT !.lane = tasks[t].lane + 1]
    BY <2>1, <2>7 DEF Keep
  <2>9. /\ tasks'[t].pc = "settle" /\ tasks'[t].queue = tasks[t].queue
        /\ tasks'[t].lane = tasks[t].lane + 1
    BY <2>1, <2>8 DEF TaskStates
  <2>. QED  BY <2>2, <2>3, <2>6, <2>9 DEF OnItsWay, RowOf
<1>10. ASSUME NEW t \in Tasks, StartFinal(t) \/ StartFomo(t) PROVE OnItsWay(row, l)'
  <2>1. tasks[t].pc # "settle" /\ MovesCarefully(t)
    BY <1>10, StartCareful DEF StartFinal, StartFomo
  <2>2. \A u \in Tasks : u # t => tasks'[u] = tasks[u]
    BY <2>1 DEF MovesCarefully, Carefully
  <2>3. OnItsWay(row, l)
    BY <1>6, <1>10, StartCareful DEF Closed
  <2>. QED  BY <2>1, <2>2, <2>3, OthersGoOn
<1>11. ASSUME NEW t \in Tasks, NEW executable \in BOOLEAN, Answer(t, executable)
       PROVE  OnItsWay(row, l)'
  BY <1>7, <1>11 DEF Answer, Keep, Carefully
<1>12. ASSUME NEW t \in Tasks, RetryPass(t) PROVE OnItsWay(row, l)'
  BY <1>7, <1>12, RetryPassCareful DEF RetryPass, durable, MovesCarefully, Carefully
<1>13. ASSUME NEW t \in Observers, NEW order, SellSignal(t, order)
       PROVE  OnItsWay(row, l)'
  <2>1. t \in Tasks
    BY DEF Tasks
  <2>. QED  BY <1>7, <1>13, <2>1 DEF SellSignal, Keep, durable, Carefully
<1>14. CASE UNCHANGED <<liquidations, tasks>>
  BY <1>6, <1>14 DEF OnItsWay, RowOf
<1>15. \/ UNCHANGED <<liquidations, tasks>>
       \/ \E t \in Tasks, executable \in BOOLEAN : Answer(t, executable)
       \/ \E t \in Tasks : UpdateRow(t) \/ SettleLane(t) \/ StartFinal(t) \/ StartFomo(t) \/ RetryPass(t)
       \/ \E t \in Observers : \E order : SellSignal(t, order)
  BY <1>2 DEF Next, Step, ClockReaches, EnterFomo, DemoteFomo, StatusRead, vars
<1>. QED  BY <1>8, <1>9, <1>10, <1>11, <1>12, <1>13, <1>14, <1>15

(* Only the loss of the process leaves a closed exit unmeasured.           *)
THEOREM ClosedMeansMeasured == Spec => []ClosedExitsAreMeasured
<1>1. Init => Carefully
  BY IdleIsCareful DEF Init, Carefully
<1>2. Init => ClosedExitsAreMeasured
  BY DEF Init, ClosedExitsAreMeasured, Closed
<1>. QED  BY <1>1, <1>2, CarefullyNext, ClosedNext, SpecIInv, PTL DEF Spec
=============================================================================

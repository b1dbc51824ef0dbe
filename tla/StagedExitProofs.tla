-------------------------- MODULE StagedExitProofs --------------------------
(***************************************************************************)
(* Proofs about StagedExit, for any positions, amounts, exit profile and   *)
(* number of sells and of losses of the process.                           *)
(***************************************************************************)
EXTENDS StagedExit, FiniteSetTheorems, SequenceTheorems, TLAPS

MaxSold == TotalRaw * Cardinality(Sells)

TaskStates ==
  [pc : {"unseen", "consider", "quote", "final", "leads", "v5", "done"}, queue : Seq(Positions),
   raw : 0..TotalRaw, stage : 0..3, urgent : BOOLEAN, counted : 0..MaxSold]

Busy       == {"consider", "quote", "final", "leads", "v5"}
Finishing  == {"final", "leads", "v5"}

(* A sell considers each position once, and has sold nothing of those it   *)
(* has yet to book.                                                        *)
QueuesAreUnsold ==
  \A t \in Sells :
    /\ tasks[t].pc \in Busy => tasks[t].queue # <<>>
    /\ \A i, j \in 1..Len(tasks[t].queue) : i # j => tasks[t].queue[i] # tasks[t].queue[j]
    /\ \A i \in 1..Len(tasks[t].queue) :
         i > 1 \/ tasks[t].pc \in {"consider", "quote"} => fills[tasks[t].queue[i]][t] = 0
    /\ tasks[t].pc = "unseen" => \A p \in Positions : fills[p][t] = 0

UnopenedAreWhole ==
  \A p \in Positions :
    ~lifecycle[p].opened => lifecycle[p] = NoLifecycle /\ \A t \in Sells : fills[p][t] = 0

(* What a sell that is quoting, or finalising, knows of its position.      *)
Carries(t) ==
  LET p == Position(t)
  IN  /\ tasks[t].pc = "quote" => tasks[t].raw > 0 /\ lifecycle[p].opened
      /\ tasks[t].pc \in Finishing => lifecycle[p].opened /\ fills[p][t] > 0
      /\ tasks[t].pc \in {"leads", "v5"} => tasks[t].counted > 0

Complete(p) == leads[p] # Unmeasured /\ v5[p] # Unmeasured

(* An exit that was counted is measured in full before another sell books  *)
(* anything, unless the process was lost in between, and no sell is        *)
(* quoting then.                                                           *)
CountedAreComplete ==
  /\ \A p \in Positions : final[p] # Unmeasured => lifecycle[p].opened /\ lifecycle[p].remaining = 0
  /\ \A t \in Sells :
       LET p == Position(t)
       IN  /\ tasks[t].pc = "quote" /\ final[p] # Unmeasured =>
                Complete(p) \/ \E u \in running : /\ tasks[u].pc \in {"leads", "v5"}
                                                 /\ Position(u) = p
           /\ tasks[t].pc = "final" /\ final[p] # Unmeasured => Complete(p)
           /\ tasks[t].pc \in {"leads", "v5"} => final[p] = tasks[t].counted \/ Complete(p)
           /\ tasks[t].pc = "v5" => leads[p] # Unmeasured

SpentAreBeingMeasured ==
  crashes = 0 =>
    \A p \in Positions :
      lifecycle[p].opened /\ lifecycle[p].remaining = 0 =>
        v5[p] # Unmeasured \/ \E u \in running : tasks[u].pc \in Finishing /\ Position(u) = p

(* The inductive invariant.                                                *)
IInv ==
  /\ TypeOK
  /\ tasks \in [Sells -> TaskStates]
  /\ QueuesAreUnsold
  /\ UnopenedAreWhole
  /\ \A t \in Sells : Carries(t)
  /\ RemainingIsAccounted
  /\ MeasurementsAgree
  /\ CountedAreComplete
  /\ SpentAreBeingMeasured
  /\ crashes \in Nat

-----------------------------------------------------------------------------
LEMMA MaxOfZeroAnd ==
  ASSUME NEW x \in Int
  PROVE  Max({0, x}) = IF x > 0 THEN x ELSE 0
BY DEF Max

LEMMA MinOfThree ==
  ASSUME NEW a \in Nat, NEW b \in Nat, NEW c \in Nat
  PROVE  /\ Min({a, b, c}) \in {a, b, c}
         /\ Min({a, b, c}) <= a
<1>1. \E x \in {a, b, c} : \A y \in {a, b, c} : x <= y
  <2>1. CASE a <= b /\ a <= c
    BY <2>1
  <2>2. CASE b <= a /\ b <= c
    BY <2>2
  <2>3. CASE c <= a /\ c <= b
    BY <2>3
  <2>. QED  BY <2>1, <2>2, <2>3
<1>2. /\ Min({a, b, c}) \in {a, b, c}
      /\ \A y \in {a, b, c} : Min({a, b, c}) <= y
  BY <1>1 DEF Min
<1>. QED  BY <1>2

(* A slice is part of what the sell read.                                  *)
LEMMA SliceFits ==
  ASSUME NEW l \in Lifecycle, NEW urgent \in BOOLEAN
  PROVE  /\ Slice(l, urgent) \in 0..l.remaining
         /\ Slice(l, urgent) > 0 => NextStage(l, urgent) \in 0..3
<1>. USE StagedExitAssumption
<1>1. l.remaining \in 0..TotalRaw /\ l.stage \in 0..3
  BY DEF Lifecycle
<1>2. AboveRunner(l) \in Nat
  BY <1>1 DEF AboveRunner
<1>3. Min({l.remaining, FirstRaw, AboveRunner(l)}) \in 0..l.remaining
  BY <1>1, <1>2, MinOfThree
<1>4. Max({1, SecondRaw, AboveRunner(l)}) \in Nat
  <2>1. \E x \in {1, SecondRaw, AboveRunner(l)} : \A y \in {1, SecondRaw, AboveRunner(l)} : x >= y
    <3>1. CASE 1 >= SecondRaw /\ 1 >= AboveRunner(l)
      BY <1>2, <3>1
    <3>2. CASE SecondRaw >= 1 /\ SecondRaw >= AboveRunner(l)
      BY <1>2, <3>2
    <3>3. CASE AboveRunner(l) >= 1 /\ AboveRunner(l) >= SecondRaw
      BY <1>2, <3>3
    <3>. QED  BY <1>2, <3>1, <3>2, <3>3
  <2>2. Max({1, SecondRaw, AboveRunner(l)}) \in {1, SecondRaw, AboveRunner(l)}
    BY <2>1 DEF Max
  <2>. QED  BY <1>2, <2>2
<1>5. Min({l.remaining, Max({1, SecondRaw, AboveRunner(l)}), AboveRunner(l)}) \in 0..l.remaining
  <2>1. PICK m \in Nat : m = Max({1, SecondRaw, AboveRunner(l)})
    BY <1>4
  <2>2. PICK a \in Nat : a = AboveRunner(l)
    BY <1>2
  <2>3. PICK r \in Nat : r = l.remaining
    BY <1>1
  <2>4. Min({r, m, a}) \in 0..r
    BY MinOfThree
  <2>. QED  BY <2>1, <2>2, <2>3, <2>4
<1>. QED  BY <1>1, <1>3, <1>5 DEF Slice, NextStage

-----------------------------------------------------------------------------
(* The units sold are counted by sell.                                     *)
LEMMA UnitsFinite ==
  ASSUME NEW sales \in [Sells -> 0..TotalRaw]
  PROVE  /\ IsFiniteSet(UnitsSold(sales))
         /\ Cardinality(UnitsSold(sales)) \in 0..MaxSold
<1>. USE StagedExitAssumption
<1>1. IsFiniteSet(1..TotalRaw) /\ Cardinality(1..TotalRaw) = TotalRaw
  BY FS_Interval
<1>2. /\ IsFiniteSet(Sells \X (1..TotalRaw))
      /\ Cardinality(Sells \X (1..TotalRaw)) = Cardinality(Sells) * TotalRaw
  BY <1>1, FS_Product
<1>3. UnitsSold(sales) \in SUBSET (Sells \X (1..TotalRaw))
  BY DEF UnitsSold
<1>4. /\ IsFiniteSet(UnitsSold(sales))
      /\ Cardinality(UnitsSold(sales)) <= Cardinality(Sells \X (1..TotalRaw))
  BY <1>2, <1>3, FS_Subset
<1>5. Cardinality(UnitsSold(sales)) \in Nat /\ Cardinality(Sells) \in Nat
  BY <1>4, FS_CardinalityType
<1>. QED  BY <1>2, <1>4, <1>5 DEF MaxSold

LEMMA SaleAdds ==
  ASSUME NEW sales \in [Sells -> 0..TotalRaw], NEW t \in Sells, sales[t] = 0,
         NEW raw \in 0..TotalRaw
  PROVE  Cardinality(UnitsSold([sales EXCEPT ![t] = raw])) = Cardinality(UnitsSold(sales)) + raw
<1>. USE StagedExitAssumption
<1>. DEFINE own == {t} \X (1..raw)
<1>1. UnitsSold([sales EXCEPT ![t] = raw]) = UnitsSold(sales) \cup own
  BY DEF UnitsSold
<1>2. UnitsSold(sales) \cap own = {}
  BY DEF UnitsSold
<1>3. IsFiniteSet(own) /\ Cardinality(own) = raw
  <2>1. IsFiniteSet({t}) /\ Cardinality({t}) = 1
    BY FS_Singleton
  <2>0. 1 \in Int /\ raw \in Int
    OBVIOUS
  <2>2. IsFiniteSet(1..raw) /\ Cardinality(1..raw) = IF 1 > raw THEN 0 ELSE raw - 1 + 1
    BY <2>0, FS_Interval
  <2>3. IsFiniteSet(own) /\ Cardinality(own) = Cardinality({t}) * Cardinality(1..raw)
    BY <2>1, <2>2, FS_Product
  <2>. QED  BY <2>1, <2>2, <2>3
<1>4. Cardinality(UnitsSold(sales) \cap own) = 0
  BY <1>2, FS_EmptySet
<1>7. /\ Cardinality(UnitsSold([sales EXCEPT ![t] = raw])) = Cardinality(UnitsSold(sales) \cup own)
      /\ Cardinality(own) = raw
  BY <1>1, <1>3
<1>. HIDE DEF own
<1>5. Cardinality(UnitsSold(sales) \cup own)
        = Cardinality(UnitsSold(sales)) + Cardinality(own) - Cardinality(UnitsSold(sales) \cap own)
  BY <1>3, UnitsFinite, FS_Union
<1>6. Cardinality(UnitsSold(sales)) \in Nat
  BY UnitsFinite
<1>. QED  BY <1>4, <1>5, <1>6, <1>7

LEMMA SaleIsSold ==
  ASSUME NEW sales \in [Sells -> 0..TotalRaw], NEW t \in Sells, sales[t] > 0
  PROVE  Cardinality(UnitsSold(sales)) > 0
<1>1. <<t, 1>> \in UnitsSold(sales)
  BY StagedExitAssumption DEF UnitsSold
<1>2. Cardinality(UnitsSold(sales)) # 0
  BY <1>1, UnitsFinite, FS_EmptySet
<1>. QED  BY <1>2, UnitsFinite DEF MaxSold

LEMMA NothingSold ==
  ASSUME NEW sales, \A t \in Sells : sales[t] = 0
  PROVE  Cardinality(UnitsSold(sales)) = 0
<1>1. UnitsSold(sales) = {}
  BY DEF UnitsSold
<1>. QED  BY <1>1, FS_EmptySet

-----------------------------------------------------------------------------
(* At most one sell is past its awaits.                                    *)
LEMMA OthersWait ==
  ASSUME IInv, NEW t \in Sells, running = {t} \/ running = {}, NEW u \in Sells, u # t \/ running = {}
  PROVE  tasks[u].pc \in {"unseen", "quote", "done"}
BY DEF IInv, TypeOK

(* A sell that looks at a position has it in its queue.                    *)
LEMMA PositionIsQueued ==
  ASSUME IInv, NEW t \in Sells, tasks[t].pc \in Busy
  PROVE  /\ tasks[t] \in TaskStates
         /\ tasks[t].queue \in Seq(Positions)
         /\ tasks[t].queue # <<>>
         /\ 1 \in 1..Len(tasks[t].queue)
         /\ Position(t) = tasks[t].queue[1]
         /\ Position(t) \in Positions
<1>1. tasks[t] \in TaskStates /\ tasks[t].queue \in Seq(Positions) /\ tasks[t].queue # <<>>
  BY DEF IInv, QueuesAreUnsold, TaskStates
<1>. QED  BY <1>1 DEF Position

(* What a sell goes on with when it is through with a position.            *)
Moves(t, task) ==
  /\ task \in TaskStates
  /\ tasks' = [tasks EXCEPT ![t] = task]
  /\ task.pc \in {"consider", "done"}
  /\ running' = IF task.pc = "done" THEN {} ELSE {t}
  /\ task.pc = "consider" => task.queue # <<>>
  /\ Len(task.queue) \in Nat
  /\ Len(task.queue) < Len(tasks[t].queue)
  /\ \A i \in 1..Len(task.queue) :
       i + 1 \in 1..Len(tasks[t].queue) /\ task.queue[i] = tasks[t].queue[i + 1]

LEMMA NextPositionMoves ==
  ASSUME IInv, NEW t \in Sells, tasks[t].pc \in Busy, NextPosition(t)
  PROVE  \E task \in TaskStates : Moves(t, task)
<1>. USE StagedExitAssumption
<1>1. tasks[t].queue \in Seq(Positions) /\ tasks[t].queue # <<>>
  BY PositionIsQueued
<1>2. PICK q \in Seq(Positions) : q = tasks[t].queue
  BY <1>1
<1>3. /\ Tail(q) \in Seq(Positions)
      /\ Len(q) \in Nat \ {0}
      /\ Len(Tail(q)) = Len(q) - 1
      /\ \A i \in 1..Len(Tail(q)) : i + 1 \in 1..Len(q) /\ Tail(q)[i] = q[i + 1]
  BY <1>1, <1>2
<1>4. MaxSold \in Nat
  BY FS_CardinalityType DEF MaxSold
<1>5. CASE Tail(q) = <<>>
  <2>1. Done = [pc |-> "done", queue |-> <<>>, raw |-> 0, stage |-> 0, urgent |-> FALSE, counted |-> 0]
    BY DEF Done, Idle
  <2>2. Done \in TaskStates
    BY <2>1, <1>4, EmptySeq DEF TaskStates
  <2>3. Len(Done.queue) = 0 /\ Done.pc = "done"
    BY <2>1
  <2>4. tasks' = [tasks EXCEPT ![t] = Done] /\ running' = {}
    BY <1>2, <1>5 DEF NextPosition, Await
  <2>5. Moves(t, Done)
    BY <1>2, <1>3, <2>2, <2>3, <2>4 DEF Moves
  <2>. QED  BY <2>2, <2>5
<1>6. CASE Tail(q) # <<>>
  <2>1. Considering(Tail(q)) \in TaskStates
    BY <1>3, <1>4 DEF Considering, TaskStates
  <2>2. tasks' = [tasks EXCEPT ![t] = Considering(Tail(q))] /\ running' = {t}
    BY <1>2, <1>6 DEF NextPosition, Keep
  <2>3. Considering(Tail(q)).pc = "consider" /\ Considering(Tail(q)).queue = Tail(q)
    BY DEF Considering
  <2>4. PICK k \in TaskStates : k = Considering(Tail(q))
    BY <2>1
  <2>5. /\ k.pc = "consider" /\ k.queue = Tail(q) /\ k.queue # <<>>
        /\ tasks' = [tasks EXCEPT ![t] = k] /\ running' = {t}
    BY <1>6, <2>2, <2>3, <2>4
  <2>6. /\ Len(k.queue) \in Nat
        /\ Len(k.queue) < Len(tasks[t].queue)
        /\ \A i \in 1..Len(k.queue) :
             i + 1 \in 1..Len(tasks[t].queue) /\ k.queue[i] = tasks[t].queue[i + 1]
    BY <1>2, <1>3, <2>5
  <2>7. Moves(t, k)
    BY <2>5, <2>6 DEF Moves
  <2>. QED  BY <2>7
<1>. QED  BY <1>5, <1>6

(* The queues after a sell moved on: its next positions are still unsold.  *)
LEMMA MovedQueues ==
  ASSUME IInv, NEW t \in Sells, tasks[t].pc \in Busy, NEW task, Moves(t, task),
         \A p \in Positions, u \in Sells :
           u # t \/ p # Position(t) => fills'[p][u] = fills[p][u]
  PROVE  QueuesAreUnsold'
<1>. USE DEF Busy
<1>1. tasks[t].queue \in Seq(Positions) /\ Position(t) = tasks[t].queue[1] /\ 1 \in 1..Len(tasks[t].queue)
  BY PositionIsQueued
<1>2. tasks'[t] = task /\ \A u \in Sells : u # t => tasks'[u] = tasks[u]
  BY DEF Moves, IInv
<1>3. ASSUME NEW u \in Sells, u # t
      PROVE  /\ tasks'[u].pc \in Busy => tasks'[u].queue # <<>>
             /\ \A i, j \in 1..Len(tasks'[u].queue) : i # j => tasks'[u].queue[i] # tasks'[u].queue[j]
             /\ \A i \in 1..Len(tasks'[u].queue) :
                  i > 1 \/ tasks'[u].pc \in {"consider", "quote"} => fills'[tasks'[u].queue[i]][u] = 0
             /\ tasks'[u].pc = "unseen" => \A p \in Positions : fills'[p][u] = 0
  <2>1. tasks'[u] = tasks[u] /\ tasks[u].queue \in Seq(Positions)
    BY <1>2, <1>3 DEF IInv, TaskStates
  <2>2. \A p \in Positions : fills'[p][u] = fills[p][u]
    BY <1>3
  <2>3. \A i \in 1..Len(tasks[u].queue) : tasks[u].queue[i] \in Positions
    BY <2>1
  <2>. QED  BY <2>1, <2>2, <2>3 DEF IInv, QueuesAreUnsold
<1>4. /\ task.pc \in Busy => task.queue # <<>>
      /\ task.pc # "unseen"
  BY DEF Moves
<1>5. \A i, j \in 1..Len(task.queue) : i # j => task.queue[i] # task.queue[j]
  <2>1. SUFFICES ASSUME NEW i \in 1..Len(task.queue), NEW j \in 1..Len(task.queue), i # j
                 PROVE  task.queue[i] # task.queue[j]
    OBVIOUS
  <2>2. /\ i \in Int /\ j \in Int /\ i + 1 # j + 1
        /\ i + 1 \in 1..Len(tasks[t].queue) /\ task.queue[i] = tasks[t].queue[i + 1]
        /\ j + 1 \in 1..Len(tasks[t].queue) /\ task.queue[j] = tasks[t].queue[j + 1]
    BY <2>1 DEF Moves
  <2>. QED  BY <2>2 DEF IInv, QueuesAreUnsold
<1>6. \A i \in 1..Len(task.queue) : fills'[task.queue[i]][t] = 0
  <2>1. SUFFICES ASSUME NEW i \in 1..Len(task.queue)
                 PROVE  fills'[task.queue[i]][t] = 0
    OBVIOUS
  <2>2. /\ i \in Int /\ i + 1 # 1 /\ i + 1 > 1
        /\ i + 1 \in 1..Len(tasks[t].queue) /\ task.queue[i] = tasks[t].queue[i + 1]
    BY DEF Moves
  <2>3. fills[tasks[t].queue[i + 1]][t] = 0 /\ tasks[t].queue[i + 1] # tasks[t].queue[1]
    BY <1>1, <2>2 DEF IInv, QueuesAreUnsold
  <2>4. tasks[t].queue[i + 1] \in Positions
    BY <1>1, <2>2
  <2>. QED  BY <1>1, <2>2, <2>3, <2>4
<1>. QED  BY <1>2, <1>3, <1>4, <1>5, <1>6 DEF QueuesAreUnsold

(* The queues after a sell went on with the same position.                 *)
LEMMA SameQueues ==
  ASSUME IInv, NEW t \in Sells, tasks[t].pc \in Busy, NEW task \in TaskStates,
         tasks' = [tasks EXCEPT ![t] = task], task.queue = tasks[t].queue,
         task.pc \in Finishing \cup {"quote"},
         task.pc = "quote" => tasks[t].pc = "consider" /\ fills' = fills,
         \A p \in Positions, u \in Sells :
           u # t \/ p # Position(t) => fills'[p][u] = fills[p][u]
  PROVE  QueuesAreUnsold'
<1>. USE DEF Busy, Finishing
<1>1. tasks[t].queue \in Seq(Positions) /\ Position(t) = tasks[t].queue[1] /\ tasks[t].queue # <<>>
      /\ 1 \in 1..Len(tasks[t].queue)
  BY PositionIsQueued
<1>2. tasks'[t] = task /\ \A u \in Sells : u # t => tasks'[u] = tasks[u]
  BY DEF IInv
<1>3. ASSUME NEW u \in Sells, u # t
      PROVE  /\ tasks'[u].pc \in Busy => tasks'[u].queue # <<>>
             /\ \A i, j \in 1..Len(tasks'[u].queue) : i # j => tasks'[u].queue[i] # tasks'[u].queue[j]
             /\ \A i \in 1..Len(tasks'[u].queue) :
                  i > 1 \/ tasks'[u].pc \in {"consider", "quote"} => fills'[tasks'[u].queue[i]][u] = 0
             /\ tasks'[u].pc = "unseen" => \A p \in Positions : fills'[p][u] = 0
  <2>1. tasks'[u] = tasks[u] /\ tasks[u].queue \in Seq(Positions)
    BY <1>2, <1>3 DEF IInv, TaskStates
  <2>2. \A p \in Positions : fills'[p][u] = fills[p][u]
    BY <1>3
  <2>3. \A i \in 1..Len(tasks[u].queue) : tasks[u].queue[i] \in Positions
    BY <2>1
  <2>. QED  BY <2>1, <2>2, <2>3 DEF IInv, QueuesAreUnsold
<1>4. \A i \in 1..Len(task.queue) :
        i > 1 \/ task.pc \in {"consider", "quote"} => fills'[task.queue[i]][t] = 0
  <2>1. SUFFICES ASSUME NEW i \in 1..Len(task.queue),
                        i > 1 \/ task.pc \in {"consider", "quote"}
                 PROVE  fills'[task.queue[i]][t] = 0
    OBVIOUS
  <2>2. i \in 1..Len(tasks[t].queue) /\ tasks[t].queue[i] \in Positions
    BY <1>1
  <2>3. CASE task.pc = "quote"
    BY <2>2, <2>3 DEF IInv, QueuesAreUnsold
  <2>4. CASE task.pc # "quote"
    <3>1. i > 1 /\ i # 1
      BY <2>1, <2>4
    <3>2. fills[tasks[t].queue[i]][t] = 0 /\ tasks[t].queue[i] # tasks[t].queue[1]
      BY <1>1, <2>2, <3>1 DEF IInv, QueuesAreUnsold
    <3>. QED  BY <1>1, <2>2, <3>2
  <2>. QED  BY <2>3, <2>4
<1>5. \A i, j \in 1..Len(task.queue) : i # j => task.queue[i] # task.queue[j]
  BY DEF IInv, QueuesAreUnsold
<1>. QED  BY <1>1, <1>2, <1>3, <1>4, <1>5 DEF QueuesAreUnsold

(* The tasks stay well formed when one of them steps.                      *)
LEMMA TasksTyped ==
  ASSUME IInv, NEW t \in Sells, NEW task \in TaskStates, tasks' = [tasks EXCEPT ![t] = task],
         running = {t} \/ running = {}, running' = {t} \/ running' = {},
         task.pc \in {"unseen", "quote", "done"} <=> running' = {}
  PROVE  /\ tasks' \in [Sells -> TaskStates]
         /\ tasks'[t] = task
         /\ \A u \in Sells : u # t => tasks'[u] = tasks[u] /\ Position(u)' = Position(u)
         /\ \A u \in Sells :
              /\ tasks'[u].pc \in {"unseen", "consider", "quote", "final", "leads", "v5", "done"}
              /\ tasks'[u].queue \in Seq(Positions)
              /\ tasks'[u].pc \in {"unseen", "quote", "done"} <=> u \notin running'
         /\ running' \subseteq Sells
<1>1. tasks' \in [Sells -> TaskStates]
  BY DEF IInv
<1>2. tasks'[t] = task /\ \A u \in Sells : u # t => tasks'[u] = tasks[u]
  BY DEF IInv
<1>3. \A u \in Sells : u # t => Position(u)' = Position(u)
  BY <1>2 DEF Position
<1>4. \A u \in Sells :
        /\ tasks'[u].pc \in {"unseen", "consider", "quote", "final", "leads", "v5", "done"}
        /\ tasks'[u].queue \in Seq(Positions)
  BY <1>1 DEF TaskStates
<1>5. \A u \in Sells : tasks'[u].pc \in {"unseen", "quote", "done"} <=> u \notin running'
  <2>1. \A u \in Sells : u # t => tasks[u].pc \in {"unseen", "quote", "done"}
    BY OthersWait
  <2>. QED  BY <1>2, <2>1
<1>. QED  BY <1>1, <1>2, <1>3, <1>4, <1>5

(* Remaining, without Max.                                                 *)
LEMMA RemainingIs ==
  ASSUME IInv, NEW p \in Positions, lifecycle[p].opened, ~lifecycle[p].closed
  PROVE  lifecycle[p].remaining = IF TotalRaw > Sold(p) THEN TotalRaw - Sold(p) ELSE 0
<1>. USE StagedExitAssumption
<1>1. Sold(p) \in Nat
  <2>1. fills[p] \in [Sells -> 0..TotalRaw]
    BY DEF IInv, TypeOK
  <2>2. PICK sales \in [Sells -> 0..TotalRaw] : sales = fills[p]
    BY <2>1
  <2>3. Cardinality(UnitsSold(sales)) \in Nat
    BY UnitsFinite, FS_CardinalityType
  <2>. QED  BY <2>2, <2>3 DEF Sold
<1>2. PICK x \in Int : x = TotalRaw - Sold(p)
  BY <1>1
<1>3. lifecycle[p].remaining = Max({0, x})
  BY <1>2 DEF IInv, RemainingIsAccounted
<1>. QED  BY <1>1, <1>2, <1>3, MaxOfZeroAnd

LEMMA AccountedFrom ==
  ASSUME NEW sold \in Nat, NEW remaining,
         remaining = IF TotalRaw > sold THEN TotalRaw - sold ELSE 0
  PROVE  remaining = Max({0, TotalRaw - sold})
<1>1. PICK x \in Int : x = TotalRaw - sold
  BY StagedExitAssumption
<1>2. Max({0, x}) = IF x > 0 THEN x ELSE 0
  BY MaxOfZeroAnd
<1>. QED  BY <1>1, <1>2, StagedExitAssumption

LEMMA SameTables ==
  ASSUME IInv, UNCHANGED durable
  PROVE  /\ lifecycle' \in [Positions -> Lifecycle]
         /\ fills' \in [Positions -> [Sells -> 0..TotalRaw]]
         /\ \A outcome \in {final', leads', v5'} : outcome \in [Positions -> 0..MaxSold]
         /\ UnopenedAreWhole' /\ RemainingIsAccounted' /\ MeasurementsAgree'
<1>1. /\ lifecycle' = lifecycle /\ fills' = fills /\ final' = final /\ leads' = leads /\ v5' = v5
  BY DEF durable
<1>2. RemainingIsAccounted'
  BY <1>1 DEF IInv, RemainingIsAccounted, Sold
<1>. QED  BY <1>1, <1>2 DEF IInv, TypeOK, MaxSold, UnopenedAreWhole, MeasurementsAgree

-----------------------------------------------------------------------------
(* One lemma for each action.                                              *)
LEMMA OrderIsQueue ==
  ASSUME IInv, NEW order \in SetToSeqs(OpenPositions)
  PROVE  /\ order \in Seq(Positions)
         /\ \A i, j \in 1..Len(order) : i # j => order[i] # order[j]
<1>. DEFINE n == Cardinality(OpenPositions)
<1>1. OpenPositions \subseteq Positions /\ IsFiniteSet(OpenPositions)
  BY FS_Subset, StagedExitAssumption DEF OpenPositions
<1>2. n \in Nat
  BY <1>1, FS_CardinalityType
<1>3. order \in [1..n -> OpenPositions] /\ \A i, j \in 1..n : i # j => order[i] # order[j]
  BY DEF SetToSeqs
<1>. HIDE DEF n
<1>4. order \in Seq(OpenPositions) /\ Len(order) = n
  BY <1>2, <1>3
<1>. QED  BY <1>1, <1>3, <1>4

LEMMA ObserveKeepsIInv ==
  ASSUME IInv, NEW t \in Sells, NEW order \in SetToSeqs(OpenPositions), ObserveSell(t, order)
  PROVE  IInv'
<1>. USE StagedExitAssumption DEF Busy, Finishing
<1>1. running = {} /\ tasks[t].pc = "unseen" /\ UNCHANGED durable /\ UNCHANGED crashes
  BY DEF ObserveSell
<1>2. MaxSold \in Nat
  BY FS_CardinalityType DEF MaxSold
<1>3. order \in Seq(Positions) /\ \A i, j \in 1..Len(order) : i # j => order[i] # order[j]
  BY OrderIsQueue
<1>4. PICK task \in TaskStates :
        /\ tasks' = [tasks EXCEPT ![t] = task]
        /\ running' = IF task.pc = "done" THEN {} ELSE {t}
        /\ task.queue = order
        /\ task.pc = "done" \/ (task.pc = "consider" /\ order # <<>>)
  <2>1. CASE order = <<>>
    <3>0. PICK k : k = Done
      OBVIOUS
    <3>1. k \in TaskStates /\ k.pc = "done" /\ k.queue = <<>>
      BY <1>2, <3>0, EmptySeq DEF Done, Idle, TaskStates
    <3>2. tasks' = [tasks EXCEPT ![t] = k] /\ running' = {}
      BY <2>1, <3>0 DEF ObserveSell, Await
    <3>. QED  BY <2>1, <3>1, <3>2
  <2>2. CASE order # <<>>
    <3>1. PICK k : k = Considering(order)
      OBVIOUS
    <3>2. k \in TaskStates /\ k.pc = "consider" /\ k.queue = order
      BY <1>2, <1>3, <3>1 DEF Considering, TaskStates
    <3>3. tasks' = [tasks EXCEPT ![t] = k] /\ running' = {t}
      BY <2>2, <3>1 DEF ObserveSell, Keep
    <3>. QED  BY <2>2, <3>2, <3>3
  <2>. QED  BY <2>1, <2>2
<1>5. /\ tasks' \in [Sells -> TaskStates]
      /\ tasks'[t] = task
      /\ \A u \in Sells : u # t => tasks'[u] = tasks[u] /\ Position(u)' = Position(u)
      /\ TypeOK'
  BY <1>1, <1>4, TasksTyped, SameTables DEF TypeOK, MaxSold
<1>6. /\ UnopenedAreWhole' /\ RemainingIsAccounted' /\ MeasurementsAgree'
      /\ lifecycle' = lifecycle /\ fills' = fills /\ final' = final /\ leads' = leads /\ v5' = v5
  BY <1>1, SameTables DEF durable
<1>7. \A p \in Positions : fills[p][t] = 0
  BY <1>1 DEF IInv, QueuesAreUnsold
<1>8. QueuesAreUnsold'
  <2>1. \A i \in 1..Len(order) : order[i] \in Positions
    BY <1>3
  <2>2. /\ task.pc \in Busy => task.queue # <<>>
        /\ \A i, j \in 1..Len(task.queue) : i # j => task.queue[i] # task.queue[j]
        /\ \A i \in 1..Len(task.queue) : fills[task.queue[i]][t] = 0
        /\ task.pc # "unseen"
    BY <1>3, <1>4, <1>7, <2>1
  <2>. QED  BY <1>5, <1>6, <2>2 DEF IInv, QueuesAreUnsold
<1>9. \A u \in Sells : Carries(u)'
  BY <1>4, <1>5, <1>6 DEF IInv, Carries
<1>10. CountedAreComplete'
  BY <1>1, <1>4, <1>5, <1>6 DEF IInv, CountedAreComplete, Complete
<1>11. SpentAreBeingMeasured'
  BY <1>1, <1>6 DEF IInv, SpentAreBeingMeasured
<1>. QED  BY <1>1, <1>5, <1>6, <1>8, <1>9, <1>10, <1>11 DEF IInv

LEMMA RouteUnavailableKeepsIInv ==
  ASSUME IInv, NEW t \in Sells, RouteUnavailable(t)
  PROVE  IInv'
<1>. USE DEF Busy, Finishing
<1>1. running = {} /\ tasks[t].pc = "quote" /\ UNCHANGED durable /\ UNCHANGED crashes
  BY DEF RouteUnavailable
<1>2. PICK task \in TaskStates : Moves(t, task)
  BY <1>1, NextPositionMoves DEF RouteUnavailable
<1>3. /\ tasks' = [tasks EXCEPT ![t] = task] /\ running' = IF task.pc = "done" THEN {} ELSE {t}
      /\ task.pc \in {"consider", "done"}
  BY <1>2 DEF Moves
<1>5. /\ tasks' \in [Sells -> TaskStates]
      /\ tasks'[t] = task
      /\ \A u \in Sells : u # t => tasks'[u] = tasks[u] /\ Position(u)' = Position(u)
      /\ TypeOK'
  BY <1>1, <1>3, TasksTyped, SameTables DEF TypeOK, MaxSold
<1>6. /\ UnopenedAreWhole' /\ RemainingIsAccounted' /\ MeasurementsAgree'
      /\ lifecycle' = lifecycle /\ fills' = fills /\ final' = final /\ leads' = leads /\ v5' = v5
  BY <1>1, SameTables DEF durable
<1>8. QueuesAreUnsold'
  BY <1>1, <1>2, <1>6, MovedQueues
<1>9. \A u \in Sells : Carries(u)'
  BY <1>3, <1>5, <1>6 DEF IInv, Carries
<1>10. CountedAreComplete'
  BY <1>1, <1>3, <1>5, <1>6 DEF IInv, CountedAreComplete, Complete
<1>11. SpentAreBeingMeasured'
  BY <1>1, <1>6 DEF IInv, SpentAreBeingMeasured
<1>. QED  BY <1>1, <1>5, <1>6, <1>8, <1>9, <1>10, <1>11 DEF IInv

LEMMA ConsiderKeepsIInv ==
  ASSUME IInv, NEW t \in Sells, NEW signal, Consider(t, signal)
  PROVE  IInv'
<1>. USE StagedExitAssumption DEF Busy, Finishing
<1>1. /\ running = {t} /\ tasks[t].pc = "consider"
      /\ fills' = fills /\ final' = final /\ leads' = leads /\ v5' = v5 /\ crashes' = crashes
  BY DEF Consider
<1>2. PICK p \in Positions : p = Position(t) /\ tasks[t] \in TaskStates
  BY <1>1, PositionIsQueued
<1>3. PICK l : l = IF lifecycle[p].opened THEN lifecycle[p] ELSE NewLifecycle
  OBVIOUS
<1>4. l \in Lifecycle /\ l.opened
  BY <1>3 DEF IInv, TypeOK, Lifecycle, NewLifecycle
<1>5. lifecycle' = [lifecycle EXCEPT ![p] = l]
  BY <1>2, <1>3 DEF Consider
<1>6. \A q \in Positions : q # p \/ lifecycle[p].opened => lifecycle'[q] = lifecycle[q]
  BY <1>3, <1>5 DEF IInv, TypeOK
<1>7. ~lifecycle[p].opened => /\ lifecycle'[p].remaining = TotalRaw
                              /\ lifecycle'[p].opened
                              /\ \A u \in Sells : fills[p][u] = 0
  BY <1>3, <1>5 DEF IInv, TypeOK, NewLifecycle, UnopenedAreWhole
<1>8. PICK task \in TaskStates :
        /\ tasks' = [tasks EXCEPT ![t] = task]
        /\ \/ Moves(t, task) /\ running' = (IF task.pc = "done" THEN {} ELSE {t})
                             /\ task.pc \in {"consider", "done"}
           \/ /\ running' = {}
              /\ task.pc = "quote" /\ task.queue = tasks[t].queue /\ task.raw > 0
              /\ l.remaining > 0
  <2>. DEFINE urgent == signal = "urgent"
              slice  == Slice(l, urgent)
  <2>1. CASE signal = "hold" \/ slice = 0
    <3>1. NextPosition(t)
      BY <1>2, <1>3, <2>1 DEF Consider
    <3>2. PICK task \in TaskStates : Moves(t, task)
      BY <1>1, <3>1, NextPositionMoves
    <3>. QED  BY <3>2 DEF Moves
  <2>2. CASE ~(signal = "hold" \/ slice = 0)
    <3>1. PICK u \in BOOLEAN : u = urgent
      OBVIOUS
    <3>2. PICK k : k = Quoting(tasks[t].queue, Slice(l, u), NextStage(l, u), u)
      OBVIOUS
    <3>3. tasks' = [tasks EXCEPT ![t] = k] /\ running' = {}
      BY <1>2, <1>3, <2>2, <3>1, <3>2 DEF Consider, Await
    <3>4. Slice(l, u) # 0
      BY <2>2, <3>1
    <3>5. Slice(l, u) \in 0..l.remaining /\ l.remaining \in 0..TotalRaw
      BY <1>4, SliceFits DEF Lifecycle
    <3>6. Slice(l, u) > 0 /\ Slice(l, u) \in 0..TotalRaw /\ l.remaining > 0
      BY <3>4, <3>5
    <3>7. NextStage(l, u) \in 0..3
      BY <1>4, <3>6, SliceFits
    <3>8. MaxSold \in Nat
      BY FS_CardinalityType DEF MaxSold
    <3>9. k \in TaskStates /\ k.pc = "quote" /\ k.queue = tasks[t].queue /\ k.raw = Slice(l, u)
      BY <1>2, <3>2, <3>6, <3>7, <3>8 DEF Quoting, TaskStates
    <3>. QED  BY <3>3, <3>6, <3>9
  <2>. QED  BY <2>1, <2>2
<1>9. /\ tasks' \in [Sells -> TaskStates]
      /\ tasks'[t] = task
      /\ \A u \in Sells : u # t => tasks'[u] = tasks[u] /\ Position(u)' = Position(u)
      /\ \A u \in Sells :
           /\ tasks'[u].pc \in {"unseen", "consider", "quote", "final", "leads", "v5", "done"}
           /\ tasks'[u].queue \in Seq(Positions)
           /\ tasks'[u].pc \in {"unseen", "quote", "done"} <=> u \notin running'
      /\ running' \subseteq Sells
  <2>1. running' = {t} \/ running' = {}
    BY <1>8
  <2>2. task.pc \in {"unseen", "quote", "done"} <=> running' = {}
    BY <1>8
  <2>. QED  BY <1>1, <1>8, <2>1, <2>2, TasksTyped
<1>10. TypeOK'
  BY <1>1, <1>4, <1>5, <1>9 DEF IInv, TypeOK
<1>11. QueuesAreUnsold'
  <2>1. CASE Moves(t, task)
    BY <1>1, <2>1, MovedQueues
  <2>2. CASE task.pc = "quote" /\ task.queue = tasks[t].queue
    BY <1>1, <1>8, <2>2, SameQueues
  <2>. QED  BY <1>8, <2>1, <2>2
<1>12. UnopenedAreWhole'
  BY <1>1, <1>6, <1>7 DEF IInv, UnopenedAreWhole
<1>13. \A u \in Sells : Carries(u)'
  <2>1. \A u \in Sells : u # t => tasks[u].pc \in {"unseen", "quote", "done"}
    BY <1>1, OthersWait
  <2>2. ASSUME NEW u \in Sells, u # t  PROVE Carries(u)'
    <3>1. tasks'[u].pc \in {"unseen", "quote", "done"} /\ tasks'[u] = tasks[u] /\ Position(u)' = Position(u)
      BY <1>9, <2>1, <2>2
    <3>2. tasks[u].pc = "quote" => /\ tasks[u].raw > 0 /\ lifecycle[Position(u)].opened
                                   /\ Position(u) \in Positions
      BY PositionIsQueued DEF IInv, Carries
    <3>3. \A q \in Positions : lifecycle[q].opened => lifecycle'[q].opened
      BY <1>6
    <3>. QED  BY <3>1, <3>2, <3>3 DEF Carries
  <2>3. Carries(t)'
    <3>1. CASE task.pc \in {"consider", "done"}
      BY <1>9, <3>1 DEF Carries
    <3>2. CASE task.pc = "quote" /\ task.queue = tasks[t].queue /\ task.raw > 0
      <4>1. Position(t)' = p
        BY <1>2, <1>9, <3>2 DEF Position
      <4>2. lifecycle'[p].opened
        BY <1>4, <1>5 DEF IInv, TypeOK
      <4>. QED  BY <1>9, <3>2, <4>1, <4>2 DEF Carries
    <3>. QED  BY <1>8, <3>1, <3>2
  <2>. QED  BY <2>2, <2>3
<1>14. RemainingIsAccounted'
  <2>1. SUFFICES ASSUME NEW q \in Positions, lifecycle'[q].opened, ~lifecycle'[q].closed
                 PROVE  lifecycle'[q].remaining = Max({0, TotalRaw - Sold(q)'})
    BY DEF RemainingIsAccounted
  <2>2. Sold(q)' = Sold(q)
    BY <1>1 DEF Sold
  <2>3. CASE q # p \/ lifecycle[p].opened
    BY <1>6, <2>1, <2>2, <2>3 DEF IInv, RemainingIsAccounted
  <2>4. CASE q = p /\ ~lifecycle[p].opened
    <3>1. lifecycle'[q].remaining = TotalRaw
      BY <1>7, <2>4
    <3>2. PICK sales : sales = fills[p]
      OBVIOUS
    <3>3. Sold(q) = 0
      BY <1>7, <2>4, <3>2, NothingSold DEF Sold
    <3>. QED  BY <2>2, <3>1, <3>3, AccountedFrom
  <2>. QED  BY <2>3, <2>4
<1>15. MeasurementsAgree'
  BY <1>1 DEF IInv, MeasurementsAgree
<1>16. CountedAreComplete'
  <2>1. \A q \in Positions : final'[q] # Unmeasured => lifecycle'[q].opened /\ lifecycle'[q].remaining = 0
    BY <1>1, <1>6 DEF IInv, CountedAreComplete
  <2>2. \A u \in Sells : u # t => tasks[u].pc \in {"unseen", "quote", "done"}
    BY <1>1, OthersWait
  <2>3. \A u \in Sells : ~(u \in running /\ tasks[u].pc \in {"leads", "v5"})
    BY <1>1
  <2>4. ASSUME NEW u \in Sells, u # t, tasks[u].pc = "quote", final[Position(u)] # Unmeasured
        PROVE  Complete(Position(u))
    BY <1>1, <2>3, <2>4 DEF IInv, CountedAreComplete
  <2>5. \A q : Complete(q)' = Complete(q)
    BY <1>1 DEF Complete
  <2>6. ASSUME task.pc = "quote"
        PROVE  Position(t)' = p /\ final'[p] = Unmeasured
    <3>1. task.queue = tasks[t].queue /\ l.remaining > 0
      BY <1>8, <2>6
    <3>2. Position(t)' = p
      BY <1>2, <1>9, <3>1 DEF Position
    <3>3. lifecycle'[p].remaining # 0
      BY <1>4, <1>5, <3>1 DEF IInv, TypeOK, Lifecycle
    <3>. QED  BY <2>1, <3>2, <3>3
  <2>. QED  BY <1>1, <1>8, <1>9, <2>1, <2>2, <2>4, <2>5, <2>6 DEF CountedAreComplete
<1>17. SpentAreBeingMeasured'
  <2>1. \A u \in running : tasks[u].pc \notin Finishing
    BY <1>1
  <2>. QED  BY <1>1, <1>6, <1>7, <2>1 DEF IInv, SpentAreBeingMeasured
<1>. QED  BY <1>1, <1>9, <1>10, <1>11, <1>12, <1>13, <1>14, <1>15, <1>16, <1>17 DEF IInv

LEMMA FillKeepsIInv ==
  ASSUME IInv, NEW t \in Sells, Fill(t)
  PROVE  IInv'
<1>. USE StagedExitAssumption DEF Busy, Finishing
<1>1. /\ running = {} /\ tasks[t].pc = "quote"
      /\ final' = final /\ leads' = leads /\ v5' = v5 /\ crashes' = crashes
  BY DEF Fill
<1>2. PICK p \in Positions : p = Position(t) /\ p = tasks[t].queue[1] /\ 1 \in 1..Len(tasks[t].queue)
                             /\ tasks[t] \in TaskStates
  BY <1>1, PositionIsQueued
<1>3. PICK raw \in 1..TotalRaw, stage \in 0..3 : raw = tasks[t].raw /\ stage = tasks[t].stage
  BY <1>1, <1>2 DEF IInv, Carries, TaskStates
<1>4. PICK l \in Lifecycle : l = lifecycle[p] /\ l.opened
  BY <1>1, <1>2 DEF IInv, TypeOK, Carries
<1>5. PICK b : b = Booked(l, raw, stage)
  OBVIOUS
<1>6. /\ b \in Lifecycle /\ b.opened /\ b.closed = l.closed
      /\ b.remaining = IF raw < l.remaining THEN l.remaining - raw ELSE 0
  BY <1>4, <1>5 DEF Booked, Lifecycle
<1>7. fills' = [fills EXCEPT ![p][t] = raw] /\ lifecycle' = [lifecycle EXCEPT ![p] = b]
  BY <1>2, <1>3, <1>4, <1>5 DEF Fill
<1>8. fills[p][t] = 0 /\ fills[p] \in [Sells -> 0..TotalRaw]
  BY <1>1, <1>2 DEF IInv, QueuesAreUnsold, TypeOK
<1>9. /\ lifecycle'[p] = b
      /\ \A q \in Positions : q # p => lifecycle'[q] = lifecycle[q] /\ fills'[q] = fills[q]
      /\ fills'[p] = [fills[p] EXCEPT ![t] = raw]
      /\ \A q \in Positions, u \in Sells : u # t \/ q # p => fills'[q][u] = fills[q][u]
      /\ fills'[p][t] = raw
      /\ lifecycle' \in [Positions -> Lifecycle]
      /\ fills' \in [Positions -> [Sells -> 0..TotalRaw]]
  BY <1>6, <1>7 DEF IInv, TypeOK
<1>10. PICK task \in TaskStates :
         /\ tasks' = [tasks EXCEPT ![t] = task]
         /\ running' = (IF task.pc = "done" THEN {} ELSE {t})
         /\ \/ Moves(t, task) /\ task.pc \in {"consider", "done"} /\ b.remaining # 0
            \/ task.pc = "final" /\ task.queue = tasks[t].queue
  <2>1. CASE Spent(t, b.remaining)
    <3>1. PICK k : k = Finalising("final", tasks[t].queue, 0)
      OBVIOUS
    <3>2. MaxSold \in Nat
      BY FS_CardinalityType DEF MaxSold
    <3>3. k \in TaskStates /\ k.pc = "final" /\ k.queue = tasks[t].queue
      BY <1>2, <3>1, <3>2 DEF Finalising, TaskStates
    <3>4. tasks' = [tasks EXCEPT ![t] = k] /\ running' = {t}
      BY <1>2, <1>3, <1>4, <1>5, <2>1, <3>1 DEF Fill, Keep
    <3>. QED  BY <3>3, <3>4
  <2>2. CASE ~Spent(t, b.remaining)
    <3>1. NextPosition(t)
      BY <1>2, <1>3, <1>4, <1>5, <2>2 DEF Fill
    <3>2. PICK task \in TaskStates : Moves(t, task)
      BY <1>1, <3>1, NextPositionMoves
    <3>. QED  BY <2>2, <3>2 DEF Moves, Spent
  <2>. QED  BY <2>1, <2>2
<1>11. /\ tasks' \in [Sells -> TaskStates]
       /\ tasks'[t] = task
       /\ \A u \in Sells : u # t => tasks'[u] = tasks[u] /\ Position(u)' = Position(u)
       /\ \A u \in Sells :
            /\ tasks'[u].pc \in {"unseen", "consider", "quote", "final", "leads", "v5", "done"}
            /\ tasks'[u].queue \in Seq(Positions)
            /\ tasks'[u].pc \in {"unseen", "quote", "done"} <=> u \notin running'
       /\ running' \subseteq Sells
  <2>1. running' = {t} \/ running' = {}
    BY <1>10
  <2>2. task.pc \in {"unseen", "quote", "done"} <=> running' = {}
    BY <1>10
  <2>. QED  BY <1>1, <1>10, <2>1, <2>2, TasksTyped
<1>12. TypeOK'
  BY <1>1, <1>9, <1>11 DEF IInv, TypeOK
<1>13. QueuesAreUnsold'
  <2>1. CASE Moves(t, task)
    BY <1>1, <1>2, <1>9, <2>1, MovedQueues
  <2>2. CASE task.pc = "final" /\ task.queue = tasks[t].queue
    <3>1. \A q \in Positions, u \in Sells :
            u # t \/ q # Position(t) => fills'[q][u] = fills[q][u]
      BY <1>2, <1>9
    <3>2. task.pc \in Finishing \cup {"quote"} /\ task.pc # "quote" /\ tasks[t].pc \in Busy
      BY <1>1, <2>2
    <3>. QED  BY <1>10, <2>2, <3>1, <3>2, SameQueues
  <2>. QED  BY <1>10, <2>1, <2>2
<1>14. UnopenedAreWhole'
  BY <1>6, <1>9 DEF IInv, UnopenedAreWhole
<1>15. \A u \in Sells : tasks[u].pc \in {"unseen", "quote", "done"}
  BY <1>1, OthersWait
<1>16. task.pc = "final" => Position(t)' = p
  BY <1>2, <1>10, <1>11 DEF Position, Moves
<1>17. \A u \in Sells : Carries(u)'
  <2>1. ASSUME NEW u \in Sells, u # t  PROVE Carries(u)'
    <3>1. tasks'[u].pc \in {"unseen", "quote", "done"} /\ tasks'[u] = tasks[u] /\ Position(u)' = Position(u)
      BY <1>11, <1>15, <2>1
    <3>2. tasks[u].pc = "quote" => /\ tasks[u].raw > 0 /\ lifecycle[Position(u)].opened
                                   /\ Position(u) \in Positions
      BY PositionIsQueued DEF IInv, Carries
    <3>3. \A q \in Positions : lifecycle[q].opened => lifecycle'[q].opened
      BY <1>6, <1>9
    <3>. QED  BY <3>1, <3>2, <3>3 DEF Carries
  <2>2. Carries(t)'
    BY <1>6, <1>9, <1>10, <1>11, <1>16 DEF Carries
  <2>. QED  BY <2>1, <2>2
<1>18. RemainingIsAccounted'
  <2>1. SUFFICES ASSUME NEW q \in Positions, lifecycle'[q].opened, ~lifecycle'[q].closed
                 PROVE  lifecycle'[q].remaining = Max({0, TotalRaw - Sold(q)'})
    BY DEF RemainingIsAccounted
  <2>2. CASE q # p
    <3>1. Sold(q)' = Sold(q)
      BY <1>9, <2>2 DEF Sold
    <3>. QED  BY <1>9, <2>1, <2>2, <3>1 DEF IInv, RemainingIsAccounted
  <2>3. CASE q = p
    <3>1. PICK sales \in [Sells -> 0..TotalRaw] : sales = fills[p]
      BY <1>8
    <3>2. /\ Cardinality(UnitsSold([sales EXCEPT ![t] = raw])) = Cardinality(UnitsSold(sales)) + raw
          /\ Cardinality(UnitsSold(sales)) \in Nat
      <4>1. sales[t] = 0 /\ raw \in 0..TotalRaw
        BY <1>8, <3>1
      <4>2. Cardinality(UnitsSold([sales EXCEPT ![t] = raw])) = Cardinality(UnitsSold(sales)) + raw
        BY <4>1, SaleAdds
      <4>3. Cardinality(UnitsSold(sales)) \in Nat
        BY UnitsFinite, FS_CardinalityType
      <4>. QED  BY <4>2, <4>3
    <3>3. Sold(p)' = Sold(p) + raw /\ Sold(p) \in Nat
      BY <1>9, <3>1, <3>2 DEF Sold
    <3>4. lifecycle[p].remaining = IF TotalRaw > Sold(p) THEN TotalRaw - Sold(p) ELSE 0
      BY <1>4, <1>6, <1>9, <2>1, <2>3, RemainingIs
    <3>5. PICK sold \in Nat : sold = Sold(p)'
      BY <3>3
    <3>6. b.remaining = IF TotalRaw > sold THEN TotalRaw - sold ELSE 0
      BY <1>4, <1>6, <3>3, <3>4, <3>5
    <3>7. b.remaining = Max({0, TotalRaw - sold})
      BY <3>6, AccountedFrom
    <3>. QED  BY <1>9, <2>3, <3>5, <3>7
  <2>. QED  BY <2>2, <2>3
<1>19. MeasurementsAgree'
  BY <1>1 DEF IInv, MeasurementsAgree
<1>20. CountedAreComplete'
  <2>1. \A q \in Positions : final'[q] # Unmeasured => lifecycle'[q].opened /\ lifecycle'[q].remaining = 0
    BY <1>1, <1>4, <1>6, <1>9 DEF IInv, CountedAreComplete, Lifecycle
  <2>2. ASSUME NEW u \in Sells, tasks[u].pc = "quote", final[Position(u)] # Unmeasured
        PROVE  Complete(Position(u))
    BY <1>1, <2>2 DEF IInv, CountedAreComplete
  <2>3. \A q : Complete(q)' = Complete(q)
    BY <1>1 DEF Complete
  <2>4. \A u \in Sells : u # t => tasks'[u].pc \in {"unseen", "quote", "done"}
    BY <1>11, <1>15
  <2>5. \A u \in Sells : tasks'[u].pc = "quote" /\ final'[Position(u)'] # Unmeasured =>
                            Complete(Position(u))'
    <3>1. SUFFICES ASSUME NEW u \in Sells, tasks'[u].pc = "quote", final'[Position(u)'] # Unmeasured
                   PROVE  Complete(Position(u))'
      OBVIOUS
    <3>2. u # t
      BY <1>10, <1>11, <3>1
    <3>3. tasks[u].pc = "quote" /\ final[Position(u)] # Unmeasured /\ Position(u)' = Position(u)
      BY <1>1, <1>11, <3>1, <3>2
    <3>4. Complete(Position(u))
      BY <2>2, <3>3
    <3>. QED  BY <1>1, <3>3, <3>4 DEF Complete
  <2>6. task.pc = "final" /\ final'[p] # Unmeasured => Complete(p)'
    BY <1>1, <1>2, <2>2, <2>3
  <2>7. \A u \in Sells : tasks'[u].pc = "final" => u = t
    BY <2>4
  <2>8. \A u \in Sells : tasks'[u].pc \notin {"leads", "v5"}
    BY <1>10, <1>11, <2>4
  <2>. QED  BY <1>11, <1>16, <2>1, <2>5, <2>6, <2>7, <2>8 DEF CountedAreComplete
<1>21. SpentAreBeingMeasured'
  <2>1. SUFFICES ASSUME crashes = 0, NEW q \in Positions, lifecycle'[q].opened, lifecycle'[q].remaining = 0,
                        v5[q] = Unmeasured
                 PROVE  \E u \in running' : tasks'[u].pc \in Finishing /\ Position(u)' = q
    BY <1>1 DEF SpentAreBeingMeasured
  <2>2. q = p
    BY <1>1, <1>9, <2>1 DEF IInv, SpentAreBeingMeasured
  <2>3. task.pc = "final"
    BY <1>9, <1>10, <2>1, <2>2
  <2>. QED  BY <1>10, <1>11, <1>16, <2>2, <2>3
<1>. QED  BY <1>1, <1>11, <1>12, <1>13, <1>14, <1>17, <1>18, <1>19, <1>20, <1>21 DEF IInv

(* The outcomes of the positions.                                          *)
LEMMA RecordedOutcome ==
  ASSUME NEW table \in [Positions -> 0..MaxSold], NEW p \in Positions, NEW counted \in 1..MaxSold
  PROVE  /\ Recorded(table, p, counted) \in [Positions -> 0..MaxSold]
         /\ Recorded(table, p, counted)[p] = IF table[p] = Unmeasured THEN counted ELSE table[p]
         /\ Recorded(table, p, counted)[p] # Unmeasured
         /\ \A q \in Positions : q # p => Recorded(table, p, counted)[q] = table[q]
BY DEF Recorded, Unmeasured

LEMMA FinaliseFinalKeepsIInv ==
  ASSUME IInv, NEW t \in Sells, FinaliseFinal(t)
  PROVE  IInv'
<1>. USE StagedExitAssumption DEF Busy, Finishing
<1>1. /\ running = {t} /\ tasks[t].pc = "final"
      /\ fills' = fills /\ leads' = leads /\ v5' = v5 /\ crashes' = crashes
  BY DEF FinaliseFinal
<1>2. PICK p \in Positions : p = Position(t) /\ tasks[t] \in TaskStates
  BY <1>1, PositionIsQueued
<1>3. PICK counted \in 1..MaxSold : counted = Sold(p)
  <2>1. fills[p] \in [Sells -> 0..TotalRaw] /\ fills[p][t] > 0
    BY <1>1, <1>2 DEF IInv, TypeOK, Carries
  <2>2. PICK sales \in [Sells -> 0..TotalRaw] : sales = fills[p] /\ sales[t] > 0
    BY <2>1
  <2>3. Cardinality(UnitsSold(sales)) \in 0..MaxSold /\ Cardinality(UnitsSold(sales)) > 0
    BY <2>2, UnitsFinite, SaleIsSold
  <2>. QED  BY <2>2, <2>3 DEF Sold, MaxSold
<1>4. PICK l \in Lifecycle : l = lifecycle[p] /\ l.opened
  BY <1>1, <1>2 DEF IInv, TypeOK, Carries
<1>5. PICK c : c = ClosedOut(l)
  OBVIOUS
<1>6. c \in Lifecycle /\ c.opened /\ c.closed /\ c.remaining = 0
  BY <1>4, <1>5 DEF ClosedOut, Lifecycle
<1>7. PICK task : task = Finalising("leads", tasks[t].queue, counted)
  OBVIOUS
<1>8. /\ lifecycle' = [lifecycle EXCEPT ![p] = c]
      /\ final' = Recorded(final, p, counted)
      /\ tasks' = [tasks EXCEPT ![t] = task]
      /\ running' = {t}
  BY <1>2, <1>3, <1>4, <1>5, <1>7 DEF FinaliseFinal, Keep
<1>9. task \in TaskStates /\ task.pc = "leads" /\ task.queue = tasks[t].queue /\ task.counted = counted
  BY <1>2, <1>7 DEF Finalising, TaskStates
<1>10. /\ tasks' \in [Sells -> TaskStates]
       /\ tasks'[t] = task
       /\ \A u \in Sells : u # t => tasks'[u] = tasks[u] /\ Position(u)' = Position(u)
       /\ \A u \in Sells :
            /\ tasks'[u].pc \in {"unseen", "consider", "quote", "final", "leads", "v5", "done"}
            /\ tasks'[u].queue \in Seq(Positions)
            /\ tasks'[u].pc \in {"unseen", "quote", "done"} <=> u \notin running'
       /\ running' \subseteq Sells
  BY <1>1, <1>8, <1>9, TasksTyped
<1>11. Position(t)' = p
  BY <1>2, <1>9, <1>10 DEF Position
<1>12. /\ final' \in [Positions -> 0..MaxSold]
       /\ final'[p] = (IF final[p] = Unmeasured THEN counted ELSE final[p])
       /\ final'[p] # Unmeasured
       /\ \A q \in Positions : q # p => final'[q] = final[q]
  BY <1>8, RecordedOutcome DEF IInv, TypeOK, MaxSold
<1>13. /\ lifecycle' \in [Positions -> Lifecycle] /\ lifecycle'[p] = c
       /\ \A q \in Positions : q # p => lifecycle'[q] = lifecycle[q]
  BY <1>6, <1>8 DEF IInv, TypeOK
<1>14. TypeOK'
  BY <1>1, <1>10, <1>12, <1>13 DEF IInv, TypeOK, MaxSold
<1>15. QueuesAreUnsold'
  BY <1>1, <1>8, <1>9, SameQueues
<1>16. UnopenedAreWhole'
  BY <1>1, <1>6, <1>13 DEF IInv, UnopenedAreWhole
<1>17. \A u \in Sells : u # t => tasks[u].pc \in {"unseen", "quote", "done"}
  BY <1>1, OthersWait
<1>18. final[p] # Unmeasured => Complete(p)
  BY <1>1, <1>2 DEF IInv, CountedAreComplete
<1>19. \A u \in Sells : Carries(u)'
  <2>1. ASSUME NEW u \in Sells, u # t  PROVE Carries(u)'
    <3>1. tasks'[u].pc \in {"unseen", "quote", "done"} /\ tasks'[u] = tasks[u] /\ Position(u)' = Position(u)
      BY <1>10, <1>17, <2>1
    <3>2. tasks[u].pc = "quote" => /\ tasks[u].raw > 0 /\ lifecycle[Position(u)].opened
                                   /\ Position(u) \in Positions
      BY PositionIsQueued DEF IInv, Carries
    <3>3. \A q \in Positions : lifecycle[q].opened => lifecycle'[q].opened
      BY <1>6, <1>13
    <3>. QED  BY <3>1, <3>2, <3>3 DEF Carries
  <2>2. fills[p][t] > 0
    BY <1>1, <1>2 DEF IInv, Carries
  <2>3. Carries(t)'
    BY <1>1, <1>6, <1>9, <1>10, <1>11, <1>13, <2>2 DEF Carries
  <2>. QED  BY <2>1, <2>3
<1>20. RemainingIsAccounted'
  <2>1. \A q \in Positions : Sold(q)' = Sold(q)
    BY <1>1 DEF Sold
  <2>. QED  BY <1>6, <1>13, <2>1 DEF IInv, RemainingIsAccounted
<1>21. MeasurementsAgree'
  BY <1>1, <1>12, <1>18 DEF IInv, MeasurementsAgree, Complete
<1>22. CountedAreComplete'
  <2>1. \A q \in Positions : final'[q] # Unmeasured => lifecycle'[q].opened /\ lifecycle'[q].remaining = 0
    BY <1>6, <1>12, <1>13 DEF IInv, CountedAreComplete
  <2>2. \A q : Complete(q)' = Complete(q)
    BY <1>1 DEF Complete
  <2>3. ASSUME NEW u \in Sells, tasks'[u].pc = "quote", final'[Position(u)'] # Unmeasured
        PROVE  Complete(Position(u))' \/ Position(u)' = p
    <3>1. tasks[u].pc = "quote" /\ Position(u)' = Position(u) /\ Position(u) \in Positions
      BY <1>9, <1>10, <2>3, PositionIsQueued
    <3>2. Position(u) # p => final[Position(u)] # Unmeasured
      BY <1>12, <2>3, <3>1
    <3>3. Position(u) # p => Complete(Position(u))
      BY <1>1, <3>1, <3>2 DEF IInv, CountedAreComplete
    <3>. QED  BY <1>1, <3>1, <3>3 DEF Complete
  <2>4. t \in running' /\ tasks'[t].pc \in {"leads", "v5"} /\ Position(t)' = p
    BY <1>8, <1>9, <1>10, <1>11
  <2>5. final'[p] = tasks'[t].counted \/ Complete(p)'
    BY <1>9, <1>10, <1>12, <1>18, <2>2
  <2>6. \A u \in Sells : tasks'[u].pc \in Finishing => u = t
    BY <1>10, <1>17
  <2>. QED  BY <1>9, <1>10, <1>11, <2>1, <2>3, <2>4, <2>5, <2>6 DEF CountedAreComplete
<1>23. SpentAreBeingMeasured'
  <2>1. SUFFICES ASSUME crashes = 0, NEW q \in Positions, lifecycle'[q].opened, lifecycle'[q].remaining = 0,
                        v5[q] = Unmeasured
                 PROVE  \E u \in running' : tasks'[u].pc \in Finishing /\ Position(u)' = q
    BY <1>1 DEF SpentAreBeingMeasured
  <2>2. q = p
    BY <1>1, <1>2, <1>13, <2>1 DEF IInv, SpentAreBeingMeasured
  <2>. QED  BY <1>8, <1>9, <1>10, <1>11, <2>2
<1>. QED  BY <1>1, <1>10, <1>14, <1>15, <1>16, <1>19, <1>20, <1>21, <1>22, <1>23 DEF IInv

LEMMA FinaliseLeadKeepsIInv ==
  ASSUME IInv, NEW t \in Sells, FinaliseLead(t)
  PROVE  IInv'
<1>. USE StagedExitAssumption DEF Busy, Finishing
<1>1. /\ running = {t} /\ tasks[t].pc = "leads"
      /\ lifecycle' = lifecycle /\ fills' = fills /\ final' = final /\ v5' = v5 /\ crashes' = crashes
  BY DEF FinaliseLead
<1>2. PICK p \in Positions : p = Position(t) /\ tasks[t] \in TaskStates
  BY <1>1, PositionIsQueued
<1>3. PICK counted \in 1..MaxSold : counted = tasks[t].counted
  <2>1. tasks[t].counted > 0
    BY <1>1 DEF IInv, Carries
  <2>2. tasks[t].counted \in 0..MaxSold
    BY <1>2 DEF TaskStates
  <2>3. MaxSold \in Nat
    BY FS_CardinalityType DEF MaxSold
  <2>. QED  BY <2>1, <2>2, <2>3
<1>4. PICK task : task = Finalising("v5", tasks[t].queue, counted)
  OBVIOUS
<1>5. /\ leads' = Recorded(leads, p, counted)
      /\ tasks' = [tasks EXCEPT ![t] = task]
      /\ running' = {t}
  BY <1>2, <1>3, <1>4 DEF FinaliseLead, Keep
<1>6. task \in TaskStates /\ task.pc = "v5" /\ task.queue = tasks[t].queue /\ task.counted = counted
  BY <1>2, <1>4 DEF Finalising, TaskStates
<1>7. /\ tasks' \in [Sells -> TaskStates]
      /\ tasks'[t] = task
      /\ \A u \in Sells : u # t => tasks'[u] = tasks[u] /\ Position(u)' = Position(u)
      /\ \A u \in Sells :
           /\ tasks'[u].pc \in {"unseen", "consider", "quote", "final", "leads", "v5", "done"}
           /\ tasks'[u].queue \in Seq(Positions)
           /\ tasks'[u].pc \in {"unseen", "quote", "done"} <=> u \notin running'
      /\ running' \subseteq Sells
  BY <1>1, <1>5, <1>6, TasksTyped
<1>8. Position(t)' = p
  BY <1>2, <1>6, <1>7 DEF Position
<1>9. /\ leads' \in [Positions -> 0..MaxSold]
      /\ leads'[p] = (IF leads[p] = Unmeasured THEN counted ELSE leads[p])
      /\ leads'[p] # Unmeasured
      /\ \A q \in Positions : q # p => leads'[q] = leads[q]
  <2>1. PICK table \in [Positions -> 0..MaxSold] : table = leads
    BY DEF IInv, TypeOK, MaxSold
  <2>2. leads' = Recorded(table, p, counted)
    BY <1>5, <2>1
  <2>. QED  BY <2>1, <2>2, RecordedOutcome
<1>10. TypeOK'
  BY <1>1, <1>7, <1>9 DEF IInv, TypeOK, MaxSold
<1>11. QueuesAreUnsold'
  BY <1>1, <1>5, <1>6, SameQueues
<1>12. UnopenedAreWhole'
  BY <1>1 DEF IInv, UnopenedAreWhole
<1>13. \A u \in Sells : u # t => tasks[u].pc \in {"unseen", "quote", "done"}
  BY <1>1, OthersWait
<1>14. final[p] = counted \/ Complete(p)
  BY <1>1, <1>2, <1>3 DEF IInv, CountedAreComplete
<1>15. \A u \in Sells : Carries(u)'
  <2>1. \A u \in Sells : u # t => Carries(u)'
    BY <1>1, <1>7, <1>13 DEF IInv, Carries
  <2>2. Carries(t)'
    BY <1>1, <1>2, <1>6, <1>7, <1>8 DEF IInv, Carries
  <2>. QED  BY <2>1, <2>2
<1>16. RemainingIsAccounted'
  BY <1>1 DEF IInv, RemainingIsAccounted, Sold
<1>17. MeasurementsAgree'
  BY <1>1, <1>9, <1>14 DEF IInv, MeasurementsAgree, Complete
<1>18. CountedAreComplete'
  <2>1. \A q \in Positions : Complete(q) => Complete(q)'
    BY <1>1, <1>9 DEF Complete
  <2>2. ASSUME NEW u \in Sells, tasks'[u].pc = "quote", final'[Position(u)'] # Unmeasured
        PROVE  Complete(Position(u))' \/ Position(u)' = p
    <3>1. tasks[u].pc = "quote" /\ Position(u)' = Position(u) /\ Position(u) \in Positions
      BY <1>6, <1>7, <2>2, PositionIsQueued
    <3>2. Position(u) # p => Complete(Position(u))
      BY <1>1, <1>2, <2>2, <3>1 DEF IInv, CountedAreComplete
    <3>. QED  BY <1>1, <1>9, <3>1, <3>2 DEF Complete
  <2>3. t \in running' /\ tasks'[t].pc \in {"leads", "v5"} /\ Position(t)' = p
    BY <1>5, <1>6, <1>7, <1>8
  <2>4. final'[p] = tasks'[t].counted \/ Complete(p)'
    BY <1>1, <1>6, <1>7, <1>14, <2>1
  <2>5. \A u \in Sells : tasks'[u].pc \in Finishing => u = t
    BY <1>7, <1>13
  <2>6. \A q \in Positions : final'[q] # Unmeasured => lifecycle'[q].opened /\ lifecycle'[q].remaining = 0
    BY <1>1 DEF IInv, CountedAreComplete
  <2>. QED  BY <1>6, <1>7, <1>8, <1>9, <2>2, <2>3, <2>4, <2>5, <2>6 DEF CountedAreComplete
<1>19. SpentAreBeingMeasured'
  <2>1. SUFFICES ASSUME crashes = 0, NEW q \in Positions, lifecycle[q].opened, lifecycle[q].remaining = 0,
                        v5[q] = Unmeasured
                 PROVE  \E u \in running' : tasks'[u].pc \in Finishing /\ Position(u)' = q
    BY <1>1 DEF SpentAreBeingMeasured
  <2>2. q = p
    BY <1>1, <1>2, <2>1 DEF IInv, SpentAreBeingMeasured
  <2>. QED  BY <1>5, <1>6, <1>7, <1>8, <2>2
<1>. QED  BY <1>1, <1>7, <1>10, <1>11, <1>12, <1>15, <1>16, <1>17, <1>18, <1>19 DEF IInv

LEMMA FinaliseV5KeepsIInv ==
  ASSUME IInv, NEW t \in Sells, FinaliseV5(t)
  PROVE  IInv'
<1>. USE StagedExitAssumption DEF Busy, Finishing
<1>1. /\ running = {t} /\ tasks[t].pc = "v5"
      /\ lifecycle' = lifecycle /\ fills' = fills /\ final' = final /\ leads' = leads /\ crashes' = crashes
  BY DEF FinaliseV5
<1>2. PICK p \in Positions : p = Position(t) /\ tasks[t] \in TaskStates
  BY <1>1, PositionIsQueued
<1>3. PICK counted \in 1..MaxSold : counted = tasks[t].counted
  <2>1. tasks[t].counted > 0
    BY <1>1 DEF IInv, Carries
  <2>2. tasks[t].counted \in 0..MaxSold
    BY <1>2 DEF TaskStates
  <2>3. MaxSold \in Nat
    BY FS_CardinalityType DEF MaxSold
  <2>. QED  BY <2>1, <2>2, <2>3
<1>4. v5' = Recorded(v5, p, counted)
  BY <1>2, <1>3 DEF FinaliseV5
<1>5. PICK task \in TaskStates : Moves(t, task)
  BY <1>1, NextPositionMoves DEF FinaliseV5
<1>6. /\ tasks' = [tasks EXCEPT ![t] = task] /\ running' = (IF task.pc = "done" THEN {} ELSE {t})
      /\ task.pc \in {"consider", "done"}
  BY <1>5 DEF Moves
<1>7. /\ tasks' \in [Sells -> TaskStates]
      /\ tasks'[t] = task
      /\ \A u \in Sells : u # t => tasks'[u] = tasks[u] /\ Position(u)' = Position(u)
      /\ \A u \in Sells :
           /\ tasks'[u].pc \in {"unseen", "consider", "quote", "final", "leads", "v5", "done"}
           /\ tasks'[u].queue \in Seq(Positions)
           /\ tasks'[u].pc \in {"unseen", "quote", "done"} <=> u \notin running'
      /\ running' \subseteq Sells
  BY <1>1, <1>6, TasksTyped
<1>8. /\ v5' \in [Positions -> 0..MaxSold]
      /\ v5'[p] = (IF v5[p] = Unmeasured THEN counted ELSE v5[p])
      /\ v5'[p] # Unmeasured
      /\ \A q \in Positions : q # p => v5'[q] = v5[q]
  <2>1. PICK table \in [Positions -> 0..MaxSold] : table = v5
    BY DEF IInv, TypeOK, MaxSold
  <2>2. v5' = Recorded(table, p, counted)
    BY <1>4, <2>1
  <2>. QED  BY <2>1, <2>2, RecordedOutcome
<1>9. TypeOK'
  BY <1>1, <1>7, <1>8 DEF IInv, TypeOK, MaxSold
<1>10. QueuesAreUnsold'
  BY <1>1, <1>5, MovedQueues
<1>11. UnopenedAreWhole'
  BY <1>1 DEF IInv, UnopenedAreWhole
<1>12. \A u \in Sells : u # t => tasks[u].pc \in {"unseen", "quote", "done"}
  BY <1>1, OthersWait
<1>13. /\ final[p] = counted \/ Complete(p)
       /\ leads[p] # Unmeasured
  BY <1>1, <1>2, <1>3 DEF IInv, CountedAreComplete
<1>14. \A u \in Sells : Carries(u)'
  <2>1. \A u \in Sells : u # t => Carries(u)'
    BY <1>1, <1>7, <1>12 DEF IInv, Carries
  <2>2. Carries(t)'
    BY <1>6, <1>7 DEF Carries
  <2>. QED  BY <2>1, <2>2
<1>15. RemainingIsAccounted'
  BY <1>1 DEF IInv, RemainingIsAccounted, Sold
<1>16. MeasurementsAgree'
  BY <1>1, <1>8, <1>13 DEF IInv, MeasurementsAgree, Complete
<1>17. CountedAreComplete'
  <2>1. \A q \in Positions : q = p \/ Complete(q) => leads'[q] # Unmeasured /\ v5'[q] # Unmeasured
    BY <1>1, <1>8, <1>13 DEF Complete
  <2>2. ASSUME NEW u \in Sells, tasks'[u].pc = "quote", final'[Position(u)'] # Unmeasured
        PROVE  Complete(Position(u))'
    <3>1. tasks[u].pc = "quote" /\ Position(u)' = Position(u) /\ Position(u) \in Positions
      BY <1>6, <1>7, <2>2, PositionIsQueued
    <3>2. Position(u) # p => Complete(Position(u))
      BY <1>1, <1>2, <2>2, <3>1 DEF IInv, CountedAreComplete
    <3>. QED  BY <2>1, <3>1, <3>2 DEF Complete
  <2>3. \A u \in Sells : tasks'[u].pc \notin Finishing
    BY <1>6, <1>7, <1>12
  <2>4. \A q \in Positions : final'[q] # Unmeasured => lifecycle'[q].opened /\ lifecycle'[q].remaining = 0
    BY <1>1 DEF IInv, CountedAreComplete
  <2>. QED  BY <2>2, <2>3, <2>4 DEF CountedAreComplete
<1>18. SpentAreBeingMeasured'
  <2>1. SUFFICES ASSUME crashes = 0, NEW q \in Positions, lifecycle[q].opened, lifecycle[q].remaining = 0
                 PROVE  v5'[q] # Unmeasured
    BY <1>1 DEF SpentAreBeingMeasured
  <2>2. v5[q] # Unmeasured \/ q = p
    BY <1>1, <1>2, <2>1 DEF IInv, SpentAreBeingMeasured
  <2>. QED  BY <1>8, <2>2
<1>. QED  BY <1>1, <1>7, <1>9, <1>10, <1>11, <1>14, <1>15, <1>16, <1>17, <1>18 DEF IInv

LEMMA CrashKeepsIInv ==
  ASSUME IInv, Crash
  PROVE  IInv'
<1>. USE StagedExitAssumption DEF Busy, Finishing
<1>1. /\ running' = {} /\ crashes' = crashes + 1 /\ UNCHANGED durable
      /\ tasks' = [t \in Sells |-> IF tasks[t].pc = "unseen" THEN Unseen ELSE Done]
  BY DEF Crash
<1>2. /\ UnopenedAreWhole' /\ RemainingIsAccounted' /\ MeasurementsAgree'
      /\ lifecycle' = lifecycle /\ fills' = fills /\ final' = final /\ leads' = leads /\ v5' = v5
  BY <1>1, SameTables DEF durable
<1>3. MaxSold \in Nat
  BY FS_CardinalityType DEF MaxSold
<1>4. PICK unseen, done : unseen = Unseen /\ done = Done
  OBVIOUS
<1>5. /\ unseen \in TaskStates /\ unseen.pc = "unseen" /\ Len(unseen.queue) = 0
      /\ done \in TaskStates /\ done.pc = "done" /\ Len(done.queue) = 0
  BY <1>3, <1>4, EmptySeq DEF Unseen, Done, Idle, TaskStates
<1>6. /\ tasks' \in [Sells -> TaskStates]
      /\ \A t \in Sells : /\ tasks'[t].pc \in {tasks[t].pc, "done"} \cap {"unseen", "done"}
                          /\ Len(tasks'[t].queue) = 0
  BY <1>1, <1>4, <1>5
<1>7. TypeOK'
  <2>1. \A t \in Sells : tasks'[t].queue \in Seq(Positions)
    BY <1>6 DEF TaskStates
  <2>. QED  BY <1>1, <1>6, <2>1, SameTables DEF TypeOK, MaxSold
<1>8. QueuesAreUnsold'
  BY <1>2, <1>6 DEF IInv, QueuesAreUnsold
<1>9. \A t \in Sells : Carries(t)'
  BY <1>6 DEF Carries
<1>10. CountedAreComplete'
  BY <1>2, <1>6 DEF IInv, CountedAreComplete
<1>11. SpentAreBeingMeasured'
  BY <1>1 DEF IInv, SpentAreBeingMeasured
<1>. QED  BY <1>1, <1>2, <1>6, <1>7, <1>8, <1>9, <1>10, <1>11 DEF IInv

-----------------------------------------------------------------------------
LEMMA InitIInv ==
  Init => IInv
<1>. SUFFICES ASSUME Init  PROVE IInv
  OBVIOUS
<1>. USE StagedExitAssumption DEF Busy, Finishing
<1>1. /\ lifecycle = [p \in Positions |-> NoLifecycle]
      /\ fills = [p \in Positions |-> [s \in Sells |-> 0]]
      /\ final = [p \in Positions |-> Unmeasured]
      /\ leads = [p \in Positions |-> Unmeasured]
      /\ v5 = [p \in Positions |-> Unmeasured]
      /\ running = {}
      /\ crashes = 0
      /\ tasks = [t \in Sells |-> Unseen]
  BY DEF Init
<1>2. MaxSold \in Nat
  BY FS_CardinalityType DEF MaxSold
<1>3. PICK unseen : unseen = Unseen
  OBVIOUS
<1>4. unseen \in TaskStates /\ unseen.pc = "unseen" /\ Len(unseen.queue) = 0
  BY <1>2, <1>3, EmptySeq DEF Unseen, Idle, TaskStates
<1>5. tasks \in [Sells -> TaskStates] /\ \A t \in Sells : tasks[t].pc = "unseen" /\ Len(tasks[t].queue) = 0
  BY <1>1, <1>3, <1>4
<1>6. NoLifecycle \in Lifecycle /\ ~NoLifecycle.opened
  BY DEF NoLifecycle, Lifecycle
<1>7. TypeOK
  <2>1. \A t \in Sells : tasks[t].queue \in Seq(Positions)
    BY <1>5 DEF TaskStates
  <2>2. \A outcome \in {final, leads, v5} : outcome \in [Positions -> 0..MaxSold]
    BY <1>1, <1>2 DEF Unmeasured
  <2>3. lifecycle \in [Positions -> Lifecycle]
    BY <1>1, <1>6
  <2>4. fills \in [Positions -> [Sells -> 0..TotalRaw]]
    BY <1>1
  <2>. QED  BY <1>1, <1>5, <2>1, <2>2, <2>3, <2>4 DEF TypeOK, MaxSold
<1>8. QueuesAreUnsold
  BY <1>1, <1>5 DEF QueuesAreUnsold
<1>9. UnopenedAreWhole
  BY <1>1 DEF UnopenedAreWhole
<1>10. \A t \in Sells : Carries(t)
  BY <1>5 DEF Carries
<1>11. \A p \in Positions : ~lifecycle[p].opened
  BY <1>1, <1>6
<1>12. RemainingIsAccounted /\ SpentAreBeingMeasured
  BY <1>11 DEF RemainingIsAccounted, SpentAreBeingMeasured
<1>13. MeasurementsAgree
  BY <1>1 DEF MeasurementsAgree
<1>14. CountedAreComplete
  BY <1>1, <1>5 DEF CountedAreComplete
<1>. QED  BY <1>1, <1>5, <1>7, <1>8, <1>9, <1>10, <1>12, <1>13, <1>14 DEF IInv

LEMMA NextIInv ==
  IInv /\ [Next]_vars => IInv'
<1>. SUFFICES ASSUME IInv, [Next]_vars  PROVE IInv'
  OBVIOUS
<1>1. ASSUME NEW t \in Sells, NEW order \in SetToSeqs(OpenPositions), ObserveSell(t, order)
      PROVE  IInv'
  BY <1>1, ObserveKeepsIInv
<1>2. ASSUME NEW t \in Sells, NEW signal \in {"hold", "derisk", "urgent"}, Consider(t, signal)
      PROVE  IInv'
  BY <1>2, ConsiderKeepsIInv
<1>3. ASSUME NEW t \in Sells, RouteUnavailable(t)  PROVE IInv'
  BY <1>3, RouteUnavailableKeepsIInv
<1>4. ASSUME NEW t \in Sells, Fill(t)  PROVE IInv'
  BY <1>4, FillKeepsIInv
<1>5. ASSUME NEW t \in Sells, FinaliseFinal(t)  PROVE IInv'
  BY <1>5, FinaliseFinalKeepsIInv
<1>6. ASSUME NEW t \in Sells, FinaliseLead(t)  PROVE IInv'
  BY <1>6, FinaliseLeadKeepsIInv
<1>7. ASSUME NEW t \in Sells, FinaliseV5(t)  PROVE IInv'
  BY <1>7, FinaliseV5KeepsIInv
<1>8. CASE Crash
  BY <1>8, CrashKeepsIInv
<1>9. CASE UNCHANGED vars
  <2>1. /\ UNCHANGED durable /\ lifecycle' = lifecycle /\ fills' = fills /\ final' = final
        /\ leads' = leads /\ v5' = v5 /\ tasks' = tasks /\ running' = running /\ crashes' = crashes
    BY <1>9 DEF vars, durable
  <2>2. TypeOK' /\ RemainingIsAccounted'
    BY <2>1 DEF IInv, TypeOK, RemainingIsAccounted, Sold
  <2>3. \A t \in Sells : Carries(t)'
    BY <2>1 DEF IInv, Carries, Position
  <2>4. CountedAreComplete' /\ SpentAreBeingMeasured'
    BY <2>1 DEF IInv, CountedAreComplete, SpentAreBeingMeasured, Complete, Position
  <2>. QED  BY <2>1, <2>2, <2>3, <2>4 DEF IInv, QueuesAreUnsold, UnopenedAreWhole, MeasurementsAgree
<1>. QED  BY <1>1, <1>2, <1>3, <1>4, <1>5, <1>6, <1>7, <1>8, <1>9 DEF Next

LEMMA IInvHolds == Spec => []IInv
<1>1. Init => IInv
  BY InitIInv
<1>2. IInv /\ [Next]_vars => IInv'
  BY NextIInv
<1>. QED  BY <1>1, <1>2, PTL DEF Spec

-----------------------------------------------------------------------------
(* Positions, fills, outcomes and sells stay well formed, and at most one  *)
(* sell is past its awaits.                                                *)
THEOREM TypeCorrect == Spec => []TypeOK
<1>1. IInv => TypeOK
  BY DEF IInv
<1>. QED  BY <1>1, IInvHolds, PTL

(* However many sells book their slices against the same amount, what a    *)
(* position has left is its total less what its fills sold.                *)
THEOREM RemainingIsKept == Spec => []RemainingIsAccounted
<1>1. IInv => RemainingIsAccounted
  BY DEF IInv
<1>. QED  BY <1>1, IInvHolds, PTL

(* The three outcomes of a position come from one finalisation, with the   *)
(* process lost between any two of them.                                   *)
THEOREM MeasurementsStayTogether == Spec => []MeasurementsAgree
<1>1. IInv => MeasurementsAgree
  BY DEF IInv
<1>. QED  BY <1>1, IInvHolds, PTL

(* Without a loss of the process a spent position is measured when the     *)
(* event loop is free.                                                     *)
THEOREM SpentAreMeasured == Spec => []SpentPositionsAreMeasured
<1>1. IInv => SpentPositionsAreMeasured
  BY DEF IInv, SpentAreBeingMeasured, SpentPositionsAreMeasured
<1>. QED  BY <1>1, IInvHolds, PTL

(* A late fill of a slice chosen earlier takes no position back a stage.   *)
THEOREM StagesOnlyAdvance == Spec => StageNeverRegresses
<1>. DEFINE Advances == \A p \in Positions : lifecycle'[p].stage >= lifecycle[p].stage
<1>1. ASSUME IInv, IInv', Next  PROVE Advances
  <2>1. \A p \in Positions : lifecycle[p].stage \in 0..3 /\ lifecycle'[p].stage \in 0..3
    BY <1>1 DEF IInv, TypeOK, Lifecycle
  <2>2. ASSUME NEW t \in Sells, NEW signal, Consider(t, signal)  PROVE Advances
    <3>1. PICK q \in Positions : q = Position(t)
      BY <1>1, <2>2, PositionIsQueued DEF Consider, Busy
    <3>2. lifecycle' = [lifecycle EXCEPT ![q] = IF lifecycle[q].opened THEN lifecycle[q] ELSE NewLifecycle]
      BY <2>2, <3>1 DEF Consider
    <3>3. ~lifecycle[q].opened => lifecycle[q].stage = 0
      BY <1>1 DEF IInv, UnopenedAreWhole, NoLifecycle
    <3>4. \A p \in Positions : p # q \/ lifecycle[q].opened => lifecycle'[p] = lifecycle[p]
      BY <1>1, <3>2 DEF IInv, TypeOK
    <3>. QED  BY <2>1, <3>3, <3>4
  <2>3. ASSUME NEW t \in Sells, Fill(t)  PROVE Advances
    <3>1. PICK q \in Positions : q = Position(t) /\ tasks[t] \in TaskStates
      BY <1>1, <2>3, PositionIsQueued DEF Fill, Busy
    <3>2. PICK b : b = Booked(lifecycle[q], tasks[t].raw, tasks[t].stage)
      OBVIOUS
    <3>3. lifecycle' = [lifecycle EXCEPT ![q] = b]
      BY <2>3, <3>1, <3>2 DEF Fill
    <3>4. b.stage >= lifecycle[q].stage
      BY <2>1, <3>1, <3>2 DEF Booked, TaskStates
    <3>5. DOMAIN lifecycle = Positions
      BY <1>1 DEF IInv, TypeOK
    <3>6. \A p \in Positions : p # q => lifecycle'[p] = lifecycle[p]
      BY <3>3, <3>5
    <3>7. lifecycle'[q].stage >= lifecycle[q].stage
      BY <2>1, <3>3, <3>4, <3>5
    <3>. QED  BY <2>1, <3>6, <3>7
  <2>4. ASSUME NEW t \in Sells, FinaliseFinal(t)  PROVE Advances
    <3>1. PICK q \in Positions : q = Position(t)
      BY <1>1, <2>4, PositionIsQueued DEF FinaliseFinal, Busy
    <3>2. PICK c : c = ClosedOut(lifecycle[q])
      OBVIOUS
    <3>3. lifecycle' = [lifecycle EXCEPT ![q] = c]
      BY <2>4, <3>1, <3>2 DEF FinaliseFinal
    <3>4. c.stage = lifecycle[q].stage
      BY <3>2 DEF ClosedOut
    <3>5. DOMAIN lifecycle = Positions
      BY <1>1 DEF IInv, TypeOK
    <3>6. \A p \in Positions : p # q => lifecycle'[p] = lifecycle[p]
      BY <3>3, <3>5
    <3>7. lifecycle'[q].stage >= lifecycle[q].stage
      BY <2>1, <3>3, <3>4, <3>5
    <3>. QED  BY <2>1, <3>6, <3>7
  <2>5. lifecycle' = lifecycle => Advances
    BY <2>1
  <2>6. \/ \E t \in Sells, signal \in {"hold", "derisk", "urgent"} : Consider(t, signal)
        \/ \E t \in Sells : Fill(t) \/ FinaliseFinal(t)
        \/ lifecycle' = lifecycle
    BY <1>1 DEF Next, ObserveSell, RouteUnavailable, FinaliseLead, FinaliseV5, Crash, durable
  <2>. QED  BY <2>2, <2>3, <2>4, <2>5, <2>6
<1>2. IInv /\ IInv' /\ [Next]_vars => [Advances]_vars
  BY <1>1
<1>3. Spec => [][Next]_vars
  BY DEF Spec
<1>. QED  BY <1>2, <1>3, IInvHolds, PTL DEF StageNeverRegresses

-----------------------------------------------------------------------------
(* What a fill does: the sell's first of the position, of the slice it     *)
(* chose, whatever the position has become.                                *)
LEMMA FillEffect ==
  ASSUME IInv, NEW t \in Sells, Fill(t), NEW p, p = Position(t)
  PROVE  /\ p \in Positions /\ tasks[t].pc = "quote" /\ tasks[t].raw \in 1..TotalRaw
         /\ lifecycle[p].opened /\ fills[p][t] = 0
         /\ UNCHANGED <<final, v5>>
         /\ \A u \in Sells : tasks[u].pc \notin Finishing
         /\ \A q \in Positions : q # p => lifecycle'[q] = lifecycle[q] /\ fills'[q] = fills[q]
         /\ lifecycle'[p] = Booked(lifecycle[p], tasks[t].raw, tasks[t].stage)
         /\ \A u \in Sells : u # t => fills'[p][u] = fills[p][u]
         /\ Sold(p) \in Nat /\ Sold(p)' = Sold(p) + tasks[t].raw
         /\ \A u \in Sells : u # t => tasks'[u] = tasks[u]
         /\ tasks'[t].pc # "quote"
         /\ tasks'[t].pc \in Finishing => Position(t)' = p
<1>. USE StagedExitAssumption DEF Busy, Finishing
<1>1. running = {} /\ tasks[t].pc = "quote" /\ UNCHANGED <<final, v5>>
  BY DEF Fill
<1>2. /\ p \in Positions /\ p = tasks[t].queue[1] /\ 1 \in 1..Len(tasks[t].queue)
      /\ tasks[t] \in TaskStates
  BY <1>1, PositionIsQueued
<1>3. PICK raw \in 1..TotalRaw : raw = tasks[t].raw
  BY <1>1, <1>2 DEF IInv, Carries, TaskStates
<1>4. lifecycle[p].opened
  BY <1>1, <1>2 DEF IInv, Carries
<1>5. fills[p][t] = 0 /\ fills[p] \in [Sells -> 0..TotalRaw]
  BY <1>1, <1>2 DEF IInv, QueuesAreUnsold, TypeOK
<1>6. PICK b : b = Booked(lifecycle[p], tasks[t].raw, tasks[t].stage)
  OBVIOUS
<1>7. fills' = [fills EXCEPT ![p][t] = raw] /\ lifecycle' = [lifecycle EXCEPT ![p] = b]
  BY <1>2, <1>3, <1>6 DEF Fill
<1>8. /\ lifecycle'[p] = b
      /\ \A q \in Positions : q # p => lifecycle'[q] = lifecycle[q] /\ fills'[q] = fills[q]
      /\ fills'[p] = [fills[p] EXCEPT ![t] = raw]
      /\ \A u \in Sells : u # t => fills'[p][u] = fills[p][u]
  BY <1>2, <1>7 DEF IInv, TypeOK
<1>9. Sold(p) \in Nat /\ Sold(p)' = Sold(p) + raw
  <2>1. PICK sales \in [Sells -> 0..TotalRaw] : sales = fills[p]
    BY <1>5
  <2>2. sales[t] = 0 /\ raw \in 0..TotalRaw
    BY <1>5, <2>1
  <2>3. Cardinality(UnitsSold([sales EXCEPT ![t] = raw])) = Cardinality(UnitsSold(sales)) + raw
    BY <2>2, SaleAdds
  <2>4. Cardinality(UnitsSold(sales)) \in Nat
    BY UnitsFinite, FS_CardinalityType
  <2>. QED  BY <1>8, <2>1, <2>3, <2>4 DEF Sold
<1>10. \A u \in Sells : tasks[u].pc \notin Finishing
  BY <1>1, OthersWait
<1>11. PICK task : /\ tasks' = [tasks EXCEPT ![t] = task] /\ task.pc # "quote"
                   /\ task.pc \in Finishing => task.queue = tasks[t].queue
  <2>1. CASE NextPosition(t)
    <3>1. PICK task \in TaskStates : Moves(t, task)
      BY <1>1, <2>1, NextPositionMoves
    <3>. QED  BY <3>1 DEF Moves
  <2>2. CASE Keep(t, Finalising("final", tasks[t].queue, 0))
    <3>1. PICK k : k = Finalising("final", tasks[t].queue, 0)
      OBVIOUS
    <3>2. k.pc = "final" /\ k.queue = tasks[t].queue
      BY <3>1 DEF Finalising
    <3>3. tasks' = [tasks EXCEPT ![t] = k]
      BY <2>2, <3>1 DEF Keep
    <3>. QED  BY <3>2, <3>3
  <2>3. NextPosition(t) \/ Keep(t, Finalising("final", tasks[t].queue, 0))
    BY DEF Fill
  <2>. QED  BY <2>1, <2>2, <2>3
<1>12. tasks'[t] = task /\ \A u \in Sells : u # t => tasks'[u] = tasks[u]
  BY <1>11 DEF IInv
<1>. QED  BY <1>1, <1>2, <1>3, <1>4, <1>5, <1>6, <1>8, <1>9, <1>10, <1>11, <1>12 DEF Position

(* What a sell that considers a position does: it opens the lifecycle of a *)
(* position it finds none of, and goes on to quote no more than remains.   *)
LEMMA ConsiderEffect ==
  ASSUME IInv, NEW t \in Sells, NEW signal, Consider(t, signal), NEW p, p = Position(t)
  PROVE  /\ p \in Positions
         /\ UNCHANGED <<fills, final, v5>>
         /\ \A u \in Sells : tasks[u].pc \notin Finishing
         /\ \A q \in Positions : q # p \/ lifecycle[p].opened => lifecycle'[q] = lifecycle[q]
         /\ ~ lifecycle[p].opened => lifecycle'[p] = NewLifecycle
         /\ \A u \in Sells : u # t => tasks'[u] = tasks[u]
         /\ tasks'[t].pc \notin Finishing
         /\ tasks'[t].pc = "quote" =>
              Position(t)' = p /\ tasks'[t].raw \in 1..lifecycle'[p].remaining
<1>. USE StagedExitAssumption DEF Busy, Finishing
<1>1. running = {t} /\ tasks[t].pc = "consider" /\ UNCHANGED <<fills, final, v5>>
  BY DEF Consider
<1>2. p \in Positions /\ tasks[t] \in TaskStates
  BY <1>1, PositionIsQueued
<1>3. PICK l : l = IF lifecycle[p].opened THEN lifecycle[p] ELSE NewLifecycle
  OBVIOUS
<1>4. l \in Lifecycle /\ l.remaining \in Nat
  BY <1>2, <1>3 DEF IInv, TypeOK, Lifecycle, NewLifecycle
<1>5. lifecycle' = [lifecycle EXCEPT ![p] = l]
  BY <1>2, <1>3 DEF Consider
<1>6. /\ lifecycle'[p] = l
      /\ \A q \in Positions : q # p \/ lifecycle[p].opened => lifecycle'[q] = lifecycle[q]
  BY <1>2, <1>3, <1>5 DEF IInv, TypeOK
<1>7. \A u \in Sells : tasks[u].pc \notin Finishing
  <2>1. \A u \in Sells : u # t => tasks[u].pc \in {"unseen", "quote", "done"}
    BY <1>1, OthersWait
  <2>. QED  BY <1>1, <2>1
<1>8. PICK task :
        /\ tasks' = [tasks EXCEPT ![t] = task] /\ task.pc \notin Finishing
        /\ task.pc = "quote" => task.queue = tasks[t].queue /\ task.raw \in 1..l.remaining
  <2>1. PICK urgent \in BOOLEAN : urgent = (signal = "urgent")
    OBVIOUS
  <2>2. CASE NextPosition(t)
    <3>1. PICK task \in TaskStates : Moves(t, task)
      BY <1>1, <2>2, NextPositionMoves
    <3>. QED  BY <3>1 DEF Moves
  <2>3. CASE ~ (signal = "hold" \/ Slice(l, urgent) = 0)
    <3>1. PICK k : k = Quoting(tasks[t].queue, Slice(l, urgent), NextStage(l, urgent), urgent)
      OBVIOUS
    <3>2. tasks' = [tasks EXCEPT ![t] = k]
      BY <1>2, <1>3, <2>1, <2>3, <3>1 DEF Consider, Await
    <3>3. Slice(l, urgent) \in 0..l.remaining
      BY <1>4, SliceFits
    <3>4. Slice(l, urgent) \in 1..l.remaining
      BY <1>4, <2>3, <3>3
    <3>5. k.pc = "quote" /\ k.queue = tasks[t].queue /\ k.raw \in 1..l.remaining
      BY <3>1, <3>4 DEF Quoting
    <3>. QED  BY <3>2, <3>5
  <2>. QED  BY <1>3, <2>1, <2>2, <2>3 DEF Consider
<1>9. tasks'[t] = task /\ \A u \in Sells : u # t => tasks'[u] = tasks[u]
  BY <1>8 DEF IInv
<1>. QED  BY <1>1, <1>2, <1>3, <1>6, <1>7, <1>8, <1>9 DEF Position

(* What the count of a spent position does.                                *)
LEMMA CountEffect ==
  ASSUME IInv, NEW t \in Sells, FinaliseFinal(t), NEW p, p = Position(t)
  PROVE  /\ p \in Positions /\ tasks[t].pc = "final"
         /\ UNCHANGED <<fills, v5>>
         /\ lifecycle[p].opened
         /\ lifecycle'[p] = ClosedOut(lifecycle[p])
         /\ final'[p] = IF final[p] = Unmeasured THEN Sold(p) ELSE final[p]
         /\ \A q \in Positions : q # p => lifecycle'[q] = lifecycle[q] /\ final'[q] = final[q]
         /\ \A u \in Sells : u # t => tasks'[u] = tasks[u]
         /\ tasks'[t].pc = "leads" /\ Position(t)' = p
<1>. USE StagedExitAssumption DEF Busy, Finishing
<1>1. tasks[t].pc = "final" /\ UNCHANGED <<fills, v5>>
  BY DEF FinaliseFinal
<1>2. p \in Positions
  BY <1>1, PositionIsQueued
<1>3. lifecycle[p].opened
  BY <1>1, <1>2 DEF IInv, Carries
<1>4. PICK c : c = ClosedOut(lifecycle[p])
  OBVIOUS
<1>5. PICK sold : sold = Sold(p)
  OBVIOUS
<1>6. PICK task : task = Finalising("leads", tasks[t].queue, sold)
  OBVIOUS
<1>7. /\ lifecycle' = [lifecycle EXCEPT ![p] = c]
      /\ final' = [final EXCEPT ![p] = IF final[p] = Unmeasured THEN sold ELSE final[p]]
      /\ tasks' = [tasks EXCEPT ![t] = task]
  BY <1>4, <1>5, <1>6 DEF FinaliseFinal, Keep, Recorded
<1>8. task.pc = "leads" /\ task.queue = tasks[t].queue
  BY <1>6 DEF Finalising
<1>9. DOMAIN final = Positions
  BY DEF IInv, TypeOK
<1>. QED  BY <1>1, <1>2, <1>3, <1>4, <1>5, <1>7, <1>8, <1>9 DEF Position, IInv, TypeOK

(* Every other step counts nothing and starts neither a quote nor the      *)
(* finalisation of a position.                                             *)
LEMMA OtherEffect ==
  ASSUME IInv, [Next]_vars, \A t \in Sells : ~ Fill(t) /\ ~ FinaliseFinal(t),
         \A t \in Sells, signal \in {"hold", "derisk", "urgent"} : ~ Consider(t, signal)
  PROVE  /\ UNCHANGED <<lifecycle, fills, final>>
         /\ \A u \in Sells : tasks'[u].pc = "quote" => tasks'[u] = tasks[u]
         /\ \A u \in Sells : tasks'[u].pc \in Finishing =>
              tasks[u].pc \in Finishing /\ Position(u)' = Position(u)
<1>. USE StagedExitAssumption DEF Busy, Finishing
<1>1. ASSUME NEW t \in Sells, NEW task, tasks' = [tasks EXCEPT ![t] = task],
             task.pc \in {"consider", "done"} \/ (task.pc = "v5" /\ tasks[t].pc = "leads"
                                                  /\ task.queue = tasks[t].queue)
      PROVE  /\ \A u \in Sells : tasks'[u].pc = "quote" => tasks'[u] = tasks[u]
             /\ \A u \in Sells : tasks'[u].pc \in Finishing =>
                  tasks[u].pc \in Finishing /\ Position(u)' = Position(u)
  <2>1. tasks'[t] = task /\ \A u \in Sells : u # t => tasks'[u] = tasks[u]
    BY <1>1 DEF IInv
  <2>. QED  BY <1>1, <2>1 DEF Position
<1>2. ASSUME NEW t \in Sells, tasks[t].pc \in Busy, NextPosition(t)
      PROVE  \E task : tasks' = [tasks EXCEPT ![t] = task] /\ task.pc \in {"consider", "done"}
  BY <1>2, NextPositionMoves DEF Moves
<1>3. ASSUME NEW t \in Sells, NEW order, ObserveSell(t, order)
      PROVE  /\ UNCHANGED <<lifecycle, fills, final>>
             /\ \E task : tasks' = [tasks EXCEPT ![t] = task] /\ task.pc \in {"consider", "done"}
  <2>1. PICK done : done = Done
    OBVIOUS
  <2>2. PICK next : next = Considering(order)
    OBVIOUS
  <2>3. done.pc = "done" /\ next.pc = "consider"
    BY <2>1, <2>2 DEF Done, Idle, Considering
  <2>4. tasks' = [tasks EXCEPT ![t] = done] \/ tasks' = [tasks EXCEPT ![t] = next]
    BY <1>3, <2>1, <2>2 DEF ObserveSell, Await, Keep
  <2>5. UNCHANGED <<lifecycle, fills, final>>
    BY <1>3 DEF ObserveSell, durable
  <2>. QED  BY <2>3, <2>4, <2>5
<1>4. ASSUME NEW t \in Sells, RouteUnavailable(t) \/ FinaliseV5(t)
      PROVE  /\ UNCHANGED <<lifecycle, fills, final>>
             /\ \E task : tasks' = [tasks EXCEPT ![t] = task] /\ task.pc \in {"consider", "done"}
  BY <1>2, <1>4 DEF RouteUnavailable, FinaliseV5, durable
<1>5. ASSUME NEW t \in Sells, FinaliseLead(t)
      PROVE  /\ UNCHANGED <<lifecycle, fills, final>>
             /\ \E task : /\ tasks' = [tasks EXCEPT ![t] = task]
                          /\ task.pc = "v5" /\ tasks[t].pc = "leads" /\ task.queue = tasks[t].queue
  <2>1. PICK k : k = Finalising("v5", tasks[t].queue, tasks[t].counted)
    OBVIOUS
  <2>2. k.pc = "v5" /\ k.queue = tasks[t].queue
    BY <2>1 DEF Finalising
  <2>3. tasks' = [tasks EXCEPT ![t] = k] /\ tasks[t].pc = "leads" /\ UNCHANGED <<lifecycle, fills, final>>
    BY <1>5, <2>1 DEF FinaliseLead, Keep
  <2>. QED  BY <2>2, <2>3
<1>6. CASE Crash
  <2>1. \A u \in Sells : tasks'[u].pc \in {"unseen", "done"}
    BY <1>6 DEF Crash, Unseen, Done, Idle
  <2>. QED  BY <1>6, <2>1 DEF Crash, durable
<1>7. CASE UNCHANGED vars
  BY <1>7 DEF vars, Position
<1>8. \/ \E t \in Sells : \E order \in SetToSeqs(OpenPositions) : ObserveSell(t, order)
      \/ \E t \in Sells : RouteUnavailable(t) \/ FinaliseLead(t) \/ FinaliseV5(t)
      \/ Crash \/ UNCHANGED vars
  BY DEF Next
<1>. QED  BY <1>1, <1>3, <1>4, <1>5, <1>6, <1>7, <1>8

(* No two sells await a route for the same position: what would have to    *)
(* keep them apart, since nothing in the code does.                        *)
SellsAreApart ==
  \A t, u \in Sells :
    t # u /\ tasks[t].pc = "quote" /\ tasks[u].pc = "quote" => Position(t) # Position(u)

(* What is left of a position covers the slice a sell has chosen of it.    *)
SlicesFit ==
  /\ \A p \in Positions : lifecycle[p].opened => Sold(p) + lifecycle[p].remaining <= TotalRaw
  /\ \A t \in Sells : tasks[t].pc = "quote" => Sold(Position(t)) + tasks[t].raw <= TotalRaw

LEMMA SoldIsNat == TypeOK => \A p \in Positions : Sold(p) \in Nat
<1>. SUFFICES ASSUME TypeOK, NEW p \in Positions PROVE Sold(p) \in Nat
  OBVIOUS
<1>1. PICK sales \in [Sells -> 0..TotalRaw] : sales = fills[p]
  BY DEF TypeOK
<1>. QED  BY <1>1, UnitsFinite, FS_CardinalityType DEF Sold

LEMMA QuotedPosition ==
  ASSUME IInv, NEW t \in Sells, tasks[t].pc = "quote"
  PROVE  Position(t) \in Positions /\ lifecycle[Position(t)].opened /\ tasks[t].raw \in 1..TotalRaw
BY PositionIsQueued DEF Busy, IInv, Carries, TaskStates

LEMMA FillFits ==
  ASSUME IInv, IInv', SellsAreApart, SlicesFit, NEW t \in Sells, Fill(t)
  PROVE  SlicesFit'
<1>. USE StagedExitAssumption
<1>0. PICK p : p = Position(t)
  OBVIOUS
<1>1. PICK raw : raw = tasks[t].raw
  OBVIOUS
<1>2. /\ p \in Positions /\ raw \in 1..TotalRaw /\ lifecycle[p].opened /\ tasks[t].pc = "quote"
      /\ \A q \in Positions : q # p => lifecycle'[q] = lifecycle[q] /\ fills'[q] = fills[q]
      /\ lifecycle'[p].remaining = IF raw < lifecycle[p].remaining THEN lifecycle[p].remaining - raw ELSE 0
      /\ Sold(p) \in Nat /\ Sold(p)' = Sold(p) + raw
      /\ \A u \in Sells : u # t => tasks'[u] = tasks[u]
      /\ tasks'[t].pc # "quote"
  <2>1. /\ p \in Positions /\ tasks[t].raw \in 1..TotalRaw /\ lifecycle[p].opened
        /\ tasks[t].pc = "quote"
    BY <1>0, FillEffect
  <2>2. ASSUME NEW q \in Positions, q # p
        PROVE  lifecycle'[q] = lifecycle[q] /\ fills'[q] = fills[q]
    BY <1>0, <2>2, FillEffect
  <2>3. lifecycle'[p] = Booked(lifecycle[p], tasks[t].raw, tasks[t].stage)
    BY <1>0, FillEffect
  <2>4. Sold(p) \in Nat /\ Sold(p)' = Sold(p) + tasks[t].raw
    BY <1>0, FillEffect
  <2>5. (\A u \in Sells : u # t => tasks'[u] = tasks[u]) /\ tasks'[t].pc # "quote"
    BY <1>0, FillEffect
  <2>. QED  BY <1>1, <2>1, <2>2, <2>3, <2>4, <2>5 DEF Booked
<1>. DEFINE Same(q) == Sold(q)' = Sold(q)
<1>10. \A q \in Positions : q # p => Same(q)
  BY <1>2 DEF Sold
<1>3. lifecycle[p].remaining \in 0..TotalRaw
  BY <1>2 DEF IInv, TypeOK, Lifecycle
<1>5. /\ Sold(p) + raw <= TotalRaw
      /\ Sold(p) + lifecycle[p].remaining <= TotalRaw
  BY <1>0, <1>1, <1>2 DEF SlicesFit
<1>6. PICK sold \in Nat : sold = Sold(p)
  BY <1>2
<1>7. Sold(p)' + lifecycle'[p].remaining <= TotalRaw
  BY <1>2, <1>3, <1>5, <1>6
<1>8. ASSUME NEW q \in Positions, lifecycle'[q].opened
      PROVE  Sold(q)' + lifecycle'[q].remaining <= TotalRaw
  BY <1>2, <1>7, <1>8, <1>10 DEF SlicesFit
<1>9. ASSUME NEW u \in Sells, tasks'[u].pc = "quote"
      PROVE  (Sold(Position(u)) + tasks[u].raw <= TotalRaw)'
  <2>1. u # t /\ tasks'[u] = tasks[u] /\ Position(u)' = Position(u) /\ tasks[u].pc = "quote"
    BY <1>2, <1>9 DEF Position
  <2>2. Position(u) \in Positions /\ Position(u) # p
    BY <1>0, <1>2, <2>1, QuotedPosition DEF SellsAreApart
  <2>3. PICK q \in Positions : q = Position(u) /\ q # p
    BY <2>2
  <2>4. Sold(q)' = Sold(q) /\ Sold(q) + tasks[u].raw <= TotalRaw
    BY <1>2, <1>10, <2>1, <2>3 DEF SlicesFit
  <2>. QED  BY <2>1, <2>3, <2>4
<1>. QED  BY <1>8, <1>9 DEF SlicesFit

LEMMA ConsiderFits ==
  ASSUME IInv, IInv', SlicesFit, NEW t \in Sells, NEW signal, Consider(t, signal)
  PROVE  SlicesFit'
<1>. USE StagedExitAssumption
<1>0. PICK p : p = Position(t)
  OBVIOUS
<1>1. /\ p \in Positions /\ UNCHANGED fills
      /\ \A q \in Positions : q # p \/ lifecycle[p].opened => lifecycle'[q] = lifecycle[q]
      /\ ~ lifecycle[p].opened => lifecycle'[p] = NewLifecycle
      /\ \A u \in Sells : u # t => tasks'[u] = tasks[u]
      /\ tasks'[t].pc = "quote" => Position(t)' = p /\ tasks'[t].raw \in 1..lifecycle'[p].remaining
  BY <1>0, ConsiderEffect
<1>2. \A q : Sold(q)' = Sold(q)
  BY <1>1 DEF Sold
<1>3. \A q \in Positions : Sold(q) \in Nat
  BY SoldIsNat DEF IInv
<1>4. ~ lifecycle[p].opened => Sold(p) = 0
  <2>. SUFFICES ASSUME ~ lifecycle[p].opened PROVE Sold(p) = 0
    OBVIOUS
  <2>1. PICK sales : sales = fills[p]
    OBVIOUS
  <2>2. \A u \in Sells : sales[u] = 0
    BY <1>1, <2>1 DEF IInv, UnopenedAreWhole
  <2>. QED  BY <2>1, <2>2, NothingSold DEF Sold
<1>5. lifecycle' \in [Positions -> Lifecycle]
  BY DEF IInv, TypeOK
<1>6. Sold(p) + lifecycle'[p].remaining <= TotalRaw
  <2>1. CASE lifecycle[p].opened
    BY <1>1, <2>1 DEF SlicesFit
  <2>2. CASE ~ lifecycle[p].opened
    BY <1>1, <1>4, <2>2 DEF NewLifecycle
  <2>. QED  BY <2>1, <2>2
<1>7. ASSUME NEW q \in Positions, lifecycle'[q].opened
      PROVE  Sold(q)' + lifecycle'[q].remaining <= TotalRaw
  BY <1>1, <1>2, <1>6, <1>7 DEF SlicesFit
<1>8. ASSUME NEW u \in Sells, tasks'[u].pc = "quote"
      PROVE  (Sold(Position(u)) + tasks[u].raw <= TotalRaw)'
  <2>1. CASE u = t
    <3>1. PICK n \in Nat : n = Sold(p)
      BY <1>1, <1>3
    <3>2. PICK r \in 0..TotalRaw : r = lifecycle'[p].remaining
      BY <1>1, <1>5 DEF Lifecycle
    <3>. QED  BY <1>1, <1>2, <1>6, <1>8, <2>1, <3>1, <3>2
  <2>2. CASE u # t
    BY <1>1, <1>2, <1>8, <2>2 DEF SlicesFit, Position
  <2>. QED  BY <2>1, <2>2
<1>. QED  BY <1>7, <1>8 DEF SlicesFit

LEMMA FitsNext == IInv /\ IInv' /\ SellsAreApart /\ SlicesFit /\ [Next]_vars => SlicesFit'
<1>. SUFFICES ASSUME IInv, IInv', SellsAreApart, SlicesFit, [Next]_vars PROVE SlicesFit'
  OBVIOUS
<1>. USE StagedExitAssumption
<1>1. ASSUME NEW t \in Sells, FinaliseFinal(t) PROVE SlicesFit'
  <2>0. PICK p : p = Position(t)
    OBVIOUS
  <2>1. /\ p \in Positions /\ UNCHANGED fills /\ lifecycle[p].opened
        /\ lifecycle'[p] = ClosedOut(lifecycle[p])
        /\ \A q \in Positions : q # p => lifecycle'[q] = lifecycle[q]
        /\ \A u \in Sells : u # t => tasks'[u] = tasks[u]
        /\ tasks'[t].pc = "leads"
    BY <1>1, <2>0, CountEffect
  <2>2. \A q : Sold(q)' = Sold(q)
    BY <2>1 DEF Sold
  <2>3. Sold(p) \in Nat /\ lifecycle[p].remaining \in 0..TotalRaw
    BY <2>1, SoldIsNat DEF IInv, TypeOK, Lifecycle
  <2>4. Sold(p) + lifecycle[p].remaining <= TotalRaw
    BY <2>1 DEF SlicesFit
  <2>5. Sold(p)' + lifecycle'[p].remaining <= TotalRaw
    BY <2>1, <2>2, <2>3, <2>4 DEF ClosedOut
  <2>6. \A q \in Positions : lifecycle'[q].opened => Sold(q)' + lifecycle'[q].remaining <= TotalRaw
    BY <2>1, <2>2, <2>5 DEF SlicesFit
  <2>7. \A u \in Sells : tasks'[u].pc = "quote" => tasks'[u] = tasks[u] /\ Position(u)' = Position(u)
    BY <2>1 DEF Position
  <2>8. \A u \in Sells : tasks'[u].pc = "quote" => (Sold(Position(u)) + tasks[u].raw <= TotalRaw)'
    BY <2>2, <2>7 DEF SlicesFit
  <2>. QED  BY <2>6, <2>8 DEF SlicesFit
<1>2. CASE /\ \A t \in Sells : ~ Fill(t) /\ ~ FinaliseFinal(t)
           /\ \A t \in Sells, signal \in {"hold", "derisk", "urgent"} : ~ Consider(t, signal)
  <2>1. /\ UNCHANGED <<lifecycle, fills>>
        /\ \A u \in Sells : tasks'[u].pc = "quote" => tasks'[u] = tasks[u]
    BY <1>2, OtherEffect
  <2>2. \A q : Sold(q)' = Sold(q)
    BY <2>1 DEF Sold
  <2>3. \A u \in Sells : tasks'[u].pc = "quote" => Position(u)' = Position(u)
    BY <2>1 DEF Position
  <2>. QED  BY <2>1, <2>2, <2>3 DEF SlicesFit
<1>. QED  BY <1>1, <1>2, FillFits, ConsiderFits

(* As long as no two sells await a route for the same position, its sells  *)
(* never sell more than it holds: overlapping quotes are the only way to   *)
(* oversell, whatever the exits, the signals and the losses of the process.*)
THEOREM ApartNeverOversold == Spec /\ []SellsAreApart => []SoldWithinHeld
<1>1. Init => SlicesFit
  BY DEF Init, SlicesFit, NoLifecycle, Unseen, Idle
<1>2. IInv /\ SlicesFit => SoldWithinHeld
  <2>. SUFFICES ASSUME IInv, SlicesFit, NEW p \in Positions PROVE Sold(p) <= TotalRaw
    BY DEF SoldWithinHeld
  <2>1. CASE lifecycle[p].opened
    <3>1. Sold(p) \in Nat /\ lifecycle[p].remaining \in 0..TotalRaw
      BY SoldIsNat DEF IInv, TypeOK, Lifecycle
    <3>2. Sold(p) + lifecycle[p].remaining <= TotalRaw
      BY <2>1 DEF SlicesFit
    <3>. QED  BY <3>1, <3>2, StagedExitAssumption
  <2>2. CASE ~ lifecycle[p].opened
    <3>1. PICK sales : sales = fills[p]
      OBVIOUS
    <3>2. \A u \in Sells : sales[u] = 0
      BY <2>2, <3>1 DEF IInv, UnopenedAreWhole
    <3>. QED  BY <3>1, <3>2, NothingSold, StagedExitAssumption DEF Sold
  <2>. QED  BY <2>1, <2>2
<1>. QED  BY <1>1, <1>2, FitsNext, IInvHolds, PTL DEF Spec

(* Every outcome of a position counts all that its sells ever sold of it.  *)
OutcomesCountEveryFill ==
  \A p \in Positions :
    /\ final[p] # Unmeasured => final[p] = Sold(p)
    /\ v5[p] # Unmeasured => v5[p] = Sold(p)

(* A position that is counted, or about to be, has no sell that could      *)
(* still add a fill.                                                       *)
CountsAreLast ==
  /\ \A p \in Positions : final[p] # Unmeasured => final[p] = Sold(p)
  /\ \A t \in Sells : tasks[t].pc = "quote" => final[Position(t)] = Unmeasured
  /\ \A t, u \in Sells :
       tasks[t].pc \in Finishing /\ tasks[u].pc = "quote" => Position(t) # Position(u)

LEMMA FillCounts ==
  ASSUME IInv, SellsAreApart, CountsAreLast, NEW t \in Sells, Fill(t)
  PROVE  CountsAreLast'
<1>0. PICK p : p = Position(t)
  OBVIOUS
<1>1. /\ p \in Positions /\ tasks[t].pc = "quote" /\ UNCHANGED final
      /\ \A u \in Sells : tasks[u].pc \notin Finishing
  BY <1>0, FillEffect
<1>2. /\ \A q \in Positions : q # p => fills'[q] = fills[q]
      /\ \A u \in Sells : u # t => tasks'[u] = tasks[u]
      /\ tasks'[t].pc # "quote"
      /\ tasks'[t].pc \in Finishing => Position(t)' = p
  BY <1>0, FillEffect
<1>3. \A q \in Positions : final'[q] # Unmeasured => final'[q] = Sold(q)'
  <2>1. final[p] = Unmeasured
    BY <1>0, <1>1 DEF CountsAreLast
  <2>. QED  BY <1>1, <1>2, <2>1 DEF CountsAreLast, Sold
<1>4. ASSUME NEW u \in Sells, tasks'[u].pc = "quote"
      PROVE  /\ u # t /\ tasks'[u] = tasks[u] /\ Position(u)' = Position(u)
             /\ final[Position(u)] = Unmeasured /\ Position(u) # p
  BY <1>0, <1>1, <1>2, <1>4 DEF CountsAreLast, SellsAreApart, Position
<1>5. \A u \in Sells : tasks'[u].pc \in Finishing => u = t
  BY <1>1, <1>2
<1>. QED  BY <1>1, <1>2, <1>3, <1>4, <1>5 DEF CountsAreLast

LEMMA ConsiderCounts ==
  ASSUME IInv, CountsAreLast, NEW t \in Sells, NEW signal, Consider(t, signal)
  PROVE  CountsAreLast'
<1>. USE StagedExitAssumption
<1>0. PICK p : p = Position(t)
  OBVIOUS
<1>1. /\ p \in Positions /\ UNCHANGED <<fills, final>>
      /\ \A q \in Positions : q # p \/ lifecycle[p].opened => lifecycle'[q] = lifecycle[q]
      /\ \A u \in Sells : tasks[u].pc \notin Finishing
  BY <1>0, ConsiderEffect
<1>2. /\ \A u \in Sells : u # t => tasks'[u] = tasks[u]
      /\ tasks'[t].pc \notin Finishing
      /\ tasks'[t].pc = "quote" => Position(t)' = p /\ tasks'[t].raw \in 1..lifecycle'[p].remaining
  BY <1>0, ConsiderEffect
<1>3. \A q \in Positions : final'[q] # Unmeasured => final'[q] = Sold(q)'
  BY <1>1 DEF CountsAreLast, Sold
<1>4. ASSUME tasks'[t].pc = "quote" PROVE final[p] = Unmeasured
  <2>1. lifecycle'[p].remaining # 0
    <3>1. PICK r : r = lifecycle'[p].remaining
      OBVIOUS
    <3>2. 1..0 = {}
      OBVIOUS
    <3>. QED  BY <1>2, <1>4, <3>1, <3>2
  <2>. QED  BY <1>1, <2>1 DEF IInv, CountedAreComplete
<1>5. ASSUME NEW u \in Sells, tasks'[u].pc = "quote" PROVE final'[Position(u)'] = Unmeasured
  <2>1. CASE u = t
    BY <1>1, <1>2, <1>4, <1>5, <2>1
  <2>2. CASE u # t
    BY <1>1, <1>2, <1>5, <2>2 DEF CountsAreLast, Position
  <2>. QED  BY <2>1, <2>2
<1>6. \A u \in Sells : tasks'[u].pc \notin Finishing
  BY <1>1, <1>2
<1>. QED  BY <1>3, <1>5, <1>6 DEF CountsAreLast

LEMMA FinalCounts ==
  ASSUME IInv, CountsAreLast, NEW t \in Sells, FinaliseFinal(t)
  PROVE  CountsAreLast'
<1>0. PICK p : p = Position(t)
  OBVIOUS
<1>1. /\ p \in Positions /\ tasks[t].pc = "final" /\ UNCHANGED fills
      /\ final'[p] = IF final[p] = Unmeasured THEN Sold(p) ELSE final[p]
      /\ \A q \in Positions : q # p => final'[q] = final[q]
  BY <1>0, CountEffect
<1>2. /\ \A u \in Sells : u # t => tasks'[u] = tasks[u]
      /\ tasks'[t].pc = "leads" /\ Position(t)' = p
  BY <1>0, CountEffect
<1>3. \A q \in Positions : final'[q] # Unmeasured => final'[q] = Sold(q)'
  <2>1. \A q : Sold(q)' = Sold(q)
    BY <1>1 DEF Sold
  <2>. QED  BY <1>1, <2>1 DEF CountsAreLast
<1>4. ASSUME NEW u \in Sells, tasks'[u].pc = "quote"
      PROVE  /\ u # t /\ tasks'[u] = tasks[u] /\ Position(u)' = Position(u)
             /\ Position(u) \in Positions /\ Position(u) # p
             /\ final'[Position(u)] = Unmeasured
  <2>1. u # t /\ tasks'[u] = tasks[u] /\ Position(u)' = Position(u) /\ tasks[u].pc = "quote"
    BY <1>2, <1>4 DEF Position
  <2>2. Position(u) \in Positions
    BY <2>1, QuotedPosition
  <2>3. Position(u) # p
    BY <1>0, <1>1, <2>1 DEF CountsAreLast, Finishing
  <2>. QED  BY <1>1, <2>1, <2>2, <2>3 DEF CountsAreLast
<1>5. ASSUME NEW s \in Sells, tasks'[s].pc \in Finishing
      PROVE  /\ Position(s)' = Position(s) /\ tasks[s].pc \in Finishing
  BY <1>0, <1>1, <1>2, <1>5 DEF Position, Finishing
<1>6. \A s, u \in Sells :
        tasks'[s].pc \in Finishing /\ tasks'[u].pc = "quote" => Position(s)' # Position(u)'
  BY <1>4, <1>5 DEF CountsAreLast
<1>. QED  BY <1>3, <1>4, <1>6 DEF CountsAreLast

LEMMA CountsNext == IInv /\ SellsAreApart /\ CountsAreLast /\ [Next]_vars => CountsAreLast'
<1>. SUFFICES ASSUME IInv, SellsAreApart, CountsAreLast, [Next]_vars PROVE CountsAreLast'
  OBVIOUS
<1>1. CASE /\ \A t \in Sells : ~ Fill(t) /\ ~ FinaliseFinal(t)
           /\ \A t \in Sells, signal \in {"hold", "derisk", "urgent"} : ~ Consider(t, signal)
  <2>1. /\ UNCHANGED <<fills, final>>
        /\ \A u \in Sells : tasks'[u].pc = "quote" => tasks'[u] = tasks[u]
        /\ \A u \in Sells : tasks'[u].pc \in Finishing =>
             tasks[u].pc \in Finishing /\ Position(u)' = Position(u)
    BY <1>1, OtherEffect
  <2>2. \A q : Sold(q)' = Sold(q)
    BY <2>1 DEF Sold
  <2>3. \A u \in Sells : tasks'[u].pc = "quote" => tasks[u].pc = "quote" /\ Position(u)' = Position(u)
    BY <2>1 DEF Position
  <2>. QED  BY <2>1, <2>2, <2>3 DEF CountsAreLast
<1>. QED  BY <1>1, FillCounts, ConsiderCounts, FinalCounts

(* As long as no two sells await a route for the same position, what the   *)
(* capital and the evidence of a position are settled with is all that was *)
(* sold of it, to the last fill.                                           *)
THEOREM ApartCountsEveryFill == Spec /\ []SellsAreApart => []OutcomesCountEveryFill
<1>1. Init => CountsAreLast
  BY DEF Init, CountsAreLast, Unseen, Idle, Finishing
<1>2. IInv /\ CountsAreLast => OutcomesCountEveryFill
  BY DEF IInv, MeasurementsAgree, CountsAreLast, OutcomesCountEveryFill
<1>. QED  BY <1>1, <1>2, CountsNext, IInvHolds, PTL DEF Spec

-----------------------------------------------------------------------------
(* A measured position is closed, and no outcome counts more than its      *)
(* fills sold: what overlapping sells leave out is only ever missing.      *)
MeasuredWasSold ==
  \A p \in Positions :
    v5[p] # Unmeasured => lifecycle[p].closed /\ v5[p] <= Sold(p)

CountedWasSold ==
  \A p \in Positions : final[p] # Unmeasured => lifecycle[p].closed /\ final[p] <= Sold(p)

LEMMA CountedNext == IInv /\ CountedWasSold /\ [Next]_vars => CountedWasSold'
<1>. SUFFICES ASSUME IInv, CountedWasSold, [Next]_vars PROVE CountedWasSold'
  OBVIOUS
<1>. USE StagedExitAssumption
<1>0. \A p \in Positions : Sold(p) \in Nat /\ final[p] \in Int
  BY SoldIsNat DEF IInv, TypeOK
<1>1. ASSUME NEW t \in Sells, Fill(t) PROVE CountedWasSold'
  <2>0. PICK p : p = Position(t)
    OBVIOUS
  <2>1. /\ p \in Positions /\ UNCHANGED final
        /\ tasks[t].raw \in 1..TotalRaw /\ Sold(p)' = Sold(p) + tasks[t].raw
        /\ lifecycle'[p] = Booked(lifecycle[p], tasks[t].raw, tasks[t].stage)
    BY <1>1, <2>0, FillEffect
  <2>2. \A q \in Positions : q # p => lifecycle'[q] = lifecycle[q] /\ fills'[q] = fills[q]
    BY <1>1, <2>0, FillEffect
  <2>3. lifecycle'[p].closed = lifecycle[p].closed
    BY <2>1 DEF Booked
  <2>4. PICK n \in Nat : n = Sold(p)
    BY <1>0, <2>1
  <2>5. Sold(p)' >= Sold(p) /\ Sold(p)' \in Nat
    BY <2>1, <2>4
  <2>6. \A q \in Positions : q # p => Sold(q)' = Sold(q)
    BY <2>2 DEF Sold
  <2>7. final'[p] # Unmeasured => lifecycle'[p].closed /\ final'[p] <= Sold(p)'
    BY <1>0, <2>1, <2>3, <2>4, <2>5 DEF CountedWasSold
  <2>. QED  BY <2>1, <2>2, <2>6, <2>7 DEF CountedWasSold
<1>2. ASSUME NEW t \in Sells, NEW signal, Consider(t, signal) PROVE CountedWasSold'
  <2>0. PICK p : p = Position(t)
    OBVIOUS
  <2>1. /\ p \in Positions /\ UNCHANGED <<fills, final>>
        /\ \A q \in Positions : q # p \/ lifecycle[p].opened => lifecycle'[q] = lifecycle[q]
    BY <1>2, <2>0, ConsiderEffect
  <2>2. \A q : Sold(q)' = Sold(q)
    BY <2>1 DEF Sold
  <2>3. \A q \in Positions : final[q] # Unmeasured => lifecycle'[q] = lifecycle[q]
    BY <2>1 DEF IInv, CountedAreComplete
  <2>. QED  BY <2>1, <2>2, <2>3 DEF CountedWasSold
<1>3. ASSUME NEW t \in Sells, FinaliseFinal(t) PROVE CountedWasSold'
  <2>0. PICK p : p = Position(t)
    OBVIOUS
  <2>1. /\ p \in Positions /\ UNCHANGED fills
        /\ lifecycle'[p] = ClosedOut(lifecycle[p])
        /\ final'[p] = IF final[p] = Unmeasured THEN Sold(p) ELSE final[p]
        /\ \A q \in Positions : q # p => lifecycle'[q] = lifecycle[q] /\ final'[q] = final[q]
    BY <1>3, <2>0, CountEffect
  <2>2. \A q : Sold(q)' = Sold(q)
    BY <2>1 DEF Sold
  <2>3. lifecycle'[p].closed
    BY <2>1 DEF ClosedOut
  <2>. QED  BY <1>0, <2>1, <2>2, <2>3 DEF CountedWasSold
<1>4. CASE /\ \A t \in Sells : ~ Fill(t) /\ ~ FinaliseFinal(t)
           /\ \A t \in Sells, signal \in {"hold", "derisk", "urgent"} : ~ Consider(t, signal)
  <2>1. UNCHANGED <<lifecycle, fills, final>>
    BY <1>4, OtherEffect
  <2>. QED  BY <2>1 DEF CountedWasSold, Sold
<1>. QED  BY <1>1, <1>2, <1>3, <1>4

(* However sells overlap, no outcome counts units that no fill sold, and   *)
(* the capital of a position is only settled once it is closed.            *)
THEOREM OutcomesWereSold == Spec => []MeasuredWasSold
<1>1. Init => CountedWasSold
  BY DEF Init, CountedWasSold
<1>2. IInv /\ CountedWasSold => MeasuredWasSold
  BY DEF IInv, MeasurementsAgree, CountedWasSold, MeasuredWasSold
<1>. QED  BY <1>1, <1>2, CountedNext, IInvHolds, PTL DEF Spec

(* A sell books a position once: no retry, overlap or loss of the process  *)
(* rewrites or takes back a fill.                                          *)
FillsAreFinal ==
  \A p \in Positions, t \in Sells : fills[p][t] > 0 => fills'[p][t] = fills[p][t]

(* What a sell booked stays booked.                                        *)
THEOREM FillsStand == Spec => [][FillsAreFinal]_vars
<1>1. IInv /\ [Next]_vars => [FillsAreFinal]_vars
  <2>. SUFFICES ASSUME IInv, [Next]_vars PROVE FillsAreFinal
    OBVIOUS
  <2>1. ASSUME NEW t \in Sells, Fill(t) PROVE FillsAreFinal
    <3>0. PICK p : p = Position(t)
      OBVIOUS
    <3>1. fills[p][t] = 0 /\ \A u \in Sells : u # t => fills'[p][u] = fills[p][u]
      BY <2>1, <3>0, FillEffect
    <3>2. \A q \in Positions : q # p => fills'[q] = fills[q]
      BY <2>1, <3>0, FillEffect
    <3>. QED  BY <3>1, <3>2 DEF FillsAreFinal
  <2>2. UNCHANGED fills \/ \E t \in Sells : Fill(t)
    BY DEF Next, ObserveSell, Consider, RouteUnavailable, FinaliseFinal, FinaliseLead, FinaliseV5,
       Crash, durable, vars
  <2>. QED  BY <2>1, <2>2 DEF FillsAreFinal
<1>. QED  BY <1>1, IInvHolds, PTL DEF Spec
=============================================================================

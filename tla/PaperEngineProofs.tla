-------------------------- MODULE PaperEngineProofs --------------------------
(***************************************************************************)
(* Proofs about PaperEngine, for any tokens, entities, capital, sizes and  *)
(* returns, and any number of raises and losses of the process.            *)
(***************************************************************************)
EXTENDS PaperEngine, TLAPS

(* A position that does not exist is empty.                                *)
Sound(p) == ~ p.exists => p = NoPosition

(* What the status of a candidate says of the position of its token.       *)
Fits(p, c) ==
  /\ c.status \in {"none", "rejected"} => p = NoPosition
  /\ c.status \in {"expired", "closed"} => ~ IsOpen(p)

MapsFit(map, table) == \A t \in Tokens : Sound(map[t]) /\ Fits(map[t], table[t])

(* The facade holds no more than was bought, and of a token it knows       *)
(* nothing of, nothing was, as long as there is one map.                   *)
Counted(t) ==
  /\ positions[t].exists => positions[t].units <= bought[t]
  /\ shared /\ ~ positions[t].exists => bought[t] = 0

Within(t, limit) == shared \/ positions[t].exists => bought[t] <= limit

(* What may have been bought when a candidate has come so far.             *)
Limit(c) == IF c.status = "waiting" THEN (IF c.tier = "S" THEN Starter ELSE 0) ELSE Full

BoughtOK == \A t \in Tokens : Counted(t) /\ Within(t, Limit(candidates[t]))

BookOK == shared => book = positions

CheckpointOK ==
  /\ MapsFit(checkpoint.positions, checkpoint.candidates)
  /\ ~ checkpoint.stored => shared /\ checkpoint.positions = [t \in Tokens |-> NoPosition]

(* A checkpoint no event is newer than is what the memory is.              *)
CoveredIsMemory ==
  covered => /\ checkpoint.cash = cash
             /\ checkpoint.positions = positions
             /\ \A t \in Tokens : positions[t].exists =>
                  checkpoint.candidates[t] = candidates[t]

(* The inductive invariant.                                                *)
IInv ==
  /\ TypeOK
  /\ MapsFit(positions, candidates)
  /\ BoughtOK
  /\ BookOK
  /\ CheckpointOK
  /\ CoveredIsMemory

-----------------------------------------------------------------------------
(* What any fill does to cash and maps: it moves one token's position.     *)
Moves(t) ==
  /\ cash' \in Nat
  /\ positions' \in Positions /\ book' \in Positions /\ bought' \in [Tokens -> Nat]
  /\ shared' = shared
  /\ shared' => book' = positions'
  /\ \A u \in Tokens : u # t => positions'[u] = positions[u] /\ bought'[u] = bought[u]
  /\ Sound(positions'[t])
  /\ Counted(t)'

LEMMA NoPositionIsSound == NoPosition \in Position /\ Sound(NoPosition)
BY DEF NoPosition, Position, Sound

LEMMA LimitIsWithinFull ==
  ASSUME NEW c
  PROVE  Limit(c) \in Nat /\ Limit(c) <= Full
BY EngineAssumption DEF Limit

LEMMA SetPositionMoves ==
  ASSUME IInv, NEW t \in Tokens, NEW p \in Position, p.exists, NEW n \in Nat, p.units <= n,
         cash' \in Nat, bought' = [bought EXCEPT ![t] = n], SetPosition(t, p)
  PROVE  Moves(t) /\ positions'[t] = p /\ bought'[t] = n
<1>1. /\ positions \in Positions /\ book \in Positions /\ shared \in BOOLEAN
      /\ shared => book = positions
      /\ bought \in [Tokens -> Nat]
  BY DEF IInv, TypeOK, BookOK
<1>2. /\ positions' = [positions EXCEPT ![t] = p]
      /\ book' = IF shared THEN [book EXCEPT ![t] = p] ELSE book
      /\ shared' = shared
  BY DEF SetPosition
<1>3. /\ positions' \in Positions /\ book' \in Positions /\ positions'[t] = p
      /\ \A u \in Tokens : u # t => positions'[u] = positions[u]
  BY <1>1, <1>2 DEF Positions
<1>4. /\ bought' \in [Tokens -> Nat] /\ bought'[t] = n
      /\ \A u \in Tokens : u # t => bought'[u] = bought[u]
  BY <1>1
<1>5. shared' => book' = positions'
  BY <1>1, <1>2
<1>6. Sound(positions'[t]) /\ Counted(t)'
  BY <1>3, <1>4 DEF Sound, Counted
<1>. QED  BY <1>2, <1>3, <1>4, <1>5, <1>6 DEF Moves

(* A first buy of a token: the facade sees it only in the shared map.      *)
LEMMA RegisterMoves ==
  ASSUME IInv, NEW t \in Tokens, ~ positions[t].exists, NEW p \in Position, p.exists,
         NEW n \in Nat, p.units <= n,
         cash' \in Nat, bought' = [bought EXCEPT ![t] = n], Register(t, p)
  PROVE  /\ Moves(t) /\ positions'[t] \in {p, positions[t]} /\ bought'[t] = n
         /\ positions'[t].exists <=> shared
<1>1. /\ positions \in Positions /\ book \in Positions /\ shared \in BOOLEAN
      /\ shared => book = positions
      /\ bought \in [Tokens -> Nat]
      /\ Sound(positions[t])
  BY DEF IInv, TypeOK, BookOK, MapsFit
<1>2. /\ positions' = IF shared THEN [positions EXCEPT ![t] = p] ELSE positions
      /\ book' = [book EXCEPT ![t] = p]
      /\ shared' = shared
  BY DEF Register
<1>3. /\ positions' \in Positions /\ book' \in Positions
      /\ positions'[t] = IF shared THEN p ELSE positions[t]
      /\ \A u \in Tokens : u # t => positions'[u] = positions[u]
  BY <1>1, <1>2 DEF Positions
<1>4. /\ bought' \in [Tokens -> Nat] /\ bought'[t] = n
      /\ \A u \in Tokens : u # t => bought'[u] = bought[u]
  BY <1>1
<1>5. shared' => book' = positions'
  BY <1>1, <1>2
<1>6. positions'[t].exists <=> shared
  BY <1>1, <1>3
<1>7. Sound(positions'[t])
  BY <1>1, <1>3 DEF Sound
<1>8. Counted(t)'
  BY <1>2, <1>3, <1>4, <1>6 DEF Counted
<1>. QED  BY <1>2, <1>3, <1>4, <1>5, <1>6, <1>7, <1>8 DEF Moves

LEMMA NothingMoves ==
  ASSUME IInv, NEW t \in Tokens, UNCHANGED portfolio
  PROVE  Moves(t) /\ positions'[t] = positions[t] /\ bought'[t] = bought[t]
BY DEF IInv, TypeOK, BookOK, BoughtOK, Counted, MapsFit, Moves, portfolio

(* A fill adds its notional to what was bought of the token.               *)
LEMMA FillMoves ==
  ASSUME IInv, NEW t \in Tokens, NEW n \in Nat, NEW fee \in Nat, n + fee <= cash, Fill(t, n, fee)
  PROVE  /\ Moves(t) /\ bought'[t] = bought[t] + n
         /\ positions'[t].exists <=> shared \/ positions[t].exists
<1>1. /\ cash \in Nat /\ positions[t] \in Position /\ Sound(positions[t])
      /\ bought[t] \in Nat /\ Counted(t)
  BY DEF IInv, TypeOK, MapsFit, Positions, BoughtOK
<1>2. cash' \in Nat
  BY <1>1 DEF Fill
<1>3. PICK m \in Nat : m = bought[t] + n
  BY <1>1
<1>4. bought' = [bought EXCEPT ![t] = m]
  BY <1>3 DEF Fill
<1>5. CASE positions[t].exists
  <2>1. PICK p : p = Bought(positions[t], n)
    OBVIOUS
  <2>2. p \in Position /\ p.exists /\ p.units = positions[t].units + n
    BY <1>1, <2>1 DEF Bought, Position
  <2>3. p.units <= m
    BY <1>1, <1>3, <1>5, <2>2 DEF Counted, Position
  <2>4. SetPosition(t, p)
    BY <1>5, <2>1 DEF Fill
  <2>5. Moves(t) /\ positions'[t] = p /\ bought'[t] = m
    BY <1>2, <1>4, <2>2, <2>3, <2>4, SetPositionMoves
  <2>. QED  BY <1>3, <1>5, <2>2, <2>5
<1>6. CASE ~ positions[t].exists
  <2>1. PICK p : p = Bought(NoPosition, n)
    OBVIOUS
  <2>2. p \in Position /\ p.exists /\ p.units = n
    BY <2>1 DEF Bought, Position, NoPosition
  <2>3. p.units <= m
    BY <1>1, <1>3, <2>2
  <2>4. Register(t, p)
    BY <1>6, <2>1 DEF Fill
  <2>5. Moves(t) /\ bought'[t] = m /\ (positions'[t].exists <=> shared)
    BY <1>2, <1>4, <1>6, <2>2, <2>3, <2>4, RegisterMoves
  <2>. QED  BY <1>3, <1>6, <2>5
<1>. QED  BY <1>5, <1>6

(* A buy takes what was bought at most its size beyond a limit.            *)
LEMMA BuyMoves ==
  ASSUME IInv, NEW t \in Tokens, NEW size \in Nat, NEW limit \in Nat, NEW sum \in Nat,
         Within(t, limit), limit + size <= sum, Buy(t, size)
  PROVE  Moves(t) /\ Within(t, sum)'
<1>1. cash \in Nat /\ bought[t] \in Nat
  BY DEF IInv, TypeOK
<1>2. ASSUME NEW n \in 0..size, NEW fee \in Nat, n + fee <= cash, Fill(t, n, fee)
      PROVE  Moves(t) /\ Within(t, sum)'
  <2>1. /\ Moves(t) /\ bought'[t] = bought[t] + n
        /\ positions'[t].exists <=> shared \/ positions[t].exists
    BY <1>2, FillMoves
  <2>2. shared' = shared
    BY <2>1 DEF Moves
  <2>. QED  BY <1>1, <2>1, <2>2 DEF Within
<1>3. ASSUME NEW intended \in 0..size, Fill(t, Notional(intended), 0)
      PROVE  Moves(t) /\ Within(t, sum)'
  <2>1. PICK n \in 0..size : n = Notional(intended) /\ n + 0 <= cash
    BY <1>1 DEF Notional
  <2>. QED  BY <1>2, <1>3, <2>1
<1>4. ASSUME NEW intended \in 1..size, NEW fee \in Fees, intended + fee <= cash,
             Fill(t, intended, fee)
      PROVE  Moves(t) /\ Within(t, sum)'
  BY <1>2, <1>4, EngineAssumption
<1>5. CASE UNCHANGED portfolio
  <2>1. Moves(t) /\ positions'[t] = positions[t] /\ bought'[t] = bought[t] /\ shared' = shared
    BY <1>5, NothingMoves DEF Moves
  <2>. QED  BY <1>1, <2>1 DEF Within
<1>. QED  BY <1>3, <1>4, <1>5 DEF Buy

(* A sale leaves what it does not sell.                                    *)
LEMMA SellMoves ==
  ASSUME IInv, NEW t \in Tokens, IsOpen(positions[t]), NEW n \in 0..positions[t].units,
         NEW last \in BOOLEAN, Sell(t, n, last)
  PROVE  /\ Moves(t) /\ positions'[t] = Sold(positions[t], n, last)
         /\ bought'[t] = bought[t] /\ (positions'[t].exists <=> positions[t].exists)
<1>. DEFINE p == Sold(positions[t], n, last)
<1>1. /\ cash \in Nat /\ positions[t] \in Position /\ Sound(positions[t])
      /\ bought \in [Tokens -> Nat] /\ bought[t] \in Nat /\ Counted(t)
  BY DEF IInv, TypeOK, MapsFit, Positions, BoughtOK
<1>2. positions[t].exists
  BY <1>1 DEF Sound, NoPosition, IsOpen
<1>3. p \in Position /\ p.units = positions[t].units - n /\ p.exists
  BY <1>1, <1>2 DEF Sold, Position
<1>4. p.units <= bought[t]
  BY <1>1, <1>2, <1>3 DEF Counted, Position
<1>5. cash' \in Nat
  <2>1. PICK proceeds \in Proceeds(n) : cash' = cash + proceeds
    BY DEF Sell
  <2>2. proceeds \in Nat
    BY <2>1 DEF Proceeds
  <2>. QED  BY <1>1, <2>1, <2>2
<1>6. PICK m \in Nat : m = bought[t]
  BY <1>1
<1>7. SetPosition(t, p) /\ bought' = [bought EXCEPT ![t] = m]
  BY <1>1, <1>6 DEF Sell
<1>. HIDE DEF p
<1>8. Moves(t) /\ positions'[t] = p /\ bought'[t] = m
  BY <1>3, <1>4, <1>5, <1>6, <1>7, SetPositionMoves
<1>. QED  BY <1>2, <1>3, <1>6, <1>8 DEF p

(* After SellAll nothing of the token is open, and nothing was bought.     *)
LEMMA SellAllMoves ==
  ASSUME IInv, NEW t \in Tokens, SellAll(t)
  PROVE  /\ Moves(t) /\ ~ IsOpen(positions'[t])
         /\ bought'[t] = bought[t] /\ (positions'[t].exists <=> positions[t].exists)
<1>1. CASE IsOpen(positions[t])
  <2>1. positions[t].units \in 0..positions[t].units
    BY DEF IInv, TypeOK, Positions, Position
  <2>2. /\ Moves(t) /\ positions'[t] = Sold(positions[t], positions[t].units, TRUE)
        /\ bought'[t] = bought[t] /\ (positions'[t].exists <=> positions[t].exists)
    BY <1>1, <2>1, SellMoves DEF SellAll
  <2>. QED  BY <2>2 DEF Sold, IsOpen
<1>2. CASE ~ IsOpen(positions[t])
  BY <1>2, NothingMoves DEF SellAll
<1>. QED  BY <1>1, <1>2

LEMMA HarvestMoves ==
  ASSUME IInv, NEW t \in Tokens, Harvest(t)
  PROVE  /\ Moves(t)
         /\ bought'[t] = bought[t] /\ (positions'[t].exists <=> positions[t].exists)
<1>1. CASE IsOpen(positions[t])
  <2>1. positions[t].units \in 1..Full
    <3>1. positions[t] \in Position /\ Sound(positions[t]) /\ Counted(t) /\ bought[t] \in Nat
      BY DEF IInv, TypeOK, Positions, MapsFit, BoughtOK
    <3>2. positions[t].exists
      BY <1>1, <3>1 DEF Sound, NoPosition, IsOpen
    <3>3. bought[t] <= Limit(candidates[t])
      BY <3>2 DEF IInv, BoughtOK, Within
    <3>4. bought[t] <= Full
      BY <3>1, <3>3, LimitIsWithinFull, EngineAssumption
    <3>. QED  BY <1>1, <3>1, <3>2, <3>4, EngineAssumption DEF Counted, Position, IsOpen
  <2>2. Runner[positions[t].units] \in 1..positions[t].units
    BY <2>1, EngineAssumption
  <2>3. positions[t].units - Runner[positions[t].units] \in 0..positions[t].units
    BY <2>1, <2>2
  <2>. QED  BY <1>1, <2>3, SellMoves DEF Harvest
<1>2. CASE ~ IsOpen(positions[t])
  BY <1>2, NothingMoves DEF Harvest
<1>. QED  BY <1>1, <1>2

(* A fill that buys nothing keeps every limit.                             *)
LEMMA LimitKept ==
  ASSUME NEW t \in Tokens, NEW limit, Within(t, limit), shared' = shared,
         bought'[t] = bought[t], positions'[t].exists <=> positions[t].exists
  PROVE  Within(t, limit)'
BY DEF Within

(* A limit may be raised.                                                  *)
LEMMA LimitRaised ==
  ASSUME IInv, NEW t \in Tokens
  PROVE  Within(t, Full)
<1>1. bought[t] \in Nat /\ Within(t, Limit(candidates[t]))
  BY DEF IInv, TypeOK, BoughtOK
<1>. QED  BY <1>1, LimitIsWithinFull, EngineAssumption DEF Within

-----------------------------------------------------------------------------
(* A handler that moves one token's position and gives its candidate a     *)
(* status that fits keeps the invariant.                                   *)
LEMMA HandlerKeeps ==
  ASSUME IInv, NEW t \in Tokens, NEW c \in Candidate, NEW intent \in BOOLEAN,
         NEW outcome \in BOOLEAN, Moves(t), candidates' = [candidates EXCEPT ![t] = c],
         Fits(positions'[t], c), NEW limit, limit = Limit(c), Within(t, limit)',
         Writes(intent, outcome)
  PROVE  IInv'
<1>1. candidates \in [Tokens -> Candidate] /\ positions \in Positions
  BY DEF IInv, TypeOK
<1>2. /\ candidates' \in [Tokens -> Candidate] /\ candidates'[t] = c
      /\ \A u \in Tokens : u # t => candidates'[u] = candidates[u]
  BY <1>1
<1>3. TypeOK'
  BY <1>2 DEF IInv, TypeOK, Moves, Writes
<1>4. MapsFit(positions, candidates)'
  <2>. SUFFICES ASSUME NEW u \in Tokens
                PROVE  Sound(positions'[u]) /\ Fits(positions'[u], candidates'[u])
    BY DEF MapsFit
  <2>1. CASE u = t
    BY <1>2, <2>1 DEF Moves
  <2>2. CASE u # t
    BY <1>2, <2>2 DEF Moves, IInv, MapsFit
  <2>. QED  BY <2>1, <2>2
<1>5. BoughtOK'
  <2>. SUFFICES ASSUME NEW u \in Tokens
                PROVE  Counted(u)' /\ Within(u, Limit(candidates[u]))'
    BY DEF BoughtOK
  <2>1. CASE u = t
    BY <1>2, <2>1 DEF Moves, Within
  <2>2. CASE u # t
    BY <1>2, <2>2 DEF Moves, IInv, BoughtOK, Counted, Within
  <2>. QED  BY <2>1, <2>2
<1>6. BookOK'
  BY DEF Moves, BookOK
<1>7. CheckpointOK' /\ CoveredIsMemory'
  BY DEF IInv, CheckpointOK, CoveredIsMemory, MapsFit, Writes, Moves
<1>. QED  BY <1>3, <1>4, <1>5, <1>6, <1>7 DEF IInv

LEMMA FirstTouchIInv ==
  ASSUME IInv, NEW t \in Tokens, NEW entity \in Entities, NEW tier \in {"S", "A"},
         NEW clean \in BOOLEAN, FirstTouch(t, entity, tier, clean)
  PROVE  IInv'
<1>. DEFINE new   == candidates[t].status = "none"
            opens == new /\ clean /\ tier = "S"
            c     == IF new THEN Touched(entity, tier, clean) ELSE candidates[t]
<1>1. /\ candidates \in [Tokens -> Candidate]
      /\ Fits(positions[t], candidates[t])
  BY DEF IInv, TypeOK, MapsFit
<1>2. c \in Candidate /\ candidates' = [candidates EXCEPT ![t] = c]
  BY <1>1 DEF FirstTouch, Touched, Candidate, Statuses
<1>3. new => positions[t] = NoPosition
  BY <1>1 DEF Fits
<1>4. PICK limit : limit = Limit(c)
  OBVIOUS
<1>5. new => Within(t, 0)
  BY <1>3 DEF IInv, BoughtOK, Counted, Within, NoPosition
<1>6. CASE opens
  <2>1. Starter \in Nat
    BY EngineAssumption
  <2>2. Buy(t, Starter) /\ Writes(TRUE, FALSE)
    BY <1>6 DEF FirstTouch
  <2>3. Moves(t) /\ Within(t, Starter)'
    BY <1>5, <1>6, <2>1, <2>2, BuyMoves
  <2>4. c.status = "waiting" /\ c.tier = "S"
    BY <1>6 DEF Touched
  <2>5. Fits(positions'[t], c) /\ limit = Starter
    BY <1>4, <2>4 DEF Fits, Limit
  <2>. QED  BY <1>2, <1>4, <2>2, <2>3, <2>5, HandlerKeeps
<1>7. CASE ~ opens
  <2>1. UNCHANGED portfolio /\ Writes(FALSE, FALSE)
    BY <1>7 DEF FirstTouch
  <2>2. Moves(t) /\ positions'[t] = positions[t] /\ bought'[t] = bought[t] /\ shared' = shared
    BY <2>1, NothingMoves DEF Moves
  <2>3. Fits(positions[t], c)
    BY <1>1, <1>3 DEF Fits, Touched, NoPosition, IsOpen
  <2>4. Within(t, limit)
    <3>1. CASE new
      <4>1. limit \in Nat
        BY <1>4, LimitIsWithinFull
      <4>. QED  BY <1>5, <3>1, <4>1 DEF IInv, TypeOK, Within
    <3>2. CASE ~ new
      BY <1>4, <3>2 DEF IInv, BoughtOK
    <3>. QED  BY <3>1, <3>2
  <2>5. Within(t, limit)'
    BY <2>2, <2>4, LimitKept
  <2>. QED  BY <1>2, <1>4, <2>1, <2>2, <2>3, <2>5, HandlerKeeps
<1>. QED  BY <1>6, <1>7

LEMMA ConfirmIInv ==
  ASSUME IInv, NEW t \in Tokens, NEW entity \in Entities, NEW clean \in BOOLEAN,
         NEW timely \in BOOLEAN, Confirm(t, entity, clean, timely)
  PROVE  IInv'
<1>. DEFINE confirms == Confirmable(t, entity, clean) /\ timely
            c == IF confirms THEN [candidates[t] EXCEPT !.status = "confirmed"] ELSE candidates[t]
            size == IF candidates[t].tier = "S" THEN Full - Starter ELSE Full
<1>1. /\ candidates \in [Tokens -> Candidate] /\ candidates[t] \in Candidate
      /\ Fits(positions[t], candidates[t])
      /\ Within(t, Limit(candidates[t]))
  BY DEF IInv, TypeOK, MapsFit, BoughtOK
<1>2. c \in Candidate /\ candidates' = [candidates EXCEPT ![t] = c]
  BY <1>1 DEF Confirm, Candidate, Statuses
<1>3. confirms \in BOOLEAN
  BY DEF Confirmable
<1>4. CASE confirms
  <2>1. candidates[t].status = "waiting"
    BY <1>4 DEF Confirmable
  <2>2. /\ Full \in Nat /\ Starter \in 0..Full
    BY EngineAssumption
  <2>3. PICK limit \in Nat : limit = Limit(candidates[t])
    BY LimitIsWithinFull
  <2>4. size \in Nat /\ limit + size <= Full
    BY <2>1, <2>2, <2>3 DEF Limit
  <2>5. Buy(t, size) /\ Writes(TRUE, FALSE)
    BY <1>4 DEF Confirm
  <2>. HIDE DEF size
  <2>6. Moves(t) /\ Within(t, Full)'
    BY <1>1, <2>2, <2>3, <2>4, <2>5, BuyMoves
  <2>7. c.status = "confirmed"
    BY <1>1, <1>4 DEF Candidate
  <2>8. Fits(positions'[t], c) /\ Full = Limit(c)
    BY <2>7 DEF Fits, Limit
  <2>. HIDE DEF c
  <2>. QED  BY <1>2, <2>5, <2>6, <2>8, HandlerKeeps
<1>5. CASE ~ confirms
  <2>1. UNCHANGED portfolio /\ Writes(FALSE, FALSE)
    BY <1>5 DEF Confirm
  <2>2. Moves(t) /\ positions'[t] = positions[t] /\ bought'[t] = bought[t] /\ shared' = shared
    BY <2>1, NothingMoves DEF Moves
  <2>3. PICK limit : limit = Limit(candidates[t])
    OBVIOUS
  <2>4. Within(t, limit)'
    BY <1>1, <2>2, <2>3, LimitKept
  <2>5. c = candidates[t]
    BY <1>5
  <2>. QED  BY <1>1, <1>2, <2>1, <2>2, <2>3, <2>4, <2>5, HandlerKeeps
<1>. QED  BY <1>4, <1>5

LEMMA PriceIInv ==
  ASSUME IInv, NEW t \in Tokens, Price(t)
  PROVE  IInv'
<1>1. /\ candidates \in [Tokens -> Candidate] /\ candidates[t] \in Candidate
      /\ positions[t] \in Position
      /\ Fits(positions[t], candidates[t]) /\ Sound(positions[t])
      /\ Within(t, Limit(candidates[t])) /\ Within(t, Full)
      /\ bought[t] \in Nat /\ Counted(t)
  BY LimitRaised DEF IInv, TypeOK, MapsFit, Positions, BoughtOK
<1>2. CASE PriceMarks(t)
  <2>1. PICK c \in Candidate : c = candidates[t]
    BY <1>1
  <2>2. candidates' = [candidates EXCEPT ![t] = c]
    BY <1>1, <1>2, <2>1 DEF PriceMarks
  <2>3. /\ Moves(t) /\ positions'[t] = positions[t] /\ Writes(FALSE, FALSE)
        /\ bought'[t] = bought[t] /\ shared' = shared
    BY <1>2, NothingMoves DEF PriceMarks, Moves
  <2>4. PICK limit : limit = Limit(c)
    OBVIOUS
  <2>5. Within(t, limit)'
    BY <1>1, <2>1, <2>3, <2>4, LimitKept
  <2>. QED  BY <1>1, <2>1, <2>2, <2>3, <2>4, <2>5, HandlerKeeps
<1>3. CASE PriceExpires(t)
  <2>. DEFINE exits == candidates[t].tier = "S"
              c     == [candidates[t] EXCEPT !.status = "expired"]
  <2>1. /\ candidates[t].status = "waiting"
        /\ candidates' = [candidates EXCEPT ![t] = c]
        /\ IF exits THEN SellAll(t) ELSE UNCHANGED portfolio
        /\ Writes(exits, exits /\ IsOpen(positions[t]))
    BY <1>1, <1>3 DEF PriceExpires
  <2>2. c \in Candidate /\ c.status = "expired"
    BY <1>1 DEF Candidate, Statuses
  <2>3. /\ Moves(t) /\ ~ IsOpen(positions'[t])
        /\ bought'[t] = bought[t] /\ (positions'[t].exists <=> positions[t].exists)
    <3>1. CASE exits
      BY <2>1, <3>1, SellAllMoves
    <3>2. CASE ~ exits
      <4>1. positions[t].exists => bought[t] <= 0
        BY <1>1, <2>1, <3>2 DEF Limit, Within
      <4>2. ~ IsOpen(positions[t])
        BY <1>1, <4>1 DEF Sound, Counted, NoPosition, IsOpen, Position
      <4>. QED  BY <2>1, <3>2, <4>2, NothingMoves
    <3>. QED  BY <3>1, <3>2
  <2>4. Fits(positions'[t], c) /\ Full = Limit(c)
    BY <2>2, <2>3 DEF Fits, Limit
  <2>5. exits \in BOOLEAN /\ (exits /\ IsOpen(positions[t])) \in BOOLEAN
    BY DEF IsOpen
  <2>6. Within(t, Full)'
    BY <1>1, <2>3, LimitKept DEF Moves
  <2>. HIDE DEF c, exits
  <2>. QED  BY <2>1, <2>2, <2>3, <2>4, <2>5, <2>6, HandlerKeeps
<1>4. CASE PriceHarvests(t)
  <2>. DEFINE c == [candidates[t] EXCEPT !.harvested = TRUE]
  <2>1. /\ candidates[t].status = "confirmed"
        /\ candidates' = [candidates EXCEPT ![t] = c]
        /\ Harvest(t) /\ Writes(TRUE, FALSE)
    BY <1>1, <1>4 DEF PriceHarvests
  <2>2. c \in Candidate /\ c.status = "confirmed"
    BY <1>1, <2>1 DEF Candidate
  <2>3. Fits(positions'[t], c) /\ Full = Limit(c)
    BY <2>2 DEF Fits, Limit
  <2>4. Moves(t) /\ Within(t, Full)'
    BY <1>1, <2>1, HarvestMoves, LimitKept DEF Moves
  <2>. HIDE DEF c
  <2>. QED  BY <2>1, <2>2, <2>3, <2>4, HandlerKeeps
<1>5. CASE PriceCloses(t)
  <2>. DEFINE c == [candidates[t] EXCEPT !.status = "closed"]
              b == IsOpen(positions[t])
  <2>1. /\ candidates' = [candidates EXCEPT ![t] = c]
        /\ SellAll(t) /\ Writes(TRUE, b)
    BY <1>1, <1>5 DEF PriceCloses
  <2>2. c \in Candidate /\ c.status = "closed"
    BY <1>1 DEF Candidate, Statuses
  <2>3. /\ Moves(t) /\ ~ IsOpen(positions'[t])
        /\ bought'[t] = bought[t] /\ (positions'[t].exists <=> positions[t].exists)
    BY <2>1, SellAllMoves
  <2>4. Fits(positions'[t], c) /\ Full = Limit(c)
    BY <2>2, <2>3 DEF Fits, Limit
  <2>5. b \in BOOLEAN
    BY DEF IsOpen
  <2>6. Within(t, Full)'
    BY <1>1, <2>3, LimitKept DEF Moves
  <2>. HIDE DEF c, b
  <2>. QED  BY <2>1, <2>2, <2>3, <2>4, <2>5, <2>6, HandlerKeeps
<1>. QED  BY <1>2, <1>3, <1>4, <1>5 DEF Price

-----------------------------------------------------------------------------
LEMMA InitIInv == Init => IInv
<1>. SUFFICES ASSUME Init PROVE IInv
  OBVIOUS
<1>. USE EngineAssumption
<1>1. NoPosition \in Position /\ Sound(NoPosition)
  BY NoPositionIsSound
<1>2. NoCandidate \in Candidate /\ NoCandidate.status = "none"
  BY DEF NoCandidate, Candidate
<1>3. Fits(NoPosition, NoCandidate)
  BY <1>2 DEF Fits
<1>. DEFINE none == [t \in Tokens |-> NoPosition]
            null == [t \in Tokens |-> NoCandidate]
<1>4. PICK stored \in BOOLEAN :
        checkpoint = [stored |-> stored, cash |-> Capital, positions |-> none, candidates |-> null]
  BY DEF Init, Genesis
<1>5. TypeOK
  BY <1>1, <1>2, <1>4 DEF Init, TypeOK, Idle, Positions
<1>6. MapsFit(positions, candidates) /\ MapsFit(checkpoint.positions, checkpoint.candidates)
  BY <1>1, <1>3, <1>4 DEF Init, MapsFit
<1>7. BookOK
  BY DEF Init, BookOK
<1>8. CheckpointOK /\ CoveredIsMemory
  BY <1>4, <1>6 DEF Init, CheckpointOK, CoveredIsMemory
<1>9. BoughtOK
  <2>. SUFFICES ASSUME NEW t \in Tokens PROVE Counted(t) /\ Within(t, Limit(candidates[t]))
    BY DEF BoughtOK
  <2>1. bought[t] = 0 /\ ~ positions[t].exists
    BY DEF Init, NoPosition
  <2>. QED  BY <2>1, LimitIsWithinFull DEF Counted, Within
<1>. QED  BY <1>5, <1>6, <1>7, <1>8, <1>9 DEF IInv

(* An append makes the checkpoint older than the events.                   *)
LEMMA AppendIInv ==
  ASSUME IInv, AppendIntent \/ AppendOutcome
  PROVE  IInv'
<1>1. /\ covered' = FALSE
      /\ UNCHANGED <<portfolio, candidates, checkpoint, process, raises, losses>>
  BY DEF AppendIntent, AppendOutcome
<1>2. handler' \in [pc : {"idle", "intent", "outcome", "save"}, outcome : BOOLEAN]
  BY DEF IInv, TypeOK, AppendIntent, AppendOutcome
<1>3. TypeOK'
  BY <1>1, <1>2 DEF IInv, TypeOK, portfolio
<1>4. MapsFit(positions, candidates)' /\ BoughtOK' /\ BookOK' /\ CheckpointOK' /\ CoveredIsMemory'
  BY <1>1 DEF IInv, MapsFit, BoughtOK, Counted, Within, BookOK, CheckpointOK, CoveredIsMemory, portfolio
<1>. QED  BY <1>3, <1>4 DEF IInv

LEMMA SaveIInv ==
  ASSUME IInv, SaveCheckpoint
  PROVE  IInv'
<1>1. /\ checkpoint' = Memory /\ handler' = Idle /\ covered' = TRUE
      /\ UNCHANGED <<portfolio, candidates, process, raises, losses>>
  BY DEF SaveCheckpoint, Saved
<1>2. TypeOK'
  BY <1>1 DEF IInv, TypeOK, portfolio, Memory, Idle
<1>3. MapsFit(positions, candidates)' /\ BoughtOK' /\ BookOK'
  BY <1>1 DEF IInv, MapsFit, BoughtOK, Counted, Within, BookOK, portfolio
<1>4. CheckpointOK' /\ CoveredIsMemory'
  BY <1>1 DEF IInv, MapsFit, CheckpointOK, CoveredIsMemory, portfolio, Memory
<1>. QED  BY <1>2, <1>3, <1>4 DEF IInv

LEMMA StopIInv ==
  ASSUME IInv, Raise \/ Lose
  PROVE  IInv'
<1>1. handler' = Idle /\ UNCHANGED <<portfolio, candidates, durable>>
  BY DEF Raise, Lose
<1>2. raises' \in 0..MaxRaises /\ losses' \in 0..MaxLosses
  BY EngineAssumption DEF IInv, TypeOK, Raise, Lose
<1>3. process' \in {"running", "lost", "blocked"}
  BY DEF IInv, TypeOK, Raise, Lose
<1>4. TypeOK'
  BY <1>1, <1>2, <1>3 DEF IInv, TypeOK, portfolio, durable, Idle
<1>5. MapsFit(positions, candidates)' /\ BoughtOK' /\ BookOK' /\ CheckpointOK' /\ CoveredIsMemory'
  BY <1>1 DEF IInv, MapsFit, BoughtOK, Counted, Within, BookOK, CheckpointOK, CoveredIsMemory, portfolio, durable
<1>. QED  BY <1>4, <1>5 DEF IInv

(* The reaper forgets candidates of tokens that were never bought.         *)
LEMMA PurgeIInv ==
  ASSUME IInv, NEW t \in Tokens, Purge(t)
  PROVE  IInv'
<1>1. /\ ~ positions[t].exists
      /\ candidates' = [candidates EXCEPT ![t] = NoCandidate]
      /\ UNCHANGED <<portfolio, handler, process, losses>>
  BY DEF Purge, Purgeable
<1>2. /\ candidates \in [Tokens -> Candidate]
      /\ NoCandidate \in Candidate /\ NoCandidate.status = "none"
  BY DEF IInv, TypeOK, NoCandidate, Candidate
<1>3. /\ candidates' \in [Tokens -> Candidate] /\ candidates'[t] = NoCandidate
      /\ \A u \in Tokens : u # t => candidates'[u] = candidates[u]
  BY <1>1, <1>2
<1>4. MapsFit(positions, candidates)'
  <2>. SUFFICES ASSUME NEW u \in Tokens
                PROVE  Sound(positions[u]) /\ Fits(positions[u], candidates'[u])
    BY <1>1 DEF MapsFit, portfolio
  <2>1. Sound(positions[u]) /\ Fits(positions[u], candidates[u])
    BY DEF IInv, MapsFit
  <2>2. CASE u = t
    <3>1. positions[u] = NoPosition
      BY <1>1, <2>1, <2>2 DEF Sound
    <3>. QED  BY <1>2, <1>3, <2>1, <2>2, <3>1 DEF Fits
  <2>3. CASE u # t
    BY <1>3, <2>1, <2>3
  <2>. QED  BY <2>2, <2>3
<1>5. BookOK' /\ BoughtOK'
  <2>1. BookOK'
    BY <1>1 DEF IInv, BookOK, portfolio
  <2>. SUFFICES ASSUME NEW u \in Tokens PROVE Counted(u)' /\ Within(u, Limit(candidates[u]))'
    BY <2>1 DEF BoughtOK
  <2>2. CASE u = t
    <3>1. Counted(t)' /\ Within(t, Full)' /\ Limit(candidates'[t]) = Full
      BY <1>1, <1>2, <1>3, LimitRaised DEF IInv, BoughtOK, Counted, Within, Limit, portfolio
    <3>. QED  BY <2>2, <3>1 DEF Within
  <2>3. CASE u # t
    BY <1>1, <1>3, <2>3 DEF IInv, BoughtOK, Counted, Within, portfolio
  <2>. QED  BY <2>2, <2>3
<1>6. CASE /\ checkpoint' = [Saved EXCEPT !.candidates = candidates']
           /\ covered' = TRUE
           /\ raises' = raises
  <2>1. /\ checkpoint' \in [stored : BOOLEAN, cash : Nat, positions : Positions,
                            candidates : [Tokens -> Candidate]]
        /\ checkpoint'.stored /\ checkpoint'.cash = cash
        /\ checkpoint'.positions = positions /\ checkpoint'.candidates = candidates'
    BY <1>3, <1>6 DEF Saved, Memory, IInv, TypeOK
  <2>2. TypeOK'
    BY <1>1, <1>3, <1>6, <2>1 DEF IInv, TypeOK, portfolio
  <2>3. CheckpointOK' /\ CoveredIsMemory'
    BY <1>1, <1>4, <1>6, <2>1 DEF CheckpointOK, CoveredIsMemory, MapsFit, portfolio
  <2>. QED  BY <1>4, <1>5, <2>2, <2>3 DEF IInv
<1>7. CASE /\ raises < MaxRaises
           /\ raises' = raises + 1
           /\ UNCHANGED durable
  <2>1. TypeOK'
    BY <1>1, <1>3, <1>7, EngineAssumption DEF IInv, TypeOK, portfolio, durable
  <2>2. CheckpointOK'
    BY <1>1, <1>7 DEF IInv, CheckpointOK, MapsFit, durable, portfolio
  <2>3. CoveredIsMemory'
    BY <1>1, <1>3, <1>7 DEF IInv, CoveredIsMemory, durable, portfolio
  <2>. QED  BY <1>4, <1>5, <2>1, <2>2, <2>3 DEF IInv
<1>. QED  BY <1>6, <1>7 DEF Purge

(* A restore brings back what the checkpoint has.                          *)
LEMMA StartIInv ==
  ASSUME IInv, Start
  PROVE  IInv'
<1>1. CASE Restorable
  <2>1. /\ process' = "running" /\ cash' = checkpoint.cash
        /\ positions' = checkpoint.positions /\ candidates' = checkpoint.candidates
        /\ book' = [t \in Tokens |-> NoPosition] /\ shared' = ~ checkpoint.stored
        /\ bought' = bought
        /\ UNCHANGED <<handler, durable, raises, losses>>
    BY <1>1 DEF Start
  <2>2. NoPosition \in Position /\ Sound(NoPosition)
    BY NoPositionIsSound
  <2>3. TypeOK'
    BY <2>1, <2>2 DEF IInv, TypeOK, durable, Positions
  <2>4. MapsFit(positions, candidates)' /\ CheckpointOK'
    BY <2>1 DEF IInv, CheckpointOK, MapsFit, durable
  <2>5. BookOK'
    BY <2>1, <2>2 DEF IInv, CheckpointOK, BookOK
  <2>6. CoveredIsMemory'
    BY <2>1 DEF CoveredIsMemory, durable
  <2>7. BoughtOK'
    <3>. SUFFICES ASSUME NEW t \in Tokens PROVE Counted(t)' /\ Within(t, Limit(candidates[t]))'
      BY DEF BoughtOK
    <3>1. positions' = positions /\ (positions[t].exists => candidates'[t] = candidates[t])
      BY <1>1, <2>1 DEF IInv, CoveredIsMemory, Restorable
    <3>2. shared' => shared
      BY <2>1 DEF IInv, CheckpointOK
    <3>3. Counted(t)' /\ bought[t] \in Nat
      BY <2>1, <3>1, <3>2 DEF IInv, TypeOK, BoughtOK, Counted
    <3>4. CASE positions[t].exists
      <4>1. bought[t] <= Limit(candidates[t])
        BY <3>4 DEF IInv, BoughtOK, Within
      <4>2. bought'[t] = bought[t] /\ candidates'[t] = candidates[t]
        BY <2>1, <3>1, <3>4
      <4>3. bought'[t] <= Limit(candidates'[t])
        BY <4>1, <4>2
      <4>. QED  BY <3>3, <4>3 DEF Within
    <3>5. CASE ~ positions[t].exists
      <4>1. shared' => bought[t] = 0
        BY <3>2, <3>5 DEF IInv, BoughtOK, Counted
      <4>. QED  BY <2>1, <3>1, <3>3, <3>5, <4>1, LimitIsWithinFull DEF Within
    <3>. QED  BY <3>3, <3>4, <3>5
  <2>. QED  BY <2>3, <2>4, <2>5, <2>6, <2>7 DEF IInv
<1>2. CASE ~ Restorable
  <2>1. process' = "blocked" /\ UNCHANGED <<portfolio, candidates, handler, durable, raises, losses>>
    BY <1>2 DEF Start
  <2>2. TypeOK'
    BY <2>1 DEF IInv, TypeOK, portfolio, durable
  <2>3. MapsFit(positions, candidates)' /\ BoughtOK' /\ BookOK' /\ CheckpointOK' /\ CoveredIsMemory'
    BY <2>1 DEF IInv, MapsFit, BoughtOK, Counted, Within, BookOK, CheckpointOK, CoveredIsMemory, portfolio, durable
  <2>. QED  BY <2>2, <2>3 DEF IInv
<1>. QED  BY <1>1, <1>2

(* Every step keeps the inductive invariant.                               *)
LEMMA NextIInv == IInv /\ [Next]_vars => IInv'
<1>. SUFFICES ASSUME IInv, [Next]_vars PROVE IInv'
  OBVIOUS
<1>1. ASSUME NEW t \in Tokens, NEW entity \in Entities, NEW tier \in {"S", "A"},
             NEW clean \in BOOLEAN, FirstTouch(t, entity, tier, clean)
      PROVE  IInv'
  BY <1>1, FirstTouchIInv
<1>2. ASSUME NEW t \in Tokens, NEW entity \in Entities, NEW clean \in BOOLEAN,
             NEW timely \in BOOLEAN, Confirm(t, entity, clean, timely)
      PROVE  IInv'
  BY <1>2, ConfirmIInv
<1>3. ASSUME NEW t \in Tokens, Price(t) \/ Purge(t)
      PROVE  IInv'
  BY <1>3, PriceIInv, PurgeIInv
<1>4. CASE Write
  BY <1>4, AppendIInv, SaveIInv DEF Write
<1>5. CASE Raise \/ Lose
  BY <1>5, StopIInv
<1>6. CASE Start
  BY <1>6, StartIInv
<1>7. CASE UNCHANGED vars
  <2>1. TypeOK'
    BY <1>7 DEF IInv, TypeOK, vars, portfolio, durable
  <2>2. MapsFit(positions, candidates)' /\ BoughtOK' /\ BookOK' /\ CheckpointOK' /\ CoveredIsMemory'
    BY <1>7 DEF IInv, MapsFit, BoughtOK, Counted, Within, BookOK, CheckpointOK, CoveredIsMemory,
                 vars, portfolio, durable
  <2>. QED  BY <2>1, <2>2 DEF IInv
<1>. QED  BY <1>1, <1>2, <1>3, <1>4, <1>5, <1>6, <1>7 DEF Next

(* The invariant holds in every behaviour.                                 *)
THEOREM SpecIInv == Spec => []IInv
<1>. QED  BY InitIInv, NextIInv, PTL DEF Spec

-----------------------------------------------------------------------------
(* Cash, maps, candidates and checkpoint stay well formed; cash is never   *)
(* overdrawn.                                                              *)
THEOREM TypeCorrect == Spec => []TypeOK
<1>1. IInv => TypeOK
  BY DEF IInv
<1>. QED  BY <1>1, SpecIInv, PTL

(* Whatever raises, is purged, lost or restored, an open position has a    *)
(* candidate that can still exit it.                                       *)
THEOREM OpenAreWatched == Spec => []OpenPositionsAreWatched
<1>1. IInv => OpenPositionsAreWatched
  <2>. SUFFICES ASSUME IInv, NEW t \in Tokens, IsOpen(positions[t])
                PROVE  candidates[t].status \in {"waiting", "confirmed"}
    BY DEF OpenPositionsAreWatched
  <2>1. /\ candidates[t].status \in Statuses \cup {"none"}
        /\ Fits(positions[t], candidates[t])
    BY DEF IInv, TypeOK, MapsFit, Candidate
  <2>2. positions[t] # NoPosition
    BY DEF IsOpen, NoPosition
  <2>. QED  BY <2>1, <2>2 DEF Fits, Statuses
<1>. QED  BY <1>1, SpecIInv, PTL

(* No token is bought beyond a full position, fees apart, before the first *)
(* restore, and none that the facade has a position of ever after: over    *)
(* all runs together, whatever raises, is purged, lost or restored.        *)
THEOREM WithinFull == Spec => []BoughtWithinFull
<1>1. IInv => BoughtWithinFull
  BY LimitRaised DEF BoughtWithinFull, Within
<1>. QED  BY <1>1, SpecIInv, PTL

(* A restart goes on from exactly what was lost, or not at all.            *)
THEOREM RestartsAreExact == Spec => RestartIsExactOrBlocked
<1>1. IInv /\ [Next]_vars =>
        [(process = "lost" /\ process' = "running") =>
           /\ cash' = cash /\ positions' = positions
           /\ \A t \in Tokens : positions[t].exists => candidates'[t] = candidates[t]]_vars
  <2>. SUFFICES ASSUME IInv, Next, process = "lost", process' = "running"
                PROVE  /\ cash' = cash /\ positions' = positions
                       /\ \A t \in Tokens : positions[t].exists => candidates'[t] = candidates[t]
    OBVIOUS
  <2>1. Start
    BY DEF Next, FirstTouch, Confirm, Price, PriceMarks, PriceExpires, PriceHarvests, PriceCloses,
       Write, AppendIntent, AppendOutcome, SaveCheckpoint, Raise, Purge, Lose, Ready
  <2>2. covered
    BY <2>1 DEF Start, Restorable
  <2>3. /\ cash' = checkpoint.cash /\ positions' = checkpoint.positions
        /\ candidates' = checkpoint.candidates
    BY <2>1, <2>2 DEF Start, Restorable
  <2>. QED  BY <2>2, <2>3 DEF IInv, CoveredIsMemory
<1>. QED  BY <1>1, SpecIInv, PTL DEF Spec, RestartIsExactOrBlocked

-----------------------------------------------------------------------------
(* The map the NAV is computed from is the map the fills go to.            *)
NavFollowsFacade == losses = 0 => book = positions

(* A restore is what separates the two maps, and it takes a loss.          *)
OneMap == losses = 0 => shared /\ process = "running"

LEMMA OneMapNext == IInv /\ OneMap /\ [Next]_vars => OneMap'
<1>. SUFFICES ASSUME IInv, OneMap, [Next]_vars, losses' = 0 PROVE shared' /\ process' = "running"
  BY DEF OneMap
<1>1. losses \in Nat
  BY DEF IInv, TypeOK
<1>2. ASSUME NEW t \in Tokens, NEW size, Buy(t, size) PROVE shared' = shared
  BY <1>2 DEF Buy, Fill, SetPosition, Register, portfolio
<1>3. ASSUME NEW t \in Tokens, SellAll(t) \/ Harvest(t) PROVE shared' = shared
  BY <1>3 DEF SellAll, Harvest, Sell, SetPosition, portfolio
<1>4. ASSUME NEW t \in Tokens, NEW entity, NEW tier, NEW clean, FirstTouch(t, entity, tier, clean)
      PROVE  shared' = shared /\ UNCHANGED <<process, losses>>
  BY <1>2, <1>4 DEF FirstTouch, Writes, portfolio
<1>5. ASSUME NEW t \in Tokens, NEW entity, NEW clean, NEW timely, Confirm(t, entity, clean, timely)
      PROVE  shared' = shared /\ UNCHANGED <<process, losses>>
  BY <1>2, <1>5 DEF Confirm, Writes, portfolio
<1>6. ASSUME NEW t \in Tokens, Price(t)
      PROVE  shared' = shared /\ UNCHANGED <<process, losses>>
  BY <1>3, <1>6 DEF Price, PriceMarks, PriceExpires, PriceHarvests, PriceCloses, Writes, portfolio
<1>7. CASE Write \/ Raise \/ (\E t \in Tokens : Purge(t)) \/ UNCHANGED vars
  BY <1>7 DEF Write, AppendIntent, AppendOutcome, SaveCheckpoint, Raise, Purge, portfolio, vars, OneMap
<1>8. CASE Lose
  BY <1>1, <1>8 DEF Lose
<1>9. CASE Start
  BY <1>9 DEF Start, OneMap
<1>. QED  BY <1>4, <1>5, <1>6, <1>7, <1>8, <1>9 DEF Next, OneMap

(* Until the process is first lost the NAV is computed from exactly the    *)
(* positions the engine trades: raises, refused fills and purges do not    *)
(* part the two maps, only a restored checkpoint does.                     *)
THEOREM NavIsExactUntilLoss == Spec => []NavFollowsFacade
<1>1. Init => OneMap
  BY DEF Init, OneMap
<1>2. IInv /\ OneMap => NavFollowsFacade
  BY DEF IInv, BookOK, OneMap, NavFollowsFacade
<1>. QED  BY <1>1, <1>2, OneMapNext, SpecIInv, PTL DEF Spec
=============================================================================

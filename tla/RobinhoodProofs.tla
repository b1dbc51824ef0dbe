-------------------------- MODULE RobinhoodProofs --------------------------
(***************************************************************************)
(* Proofs about RobinhoodCapital, for every set of evidence, every target  *)
(* and portfolio, and any number of lots, releases and losses.             *)
(***************************************************************************)
EXTENDS RobinhoodCapital, FiniteSetTheorems, TLAPS

(* The capital asked for is there while the validation is awaited, or     *)
(* until it is given back, and no lot has used it yet.                     *)
QuotesAreFunded ==
  entry.pc \in {"quoting", "refused"} =>
    /\ entry.evidence \in Evidences
    /\ entry.fraction > 0
    /\ LotsOf(entry.evidence) = {}
    /\ Holds(entry.evidence, entry.fraction)

(* A scale that fitted when it was validated fits whatever exits do in its *)
(* awaits: the row only shrinks.                                           *)
ScalesFit ==
  entry.pc = "quoting" /\ entry.stage = "scale" =>
    position.remaining + entry.fraction <= Target

(* What an exit saw is still open, and was no more than there is now.      *)
SeenIsOpen ==
  exit.pc = "quoting" =>
    /\ position.status \in Open /\ exit.status \in Open
    /\ exit.remaining <= position.remaining

(* A lot's lineage is its own: the entry's reservation, then its residuals *)
(* in their order.                                                         *)
LineagesAreOwn ==
  \A l \in Taken :
    /\ lots[l].evidence \in Evidences
    /\ lots[l].remaining <= lots[l].entry
    /\ \/ lots[l].link \in {Nothing, lots[l].evidence}
       \/ lots[l].link \in {l} \X (1..lots[l].slices)

(* Every slice takes something off what the lineage accounts for.          *)
AccountsAreBounded ==
  \A l \in LotIds :
    /\ lots[l].slices + lots[l].accounted <= lots[l].entry
    /\ lots[l].link = Nothing => lots[l].accounted = 0

EvidenceIsUsedOnce ==
  \A l, k \in Taken : lots[l].evidence = lots[k].evidence => l = k

OpenLotsHold == \A l \in OpenLots : Holds(Backing(l), lots[l].remaining)

(* Generations are counted by lots.                                        *)
GenerationsHaveLots == 1..position.generation \subseteq Taken

(* The inductive invariant.                                                *)
IInv ==
  /\ TypeOK
  /\ QuotesAreFunded
  /\ ScalesFit
  /\ SeenIsOpen
  /\ LineagesAreOwn
  /\ AccountsAreBounded
  /\ EvidenceIsUsedOnce
  /\ OpenLotsHold
  /\ GenerationsHaveLots

EntryStates ==
  [pc : {"idle", "quoting", "refused", "linking"}, evidence : Evidences \cup {Nothing},
   fraction : 0..Target, stage : {"none", "starter", "scale"}]

ExitStates ==
  [pc : {"idle", "quoting", "syncing"}, remaining : 0..Target,
   status : {"none"} \cup Open, stage : 0..2, queue : SUBSET LotIds]

Kept(ids) ==
  \A r \in Releases, j \in Ledger!AllIds \ ids :
    reservations'[<<r, j>>] = reservations[<<r, j>>]

-----------------------------------------------------------------------------
(* What is proved of the ledger alone holds of the ledger in use.  Capital *)
(* is the same instance as Ledger, with the theorems about it.             *)
Capital == INSTANCE PaperCapitalRefinementProofs WITH
             Ids <- Evidences \cup Others, Returns <- {0},
             Calls <- {Whole(f) : f \in 1..Units}

LEMMA LedgerAssumption == Capital!CapitalAssumption
<1>. USE RobinhoodAssumption
<1>1. IsFiniteSet(Releases)
  BY FS_Interval DEF Releases
<1>2. IsFiniteSet(Residuals)
  <2>1. IsFiniteSet(LotIds) /\ IsFiniteSet(1..Target)
    BY FS_Interval DEF LotIds
  <2>. QED  BY <2>1, FS_Product DEF Residuals
<1>3. IsFiniteSet((Evidences \cup Others) \cup Residuals)
  BY <1>2, FS_Union
<1>4. \A S : IsFiniteSet(S) <=> Capital!IsFiniteSet(S)
  BY DEF IsFiniteSet, Capital!IsFiniteSet
<1>5. {Whole(f) : f \in 1..Units} \subseteq Capital!Call
  <2>. SUFFICES ASSUME NEW f \in 1..Units PROVE Whole(f) \in Capital!Call
    OBVIOUS
  <2>1. f \in Nat /\ Units \in 0..Units
    OBVIOUS
  <2>. QED  BY <2>1 DEF Capital!Call, Whole
<1>. QED  BY <1>1, <1>3, <1>4, <1>5 DEF Capital!CapitalAssumption, Capital!AllIds

LEMMA SameKeys == Capital!Keys = Ledger!Keys /\ Capital!AllIds = Ledger!AllIds
BY DEF Capital!Keys, Ledger!Keys, Capital!AllIds, Ledger!AllIds

LEMMA SameTotal == \A table : Capital!Total(table) = Ledger!Total(table)
BY DEF Capital!Total, Ledger!Total, Capital!Cardinality, Ledger!Cardinality,
       Capital!HeldUnits, Ledger!HeldUnits, Capital!Keys, Ledger!Keys,
       Capital!AllIds, Ledger!AllIds, Capital!UnitsOf, Ledger!UnitsOf

LEMMA SameInit == Ledger!Init => Capital!Init
BY SameKeys DEF Ledger!Init, Capital!Init, Capital!AbsentRow, Ledger!AbsentRow,
   Capital!NoSettlement, Ledger!NoSettlement

LEMMA SameType == Ledger!TypeOK <=> Capital!TypeOK
BY SameKeys DEF Ledger!TypeOK, Capital!TypeOK, Capital!Row, Ledger!Row, Capital!Statuses,
   Ledger!Statuses, Capital!Settlement, Ledger!Settlement

LEMMA SameNext == Ledger!Next <=> Capital!Next
<1>1. \A r, i, call : Capital!Reserve(r, i, call) <=> Ledger!Reserve(r, i, call)
  BY SameTotal
  DEF Capital!Reserve, Ledger!Reserve, Capital!Rows, Ledger!Rows, Capital!NewRow, Ledger!NewRow,
      Capital!Granted, Ledger!Granted, Capital!Available, Ledger!Available,
      Capital!ActiveTotal, Ledger!ActiveTotal
<1>2. \A i, net : Capital!Settle(i, net) <=> Ledger!Settle(i, net)
  BY DEF Capital!Settle, Ledger!Settle, Capital!Settleable, Ledger!Settleable,
         Capital!ActiveRows, Ledger!ActiveRows, Capital!Settled, Ledger!Settled
<1>3. \A i : Capital!Cancel(i) <=> Ledger!Cancel(i)
  BY DEF Capital!Cancel, Ledger!Cancel, Capital!ActiveRows, Ledger!ActiveRows
<1>4. \A i, residual, remaining, net :
        Capital!SettleSlice(i, residual, remaining, net)
          <=> Ledger!SettleSlice(i, residual, remaining, net)
  BY DEF Capital!SettleSlice, Ledger!SettleSlice, Capital!Settleable, Ledger!Settleable,
         Capital!ActiveRows, Ledger!ActiveRows, Capital!Settled, Ledger!Settled,
         Capital!Rows, Ledger!Rows, Capital!NewRow, Ledger!NewRow
<1>5. Capital!AllIds = Ledger!AllIds
  BY SameKeys
<1>. QED  BY <1>1, <1>2, <1>3, <1>4, <1>5 DEF Ledger!Next, Capital!Next

LEMMA LedgerStaysTyped ==
  ASSUME Ledger!TypeOK, Ledger!Next
  PROVE  Ledger!TypeOK'
<1>1. Capital!TypeOK /\ Capital!Next
  BY SameType, SameNext
<1>2. Capital!TypeOK'
  BY <1>1, LedgerAssumption, Capital!NextTypeOK
<1>3. Ledger!TypeOK' <=> Capital!TypeOK'
  BY SameKeys DEF Ledger!TypeOK, Capital!TypeOK, Capital!Row, Ledger!Row, Capital!Statuses,
     Ledger!Statuses, Capital!Settlement, Ledger!Settlement
<1>. QED  BY <1>2, <1>3

-----------------------------------------------------------------------------
(* Each operation writes the rows of the ids it is about, no others.       *)
LEMMA ReserveKeeps ==
  ASSUME Ledger!TypeOK, NEW i \in Evidences \cup Others, NEW f \in 1..Units,
         release \in Releases, Ledger!Reserve(release, i, Whole(f))
  PROVE  /\ Ledger!Next
         /\ Kept({i})
         /\ Ledger!Granted(Whole(f)) > 0 => Holds(i, f)'
<1>. USE RobinhoodAssumption
<1>. DEFINE k   == <<release, i>>
            row == Ledger!NewRow(Ledger!Granted(Whole(f)))
<1>1. Ledger!Next
  BY DEF Ledger!Next
<1>2. k \in Ledger!Keys /\ reservations \in [Ledger!Keys -> Ledger!Row]
  BY DEF Ledger!TypeOK, Ledger!Keys, Ledger!AllIds
<1>3. reservations' = [reservations EXCEPT ![k] = row] /\ Ledger!Rows(i) = {}
  BY DEF Ledger!Reserve
<1>. HIDE DEF row
<1>4. Kept({i})
  BY <1>2, <1>3 DEF Kept, Ledger!Keys
<1>5. ASSUME Ledger!Granted(Whole(f)) > 0 PROVE Holds(i, f)'
  <2>1. Ledger!Granted(Whole(f)) = f
    BY <1>5 DEF Ledger!Granted, Whole
  <2>2. row = [status |-> "active", reserved |-> f]
    BY <2>1 DEF row, Ledger!NewRow
  <2>3. reservations'[k] = row
    BY <1>2, <1>3
  <2>4. \A r \in Releases : r # release => reservations'[<<r, i>>].status = "absent"
    <3>. SUFFICES ASSUME NEW r \in Releases, r # release
                  PROVE  reservations'[<<r, i>>].status = "absent"
      OBVIOUS
    <3>1. <<r, i>> \in Ledger!Keys /\ <<r, i>> # k
      BY DEF Ledger!Keys, Ledger!AllIds
    <3>2. reservations[<<r, i>>].status = "absent"
      BY <1>3 DEF Ledger!Rows
    <3>. QED  BY <1>2, <1>3, <3>1, <3>2
  <2>5. Ledger!ActiveRows(i)' = {release}
    BY <2>2, <2>3, <2>4 DEF Ledger!ActiveRows
  <2>. QED  BY <2>2, <2>3, <2>5 DEF Holds
<1>. QED  BY <1>1, <1>4, <1>5

LEMMA CancelKeeps ==
  ASSUME Ledger!TypeOK, NEW i \in Evidences \cup Others, Ledger!Cancel(i)
  PROVE  Ledger!Next /\ Kept({i})
<1>1. PICK r \in Releases :
        reservations' = [reservations EXCEPT ![<<r, i>>].status = "cancelled"]
  BY DEF Ledger!Cancel
<1>. QED  BY <1>1 DEF Ledger!Next, Kept, Ledger!TypeOK, Ledger!Keys

LEMMA SettleKeeps ==
  ASSUME Ledger!TypeOK, NEW i \in Evidences \cup Others, Ledger!Settle(i, 0)
  PROVE  Ledger!Next /\ Kept({i})
<1>1. PICK r \in Releases :
        reservations' = [reservations EXCEPT ![<<r, i>>].status = "settled"]
  BY DEF Ledger!Settle
<1>. QED  BY <1>1 DEF Ledger!Next, Kept, Ledger!TypeOK, Ledger!Keys

LEMMA SliceKeeps ==
  ASSUME Ledger!TypeOK, NEW i \in Ledger!AllIds, NEW residual \in Residuals,
         NEW remaining \in 0..Units, residual # i,
         Ledger!SettleSlice(i, residual, remaining, 0)
  PROVE  /\ Ledger!Next
         /\ Kept({i, residual})
         /\ remaining > 0 => Holds(residual, remaining)'
<1>. USE RobinhoodAssumption
<1>1. PICK r \in Releases :
        /\ Ledger!Rows(residual) = {}
        /\ LET closed == [reservations EXCEPT ![<<r, i>>].status = "settled"]
           IN  reservations' =
                 IF remaining > 0
                 THEN [closed EXCEPT ![<<r, residual>>] = Ledger!NewRow(remaining)]
                 ELSE closed
  BY DEF Ledger!SettleSlice
<1>. DEFINE closed == [reservations EXCEPT ![<<r, i>>].status = "settled"]
            row    == Ledger!NewRow(remaining)
<1>2. /\ reservations \in [Ledger!Keys -> Ledger!Row]
      /\ \A q \in Releases : <<q, residual>> \in Ledger!Keys
  BY DEF Ledger!TypeOK, Ledger!Keys, Ledger!AllIds
<1>3. /\ DOMAIN closed = Ledger!Keys
      /\ \A q \in Releases, j \in Ledger!AllIds : j # i => closed[<<q, j>>] = reservations[<<q, j>>]
  BY <1>2 DEF Ledger!Keys
<1>4. reservations' = IF remaining > 0 THEN [closed EXCEPT ![<<r, residual>>] = row] ELSE closed
  BY <1>1
<1>5. remaining > 0 => row = [status |-> "active", reserved |-> remaining]
  BY DEF Ledger!NewRow
<1>. HIDE DEF closed, row
<1>6. Kept({i, residual})
  BY <1>3, <1>4 DEF Kept, Ledger!Keys
<1>7. ASSUME remaining > 0 PROVE Holds(residual, remaining)'
  <2>1. reservations'[<<r, residual>>] = [status |-> "active", reserved |-> remaining]
    BY <1>2, <1>3, <1>4, <1>5, <1>7
  <2>2. ASSUME NEW q \in Releases, q # r
        PROVE  reservations'[<<q, residual>>].status = "absent"
    <3>1. reservations'[<<q, residual>>] = closed[<<q, residual>>]
      BY <1>2, <1>3, <1>4, <2>2
    <3>2. closed[<<q, residual>>] = reservations[<<q, residual>>]
      BY <1>3 DEF Ledger!AllIds
    <3>. QED  BY <1>1, <3>1, <3>2 DEF Ledger!Rows
  <2>3. Ledger!ActiveRows(residual)' = {r}
    BY <2>1, <2>2 DEF Ledger!ActiveRows
  <2>. QED  BY <2>1, <2>3 DEF Holds
<1>8. Ledger!Next
  BY DEF Ledger!Next
<1>. QED  BY <1>6, <1>7, <1>8

(* An id whose rows stay as they are holds what it held.                   *)
LEMMA HoldsKept ==
  ASSUME NEW ids, Kept(ids), NEW j \in Ledger!AllIds \ ids, NEW f, Holds(j, f)
  PROVE  Holds(j, f)'
<1>1. \A r \in Releases : reservations'[<<r, j>>] = reservations[<<r, j>>]
  BY DEF Kept
<1>2. Ledger!ActiveRows(j)' = Ledger!ActiveRows(j)
  BY <1>1 DEF Ledger!ActiveRows
<1>. QED  BY <1>1, <1>2 DEF Holds

(* Where the capital of a lot is.                                          *)
LEMMA BackingIsOwn ==
  ASSUME IInv, NEW l \in Taken
  PROVE  /\ Backing(l) \in Ledger!AllIds
         /\ Backing(l) = lots[l].evidence \/ Backing(l) \in {l} \X (1..lots[l].slices)
         /\ Backing(l) = lots[l].evidence \/ Backing(l) \in Residuals
         /\ lots[l].evidence \in Evidences
<1>. USE RobinhoodAssumption
<1>1. lots[l] \in Lot /\ l \in LotIds
  BY DEF IInv, TypeOK, Taken
<1>2. lots[l].slices \in 0..Target
  BY <1>1 DEF Lot
<1>3. {l} \X (1..lots[l].slices) \subseteq Residuals
  BY <1>1, <1>2 DEF Residuals
<1>4. Backing(l) = lots[l].evidence \/ Backing(l) \in {l} \X (1..lots[l].slices)
  BY DEF IInv, LineagesAreOwn, Backing
<1>. QED  BY <1>3, <1>4 DEF IInv, LineagesAreOwn, Ledger!AllIds

LEMMA BackingsDiffer ==
  ASSUME IInv, NEW l \in Taken, NEW k \in Taken, l # k
  PROVE  Backing(l) # Backing(k)
<1>. USE RobinhoodAssumption
<1>1. lots[l].evidence # lots[k].evidence
  BY DEF IInv, EvidenceIsUsedOnce
<1>2. ASSUME NEW m \in Taken PROVE {m} \X (1..lots[m].slices) \subseteq Residuals
  <2>1. lots[m] \in Lot /\ m \in LotIds
    BY DEF IInv, TypeOK, Taken
  <2>2. lots[m].slices \in 0..Target
    BY <2>1 DEF Lot
  <2>. QED  BY <2>1, <2>2 DEF Residuals
<1>3. {l} \X (1..lots[l].slices) \subseteq Residuals /\ {k} \X (1..lots[k].slices) \subseteq Residuals
  BY <1>2
<1>. QED  BY <1>1, <1>3, BackingIsOwn

-----------------------------------------------------------------------------
LEMMA InitIInv == Init => IInv
<1>. SUFFICES ASSUME Init PROVE IInv
  OBVIOUS
<1>. USE RobinhoodAssumption
<1>1. Ledger!TypeOK
  BY DEF Init, Ledger!Init, Ledger!TypeOK, Ledger!Row, Ledger!Statuses, Ledger!AbsentRow,
     Ledger!Settlement, Ledger!NoSettlement
<1>2. NoLot \in Lot
  BY DEF NoLot, Lot, Releases
<1>3. lots \in [LotIds -> Lot] /\ Taken = {}
  BY <1>2 DEF Init, Taken, NoLot
<1>4. TypeOK
  <2>1. NoPosition \in Position
    BY DEF Position, NoPosition
  <2>2. NoEntry \in EntryStates /\ NoExit \in ExitStates
    BY DEF NoEntry, NoExit, EntryStates, ExitStates
  <2>3. position \in Position /\ release \in Releases /\ losses \in 0..MaxLosses
    BY <2>1 DEF Init, Releases
  <2>4. entry \in EntryStates /\ exit \in ExitStates /\ overtaken \in BOOLEAN
    BY <2>2 DEF Init
  <2>. QED  BY <1>1, <1>3, <2>3, <2>4 DEF TypeOK, EntryStates, ExitStates
<1>5. AccountsAreBounded
  BY DEF Init, AccountsAreBounded, NoLot
<1>. QED  BY <1>3, <1>4, <1>5 DEF Init, IInv, QuotesAreFunded, ScalesFit, SeenIsOpen, LineagesAreOwn,
            EvidenceIsUsedOnce, OpenLotsHold, OpenLots, GenerationsHaveLots, NoPosition, NoEntry, NoExit

(* A step over the ledger alone, of an id that backs no lot.               *)
LEMMA LedgerStepIInv ==
  ASSUME IInv, Ledger!TypeOK', NEW i \in Evidences \cup Others, Kept({i}),
         \A l \in Taken : lots[l].evidence # i,
         UNCHANGED <<lots, position, exit, release, losses, overtaken>>,
         entry' \in EntryStates, QuotesAreFunded', ScalesFit'
  PROVE  IInv'
<1>. USE RobinhoodAssumption
<1>1. TypeOK'
  BY DEF IInv, TypeOK, EntryStates
<1>2. Taken' = Taken /\ OpenLots' = OpenLots
  BY DEF Taken, OpenLots
<1>3. LineagesAreOwn' /\ AccountsAreBounded' /\ EvidenceIsUsedOnce' /\ GenerationsHaveLots'
  BY <1>2 DEF IInv, LineagesAreOwn, AccountsAreBounded, EvidenceIsUsedOnce, GenerationsHaveLots
<1>4. OpenLotsHold'
  <2>. SUFFICES ASSUME NEW l \in OpenLots PROVE Holds(Backing(l), lots[l].remaining)'
    BY <1>2 DEF OpenLotsHold
  <2>1. l \in Taken
    BY DEF OpenLots
  <2>2. Backing(l) \in Ledger!AllIds \ {i}
    BY <2>1, BackingIsOwn
  <2>3. Holds(Backing(l), lots[l].remaining)
    BY DEF IInv, OpenLotsHold
  <2>4. PICK b, f : b = Backing(l) /\ f = lots[l].remaining
    OBVIOUS
  <2>5. Backing(l)' = b /\ lots[l].remaining' = f
    BY <2>4 DEF Backing
  <2>6. Holds(b, f)'
    BY <2>2, <2>3, <2>4, HoldsKept
  <2>. QED  BY <2>5, <2>6
<1>5. SeenIsOpen'
  BY DEF IInv, SeenIsOpen
<1>. QED  BY <1>1, <1>3, <1>4, <1>5 DEF IInv

(* What the tasks are set to.                                              *)
LEMMA TasksAreStates ==
  /\ NoEntry \in EntryStates /\ NoEntry.pc = "idle"
  /\ NoExit \in ExitStates /\ NoExit.pc = "idle"
  /\ \A q \in SUBSET LotIds : Syncing(q) \in ExitStates /\ Syncing(q).pc \in {"idle", "syncing"}
  /\ \A pc \in {"quoting", "refused", "linking"}, e \in Evidences, f \in 1..Target,
        s \in {"starter", "scale"} :
       /\ Asking(pc, e, f, s) \in EntryStates
       /\ Asking(pc, e, f, s).pc = pc /\ Asking(pc, e, f, s).stage = s
       /\ Asking(pc, e, f, s).evidence = e /\ Asking(pc, e, f, s).fraction = f
<1>. USE RobinhoodAssumption
<1>1. NoEntry \in EntryStates /\ NoEntry.pc = "idle"
  BY DEF NoEntry, EntryStates
<1>2. NoExit \in ExitStates /\ NoExit.pc = "idle"
  BY DEF NoExit, ExitStates
<1>3. ASSUME NEW q \in SUBSET LotIds
      PROVE  Syncing(q) \in ExitStates /\ Syncing(q).pc \in {"idle", "syncing"}
  BY <1>2 DEF Syncing, ExitStates
<1>4. ASSUME NEW pc \in {"quoting", "refused", "linking"}, NEW e \in Evidences, NEW f \in 1..Target,
             NEW s \in {"starter", "scale"}
      PROVE  /\ Asking(pc, e, f, s) \in EntryStates
             /\ Asking(pc, e, f, s).pc = pc /\ Asking(pc, e, f, s).stage = s
             /\ Asking(pc, e, f, s).evidence = e /\ Asking(pc, e, f, s).fraction = f
  BY DEF Asking, EntryStates
<1>. QED  BY <1>1, <1>2, <1>3, <1>4

LEMMA AskCapitalIInv ==
  ASSUME IInv, NEW e \in Evidences, NEW f \in 1..Target, AskCapital(e, f)
  PROVE  IInv'
<1>. USE RobinhoodAssumption
<1>1. /\ UNCHANGED <<lots, position, exit, release, losses, overtaken>>
      /\ LotsOf(e) = {} /\ LotsOf(e)' = {}
      /\ release \in Releases /\ Ledger!TypeOK
  BY DEF AskCapital, Known, IInv, TypeOK, LotsOf, Taken
<1>2. \A l \in Taken : lots[l].evidence # e
  BY <1>1 DEF LotsOf
<1>. DEFINE pc == IF Valid(f) THEN "quoting" ELSE "refused"
<1>3. PICK asked : asked = Asking(pc, e, f, Stage)
  OBVIOUS
<1>4. /\ asked \in EntryStates /\ asked.pc = pc /\ asked.stage = Stage
      /\ asked.evidence = e /\ asked.fraction = f
  <2>1. Stage \in {"starter", "scale"} /\ pc \in {"quoting", "refused"}
    BY DEF Stage
  <2>. QED  BY <1>3, <2>1, TasksAreStates
<1>5. entry' \in {NoEntry, asked}
  BY <1>3 DEF AskCapital
<1>6. entry' \in EntryStates /\ (entry'.pc # "idle" => entry' = asked)
  BY <1>4, <1>5, TasksAreStates
<1>7. /\ Ledger!TypeOK' /\ Kept({e})
      /\ entry' = asked => Holds(e, f)'
  <2>0. asked # NoEntry
    BY <1>4, TasksAreStates
  <2>1. CASE Ledger!CanonicalStatus(e) = "absent"
    <3>1. /\ Ledger!Reserve(release, e, Whole(f))
          /\ entry' = IF Ledger!Granted(Whole(f)) > 0 THEN asked ELSE NoEntry
      BY <1>3, <2>1 DEF AskCapital
    <3>2. f \in 1..Units
      OBVIOUS
    <3>3. /\ Ledger!Next /\ Kept({e})
          /\ Ledger!Granted(Whole(f)) > 0 => Holds(e, f)'
      BY <1>1, <3>1, <3>2, ReserveKeeps
    <3>. QED  BY <1>1, <2>0, <3>1, <3>3, LedgerStaysTyped
  <2>2. CASE Ledger!CanonicalStatus(e) # "absent"
    <3>1. UNCHANGED ledger /\ entry' = IF Holds(e, f) THEN asked ELSE NoEntry
      BY <1>3, <2>2 DEF AskCapital
    <3>2. entry' = asked => Holds(e, f)
      BY <2>0, <3>1
    <3>. QED  BY <1>1, <3>1, <3>2 DEF ledger, Ledger!TypeOK, Kept, Holds, Ledger!ActiveRows
  <2>. QED  BY <2>1, <2>2
<1>8. QuotesAreFunded'
  <2>. SUFFICES ASSUME entry'.pc \in {"quoting", "refused"} PROVE QuotesAreFunded'
    BY DEF QuotesAreFunded
  <2>1. entry'.evidence = e /\ entry'.fraction = f /\ entry' = asked
    BY <1>4, <1>6
  <2>2. LotsOf(entry.evidence)' = {} /\ Holds(entry.evidence, entry.fraction)'
    BY <1>1, <1>7, <2>1 DEF LotsOf, Holds, Ledger!ActiveRows
  <2>. QED  BY <2>1, <2>2 DEF QuotesAreFunded
<1>9. ScalesFit'
  <2>. SUFFICES ASSUME entry'.pc = "quoting", entry'.stage = "scale"
                PROVE  position'.remaining + entry'.fraction <= Target
    BY DEF ScalesFit
  <2>1. entry' = asked
    BY <1>6
  <2>2. Valid(f) /\ position.status \in Open
    BY <1>4, <2>1 DEF Stage
  <2>. QED  BY <1>1, <1>4, <2>1, <2>2 DEF Valid
<1>. QED  BY <1>1, <1>2, <1>6, <1>7, <1>8, <1>9, LedgerStepIInv

LEMMA DropEntryIInv ==
  ASSUME IInv, DropEntry
  PROVE  IInv'
<1>1. PICK e \in Evidences : e = entry.evidence /\ LotsOf(e) = {}
  BY DEF IInv, QuotesAreFunded, DropEntry
<1>2. /\ Ledger!Cancel(e) /\ entry' = NoEntry
      /\ UNCHANGED <<lots, position, exit, release, losses, overtaken>>
      /\ release \in Releases /\ Ledger!TypeOK
  BY <1>1 DEF DropEntry, IInv, TypeOK
<1>3. Ledger!Next /\ Kept({e})
  BY <1>2, CancelKeeps
<1>4. Ledger!TypeOK'
  BY <1>2, <1>3, LedgerStaysTyped
<1>5. \A l \in Taken : lots[l].evidence # e
  BY <1>1 DEF LotsOf
<1>6. entry' \in EntryStates /\ QuotesAreFunded' /\ ScalesFit'
  BY <1>2, TasksAreStates DEF QuotesAreFunded, ScalesFit
<1>. QED  BY <1>2, <1>3, <1>4, <1>5, <1>6, LedgerStepIInv

(* What an entry under way holds stays with it.                            *)
LEMMA QuoteStaysFunded ==
  ASSUME IInv, NEW ids, Kept(ids), entry.evidence \notin ids, entry' = entry,
         \A l \in LotIds : /\ lots'[l].evidence = lots[l].evidence
                           /\ lots'[l].entry = lots[l].entry
  PROVE  QuotesAreFunded'
<1>. SUFFICES ASSUME entry.pc \in {"quoting", "refused"} PROVE QuotesAreFunded'
  BY DEF QuotesAreFunded
<1>1. PICK e, f : e = entry.evidence /\ f = entry.fraction
  OBVIOUS
<1>2. e \in Evidences /\ f > 0 /\ LotsOf(e) = {} /\ Holds(e, f)
  BY <1>1 DEF IInv, QuotesAreFunded
<1>3. e \in Ledger!AllIds \ ids
  BY <1>1, <1>2 DEF Ledger!AllIds
<1>4. Holds(e, f)'
  BY <1>2, <1>3, HoldsKept
<1>5. LotsOf(e)' = {}
  BY <1>2 DEF LotsOf, Taken
<1>. QED  BY <1>1, <1>2, <1>4, <1>5 DEF QuotesAreFunded

(* Another user of the ledger leaves what the entry under way holds alone. *)
LEMMA OtherIInv ==
  ASSUME IInv, NEW o \in Others, Ledger!Next, Kept({o}),
         UNCHANGED <<lots, position, entry, exit, release, losses, overtaken>>
  PROVE  IInv'
<1>. USE RobinhoodAssumption
<1>1. Ledger!TypeOK /\ release \in Releases /\ entry \in EntryStates
  BY DEF IInv, TypeOK, EntryStates
<1>2. Ledger!TypeOK'
  BY <1>1, LedgerStaysTyped
<1>3. \A l \in Taken : lots[l].evidence # o
  BY DEF IInv, LineagesAreOwn
<1>4. QuotesAreFunded' /\ ScalesFit'
  <2>1. CASE entry.pc \in {"quoting", "refused"}
    <3>1. entry.evidence \notin {o}
      BY <2>1 DEF IInv, QuotesAreFunded
    <3>. QED  BY <3>1, QuoteStaysFunded DEF IInv, ScalesFit
  <2>2. CASE entry.pc \notin {"quoting", "refused"}
    BY <2>2 DEF QuotesAreFunded, ScalesFit
  <2>. QED  BY <2>1, <2>2
<1>. QED  BY <1>1, <1>2, <1>3, <1>4, LedgerStepIInv

-----------------------------------------------------------------------------
LEMMA CommitLotIInv ==
  ASSUME IInv, NEW l \in LotIds, CommitLot(l)
  PROVE  IInv'
<1>. USE RobinhoodAssumption
<1>. DEFINE e    == entry.evidence
            f    == entry.fraction
            next == IF position.status \in Open THEN Scaled(e, f) ELSE Entered(e, f)
            lot  == NewLot(e, f, next.generation)
<1>1. /\ entry.pc = "quoting" /\ entry.stage = Stage
      /\ l \notin Taken /\ 1..(l - 1) \subseteq Taken
      /\ position' = next
      /\ lots' = [lots EXCEPT ![l] = lot]
      /\ entry' = Asking("linking", e, f, entry.stage)
      /\ UNCHANGED <<ledger, exit, release, losses, overtaken>>
  BY DEF CommitLot
<1>2. /\ e \in Evidences /\ f \in 1..Target
      /\ LotsOf(e) = {} /\ Holds(e, f)
  BY <1>1 DEF IInv, QuotesAreFunded, TypeOK
<1>3. lots \in [LotIds -> Lot] /\ position \in Position /\ 1..position.generation \subseteq Taken
  BY DEF IInv, TypeOK, GenerationsHaveLots
<1>4. position.generation \in 0..(l - 1) /\ l \in 1..MaxLots
  <2>1. position.generation \in 0..MaxLots /\ l \in 1..MaxLots
    BY <1>3 DEF Position, LotIds
  <2>2. l \notin 1..position.generation
    BY <1>1, <1>3
  <2>. QED  BY <2>1, <2>2
<1>5. next \in Position /\ next.generation \in 0..l
  <2>1. Entered(e, f) \in Position /\ Entered(e, f).generation \in 0..l
    BY <1>2, <1>4 DEF Entered, Position, Open
  <2>2. CASE position.status \in Open
    <3>1. position.remaining + f \in 0..Target
      <4>1. position.remaining \in 0..Target
        BY <1>3 DEF Position
      <4>2. position.remaining + f <= Target
        BY <1>1, <2>2 DEF IInv, ScalesFit, Stage
      <4>. QED  BY <1>2, <4>1, <4>2
    <3>2. position.stage \in 0..2
      BY <1>3 DEF Position
    <3>. QED  BY <1>2, <1>4, <2>2, <3>1, <3>2 DEF Scaled, Position, Open
  <2>. QED  BY <2>1, <2>2
<1>50. SeenIsOpen'
  <2>. SUFFICES ASSUME exit.pc = "quoting"
                PROVE  /\ next.status \in Open /\ exit.status \in Open
                       /\ exit.remaining <= next.remaining
    BY <1>1 DEF SeenIsOpen
  <2>1. /\ position.status \in Open /\ exit.status \in Open
        /\ exit.remaining <= position.remaining
    BY DEF IInv, SeenIsOpen
  <2>2. exit.remaining \in Nat /\ position.remaining \in Nat
    BY DEF IInv, TypeOK, Position
  <2>3. next.status = "scaling" /\ next.remaining = position.remaining + f
    BY <2>1 DEF Scaled
  <2>. QED  BY <1>2, <2>1, <2>2, <2>3 DEF Open
<1>6. /\ lot \in Lot /\ lot.entry = f /\ lot.remaining = f /\ lot.evidence = e
      /\ lot.link = Nothing /\ lot.slices = 0 /\ lot.accounted = 0
  <2>1. next.generation \in 0..MaxLots /\ release \in Releases
    BY <1>4, <1>5 DEF IInv, TypeOK
  <2>. QED  BY <1>2, <2>1 DEF NewLot, Lot
<1>. HIDE DEF lot, next
<1>7. /\ lots'[l] = lot /\ \A k \in LotIds : k # l => lots'[k] = lots[k]
      /\ lots' \in [LotIds -> Lot]
  BY <1>1, <1>3, <1>6
<1>8. Taken' = Taken \cup {l}
  BY <1>2, <1>6, <1>7 DEF Taken
<1>80. entry' \in EntryStates /\ entry'.pc = "linking"
  <2>1. entry.stage \in {"starter", "scale"}
    BY <1>1 DEF Stage
  <2>. QED  BY <1>1, <1>2, <2>1, TasksAreStates
<1>9. TypeOK'
  <2>1. Ledger!TypeOK'
    BY <1>1 DEF IInv, TypeOK, Ledger!TypeOK, ledger
  <2>. QED  BY <1>1, <1>5, <1>7, <1>80, <2>1 DEF IInv, TypeOK, EntryStates
<1>10. QuotesAreFunded' /\ ScalesFit'
  BY <1>80 DEF QuotesAreFunded, ScalesFit
<1>11. LineagesAreOwn'
  BY <1>1, <1>2, <1>6, <1>7, <1>8 DEF IInv, LineagesAreOwn, Taken
<1>12. EvidenceIsUsedOnce'
  BY <1>1, <1>2, <1>6, <1>7, <1>8 DEF IInv, EvidenceIsUsedOnce, LotsOf, Taken
<1>13. OpenLotsHold'
  <2>. SUFFICES ASSUME NEW k \in OpenLots' PROVE Holds(Backing(k), lots[k].remaining)'
    BY DEF OpenLotsHold
  <2>1. CASE k = l
    <3>1. Backing(k)' = e /\ lots'[k].remaining = f
      BY <1>6, <1>7, <2>1 DEF Backing
    <3>. QED  BY <1>1, <1>2, <3>1 DEF Holds, Ledger!ActiveRows, ledger
  <2>2. CASE k # l
    <3>1. k \in OpenLots /\ lots'[k] = lots[k]
      BY <1>7, <1>8, <2>2 DEF OpenLots, Taken
    <3>2. Holds(Backing(k), lots[k].remaining) /\ Backing(k)' = Backing(k)
      BY <3>1 DEF IInv, OpenLotsHold, Backing
    <3>. QED  BY <1>1, <3>1, <3>2 DEF Holds, Ledger!ActiveRows, ledger
  <2>. QED  BY <2>1, <2>2
<1>14. GenerationsHaveLots'
  <2>1. 1..l \subseteq Taken'
    BY <1>1, <1>4, <1>8
  <2>2. position'.generation \in 0..l
    BY <1>1, <1>5
  <2>. QED  BY <1>4, <2>1, <2>2 DEF GenerationsHaveLots
<1>15. AccountsAreBounded'
  BY <1>2, <1>6, <1>7 DEF IInv, AccountsAreBounded
<1>. QED  BY <1>50, <1>9, <1>10, <1>11, <1>12, <1>13, <1>14, <1>15 DEF IInv

(* A step that rewrites lots but neither takes one nor touches the ledger: *)
(* what is left of a lot only shrinks, and its backing stays.              *)
LEMMA LotsStepIInv ==
  ASSUME IInv, UNCHANGED <<ledger, release, losses>>,
         lots' \in [LotIds -> Lot], position' \in Position, overtaken' \in BOOLEAN,
         entry' \in EntryStates, entry' = entry \/ entry'.pc = "idle",
         exit' \in ExitStates, SeenIsOpen',
         position'.generation = position.generation,
         position'.remaining <= position.remaining,
         \A l \in LotIds :
           /\ lots'[l].entry = lots[l].entry
           /\ lots'[l].evidence = lots[l].evidence
           /\ lots'[l].remaining <= lots[l].remaining
           /\ \/ /\ lots'[l].link = lots[l].link
                 /\ lots'[l].slices = lots[l].slices /\ lots'[l].accounted = lots[l].accounted
              \/ /\ l \in Taken
                 /\ lots[l].link = Nothing /\ lots'[l].link = lots[l].evidence
                 /\ lots'[l].slices = 0 /\ lots'[l].accounted = lots'[l].remaining
  PROVE  IInv'
<1>. USE RobinhoodAssumption
<1>1. TypeOK'
  BY DEF IInv, TypeOK, Ledger!TypeOK, ledger, EntryStates, ExitStates
<1>2. Taken' = Taken /\ OpenLots' \subseteq OpenLots
  <2>1. Taken' = Taken
    BY DEF Taken
  <2>2. \A l \in LotIds : lots[l].remaining \in Nat /\ lots'[l].remaining \in Nat
    BY DEF IInv, TypeOK, Lot
  <2>. QED  BY <2>1, <2>2 DEF OpenLots, Taken
<1>3. \A l \in LotIds : /\ lots[l].remaining \in Nat /\ lots'[l].remaining \in Nat
                        /\ lots[l].entry \in Nat /\ lots[l].accounted \in Nat
  BY DEF IInv, TypeOK, Lot
<1>4. LineagesAreOwn'
  <2>. SUFFICES ASSUME NEW l \in Taken
                PROVE  /\ lots'[l].evidence \in Evidences
                       /\ lots'[l].remaining <= lots'[l].entry
                       /\ \/ lots'[l].link \in {Nothing, lots'[l].evidence}
                          \/ lots'[l].link \in {l} \X (1..lots'[l].slices)
    BY <1>2 DEF LineagesAreOwn
  <2>1. l \in LotIds
    BY DEF Taken
  <2>2. /\ lots[l].evidence \in Evidences
        /\ lots[l].remaining <= lots[l].entry
        /\ \/ lots[l].link \in {Nothing, lots[l].evidence}
           \/ lots[l].link \in {l} \X (1..lots[l].slices)
    BY DEF IInv, LineagesAreOwn
  <2>. QED  BY <1>3, <2>1, <2>2
<1>5. EvidenceIsUsedOnce' /\ GenerationsHaveLots'
  BY <1>2 DEF IInv, EvidenceIsUsedOnce, GenerationsHaveLots, Taken
<1>6. OpenLotsHold'
  <2>. SUFFICES ASSUME NEW l \in OpenLots' PROVE Holds(Backing(l), lots[l].remaining)'
    BY DEF OpenLotsHold
  <2>1. l \in OpenLots /\ l \in Taken /\ l \in LotIds
    BY <1>2 DEF OpenLots, Taken
  <2>2. Backing(l)' = Backing(l)
    BY <2>1 DEF Backing, IInv, LineagesAreOwn
  <2>3. PICK b, f : b = Backing(l) /\ f = lots[l].remaining
    OBVIOUS
  <2>4. PICK r \in Releases : Ledger!ActiveRows(b) = {r} /\ reservations[<<r, b>>].reserved >= f
    BY <2>1, <2>3 DEF IInv, OpenLotsHold, Holds
  <2>5. reservations[<<r, b>>].reserved \in Nat
    <3>1. <<r, b>> \in Ledger!Keys
      BY <2>1, <2>3, BackingIsOwn DEF Ledger!Keys
    <3>. QED  BY <3>1 DEF IInv, TypeOK, Ledger!TypeOK, Ledger!Row
  <2>6. /\ Ledger!ActiveRows(b)' = {r}
        /\ reservations'[<<r, b>>].reserved >= lots'[l].remaining
    BY <1>3, <2>1, <2>3, <2>4, <2>5 DEF Ledger!ActiveRows, ledger
  <2>7. Backing(l)' = b
    BY <2>2, <2>3
  <2>. QED  BY <2>6, <2>7 DEF Holds
<1>7. QuotesAreFunded' /\ ScalesFit'
  <2>1. CASE entry' = entry
    <3>1. Kept({})
      BY DEF Kept, ledger
    <3>2. position.remaining \in Nat /\ position'.remaining \in Nat /\ entry.fraction \in Nat
      BY DEF IInv, TypeOK, Position
    <3>3. QuotesAreFunded'
      BY <2>1, <3>1, QuoteStaysFunded
    <3>. QED  BY <2>1, <3>2, <3>3 DEF IInv, ScalesFit
  <2>2. CASE entry'.pc = "idle"
    BY <2>2 DEF QuotesAreFunded, ScalesFit
  <2>. QED  BY <2>1, <2>2
<1>8. AccountsAreBounded'
  <2>. SUFFICES ASSUME NEW l \in LotIds
                PROVE  /\ lots'[l].slices + lots'[l].accounted <= lots'[l].entry
                       /\ lots'[l].link = Nothing => lots'[l].accounted = 0
    BY DEF AccountsAreBounded
  <2>1. /\ lots[l].slices + lots[l].accounted <= lots[l].entry
        /\ lots[l].link = Nothing => lots[l].accounted = 0
    BY DEF IInv, AccountsAreBounded
  <2>2. l \in Taken => lots[l].remaining <= lots[l].entry /\ lots[l].evidence \in Evidences
    BY DEF IInv, LineagesAreOwn
  <2>. QED  BY <1>3, <2>1, <2>2
<1>. QED  BY <1>1, <1>4, <1>5, <1>6, <1>7, <1>8 DEF IInv

LEMMA LinkLotIInv ==
  ASSUME IInv, NEW e \in Evidences, NEW l \in LotIds, LinkLot(e, l), entry' \in {NoEntry, entry}
  PROVE  IInv'
<1>. USE RobinhoodAssumption
<1>1. /\ l \in LotsOf(e) /\ lots[l].link = Nothing
      /\ lots' = [lots EXCEPT ![l] = WithLink(lots[l])]
      /\ UNCHANGED <<ledger, position, exit, release, losses, overtaken>>
  BY DEF LinkLot, Found
<1>2. /\ lots \in [LotIds -> Lot] /\ position \in Position /\ entry \in EntryStates
      /\ exit \in ExitStates /\ overtaken \in BOOLEAN
  BY DEF IInv, TypeOK, EntryStates, ExitStates
<1>3. lots[l].evidence \in Evidences
  BY <1>1 DEF IInv, LineagesAreOwn, LotsOf
<1>4. WithLink(lots[l]) \in Lot
  BY <1>2, <1>3 DEF WithLink, Lot
<1>5. /\ lots'[l] = WithLink(lots[l]) /\ \A k \in LotIds : k # l => lots'[k] = lots[k]
      /\ lots' \in [LotIds -> Lot]
  BY <1>1, <1>2, <1>4
<1>6. \A k \in LotIds :
        /\ lots'[k].entry = lots[k].entry
        /\ lots'[k].evidence = lots[k].evidence
        /\ lots'[k].remaining <= lots[k].remaining
        /\ \/ /\ lots'[k].link = lots[k].link
              /\ lots'[k].slices = lots[k].slices /\ lots'[k].accounted = lots[k].accounted
           \/ /\ k \in Taken
              /\ lots[k].link = Nothing /\ lots'[k].link = lots[k].evidence
              /\ lots'[k].slices = 0 /\ lots'[k].accounted = lots'[k].remaining
  BY <1>1, <1>2, <1>5 DEF WithLink, Lot, LotsOf
<1>7. entry' \in EntryStates /\ (entry' = entry \/ entry'.pc = "idle")
  BY <1>2, TasksAreStates
<1>8. SeenIsOpen' /\ position'.remaining <= position.remaining
  BY <1>1, <1>2 DEF IInv, SeenIsOpen, Position
<1>. QED  BY <1>1, <1>2, <1>5, <1>6, <1>7, <1>8, LotsStepIInv

(* Steps of the tasks that leave ledger, lots and what the position holds. *)
LEMMA TaskStepIInv ==
  ASSUME IInv, UNCHANGED <<ledger, lots, release, losses, overtaken>>,
         position' \in Position, position'.generation = position.generation,
         position'.remaining = position.remaining,
         entry' \in EntryStates, entry' = entry \/ entry'.pc = "idle",
         exit' \in ExitStates, SeenIsOpen'
  PROVE  IInv'
<1>. USE RobinhoodAssumption
<1>1. /\ lots' \in [LotIds -> Lot] /\ lots' = lots /\ overtaken' \in BOOLEAN
      /\ \A l \in LotIds : lots[l].remaining <= lots[l].remaining
      /\ position'.remaining <= position.remaining
  BY DEF IInv, TypeOK, Lot, Position
<1>. QED  BY <1>1, LotsStepIInv

LEMMA FinishEntryIInv ==
  ASSUME IInv, FinishEntry
  PROVE  IInv'
<1>1. entry.pc = "linking" /\ entry' = NoEntry
  BY DEF FinishEntry
<1>2. CASE \E l \in LotIds : LinkLot(entry.evidence, l)
  <2>1. PICK l \in LotIds : LinkLot(entry.evidence, l)
    BY <1>2
  <2>2. PICK e : e = entry.evidence
    OBVIOUS
  <2>3. l \in Taken /\ lots[l].evidence = e /\ LinkLot(e, l)
    BY <2>1, <2>2 DEF LinkLot, Found, LotsOf
  <2>4. e \in Evidences
    BY <2>3 DEF IInv, LineagesAreOwn
  <2>. QED  BY <1>1, <2>3, <2>4, LinkLotIInv
<1>3. CASE UNCHANGED <<ledger, lots, position, exit, release, losses, overtaken>>
  BY <1>1, <1>3, TasksAreStates, TaskStepIInv DEF IInv, TypeOK, ExitStates, SeenIsOpen
<1>. QED  BY <1>2, <1>3 DEF FinishEntry

-----------------------------------------------------------------------------
(* A count of units is a number, so every share of an exit is one.         *)
LEMMA UnitsInIsNat ==
  ASSUME NEW set \in SUBSET LotIds, NEW count
  PROVE  UnitsIn(set, count) \in Nat
<1>. USE RobinhoodAssumption
<1>1. IsFiniteSet(LotIds) /\ IsFiniteSet(1..Target)
  BY FS_Interval DEF LotIds
<1>2. IsFiniteSet(set)
  BY <1>1, FS_Subset
<1>3. IsFiniteSet(set \X (1..Target))
  BY <1>1, <1>2, FS_Product
<1>4. {u \in set \X (1..Target) : u[2] <= count[u[1]]} \in SUBSET (set \X (1..Target))
  OBVIOUS
<1>. QED  BY <1>3, <1>4, FS_Subset, FS_CardinalityType DEF UnitsIn

LEMMA QuotientIsNat ==
  ASSUME NEW a \in Nat, NEW b \in Nat, NEW c \in Nat, c > 0
  PROVE  (a * b) \div c \in Nat
<1>1. a * b \in Nat
  OBVIOUS
<1>. QED  BY <1>1

LEMMA ShareIsNat ==
  ASSUME IInv, NEW l \in LotIds, NEW sell, Sellable(sell)
  PROVE  Share(l, sell) \in Nat
<1>1. PositionLots \subseteq LotIds /\ PositionLots \ {Last} \subseteq LotIds
  BY DEF PositionLots, OpenLots, Taken
<1>2. UnitsIn(PositionLots, Remaining) \in Nat
  BY <1>1, UnitsInIsNat
<1>3. sell \in Nat /\ UnitsIn(PositionLots, Remaining) > 0
  BY <1>2 DEF Sellable
<1>4. LeftOver(sell) \in Int
  <2>1. \A count : UnitsIn(PositionLots \ {Last}, count) \in Nat
    BY <1>1, UnitsInIsNat
  <2>. QED  BY <1>3, <2>1 DEF LeftOver
<1>5. RoundedShare(l, sell) \in Nat
  <2>1. lots[l].remaining \in Nat
    BY DEF IInv, TypeOK, Lot
  <2>. QED  BY <1>2, <1>3, <2>1, QuotientIsNat DEF RoundedShare
<1>. QED  BY <1>4, <1>5 DEF Share

(* What an exit that fits makes of lots and position.                      *)
LEMMA ApplyExitCuts ==
  ASSUME IInv, NEW sell, NEW status \in {"closed", "de_risking", "runner"}, NEW stage \in 0..2,
         ApplyExit(sell, status, stage), Sellable(sell)
  PROVE  /\ lots' \in [LotIds -> Lot]
         /\ \A l \in LotIds :
              /\ lots'[l].entry = lots[l].entry /\ lots'[l].evidence = lots[l].evidence
              /\ lots'[l].link = lots[l].link /\ lots'[l].slices = lots[l].slices
              /\ lots'[l].accounted = lots[l].accounted
              /\ lots'[l].generation = lots[l].generation
              /\ lots'[l].remaining <= lots[l].remaining
         /\ position' \in Position /\ position'.generation = position.generation
         /\ position'.remaining <= position.remaining
         /\ overtaken' \in BOOLEAN
<1>. USE RobinhoodAssumption
<1>. DEFINE Sold(l) == IF l \in PositionLots THEN Cut(lots[l], Share(l, sell)) ELSE lots[l]
<1>1. /\ exit.pc = "quoting"
      /\ lots' = [l \in LotIds |-> Sold(l)]
      /\ position' = AfterExit(sell, status, stage)
      /\ overtaken' = (overtaken \/ exit.remaining # position.remaining)
  BY DEF ApplyExit
<1>2. lots \in [LotIds -> Lot] /\ position \in Position /\ exit.remaining \in 0..Target
  BY DEF IInv, TypeOK
<1>3. ASSUME NEW l \in LotIds
      PROVE  /\ Sold(l) \in Lot
             /\ Sold(l).entry = lots[l].entry /\ Sold(l).evidence = lots[l].evidence
             /\ Sold(l).link = lots[l].link /\ Sold(l).slices = lots[l].slices
             /\ Sold(l).accounted = lots[l].accounted
             /\ Sold(l).generation = lots[l].generation
             /\ Sold(l).remaining <= lots[l].remaining
  <2>1. Share(l, sell) \in Nat
    BY ShareIsNat
  <2>2. lots[l] \in Lot /\ lots[l].remaining \in 0..Target
    BY <1>2 DEF Lot
  <2>3. Cut(lots[l], Share(l, sell)).remaining \in 0..lots[l].remaining
    BY <2>1, <2>2 DEF Cut
  <2>4. Cut(lots[l], Share(l, sell)) \in Lot
    BY <2>2, <2>3 DEF Cut, Lot
  <2>. QED  BY <2>2, <2>3, <2>4 DEF Cut
<1>. HIDE DEF Sold
<1>4. lots' \in [LotIds -> Lot] /\ \A l \in LotIds : lots'[l] = Sold(l)
  BY <1>1, <1>3
<1>5. /\ position' \in Position /\ position'.generation = position.generation
      /\ position'.remaining <= position.remaining
  <2>1. sell \in Nat
    BY UnitsInIsNat DEF Sellable, PositionLots, OpenLots, Taken
  <2>2. /\ position.remaining \in 0..Target /\ position.generation \in 0..MaxLots
        /\ position.evidence \in Evidences \cup {Nothing}
        /\ exit.remaining <= position.remaining
    BY <1>1, <1>2 DEF Position, IInv, SeenIsOpen
  <2>3. position' = [status |-> IF exit.remaining <= sell THEN "closed" ELSE status,
                     remaining |-> IF exit.remaining <= sell THEN 0 ELSE exit.remaining - sell,
                     stage |-> stage, evidence |-> position.evidence,
                     generation |-> position.generation]
    BY <1>1 DEF AfterExit
  <2>. QED  BY <1>2, <2>1, <2>2, <2>3 DEF Position, Open
<1>6. overtaken' \in BOOLEAN
  BY <1>1 DEF IInv, TypeOK
<1>. QED  BY <1>3, <1>4, <1>5, <1>6

(* An exit only cuts lots, in the transaction that moves the position.     *)
LEMMA ApplyExitIInv ==
  ASSUME IInv, NEW sell, NEW status \in {"closed", "de_risking", "runner"}, NEW stage \in 0..2,
         ApplyExit(sell, status, stage)
  PROVE  IInv'
<1>. USE RobinhoodAssumption
<1>1. UNCHANGED <<ledger, entry, release, losses>> /\ exit' = Syncing(OutOfSync(lots'))
  BY DEF ApplyExit
<1>2. exit' \in ExitStates /\ exit'.pc # "quoting"
  <2>1. OutOfSync(lots') \in SUBSET LotIds
    BY DEF OutOfSync
  <2>. QED  BY <1>1, <2>1, TasksAreStates
<1>3. SeenIsOpen' /\ entry \in EntryStates
  BY <1>2 DEF SeenIsOpen, IInv, TypeOK, EntryStates
<1>4. CASE Sellable(sell)
  BY <1>1, <1>2, <1>3, <1>4, ApplyExitCuts, LotsStepIInv
<1>5. CASE ~ Sellable(sell)
  <2>1. UNCHANGED <<lots, position, overtaken>>
    BY <1>5 DEF ApplyExit
  <2>2. position \in Position
    BY DEF IInv, TypeOK
  <2>. QED  BY <1>1, <1>2, <1>3, <2>1, <2>2, TaskStepIInv
<1>. QED  BY <1>4, <1>5

(* The ways an exit ends.                                                  *)
Exits ==
  \/ ExitAll
  \/ \E sell \in 1..Target : Derisk(sell)
  \/ \E keep \in 0..Target : EnterRunner(keep)

LEMMA ExitsApply ==
  ASSUME IInv, Exits
  PROVE  \E sell \in Nat, status \in {"closed", "de_risking", "runner"}, stage \in 0..2 :
           /\ ApplyExit(sell, status, stage)
           /\ status \in Open \/ sell = exit.remaining
<1>. USE RobinhoodAssumption DEF Open
<1>0. exit.stage \in 0..2 /\ exit.remaining \in 0..Target
  BY DEF IInv, TypeOK
<1>1. CASE ExitAll
  <2>1. ApplyExit(exit.remaining, "closed", exit.stage)
    BY <1>1 DEF ExitAll
  <2>. QED  BY <1>0, <2>1
<1>2. ASSUME NEW sell \in 1..Target, Derisk(sell)
      PROVE  \E status \in {"closed", "de_risking", "runner"}, stage \in 0..2 :
               ApplyExit(sell, status, stage) /\ status \in Open
  <2>1. ApplyExit(sell, "de_risking", exit.stage + 1) /\ exit.stage + 1 \in 0..2
    BY <1>0, <1>2 DEF Derisk
  <2>. QED  BY <1>2, <2>1 DEF Derisk
<1>3. ASSUME NEW keep \in 0..Target, EnterRunner(keep)
      PROVE  \E sell \in Nat, status \in {"closed", "de_risking", "runner"}, stage \in 0..2 :
               ApplyExit(sell, status, stage) /\ status \in Open
  <2>1. ApplyExit(exit.remaining - keep, "runner", 2) /\ exit.remaining - keep \in Nat
    BY <1>0, <1>3 DEF EnterRunner
  <2>. QED  BY <2>1
<1>. QED  BY <1>1, <1>2, <1>3 DEF Exits

LEMMA ExitIInv ==
  ASSUME IInv, Exits
  PROVE  IInv'
BY ExitsApply, ApplyExitIInv

(* The other steps of the settlement task.                                 *)
LEMMA SeenIInv ==
  ASSUME IInv, StartExit \/ DropExit \/ KeepRunner
  PROVE  IInv'
<1>. USE RobinhoodAssumption
<1>1. /\ UNCHANGED <<ledger, lots, entry, release, losses, overtaken>>
      /\ entry \in EntryStates /\ position \in Position /\ position.remaining \in 0..Target
  BY DEF StartExit, DropExit, KeepRunner, IInv, TypeOK, EntryStates, Position
<1>2. CASE StartExit
  <2>1. exit' = Seen /\ position' = position /\ position.status \in Open
    BY <1>2 DEF StartExit
  <2>2. exit' \in ExitStates /\ SeenIsOpen'
    BY <1>1, <2>1 DEF Seen, ExitStates, SeenIsOpen, Position
  <2>. QED  BY <1>1, <2>1, <2>2, TaskStepIInv
<1>3. CASE DropExit
  <2>1. exit' = NoExit /\ position' = position
    BY <1>3 DEF DropExit
  <2>. QED  BY <1>1, <2>1, TasksAreStates, TaskStepIInv DEF SeenIsOpen
<1>4. CASE KeepRunner
  <2>1. exit' = NoExit /\ position' = [position EXCEPT !.status = "runner"]
    BY <1>4 DEF KeepRunner
  <2>2. /\ position' \in Position /\ position'.generation = position.generation
        /\ position'.remaining = position.remaining
    BY <1>1, <2>1 DEF Position, Open
  <2>3. SeenIsOpen'
    BY <2>1, TasksAreStates DEF SeenIsOpen
  <2>. QED  BY <1>1, <2>1, <2>2, <2>3, TasksAreStates, TaskStepIInv
<1>. QED  BY <1>2, <1>3, <1>4

-----------------------------------------------------------------------------
(* A slice moves what is left of a lot under its next residual.            *)
LEMMA SyncLotIInv ==
  ASSUME IInv, NEW l \in LotIds, SyncLot(l)
  PROVE  IInv'
<1>. USE RobinhoodAssumption
<1>0. /\ ExitRuns /\ exit.queue \in SUBSET LotIds /\ l \in exit.queue
      /\ UNCHANGED <<position, entry, release, losses, overtaken>>
      /\ lots \in [LotIds -> Lot] /\ position \in Position /\ Ledger!TypeOK
      /\ entry \in EntryStates
  BY DEF SyncLot, IInv, TypeOK, EntryStates
<1>1. exit' \in ExitStates /\ SeenIsOpen'
  <2>1. exit.queue \ {l} \in SUBSET LotIds
    BY <1>0
  <2>2. exit' \in {NoExit, Syncing(exit.queue \ {l})}
    BY DEF SyncLot
  <2>. QED  BY <2>1, <2>2, TasksAreStates DEF SeenIsOpen
<1>2. CASE ~ InLine(l)
  <2>1. UNCHANGED <<ledger, lots>>
    BY <1>2 DEF SyncLot
  <2>. QED  BY <1>0, <1>1, <2>1, TaskStepIInv
<1>3. CASE InLine(l)
  <2>1. PICK i, residual, rest :
          i = lots[l].link /\ residual = <<l, lots[l].slices + 1>> /\ rest = lots[l].remaining
    OBVIOUS
  <2>2. /\ Ledger!SettleSlice(i, residual, rest, 0)
        /\ lots' = [lots EXCEPT ![l] = Settled(lots[l], residual)]
    BY <1>3, <2>1 DEF SyncLot
  <2>3. /\ rest \in 0..Target /\ lots[l].slices \in 0..Target /\ lots[l].accounted \in 0..Target
        /\ lots[l].entry \in 0..Target
    BY <1>0, <2>1 DEF Lot
  <2>4. rest < lots[l].accounted
    <3>1. PICK r \in Releases : /\ Ledger!ActiveRows(i) = {r}
                                /\ reservations[<<r, i>>].reserved = lots[l].accounted
      BY <1>3, <2>1 DEF InLine
    <3>2. PICK q \in Releases : /\ Ledger!ActiveRows(i) = {q}
                                /\ rest < reservations[<<q, i>>].reserved
      BY <2>2 DEF Ledger!SettleSlice, Ledger!Settleable
    <3>. QED  BY <3>1, <3>2
  <2>5. l \in Taken /\ i # Nothing /\ lots[l].slices + 1 \in 1..Target
    BY <2>1, <2>3, <2>4 DEF IInv, AccountsAreBounded, Taken
  <2>6. i = Backing(l) /\ i \in Ledger!AllIds
    BY <2>1, <2>5, BackingIsOwn DEF Backing
  <2>7. residual \in Residuals /\ residual \notin {l} \X (1..lots[l].slices)
    BY <2>1, <2>3, <2>5 DEF Residuals
  <2>8. residual # i
    BY <2>6, <2>7, <2>5, BackingIsOwn
  <2>9. /\ Ledger!Next /\ Kept({i, residual})
        /\ rest > 0 => Holds(residual, rest)'
    <3>1. rest \in 0..Units
      BY <2>3
    <3>. QED  BY <1>0, <2>2, <2>6, <2>7, <2>8, <3>1, SliceKeeps
  <2>10. Ledger!TypeOK'
    BY <1>0, <2>9, LedgerStaysTyped
  <2>11. lots[l].link \in Evidences \cup Residuals
    BY <2>1, <2>5, <2>6, BackingIsOwn
  <2>12. Settled(lots[l], residual) \in Lot
    <3>1. lots[l].slices + 1 \in 0..Target
      BY <2>5
    <3>. QED  BY <1>0, <2>3, <2>7, <3>1 DEF Settled, Lot
  <2>13. /\ lots'[l] = Settled(lots[l], residual)
         /\ \A k \in LotIds : k # l => lots'[k] = lots[k]
         /\ lots' \in [LotIds -> Lot]
    BY <1>0, <2>2, <2>12
  <2>14. /\ lots'[l].evidence = lots[l].evidence /\ lots'[l].entry = lots[l].entry
         /\ lots'[l].remaining = rest /\ lots'[l].accounted = rest
         /\ lots'[l].slices = lots[l].slices + 1
         /\ lots'[l].link = IF rest > 0 THEN residual ELSE i
    BY <2>1, <2>13 DEF Settled
  <2>15. Taken' = Taken /\ OpenLots' = OpenLots
    <3>1. \A k \in LotIds : lots'[k].entry = lots[k].entry /\ lots'[k].remaining = lots[k].remaining
      BY <2>1, <2>13, <2>14
    <3>. QED  BY <3>1 DEF Taken, OpenLots
  <2>16. TypeOK'
    BY <1>0, <1>1, <2>10, <2>13 DEF IInv, TypeOK, ExitStates
  <2>17. LineagesAreOwn'
    <3>. SUFFICES ASSUME NEW k \in Taken
                  PROVE  /\ lots'[k].evidence \in Evidences
                         /\ lots'[k].remaining <= lots'[k].entry
                         /\ \/ lots'[k].link \in {Nothing, lots'[k].evidence}
                            \/ lots'[k].link \in {k} \X (1..lots'[k].slices)
      BY <2>15 DEF LineagesAreOwn
    <3>1. /\ lots[k].evidence \in Evidences
          /\ lots[k].remaining <= lots[k].entry
          /\ \/ lots[k].link \in {Nothing, lots[k].evidence}
             \/ lots[k].link \in {k} \X (1..lots[k].slices)
      BY DEF IInv, LineagesAreOwn
    <3>2. CASE k # l
      BY <2>13, <3>1, <3>2 DEF Taken
    <3>3. CASE k = l
      <4>1. residual \in {l} \X (1..(lots[l].slices + 1))
        BY <2>1, <2>3
      <4>2. {l} \X (1..lots[l].slices) \subseteq {l} \X (1..(lots[l].slices + 1))
        BY <2>3
      <4>. QED  BY <2>1, <2>14, <3>1, <3>3, <4>1, <4>2
    <3>. QED  BY <3>2, <3>3
  <2>18. AccountsAreBounded'
    BY <2>3, <2>4, <2>5, <2>7, <2>13, <2>14 DEF IInv, AccountsAreBounded
  <2>19. EvidenceIsUsedOnce' /\ GenerationsHaveLots'
    BY <1>0, <2>13, <2>14, <2>15 DEF IInv, EvidenceIsUsedOnce, GenerationsHaveLots, Taken
  <2>20. QuotesAreFunded' /\ ScalesFit'
    <3>1. CASE entry.pc \in {"quoting", "refused"}
      <4>1. LotsOf(entry.evidence) = {} /\ entry.evidence \in Evidences
        BY <3>1 DEF IInv, QuotesAreFunded
      <4>2. entry.evidence # i
        BY <2>5, <2>6, <4>1, BackingIsOwn DEF LotsOf
      <4>3. entry.evidence # residual
        BY <2>7, <4>1
      <4>4. \A k \in LotIds : /\ lots'[k].evidence = lots[k].evidence
                              /\ lots'[k].entry = lots[k].entry
        BY <2>13, <2>14
      <4>5. QuotesAreFunded'
        BY <1>0, <2>9, <4>2, <4>3, <4>4, QuoteStaysFunded
      <4>. QED  BY <1>0, <4>5 DEF IInv, ScalesFit
    <3>2. CASE entry.pc \notin {"quoting", "refused"}
      BY <1>0, <3>2 DEF QuotesAreFunded, ScalesFit
    <3>. QED  BY <3>1, <3>2
  <2>21. OpenLotsHold'
    <3>. SUFFICES ASSUME NEW k \in OpenLots PROVE Holds(Backing(k), lots[k].remaining)'
      BY <2>15 DEF OpenLotsHold
    <3>1. k \in Taken /\ k \in LotIds
      BY DEF OpenLots, Taken
    <3>2. CASE k = l
      <4>1. rest > 0
        BY <2>1, <2>3, <3>2 DEF OpenLots
      <4>2. Backing(k)' = residual /\ lots'[k].remaining = rest
        BY <2>7, <2>14, <3>2, <4>1 DEF Backing
      <4>. QED  BY <2>9, <4>1, <4>2
    <3>3. CASE k # l
      <4>1. PICK b, f : b = Backing(k) /\ f = lots[k].remaining
        OBVIOUS
      <4>2. Backing(k)' = b /\ lots'[k].remaining = f
        BY <2>13, <3>1, <3>3, <4>1 DEF Backing
      <4>3. b # i /\ b \in Ledger!AllIds
        BY <2>5, <2>6, <3>1, <3>3, <4>1, BackingsDiffer, BackingIsOwn
      <4>4. b # residual
        BY <2>1, <2>7, <3>1, <3>3, <4>1, BackingIsOwn
      <4>5. Holds(b, f)
        BY <4>1 DEF IInv, OpenLotsHold
      <4>6. Holds(b, f)'
        BY <2>9, <4>3, <4>4, <4>5, HoldsKept
      <4>. QED  BY <4>2, <4>6
    <3>. QED  BY <3>2, <3>3
  <2>. QED  BY <1>1, <2>16, <2>17, <2>18, <2>19, <2>20, <2>21 DEF IInv
<1>. QED  BY <1>2, <1>3

LEMMA LoseIInv ==
  ASSUME IInv, NEW next \in Releases, Lose(next)
  PROVE  IInv'
<1>1. /\ UNCHANGED <<ledger, lots, position, overtaken>> /\ entry' = NoEntry /\ exit' = NoExit
      /\ losses' \in 0..MaxLosses /\ release' \in Releases
  BY RobinhoodAssumption DEF Lose, IInv, TypeOK
<1>2. /\ entry' \in EntryStates /\ entry'.pc = "idle"
      /\ exit' \in ExitStates /\ exit'.pc = "idle"
  BY <1>1, TasksAreStates
<1>3. TypeOK'
  BY <1>1, <1>2 DEF IInv, TypeOK, EntryStates, ExitStates, Ledger!TypeOK, ledger
<1>4. Taken' = Taken /\ OpenLots' = OpenLots
  BY <1>1 DEF Taken, OpenLots
<1>5. LineagesAreOwn' /\ AccountsAreBounded' /\ EvidenceIsUsedOnce' /\ GenerationsHaveLots'
  BY <1>1, <1>4 DEF IInv, LineagesAreOwn, AccountsAreBounded, EvidenceIsUsedOnce,
     GenerationsHaveLots
<1>6. OpenLotsHold'
  BY <1>1, <1>4 DEF IInv, OpenLotsHold, Backing, Holds, Ledger!ActiveRows, ledger
<1>7. QuotesAreFunded' /\ ScalesFit' /\ SeenIsOpen'
  BY <1>2 DEF QuotesAreFunded, ScalesFit, SeenIsOpen
<1>. QED  BY <1>3, <1>5, <1>6, <1>7 DEF IInv

LEMMA NextIInv == IInv /\ [Next]_vars => IInv'
<1>. SUFFICES ASSUME IInv, [Next]_vars PROVE IInv'
  OBVIOUS
<1>. USE RobinhoodAssumption
<1>0. Ledger!TypeOK
  BY DEF IInv, TypeOK
<1>1. CASE \E e \in Evidences, f \in 1..Target : AskCapital(e, f)
  BY <1>1, AskCapitalIInv
<1>2. CASE DropEntry
  BY <1>2, DropEntryIInv
<1>3. CASE \E l \in LotIds : CommitLot(l)
  BY <1>3, CommitLotIInv
<1>4. CASE FinishEntry
  BY <1>4, FinishEntryIInv
<1>5. ASSUME NEW e \in Evidences, Recover(e) PROVE IInv'
  <2>1. PICK l \in LotIds : LinkLot(e, l)
    BY <1>5 DEF Recover
  <2>2. entry' \in {NoEntry, entry}
    BY <1>5 DEF Recover
  <2>. QED  BY <2>1, <2>2, LinkLotIInv
<1>6. CASE Exits
  BY <1>6, ExitIInv
<1>60. CASE StartExit \/ DropExit \/ KeepRunner
  BY <1>60, SeenIInv
<1>7. CASE \E l \in LotIds : SyncLot(l)
  BY <1>7, SyncLotIInv
<1>8. ASSUME NEW o \in Others, NEW f \in OtherSizes, OtherReserves(o, f) PROVE IInv'
  <2>1. release \in Releases
    BY DEF IInv, TypeOK
  <2>2. Ledger!Next /\ Kept({o})
    BY <1>0, <1>8, <2>1, ReserveKeeps DEF OtherReserves
  <2>. QED  BY <1>8, <2>2, OtherIInv DEF OtherReserves
<1>9. ASSUME NEW o \in Others, OtherSettles(o) PROVE IInv'
  <2>1. Ledger!Next /\ Kept({o})
    BY <1>0, <1>9, SettleKeeps DEF OtherSettles
  <2>. QED  BY <1>9, <2>1, OtherIInv DEF OtherSettles
<1>10. CASE \E next \in Releases : Lose(next)
  BY <1>10, LoseIInv
<1>11. CASE UNCHANGED vars
  <2>1. /\ UNCHANGED <<ledger, lots, release, losses, overtaken, position, entry, exit>>
        /\ entry \in EntryStates /\ exit \in ExitStates /\ position \in Position
    BY <1>11 DEF vars, IInv, TypeOK, EntryStates, ExitStates
  <2>. QED  BY <2>1, TaskStepIInv DEF IInv, SeenIsOpen
<1>. QED  BY <1>1, <1>2, <1>3, <1>4, <1>5, <1>6, <1>60, <1>7, <1>8, <1>9, <1>10, <1>11 DEF Next, Exits

-----------------------------------------------------------------------------
THEOREM SpecIInv == Spec => []IInv
<1>. QED  BY InitIInv, NextIInv, PTL DEF Spec

(* Ledger, lots, position and tasks stay well formed: the row of a         *)
(* position stays within its target although a scale is validated before   *)
(* its awaits and added after them, beside exits; and no lot runs out of   *)
(* settlement sequence.                                                    *)
THEOREM TypeCorrect == Spec => []TypeOK
<1>1. IInv => TypeOK
  BY DEF IInv
<1>. QED  BY <1>1, SpecIInv, PTL

(* An open lot has an active reservation of its own for what it holds, in  *)
(* every state between entry, link, exit, slice and any loss.              *)
THEOREM OpenLotsStayBacked == Spec => []OpenLotsAreBacked
<1>1. IInv => OpenLotsAreBacked
  BY BackingsDiffer DEF IInv, OpenLotsHold, OpenLotsAreBacked, OpenLots
<1>. QED  BY <1>1, SpecIInv, PTL

(* One piece of evidence buys one lot, ever.                               *)
THEOREM EvidenceBuysOneLot == Spec => []EvidenceEntersOnce
<1>1. IInv => EvidenceEntersOnce
  <2>. SUFFICES ASSUME IInv, NEW e \in Evidences PROVE Cardinality(LotsOf(e)) <= 1
    BY DEF EvidenceEntersOnce
  <2>1. CASE LotsOf(e) = {}
    BY <2>1, FS_EmptySet
  <2>2. ASSUME NEW l \in LotsOf(e) PROVE Cardinality(LotsOf(e)) <= 1
    <3>1. LotsOf(e) = {l}
      BY <2>2 DEF IInv, EvidenceIsUsedOnce, LotsOf
    <3>. QED  BY <3>1, FS_Singleton
  <2>. QED  BY <2>1, <2>2
<1>. QED  BY <1>1, SpecIInv, PTL

(* Every step is a step of the ledger or leaves it.                        *)
LEMMA StepsOfLedger == IInv /\ [Next]_vars => [Ledger!Next]_(Ledger!vars)
<1>. SUFFICES ASSUME IInv, [Next]_vars PROVE [Ledger!Next]_(Ledger!vars)
  OBVIOUS
<1>. USE RobinhoodAssumption DEF Ledger!vars
<1>0. Ledger!TypeOK /\ release \in Releases
  BY DEF IInv, TypeOK
<1>1. ASSUME NEW e \in Evidences, NEW f \in 1..Target, AskCapital(e, f)
      PROVE  Ledger!Next \/ UNCHANGED Ledger!vars
  <2>. f \in 1..Units
    OBVIOUS
  <2>1. CASE Ledger!Reserve(release, e, Whole(f))
    BY <1>0, <2>1, ReserveKeeps
  <2>2. CASE UNCHANGED ledger
    BY <2>2 DEF ledger
  <2>. QED  BY <1>1, <2>1, <2>2 DEF AskCapital
<1>2. CASE DropEntry
  <2>1. PICK e \in Evidences : e = entry.evidence
    BY <1>2 DEF IInv, QuotesAreFunded, DropEntry
  <2>. QED  BY <1>0, <1>2, <2>1, CancelKeeps DEF DropEntry
<1>3. ASSUME NEW l \in LotIds, SyncLot(l) PROVE Ledger!Next \/ UNCHANGED Ledger!vars
  <2>1. CASE UNCHANGED <<ledger, lots>>
    BY <2>1 DEF ledger
  <2>2. PICK i, residual, rest :
          i = lots[l].link /\ residual = <<l, lots[l].slices + 1>> /\ rest = lots[l].remaining
    OBVIOUS
  <2>3. CASE InLine(l)
    <3>1. Ledger!SettleSlice(i, residual, rest, 0)
      BY <1>3, <2>2, <2>3 DEF SyncLot
    <3>2. /\ rest \in 0..Units /\ lots[l].slices \in 0..Target /\ lots[l].accounted \in 0..Target
          /\ lots[l].entry \in 0..Target /\ l \in LotIds
      BY <2>2 DEF IInv, TypeOK, Lot
    <3>3. rest < lots[l].accounted
      <4>1. PICK r \in Releases : /\ Ledger!ActiveRows(i) = {r}
                                  /\ reservations[<<r, i>>].reserved = lots[l].accounted
        BY <2>2, <2>3 DEF InLine
      <4>2. PICK q \in Releases : /\ Ledger!ActiveRows(i) = {q}
                                  /\ rest < reservations[<<q, i>>].reserved
        BY <3>1 DEF Ledger!SettleSlice, Ledger!Settleable
      <4>. QED  BY <4>1, <4>2
    <3>4. l \in Taken /\ i # Nothing /\ lots[l].slices + 1 \in 1..Target
      BY <2>2, <3>2, <3>3 DEF IInv, AccountsAreBounded, Taken
    <3>5. residual \in Residuals /\ i \in Ledger!AllIds
      BY <2>2, <3>2, <3>4, BackingIsOwn DEF Residuals, Backing
    <3>. QED  BY <3>1, <3>2, <3>5 DEF Ledger!Next
  <2>. QED  BY <1>3, <2>1, <2>3 DEF SyncLot
<1>4. ASSUME NEW o \in Others, NEW f \in OtherSizes, OtherReserves(o, f) PROVE Ledger!Next
  BY <1>0, <1>4, ReserveKeeps DEF OtherReserves
<1>5. ASSUME NEW o \in Others, OtherSettles(o) PROVE Ledger!Next
  BY <1>0, <1>5, SettleKeeps DEF OtherSettles
<1>6. CASE \E l \in LotIds : CommitLot(l)
  BY <1>6 DEF CommitLot, ledger
<1>7. CASE FinishEntry \/ \E e \in Evidences : Recover(e)
  BY <1>7 DEF FinishEntry, Recover, LinkLot, ledger
<1>8. CASE Exits \/ StartExit \/ DropExit \/ KeepRunner
  BY <1>8 DEF Exits, ExitAll, Derisk, EnterRunner, ApplyExit, StartExit, DropExit, KeepRunner, ledger
<1>9. CASE (\E next \in Releases : Lose(next)) \/ UNCHANGED vars
  BY <1>9 DEF Lose, vars, ledger
<1>. QED  BY <1>1, <1>2, <1>3, <1>4, <1>5, <1>6, <1>7, <1>8, <1>9 DEF Next, Exits

(* The two tables change only by operations of the ledger, staged exits    *)
(* and their residuals included.                                           *)
THEOREM RobinhoodKeepsLedger == Spec => LedgerIsKept
<1>1. Init => Ledger!Init
  BY DEF Init
<1>. QED  BY <1>1, SpecIInv, StepsOfLedger, PTL DEF Spec, LedgerIsKept, Ledger!Spec

(* The lots of the token, their residuals and whatever else reserves in    *)
(* the same file together never hold more than the portfolio of that       *)
(* ledger, the two tasks overlapping as they may.                          *)
THEOREM PortfolioConserved == Spec => []Ledger!CapitalConserved
<1>1. Ledger!Init => Capital!IInv
  BY SameInit, LedgerAssumption, Capital!InitIInv
<1>2. Capital!IInv /\ [Ledger!Next]_(Ledger!vars) => Capital!IInv'
  BY SameNext, LedgerAssumption, Capital!NextIInv DEF Ledger!vars, Capital!vars
<1>3. Capital!IInv => Ledger!CapitalConserved
  BY SameTotal DEF Capital!IInv, Ledger!CapitalConserved, Capital!CapitalConserved,
     Capital!ActiveTotal, Ledger!ActiveTotal
<1>. QED  BY <1>1, <1>2, <1>3, RobinhoodKeepsLedger, PTL DEF LedgerIsKept, Ledger!Spec

------------------------------------------------------------------------

-----------------------------------------------------------------------------
(* Counting units of lots: the units a set of lots has by a count.         *)
Slots(set, count) == {u \in set \X (1..Target) : u[2] <= count[u[1]]}

(* There are finitely many units to count.                                 *)
LEMMA SlotsAreFinite ==
  ASSUME NEW set \in SUBSET LotIds, NEW count
  PROVE  IsFiniteSet(Slots(set, count)) /\ UnitsIn(set, count) = Cardinality(Slots(set, count))
<1>. USE RobinhoodAssumption
<1>1. IsFiniteSet(LotIds) /\ IsFiniteSet(1..Target)
  BY FS_Interval DEF LotIds
<1>2. IsFiniteSet(set)
  BY <1>1, FS_Subset
<1>3. IsFiniteSet(set \X (1..Target))
  BY <1>1, <1>2, FS_Product
<1>4. Slots(set, count) \in SUBSET (set \X (1..Target))
  BY DEF Slots
<1>. QED  BY <1>3, <1>4, FS_Subset DEF UnitsIn, Slots

(* Only the counts of the lots in the set matter.                          *)
LEMMA EqualCounts ==
  ASSUME NEW set \in SUBSET LotIds, NEW a, NEW b, \A l \in set : a[l] = b[l]
  PROVE  UnitsIn(set, a) = UnitsIn(set, b)
<1>1. Slots(set, a) = Slots(set, b)
  BY DEF Slots
<1>. QED  BY <1>1, SlotsAreFinite

(* Lots that have nothing add nothing.                                     *)
LEMMA EmptyLots ==
  ASSUME NEW set \in SUBSET LotIds, NEW part \in SUBSET set, NEW count,
         \A l \in set \ part : count[l] = 0
  PROVE  UnitsIn(set, count) = UnitsIn(part, count)
<1>1. Slots(set, count) = Slots(part, count)
  <2>1. ASSUME NEW u \in Slots(set, count) PROVE u \in Slots(part, count)
    <3>1. u[1] \in part
      BY RobinhoodAssumption DEF Slots
    <3>. QED  BY <3>1 DEF Slots
  <2>. QED  BY <2>1 DEF Slots
<1>. QED  BY <1>1, SlotsAreFinite

LEMMA IntervalUnits ==
  ASSUME NEW n \in Nat
  PROVE  IsFiniteSet(1..n) /\ Cardinality(1..n) = n
BY FS_Interval

(* One lot has as many units as its count says.                            *)
LEMMA OneLot ==
  ASSUME NEW l \in LotIds, NEW count, count[l] \in 0..Target
  PROVE  UnitsIn({l}, count) = count[l]
<1>. USE RobinhoodAssumption
<1>1. Slots({l}, count) = {l} \X (1..count[l])
  BY DEF Slots
<1>2. PICK n \in Nat : n = count[l]
  OBVIOUS
<1>3. IsFiniteSet(1..n) /\ Cardinality(1..n) = n
  BY IntervalUnits
<1>4. IsFiniteSet({l}) /\ Cardinality({l}) = 1
  BY FS_Singleton
<1>5. Cardinality({l} \X (1..n)) = 1 * n
  BY <1>3, <1>4, FS_Product
<1>. QED  BY <1>1, <1>2, <1>5, SlotsAreFinite

(* The units of two disjoint sets of lots add up.                          *)
LEMMA TwoParts ==
  ASSUME NEW s \in SUBSET LotIds, NEW t \in SUBSET LotIds, s \cap t = {}, NEW count
  PROVE  UnitsIn(s \cup t, count) = UnitsIn(s, count) + UnitsIn(t, count)
<1>1. Slots(s \cup t, count) = Slots(s, count) \cup Slots(t, count)
  BY DEF Slots
<1>2. Slots(s, count) \cap Slots(t, count) = {}
  BY DEF Slots
<1>3. s \cup t \in SUBSET LotIds
  OBVIOUS
<1>4. UnitsIn(s, count) \in Nat /\ UnitsIn(t, count) \in Nat
  BY UnitsInIsNat
<1>5. /\ IsFiniteSet(Slots(s, count)) /\ IsFiniteSet(Slots(t, count))
      /\ Cardinality(Slots(s \cup t, count)) = UnitsIn(s \cup t, count)
      /\ Cardinality(Slots(s, count)) = UnitsIn(s, count)
      /\ Cardinality(Slots(t, count)) = UnitsIn(t, count)
  BY <1>3, SlotsAreFinite
<1>6. Cardinality(Slots(s, count) \cap Slots(t, count)) = 0
  BY <1>2, FS_EmptySet
<1>7. PICK A, B : A = Slots(s, count) /\ B = Slots(t, count)
  OBVIOUS
<1>8. Cardinality(A \cup B) = Cardinality(A) + Cardinality(B) - Cardinality(A \cap B)
  BY <1>5, <1>7, FS_Union
<1>9. Cardinality(A \cup B) = UnitsIn(s \cup t, count)
  BY <1>1, <1>5, <1>7
<1>10. Cardinality(A) = UnitsIn(s, count) /\ Cardinality(B) = UnitsIn(t, count) /\ Cardinality(A \cap B) = 0
  BY <1>5, <1>6, <1>7
<1>. QED  BY <1>4, <1>8, <1>9, <1>10

(* Counts subtracted lot by lot subtract in the sum.                       *)
LEMMA Difference ==
  ASSUME NEW set \in SUBSET LotIds, NEW a, NEW b, NEW c,
         \A l \in set : a[l] \in 0..Target /\ b[l] \in 0..a[l] /\ c[l] = a[l] - b[l]
  PROVE  UnitsIn(set, c) = UnitsIn(set, a) - UnitsIn(set, b)
<1>. USE RobinhoodAssumption
<1>. DEFINE sold == Slots(set, a) \ Slots(set, c)
            f    == [u \in sold |-> <<u[1], u[2] - c[u[1]]>>]
<1>1. \A u \in sold : /\ u = <<u[1], u[2]>> /\ u[1] \in set
                      /\ u[2] \in 1..a[u[1]] /\ u[2] - c[u[1]] \in 1..b[u[1]]
  BY DEF Slots
<1>2. f \in [sold -> Slots(set, b)]
  <2>. SUFFICES ASSUME NEW u \in sold PROVE <<u[1], u[2] - c[u[1]]>> \in Slots(set, b)
    OBVIOUS
  <2>. HIDE DEF sold, f
  <2>. QED  BY <1>1 DEF Slots
<1>3. ASSUME NEW u \in sold, NEW v \in sold, f[u] = f[v] PROVE u = v
  <2>1. u[1] = v[1] /\ u[2] - c[u[1]] = v[2] - c[v[1]]
    BY <1>3
  <2>2. u[2] \in Int /\ v[2] \in Int /\ c[u[1]] \in Int
    BY <1>1
  <2>3. u[2] = v[2]
    BY <2>1, <2>2
  <2>. QED  BY <1>1, <2>1, <2>3
<1>4. ASSUME NEW v \in Slots(set, b) PROVE \E u \in sold : f[u] = v
  <2>1. v = <<v[1], v[2]>> /\ v[1] \in set /\ v[2] \in 1..b[v[1]]
    BY DEF Slots
  <2>2. PICK l, n : l = v[1] /\ n = v[2] + c[l]
    OBVIOUS
  <2>3. n \in 1..a[l] /\ n > c[l] /\ l \in set /\ n - c[l] = v[2] /\ n \in 1..Target
    BY <2>1, <2>2
  <2>4. <<l, n>> \in sold
    BY <2>3 DEF Slots
  <2>5. f[<<l, n>>] = <<l, n - c[l]>>
    BY <2>4
  <2>. QED  BY <2>1, <2>2, <2>3, <2>4, <2>5
<1>5. f \in Bijection(sold, Slots(set, b))
  <2>. HIDE DEF sold, f
  <2>. QED  BY <1>2, <1>3, <1>4 DEF Bijection, Injection, Surjection, IsInjective
<1>6. Slots(set, a) \cap Slots(set, c) = Slots(set, c)
  BY DEF Slots
<1>7. IsFiniteSet(sold) /\ Cardinality(sold) = UnitsIn(set, a) - UnitsIn(set, c)
  <2>1. /\ IsFiniteSet(Slots(set, a)) /\ Cardinality(Slots(set, a)) = UnitsIn(set, a)
        /\ Cardinality(Slots(set, c)) = UnitsIn(set, c)
    BY SlotsAreFinite
  <2>2. PICK A, C : A = Slots(set, a) /\ C = Slots(set, c)
    OBVIOUS
  <2>3. IsFiniteSet(A \ C) /\ Cardinality(A \ C) = Cardinality(A) - Cardinality(A \cap C)
    BY <2>1, <2>2, FS_Difference
  <2>. QED  BY <1>6, <2>1, <2>2, <2>3
<1>8. Cardinality(Slots(set, b)) = Cardinality(sold)
  BY <1>5, <1>7, FS_Bijection DEF ExistsBijection
<1>. QED  BY <1>7, <1>8, SlotsAreFinite, UnitsInIsNat

(* What the prover knows of division is said once.                         *)
LEMMA DivisionBounds ==
  ASSUME NEW n \in Nat, NEW s \in Nat, s > 0
  PROVE  n \div s \in Int /\ s * (n \div s) <= n /\ n < s * (n \div s) + s
<1>1. n \div s \in Int
  OBVIOUS
<1>2. s * (n \div s) <= n
  OBVIOUS
<1>3. n < s * (n \div s) + s
  OBVIOUS
<1>. QED  BY <1>1, <1>2, <1>3

LEMMA QuotientBelow ==
  ASSUME NEW n \in Nat, NEW s \in Nat, s > 0, NEW b \in Nat, n < s * b
  PROVE  n \div s \in 0..(b - 1)
<1>1. PICK d \in Int : d = n \div s /\ s * d <= n /\ n < s * d + s
  BY DivisionBounds
<1>2. d >= 0
  <2>1. CASE d <= -1
    <3>1. s * d <= -s
      BY <2>1
    <3>. QED  BY <1>1, <3>1
  <2>. QED  BY <2>1
<1>3. d < b
  <2>1. CASE d >= b
    <3>1. s * d >= s * b
      BY <2>1
    <3>. QED  BY <1>1, <3>1
  <2>. QED  BY <2>1
<1>. QED  BY <1>1, <1>2, <1>3

(* Two numbers in base m are equal digit by digit.                         *)
LEMMA UniqueDigits ==
  ASSUME NEW m \in Nat, NEW k \in Nat, NEW j \in Nat, NEW t \in 1..m, NEW u \in 1..m,
         k * m + t = j * m + u
  PROVE  k = j /\ t = u
<1>1. ASSUME NEW a \in Nat, NEW b \in Nat, a < b, NEW x \in 1..m, NEW y \in 1..m
      PROVE  a * m + x # b * m + y
  <2>1. b * m >= (a + 1) * m
    BY <1>1
  <2>2. (a + 1) * m = a * m + m
    OBVIOUS
  <2>. QED  BY <2>1, <2>2
<1>2. k = j
  BY <1>1
<1>. QED  BY <1>2

(* Counts that are a proportion of others, rounded down, sum to at most    *)
(* that proportion of their sum: q units taken m times fit into r units    *)
(* taken s times, lot by lot, by a map of the ones into the others.        *)
LEMMA Proportion ==
  ASSUME NEW set \in SUBSET LotIds, NEW q, NEW r, NEW m \in Nat, NEW s \in Nat, m > 0, s > 0,
         \A l \in set : q[l] \in 0..Target /\ r[l] \in 0..Target /\ q[l] * m <= s * r[l]
  PROVE  UnitsIn(set, q) * m <= UnitsIn(set, r) * s
<1>. USE RobinhoodAssumption
<1>. DEFINE from == Slots(set, q) \X (1..m)
            to   == Slots(set, r) \X (1..s)
            N(x) == (x[1][2] - 1) * m + (x[2] - 1)
            D(x) == N(x) \div s
            g    == [x \in from |-> <<<<x[1][1], D(x) + 1>>, N(x) - s * D(x) + 1>>]
<1>1. ASSUME NEW x \in from
      PROVE  /\ x = <<<<x[1][1], x[1][2]>>, x[2]>>
             /\ x[1][1] \in set /\ x[1][2] \in 1..q[x[1][1]] /\ x[2] \in 1..m
  BY DEF Slots
<1>2. ASSUME NEW x \in from
      PROVE  N(x) \in Nat /\ N(x) < s * r[x[1][1]]
  <2>1. PICK l \in set, k \in Nat, t \in 1..m, y \in 0..Target, z \in 0..Target :
          l = x[1][1] /\ k = x[1][2] - 1 /\ t = x[2] /\ y = q[l] /\ z = r[l]
    BY <1>1
  <2>2. k + 1 <= y /\ y * m <= s * z
    BY <1>1, <2>1
  <2>3. k * m \in Nat /\ k * m + m <= y * m
    <3>1. (k + 1) * m <= y * m
      BY <2>2
    <3>2. (k + 1) * m = k * m + m
      OBVIOUS
    <3>. QED  BY <3>1, <3>2
  <2>4. s * z \in Nat /\ y * m \in Nat
    OBVIOUS
  <2>5. k * m + (t - 1) \in Nat /\ k * m + (t - 1) < s * z
    BY <2>2, <2>3, <2>4
  <2>. QED  BY <2>1, <2>5
<1>3. ASSUME NEW x \in from
      PROVE  /\ D(x) \in Nat /\ D(x) + 1 \in 1..r[x[1][1]]
             /\ N(x) - s * D(x) + 1 \in 1..s
  <2>1. PICK n \in Nat, b \in 0..Target : n = N(x) /\ b = r[x[1][1]] /\ n < s * b
    BY <1>1, <1>2
  <2>2. PICK d \in Int : d = n \div s /\ s * d <= n /\ n < s * d + s
    BY DivisionBounds
  <2>3. d \in 0..(b - 1)
    BY <2>1, <2>2, QuotientBelow
  <2>4. s * d \in Int
    BY <2>2
  <2>5. n - s * d + 1 \in 1..s
    BY <2>2, <2>4
  <2>. QED  BY <2>1, <2>2, <2>3, <2>5
<1>4. g \in [from -> to]
  <2>. SUFFICES ASSUME NEW x \in from
                PROVE  <<<<x[1][1], D(x) + 1>>, N(x) - s * D(x) + 1>> \in to
    OBVIOUS
  <2>1. PICK d, e : d = D(x) + 1 /\ e = N(x) - s * D(x) + 1
    OBVIOUS
  <2>2. d \in 1..r[x[1][1]] /\ e \in 1..s /\ x[1][1] \in set /\ d \in 1..Target
    BY <1>1, <1>3, <2>1
  <2>. QED  BY <2>1, <2>2 DEF Slots
<1>5. ASSUME NEW x \in from, NEW y \in from, g[x] = g[y] PROVE x = y
  <2>1. x[1][1] = y[1][1] /\ D(x) + 1 = D(y) + 1 /\ N(x) - s * D(x) + 1 = N(y) - s * D(y) + 1
    <3>. HIDE DEF D, N, from
    <3>. QED  BY <1>5
  <2>2. D(x) = D(y) /\ N(x) = N(y)
    <3>1. PICK a \in Nat, b \in Nat, v \in Nat, w \in Nat :
            a = D(x) /\ b = D(y) /\ v = N(x) /\ w = N(y)
      BY <1>2, <1>3
    <3>. HIDE DEF D, N
    <3>2. a + 1 = b + 1 /\ v - s * a + 1 = w - s * b + 1
      BY <2>1, <3>1
    <3>3. a = b
      BY <3>2
    <3>4. s * a \in Nat
      OBVIOUS
    <3>5. v = w
      BY <3>2, <3>3, <3>4
    <3>. QED  BY <3>1, <3>3, <3>5
  <2>3. PICK k \in Nat, j \in Nat, t \in 1..m, u \in 1..m :
          k = x[1][2] - 1 /\ j = y[1][2] - 1 /\ t = x[2] /\ u = y[2]
    BY <1>1
  <2>4. k * m + (t - 1) = j * m + (u - 1)
    BY <2>2, <2>3
  <2>5. k * m + t = j * m + u
    <3>1. k * m \in Nat /\ j * m \in Nat
      OBVIOUS
    <3>. QED  BY <2>4, <3>1
  <2>6. k = j /\ t = u
    BY <2>5, UniqueDigits
  <2>7. x[1][2] = y[1][2] /\ x[2] = y[2]
    <3>1. x[1][2] \in Int /\ y[1][2] \in Int
      BY <1>1
    <3>. QED  BY <2>3, <2>6, <3>1
  <2>. QED  BY <1>1, <2>1, <2>7
<1>6. /\ IsFiniteSet(from) /\ Cardinality(from) = UnitsIn(set, q) * m
      /\ IsFiniteSet(to) /\ Cardinality(to) = UnitsIn(set, r) * s
  <2>1. PICK A, B : A = Slots(set, q) /\ B = Slots(set, r)
    OBVIOUS
  <2>2. /\ IsFiniteSet(A) /\ Cardinality(A) = UnitsIn(set, q)
        /\ IsFiniteSet(B) /\ Cardinality(B) = UnitsIn(set, r)
    BY <2>1, SlotsAreFinite
  <2>3. /\ IsFiniteSet(1..m) /\ Cardinality(1..m) = m /\ IsFiniteSet(1..s) /\ Cardinality(1..s) = s
    BY IntervalUnits
  <2>4. IsFiniteSet(A \X (1..m)) /\ Cardinality(A \X (1..m)) = Cardinality(A) * Cardinality(1..m)
    BY <2>2, <2>3, FS_Product
  <2>5. IsFiniteSet(B \X (1..s)) /\ Cardinality(B \X (1..s)) = Cardinality(B) * Cardinality(1..s)
    BY <2>2, <2>3, FS_Product
  <2>. QED  BY <2>1, <2>2, <2>3, <2>4, <2>5
<1>7. g \in Injection(from, to)
  <2>. HIDE DEF g, from, to
  <2>. QED  BY <1>4, <1>5 DEF Injection, IsInjective
<1>8. Cardinality(from) <= Cardinality(to)
  <2>. HIDE DEF g, from, to
  <2>. QED  BY <1>6, <1>7, FS_Injection
<1>. QED  BY <1>6, <1>8

(* The last open lot is there: tails of a finite set shrink only so long.  *)
LEMMA LastExists ==
  ASSUME NEW S \in SUBSET LotIds, S # {}
  PROVE  \E l \in S : \A k \in S : k <= l
<1>. USE RobinhoodAssumption
<1>. DEFINE From(l) == {k \in S : k >= l}
            tails   == {From(l) : l \in S}
<1>1. IsFiniteSet(S) /\ S \subseteq Int
  <2>1. IsFiniteSet(LotIds) /\ LotIds \subseteq Int
    BY IntervalUnits DEF LotIds
  <2>. QED  BY <2>1, FS_Subset
<1>2. tails \subseteq FiniteSubsetsOf(S) /\ tails # {}
  <2>. SUFFICES ASSUME NEW l \in S PROVE From(l) \in FiniteSubsetsOf(S)
    OBVIOUS
  <2>1. From(l) \in SUBSET S
    OBVIOUS
  <2>. HIDE DEF From
  <2>. QED  BY <1>1, <2>1, FS_Subset DEF FiniteSubsetsOf
<1>3. PICK x \in tails : \A y \in tails : ~ (<<y, x>> \in StrictSubsetOrdering(S))
  <2>. HIDE DEF tails
  <2>. QED  BY <1>2, FS_StrictSubsetOrderingWellFounded, WFMin
<1>4. PICK l \in S : x = From(l)
  BY <1>3
<1>5. ASSUME NEW k \in S, k > l PROVE FALSE
  <2>0. k \in Int /\ l \in Int /\ \A j \in S : j \in Int
    BY <1>1
  <2>1. From(k) \subseteq From(l) /\ l \in From(l) /\ l \notin From(k)
    <3>1. \A j \in S : j >= k => j >= l
      BY <1>5, <2>0
    <3>2. l >= l /\ ~ (l >= k)
      BY <1>5, <2>0
    <3>. QED  BY <3>1, <3>2
  <2>2. <<From(k), From(l)>> \in StrictSubsetOrdering(S)
    <3>1. From(k) \in SUBSET S /\ From(l) \in SUBSET S
      OBVIOUS
    <3>. HIDE DEF From
    <3>. QED  BY <2>1, <3>1 DEF StrictSubsetOrdering
  <2>. QED  BY <1>3, <1>4, <2>2
<1>. QED  BY <1>1, <1>5

(* An exit sells exactly what it says, and of no lot more than it has.     *)
LEMMA SharesSum ==
  ASSUME IInv, NEW sell, Sellable(sell)
  PROVE  /\ \A l \in PositionLots : Share(l, sell) \in 0..lots[l].remaining
         /\ UnitsIn(PositionLots, [l \in LotIds |-> Share(l, sell)]) = sell
<1>. USE RobinhoodAssumption
<1>. DEFINE total   == UnitsIn(PositionLots, Remaining)
            others  == PositionLots \ {Last}
            rounded == [l \in LotIds |-> IF l \in PositionLots THEN RoundedShare(l, sell) ELSE 0]
            shares  == [l \in LotIds |-> Share(l, sell)]
<1>1. PositionLots \in SUBSET LotIds /\ others \in SUBSET LotIds /\ PositionLots # {}
  BY DEF PositionLots, OpenLots, Taken, Sellable
<1>2. Last \in PositionLots /\ Last \in LotIds /\ PositionLots = others \cup {Last} /\ others \cap {Last} = {}
  BY <1>1, LastExists DEF Last
<1>3. total \in Nat /\ sell \in 1..total
  BY <1>1, UnitsInIsNat DEF Sellable
<1>4. \A l \in LotIds : Remaining[l] = lots[l].remaining /\ lots[l].remaining \in 0..Target
  BY DEF IInv, TypeOK, Lot, Remaining
<1>5. ASSUME NEW l \in PositionLots
      PROVE  /\ RoundedShare(l, sell) \in 0..lots[l].remaining
             /\ RoundedShare(l, sell) * total <= sell * lots[l].remaining
  <2>1. PICK t \in Nat, r \in 0..Target, n \in Int : t = total /\ r = lots[l].remaining /\ n = sell * r
    BY <1>1, <1>3, <1>4
  <2>2. n \in Nat /\ t > 0 /\ n <= t * r
    <3>1. sell * r <= t * r
      BY <1>3, <2>1
    <3>. QED  BY <1>3, <2>1, <3>1
  <2>3. PICK d \in Int : d = n \div t /\ t * d <= n /\ n < t * d + t
    BY <2>2, DivisionBounds
  <2>4. d \in 0..r
    <3>1. n < t * (r + 1)
      <4>1. t * (r + 1) = t * r + t
        OBVIOUS
      <4>2. t * r \in Nat
        OBVIOUS
      <4>. QED  BY <2>2, <4>1, <4>2
    <3>. QED  BY <2>2, <2>3, <3>1, QuotientBelow
  <2>5. RoundedShare(l, sell) = d
    BY <1>3, <2>1, <2>3 DEF RoundedShare
  <2>. QED  BY <2>1, <2>3, <2>4, <2>5
<1>6. UnitsIn(others, rounded) <= sell
  <2>1. \A l \in others : /\ rounded[l] \in 0..Target /\ Remaining[l] \in 0..Target
                          /\ rounded[l] * total <= sell * Remaining[l]
    <3>. SUFFICES ASSUME NEW l \in others
                  PROVE  /\ rounded[l] \in 0..Target /\ Remaining[l] \in 0..Target
                         /\ rounded[l] * total <= sell * Remaining[l]
      OBVIOUS
    <3>1. l \in LotIds /\ rounded[l] = RoundedShare(l, sell)
      BY <1>1
    <3>. QED  BY <1>4, <1>5, <3>1
  <2>0. PICK q, r : q = rounded /\ r = Remaining
    OBVIOUS
  <2>2. PICK a \in Nat, b \in Nat, t \in Nat :
           /\ q = rounded /\ r = Remaining /\ t = total
           /\ a = UnitsIn(others, q) /\ b = UnitsIn(others, r)
    BY <1>1, <1>3, <2>0, UnitsInIsNat
  <2>3. sell \in Nat /\ sell > 0 /\ t > 0
    BY <1>3, <2>2
  <2>4. a * t <= b * sell
    <3>1. \A l \in others : q[l] \in 0..Target /\ r[l] \in 0..Target /\ q[l] * t <= sell * r[l]
      BY <2>1, <2>2
    <3>. HIDE DEF others
    <3>. QED  BY <1>1, <2>2, <2>3, <3>1, Proportion
  <2>5. b <= t
    <3>1. t = b + UnitsIn({Last}, Remaining)
      BY <1>1, <1>2, <2>2, TwoParts
    <3>2. UnitsIn({Last}, Remaining) \in Nat
      BY <1>2, UnitsInIsNat
    <3>. QED  BY <3>1, <3>2
  <2>6. a * t <= sell * t
    <3>1. b * sell <= t * sell
      BY <2>3, <2>5
    <3>2. a * t \in Nat /\ b * sell \in Nat /\ t * sell \in Nat /\ t * sell = sell * t
      BY <2>3
    <3>. QED  BY <2>4, <3>1, <3>2
  <2>7. a <= sell
    <3>1. CASE a >= sell + 1
      <4>1. a * t >= (sell + 1) * t
        BY <2>3, <3>1
      <4>2. (sell + 1) * t = sell * t + t
        BY <2>3
      <4>3. sell * t \in Nat /\ a * t \in Nat
        BY <2>3
      <4>. QED  BY <2>3, <2>6, <4>1, <4>2, <4>3
    <3>. QED  BY <2>3, <3>1
  <2>. QED  BY <2>2, <2>7
<1>7. UnitsIn(others, rounded) \in Nat
  BY <1>1, UnitsInIsNat
<1>8. LeftOver(sell) = sell - UnitsIn(others, rounded) /\ LeftOver(sell) \in 0..lots[Last].remaining
  <2>1. LeftOver(sell) = sell - UnitsIn(others, rounded)
    BY DEF LeftOver
  <2>2. LeftOver(sell) <= lots[Last].remaining
    BY DEF Sellable
  <2>3. lots[Last].remaining \in Nat
    BY <1>2, <1>4
  <2>. QED  BY <1>3, <1>6, <1>7, <2>1, <2>2, <2>3
<1>9. Share(Last, sell) = LeftOver(sell)
  BY <1>2, <1>8 DEF Share
<1>10. \A l \in others : Share(l, sell) = RoundedShare(l, sell)
  BY DEF Share
<1>11. \A l \in PositionLots : Share(l, sell) \in 0..lots[l].remaining
  BY <1>5, <1>8, <1>9, <1>10
<1>12. UnitsIn(others, shares) = UnitsIn(others, rounded)
  <2>1. \A l \in others : shares[l] = rounded[l]
    BY <1>1, <1>10
  <2>2. PICK a, b : a = shares /\ b = rounded
    OBVIOUS
  <2>. QED  BY <1>1, <2>1, <2>2, EqualCounts
<1>13. UnitsIn({Last}, shares) = LeftOver(sell)
  <2>1. PICK a, x : a = shares /\ x = Last
    OBVIOUS
  <2>2. a[x] = LeftOver(sell) /\ a[x] \in 0..Target /\ x \in LotIds
    BY <1>2, <1>4, <1>8, <1>9, <2>1
  <2>3. UnitsIn({x}, a) = a[x]
    BY <2>2, OneLot
  <2>. QED  BY <2>1, <2>2, <2>3
<1>14. UnitsIn(PositionLots, shares) = UnitsIn(others, shares) + UnitsIn({Last}, shares)
  <2>1. PICK a, s, t : a = shares /\ s = others /\ t = {Last}
    OBVIOUS
  <2>2. s \in SUBSET LotIds /\ t \in SUBSET LotIds /\ s \cap t = {} /\ PositionLots = s \cup t
    BY <1>1, <1>2, <2>1
  <2>. HIDE DEF shares, others
  <2>. QED  BY <2>1, <2>2, TwoParts
<1>. QED  BY <1>3, <1>7, <1>8, <1>11, <1>12, <1>13, <1>14

(* Lots with something left have nothing only if there are none.           *)
LEMMA NoUnits ==
  ASSUME NEW set \in SUBSET LotIds, NEW count, \A l \in set : count[l] \in 1..Target
  PROVE  UnitsIn(set, count) = 0 <=> set = {}
<1>. USE RobinhoodAssumption
<1>1. Slots(set, count) = {} <=> set = {}
  <2>1. ASSUME NEW l \in set PROVE <<l, 1>> \in Slots(set, count)
    <3>1. count[l] >= 1 /\ 1 \in 1..Target
      OBVIOUS
    <3>. QED  BY <3>1 DEF Slots
  <2>2. set = {} => Slots(set, count) = {}
    BY DEF Slots
  <2>. QED  BY <2>1, <2>2
<1>2. IsFiniteSet(Slots(set, count)) /\ UnitsIn(set, count) = Cardinality(Slots(set, count))
  BY SlotsAreFinite
<1>. QED  BY <1>1, <1>2, FS_EmptySet

(* What the row of the position and the open lots have to do with each     *)
(* other, whether or not an exit has written over a scale.                 *)
RowIsCovered ==
  /\ position.remaining <= UnitsIn(PositionLots, Remaining)
  /\ position.status \in Open <=> position.remaining > 0
  /\ \A l \in OpenLots : lots[l].generation <= position.generation
  /\ ~overtaken => /\ position.remaining = UnitsIn(PositionLots, Remaining)
                   /\ OpenLots = PositionLots

(* Steps that change nothing of what lots and position hold.               *)
LEMMA CoverStays ==
  ASSUME RowIsCovered,
         \A l \in LotIds : /\ lots'[l].entry = lots[l].entry
                           /\ lots'[l].remaining = lots[l].remaining
                           /\ lots'[l].generation = lots[l].generation,
         position'.remaining = position.remaining,
         position'.generation = position.generation,
         position'.status \in Open <=> position.status \in Open,
         overtaken' = overtaken
  PROVE  RowIsCovered'
<1>1. /\ OpenLots' = OpenLots /\ PositionLots' = PositionLots
      /\ PositionLots \subseteq LotIds /\ OpenLots \subseteq LotIds
  BY DEF PositionLots, OpenLots, Taken
<1>2. \A l \in LotIds : Remaining'[l] = Remaining[l]
  BY DEF Remaining
<1>3. PICK s, c : s = PositionLots' /\ c = Remaining'
  OBVIOUS
<1>4. UnitsIn(PositionLots, Remaining)' = UnitsIn(s, c)
  BY <1>3 DEF UnitsIn
<1>5. UnitsIn(s, c) = UnitsIn(PositionLots, Remaining)
  <2>1. s \in SUBSET LotIds /\ \A l \in s : c[l] = Remaining[l]
    BY <1>1, <1>2, <1>3
  <2>. QED  BY <1>1, <1>3, <2>1, EqualCounts
<1>. QED  BY <1>1, <1>4, <1>5 DEF RowIsCovered

(* A committed lot adds its fraction to lots and row alike, to the row as  *)
(* it has become, or opens a generation of its own.                        *)
LEMMA CommitCovers ==
  ASSUME IInv, RowIsCovered, NEW l \in LotIds, CommitLot(l)
  PROVE  RowIsCovered'
<1>. USE RobinhoodAssumption
<1>. DEFINE e    == entry.evidence
            f    == entry.fraction
            next == IF position.status \in Open THEN Scaled(e, f) ELSE Entered(e, f)
            lot  == NewLot(e, f, next.generation)
            rest == IF position.status \in Open THEN PositionLots ELSE {}
            row  == IF position.status \in Open THEN position.remaining ELSE 0
<1>1. /\ l \notin Taken /\ position' = next /\ lots' = [lots EXCEPT ![l] = lot]
      /\ overtaken' = overtaken
  BY DEF CommitLot
<1>2. e \in Evidences /\ f \in 1..Target
  BY DEF CommitLot, IInv, QuotesAreFunded, TypeOK
<1>3. /\ lots \in [LotIds -> Lot] /\ position.remaining \in Nat /\ position.generation \in Nat
      /\ \A k \in LotIds : lots[k].generation \in Nat
  BY DEF IInv, TypeOK, Lot, Position
<1>4. /\ next.status \in Open /\ next.remaining = row + f /\ row \in Nat
      /\ position.status \in Open => next.generation = position.generation
      /\ position.status \notin Open => next.generation = position.generation + 1
  <2>1. f = 0 + f
    BY <1>2
  <2>. QED  BY <1>3, <2>1 DEF Scaled, Entered, Open
<1>5. lot.entry = f /\ lot.remaining = f /\ lot.generation = next.generation
  BY DEF NewLot
<1>. HIDE DEF lot, next
<1>6. lots'[l] = lot /\ \A k \in LotIds : k # l => lots'[k] = lots[k]
  BY <1>1, <1>3
<1>7. /\ OpenLots' = OpenLots \cup {l} /\ OpenLots \cap {l} = {}
      /\ OpenLots \in SUBSET LotIds /\ PositionLots \in SUBSET OpenLots
  BY <1>1, <1>2, <1>5, <1>6 DEF PositionLots, OpenLots, Taken
<1>8. PositionLots' = rest \cup {l} /\ rest \in SUBSET OpenLots
  <2>1. \A k \in OpenLots : k \in LotIds /\ k # l /\ lots'[k].generation = lots[k].generation
    BY <1>6, <1>7
  <2>2. lots'[l].generation = position'.generation
    BY <1>1, <1>5, <1>6
  <2>3. CASE position.status \in Open
    BY <1>1, <1>4, <1>7, <2>1, <2>2, <2>3 DEF PositionLots
  <2>4. CASE position.status \notin Open
    <3>1. \A k \in OpenLots : lots'[k].generation # position'.generation
      <4>1. \A k \in OpenLots : lots[k].generation <= position.generation
        BY DEF RowIsCovered
      <4>. QED  BY <1>1, <1>3, <1>4, <2>1, <2>4, <4>1
    <3>. QED  BY <1>7, <2>2, <2>4, <3>1 DEF PositionLots
  <2>. QED  BY <2>3, <2>4
<1>9. PICK c : c = Remaining'
  OBVIOUS
<1>10. c[l] = f /\ \A k \in OpenLots : c[k] = Remaining[k]
  BY <1>5, <1>6, <1>7, <1>9 DEF Remaining
<1>11. UnitsIn(PositionLots, Remaining)' = UnitsIn(rest, Remaining) + f
  <2>1. PICK s, t : s = rest /\ t = {l}
    OBVIOUS
  <2>2. s \in SUBSET LotIds /\ t \in SUBSET LotIds /\ s \cap t = {} /\ s \in SUBSET OpenLots
    BY <1>7, <1>8, <2>1
  <2>3. UnitsIn(s \cup t, c) = UnitsIn(s, c) + UnitsIn(t, c)
    BY <2>2, TwoParts
  <2>4. UnitsIn(s, c) = UnitsIn(s, Remaining)
    <3>1. \A k \in s : c[k] = Remaining[k]
      BY <1>10, <2>2
    <3>2. PICK r : r = Remaining
      OBVIOUS
    <3>. QED  BY <2>2, <3>1, <3>2, EqualCounts
  <2>5. UnitsIn({l}, c) = f
    BY <1>2, <1>10, OneLot
  <2>6. UnitsIn(PositionLots, Remaining)' = UnitsIn(s \cup t, c)
    BY <1>8, <1>9, <2>1 DEF UnitsIn
  <2>. QED  BY <2>1, <2>3, <2>4, <2>5, <2>6
<1>12. /\ row <= UnitsIn(rest, Remaining) /\ UnitsIn(rest, Remaining) \in Nat
       /\ ~overtaken => row = UnitsIn(rest, Remaining) /\ OpenLots = rest
  <2>1. UnitsIn({}, Remaining) = 0
    <3>1. PICK r : r = Remaining
      OBVIOUS
    <3>2. UnitsIn({}, r) = 0
      BY NoUnits
    <3>. QED  BY <3>1, <3>2
  <2>2. UnitsIn(PositionLots, Remaining) \in Nat
    BY <1>7, UnitsInIsNat
  <2>3. CASE position.status \in Open
    BY <2>2, <2>3 DEF RowIsCovered
  <2>4. CASE position.status \notin Open
    <3>1. position.remaining = 0
      BY <1>3, <2>4 DEF RowIsCovered
    <3>2. ASSUME ~overtaken PROVE OpenLots = {}
      <4>1. UnitsIn(PositionLots, Remaining) = 0 /\ OpenLots = PositionLots
        BY <3>1, <3>2 DEF RowIsCovered
      <4>2. \A k \in PositionLots : Remaining[k] \in 1..Target
        BY <1>3, <1>7 DEF Remaining, PositionLots, OpenLots, Lot
      <4>3. PICK s, r : s = PositionLots /\ r = Remaining
        OBVIOUS
      <4>4. s = {}
        <5>1. s \in SUBSET LotIds /\ \A k \in s : r[k] \in 1..Target
          BY <1>7, <4>2, <4>3
        <5>. QED  BY <4>1, <4>3, <5>1, NoUnits
      <4>. QED  BY <4>1, <4>3, <4>4
    <3>. QED  BY <2>1, <2>4, <3>2
  <2>. QED  BY <2>3, <2>4
<1>13. position'.remaining <= UnitsIn(PositionLots, Remaining)' /\ position'.remaining > 0
  BY <1>1, <1>2, <1>4, <1>11, <1>12
<1>14. \A k \in OpenLots' : lots'[k].generation <= position'.generation
  <2>1. lots'[l].generation = position'.generation /\ position'.generation \in Nat
    BY <1>1, <1>3, <1>4, <1>5, <1>6
  <2>2. \A k \in OpenLots : lots'[k].generation <= position'.generation
    <3>1. \A k \in OpenLots : lots[k].generation <= position.generation /\ k \in LotIds /\ k # l
      BY <1>7 DEF RowIsCovered
    <3>. QED  BY <1>1, <1>3, <1>4, <1>6, <3>1
  <2>. QED  BY <1>7, <2>1, <2>2
<1>15. ~overtaken => /\ position'.remaining = UnitsIn(PositionLots, Remaining)'
                     /\ OpenLots' = PositionLots'
  BY <1>1, <1>4, <1>7, <1>8, <1>11, <1>12
<1>. QED  BY <1>1, <1>4, <1>13, <1>14, <1>15 DEF RowIsCovered

(* An exit takes from the lots no more than it takes from the row, and the *)
(* same if nothing was scaled in its awaits.                               *)
LEMMA ExitCovers ==
  ASSUME IInv, RowIsCovered, NEW sell, NEW status \in {"closed", "de_risking", "runner"},
         NEW stage \in 0..2, status \in Open \/ sell = exit.remaining,
         ApplyExit(sell, status, stage), Sellable(sell)
  PROVE  RowIsCovered'
<1>. USE RobinhoodAssumption
<1>. DEFINE Sold(l) == IF l \in PositionLots THEN Cut(lots[l], Share(l, sell)) ELSE lots[l]
<1>1. /\ exit.pc = "quoting"
      /\ lots' = [l \in LotIds |-> Sold(l)]
      /\ position'.status = IF exit.remaining <= sell THEN "closed" ELSE status
      /\ position'.remaining = IF exit.remaining <= sell THEN 0 ELSE exit.remaining - sell
      /\ position'.generation = position.generation
      /\ overtaken' = (overtaken \/ exit.remaining # position.remaining)
  BY DEF ApplyExit, AfterExit
<1>2. /\ lots \in [LotIds -> Lot] /\ PositionLots \in SUBSET LotIds
      /\ OpenLots \in SUBSET LotIds /\ PositionLots \in SUBSET OpenLots
      /\ position.remaining \in Nat /\ exit.remaining \in Nat
      /\ exit.remaining <= position.remaining
  BY <1>1 DEF IInv, TypeOK, PositionLots, OpenLots, Taken, Position, SeenIsOpen
<1>3. PICK shares : shares = [l \in LotIds |-> Share(l, sell)]
  OBVIOUS
<1>4. /\ \A l \in PositionLots : shares[l] \in 0..lots[l].remaining
      /\ UnitsIn(PositionLots, shares) = sell
  BY <1>2, <1>3, SharesSum
<1>5. ASSUME NEW l \in PositionLots
      PROVE  /\ lots'[l].entry = lots[l].entry /\ lots'[l].generation = lots[l].generation
             /\ lots[l].remaining \in 0..Target
             /\ lots'[l].remaining = lots[l].remaining - shares[l]
             /\ lots'[l].remaining \in 0..Target
  <2>1. lots'[l] = Cut(lots[l], shares[l]) /\ lots[l].remaining \in 0..Target
    BY <1>1, <1>2, <1>3 DEF Lot
  <2>2. Cut(lots[l], shares[l]).remaining = lots[l].remaining - shares[l]
    BY <1>4, <2>1 DEF Cut
  <2>. QED  BY <1>4, <2>1, <2>2 DEF Cut
<1>6. \A l \in LotIds \ PositionLots : lots'[l] = lots[l]
  BY <1>1
<1>7. PositionLots' = {l \in PositionLots : lots'[l].remaining > 0}
  <2>1. ASSUME NEW l \in PositionLots'
        PROVE  l \in PositionLots /\ lots'[l].remaining > 0
    <3>1. /\ l \in LotIds /\ lots'[l].entry > 0 /\ lots'[l].remaining > 0
          /\ lots'[l].generation = position'.generation
      BY DEF PositionLots, OpenLots, Taken
    <3>2. l \notin PositionLots => l \in PositionLots
      BY <1>1, <1>6, <3>1 DEF PositionLots, OpenLots, Taken
    <3>. QED  BY <3>1, <3>2
  <2>2. ASSUME NEW l \in PositionLots, lots'[l].remaining > 0 PROVE l \in PositionLots'
    BY <1>1, <1>2, <1>5, <2>2 DEF PositionLots, OpenLots, Taken
  <2>. QED  BY <2>1, <2>2
<1>70. OpenLots' \in SUBSET OpenLots
  <2>. SUFFICES ASSUME NEW l \in OpenLots' PROVE l \in OpenLots
    OBVIOUS
  <2>1. l \in LotIds /\ lots'[l].entry > 0 /\ lots'[l].remaining > 0
    BY DEF OpenLots, Taken
  <2>2. l \notin PositionLots => lots'[l] = lots[l]
    BY <1>6, <2>1
  <2>. QED  BY <1>2, <2>1, <2>2 DEF OpenLots, Taken
<1>8. PICK c, s : c = Remaining' /\ s = PositionLots'
  OBVIOUS
<1>9. s \in SUBSET PositionLots /\ \A l \in LotIds : c[l] = lots'[l].remaining
  BY <1>7, <1>8 DEF Remaining
<1>10. \A l \in PositionLots : Remaining[l] = lots[l].remaining
  BY <1>2 DEF Remaining
<1>11. UnitsIn(s, c) = UnitsIn(PositionLots, c)
  <2>1. \A l \in PositionLots \ s : c[l] = 0
    BY <1>2, <1>5, <1>7, <1>8, <1>9
  <2>. QED  BY <1>2, <1>9, <2>1, EmptyLots
<1>12. UnitsIn(PositionLots, c) = UnitsIn(PositionLots, Remaining) - sell
  <2>1. \A l \in PositionLots : /\ Remaining[l] \in 0..Target /\ shares[l] \in 0..Remaining[l]
                                /\ c[l] = Remaining[l] - shares[l]
    BY <1>2, <1>4, <1>5, <1>9, <1>10
  <2>. QED  BY <1>2, <1>4, <2>1, Difference
<1>13. PICK n \in Nat, m \in Nat : n = UnitsIn(PositionLots, Remaining) /\ m = UnitsIn(s, c)
  BY <1>2, <1>9, UnitsInIsNat
<1>14. m = n - sell /\ sell \in Nat
  <2>1. sell \in Nat
    BY <1>2, UnitsInIsNat DEF Sellable
  <2>. QED  BY <1>11, <1>12, <1>13, <2>1
<1>15. UnitsIn(PositionLots, Remaining)' = m
  BY <1>8, <1>13 DEF UnitsIn
<1>16. position.remaining <= n /\ (~overtaken => position.remaining = n /\ OpenLots = PositionLots)
  BY <1>13 DEF RowIsCovered
<1>17. position'.remaining <= m
  <2>1. CASE exit.remaining <= sell
    BY <1>1, <1>13, <2>1
  <2>2. CASE ~ (exit.remaining <= sell)
    <3>1. position'.remaining = exit.remaining - sell
      BY <1>1, <2>2
    <3>. QED  BY <1>2, <1>13, <1>14, <1>16, <3>1
  <2>. QED  BY <2>1, <2>2
<1>170. ~overtaken' => position'.remaining = m
  <2>. SUFFICES ASSUME ~overtaken' PROVE position'.remaining = m
    OBVIOUS
  <2>1. exit.remaining = n
    BY <1>1, <1>2, <1>16
  <2>2. sell <= n
    BY <1>13, <1>14
  <2>3. CASE exit.remaining <= sell
    BY <1>1, <1>13, <1>14, <2>1, <2>2, <2>3
  <2>4. CASE ~ (exit.remaining <= sell)
    BY <1>1, <1>14, <2>1, <2>4
  <2>. QED  BY <2>3, <2>4
<1>18. position'.status \in Open <=> position'.remaining > 0
  <2>1. "closed" \notin Open /\ (sell = exit.remaining => exit.remaining <= sell)
    BY <1>2 DEF Open
  <2>. QED  BY <1>1, <1>2, <1>14, <2>1
<1>19. \A l \in OpenLots' : lots'[l].generation <= position'.generation
  <2>1. \A l \in OpenLots : lots'[l].generation = lots[l].generation
    BY <1>2, <1>5, <1>6
  <2>. QED  BY <1>1, <1>70, <2>1 DEF RowIsCovered
<1>20. ~overtaken' => OpenLots' = PositionLots'
  <2>. SUFFICES ASSUME ~overtaken', NEW l \in OpenLots' PROVE l \in PositionLots'
    BY DEF PositionLots
  <2>1. l \in PositionLots
    BY <1>1, <1>16, <1>70
  <2>. QED  BY <1>7, <2>1 DEF OpenLots
<1>. QED  BY <1>15, <1>17, <1>170, <1>18, <1>19, <1>20 DEF RowIsCovered

(* A lot replaced by one with the same exposure leaves the match alone.    *)
LEMMA LineageStepCovers ==
  ASSUME IInv, RowIsCovered, NEW l \in LotIds, NEW lot,
         lot.entry = lots[l].entry, lot.remaining = lots[l].remaining,
         lot.generation = lots[l].generation,
         lots' = [lots EXCEPT ![l] = lot], UNCHANGED <<position, overtaken>>
  PROVE  RowIsCovered'
<1>1. \A k \in LotIds : lots'[k] = IF k = l THEN lot ELSE lots[k]
  BY DEF IInv, TypeOK
<1>2. \A k \in LotIds : /\ lots'[k].entry = lots[k].entry
                        /\ lots'[k].remaining = lots[k].remaining
                        /\ lots'[k].generation = lots[k].generation
  BY <1>1
<1>. QED  BY <1>2, CoverStays

LEMMA CoverNext == IInv /\ RowIsCovered /\ [Next]_vars => RowIsCovered'
<1>. SUFFICES ASSUME IInv, RowIsCovered, [Next]_vars PROVE RowIsCovered'
  OBVIOUS
<1>0. ASSUME UNCHANGED <<lots, position, overtaken>> PROVE RowIsCovered'
  BY <1>0, CoverStays
<1>1. ASSUME NEW e \in Evidences, NEW l \in LotIds, LinkLot(e, l) PROVE RowIsCovered'
  <2>1. PICK lot : lot = WithLink(lots[l])
    OBVIOUS
  <2>2. /\ lot.entry = lots[l].entry /\ lot.remaining = lots[l].remaining
        /\ lot.generation = lots[l].generation
    BY <2>1 DEF WithLink
  <2>3. lots' = [lots EXCEPT ![l] = lot] /\ UNCHANGED <<position, overtaken>>
    BY <1>1, <2>1 DEF LinkLot
  <2>. QED  BY <2>2, <2>3, LineageStepCovers
<1>2. CASE \E e \in Evidences, f \in 1..Target : AskCapital(e, f)
  BY <1>0, <1>2 DEF AskCapital
<1>3. CASE DropEntry
  BY <1>0, <1>3 DEF DropEntry
<1>4. CASE \E l \in LotIds : CommitLot(l)
  BY <1>4, CommitCovers
<1>5. CASE FinishEntry
  <2>1. CASE \E l \in LotIds : LinkLot(entry.evidence, l)
    <3>1. PICK l \in LotIds : LinkLot(entry.evidence, l)
      BY <2>1
    <3>2. PICK e : e = entry.evidence
      OBVIOUS
    <3>3. LinkLot(e, l)
      BY <3>1, <3>2
    <3>4. e \in Evidences
      BY <3>3 DEF LinkLot, Found, LotsOf, IInv, LineagesAreOwn
    <3>. QED  BY <1>1, <3>3, <3>4
  <2>2. CASE UNCHANGED <<ledger, lots, position, exit, release, losses, overtaken>>
    BY <1>0, <2>2
  <2>. QED  BY <1>5, <2>1, <2>2 DEF FinishEntry
<1>6. CASE \E e \in Evidences : Recover(e)
  BY <1>1, <1>6 DEF Recover
<1>7. CASE Exits
  <2>1. PICK sell \in Nat, status \in {"closed", "de_risking", "runner"}, stage \in 0..2 :
          /\ ApplyExit(sell, status, stage)
          /\ status \in Open \/ sell = exit.remaining
    BY <1>7, ExitsApply
  <2>2. CASE Sellable(sell)
    BY <2>1, <2>2, ExitCovers
  <2>3. CASE ~ Sellable(sell)
    BY <1>0, <2>1, <2>3 DEF ApplyExit
  <2>. QED  BY <2>2, <2>3
<1>8. CASE StartExit \/ DropExit
  BY <1>0, <1>8 DEF StartExit, DropExit
<1>9. CASE KeepRunner
  <2>1. position \in Position /\ position.status \in Open
    BY <1>9 DEF IInv, TypeOK, KeepRunner, SeenIsOpen
  <2>2. /\ position'.remaining = position.remaining
        /\ position'.generation = position.generation
        /\ position'.status = "runner"
        /\ UNCHANGED <<lots, overtaken>>
    BY <1>9, <2>1 DEF Position, KeepRunner
  <2>. QED  BY <2>1, <2>2, CoverStays DEF Open
<1>10. ASSUME NEW l \in LotIds, SyncLot(l) PROVE RowIsCovered'
  <2>1. PICK lot : lot = Settled(lots[l], <<l, lots[l].slices + 1>>)
    OBVIOUS
  <2>2. /\ lot.entry = lots[l].entry /\ lot.remaining = lots[l].remaining
        /\ lot.generation = lots[l].generation
    BY <2>1 DEF Settled
  <2>3. /\ UNCHANGED <<position, overtaken>>
        /\ lots' = [lots EXCEPT ![l] = lot] \/ lots' = lots
    BY <1>10, <2>1 DEF SyncLot
  <2>. QED  BY <1>0, <2>2, <2>3, LineageStepCovers
<1>11. CASE \/ \E o \in Others, f \in OtherSizes : OtherReserves(o, f)
            \/ \E o \in Others : OtherSettles(o)
            \/ \E next \in Releases : Lose(next)
            \/ UNCHANGED vars
  BY <1>0, <1>11 DEF OtherReserves, OtherSettles, Lose, vars
<1>. QED
  BY <1>2, <1>3, <1>4, <1>5, <1>6, <1>7, <1>8, <1>9, <1>10, <1>11 DEF Next, Exits

LEMMA SpecCovers == Spec => []RowIsCovered
<1>1. Init => RowIsCovered
  <2>. SUFFICES ASSUME Init PROVE RowIsCovered
    OBVIOUS
  <2>1. \A l \in LotIds : lots[l].entry = 0
    BY DEF Init, NoLot
  <2>2. OpenLots = {} /\ PositionLots = {}
    BY <2>1 DEF PositionLots, OpenLots, Taken
  <2>3. PICK count : count = Remaining
    OBVIOUS
  <2>4. UnitsIn({}, count) = 0
    BY NoUnits
  <2>5. position.remaining = 0 /\ position.status \notin Open
    BY DEF Init, NoPosition, Open
  <2>. QED  BY <2>2, <2>3, <2>4, <2>5 DEF RowIsCovered
<1>. QED  BY <1>1, SpecIInv, CoverNext, PTL DEF Spec

(* The row of a position never promises more than its open lots hold, and  *)
(* is never open over nothing, although an exit writes it from a copy made *)
(* before its awaits over lots read after them.                            *)
THEOREM RowNeverExceedsLots == Spec => []PositionIsCovered
<1>1. RowIsCovered => PositionIsCovered
  BY DEF RowIsCovered, PositionIsCovered
<1>. QED  BY <1>1, SpecCovers, PTL

(* Unless an exit has written over a scale the position is the sum of its  *)
(* lots: rounding the lots' shares of an exit neither closes a position    *)
(* over an open lot nor sells a lot beyond what it holds.                  *)
THEOREM PositionIsItsLots == Spec => []PositionMatchesUnlessOvertaken
<1>1. IInv /\ RowIsCovered => PositionMatchesUnlessOvertaken
  <2>. SUFFICES ASSUME IInv, RowIsCovered, ~overtaken
                PROVE  /\ position.remaining = UnitsIn(OpenLots, Remaining)
                       /\ position.status \in Open <=> OpenLots # {}
                       /\ \A l \in OpenLots : lots[l].generation = position.generation
    BY DEF PositionMatchesUnlessOvertaken
  <2>1. OpenLots = PositionLots /\ position.remaining = UnitsIn(OpenLots, Remaining)
    BY DEF RowIsCovered
  <2>2. position.status \in Open <=> OpenLots # {}
    <3>1. OpenLots \in SUBSET LotIds /\ \A l \in OpenLots : Remaining[l] \in 1..Target
      BY RobinhoodAssumption DEF IInv, TypeOK, OpenLots, Taken, Remaining, Lot
    <3>2. PICK s, r : s = OpenLots /\ r = Remaining
      OBVIOUS
    <3>3. UnitsIn(s, r) = 0 <=> s = {}
      BY <3>1, <3>2, NoUnits
    <3>4. position.remaining \in Nat
      BY DEF IInv, TypeOK, Position
    <3>. QED  BY <2>1, <3>2, <3>3, <3>4 DEF RowIsCovered
  <2>. QED  BY <2>1, <2>2 DEF PositionLots
<1>. QED  BY <1>1, SpecCovers, SpecIInv, PTL

-----------------------------------------------------------------------------
(* What the ledger has realised under the ids of a lot's lineage.          *)
Lineage(l)  == {lots[l].evidence} \cup {<<l, n>> : n \in 1..Target}
Realised(l) == {u \in (Ledger!Keys \X (1..Units)) :
                  /\ u[1][2] \in Lineage(l)
                  /\ u[2] <= settlements[u[1]].fraction}

(* Nothing is realised before the link; afterwards at most what was taken  *)
(* off the account, and the account is never behind the lot.               *)
SlicesAreBooked ==
  /\ \A r \in Releases, e \in Evidences :
       settlements[<<r, e>>].fraction > 0 => \E l \in Linked : lots[l].evidence = e
  /\ \A r \in Releases, l \in LotIds, n \in 1..Target :
       settlements[<<r, <<l, n>>>>].fraction > 0 => l \in Linked
  /\ \A l \in Linked : /\ lots[l].remaining <= lots[l].accounted
                       /\ Cardinality(Realised(l)) <= lots[l].entry - lots[l].accounted

(* Realised units can be counted.                                          *)
LEMMA RealisedIsFinite == \A l : IsFiniteSet(Realised(l)) /\ Cardinality(Realised(l)) \in Nat
<1>. USE RobinhoodAssumption
<1>1. IsFiniteSet(Ledger!Keys)
  <2>1. IsFiniteSet(Releases) /\ IsFiniteSet(LotIds) /\ IsFiniteSet(1..Target)
    BY FS_Interval DEF Releases, LotIds
  <2>2. IsFiniteSet(Residuals)
    BY <2>1, FS_Product DEF Residuals
  <2>3. IsFiniteSet(Ledger!AllIds)
    BY <2>2, FS_Union DEF Ledger!AllIds
  <2>. QED  BY <2>1, <2>3, FS_Product DEF Ledger!Keys
<1>2. PICK keys, units : keys = Ledger!Keys /\ units = 1..Units
  OBVIOUS
<1>3. IsFiniteSet(keys \X units)
  <2>1. IsFiniteSet(units)
    BY <1>2, IntervalUnits
  <2>. QED  BY <1>1, <1>2, <2>1, FS_Product
<1>4. \A l : Realised(l) \in SUBSET (keys \X units)
  BY <1>2 DEF Realised
<1>. QED  BY <1>3, <1>4, FS_Subset, FS_CardinalityType

(* Steps of the lots alone, or of the ledger for other ids.                *)
LEMMA BooksStay ==
  ASSUME IInv, SlicesAreBooked,
         \A k \in Ledger!Keys : k[2] \notin Others => settlements'[k] = settlements[k],
         Linked' = Linked,
         \A l \in Linked : /\ lots'[l].evidence = lots[l].evidence
                           /\ lots'[l].entry = lots[l].entry
                           /\ lots'[l].accounted = lots[l].accounted
                           /\ lots'[l].remaining \in 0..lots[l].remaining
  PROVE  SlicesAreBooked'
<1>. USE RobinhoodAssumption
<1>1. \A r \in Releases, e \in Evidences : settlements'[<<r, e>>] = settlements[<<r, e>>]
  BY DEF Ledger!Keys, Ledger!AllIds
<1>2. \A r \in Releases, l \in LotIds, n \in 1..Target :
        settlements'[<<r, <<l, n>>>>] = settlements[<<r, <<l, n>>>>]
  BY DEF Ledger!Keys, Ledger!AllIds, Residuals
<1>3. ASSUME NEW l \in Linked
      PROVE  /\ lots'[l].remaining <= lots'[l].accounted
             /\ Cardinality(Realised(l))' <= lots'[l].entry - lots'[l].accounted
  <2>1. l \in Taken /\ l \in LotIds /\ lots[l].evidence \in Evidences
    BY DEF Linked, Taken, IInv, LineagesAreOwn
  <2>2. Lineage(l)' = Lineage(l) /\ Lineage(l) \cap Others = {}
    <3>1. {<<l, n>> : n \in 1..Target} \subseteq Residuals
      BY <2>1 DEF Residuals
    <3>. QED  BY <2>1, <3>1 DEF Lineage
  <2>3. Realised(l)' = Realised(l)
    BY <2>2 DEF Realised
  <2>4. lots[l] \in Lot
    BY <2>1 DEF IInv, TypeOK
  <2>5. lots[l].remaining \in 0..Target /\ lots[l].accounted \in 0..Target
    BY <2>4 DEF Lot
  <2>. QED  BY <2>3, <2>5 DEF SlicesAreBooked
<1>4. \A r \in Releases, e \in Evidences :
        settlements'[<<r, e>>].fraction > 0 => \E l \in Linked' : lots'[l].evidence = e
  BY <1>1 DEF SlicesAreBooked
<1>5. \A r \in Releases, l \in LotIds, n \in 1..Target :
        settlements'[<<r, <<l, n>>>>].fraction > 0 => l \in Linked'
  BY <1>2 DEF SlicesAreBooked
<1>. QED  BY <1>3, <1>4, <1>5 DEF SlicesAreBooked

(* At its link nothing of a lot has been realised.                         *)
LEMMA LinkBooks ==
  ASSUME IInv, SlicesAreBooked, NEW e \in Evidences, NEW l \in LotIds, LinkLot(e, l)
  PROVE  SlicesAreBooked'
<1>. USE RobinhoodAssumption
<1>1. /\ lots' = [lots EXCEPT ![l] = WithLink(lots[l])] /\ UNCHANGED settlements
      /\ l \in Taken /\ lots[l].link = Nothing /\ lots[l].evidence = e
  BY DEF LinkLot, Found, LotsOf, ledger
<1>2. lots \in [LotIds -> Lot]
  BY DEF IInv, TypeOK
<1>3. lots[l].entry \in 0..Target /\ lots[l].remaining \in 0..lots[l].entry
  BY <1>1, <1>2 DEF Lot, IInv, LineagesAreOwn
<1>4. /\ lots'[l].evidence = e /\ lots'[l].entry = lots[l].entry
      /\ lots'[l].remaining = lots[l].remaining /\ lots'[l].accounted = lots[l].remaining
      /\ lots'[l].link = e
      /\ \A k \in LotIds : k # l => lots'[k] = lots[k]
  BY <1>1, <1>2 DEF WithLink
<1>5. Linked' = Linked \cup {l} /\ l \notin Linked
  BY <1>1, <1>4 DEF Linked, Taken
<1>6. \A r \in Releases : settlements[<<r, e>>].fraction \in 0..0
  <2>. SUFFICES ASSUME NEW r \in Releases PROVE settlements[<<r, e>>].fraction = 0
    OBVIOUS
  <2>1. <<r, e>> \in Ledger!Keys
    BY DEF Ledger!Keys, Ledger!AllIds
  <2>2. settlements[<<r, e>>].fraction \in 0..Units
    BY <2>1 DEF IInv, TypeOK, Ledger!TypeOK, Ledger!Settlement
  <2>3. ~ (settlements[<<r, e>>].fraction > 0)
    BY <1>1, <1>5 DEF SlicesAreBooked, IInv, EvidenceIsUsedOnce, Linked
  <2>. QED  BY <2>2, <2>3
<1>7. \A r \in Releases, n \in 1..Target : settlements[<<r, <<l, n>>>>].fraction \in 0..0
  <2>. SUFFICES ASSUME NEW r \in Releases, NEW n \in 1..Target
                PROVE  settlements[<<r, <<l, n>>>>].fraction = 0
    OBVIOUS
  <2>1. <<r, <<l, n>>>> \in Ledger!Keys
    BY DEF Ledger!Keys, Ledger!AllIds, Residuals
  <2>2. settlements[<<r, <<l, n>>>>].fraction \in 0..Units
    BY <2>1 DEF IInv, TypeOK, Ledger!TypeOK, Ledger!Settlement
  <2>. QED  BY <1>5, <2>2 DEF SlicesAreBooked
<1>8. Cardinality(Realised(l))' = 0
  <2>1. Realised(l)' = {}
    <3>. SUFFICES ASSUME NEW u \in Ledger!Keys \X (1..Units), u[1][2] \in Lineage(l)',
                         u[2] <= settlements[u[1]].fraction
                  PROVE  FALSE
      BY <1>1 DEF Realised
    <3>1. u[1] = <<u[1][1], u[1][2]>> /\ u[1][1] \in Releases /\ u[2] \in 1..Units
      BY DEF Ledger!Keys
    <3>2. u[1][2] = e \/ \E n \in 1..Target : u[1][2] = <<l, n>>
      BY <1>4 DEF Lineage
    <3>. QED  BY <1>6, <1>7, <3>1, <3>2
  <2>. QED  BY <2>1, FS_EmptySet
<1>9. ASSUME NEW k \in Linked
      PROVE  /\ lots'[k].remaining <= lots'[k].accounted
             /\ Cardinality(Realised(k))' <= lots'[k].entry - lots'[k].accounted
  <2>1. lots'[k] = lots[k]
    BY <1>4, <1>5 DEF Linked, Taken
  <2>2. Realised(k)' = Realised(k)
    BY <1>1, <2>1 DEF Realised, Lineage
  <2>. QED  BY <2>1, <2>2 DEF SlicesAreBooked
<1>10. \A r \in Releases, d \in Evidences :
         settlements'[<<r, d>>].fraction > 0 => \E k \in Linked' : lots'[k].evidence = d
  <2>1. \A k \in Linked : lots'[k].evidence = lots[k].evidence
    BY <1>1, <1>4 DEF Linked, Taken
  <2>. QED  BY <1>1, <1>5, <2>1 DEF SlicesAreBooked
<1>11. \A r \in Releases, k \in LotIds, n \in 1..Target :
         settlements'[<<r, <<k, n>>>>].fraction > 0 => k \in Linked'
  BY <1>1, <1>5 DEF SlicesAreBooked
<1>12. \A k \in Linked' : /\ lots'[k].remaining <= lots'[k].accounted
                          /\ Cardinality(Realised(k))' <= lots'[k].entry - lots'[k].accounted
  BY <1>3, <1>4, <1>5, <1>8, <1>9
<1>. QED  BY <1>10, <1>11, <1>12 DEF SlicesAreBooked
(* A slice realises what it takes off the account.                         *)
LEMMA SliceBooks ==
  ASSUME IInv, SlicesAreBooked, NEW l \in LotIds, SyncLot(l), InLine(l)
  PROVE  SlicesAreBooked'
<1>. USE RobinhoodAssumption
<1>1. PICK i, residual, rest, acc :
        /\ i = lots[l].link /\ residual = <<l, lots[l].slices + 1>>
        /\ rest = lots[l].remaining /\ acc = lots[l].accounted
  OBVIOUS
<1>2. /\ Ledger!SettleSlice(i, residual, rest, 0)
      /\ lots' = [lots EXCEPT ![l] = Settled(lots[l], residual)]
  BY <1>1 DEF SyncLot
<1>3. PICK r \in Releases :
        /\ Ledger!ActiveRows(i) = {r} /\ rest < reservations[<<r, i>>].reserved
        /\ settlements' = [settlements EXCEPT ![<<r, i>>] =
                             [fraction |-> reservations[<<r, i>>].reserved - rest, net |-> 0]]
  BY <1>2 DEF Ledger!SettleSlice, Ledger!Settleable
<1>4. reservations[<<r, i>>].reserved = acc /\ rest < acc
  BY <1>1, <1>3 DEF InLine
<1>5. /\ lots \in [LotIds -> Lot] /\ settlements \in [Ledger!Keys -> Ledger!Settlement]
      /\ rest \in 0..Target /\ acc \in 0..Target /\ lots[l].slices \in 0..Target
      /\ lots[l].entry \in 0..Target
  BY <1>1 DEF IInv, TypeOK, Ledger!TypeOK, Lot
<1>6. l \in Taken /\ i # Nothing /\ lots[l].slices + 1 \in 1..Target
  BY <1>1, <1>4, <1>5 DEF IInv, AccountsAreBounded, Taken
<1>7. /\ i \in Ledger!AllIds /\ lots[l].evidence \in Evidences
      /\ i = lots[l].evidence \/ i \in {l} \X (1..Target)
  <2>1. i = Backing(l)
    BY <1>1, <1>6 DEF Backing
  <2>2. 1..lots[l].slices \subseteq 1..Target
    BY <1>5
  <2>. QED  BY <1>6, <2>1, <2>2, BackingIsOwn
<1>8. <<r, i>> \in Ledger!Keys
  BY <1>7 DEF Ledger!Keys
<1>9. /\ settlements'[<<r, i>>].fraction = acc - rest
      /\ \A k \in Ledger!Keys : k # <<r, i>> => settlements'[k] = settlements[k]
  BY <1>3, <1>4, <1>5, <1>8
<1>10. /\ lots'[l] = Settled(lots[l], residual)
       /\ \A k \in LotIds : k # l => lots'[k] = lots[k]
  BY <1>2, <1>5
<1>11. /\ lots'[l].evidence = lots[l].evidence /\ lots'[l].entry = lots[l].entry
       /\ lots'[l].remaining = rest /\ lots'[l].accounted = rest
       /\ lots'[l].link # Nothing
  <2>1. residual # Nothing
    BY <1>1, <1>6 DEF Residuals
  <2>. QED  BY <1>1, <1>6, <1>10, <2>1 DEF Settled
<1>12. Linked' = Linked /\ l \in Linked
  BY <1>1, <1>6, <1>10, <1>11 DEF Linked, Taken
<1>13. \A k \in LotIds : lots'[k].evidence = lots[k].evidence
  BY <1>10, <1>11
<1>14. \A q \in Releases, e \in Evidences :
         settlements'[<<q, e>>].fraction > 0 => \E k \in Linked' : lots'[k].evidence = e
  <2>. SUFFICES ASSUME NEW q \in Releases, NEW e \in Evidences,
                       settlements'[<<q, e>>].fraction > 0
                PROVE  \E k \in Linked' : lots'[k].evidence = e
    OBVIOUS
  <2>1. CASE e = i
    <3>1. i \notin {l} \X (1..Target)
      BY <2>1 DEF Residuals
    <3>. QED  BY <1>7, <1>12, <1>13, <2>1, <3>1
  <2>2. CASE e # i
    <3>1. settlements'[<<q, e>>] = settlements[<<q, e>>]
      BY <1>9, <2>2 DEF Ledger!Keys, Ledger!AllIds
    <3>2. PICK k \in Linked : lots[k].evidence = e
      BY <3>1 DEF SlicesAreBooked
    <3>. QED  BY <1>12, <1>13, <3>2 DEF Linked, Taken
  <2>. QED  BY <2>1, <2>2
<1>15. \A q \in Releases, k \in LotIds, n \in 1..Target :
         settlements'[<<q, <<k, n>>>>].fraction > 0 => k \in Linked'
  <2>. SUFFICES ASSUME NEW q \in Releases, NEW k \in LotIds, NEW n \in 1..Target,
                       settlements'[<<q, <<k, n>>>>].fraction > 0
                PROVE  k \in Linked'
    OBVIOUS
  <2>1. CASE <<k, n>> = i
    <3>1. i # lots[l].evidence
      BY <1>7, <2>1 DEF Residuals
    <3>. QED  BY <1>7, <1>12, <2>1, <3>1
  <2>2. CASE <<k, n>> # i
    <3>1. settlements'[<<q, <<k, n>>>>] = settlements[<<q, <<k, n>>>>]
      BY <1>9, <2>2 DEF Ledger!Keys, Ledger!AllIds, Residuals
    <3>. QED  BY <1>12, <3>1 DEF SlicesAreBooked
  <2>. QED  BY <2>1, <2>2
<1>16. ASSUME NEW k \in Linked, k # l
       PROVE  /\ lots'[k].remaining <= lots'[k].accounted
              /\ Cardinality(Realised(k))' <= lots'[k].entry - lots'[k].accounted
  <2>1. k \in LotIds /\ k \in Taken
    BY DEF Linked, Taken
  <2>2. lots'[k] = lots[k] /\ Lineage(k)' = Lineage(k)
    BY <1>10, <1>16, <2>1 DEF Lineage
  <2>3. i \notin Lineage(k)
    <3>1. lots[k].evidence # lots[l].evidence /\ lots[k].evidence \in Evidences
      BY <1>6, <1>16, <2>1 DEF IInv, EvidenceIsUsedOnce, LineagesAreOwn
    <3>2. {l} \X (1..Target) \subseteq Residuals /\ {k} \X (1..Target) \subseteq Residuals
      BY <2>1 DEF Residuals
    <3>3. Lineage(k) = {lots[k].evidence} \cup ({k} \X (1..Target))
      BY DEF Lineage
    <3>. QED  BY <1>7, <1>16, <3>1, <3>2, <3>3
  <2>4. \A u \in Ledger!Keys \X (1..Units) :
          u[1][2] \in Lineage(k) => settlements'[u[1]] = settlements[u[1]]
    <3>. SUFFICES ASSUME NEW u \in Ledger!Keys \X (1..Units), u[1][2] \in Lineage(k)
                  PROVE  settlements'[u[1]] = settlements[u[1]]
      OBVIOUS
    <3>1. u[1] \in Ledger!Keys /\ u[1] # <<r, i>>
      BY <2>3
    <3>. QED  BY <1>9, <3>1
  <2>5. Realised(k)' = Realised(k)
    BY <2>2, <2>4 DEF Realised
  <2>. QED  BY <2>2, <2>5 DEF SlicesAreBooked
<1>17. Cardinality(Realised(l))' <= lots[l].entry - rest
  <2>1. PICK old, new, slice :
          old = Realised(l) /\ new = Realised(l)' /\ slice = {<<r, i>>} \X (1..(acc - rest))
    OBVIOUS
  <2>2. IsFiniteSet(old) /\ Cardinality(old) \in Nat /\ Cardinality(old) <= lots[l].entry - acc
    BY <1>1, <1>12, <2>1, RealisedIsFinite DEF SlicesAreBooked
  <2>3. IsFiniteSet(slice) /\ Cardinality(slice) = acc - rest
    <3>0. PICK one : one = {<<r, i>>}
      OBVIOUS
    <3>1. PICK n \in Nat : n = acc - rest
      BY <1>4, <1>5
    <3>2. IsFiniteSet(one) /\ Cardinality(one) = 1
      BY <3>0, FS_Singleton
    <3>3. IsFiniteSet(1..n) /\ Cardinality(1..n) = n
      BY IntervalUnits
    <3>4. IsFiniteSet(one \X (1..n)) /\ Cardinality(one \X (1..n)) = 1 * n
      BY <3>2, <3>3, FS_Product
    <3>. QED  BY <2>1, <3>0, <3>1, <3>4
  <2>4. new \subseteq old \cup slice
    <3>1. Lineage(l)' = Lineage(l)
      BY <1>11 DEF Lineage
    <3>. SUFFICES ASSUME NEW u \in Ledger!Keys \X (1..Units), u[1][2] \in Lineage(l),
                         u[2] <= settlements'[u[1]].fraction
                  PROVE  u \in old \cup slice
      BY <2>1, <3>1 DEF Realised
    <3>2. CASE u[1] = <<r, i>>
      <4>1. u[2] \in 1..(acc - rest)
        BY <1>5, <1>9, <3>2
      <4>2. u = <<u[1], u[2]>>
        OBVIOUS
      <4>. QED  BY <2>1, <3>2, <4>1, <4>2
    <3>3. CASE u[1] # <<r, i>>
      BY <1>9, <2>1, <3>3 DEF Realised
    <3>. QED  BY <3>2, <3>3
  <2>5. /\ IsFiniteSet(old \cup slice)
        /\ Cardinality(new) <= Cardinality(old \cup slice)
        /\ Cardinality(old \cup slice)
              = Cardinality(old) + Cardinality(slice) - Cardinality(old \cap slice)
    BY <2>2, <2>3, <2>4, FS_Union, FS_Subset
  <2>6. Cardinality(old \cap slice) \in Nat /\ Cardinality(new) \in Nat
    <3>1. IsFiniteSet(old \cap slice) /\ IsFiniteSet(new)
      BY <2>2, <2>4, <2>5, FS_Intersection, FS_Subset
    <3>. QED  BY <3>1, FS_CardinalityType
  <2>. QED  BY <1>5, <2>1, <2>2, <2>3, <2>5, <2>6
<1>18. \A k \in Linked' : /\ lots'[k].remaining <= lots'[k].accounted
                          /\ Cardinality(Realised(k))' <= lots'[k].entry - lots'[k].accounted
  BY <1>5, <1>11, <1>12, <1>16, <1>17
<1>. QED  BY <1>14, <1>15, <1>18 DEF SlicesAreBooked
LEMMA BooksNext == IInv /\ SlicesAreBooked /\ [Next]_vars => SlicesAreBooked'
<1>. SUFFICES ASSUME IInv, SlicesAreBooked, [Next]_vars PROVE SlicesAreBooked'
  OBVIOUS
<1>. USE RobinhoodAssumption
<1>0. lots \in [LotIds -> Lot]
  BY DEF IInv, TypeOK
<1>1. ASSUME UNCHANGED lots,
             \A k \in Ledger!Keys : k[2] \notin Others => settlements'[k] = settlements[k]
      PROVE  SlicesAreBooked'
  <2>1. Linked' = Linked
    BY <1>1 DEF Linked, Taken
  <2>2. \A l \in Linked : lots[l].remaining \in 0..lots[l].remaining
    BY <1>0 DEF Linked, Taken, Lot
  <2>. QED  BY <1>1, <2>1, <2>2, BooksStay
<1>2. CASE \E e \in Evidences, f \in 1..Target : AskCapital(e, f)
  BY <1>1, <1>2 DEF AskCapital, Ledger!Reserve, ledger
<1>3. CASE DropEntry
  BY <1>1, <1>3 DEF DropEntry, Ledger!Cancel
<1>4. ASSUME NEW l \in LotIds, CommitLot(l) PROVE SlicesAreBooked'
  <2>0. PICK next : next = IF position.status \in Open
                           THEN Scaled(entry.evidence, entry.fraction)
                           ELSE Entered(entry.evidence, entry.fraction)
    OBVIOUS
  <2>1. PICK lot : /\ lots' = [lots EXCEPT ![l] = lot] /\ lot.link = Nothing
                   /\ l \notin Taken /\ UNCHANGED settlements
    <3>1. PICK lot : lot = NewLot(entry.evidence, entry.fraction, next.generation)
      OBVIOUS
    <3>2. lots' = [lots EXCEPT ![l] = lot] /\ l \notin Taken /\ UNCHANGED settlements
      BY <1>4, <2>0, <3>1 DEF CommitLot, ledger
    <3>3. lot.link = Nothing
      BY <3>1 DEF NewLot
    <3>. QED  BY <3>2, <3>3
  <2>2. lots'[l] = lot /\ \A k \in LotIds : k # l => lots'[k] = lots[k]
    BY <1>0, <2>1
  <2>3. Linked' = Linked
    BY <2>1, <2>2 DEF Linked, Taken
  <2>4. \A k \in Linked : lots'[k] = lots[k] /\ lots[k].remaining \in 0..lots[k].remaining
    BY <1>0, <2>1, <2>2 DEF Linked, Taken, Lot
  <2>. QED  BY <2>1, <2>3, <2>4, BooksStay
<1>5. CASE FinishEntry
  <2>1. CASE \E l \in LotIds : LinkLot(entry.evidence, l)
    <3>1. PICK l \in LotIds : LinkLot(entry.evidence, l)
      BY <2>1
    <3>2. PICK e : e = entry.evidence
      OBVIOUS
    <3>3. LinkLot(e, l)
      BY <3>1, <3>2
    <3>4. e \in Evidences
      BY <3>3 DEF LinkLot, Found, LotsOf, IInv, LineagesAreOwn
    <3>. QED  BY <3>3, <3>4, LinkBooks
  <2>2. CASE UNCHANGED <<ledger, lots, position, exit, release, losses, overtaken>>
    BY <1>1, <2>2 DEF ledger
  <2>. QED  BY <1>5, <2>1, <2>2 DEF FinishEntry
<1>6. CASE \E e \in Evidences : Recover(e)
  BY <1>6, LinkBooks DEF Recover
<1>7. CASE Exits
  <2>1. PICK sell \in Nat, status \in {"closed", "de_risking", "runner"}, stage \in 0..2 :
          ApplyExit(sell, status, stage)
    BY <1>7, ExitsApply
  <2>2. UNCHANGED settlements
    BY <2>1 DEF ApplyExit, ledger
  <2>3. CASE ~ Sellable(sell)
    BY <1>1, <2>1, <2>2, <2>3 DEF ApplyExit
  <2>4. CASE Sellable(sell)
    <3>1. \A l \in LotIds : /\ lots'[l].evidence = lots[l].evidence
                            /\ lots'[l].entry = lots[l].entry
                            /\ lots'[l].link = lots[l].link
                            /\ lots'[l].accounted = lots[l].accounted
                            /\ lots'[l].remaining <= lots[l].remaining
      BY <2>1, <2>4, ApplyExitCuts
    <3>2. lots' \in [LotIds -> Lot]
      BY <2>1, <2>4, ApplyExitCuts
    <3>3. \A l \in LotIds : lots'[l].remaining \in 0..lots[l].remaining
      BY <1>0, <3>1, <3>2 DEF Lot
    <3>4. Linked' = Linked
      BY <3>1 DEF Linked, Taken
    <3>. QED  BY <2>2, <3>1, <3>3, <3>4, BooksStay DEF Linked, Taken
  <2>. QED  BY <2>3, <2>4
<1>8. CASE StartExit \/ DropExit \/ KeepRunner
  BY <1>1, <1>8 DEF StartExit, DropExit, KeepRunner, ledger
<1>11. ASSUME NEW l \in LotIds, SyncLot(l) PROVE SlicesAreBooked'
  <2>1. CASE ~ InLine(l)
    BY <1>1, <1>11, <2>1 DEF SyncLot, ledger
  <2>. QED  BY <1>11, <2>1, SliceBooks
<1>12. CASE \E o \in Others, f \in OtherSizes : OtherReserves(o, f)
  BY <1>1, <1>12 DEF OtherReserves, Ledger!Reserve
<1>13. ASSUME NEW o \in Others, OtherSettles(o) PROVE SlicesAreBooked'
  <2>1. PICK r \in Releases :
          \E row : settlements' = [settlements EXCEPT ![<<r, o>>] = row]
    BY <1>13 DEF OtherSettles, Ledger!Settle
  <2>2. \A k \in Ledger!Keys : k[2] \notin Others => settlements'[k] = settlements[k]
    <3>. SUFFICES ASSUME NEW k \in Ledger!Keys, k[2] \notin Others
                  PROVE  settlements'[k] = settlements[k]
      OBVIOUS
    <3>1. k # <<r, o>>
      OBVIOUS
    <3>. QED  BY <2>1, <3>1 DEF IInv, TypeOK, Ledger!TypeOK
  <2>. QED  BY <1>1, <1>13, <2>2 DEF OtherSettles
<1>14. CASE (\E next \in Releases : Lose(next)) \/ UNCHANGED vars
  BY <1>1, <1>14 DEF Lose, vars, ledger
<1>. QED
  BY <1>2, <1>3, <1>4, <1>5, <1>6, <1>7, <1>8, <1>11, <1>12, <1>13, <1>14 DEF Next, Exits

(* However an exit and its slices interleave with entries, links, losses   *)
(* and other users of the ledger, it realises of a lot no more than exits  *)
(* sold of it.                                                             *)
THEOREM OnlySoldIsRealised == Spec => []RealisedWasSold
<1>1. Init => SlicesAreBooked
  <2>. SUFFICES ASSUME Init PROVE SlicesAreBooked
    OBVIOUS
  <2>1. Linked = {}
    BY DEF Init, NoLot, Linked, Taken
  <2>2. \A k \in Ledger!Keys : ~ (settlements[k].fraction > 0)
    BY DEF Init, Ledger!Init, Ledger!NoSettlement
  <2>3. \A r \in Releases, e \in Evidences : <<r, e>> \in Ledger!Keys
    BY DEF Ledger!Keys, Ledger!AllIds
  <2>4. \A r \in Releases, l \in LotIds, n \in 1..Target : <<r, <<l, n>>>> \in Ledger!Keys
    BY DEF Ledger!Keys, Ledger!AllIds, Residuals
  <2>. QED  BY <2>1, <2>2, <2>3, <2>4 DEF SlicesAreBooked
<1>2. IInv /\ SlicesAreBooked => RealisedWasSold
  <2>. SUFFICES ASSUME IInv, SlicesAreBooked, NEW l \in Linked
                PROVE  Cardinality(Realised(l)) <= lots[l].entry - lots[l].remaining
    BY DEF RealisedWasSold, Realised, Lineage
  <2>1. lots[l] \in Lot
    BY DEF IInv, TypeOK, Linked, Taken
  <2>2. /\ lots[l].entry \in 0..Target /\ lots[l].remaining \in 0..Target
        /\ lots[l].accounted \in 0..Target
    BY <2>1 DEF Lot
  <2>. QED  BY <2>2, RobinhoodAssumption, RealisedIsFinite DEF SlicesAreBooked
<1>. QED  BY <1>1, <1>2, SpecIInv, BooksNext, PTL DEF Spec

-----------------------------------------------------------------------------
(* What holds until the process is first lost: each active reservation of  *)
(* this token is exactly a lot's account or the entry under way.           *)
Accounted         == {l \in Linked : lots[l].accounted > 0}
Entering          == entry.pc # "idle"
HoldsExactly(i, f) == reservations[<<1, i>>] = [status |-> "active", reserved |-> f]

ActiveIsExplained ==
  \A r \in Releases, i \in Evidences \cup Residuals :
    reservations[<<r, i>>].status = "active" =>
      /\ r = 1
      /\ \/ \E l \in Accounted : lots[l].link = i
         \/ Entering /\ entry.evidence = i

AccountsAreHeld == \A l \in Accounted : HoldsExactly(lots[l].link, lots[l].accounted)

EntryIsHeld ==
  Entering => /\ entry.evidence \in Evidences /\ entry.fraction > 0
              /\ HoldsExactly(entry.evidence, entry.fraction)

OnlyEntryIsUnlinked ==
  /\ \A l \in Taken \ Linked : /\ entry.pc = "linking"
                               /\ lots[l].evidence = entry.evidence
                               /\ lots[l].remaining = entry.fraction
  /\ entry.pc = "linking" => \E l \in Taken \ Linked : TRUE

QueueIsOutOfSync ==
  /\ \A l \in Linked : /\ lots[l].remaining <= lots[l].accounted
                       /\ lots[l].remaining < lots[l].accounted
                            <=> exit.pc = "syncing" /\ l \in exit.queue
  /\ exit.pc = "syncing" => exit.queue \subseteq Linked

Orderly ==
  /\ release = 1
  /\ ActiveIsExplained
  /\ AccountsAreHeld
  /\ EntryIsHeld
  /\ OnlyEntryIsUnlinked
  /\ QueueIsOutOfSync
  /\ ExitRuns => ~EntryRuns

LEMMA ReleaseOne == 1 \in Releases
BY RobinhoodAssumption DEF Releases

(* Such a reservation is the only active one of its id.                    *)
LEMMA ExactIsActive ==
  ASSUME Orderly, NEW i \in Evidences \cup Residuals, NEW f, HoldsExactly(i, f)
  PROVE  Ledger!ActiveRows(i) = {1}
BY ReleaseOne DEF Orderly, ActiveIsExplained, HoldsExactly, Ledger!ActiveRows

(* It stays while its rows do.                                             *)
LEMMA ExactKept ==
  ASSUME NEW ids, Kept(ids), NEW i \in Ledger!AllIds \ ids, NEW f, HoldsExactly(i, f)
  PROVE  HoldsExactly(i, f)'
BY ReleaseOne DEF Kept, HoldsExactly

(* A linked lot's reservation is of its own evidence or residual.          *)
LEMMA LinkIsOwn ==
  ASSUME IInv, NEW l \in Linked
  PROVE  /\ lots[l].link \in Evidences \cup Residuals /\ lots[l].link \in Ledger!AllIds
         /\ lots[l].link = Backing(l)
         /\ l \in LotIds /\ l \in Taken
<1>1. l \in Taken /\ lots[l].link = Backing(l) /\ l \in LotIds
  BY DEF Linked, Backing, Taken
<1>. QED  BY <1>1, BackingIsOwn

(* Steps that leave the lots, the entry, and what an exit has to slice.    *)
LEMMA OthersKeepOrder ==
  ASSUME IInv, Orderly, Kept(Others), UNCHANGED <<lots, entry, release>>,
         \/ exit' = exit
         \/ exit.pc # "syncing" /\ exit'.pc # "syncing"
  PROVE  Orderly'
<1>. USE RobinhoodAssumption
<1>1. /\ Linked' = Linked /\ Taken' = Taken /\ Accounted' = Accounted /\ Entering' = Entering
  BY DEF Linked, Taken, Accounted, Entering
<1>2. \A r \in Releases, i \in Evidences \cup Residuals :
        reservations'[<<r, i>>] = reservations[<<r, i>>]
  BY DEF Kept, Ledger!AllIds
<1>3. ActiveIsExplained'
  BY <1>1, <1>2 DEF Orderly, ActiveIsExplained
<1>4. AccountsAreHeld'
  BY <1>1, <1>2, ReleaseOne, LinkIsOwn DEF Orderly, AccountsAreHeld, HoldsExactly, Accounted
<1>5. EntryIsHeld'
  BY <1>1, <1>2, ReleaseOne DEF Orderly, EntryIsHeld, HoldsExactly
<1>6. OnlyEntryIsUnlinked' /\ QueueIsOutOfSync' /\ (ExitRuns => ~EntryRuns)'
  BY <1>1 DEF Orderly, OnlyEntryIsUnlinked, QueueIsOutOfSync, ExitRuns, EntryRuns
<1>. QED  BY <1>3, <1>4, <1>5, <1>6 DEF Orderly

(* Capital asked for is the entry's, and was nobody's before.              *)
LEMMA AskCapitalOrder ==
  ASSUME IInv, Orderly, NEW e \in Evidences, NEW f \in 1..Target, AskCapital(e, f)
  PROVE  Orderly'
<1>. USE RobinhoodAssumption
<1>. DEFINE pc == IF Valid(f) THEN "quoting" ELSE "refused"
<1>20. PICK asked : asked = Asking(pc, e, f, Stage)
  OBVIOUS
<1>21. asked.pc \in {"quoting", "refused"} /\ asked.evidence = e /\ asked.fraction = f
  <2>1. Stage \in {"starter", "scale"} /\ pc \in {"quoting", "refused"}
    BY DEF Stage
  <2>. QED  BY <1>20, <2>1, TasksAreStates
<1>0. /\ entry = NoEntry /\ ~ Entering /\ LotsOf(e) = {} /\ release = 1 /\ ~ExitRuns
      /\ UNCHANGED <<lots, exit, release>> /\ entry' \in {NoEntry, asked}
  BY <1>20 DEF AskCapital, Known, NoEntry, Entering, Orderly
<1>1. /\ Linked' = Linked /\ Taken' = Taken /\ Accounted' = Accounted
      /\ entry.pc = "idle"
  BY <1>0 DEF Linked, Taken, Accounted, NoEntry
<1>2. OnlyEntryIsUnlinked' /\ QueueIsOutOfSync' /\ (ExitRuns => ~EntryRuns)'
  <2>1. entry'.pc # "linking"
    BY <1>0, <1>21 DEF NoEntry
  <2>. QED  BY <1>0, <1>1, <2>1 DEF Orderly, OnlyEntryIsUnlinked, QueueIsOutOfSync, ExitRuns
<1>3. \A l \in Linked : lots[l].link # e
  <2>. SUFFICES ASSUME NEW l \in Linked, lots[l].link = e PROVE FALSE
    OBVIOUS
  <2>1. lots[l].evidence = e
    BY LinkIsOwn, BackingIsOwn DEF Residuals
  <2>. QED  BY <1>0, <2>1, LinkIsOwn DEF LotsOf
<1>4. ~ \E g : Holds(e, g)
  <2>. SUFFICES ASSUME NEW r \in Releases, reservations[<<r, e>>].status = "active" PROVE FALSE
    BY DEF Holds, Ledger!ActiveRows
  <2>. QED  BY <1>0, <1>3 DEF Orderly, ActiveIsExplained, Accounted
<1>5. CASE UNCHANGED ledger /\ entry' = NoEntry
  <2>1. Kept(Others)
    BY <1>5 DEF Kept, ledger
  <2>. QED  BY <1>0, <1>5, <2>1, OthersKeepOrder
<1>6. CASE /\ Ledger!Reserve(release, e, Whole(f))
           /\ entry' = IF Ledger!Granted(Whole(f)) > 0 THEN asked ELSE NoEntry
  <2>. DEFINE granted == Ledger!Granted(Whole(f))
              row     == Ledger!NewRow(granted)
  <2>1. reservations' = [reservations EXCEPT ![<<1, e>>] = row]
    BY <1>0, <1>6 DEF Ledger!Reserve
  <2>2. granted \in {0, f}
    BY DEF Ledger!Granted, Whole
  <2>3. row = IF granted > 0 THEN [status |-> "active", reserved |-> f]
              ELSE [status |-> "rejected", reserved |-> 0]
    BY <2>2 DEF Ledger!NewRow
  <2>. HIDE DEF row
  <2>4. reservations \in [Ledger!Keys -> Ledger!Row] /\ <<1, e>> \in Ledger!Keys
    BY ReleaseOne DEF IInv, TypeOK, Ledger!TypeOK, Ledger!Keys, Ledger!AllIds
  <2>5. /\ reservations'[<<1, e>>] = row
        /\ \A k \in Ledger!Keys : k # <<1, e>> => reservations'[k] = reservations[k]
    BY <2>1, <2>4
  <2>6. entry' = IF granted > 0 THEN asked ELSE NoEntry
    BY <1>6
  <2>. HIDE DEF granted
  <2>7. ActiveIsExplained'
    <3>. SUFFICES ASSUME NEW r \in Releases, NEW i \in Evidences \cup Residuals,
                         reservations'[<<r, i>>].status = "active"
                  PROVE  /\ r = 1
                         /\ \/ \E l \in Accounted : lots[l].link = i
                            \/ Entering' /\ entry'.evidence = i
      BY <1>0, <1>1 DEF ActiveIsExplained
    <3>1. CASE <<r, i>> = <<1, e>>
      BY <1>21, <2>3, <2>5, <2>6, <3>1 DEF Entering
    <3>2. CASE <<r, i>> # <<1, e>>
      <4>1. reservations[<<r, i>>].status = "active"
        BY <2>5, <3>2 DEF Ledger!Keys, Ledger!AllIds
      <4>. QED  BY <1>0, <4>1 DEF Orderly, ActiveIsExplained
    <3>. QED  BY <3>1, <3>2
  <2>8. AccountsAreHeld'
    <3>. SUFFICES ASSUME NEW l \in Accounted
                  PROVE  reservations'[<<1, lots[l].link>>] = reservations[<<1, lots[l].link>>]
      BY <1>0, <1>1 DEF Orderly, AccountsAreHeld, HoldsExactly
    <3>1. lots[l].link # e /\ lots[l].link \in Ledger!AllIds
      BY <1>3, LinkIsOwn DEF Accounted
    <3>. QED  BY <2>5, <3>1, ReleaseOne DEF Ledger!Keys
  <2>9. EntryIsHeld'
    BY <1>21, <2>3, <2>5, <2>6 DEF EntryIsHeld, Entering, NoEntry, HoldsExactly
  <2>. QED  BY <1>0, <1>2, <2>7, <2>8, <2>9 DEF Orderly
<1>. QED  BY <1>4, <1>5, <1>6, <1>20 DEF AskCapital

(* A refused entry gives its reservation back.                             *)
LEMMA DropEntryOrder ==
  ASSUME IInv, Orderly, DropEntry
  PROVE  Orderly'
<1>. USE RobinhoodAssumption
<1>0. PICK e \in Evidences : e = entry.evidence
  BY DEF DropEntry, Orderly, EntryIsHeld, Entering
<1>1. /\ entry.pc \in {"quoting", "refused"} /\ LotsOf(e) = {} /\ Ledger!Cancel(e)
      /\ UNCHANGED <<lots, exit, release>> /\ entry' = NoEntry
  BY <1>0 DEF DropEntry, IInv, QuotesAreFunded
<1>2. PICK r \in Releases :
        /\ Ledger!ActiveRows(e) = {r}
        /\ reservations' = [reservations EXCEPT ![<<r, e>>].status = "cancelled"]
  BY <1>1 DEF Ledger!Cancel
<1>3. r = 1
  BY <1>2 DEF Ledger!ActiveRows, Orderly, ActiveIsExplained
<1>4. reservations \in [Ledger!Keys -> Ledger!Row] /\ <<1, e>> \in Ledger!Keys
  BY ReleaseOne DEF IInv, TypeOK, Ledger!TypeOK, Ledger!Keys, Ledger!AllIds
<1>5. /\ reservations'[<<1, e>>].status = "cancelled"
      /\ \A k \in Ledger!Keys : k # <<1, e>> => reservations'[k] = reservations[k]
  BY <1>2, <1>3, <1>4 DEF Ledger!Row
<1>6. /\ Linked' = Linked /\ Taken' = Taken /\ Accounted' = Accounted
  BY <1>1 DEF Linked, Taken, Accounted
<1>7. OnlyEntryIsUnlinked' /\ QueueIsOutOfSync' /\ EntryIsHeld' /\ (ExitRuns => ~EntryRuns)'
  BY <1>1, <1>6 DEF Orderly, OnlyEntryIsUnlinked, QueueIsOutOfSync, NoEntry, EntryIsHeld, Entering,
     EntryRuns
<1>8. ActiveIsExplained'
  <2>. SUFFICES ASSUME NEW q \in Releases, NEW i \in Evidences \cup Residuals,
                       reservations'[<<q, i>>].status = "active"
                PROVE  q = 1 /\ \E l \in Accounted : lots[l].link = i
    BY <1>1, <1>6 DEF ActiveIsExplained
  <2>1. <<q, i>> # <<1, e>>
    BY <1>5
  <2>2. reservations[<<q, i>>].status = "active"
    BY <1>5, <2>1 DEF Ledger!Keys, Ledger!AllIds
  <2>. QED  BY <1>0, <2>1, <2>2 DEF Orderly, ActiveIsExplained
<1>9. AccountsAreHeld'
  <2>. SUFFICES ASSUME NEW l \in Accounted
                PROVE  reservations'[<<1, lots[l].link>>] = reservations[<<1, lots[l].link>>]
    BY <1>1, <1>6 DEF Orderly, AccountsAreHeld, HoldsExactly
  <2>1. l \in Linked
    BY DEF Accounted
  <2>2. lots[l].link # e
    <3>. SUFFICES ASSUME lots[l].link = e PROVE FALSE
      OBVIOUS
    <3>1. lots[l].evidence = e
      BY <2>1, LinkIsOwn, BackingIsOwn DEF Residuals
    <3>. QED  BY <1>1, <2>1, <3>1, LinkIsOwn DEF LotsOf
  <2>. QED  BY <1>5, <2>1, <2>2, ReleaseOne, LinkIsOwn DEF Ledger!Keys
<1>. QED  BY <1>1, <1>7, <1>8, <1>9 DEF Orderly

(* The committed lot takes the place of the entry.                         *)
LEMMA CommitLotOrder ==
  ASSUME IInv, Orderly, NEW l \in LotIds, CommitLot(l)
  PROVE  Orderly'
<1>. USE RobinhoodAssumption
<1>1. PICK next : next = IF position.status \in Open
                         THEN Scaled(entry.evidence, entry.fraction)
                         ELSE Entered(entry.evidence, entry.fraction)
  OBVIOUS
<1>2. PICK lot : lot = NewLot(entry.evidence, entry.fraction, next.generation)
  OBVIOUS
<1>3. /\ entry.pc = "quoting"
      /\ entry' = Asking("linking", entry.evidence, entry.fraction, entry.stage)
      /\ lots' = [lots EXCEPT ![l] = lot] /\ l \notin Taken
      /\ UNCHANGED <<reservations, exit, release>> /\ ~ExitRuns
  BY <1>1, <1>2 DEF CommitLot, ledger
<1>4. /\ lot.evidence = entry.evidence /\ lot.remaining = entry.fraction
      /\ lot.entry = entry.fraction /\ lot.link = Nothing
  BY <1>2 DEF NewLot
<1>5. /\ lots \in [LotIds -> Lot]
      /\ entry'.pc = "linking" /\ entry'.evidence = entry.evidence
      /\ entry'.fraction = entry.fraction
  BY <1>3 DEF IInv, TypeOK, Asking
<1>6. lots'[l] = lot /\ \A k \in LotIds : k # l => lots'[k] = lots[k]
  BY <1>3, <1>5
<1>7. entry.fraction > 0
  BY <1>3 DEF Orderly, EntryIsHeld, Entering
<1>8. /\ Linked' = Linked /\ Taken' = Taken \cup {l}
  BY <1>3, <1>4, <1>6, <1>7 DEF Linked, Taken
<1>9. \A k \in Linked : lots'[k] = lots[k]
  BY <1>3, <1>6 DEF Linked, Taken
<1>10. Accounted' = Accounted
  BY <1>8, <1>9 DEF Accounted
<1>11. Taken \ Linked = {}
  BY <1>3 DEF Orderly, OnlyEntryIsUnlinked
<1>12. ActiveIsExplained' /\ AccountsAreHeld' /\ EntryIsHeld'
  BY <1>3, <1>5, <1>9, <1>10 DEF Orderly, ActiveIsExplained, AccountsAreHeld, EntryIsHeld,
     HoldsExactly, Accounted, Entering
<1>13. OnlyEntryIsUnlinked'
  BY <1>3, <1>4, <1>5, <1>6, <1>8, <1>11 DEF OnlyEntryIsUnlinked, Linked
<1>14. QueueIsOutOfSync'
  BY <1>3, <1>8, <1>9 DEF Orderly, QueueIsOutOfSync
<1>15. (ExitRuns => ~EntryRuns)'
  BY <1>3 DEF ExitRuns
<1>. QED  BY <1>3, <1>12, <1>13, <1>14, <1>15 DEF Orderly

(* The link always succeeds when nothing was lost.                         *)
LEMMA FinishEntryOrder ==
  ASSUME IInv, Orderly, FinishEntry
  PROVE  Orderly'
<1>. USE RobinhoodAssumption
<1>0. /\ entry.pc = "linking" /\ entry' = NoEntry /\ lots \in [LotIds -> Lot] /\ ~ExitRuns
  BY DEF FinishEntry, IInv, TypeOK
<1>1. PICK e \in Evidences : e = entry.evidence
  BY <1>0 DEF Orderly, EntryIsHeld, Entering
<1>2. PICK l \in Taken \ Linked : TRUE
  BY <1>0 DEF Orderly, OnlyEntryIsUnlinked
<1>3. /\ l \in LotIds /\ lots[l].evidence = e /\ lots[l].link = Nothing
      /\ lots[l].remaining = entry.fraction /\ entry.fraction > 0
      /\ HoldsExactly(e, entry.fraction)
      /\ \A k \in Taken : lots[k].evidence = e => k = l
  BY <1>0, <1>1, <1>2 DEF Orderly, OnlyEntryIsUnlinked, EntryIsHeld, Entering, Linked, Taken,
     IInv, EvidenceIsUsedOnce
<1>4. Found(e, l)
  BY <1>2, <1>3 DEF Found, LotsOf
<1>5. Holds(e, lots[l].remaining)
  <2>1. Ledger!ActiveRows(e) = {1}
    BY <1>3, ExactIsActive
  <2>2. lots[l].remaining \in Nat
    BY <1>0, <1>3 DEF Lot
  <2>. QED  BY <1>3, <2>1, <2>2, ReleaseOne DEF Holds, HoldsExactly
<1>6. LinkLot(e, l)
  <2>1. PICK k \in LotIds : LinkLot(e, k)
    BY <1>1, <1>3, <1>4, <1>5 DEF FinishEntry
  <2>2. k = l
    BY <1>3, <2>1 DEF LinkLot, Found, LotsOf
  <2>. QED  BY <2>1, <2>2
<1>7. /\ lots' = [lots EXCEPT ![l] = WithLink(lots[l])]
      /\ UNCHANGED <<reservations, exit, release>>
  BY <1>6 DEF LinkLot, ledger
<1>8. /\ lots'[l] = WithLink(lots[l]) /\ \A k \in LotIds : k # l => lots'[k] = lots[k]
  BY <1>0, <1>3, <1>7
<1>9. /\ lots'[l].evidence = e /\ lots'[l].entry = lots[l].entry
      /\ lots'[l].remaining = lots[l].remaining /\ lots'[l].accounted = lots[l].remaining
      /\ lots'[l].link = e
  BY <1>3, <1>8 DEF WithLink
<1>10. e # Nothing
  OBVIOUS
<1>11. Taken' = Taken /\ Linked' = Linked \cup {l}
  BY <1>2, <1>3, <1>8, <1>9, <1>10 DEF Taken, Linked
<1>12. \A k \in Linked : lots'[k] = lots[k]
  BY <1>2, <1>8 DEF Linked, Taken
<1>13. Accounted' = Accounted \cup {l}
  BY <1>2, <1>3, <1>9, <1>11, <1>12 DEF Accounted
<1>14. ActiveIsExplained'
  <2>. SUFFICES ASSUME NEW r \in Releases, NEW i \in Evidences \cup Residuals,
                       reservations[<<r, i>>].status = "active"
                PROVE  r = 1 /\ \E k \in Accounted \cup {l} : lots'[k].link = i
    BY <1>7, <1>13 DEF ActiveIsExplained
  <2>. QED  BY <1>1, <1>9, <1>12 DEF Orderly, ActiveIsExplained, Accounted
<1>15. AccountsAreHeld'
  <2>. SUFFICES ASSUME NEW k \in Accounted \cup {l}
                PROVE  HoldsExactly(lots'[k].link, lots'[k].accounted)
    BY <1>7, <1>13 DEF AccountsAreHeld, HoldsExactly
  <2>. QED  BY <1>3, <1>9, <1>12 DEF Orderly, AccountsAreHeld, Accounted
<1>16. EntryIsHeld' /\ OnlyEntryIsUnlinked'
  <2>1. Taken' \ Linked' = {}
    BY <1>0, <1>1, <1>3, <1>11 DEF Orderly, OnlyEntryIsUnlinked
  <2>. QED  BY <1>0, <2>1 DEF EntryIsHeld, Entering, OnlyEntryIsUnlinked, NoEntry
<1>17. QueueIsOutOfSync'
  <2>1. lots[l].remaining \in Nat
    BY <1>0, <1>3 DEF Lot
  <2>2. \A k \in Linked : lots[k].remaining <= lots[k].accounted /\ ~ (lots[k].remaining < lots[k].accounted)
    BY <1>0 DEF Orderly, QueueIsOutOfSync, ExitRuns
  <2>3. exit'.pc # "syncing"
    BY <1>0, <1>7 DEF ExitRuns
  <2>. QED  BY <1>9, <1>11, <1>12, <2>1, <2>2, <2>3 DEF QueueIsOutOfSync
<1>18. (ExitRuns => ~EntryRuns)'
  BY <1>0, <1>7 DEF ExitRuns
<1>. QED  BY <1>7, <1>14, <1>15, <1>16, <1>17, <1>18 DEF Orderly

(* Nothing is left to recover before the process is first lost.            *)
LEMMA NothingToRecover ==
  ASSUME IInv, Orderly, NEW e \in Evidences, Recover(e)
  PROVE  FALSE
BY DEF Recover, LinkLot, Found, LotsOf, Orderly, OnlyEntryIsUnlinked, Linked, Taken, NoEntry

(* What an exit cut is what it queues; an exit that does not fit queues    *)
(* nothing.                                                                *)
LEMMA ExitOrder ==
  ASSUME IInv, Orderly, NEW sell, NEW status \in {"closed", "de_risking", "runner"},
         NEW stage \in 0..2, ApplyExit(sell, status, stage)
  PROVE  Orderly'
<1>. USE RobinhoodAssumption
<1>0. /\ lots \in [LotIds -> Lot] /\ exit.pc = "quoting" /\ ~EntryRuns
      /\ UNCHANGED <<reservations, entry, release>>
      /\ position'.generation = position.generation
      /\ exit' = Syncing(OutOfSync(lots'))
  <2>1. CASE Sellable(sell)
    BY <2>1, ApplyExitCuts DEF ApplyExit, IInv, TypeOK, ledger
  <2>2. CASE ~ Sellable(sell)
    BY <2>2 DEF ApplyExit, IInv, TypeOK, ledger
  <2>. QED  BY <2>1, <2>2
<1>1. \A l \in LotIds : /\ lots'[l].evidence = lots[l].evidence
                        /\ lots'[l].entry = lots[l].entry
                        /\ lots'[l].link = lots[l].link
                        /\ lots'[l].accounted = lots[l].accounted
                        /\ lots'[l].generation = lots[l].generation
                        /\ lots'[l].remaining \in 0..lots[l].remaining
                        /\ l \notin PositionLots => lots'[l].remaining = lots[l].remaining
  <2>1. CASE Sellable(sell)
    <3>1. lots' \in [LotIds -> Lot] /\ \A l \in LotIds : lots'[l].remaining <= lots[l].remaining
      BY <2>1, ApplyExitCuts
    <3>2. \A l \in LotIds : lots'[l].remaining \in 0..lots[l].remaining
      BY <1>0, <3>1 DEF Lot
    <3>3. lots' = [l \in LotIds |-> IF l \in PositionLots THEN Cut(lots[l], Share(l, sell))
                                                        ELSE lots[l]]
      BY <2>1 DEF ApplyExit
    <3>. QED  BY <2>1, <3>2, <3>3, ApplyExitCuts
  <2>2. CASE ~ Sellable(sell)
    <3>1. lots' = lots
      BY <2>2 DEF ApplyExit
    <3>. QED  BY <1>0, <3>1 DEF Lot
  <2>. QED  BY <2>1, <2>2
<1>7. /\ Taken' = Taken /\ Linked' = Linked /\ Accounted' = Accounted
      /\ Linked \subseteq LotIds /\ Taken \ Linked = {}
  <2>1. Taken \ Linked = {}
    BY <1>0 DEF Orderly, OnlyEntryIsUnlinked, EntryRuns
  <2>. QED  BY <1>1, <2>1 DEF Taken, Linked, Accounted
<1>8. /\ exit'.pc \in {"idle", "syncing"}
      /\ exit'.pc = "syncing" => exit'.queue = OutOfSync(lots')
      /\ exit'.pc = "idle" => OutOfSync(lots') = {}
  BY <1>0 DEF Syncing, NoExit
<1>9. ActiveIsExplained'
  BY <1>0, <1>1, <1>7 DEF Orderly, ActiveIsExplained, Accounted, Entering
<1>10. AccountsAreHeld'
  BY <1>0, <1>1, <1>7 DEF Orderly, AccountsAreHeld, HoldsExactly, Accounted
<1>11. EntryIsHeld' /\ OnlyEntryIsUnlinked' /\ (ExitRuns => ~EntryRuns)'
  <2>1. EntryIsHeld'
    BY <1>0 DEF Orderly, EntryIsHeld, Entering, HoldsExactly
  <2>. QED  BY <1>0, <1>7, <2>1 DEF OnlyEntryIsUnlinked, EntryRuns
<1>12. OutOfSync(lots') = {l \in Linked : lots'[l].remaining < lots'[l].accounted}
  <2>1. ASSUME NEW l \in LotIds, lots[l].link # Nothing, lots'[l].remaining < lots'[l].accounted
        PROVE  l \in Linked
    <3>1. lots[l] \in Lot
      BY <1>0
    <3>2. /\ lots[l].slices \in Nat /\ lots[l].accounted \in Nat /\ lots[l].entry \in Nat
          /\ lots'[l].remaining \in Nat
      BY <1>1, <3>1 DEF Lot
    <3>3. lots[l].entry > 0
      BY <1>1, <2>1, <3>2 DEF IInv, AccountsAreBounded
    <3>. QED  BY <2>1, <3>3 DEF Linked, Taken
  <2>2. ASSUME NEW l \in Linked, lots'[l].remaining < lots'[l].accounted
        PROVE  lots'[l].generation = position.generation
    <3>1. l \in LotIds /\ ~ (lots[l].remaining < lots[l].accounted)
      BY <1>0, <1>7 DEF Orderly, QueueIsOutOfSync
    <3>2. l \in PositionLots
      BY <1>1, <2>2, <3>1
    <3>. QED  BY <1>1, <3>1, <3>2 DEF PositionLots
  <2>3. OutOfSync(lots') \subseteq {l \in Linked : lots'[l].remaining < lots'[l].accounted}
    BY <1>1, <2>1 DEF OutOfSync
  <2>4. {l \in Linked : lots'[l].remaining < lots'[l].accounted} \subseteq OutOfSync(lots')
    BY <1>1, <1>7, <2>2 DEF OutOfSync, Linked
  <2>. QED  BY <2>3, <2>4
<1>13. QueueIsOutOfSync'
  <2>1. ASSUME NEW l \in Linked
        PROVE  /\ lots'[l].remaining <= lots'[l].accounted
               /\ lots'[l].remaining < lots'[l].accounted
                     <=> exit'.pc = "syncing" /\ l \in exit'.queue
    <3>1. lots[l] \in Lot /\ l \in LotIds
      BY <1>0, <1>7
    <3>2. /\ lots[l].remaining \in Nat /\ lots[l].accounted \in Nat
          /\ lots[l].remaining <= lots[l].accounted
          /\ lots'[l].remaining \in 0..lots[l].remaining /\ lots'[l].accounted = lots[l].accounted
      BY <1>1, <3>1 DEF Lot, Orderly, QueueIsOutOfSync
    <3>3. lots'[l].remaining <= lots'[l].accounted
      BY <3>2
    <3>. QED  BY <1>8, <1>12, <3>3
  <2>. QED  BY <1>7, <1>8, <1>12, <2>1 DEF QueueIsOutOfSync
<1>. QED  BY <1>0, <1>9, <1>10, <1>11, <1>13 DEF Orderly

(* A slice moves the account and the reservation together.                 *)
LEMMA SyncLotOrder ==
  ASSUME IInv, Orderly, NEW l \in LotIds, SyncLot(l)
  PROVE  Orderly'
<1>. USE RobinhoodAssumption
<1>1. PICK i, residual, rest, acc :
        /\ i = lots[l].link /\ residual = <<l, lots[l].slices + 1>>
        /\ rest = lots[l].remaining /\ acc = lots[l].accounted
  OBVIOUS
<1>2. /\ exit.pc = "syncing" /\ l \in exit.queue /\ ~EntryRuns
      /\ lots \in [LotIds -> Lot] /\ exit.queue \in SUBSET LotIds /\ UNCHANGED <<entry, release>>
  BY DEF SyncLot, ExitRuns, Orderly, IInv, TypeOK
<1>3. l \in Linked /\ rest < acc /\ Taken \ Linked = {}
  BY <1>1, <1>2 DEF Orderly, QueueIsOutOfSync, OnlyEntryIsUnlinked, EntryRuns
<1>4. /\ rest \in 0..Target /\ acc \in 0..Target /\ lots[l].slices \in 0..Target
      /\ lots[l].entry \in 0..Target
  BY <1>1, <1>2 DEF Lot
<1>5. l \in Accounted /\ HoldsExactly(i, acc) /\ i \in Evidences \cup Residuals
  BY <1>1, <1>3, <1>4, LinkIsOwn DEF Accounted, Orderly, AccountsAreHeld
<1>6. Ledger!ActiveRows(i) = {1}
  BY <1>5, ExactIsActive
<1>7. InLine(l)
  BY <1>1, <1>5, <1>6, ReleaseOne DEF InLine, HoldsExactly
<1>8. /\ Ledger!SettleSlice(i, residual, rest, 0)
      /\ lots' = [lots EXCEPT ![l] = Settled(lots[l], residual)]
      /\ exit' = Syncing(exit.queue \ {l})
  BY <1>1, <1>7 DEF SyncLot
<1>9. l \in Taken /\ i # Nothing /\ lots[l].slices + 1 \in 1..Target
  BY <1>1, <1>3, <1>4 DEF IInv, AccountsAreBounded, Linked
<1>10. /\ residual \in Residuals /\ residual \notin {l} \X (1..lots[l].slices)
       /\ residual # i /\ residual # Nothing
  <2>1. residual \in Residuals /\ residual \notin {l} \X (1..lots[l].slices)
    BY <1>1, <1>4, <1>9 DEF Residuals
  <2>. QED  BY <1>1, <1>3, <1>9, <2>1, LinkIsOwn, BackingIsOwn
<1>. DEFINE closed == [reservations EXCEPT ![<<1, i>>].status = "settled"]
            row    == Ledger!NewRow(rest)
<1>11. reservations' = IF rest > 0 THEN [closed EXCEPT ![<<1, residual>>] = row] ELSE closed
  BY <1>6, <1>8 DEF Ledger!SettleSlice, Ledger!Settleable
<1>12. /\ reservations \in [Ledger!Keys -> Ledger!Row]
       /\ <<1, i>> \in Ledger!Keys /\ <<1, residual>> \in Ledger!Keys
  BY <1>5, <1>10, ReleaseOne DEF IInv, TypeOK, Ledger!TypeOK, Ledger!Keys, Ledger!AllIds
<1>13. /\ DOMAIN closed = Ledger!Keys /\ closed[<<1, i>>].status = "settled"
       /\ \A k \in Ledger!Keys : k # <<1, i>> => closed[k] = reservations[k]
  BY <1>12 DEF Ledger!Row
<1>14. rest > 0 => row = [status |-> "active", reserved |-> rest]
  BY DEF Ledger!NewRow
<1>. HIDE DEF closed, row
<1>15. /\ reservations'[<<1, i>>].status = "settled"
       /\ rest > 0 => HoldsExactly(residual, rest)'
       /\ \A k \in Ledger!Keys : (k # <<1, i>> /\ (k # <<1, residual>> \/ rest = 0))
                                   => reservations'[k] = reservations[k]
  <2>1. <<1, i>> # <<1, residual>>
    BY <1>10
  <2>2. CASE rest > 0
    BY <1>11, <1>12, <1>13, <1>14, <2>1, <2>2 DEF HoldsExactly
  <2>3. CASE ~ (rest > 0)
    BY <1>11, <1>13, <2>3
  <2>. QED  BY <2>2, <2>3
<1>16. lots'[l] = Settled(lots[l], residual) /\ \A k \in LotIds : k # l => lots'[k] = lots[k]
  BY <1>2, <1>8
<1>17. /\ lots'[l].evidence = lots[l].evidence /\ lots'[l].entry = lots[l].entry
       /\ lots'[l].remaining = rest /\ lots'[l].accounted = rest
       /\ lots'[l].link = IF rest > 0 THEN residual ELSE i
  BY <1>1, <1>16 DEF Settled
<1>18. Taken' = Taken /\ Linked' = Linked /\ Linked \subseteq LotIds
  <2>1. \A k \in LotIds : /\ lots'[k].entry = lots[k].entry
                          /\ lots'[k].link = Nothing <=> lots[k].link = Nothing
    <3>1. lots'[l].link # Nothing /\ lots[l].link # Nothing
      BY <1>1, <1>9, <1>10, <1>17
    <3>. QED  BY <1>16, <1>17, <3>1
  <2>. QED  BY <2>1 DEF Linked, Taken
<1>19. /\ \A k \in Accounted : k # l => k \in Accounted'
       /\ \A k \in Accounted' : k # l => k \in Accounted
       /\ rest > 0 <=> l \in Accounted'
  BY <1>3, <1>16, <1>17, <1>18 DEF Accounted
<1>20. \A k \in Accounted : k # l => /\ lots[k].link # i /\ lots[k].link # residual
                                     /\ lots[k].link \in Ledger!AllIds
  <2>. SUFFICES ASSUME NEW k \in Accounted, k # l
                PROVE  /\ lots[k].link # i /\ lots[k].link # residual
                       /\ lots[k].link \in Ledger!AllIds
    OBVIOUS
  <2>1. k \in Linked /\ k \in Taken /\ lots[k].link = Backing(k) /\ i = Backing(l)
    BY <1>1, <1>3, LinkIsOwn DEF Accounted
  <2>2. lots[k].link # i /\ lots[k].link \in Ledger!AllIds
    BY <1>9, <2>1, BackingsDiffer, BackingIsOwn
  <2>3. lots[k].link # residual
    BY <1>1, <1>10, <2>1, BackingIsOwn
  <2>. QED  BY <2>2, <2>3
<1>30. ASSUME Entering
       PROVE  /\ entry.evidence \in Evidences /\ entry.evidence # i /\ entry.evidence # residual
              /\ reservations'[<<1, entry.evidence>>] = reservations[<<1, entry.evidence>>]
  <2>1. entry.pc = "quoting"
    BY <1>2, <1>30 DEF Entering, EntryRuns, IInv, TypeOK
  <2>2. entry.evidence \in Evidences /\ LotsOf(entry.evidence) = {}
    BY <2>1 DEF IInv, QuotesAreFunded
  <2>3. entry.evidence # i
    <3>1. i = Backing(l)
      BY <1>1, <1>3, LinkIsOwn
    <3>2. i = lots[l].evidence \/ i \in Residuals
      BY <1>4, <1>9, <3>1, BackingIsOwn DEF Residuals
    <3>. QED  BY <1>9, <2>2, <3>2 DEF LotsOf
  <2>4. entry.evidence # residual
    BY <1>10, <2>2
  <2>5. <<1, entry.evidence>> \in Ledger!Keys
    BY <2>2, ReleaseOne DEF Ledger!Keys, Ledger!AllIds
  <2>. QED  BY <1>15, <2>2, <2>3, <2>4, <2>5
<1>21. ActiveIsExplained'
  <2>. SUFFICES ASSUME NEW r \in Releases, NEW j \in Evidences \cup Residuals,
                       reservations'[<<r, j>>].status = "active"
                PROVE  /\ r = 1
                       /\ \/ \E k \in Accounted' : lots'[k].link = j
                          \/ Entering /\ entry.evidence = j
    BY <1>2 DEF ActiveIsExplained, Entering
  <2>1. <<r, j>> # <<1, i>> /\ <<r, j>> \in Ledger!Keys
    BY <1>15 DEF Ledger!Keys, Ledger!AllIds
  <2>2. CASE <<r, j>> = <<1, residual>> /\ rest > 0
    BY <1>17, <1>19, <2>2
  <2>3. CASE <<r, j>> # <<1, residual>> \/ rest = 0
    <3>1. reservations[<<r, j>>].status = "active"
      BY <1>15, <2>1, <2>3
    <3>2. /\ r = 1
          /\ \/ \E k \in Accounted : lots[k].link = j
             \/ Entering /\ entry.evidence = j
      BY <3>1 DEF Orderly, ActiveIsExplained
    <3>3. CASE \E k \in Accounted : lots[k].link = j
      <4>1. PICK k \in Accounted : lots[k].link = j
        BY <3>3
      <4>2. k # l
        BY <1>1, <2>1, <3>2, <4>1
      <4>. QED  BY <1>16, <1>18, <1>19, <3>2, <4>1, <4>2 DEF Accounted
    <3>. QED  BY <3>2, <3>3
  <2>. QED  BY <1>4, <2>2, <2>3
<1>22. AccountsAreHeld'
  <2>. SUFFICES ASSUME NEW k \in Accounted'
                PROVE  HoldsExactly(lots[k].link, lots[k].accounted)'
    BY DEF AccountsAreHeld
  <2>1. CASE k = l
    BY <1>15, <1>17, <1>19, <2>1 DEF HoldsExactly
  <2>2. CASE k # l
    <3>1. k \in Accounted /\ lots'[k] = lots[k]
      BY <1>16, <1>18, <1>19, <2>2 DEF Accounted
    <3>2. reservations'[<<1, lots[k].link>>] = reservations[<<1, lots[k].link>>]
      BY <1>15, <1>20, <2>2, <3>1, ReleaseOne DEF Ledger!Keys
    <3>. QED  BY <3>1, <3>2 DEF Orderly, AccountsAreHeld, HoldsExactly
  <2>. QED  BY <2>1, <2>2
<1>23. /\ exit'.pc \in {"idle", "syncing"}
       /\ exit'.pc = "syncing" => exit'.queue = exit.queue \ {l}
       /\ exit'.pc = "idle" => exit.queue \ {l} = {}
  BY <1>8 DEF Syncing, NoExit
<1>24. EntryIsHeld' /\ OnlyEntryIsUnlinked' /\ (ExitRuns => ~EntryRuns)'
  <2>1. EntryIsHeld'
    BY <1>2, <1>30 DEF Orderly, EntryIsHeld, Entering, HoldsExactly
  <2>. QED  BY <1>2, <1>3, <1>18, <2>1 DEF OnlyEntryIsUnlinked, EntryRuns
<1>25. QueueIsOutOfSync'
  <2>1. ASSUME NEW k \in Linked
        PROVE  /\ lots'[k].remaining <= lots'[k].accounted
               /\ lots'[k].remaining < lots'[k].accounted
                     <=> exit'.pc = "syncing" /\ k \in exit'.queue
    <3>1. CASE k = l
      <4>1. lots'[l].remaining <= lots'[l].accounted /\ ~ (lots'[l].remaining < lots'[l].accounted)
        BY <1>4, <1>17
      <4>. QED  BY <1>23, <3>1, <4>1
    <3>2. CASE k # l
      <4>1. lots'[k] = lots[k]
        BY <1>16, <1>18, <3>2
      <4>2. /\ lots[k].remaining <= lots[k].accounted
            /\ lots[k].remaining < lots[k].accounted <=> k \in exit.queue
        BY <1>2 DEF Orderly, QueueIsOutOfSync
      <4>. QED  BY <1>23, <3>2, <4>1, <4>2
    <3>. QED  BY <3>1, <3>2
  <2>2. exit.queue \subseteq Linked
    BY <1>2 DEF Orderly, QueueIsOutOfSync
  <2>. QED  BY <1>18, <1>23, <2>1, <2>2 DEF QueueIsOutOfSync
<1>. QED  BY <1>2, <1>21, <1>22, <1>24, <1>25 DEF Orderly

(* A loss ends the order, and nothing else does.                           *)
LEMMA OrderNext ==
  ASSUME IInv, losses = 0 => Orderly, [Next]_vars
  PROVE  (losses = 0 => Orderly)'
<1>. SUFFICES ASSUME losses' = 0 PROVE Orderly'
  OBVIOUS
<1>. USE RobinhoodAssumption
<1>1. CASE \E next \in Releases : Lose(next)
  BY <1>1 DEF Lose, IInv, TypeOK
<1>2. CASE ~ \E next \in Releases : Lose(next)
  <2>0. losses = 0 /\ Orderly
    <3>1. losses' = losses
      BY <1>2 DEF Next, vars, AskCapital, DropEntry, CommitLot, FinishEntry, LinkLot, Recover,
         StartExit, DropExit, ExitAll, Derisk, EnterRunner, KeepRunner, ApplyExit, SyncLot,
         OtherReserves, OtherSettles
    <3>. QED  BY <3>1
  <2>1. CASE \E e \in Evidences, f \in 1..Target : AskCapital(e, f)
    BY <2>0, <2>1, AskCapitalOrder
  <2>2. CASE DropEntry
    BY <2>0, <2>2, DropEntryOrder
  <2>3. CASE \E l \in LotIds : CommitLot(l)
    BY <2>0, <2>3, CommitLotOrder
  <2>4. CASE FinishEntry
    BY <2>0, <2>4, FinishEntryOrder
  <2>5. CASE \E e \in Evidences : Recover(e)
    BY <2>0, <2>5, NothingToRecover
  <2>6. CASE Exits
    BY <2>0, <2>6, ExitsApply, ExitOrder
  <2>7. CASE StartExit \/ DropExit \/ KeepRunner
    <3>1. /\ UNCHANGED <<ledger, lots, entry, release>>
          /\ exit.pc # "syncing" /\ exit'.pc # "syncing"
      BY <2>7 DEF StartExit, DropExit, KeepRunner, NoExit, Seen
    <3>2. Kept(Others)
      BY <3>1 DEF Kept, ledger
    <3>. QED  BY <2>0, <3>1, <3>2, OthersKeepOrder
  <2>9. CASE \E l \in LotIds : SyncLot(l)
    BY <2>0, <2>9, SyncLotOrder
  <2>10. ASSUME NEW o \in Others, Kept({o}), UNCHANGED <<lots, entry, exit, release>>
         PROVE  Orderly'
    <3>1. Kept(Others)
      BY <2>10 DEF Kept
    <3>. QED  BY <2>0, <2>10, <3>1, OthersKeepOrder
  <2>11. Ledger!TypeOK /\ release \in Releases
    BY DEF IInv, TypeOK
  <2>12. CASE \E o \in Others, f \in OtherSizes : OtherReserves(o, f)
    BY <2>10, <2>11, <2>12, ReserveKeeps DEF OtherReserves
  <2>13. CASE \E o \in Others : OtherSettles(o)
    BY <2>10, <2>11, <2>13, SettleKeeps DEF OtherSettles
  <2>14. CASE UNCHANGED vars
    <3>1. Kept(Others)
      BY <2>14 DEF Kept, vars, ledger
    <3>. QED  BY <2>0, <2>14, <3>1, OthersKeepOrder DEF vars
  <2>. QED
    BY <1>2, <2>1, <2>2, <2>3, <2>4, <2>5, <2>6, <2>7, <2>9, <2>12, <2>13, <2>14 DEF Next, Exits
<1>. QED  BY <1>1, <1>2

LEMMA InitOrder == Init => Orderly
<1>. SUFFICES ASSUME Init PROVE Orderly
  OBVIOUS
<1>1. Taken = {} /\ Linked = {} /\ Accounted = {}
  BY DEF Init, NoLot, Taken, Linked, Accounted
<1>2. \A r \in Releases, i \in Evidences \cup Residuals :
        reservations[<<r, i>>].status # "active"
  BY DEF Init, Ledger!Init, Ledger!AbsentRow, Ledger!Keys, Ledger!AllIds
<1>3. entry.pc = "idle" /\ exit.pc = "idle" /\ release = 1
  BY DEF Init, NoEntry, NoExit
<1>. QED  BY <1>1, <1>2, <1>3 DEF Orderly, ActiveIsExplained, AccountsAreHeld, EntryIsHeld, Entering,
            OnlyEntryIsUnlinked, QueueIsOutOfSync, ExitRuns

(* With every lot in sync, reserved units and units of lots are the same   *)
(* ones, told apart by lot or by link.                                     *)
LEMMA OrderFollows == ASSUME IInv, losses = 0 => Orderly PROVE CapitalFollowsExposure
<1>. SUFFICES ASSUME losses = 0, entry = NoEntry, ~ExitRuns
              PROVE  Cardinality({h \in Ledger!HeldUnits(reservations) : h[1][2] \notin Others})
                       = UnitsIn(OpenLots, Remaining)
  BY DEF CapitalFollowsExposure
<1>. USE RobinhoodAssumption
<1>. DEFINE own == {h \in Ledger!HeldUnits(reservations) : h[1][2] \notin Others}
            g   == [u \in Slots(OpenLots, Remaining) |-> <<<<1, lots[u[1]].link>>, u[2]>>]
<1>1. /\ Orderly /\ entry.pc = "idle" /\ ~ Entering /\ lots \in [LotIds -> Lot]
      /\ exit.pc # "syncing"
  BY DEF NoEntry, Entering, ExitRuns, IInv, TypeOK
<1>2. Taken = Linked /\ \A l \in Linked : lots[l].remaining = lots[l].accounted
  <2>1. Taken \subseteq Linked /\ Linked \subseteq Taken
    BY <1>1 DEF Orderly, OnlyEntryIsUnlinked, Linked
  <2>2. ASSUME NEW l \in Linked PROVE lots[l].remaining = lots[l].accounted
    <3>1. lots[l] \in Lot
      BY <1>1 DEF Linked, Taken
    <3>2. lots[l].remaining \in Nat /\ lots[l].accounted \in Nat
      BY <3>1 DEF Lot
    <3>3. lots[l].remaining <= lots[l].accounted /\ ~ (lots[l].remaining < lots[l].accounted)
      BY <1>1 DEF Orderly, QueueIsOutOfSync
    <3>. QED  BY <3>2, <3>3
  <2>. QED  BY <2>1, <2>2
<1>3. OpenLots = Accounted
  BY <1>2 DEF OpenLots, Accounted
<1>4. ASSUME NEW l \in OpenLots
      PROVE  /\ l \in LotIds /\ l \in Linked /\ l \in Taken
             /\ lots[l].link \in Evidences \cup Residuals
             /\ <<1, lots[l].link>> \in Ledger!Keys
             /\ Ledger!UnitsOf(reservations[<<1, lots[l].link>>]) = Remaining[l]
             /\ Remaining[l] \in 1..Target
  <2>1. l \in Linked /\ l \in LotIds
    BY <1>3 DEF Accounted, Linked, Taken
  <2>2. lots[l] \in Lot
    BY <1>1, <2>1
  <2>3. lots[l].remaining \in 1..Target /\ lots[l].remaining = lots[l].accounted
    BY <1>2, <2>1, <2>2 DEF Lot, OpenLots
  <2>4. HoldsExactly(lots[l].link, lots[l].accounted)
    BY <1>1, <1>3 DEF Orderly, AccountsAreHeld
  <2>. QED  BY <2>1, <2>3, <2>4, LinkIsOwn, ReleaseOne
            DEF HoldsExactly, Ledger!UnitsOf, Remaining, Ledger!Keys
<1>5. OpenLots \in SUBSET LotIds
  BY DEF OpenLots, Taken
<1>6. ASSUME NEW u \in Slots(OpenLots, Remaining)
      PROVE  u = <<u[1], u[2]>> /\ u[1] \in OpenLots /\ u[2] \in 1..Remaining[u[1]]
  BY DEF Slots
<1>7. \A u \in Slots(OpenLots, Remaining) : g[u] \in own
  <2>. SUFFICES ASSUME NEW u \in Slots(OpenLots, Remaining) PROVE g[u] \in own
    OBVIOUS
  <2>1. PICK l \in OpenLots, n \in 1..Remaining[u[1]] : l = u[1] /\ n = u[2]
    BY <1>6
  <2>2. n \in 1..Units /\ n <= Ledger!UnitsOf(reservations[<<1, lots[l].link>>])
    BY <1>4, <2>1
  <2>3. <<<<1, lots[l].link>>, n>> \in Ledger!HeldUnits(reservations)
    BY <1>4, <2>2 DEF Ledger!HeldUnits
  <2>4. lots[l].link \notin Others
    BY <1>4
  <2>. QED  BY <2>1, <2>3, <2>4
<1>8. \A u, v \in Slots(OpenLots, Remaining) : g[u] = g[v] => u = v
  <2>. SUFFICES ASSUME NEW u \in Slots(OpenLots, Remaining), NEW v \in Slots(OpenLots, Remaining),
                       g[u] = g[v]
                PROVE  u = v
    OBVIOUS
  <2>1. lots[u[1]].link = lots[v[1]].link /\ u[2] = v[2]
    OBVIOUS
  <2>2. PICK l \in Linked, k \in Linked : l = u[1] /\ k = v[1]
    BY <1>4, <1>6
  <2>3. Backing(l) = Backing(k) /\ l \in Taken /\ k \in Taken
    BY <2>1, <2>2, LinkIsOwn
  <2>4. l = k
    BY <2>3, BackingsDiffer
  <2>. QED  BY <1>6, <2>1, <2>2, <2>4
<1>9. \A h \in own : \E u \in Slots(OpenLots, Remaining) : g[u] = h
  <2>. SUFFICES ASSUME NEW h \in own PROVE \E u \in Slots(OpenLots, Remaining) : g[u] = h
    OBVIOUS
  <2>1. /\ h = <<h[1], h[2]>> /\ h[1] = <<h[1][1], h[1][2]>> /\ h[1][1] \in Releases
        /\ h[1][2] \in Evidences \cup Residuals
        /\ h[2] \in 1..Units /\ h[2] <= Ledger!UnitsOf(reservations[h[1]])
    BY DEF Ledger!HeldUnits, Ledger!Keys, Ledger!AllIds
  <2>2. reservations[<<h[1][1], h[1][2]>>].status = "active"
    BY <2>1 DEF Ledger!UnitsOf
  <2>3. h[1][1] = 1 /\ \E l \in Accounted : lots[l].link = h[1][2]
    BY <1>1, <2>1, <2>2 DEF Orderly, ActiveIsExplained
  <2>4. PICK l \in OpenLots : lots[l].link = h[1][2]
    BY <1>3, <2>3
  <2>5. h[2] <= Remaining[l] /\ Remaining[l] \in 1..Target /\ h[1] = <<1, lots[l].link>>
    BY <1>4, <2>1, <2>3, <2>4
  <2>6. <<l, h[2]>> \in Slots(OpenLots, Remaining)
    BY <2>1, <2>5 DEF Slots
  <2>. QED  BY <2>1, <2>5, <2>6
<1>10. g \in Bijection(Slots(OpenLots, Remaining), own)
  <2>1. g \in [Slots(OpenLots, Remaining) -> own]
    BY <1>7
  <2>. QED  BY <1>8, <1>9, <2>1 DEF Bijection, Injection, Surjection, IsInjective
<1>. HIDE DEF own, g
<1>11. PICK s : s = Slots(OpenLots, Remaining)
  OBVIOUS
<1>12. IsFiniteSet(s) /\ Cardinality(s) = UnitsIn(OpenLots, Remaining)
  <2>1. PICK c : c = Remaining
    OBVIOUS
  <2>. QED  BY <1>5, <1>11, <2>1, SlotsAreFinite
<1>13. Cardinality(s) = Cardinality(own)
  BY <1>10, <1>11, <1>12, FS_Bijection DEF ExistsBijection
<1>. QED  BY <1>12, <1>13 DEF own

(* Until the process is first lost exactly the open lots' fractions are    *)
(* reserved whenever no entry is in progress and no exit between its cut   *)
(* and its slices: beside an exit that awaits its quotes, and after one    *)
(* that wrote over a scale.                                                *)
THEOREM ReservedIsExposure == Spec => []CapitalFollowsExposure
<1>1. Init => (losses = 0 => Orderly)
  BY InitOrder
<1>2. IInv /\ (losses = 0 => Orderly) /\ [Next]_vars => (losses = 0 => Orderly)'
  BY OrderNext
<1>3. IInv /\ (losses = 0 => Orderly) => CapitalFollowsExposure
  BY OrderFollows
<1>. QED  BY <1>1, <1>2, <1>3, SpecIInv, PTL DEF Spec

-----------------------------------------------------------------------------
(* The ledger in use is an execution of the capital module as such.        *)
LEMMA LedgerIsCapital == Spec => Capital!Spec
<1>1. Ledger!Init => Capital!Init
  BY SameInit
<1>2. [Ledger!Next]_(Ledger!vars) => [Capital!Next]_(Capital!vars)
  BY SameNext DEF Ledger!vars, Capital!vars
<1>. QED  BY <1>1, <1>2, RobinhoodKeepsLedger, PTL DEF LedgerIsKept, Ledger!Spec, Capital!Spec

(* Entries, refusals, slices and other users are together one account:     *)
(* an exit and its slices are partial realisations of it, whose rest goes  *)
(* on under an id never used before, across every release and loss.        *)
THEOREM RobinhoodImplementsAccount == Spec => Capital!ImplementsAccount
<1>1. Capital!Spec => Capital!ImplementsAccount
  BY LedgerAssumption, Capital!LedgerImplementsAccount
<1>. QED  BY <1>1, LedgerIsCapital, PTL

(* What the lots' lineages leave behind stays: no replay, recovery or late *)
(* slice rewrites a closed row or a settlement, and each slice frees what  *)
(* its settlement accounts for.                                            *)
THEOREM LineagesLeaveHistory == Spec => Capital!HistoryIsImmutable /\ Capital!FreedIsAccounted
<1>1. Capital!Spec => Capital!HistoryIsImmutable
  BY LedgerAssumption, Capital!HistoryStands
<1>2. Capital!Spec => Capital!FreedIsAccounted
  BY LedgerAssumption, Capital!FreedUnitsAreAccounted
<1>. QED  BY <1>1, <1>2, LedgerIsCapital, PTL

-----------------------------------------------------------------------------
(* What the tasks need for their next transaction.                        *)
CanLink(e, l) == /\ Found(e, l)
                 /\ lots[l].link = Nothing
                 /\ Holds(e, lots[l].remaining)

CanSlice(l) ==
  /\ <<l, lots[l].slices + 1>> \in Residuals
  /\ Ledger!Rows(<<l, lots[l].slices + 1>>) = {}
  /\ \E r \in Releases : /\ Ledger!Settleable(r, lots[l].link)
                         /\ lots[l].remaining < reservations[<<r, lots[l].link>>].reserved

(* Neither task is refused by the ledger in the middle of an entry or an   *)
(* exit: what was reserved for a refused entry can be cancelled, a         *)
(* committed lot be linked, and a lot whose reservation is in line be      *)
(* sliced under a new residual; and they never wait for each other.        *)
TasksCanGoOn ==
  /\ entry.pc \in {"quoting", "refused"} =>
       \E r \in Releases : Ledger!ActiveRows(entry.evidence) = {r}
  /\ entry.pc = "linking" => \E l \in LotIds : CanLink(entry.evidence, l)
  /\ ExitRuns => /\ exit.queue # {}
                 /\ \A l \in exit.queue : InLine(l) => CanSlice(l)
  /\ ~ (EntryRuns /\ ExitRuns)

(* Until the process is first lost, every lot that holds less than its     *)
(* lineage accounts for is one the exit under way still has to reach, and  *)
(* is in line: the raise that would leave lots unreached never happens,    *)
(* whatever was entered or scaled in the exit's awaits.                    *)
SlicesAreOwed ==
  losses = 0 =>
    \A l \in Linked : lots[l].remaining < lots[l].accounted =>
                        ExitRuns /\ l \in exit.queue /\ InLine(l)

QueueIsAhead ==
  exit.pc = "syncing" =>
    /\ exit.queue # {}
    /\ \A l \in exit.queue : lots[l].link # Nothing /\ lots[l].remaining < lots[l].accounted

CommittedIsUnlinked ==
  entry.pc = "linking" =>
    \E l \in LotsOf(entry.evidence) : lots[l].link = Nothing /\ lots[l].remaining > 0

UnlinkedHaveNoSlices == \A l \in LotIds : lots[l].link = Nothing => lots[l].slices = 0

(* The residual a lot will use next, and all later ones, are new.          *)
ResidualsFollowSlices ==
  \A r \in Releases, l \in LotIds, n \in 1..Target :
    reservations[<<r, <<l, n>>>>].status # "absent" => n <= lots[l].slices

GoingOn ==
  /\ QueueIsAhead
  /\ CommittedIsUnlinked
  /\ UnlinkedHaveNoSlices
  /\ ResidualsFollowSlices
  /\ ~ (EntryRuns /\ ExitRuns)

SameResiduals ==
  \A r \in Releases, i \in Residuals : reservations'[<<r, i>>] = reservations[<<r, i>>]

LEMMA KeptResiduals ==
  ASSUME NEW i \in Evidences \cup Others, Kept({i})
  PROVE  SameResiduals
BY RobinhoodAssumption DEF Kept, SameResiduals, Ledger!AllIds

(* Steps over the ledger that leave the lots.                              *)
LEMMA LedgerStepGoesOn ==
  ASSUME GoingOn, SameResiduals, UNCHANGED lots,
         entry' = entry \/ entry'.pc = "idle" \/ (entry'.pc # "linking" /\ ~ExitRuns),
         exit' = exit \/ exit'.pc # "syncing"
  PROVE  GoingOn'
<1>1. LotsOf(entry.evidence)' = {l \in Taken : lots[l].evidence = entry'.evidence}
  BY DEF LotsOf, Taken
<1>2. CommittedIsUnlinked'
  BY <1>1 DEF GoingOn, CommittedIsUnlinked, LotsOf
<1>3. QueueIsAhead'
  BY DEF GoingOn, QueueIsAhead
<1>4. UnlinkedHaveNoSlices' /\ ResidualsFollowSlices'
  BY DEF GoingOn, UnlinkedHaveNoSlices, ResidualsFollowSlices, SameResiduals, Residuals
<1>5. ~ (EntryRuns /\ ExitRuns)'
  BY DEF GoingOn, EntryRuns, ExitRuns
<1>. QED  BY <1>2, <1>3, <1>4, <1>5 DEF GoingOn

(* A new lot has no slices, and no residual of it was ever used.           *)
LEMMA CommitGoesOn ==
  ASSUME IInv, GoingOn, NEW l \in LotIds, CommitLot(l)
  PROVE  GoingOn'
<1>. USE RobinhoodAssumption
<1>1. PICK e \in Evidences, f \in 1..Target : e = entry.evidence /\ f = entry.fraction
  BY DEF CommitLot, IInv, QuotesAreFunded, TypeOK
<1>2. PICK next : next = IF position.status \in Open THEN Scaled(e, f) ELSE Entered(e, f)
  OBVIOUS
<1>3. PICK lot : lot = NewLot(e, f, next.generation)
  OBVIOUS
<1>4. /\ lots' = [lots EXCEPT ![l] = lot] /\ l \notin Taken
      /\ entry' = Asking("linking", e, f, entry.stage)
      /\ UNCHANGED <<reservations, exit>> /\ ~ExitRuns
      /\ lots \in [LotIds -> Lot]
  BY <1>1, <1>2, <1>3 DEF CommitLot, ledger, IInv, TypeOK
<1>5. lots'[l] = lot /\ \A k \in LotIds : k # l => lots'[k] = lots[k]
  BY <1>4
<1>6. /\ lot.evidence = e /\ lot.entry = f /\ lot.remaining = f
      /\ lot.link = Nothing /\ lot.slices = 0
  BY <1>3 DEF NewLot
<1>7. entry'.pc = "linking" /\ entry'.evidence = e
  BY <1>4 DEF Asking
<1>8. CommittedIsUnlinked'
  <2>1. l \in LotsOf(e)'
    BY <1>5, <1>6 DEF LotsOf, Taken
  <2>. QED  BY <1>5, <1>6, <1>7, <2>1 DEF CommittedIsUnlinked, LotsOf
<1>9. ResidualsFollowSlices'
  <2>1. lots[l].slices = 0
    <3>1. lots[l].slices \in Nat /\ lots[l].accounted \in Nat /\ lots[l].entry \in Nat
      BY <1>4 DEF Lot
    <3>2. lots[l].entry = 0 /\ lots[l].slices + lots[l].accounted <= lots[l].entry
      BY <1>4, <3>1 DEF Taken, IInv, AccountsAreBounded
    <3>. QED  BY <3>1, <3>2
  <2>2. \A k \in LotIds : lots'[k].slices = lots[k].slices
    BY <1>5, <1>6, <2>1
  <2>. QED  BY <1>4, <2>2 DEF GoingOn, ResidualsFollowSlices
<1>10. QueueIsAhead' /\ ~ (EntryRuns /\ ExitRuns)'
  BY <1>4 DEF QueueIsAhead, ExitRuns
<1>. QED  BY <1>5, <1>6, <1>8, <1>9, <1>10 DEF GoingOn, UnlinkedHaveNoSlices

(* A link starts a lineage without slices, and the entry is done.          *)
LEMMA LinkGoesOn ==
  ASSUME IInv, GoingOn, NEW e, NEW l \in LotIds, LinkLot(e, l), entry' = NoEntry, ~ExitRuns
  PROVE  GoingOn'
<1>1. /\ lots' = [lots EXCEPT ![l] = WithLink(lots[l])]
      /\ lots[l].link = Nothing /\ UNCHANGED <<reservations, exit>> /\ l \in Taken
  BY DEF LinkLot, Found, LotsOf, ledger
<1>2. lots \in [LotIds -> Lot] /\ lots[l].evidence \in Evidences
  BY <1>1 DEF IInv, TypeOK, LineagesAreOwn
<1>3. /\ lots'[l].slices = 0 /\ lots'[l].link # Nothing
      /\ \A k \in LotIds : k # l => lots'[k] = lots[k]
  BY <1>1, <1>2, RobinhoodAssumption DEF WithLink
<1>4. \A k \in LotIds : lots'[k].slices = lots[k].slices
  BY <1>1, <1>3 DEF GoingOn, UnlinkedHaveNoSlices
<1>5. QueueIsAhead' /\ ~ (EntryRuns /\ ExitRuns)'
  BY <1>1 DEF QueueIsAhead, ExitRuns
<1>. QED  BY <1>1, <1>3, <1>4, <1>5, TasksAreStates
          DEF GoingOn, CommittedIsUnlinked, UnlinkedHaveNoSlices, ResidualsFollowSlices

(* An exit cuts lots and queues those that are then ahead of their account. *)
LEMMA ExitGoesOn ==
  ASSUME IInv, GoingOn, NEW sell, NEW status \in {"closed", "de_risking", "runner"},
         NEW stage \in 0..2, ApplyExit(sell, status, stage)
  PROVE  GoingOn'
<1>1. /\ exit' = Syncing(OutOfSync(lots')) /\ UNCHANGED <<reservations, entry>> /\ ~EntryRuns
      /\ position'.generation = position.generation
  <2>1. CASE Sellable(sell)
    BY <2>1, ApplyExitCuts DEF ApplyExit, ledger
  <2>2. CASE ~ Sellable(sell)
    BY <2>2 DEF ApplyExit, ledger
  <2>. QED  BY <2>1, <2>2
<1>2. \A l \in LotIds : lots'[l].link = lots[l].link /\ lots'[l].slices = lots[l].slices
  <2>1. CASE Sellable(sell)
    BY <2>1, ApplyExitCuts
  <2>2. CASE ~ Sellable(sell)
    BY <2>2 DEF ApplyExit
  <2>. QED  BY <2>1, <2>2
<1>3. PICK queue : queue = OutOfSync(lots')
  OBVIOUS
<1>4. exit'.pc = "syncing" => queue # {} /\ exit'.queue = queue
  BY <1>1, <1>3 DEF Syncing, NoExit
<1>5. QueueIsAhead'
  BY <1>3, <1>4 DEF QueueIsAhead, OutOfSync
<1>6. CommittedIsUnlinked' /\ ~ (EntryRuns /\ ExitRuns)'
  BY <1>1 DEF CommittedIsUnlinked, EntryRuns
<1>. QED  BY <1>1, <1>2, <1>5, <1>6 DEF GoingOn, UnlinkedHaveNoSlices, ResidualsFollowSlices

(* A slice uses the next residual and goes on to the next lot.             *)
LEMMA SliceGoesOn ==
  ASSUME IInv, GoingOn, NEW l \in LotIds, SyncLot(l)
  PROVE  GoingOn'
<1>. USE RobinhoodAssumption
<1>0. /\ exit.pc = "syncing" /\ l \in exit.queue /\ exit.queue \subseteq LotIds
      /\ lots \in [LotIds -> Lot] /\ Ledger!TypeOK /\ UNCHANGED entry /\ ~EntryRuns
  BY DEF SyncLot, ExitRuns, GoingOn, IInv, TypeOK
<1>1. CASE ~ InLine(l)
  <2>1. exit' = NoExit /\ UNCHANGED <<reservations, lots>>
    BY <1>1 DEF SyncLot, ledger
  <2>. QED  BY <1>0, <2>1, TasksAreStates, LedgerStepGoesOn DEF SameResiduals
<1>2. CASE InLine(l)
  <2>1. PICK i, residual, rest, queue :
          /\ i = lots[l].link /\ residual = <<l, lots[l].slices + 1>> /\ rest = lots[l].remaining
          /\ queue = exit.queue \ {l}
    OBVIOUS
  <2>2. /\ Ledger!SettleSlice(i, residual, rest, 0)
        /\ lots' = [lots EXCEPT ![l] = Settled(lots[l], residual)]
        /\ exit' = Syncing(queue)
    BY <1>2, <2>1 DEF SyncLot
  <2>3. /\ rest \in 0..Target /\ lots[l].slices \in 0..Target /\ lots[l].accounted \in 0..Target
        /\ lots[l].entry \in 0..Target /\ rest < lots[l].accounted /\ i # Nothing
    BY <1>0, <2>1 DEF Lot, GoingOn, QueueIsAhead
  <2>4. l \in Taken /\ lots[l].slices + 1 \in 1..Target
    BY <2>3 DEF IInv, AccountsAreBounded, Taken
  <2>5. /\ i \in Ledger!AllIds
        /\ i = lots[l].evidence \/ i \in {l} \X (1..lots[l].slices)
        /\ lots[l].evidence \in Evidences
    BY <2>1, <2>3, <2>4, BackingIsOwn DEF Backing
  <2>6. residual \in Residuals /\ residual # i
    BY <2>1, <2>3, <2>4, <2>5 DEF Residuals
  <2>7. Kept({i, residual})
    <3>1. rest \in 0..Units
      BY <2>3
    <3>. QED  BY <1>0, <2>2, <2>5, <2>6, <3>1, SliceKeeps
  <2>8. /\ lots'[l].slices = lots[l].slices + 1
        /\ lots'[l].link # Nothing
        /\ \A k \in LotIds : k # l => lots'[k] = lots[k]
    BY <1>0, <2>1, <2>2, <2>3, <2>6 DEF Settled
  <2>9. ResidualsFollowSlices'
    <3>. SUFFICES ASSUME NEW r \in Releases, NEW k \in LotIds, NEW n \in 1..Target,
                         reservations'[<<r, <<k, n>>>>].status # "absent"
                  PROVE  n <= lots'[k].slices
      BY DEF ResidualsFollowSlices
    <3>1. <<k, n>> \in Ledger!AllIds
      BY DEF Ledger!AllIds, Residuals
    <3>2. CASE <<k, n>> = residual
      BY <2>1, <2>8, <3>2
    <3>3. CASE <<k, n>> = i
      <4>1. k = l /\ n \in 1..lots[l].slices
        BY <2>5, <3>3 DEF Residuals
      <4>. QED  BY <2>3, <2>8, <4>1
    <3>4. CASE <<k, n>> \notin {i, residual}
      <4>1. reservations[<<r, <<k, n>>>>].status # "absent"
        BY <2>7, <3>1, <3>4 DEF Kept
      <4>2. n <= lots[k].slices
        BY <4>1 DEF GoingOn, ResidualsFollowSlices
      <4>. QED  BY <2>3, <2>8, <4>2
    <3>. QED  BY <3>2, <3>3, <3>4
  <2>10. exit'.pc = "syncing" => queue # {} /\ exit'.queue = queue
    BY <2>2 DEF Syncing, NoExit
  <2>11. QueueIsAhead'
    <3>1. \A k \in queue : k \in LotIds /\ k # l /\ lots'[k] = lots[k] /\ k \in exit.queue
      BY <1>0, <2>1, <2>8
    <3>. QED  BY <1>0, <2>10, <3>1 DEF GoingOn, QueueIsAhead
  <2>12. CommittedIsUnlinked' /\ ~ (EntryRuns /\ ExitRuns)'
    BY <1>0 DEF CommittedIsUnlinked, EntryRuns
  <2>. QED  BY <2>8, <2>9, <2>11, <2>12 DEF GoingOn, UnlinkedHaveNoSlices
<1>. QED  BY <1>1, <1>2

LEMMA GoingOnNext == IInv /\ GoingOn /\ [Next]_vars => GoingOn'
<1>. SUFFICES ASSUME IInv, GoingOn, [Next]_vars PROVE GoingOn'
  OBVIOUS
<1>. USE RobinhoodAssumption
<1>0. Ledger!TypeOK /\ release \in Releases
  BY DEF IInv, TypeOK
<1>1. ASSUME UNCHANGED reservations PROVE SameResiduals
  BY <1>1 DEF SameResiduals
<1>2. ASSUME NEW e \in Evidences, NEW f \in 1..Target, AskCapital(e, f)
      PROVE  GoingOn'
  <2>1. /\ entry'.pc # "linking" /\ UNCHANGED <<lots, exit>> /\ ~ExitRuns
    <3>1. PICK pc, asked : /\ pc = (IF Valid(f) THEN "quoting" ELSE "refused")
                           /\ asked = Asking(pc, e, f, Stage)
      OBVIOUS
    <3>2. asked.pc # "linking" /\ NoEntry.pc # "linking"
      BY <3>1 DEF Asking, NoEntry
    <3>3. entry' \in {NoEntry, asked} /\ UNCHANGED <<lots, exit>> /\ ~ExitRuns
      BY <1>2, <3>1 DEF AskCapital
    <3>. QED  BY <3>2, <3>3
  <2>2. SameResiduals
    <3>1. CASE Ledger!Reserve(release, e, Whole(f))
      <4>1. f \in 1..Units
        OBVIOUS
      <4>. QED  BY <1>0, <3>1, <4>1, ReserveKeeps, KeptResiduals
    <3>2. CASE UNCHANGED ledger
      BY <1>1, <3>2 DEF ledger
    <3>. QED  BY <1>2, <3>1, <3>2 DEF AskCapital
  <2>. QED  BY <2>1, <2>2, LedgerStepGoesOn
<1>3. CASE DropEntry
  <2>1. PICK e \in Evidences : e = entry.evidence
    BY <1>3 DEF IInv, QuotesAreFunded, DropEntry
  <2>2. SameResiduals
    BY <1>0, <1>3, <2>1, CancelKeeps, KeptResiduals DEF DropEntry
  <2>. QED  BY <1>3, <2>2, TasksAreStates, LedgerStepGoesOn DEF DropEntry
<1>4. CASE \E l \in LotIds : CommitLot(l)
  BY <1>4, CommitGoesOn
<1>5. CASE FinishEntry
  <2>1. entry' = NoEntry /\ ~ExitRuns
    BY <1>5 DEF FinishEntry
  <2>2. CASE UNCHANGED <<ledger, lots, position, exit, release, losses, overtaken>>
    BY <1>1, <2>1, <2>2, TasksAreStates, LedgerStepGoesOn DEF ledger
  <2>3. CASE \E l \in LotIds : LinkLot(entry.evidence, l)
    <3>1. PICK e : e = entry.evidence
      OBVIOUS
    <3>. QED  BY <2>1, <2>3, <3>1, LinkGoesOn
  <2>. QED  BY <1>5, <2>2, <2>3 DEF FinishEntry
<1>6. CASE \E e \in Evidences : Recover(e)
  <2>1. PICK e \in Evidences, l \in LotIds : LinkLot(e, l)
    BY <1>6 DEF Recover
  <2>2. entry' = NoEntry /\ ~ExitRuns
    BY <1>6 DEF Recover
  <2>. QED  BY <2>1, <2>2, LinkGoesOn
<1>7. CASE Exits
  BY <1>7, ExitsApply, ExitGoesOn
<1>8. CASE StartExit \/ DropExit \/ KeepRunner
  <2>1. /\ UNCHANGED <<reservations, lots, entry>> /\ exit'.pc # "syncing"
    BY <1>8 DEF StartExit, DropExit, KeepRunner, ledger, Seen, NoExit
  <2>. QED  BY <1>1, <2>1, LedgerStepGoesOn
<1>10. CASE \E l \in LotIds : SyncLot(l)
  BY <1>10, SliceGoesOn
<1>11. ASSUME NEW o \in Others, NEW f \in OtherSizes, OtherReserves(o, f) PROVE GoingOn'
  <2>1. SameResiduals
    BY <1>0, <1>11, ReserveKeeps, KeptResiduals DEF OtherReserves
  <2>. QED  BY <1>11, <2>1, LedgerStepGoesOn DEF OtherReserves
<1>12. ASSUME NEW o \in Others, OtherSettles(o) PROVE GoingOn'
  <2>1. SameResiduals
    BY <1>0, <1>12, SettleKeeps, KeptResiduals DEF OtherSettles
  <2>. QED  BY <1>12, <2>1, LedgerStepGoesOn DEF OtherSettles
<1>13. CASE \E next \in Releases : Lose(next)
  BY <1>1, <1>13, TasksAreStates, LedgerStepGoesOn DEF Lose, ledger
<1>14. CASE UNCHANGED vars
  BY <1>1, <1>14, LedgerStepGoesOn DEF vars, ledger
<1>. QED  BY <1>2, <1>3, <1>4, <1>5, <1>6, <1>7, <1>8, <1>10, <1>11, <1>12, <1>13, <1>14
          DEF Next, Exits

LEMMA InitGoesOn == Init => GoingOn
<1>. SUFFICES ASSUME Init PROVE GoingOn
  OBVIOUS
<1>1. \A r \in Releases, l \in LotIds, n \in 1..Target : <<r, <<l, n>>>> \in Ledger!Keys
  BY DEF Ledger!Keys, Ledger!AllIds, Residuals
<1>2. ResidualsFollowSlices
  BY <1>1 DEF Init, Ledger!Init, Ledger!AbsentRow, ResidualsFollowSlices
<1>. QED  BY <1>2 DEF Init, NoEntry, NoExit, NoLot, GoingOn, QueueIsAhead, CommittedIsUnlinked,
            UnlinkedHaveNoSlices, EntryRuns

(* A lot that is ahead of its account and in line can be sliced: its       *)
(* reservation is the only row of its id, so nothing was settled under it. *)
LEMMA InLineCanSlice ==
  ASSUME IInv, GoingOn, Capital!IInv, exit.pc = "syncing", NEW l \in exit.queue, InLine(l)
  PROVE  CanSlice(l)
<1>. USE RobinhoodAssumption
<1>1. l \in LotIds /\ lots \in [LotIds -> Lot]
  BY DEF IInv, TypeOK
<1>2. /\ lots[l].remaining \in 0..Target /\ lots[l].slices \in 0..Target
      /\ lots[l].accounted \in 0..Target /\ lots[l].entry \in 0..Target
      /\ lots[l].remaining < lots[l].accounted /\ lots[l].link # Nothing
  BY <1>1 DEF Lot, GoingOn, QueueIsAhead
<1>3. l \in Taken /\ lots[l].slices + 1 \in 1..Target
  BY <1>1, <1>2 DEF IInv, AccountsAreBounded, Taken
<1>4. PICK i : i = lots[l].link
  OBVIOUS
<1>5. i \in Capital!AllIds
  BY <1>2, <1>3, <1>4, BackingIsOwn, SameKeys DEF Backing
<1>6. PICK r \in Releases : /\ Ledger!ActiveRows(i) = {r}
                            /\ reservations[<<r, i>>].reserved = lots[l].accounted
  BY <1>4 DEF InLine
<1>7. reservations[<<r, i>>].status = "active" /\ \A q \in Releases : <<q, i>> \in Capital!Keys
  BY <1>5, <1>6 DEF Ledger!ActiveRows, Capital!Keys
<1>8. ASSUME NEW q \in Releases PROVE ~ (settlements[<<q, i>>].fraction > 0)
  <2>1. CASE reservations[<<q, i>>].status = "settled"
    <3>1. q \in Capital!Rows(i) /\ r \in Capital!Rows(i)
      BY <1>7, <2>1 DEF Capital!Rows
    <3>2. q = r
      BY <1>5, <3>1 DEF Capital!IInv, Capital!OneRowPerReservation
    <3>. QED  BY <1>7, <2>1, <3>2
  <2>2. CASE reservations[<<q, i>>].status # "settled"
    BY <1>7, <2>2 DEF Capital!IInv, Capital!SettlementMatchesReservation
  <2>. QED  BY <2>1, <2>2
<1>9. Ledger!Settleable(r, i)
  BY <1>6, <1>8 DEF Ledger!Settleable, Ledger!Settled
<1>10. <<l, lots[l].slices + 1>> \in Residuals
  BY <1>1, <1>3 DEF Residuals
<1>11. Ledger!Rows(<<l, lots[l].slices + 1>>) = {}
  <2>. SUFFICES ASSUME NEW q \in Releases,
                       reservations[<<q, <<l, lots[l].slices + 1>>>>].status # "absent"
                PROVE  FALSE
    BY DEF Ledger!Rows
  <2>1. PICK n \in 1..Target : n = lots[l].slices + 1
    BY <1>3
  <2>2. n <= lots[l].slices
    BY <1>1, <2>1 DEF GoingOn, ResidualsFollowSlices
  <2>. QED  BY <1>2, <2>1, <2>2
<1>. QED  BY <1>2, <1>4, <1>6, <1>9, <1>10, <1>11 DEF CanSlice

(* In every reachable state the next transaction of either task is one the *)
(* ledger, the lots and the other task allow, so that no entry and no exit *)
(* is stuck half way.                                                      *)
THEOREM TasksAreNeverStuck == Spec => []TasksCanGoOn
<1>1. Capital!Spec => []Capital!IInv
  BY LedgerAssumption, Capital!SpecIInv
<1>2. IInv /\ GoingOn /\ Capital!IInv => TasksCanGoOn
  <2>. SUFFICES ASSUME IInv, GoingOn, Capital!IInv PROVE TasksCanGoOn
    OBVIOUS
  <2>1. entry.pc \in {"quoting", "refused"} => \E r \in Releases : Ledger!ActiveRows(entry.evidence) = {r}
    BY DEF IInv, QuotesAreFunded, Holds
  <2>2. ASSUME entry.pc = "linking" PROVE \E l \in LotIds : CanLink(entry.evidence, l)
    <3>1. PICK l \in LotsOf(entry.evidence) : lots[l].link = Nothing /\ lots[l].remaining > 0
      BY <2>2 DEF GoingOn, CommittedIsUnlinked
    <3>2. l \in LotIds /\ l \in Taken /\ lots[l].evidence = entry.evidence
      BY DEF LotsOf, Taken
    <3>3. \A k \in LotsOf(entry.evidence) : k = l
      BY <3>2 DEF LotsOf, IInv, EvidenceIsUsedOnce
    <3>4. Found(entry.evidence, l)
      BY <3>1, <3>2, <3>3 DEF Found
    <3>5. Holds(Backing(l), lots[l].remaining) /\ Backing(l) = lots[l].evidence
      BY <3>1, <3>2 DEF IInv, OpenLotsHold, OpenLots, Backing
    <3>. QED  BY <3>1, <3>2, <3>4, <3>5 DEF CanLink
  <2>3. ExitRuns => exit.pc = "syncing" /\ exit.queue # {}
    BY DEF GoingOn, QueueIsAhead, ExitRuns
  <2>. QED  BY <2>1, <2>2, <2>3, InLineCanSlice DEF TasksCanGoOn, GoingOn
<1>. QED  BY <1>1, <1>2, InitGoesOn, GoingOnNext, SpecIInv, LedgerIsCapital, PTL DEF Spec

(* Until the process is first lost no unit an exit sold stays reserved     *)
(* once the exit is done: what is still owed is in its queue and in line.  *)
THEOREM ExitsReachEveryLot == Spec => []SlicesAreOwed
<1>1. Init => (losses = 0 => Orderly)
  BY InitOrder
<1>2. IInv /\ (losses = 0 => Orderly) /\ [Next]_vars => (losses = 0 => Orderly)'
  BY OrderNext
<1>3. IInv /\ (losses = 0 => Orderly) => SlicesAreOwed
  <2>. SUFFICES ASSUME IInv, Orderly, NEW l \in Linked, lots[l].remaining < lots[l].accounted
                PROVE  ExitRuns /\ l \in exit.queue /\ InLine(l)
    BY DEF SlicesAreOwed
  <2>1. l \in LotIds /\ ExitRuns /\ l \in exit.queue
    BY DEF Orderly, QueueIsOutOfSync, ExitRuns, Linked, Taken
  <2>2. lots[l].remaining \in Nat /\ lots[l].accounted \in Nat
    BY <2>1 DEF IInv, TypeOK, Lot
  <2>3. PICK i, f : i = lots[l].link /\ f = lots[l].accounted
    OBVIOUS
  <2>4. HoldsExactly(i, f)
    BY <2>1, <2>2, <2>3 DEF Orderly, AccountsAreHeld, Accounted
  <2>5. Ledger!ActiveRows(i) = {1}
    BY <2>1, <2>3, <2>4, LinkIsOwn, ExactIsActive
  <2>. QED  BY <2>1, <2>3, <2>4, <2>5, ReleaseOne DEF InLine, HoldsExactly
<1>. QED  BY <1>1, <1>2, <1>3, SpecIInv, PTL DEF Spec
=============================================================================

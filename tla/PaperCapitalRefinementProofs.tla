-------------------- MODULE PaperCapitalRefinementProofs --------------------
(***************************************************************************)
(* The proof that PaperCapital implements PortfolioAccount under the       *)
(* mapping of PaperCapitalRefinement, for every value of the constants.    *)
(***************************************************************************)
EXTENDS PaperCapitalRefinement, PaperCapitalProofs

-----------------------------------------------------------------------------
(* An id without a row is an unused position that left nothing behind.     *)
LEMMA UnusedIs ==
  IInv => \A i \in AllIds : Rows(i) = {} =>
            PositionOf(i) = Account!Unused /\ RealisedBy(i) = Account!Nothing
<1>. SUFFICES ASSUME IInv, NEW i \in AllIds, Rows(i) = {}
              PROVE  PositionOf(i) = Account!Unused /\ RealisedBy(i) = Account!Nothing
  OBVIOUS
<1>1. ActiveRows(i) = {}
  BY DEF Rows, ActiveRows
<1>2. Settled(i) = {}
  <2>. SUFFICES ASSUME NEW r \in Releases, settlements[<<r, i>>].fraction > 0 PROVE FALSE
    BY DEF Settled
  <2>1. <<r, i>> \in Keys
    BY DEF Keys
  <2>2. reservations[<<r, i>>].status = "settled"
    BY <2>1 DEF IInv, SettlementMatchesReservation
  <2>. QED  BY <2>2 DEF Rows
<1>. QED  BY <1>1, <1>2 DEF PositionOf, HeldBy, RealisedBy, NoSettlement, Account!Unused,
     Account!Nothing

(* An id has one row, and that row and its settlement say what it is.      *)
RowsSayWhatTheyAre ==
  \A i \in AllIds, r \in Releases : r \in Rows(i) =>
    /\ PositionOf(i) = IF reservations[<<r, i>>].status = "active"
                       THEN Account!Held(reservations[<<r, i>>].reserved)
                       ELSE Account!Closed
    /\ RealisedBy(i) = IF settlements[<<r, i>>].fraction > 0
                       THEN settlements[<<r, i>>] ELSE Account!Nothing

LEMMA RowIs == IInv => RowsSayWhatTheyAre
<1>. SUFFICES ASSUME IInv, NEW i \in AllIds, NEW r \in Releases, r \in Rows(i)
              PROVE  /\ PositionOf(i) = IF reservations[<<r, i>>].status = "active"
                                        THEN Account!Held(reservations[<<r, i>>].reserved)
                                        ELSE Account!Closed
                     /\ RealisedBy(i) = IF settlements[<<r, i>>].fraction > 0
                                        THEN settlements[<<r, i>>] ELSE Account!Nothing
  BY DEF RowsSayWhatTheyAre
<1>1. Rows(i) = {r}
  BY DEF IInv, OneRowPerReservation
<1>2. ActiveRows(i) = IF reservations[<<r, i>>].status = "active" THEN {r} ELSE {}
  <2>1. ActiveRows(i) \subseteq Rows(i)
    BY DEF ActiveRows, Rows
  <2>2. r \in ActiveRows(i) <=> reservations[<<r, i>>].status = "active"
    BY DEF ActiveRows
  <2>. QED  BY <1>1, <2>1, <2>2
<1>3. Settled(i) = IF settlements[<<r, i>>].fraction > 0 THEN {r} ELSE {}
  <2>1. Settled(i) \subseteq Rows(i)
    <3>. SUFFICES ASSUME NEW q \in Releases, settlements[<<q, i>>].fraction > 0
                  PROVE  reservations[<<q, i>>].status # "absent"
      BY DEF Settled, Rows
    <3>1. <<q, i>> \in Keys
      BY DEF Keys
    <3>. QED  BY <3>1 DEF IInv, SettlementMatchesReservation
  <2>2. r \in Settled(i) <=> settlements[<<r, i>>].fraction > 0
    BY DEF Settled
  <2>. QED  BY <1>1, <2>1, <2>2
<1>4. OneOf({r}) = r
  BY DEF OneOf
<1>5. PositionOf(i) = IF reservations[<<r, i>>].status = "active"
                      THEN Account!Held(reservations[<<r, i>>].reserved)
                      ELSE Account!Closed
  <2>1. CASE reservations[<<r, i>>].status = "active"
    <3>1. HeldBy(i) = reservations[<<r, i>>].reserved
      BY <1>2, <1>4, <2>1 DEF HeldBy
    <3>. QED  BY <1>2, <2>1, <3>1 DEF PositionOf, Account!Held
  <2>2. CASE reservations[<<r, i>>].status # "active"
    BY <1>1, <1>2, <2>2 DEF PositionOf, HeldBy, Account!Closed
  <2>. QED  BY <2>1, <2>2
<1>6. RealisedBy(i) = IF settlements[<<r, i>>].fraction > 0
                      THEN settlements[<<r, i>>] ELSE Account!Nothing
  <2>1. CASE settlements[<<r, i>>].fraction > 0
    BY <1>3, <1>4, <2>1 DEF RealisedBy
  <2>2. CASE ~ (settlements[<<r, i>>].fraction > 0)
    BY <1>3, <2>2 DEF RealisedBy, NoSettlement, Account!Nothing
  <2>. QED  BY <2>1, <2>2
<1>. QED  BY <1>5, <1>6

(* The same of the state after a step.                                     *)
LEMMA RowIsNext == IInv' => RowsSayWhatTheyAre'
BY RowIs, PTL

(* An id whose rows a step leaves alone stays the position it was.         *)
LEMMA Untouched ==
  ASSUME NEW i \in AllIds,
         \A r \in Releases : /\ reservations'[<<r, i>>] = reservations[<<r, i>>]
                             /\ settlements'[<<r, i>>] = settlements[<<r, i>>]
  PROVE  PositionOf(i)' = PositionOf(i) /\ RealisedBy(i)' = RealisedBy(i)
<1>1. Rows(i)' = Rows(i) /\ ActiveRows(i)' = ActiveRows(i) /\ Settled(i)' = Settled(i)
  BY DEF Rows, ActiveRows, Settled
<1>2. ActiveRows(i) # {} => OneOf(ActiveRows(i)) \in Releases
  BY DEF ActiveRows, OneOf
<1>3. Settled(i) # {} => OneOf(Settled(i)) \in Releases
  BY DEF Settled, OneOf
<1>4. HeldBy(i)' = HeldBy(i)
  BY <1>1, <1>2 DEF HeldBy
<1>5. PositionOf(i)' = PositionOf(i)
  BY <1>1, <1>4 DEF PositionOf
<1>6. RealisedBy(i)' = RealisedBy(i)
  BY <1>1, <1>3 DEF RealisedBy
<1>. QED  BY <1>5, <1>6

-----------------------------------------------------------------------------
(* A fresh ledger is a fresh account.                                      *)
LEMMA InitMaps == Init => Account!Init
<1>. SUFFICES ASSUME Init PROVE Account!Init
  OBVIOUS
<1>1. \A i \in AllIds : Rows(i) = {}
  BY DEF Init, Rows, Keys, AbsentRow
<1>2. \A i \in AllIds : PositionOf(i) = Account!Unused /\ RealisedBy(i) = Account!Nothing
  BY <1>1, InitIInv, UnusedIs
<1>3. ActiveTotal = 0
  <2>1. HeldUnits(reservations) = {}
    BY DEF Init, HeldUnits, UnitsOf, AbsentRow
  <2>. QED  BY <2>1, FS_EmptySet DEF ActiveTotal, Total
<1>. QED  BY <1>2, <1>3, CapitalAssumption DEF Account!Init

(* A reservation opens a position within what is free, or is refused.      *)
LEMMA ReserveMaps ==
  ASSUME IInv, IInv', NEW r \in Releases, NEW i \in Ids, NEW call \in Calls, Reserve(r, i, call)
  PROVE  Account!Next
<1>. DEFINE n == Granted(call)
            k == <<r, i>>
<1>0. i \in AllIds /\ k \in Keys
  BY DEF AllIds, Keys
<1>1. PositionOf(i) = Account!Unused /\ RealisedBy(i) = Account!Nothing
  BY <1>0, UnusedIs DEF Reserve
<1>2. /\ reservations[k].status = "absent" /\ ~ (settlements[k].fraction > 0)
  BY <1>0 DEF Reserve, Rows, IInv, SettlementMatchesReservation
<1>3. /\ n \in Nat /\ NewRow(n) \in Row
      /\ n > 0 => ActiveTotal + n <= Units
  BY GrantFits DEF IInv
<1>4. /\ reservations' = [reservations EXCEPT ![k] = NewRow(n)]
      /\ reservations'[k] = NewRow(n) /\ settlements' = settlements
  BY <1>0 DEF Reserve, IInv, TypeOK
<1>5. \A j \in AllIds : j # i => PositionOf(j)' = PositionOf(j) /\ RealisedBy(j)' = RealisedBy(j)
  <2>. SUFFICES ASSUME NEW j \in AllIds, j # i
                PROVE  PositionOf(j)' = PositionOf(j) /\ RealisedBy(j)' = RealisedBy(j)
    OBVIOUS
  <2>1. \A q \in Releases : reservations'[<<q, j>>] = reservations[<<q, j>>]
    BY <1>4 DEF IInv, TypeOK, Keys
  <2>. QED  BY <1>4, <2>1, Untouched
<1>6. /\ PositionOf(i)' = IF n > 0 THEN Account!Held(n) ELSE Account!Closed
      /\ RealisedBy(i)' = Account!Nothing
  <2>1. r \in Rows(i)'
    BY <1>4 DEF Rows, NewRow
  <2>. QED  BY <1>0, <1>2, <1>4, <2>1, RowIsNext DEF NewRow, RowsSayWhatTheyAre
<1>7. ActiveTotal' = ActiveTotal + n
  <2>0. reservations \in [Keys -> Row]
    BY DEF IInv, TypeOK
  <2>1. Total(reservations') = ActiveTotal - UnitsOf(reservations[k]) + UnitsOf(NewRow(n))
    BY <1>0, <1>3, <1>4, <2>0, TotalAfterWrite DEF ActiveTotal
  <2>2. UnitsOf(reservations[k]) = 0 /\ UnitsOf(NewRow(n)) = n
    BY <1>2, <1>3 DEF UnitsOf, NewRow
  <2>3. ActiveTotal \in Nat
    BY HeldFinite DEF IInv, TypeOK, ActiveTotal
  <2>. QED  BY <1>3, <2>1, <2>2, <2>3 DEF ActiveTotal
<1>. DEFINE before == [j \in AllIds |-> PositionOf(j)]
            result == [j \in AllIds |-> RealisedBy(j)]
<1>8. result' = result
  BY <1>1, <1>5, <1>6
<1>9. before[i] = Account!Unused
  BY <1>0, <1>1
<1>10. ActiveTotal \in Nat /\ Units \in Nat
  BY HeldFinite, CapitalAssumption DEF IInv, TypeOK, ActiveTotal
<1>11. CASE n > 0
  <2>1. before' = [before EXCEPT ![i] = Account!Held(n)]
    BY <1>0, <1>5, <1>6, <1>11
  <2>2. n \in 1..(Units - ActiveTotal) /\ n \in 1..Units
    BY <1>3, <1>10, <1>11
  <2>3. (Units - ActiveTotal)' = Units - ActiveTotal - n
    BY <1>3, <1>7, <1>10
  <2>4. Account!Open(i, n)
    BY <1>8, <1>9, <2>1, <2>2, <2>3 DEF Account!Open
  <2>. QED  BY <1>0, <2>2, <2>4 DEF Account!Next
<1>12. CASE n = 0
  <2>0. PositionOf(i)' = Account!Closed
    BY <1>6, <1>12
  <2>1. before' = [before EXCEPT ![i] = Account!Closed]
    BY <1>0, <1>5, <2>0
  <2>2. (Units - ActiveTotal)' = Units - ActiveTotal
    BY <1>7, <1>10, <1>12
  <2>3. Account!Refuse(i)
    BY <1>8, <1>9, <2>1, <2>2 DEF Account!Refuse
  <2>. QED  BY <1>0, <2>3 DEF Account!Next
<1>. QED  BY <1>3, <1>11, <1>12

(* A position whose row closes was open with what the row holds, and the   *)
(* positions of all other ids stay as they are.                            *)
LEMMA ClosingMaps ==
  ASSUME IInv, IInv', NEW r \in Releases, NEW i \in AllIds, ActiveRows(i) = {r},
         reservations'[<<r, i>>].status \in {"cancelled", "settled"}
  PROVE  /\ PositionOf(i) = Account!Held(reservations[<<r, i>>].reserved)
         /\ RealisedBy(i) = Account!Nothing
         /\ PositionOf(i)' = Account!Closed
         /\ RealisedBy(i)' = IF settlements'[<<r, i>>].fraction > 0
                             THEN settlements'[<<r, i>>] ELSE Account!Nothing
<1>. DEFINE k == <<r, i>>
<1>1. k \in Keys /\ reservations[k].status = "active"
  BY DEF Keys, ActiveRows
<1>2. r \in Rows(i) /\ r \in Rows(i)'
  BY <1>1 DEF Rows
<1>3. ~ (settlements[k].fraction > 0)
  BY <1>1 DEF IInv, SettlementMatchesReservation
<1>4. PositionOf(i) = Account!Held(reservations[k].reserved) /\ RealisedBy(i) = Account!Nothing
  BY <1>1, <1>2, <1>3, RowIs DEF RowsSayWhatTheyAre
<1>5. PositionOf(i)' = Account!Closed
  BY <1>2, RowIsNext DEF RowsSayWhatTheyAre
<1>6. RealisedBy(i)' = IF settlements'[k].fraction > 0
                       THEN settlements'[k] ELSE Account!Nothing
  BY <1>2, RowIsNext DEF RowsSayWhatTheyAre
<1>. QED  BY <1>4, <1>5, <1>6

(* A cancellation gives the position's units back.                         *)
LEMMA CancelMaps ==
  ASSUME IInv, IInv', NEW i \in Ids, Cancel(i)
  PROVE  Account!Next
<1>1. PICK r \in Releases :
        /\ ActiveRows(i) = {r}
        /\ reservations' = Close(r, i, "cancelled")
        /\ settlements' = settlements
  BY DEF Cancel, Close
<1>. DEFINE k    == <<r, i>>
            held == reservations[k].reserved
            before == [j \in AllIds |-> PositionOf(j)]
            result == [j \in AllIds |-> RealisedBy(j)]
<1>0. i \in AllIds
  BY DEF AllIds
<1>2. /\ k \in Keys
      /\ held \in 1..Units
      /\ reservations'[k].status = "cancelled"
      /\ \A q \in Keys : q # k => reservations'[q] = reservations[q]
      /\ ActiveTotal' = ActiveTotal - held
  BY <1>0, <1>1, CloseHeldRow DEF ActiveTotal
<1>3. \A j \in AllIds : j # i => PositionOf(j)' = PositionOf(j) /\ RealisedBy(j)' = RealisedBy(j)
  BY <1>1, <1>2, Untouched DEF Keys
<1>4. /\ PositionOf(i) = Account!Held(held) /\ RealisedBy(i) = Account!Nothing
      /\ PositionOf(i)' = Account!Closed
      /\ RealisedBy(i)' = IF settlements'[k].fraction > 0 THEN settlements'[k] ELSE Account!Nothing
  BY <1>0, <1>1, <1>2, ClosingMaps
<1>5. RealisedBy(i)' = Account!Nothing
  <2>1. ~ (settlements'[k].fraction > 0)
    BY <1>1, <1>2 DEF IInv, SettlementMatchesReservation
  <2>. QED  BY <1>4, <2>1
<1>6. result' = result
  BY <1>3, <1>4, <1>5
<1>7. before' = [before EXCEPT ![i] = Account!Closed]
  BY <1>0, <1>3, <1>4
<1>8. before[i] = Account!Held(held)
  BY <1>0, <1>4
<1>9. (Units - ActiveTotal)' = Units - ActiveTotal + before[i].held
  <2>1. ActiveTotal \in Nat /\ Units \in Nat
    BY HeldFinite, CapitalAssumption DEF IInv, TypeOK, ActiveTotal
  <2>. QED  BY <1>2, <1>8, <2>1 DEF Account!Held
<1>10. Account!GiveBack(i)
  BY <1>6, <1>7, <1>8, <1>9 DEF Account!GiveBack, Account!Held
<1>. QED  BY <1>0, <1>10 DEF Account!Next

(* A settlement realises the whole position.                               *)
LEMMA SettleMaps ==
  ASSUME IInv, IInv', NEW i \in Ids, NEW net \in Returns, Settle(i, net)
  PROVE  Account!Next
<1>1. PICK r \in Releases :
        /\ ActiveRows(i) = {r}
        /\ settlements' = [settlements EXCEPT ![<<r, i>>] =
                             [fraction |-> reservations[<<r, i>>].reserved, net |-> net]]
        /\ reservations' = Close(r, i, "settled")
  BY DEF Settle, Settleable, Close
<1>. DEFINE k    == <<r, i>>
            held == reservations[k].reserved
            before == [j \in AllIds |-> PositionOf(j)]
            result == [j \in AllIds |-> RealisedBy(j)]
<1>0. i \in AllIds /\ settlements \in [Keys -> Settlement]
  BY DEF AllIds, IInv, TypeOK
<1>2. /\ k \in Keys
      /\ held \in 1..Units
      /\ reservations'[k].status = "settled"
      /\ \A q \in Keys : q # k => reservations'[q] = reservations[q]
      /\ ActiveTotal' = ActiveTotal - held
  BY <1>0, <1>1, CloseHeldRow DEF ActiveTotal
<1>3. /\ settlements'[k] = [fraction |-> held, net |-> net]
      /\ \A q \in Keys : q # k => settlements'[q] = settlements[q]
  BY <1>0, <1>1, <1>2
<1>4. \A j \in AllIds : j # i => PositionOf(j)' = PositionOf(j) /\ RealisedBy(j)' = RealisedBy(j)
  BY <1>2, <1>3, Untouched DEF Keys
<1>5. /\ PositionOf(i) = Account!Held(held) /\ RealisedBy(i) = Account!Nothing
      /\ PositionOf(i)' = Account!Closed
      /\ RealisedBy(i)' = IF settlements'[k].fraction > 0 THEN settlements'[k] ELSE Account!Nothing
  BY <1>0, <1>1, <1>2, ClosingMaps
<1>6. RealisedBy(i)' = [fraction |-> held, net |-> net]
  <2>1. settlements'[k].fraction > 0
    BY <1>2, <1>3
  <2>. QED  BY <1>3, <1>5, <2>1
<1>7. result' = [result EXCEPT ![i] = [fraction |-> held, net |-> net]]
  BY <1>0, <1>4, <1>6
<1>8. before' = [before EXCEPT ![i] = Account!Closed]
  BY <1>0, <1>4, <1>5
<1>9. before[i] = Account!Held(held) /\ result[i] = Account!Nothing
  BY <1>0, <1>5
<1>10. (Units - ActiveTotal)' = Units - ActiveTotal + before[i].held
  <2>1. ActiveTotal \in Nat /\ Units \in Nat
    BY HeldFinite, CapitalAssumption DEF IInv, TypeOK, ActiveTotal
  <2>. QED  BY <1>2, <1>9, <2>1 DEF Account!Held
<1>11. before[i].state = "open" /\ before[i].held = held
  BY <1>9 DEF Account!Held
<1>. HIDE DEF before, result
<1>12. Account!Realise(i, net)
  BY <1>7, <1>8, <1>9, <1>10, <1>11 DEF Account!Realise, before, result
<1>. QED  BY <1>0, <1>12 DEF Account!Next

(* A staged exit realises a part of the position, and the rest goes on     *)
(* under the residual's id; without a rest it realises the whole.          *)
LEMMA SettleSliceMaps ==
  ASSUME IInv, IInv', NEW i \in AllIds, NEW residual \in Residuals, NEW remaining \in 0..Units,
         NEW net \in Returns, SettleSlice(i, residual, remaining, net)
  PROVE  Account!Next
<1>1. PICK r \in Releases :
        /\ ActiveRows(i) = {r}
        /\ remaining < reservations[<<r, i>>].reserved
        /\ Rows(residual) = {}
        /\ settlements' = [settlements EXCEPT ![<<r, i>>] =
                             [fraction |-> reservations[<<r, i>>].reserved - remaining,
                              net |-> net]]
        /\ LET closed == Close(r, i, "settled")
           IN  reservations' = IF remaining > 0
                               THEN [closed EXCEPT ![<<r, residual>>] = NewRow(remaining)]
                               ELSE closed
  BY DEF SettleSlice, Settleable, Close
<1>. DEFINE k      == <<r, i>>
            rest   == <<r, residual>>
            closed == Close(r, i, "settled")
            held   == reservations[k].reserved
            before == [j \in AllIds |-> PositionOf(j)]
            result == [j \in AllIds |-> RealisedBy(j)]
            part   == [fraction |-> held - remaining, net |-> net]
<1>0. /\ residual \in AllIds /\ settlements \in [Keys -> Settlement]
      /\ ActiveTotal \in Nat /\ Units \in Nat
  BY HeldFinite, CapitalAssumption DEF AllIds, IInv, TypeOK, ActiveTotal
<1>2. /\ k \in Keys
      /\ reservations[k].status = "active"
      /\ held \in 1..Units
      /\ closed \in [Keys -> Row]
      /\ closed[k].status = "settled"
      /\ \A q \in Keys : q # k => closed[q] = reservations[q]
      /\ Total(closed) = ActiveTotal - held
  BY <1>1, CloseHeldRow
<1>3. rest \in Keys /\ reservations[rest].status = "absent" /\ residual # i
  BY <1>0, <1>1, <1>2 DEF Keys, Rows
<1>4. remaining > 0 => /\ NewRow(remaining) \in Row
                       /\ NewRow(remaining) = [status |-> "active", reserved |-> remaining]
                       /\ UnitsOf(NewRow(remaining)) = remaining
  BY CapitalAssumption DEF NewRow, Row, Statuses, UnitsOf
<1>5. /\ \A q \in Keys : q # rest => reservations'[q] = closed[q]
      /\ remaining > 0 => reservations'[rest] = NewRow(remaining)
      /\ remaining > 0 => reservations' = [closed EXCEPT ![rest] = NewRow(remaining)]
      /\ remaining = 0 => reservations' = closed
  BY <1>1, <1>2, <1>3
<1>6. /\ settlements'[k] = part
      /\ \A q \in Keys : q # k => settlements'[q] = settlements[q]
  BY <1>0, <1>1, <1>2
<1>. HIDE DEF closed
<1>7. reservations'[k].status = "settled"
  BY <1>2, <1>3, <1>5
<1>8. /\ PositionOf(i) = Account!Held(held) /\ RealisedBy(i) = Account!Nothing
      /\ PositionOf(i)' = Account!Closed
      /\ RealisedBy(i)' = IF settlements'[k].fraction > 0 THEN settlements'[k] ELSE Account!Nothing
  BY <1>1, <1>7, ClosingMaps
<1>9. RealisedBy(i)' = part
  <2>1. settlements'[k].fraction > 0
    BY <1>1, <1>2, <1>6
  <2>. QED  BY <1>6, <1>8, <2>1
<1>10. PositionOf(residual) = Account!Unused /\ RealisedBy(residual) = Account!Nothing
  BY <1>0, <1>1, UnusedIs
<1>11. ASSUME NEW j \in AllIds, j # i, j # residual \/ remaining = 0
       PROVE  PositionOf(j)' = PositionOf(j) /\ RealisedBy(j)' = RealisedBy(j)
  <2>1. \A q \in Releases : <<q, j>> \in Keys /\ <<q, j>> # k
    BY <1>11 DEF Keys
  <2>2. ASSUME NEW q \in Releases
        PROVE  reservations'[<<q, j>>] = reservations[<<q, j>>]
    <3>1. closed[<<q, j>>] = reservations[<<q, j>>]
      BY <1>2, <2>1
    <3>2. reservations'[<<q, j>>] = closed[<<q, j>>]
      BY <1>5, <1>11, <2>1
    <3>. QED  BY <3>1, <3>2
  <2>3. \A q \in Releases : settlements'[<<q, j>>] = settlements[<<q, j>>]
    BY <1>6, <2>1
  <2>. QED  BY <2>2, <2>3, Untouched
<1>12. before[i].state = "open" /\ before[i].held = held /\ result[i] = Account!Nothing
  BY <1>8 DEF Account!Held
<1>13. CASE remaining = 0
  <2>1. before' = [before EXCEPT ![i] = Account!Closed]
    BY <1>8, <1>11, <1>13
  <2>2. result' = [result EXCEPT ![i] = [fraction |-> held, net |-> net]]
    <3>1. part = [fraction |-> held, net |-> net]
      BY <1>2, <1>13
    <3>. QED  BY <1>9, <1>11, <1>13, <3>1
  <2>3. (Units - ActiveTotal)' = Units - ActiveTotal + before[i].held
    BY <1>0, <1>2, <1>5, <1>12, <1>13 DEF ActiveTotal
  <2>. HIDE DEF before, result
  <2>4. Account!Realise(i, net)
    BY <1>12, <2>1, <2>2, <2>3 DEF Account!Realise, before, result
  <2>. QED  BY <2>4 DEF Account!Next
<1>14. CASE remaining > 0
  <2>1. /\ PositionOf(residual)' = Account!Held(remaining)
        /\ RealisedBy(residual)' = Account!Nothing
    <3>1. reservations'[rest] = [status |-> "active", reserved |-> remaining]
      BY <1>4, <1>5, <1>14
    <3>2. r \in Rows(residual)'
      BY <3>1 DEF Rows
    <3>3. ~ (settlements'[rest].fraction > 0)
      <4>1. settlements'[rest] = settlements[rest]
        BY <1>3, <1>6
      <4>. QED  BY <1>3, <4>1 DEF IInv, SettlementMatchesReservation
    <3>. QED  BY <1>0, <3>1, <3>2, <3>3, RowIsNext DEF RowsSayWhatTheyAre
  <2>2. before' = [before EXCEPT ![i] = Account!Closed, ![residual] = Account!Held(remaining)]
    BY <1>0, <1>3, <1>8, <1>11, <2>1
  <2>3. result' = [result EXCEPT ![i] = part]
    BY <1>3, <1>9, <1>10, <1>11, <2>1
  <2>4. (Units - ActiveTotal)' = Units - ActiveTotal + before[i].held - remaining
    <3>1. Total(reservations') = Total(closed) - UnitsOf(closed[rest]) + UnitsOf(NewRow(remaining))
      BY <1>2, <1>3, <1>4, <1>5, <1>14, TotalAfterWrite
    <3>2. UnitsOf(closed[rest]) = 0
      BY <1>2, <1>3 DEF UnitsOf
    <3>3. Total(reservations') = ActiveTotal - held + remaining
      BY <1>0, <1>2, <1>4, <1>14, <3>1, <3>2
    <3>. QED  BY <1>0, <1>2, <1>12, <3>3 DEF ActiveTotal
  <2>5. remaining \in 1..(before[i].held - 1)
    BY <1>1, <1>2, <1>12, <1>14
  <2>6. before[residual] = Account!Unused
    BY <1>0, <1>10
  <2>. HIDE DEF before, result
  <2>7. Account!RealisePart(i, residual, remaining, net)
    BY <1>12, <2>2, <2>3, <2>4, <2>5, <2>6 DEF Account!RealisePart, before, result
  <2>. QED  BY <1>0, <1>14, <2>7 DEF Account!Next
<1>. QED  BY <1>13, <1>14

(* Every step of the ledger is a step of the account, or none.             *)
LEMMA NextMaps == IInv /\ IInv' /\ [Next]_vars => [Account!Next]_(Account!vars)
<1>. SUFFICES ASSUME IInv, IInv', [Next]_vars PROVE [Account!Next]_(Account!vars)
  OBVIOUS
<1>1. CASE \E r \in Releases, i \in Ids, call \in Calls : Reserve(r, i, call)
  BY <1>1, ReserveMaps
<1>2. CASE \E i \in Ids : Cancel(i)
  BY <1>2, CancelMaps
<1>3. CASE \E i \in Ids, net \in Returns : Settle(i, net)
  BY <1>3, SettleMaps
<1>4. CASE \E i \in AllIds, residual \in Residuals, remaining \in 0..Units, net \in Returns :
             SettleSlice(i, residual, remaining, net)
  BY <1>4, SettleSliceMaps
<1>5. CASE UNCHANGED vars
  <2>1. ActiveTotal' = ActiveTotal
    BY <1>5 DEF vars, ActiveTotal
  <2>2. \A i \in AllIds : PositionOf(i)' = PositionOf(i) /\ RealisedBy(i)' = RealisedBy(i)
    BY <1>5, Untouched DEF vars
  <2>. QED  BY <2>1, <2>2 DEF Account!vars
<1>. QED  BY <1>1, <1>2, <1>3, <1>4, <1>5 DEF Next

(* For every set of ids, releases, calls and every portfolio the ledger is *)
(* one account: releases, restarts and replays do not exist for it.        *)
THEOREM LedgerImplementsAccount == Spec => ImplementsAccount
<1>1. Init => Account!Init
  BY InitMaps
<1>. QED  BY <1>1, NextMaps, SpecIInv, PTL DEF Spec, ImplementsAccount, Account!Spec
=============================================================================

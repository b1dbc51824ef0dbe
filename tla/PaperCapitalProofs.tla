------------------------- MODULE PaperCapitalProofs -------------------------
(***************************************************************************)
(* Proofs about PaperCapital, for every set of releases and reservation    *)
(* ids, every portfolio size and every way of calling it.                  *)
(***************************************************************************)
EXTENDS PaperCapital, FiniteSetTheorems, TLAPS

(* Active rows hold something: the conjunct that makes a settlement of an  *)
(* active row a settlement of at least one unit.                           *)
ActiveHoldsUnits ==
  \A k \in Keys : reservations[k].status = "active" => reservations[k].reserved > 0

(* The inductive invariant of a fresh portfolio.                           *)
IInv ==
  /\ TypeOK
  /\ ActiveHoldsUnits
  /\ OneRowPerReservation
  /\ SettlementMatchesReservation
  /\ CapitalConserved

-----------------------------------------------------------------------------
(* The units one row holds, as the slice of HeldUnits that belongs to it.  *)
LEMMA RowUnits ==
  ASSUME NEW k, NEW n \in Nat
  PROVE  /\ IsFiniteSet({k} \X (1..n))
         /\ Cardinality({k} \X (1..n)) = n
<1>1. IsFiniteSet({k}) /\ Cardinality({k}) = 1
  BY FS_Singleton
<1>2. IsFiniteSet(1..n) /\ Cardinality(1..n) = n
  BY FS_Interval
<1>3. /\ IsFiniteSet({k} \X (1..n))
      /\ Cardinality({k} \X (1..n)) = Cardinality({k}) * Cardinality(1..n)
  BY <1>1, <1>2, FS_Product
<1>. QED  BY <1>1, <1>2, <1>3

(* A well-formed table holds finitely many units.                          *)
LEMMA HeldFinite ==
  ASSUME NEW table \in [Keys -> Row]
  PROVE  /\ IsFiniteSet(HeldUnits(table))
         /\ Total(table) \in Nat
<1>1. IsFiniteSet(Keys)
  BY CapitalAssumption, FS_Product DEF Keys
<1>2. IsFiniteSet(1..Units)
  BY CapitalAssumption, FS_Interval
<1>3. IsFiniteSet(Keys \X (1..Units))
  BY <1>1, <1>2, FS_Product
<1>4. HeldUnits(table) \in SUBSET (Keys \X (1..Units))
  BY DEF HeldUnits
<1>5. IsFiniteSet(HeldUnits(table))
  BY <1>3, <1>4, FS_Subset
<1>. QED  BY <1>5, FS_CardinalityType DEF Total

(* Replacing one row changes the total by what the two rows hold.          *)
LEMMA TotalAfterWrite ==
  ASSUME NEW table \in [Keys -> Row], NEW k \in Keys, NEW row \in Row
  PROVE  Total([table EXCEPT ![k] = row])
           = Total(table) - UnitsOf(table[k]) + UnitsOf(row)
<1>. DEFINE new    == [table EXCEPT ![k] = row]
            others == {h \in HeldUnits(table) : h[1] # k}
            Own(n) == {k} \X (1..n)
<1>1. new \in [Keys -> Row]
  OBVIOUS
<1>2. UnitsOf(table[k]) \in 0..Units /\ UnitsOf(row) \in 0..Units
  BY CapitalAssumption DEF UnitsOf, Row
<1>3. HeldUnits(table) = others \cup Own(UnitsOf(table[k]))
  BY <1>2, CapitalAssumption DEF HeldUnits
<1>4. HeldUnits(new) = others \cup Own(UnitsOf(row))
  BY <1>2, CapitalAssumption DEF HeldUnits
<1>5. IsFiniteSet(others)
  <2>1. others \in SUBSET HeldUnits(table)
    OBVIOUS
  <2>. QED  BY <2>1, HeldFinite, FS_Subset
<1>6. ASSUME NEW n \in 0..Units
      PROVE  Cardinality(others \cup Own(n)) = Cardinality(others) + n
  <2>. n \in Nat
    BY CapitalAssumption
  <2>1. IsFiniteSet(Own(n)) /\ Cardinality(Own(n)) = n
    BY RowUnits
  <2>2. others \cap Own(n) = {}
    OBVIOUS
  <2>3. Cardinality(others \cap Own(n)) = 0
    BY <2>2, FS_EmptySet
  <2>4. Cardinality(others \cup Own(n))
          = Cardinality(others) + Cardinality(Own(n)) - Cardinality(others \cap Own(n))
    BY <1>5, <2>1, FS_Union
  <2>5. Cardinality(others) \in Nat
    BY <1>5, FS_CardinalityType
  <2>. QED  BY <2>1, <2>3, <2>4, <2>5, CapitalAssumption
<1>7. Cardinality(others) \in Nat
  BY <1>5, FS_CardinalityType
<1>8. Total(table) = Cardinality(others) + UnitsOf(table[k])
  BY <1>2, <1>3, <1>6 DEF Total
<1>9. Total(new) = Cardinality(others) + UnitsOf(row)
  BY <1>2, <1>4, <1>6 DEF Total
<1>. QED  BY <1>2, <1>7, <1>8, <1>9, CapitalAssumption

(* A new reservation is within the free part of the caller's capacity, and *)
(* so within the portfolio.                                                *)
LEMMA GrantFits ==
  ASSUME TypeOK, NEW call \in Calls
  PROVE  /\ Granted(call) \in Nat
         /\ Granted(call) > 0 => ActiveTotal + Granted(call) <= Units
         /\ NewRow(Granted(call)) \in Row
<1>1. ActiveTotal \in Nat
  BY HeldFinite DEF TypeOK, ActiveTotal
<1>2. /\ call.requested \in Nat
      /\ call.minimum \in Nat
      /\ call.capacity \in 0..Units
  BY CapitalAssumption DEF Call
<1>3. Available(call.capacity) \in 0..Units
  BY <1>1, <1>2, CapitalAssumption DEF Available
<1>4. Granted(call) \in 0..Available(call.capacity)
  BY <1>2, <1>3, CapitalAssumption DEF Granted
<1>5. Granted(call) > 0 => ActiveTotal + Granted(call) <= Units
  BY <1>1, <1>2, <1>4, CapitalAssumption DEF Available
<1>6. NewRow(Granted(call)) \in Row
  BY <1>3, <1>4, CapitalAssumption DEF NewRow, Row, Statuses
<1>. QED  BY <1>3, <1>4, <1>5, <1>6, CapitalAssumption

-----------------------------------------------------------------------------
(* A fresh portfolio satisfies the invariant.                              *)
LEMMA InitIInv == Init => IInv
<1>. SUFFICES ASSUME Init PROVE IInv
  OBVIOUS
<1>1. TypeOK
  BY CapitalAssumption DEF Init, TypeOK, Row, Statuses, AbsentRow, Settlement, NoSettlement
<1>2. ActiveHoldsUnits
  BY DEF Init, ActiveHoldsUnits, AbsentRow
<1>3. OneRowPerReservation
  BY DEF Init, OneRowPerReservation, Rows, Keys, AbsentRow
<1>4. SettlementMatchesReservation
  BY DEF Init, SettlementMatchesReservation, AbsentRow, NoSettlement
<1>5. CapitalConserved
  <2>1. HeldUnits(reservations) = {}
    BY CapitalAssumption DEF Init, HeldUnits, UnitsOf, AbsentRow
  <2>2. ActiveTotal = 0
    BY <2>1, FS_EmptySet DEF ActiveTotal, Total
  <2>. QED  BY <2>2, CapitalAssumption DEF CapitalConserved
<1>. QED  BY <1>1, <1>2, <1>3, <1>4, <1>5 DEF IInv

(* Every reservation keeps the invariant.                                  *)
LEMMA ReserveIInv ==
  ASSUME IInv, NEW r \in Releases, NEW i \in Ids, NEW call \in Calls, Reserve(r, i, call)
  PROVE  IInv'
<1>. DEFINE k   == <<r, i>>
            row == NewRow(Granted(call))
<1>. USE DEF IInv
<1>1. k \in Keys
  BY DEF Keys, AllIds
<1>2. reservations' = [reservations EXCEPT ![k] = row] /\ settlements' = settlements
  BY DEF Reserve
<1>3. reservations[k].status = "absent"
  BY DEF Reserve, Rows
<1>4. row \in Row /\ Granted(call) \in Nat
  BY GrantFits
<1>5. TypeOK'
  BY <1>1, <1>2, <1>4 DEF TypeOK
<1>6. ActiveHoldsUnits'
  BY <1>1, <1>2, <1>4 DEF ActiveHoldsUnits, TypeOK, NewRow
<1>7. OneRowPerReservation'
  <2>1. ASSUME NEW j \in AllIds, NEW r1 \in Rows(j)', NEW r2 \in Rows(j)'
        PROVE  r1 = r2
    <3>1. CASE j = i
      <4>1. \A q \in Releases : q # r => reservations'[<<q, i>>].status = "absent"
        BY <1>2 DEF Reserve, Rows, TypeOK, Keys, AllIds
      <4>. QED  BY <3>1, <4>1 DEF Rows
    <3>2. CASE j # i
      <4>1. \A q \in Releases : reservations'[<<q, j>>] = reservations[<<q, j>>]
        BY <1>2, <3>2 DEF TypeOK, Keys
      <4>2. r1 \in Rows(j) /\ r2 \in Rows(j)
        BY <4>1 DEF Rows
      <4>. QED  BY <4>2 DEF OneRowPerReservation
    <3>. QED  BY <3>1, <3>2
  <2>. QED  BY <2>1 DEF OneRowPerReservation
<1>8. SettlementMatchesReservation'
  <2>1. settlements[k].fraction = 0
    BY <1>1, <1>3, CapitalAssumption DEF SettlementMatchesReservation, TypeOK, Settlement
  <2>2. row.status # "settled" /\ 0 <= row.reserved
    BY <1>4 DEF NewRow
  <2>. QED  BY <1>1, <1>2, <2>1, <2>2 DEF SettlementMatchesReservation, TypeOK
<1>9. CapitalConserved'
  <2>1. Total(reservations') = ActiveTotal - UnitsOf(reservations[k]) + UnitsOf(row)
    BY <1>1, <1>2, <1>4, TotalAfterWrite DEF TypeOK, ActiveTotal
  <2>2. UnitsOf(reservations[k]) = 0
    BY <1>3 DEF UnitsOf
  <2>3. UnitsOf(row) = Granted(call)
    BY <1>4 DEF UnitsOf, NewRow
  <2>4. ActiveTotal \in Nat
    BY HeldFinite DEF TypeOK, ActiveTotal
  <2>5. ActiveTotal + Granted(call) <= Units
    BY <1>4, <2>4, GrantFits, CapitalAssumption DEF CapitalConserved
  <2>. QED  BY <2>1, <2>2, <2>3, <2>4, <2>5, <1>4 DEF CapitalConserved, ActiveTotal
<1>. QED  BY <1>5, <1>6, <1>7, <1>8, <1>9

(* Closing the single active row of an id: what Cancel, Settle and a       *)
(* staged exit have in common.                                             *)
Close(r, i, s) == [reservations EXCEPT ![<<r, i>>].status = s]

(* A close keeps the row's fraction as history and frees what it held.     *)
LEMMA CloseRow ==
  ASSUME TypeOK, NEW r \in Releases, NEW i \in AllIds, ActiveRows(i) = {r},
         NEW s \in {"cancelled", "settled"}
  PROVE  /\ <<r, i>> \in Keys
         /\ reservations[<<r, i>>].status = "active"
         /\ reservations[<<r, i>>].reserved \in 0..Units
         /\ Close(r, i, s) \in [Keys -> Row]
         /\ Close(r, i, s)[<<r, i>>].status = s
         /\ Close(r, i, s)[<<r, i>>].reserved = reservations[<<r, i>>].reserved
         /\ \A k \in Keys : k # <<r, i>> => Close(r, i, s)[k] = reservations[k]
         /\ Total(Close(r, i, s)) = ActiveTotal - reservations[<<r, i>>].reserved
<1>. DEFINE k      == <<r, i>>
            row    == [reservations[k] EXCEPT !.status = s]
            closed == Close(r, i, s)
<1>. USE DEF Close
<1>1. k \in Keys
  BY DEF Keys
<1>2. reservations \in [Keys -> Row]
  BY DEF TypeOK
<1>3. reservations[k].status = "active"
  BY DEF ActiveRows
<1>4. reservations[k] \in Row
  BY <1>1, <1>2
<1>5. reservations[k].reserved \in 0..Units
  BY <1>4 DEF Row
<1>6. row \in Row /\ row.status = s /\ row.reserved = reservations[k].reserved
  BY <1>4 DEF Row, Statuses
<1>7. closed = [reservations EXCEPT ![k] = row]
  BY <1>1, <1>2
<1>8. closed \in [Keys -> Row] /\ closed[k] = row
  BY <1>1, <1>2, <1>6, <1>7
<1>9. \A q \in Keys : q # k => closed[q] = reservations[q]
  BY <1>1, <1>2, <1>7
<1>10. Total(closed) = ActiveTotal - UnitsOf(reservations[k]) + UnitsOf(row)
  BY <1>1, <1>2, <1>6, <1>7, TotalAfterWrite DEF ActiveTotal
<1>11. UnitsOf(reservations[k]) = reservations[k].reserved /\ UnitsOf(row) = 0
  BY <1>3, <1>6 DEF UnitsOf
<1>12. ActiveTotal \in Nat
  BY <1>2, HeldFinite DEF ActiveTotal
<1>13. Total(closed) = ActiveTotal - reservations[k].reserved
  BY <1>5, <1>10, <1>11, <1>12, CapitalAssumption
<1>. QED  BY <1>1, <1>3, <1>5, <1>6, <1>8, <1>9, <1>13

(* Under the invariant the row that closes holds at least a unit.          *)
LEMMA CloseHeldRow ==
  ASSUME IInv, NEW r \in Releases, NEW i \in AllIds, ActiveRows(i) = {r},
         NEW s \in {"cancelled", "settled"}
  PROVE  /\ <<r, i>> \in Keys
         /\ reservations[<<r, i>>].status = "active"
         /\ reservations[<<r, i>>].reserved \in 1..Units
         /\ Close(r, i, s) \in [Keys -> Row]
         /\ Close(r, i, s)[<<r, i>>].status = s
         /\ Close(r, i, s)[<<r, i>>].reserved = reservations[<<r, i>>].reserved
         /\ \A k \in Keys : k # <<r, i>> => Close(r, i, s)[k] = reservations[k]
         /\ Total(Close(r, i, s)) = ActiveTotal - reservations[<<r, i>>].reserved
<1>1. TypeOK /\ ActiveHoldsUnits
  BY DEF IInv
<1>2. reservations[<<r, i>>].reserved \in 1..Units
  BY <1>1, CloseRow, CapitalAssumption DEF ActiveHoldsUnits
<1>. QED  BY <1>1, <1>2, CloseRow

(* Cancellation keeps the invariant.                                       *)
LEMMA CancelIInv ==
  ASSUME IInv, NEW i \in Ids, Cancel(i)
  PROVE  IInv'
<1>1. PICK r \in Releases :
        /\ ActiveRows(i) = {r}
        /\ reservations' = Close(r, i, "cancelled")
        /\ settlements' = settlements
  BY DEF Cancel, Close
<1>. DEFINE k == <<r, i>>
<1>. i \in AllIds
  BY DEF AllIds
<1>2. /\ k \in Keys
      /\ reservations[k].status = "active"
      /\ reservations' \in [Keys -> Row]
      /\ reservations'[k].status = "cancelled"
      /\ reservations'[k].reserved = reservations[k].reserved
      /\ \A q \in Keys : q # k => reservations'[q] = reservations[q]
      /\ Total(reservations') = ActiveTotal - reservations[k].reserved
      /\ reservations[k].reserved \in 1..Units
  BY <1>1, CloseHeldRow
<1>3. TypeOK'
  BY <1>1, <1>2 DEF IInv, TypeOK
<1>4. ActiveHoldsUnits'
  BY <1>2 DEF IInv, ActiveHoldsUnits
<1>5. OneRowPerReservation'
  <2>1. \A q \in Releases, j \in AllIds : <<q, j>> \in Keys
    BY DEF Keys
  <2>2. \A j \in AllIds : Rows(j)' = Rows(j)
    BY <1>2, <2>1 DEF Rows
  <2>. QED  BY <2>2 DEF IInv, OneRowPerReservation
<1>6. SettlementMatchesReservation'
  BY <1>1, <1>2 DEF IInv, SettlementMatchesReservation
<1>7. CapitalConserved'
  <2>1. ActiveTotal \in Nat
    BY HeldFinite DEF IInv, TypeOK, ActiveTotal
  <2>. QED  BY <1>2, <2>1, CapitalAssumption DEF IInv, CapitalConserved, ActiveTotal
<1>. QED  BY <1>3, <1>4, <1>5, <1>6, <1>7 DEF IInv

(* A whole settlement keeps the invariant.                                 *)
LEMMA SettleIInv ==
  ASSUME IInv, NEW i \in Ids, NEW net \in Returns, Settle(i, net)
  PROVE  IInv'
<1>1. PICK r \in Releases :
        /\ ActiveRows(i) = {r}
        /\ settlements' = [settlements EXCEPT ![<<r, i>>] =
                             [fraction |-> reservations[<<r, i>>].reserved, net |-> net]]
        /\ reservations' = Close(r, i, "settled")
  BY DEF Settle, Settleable, Close
<1>. DEFINE k == <<r, i>>
<1>. i \in AllIds
  BY DEF AllIds
<1>2. /\ k \in Keys
      /\ reservations[k].status = "active"
      /\ reservations' \in [Keys -> Row]
      /\ reservations'[k].status = "settled"
      /\ reservations'[k].reserved = reservations[k].reserved
      /\ \A q \in Keys : q # k => reservations'[q] = reservations[q]
      /\ Total(reservations') = ActiveTotal - reservations[k].reserved
      /\ reservations[k].reserved \in 1..Units
  BY <1>1, CloseHeldRow
<1>3. [fraction |-> reservations[k].reserved, net |-> net] \in Settlement
  BY <1>2, CapitalAssumption DEF Settlement
<1>4. TypeOK'
  BY <1>1, <1>2, <1>3 DEF IInv, TypeOK
<1>5. /\ settlements'[k].fraction = reservations[k].reserved
      /\ \A q \in Keys : q # k => settlements'[q] = settlements[q]
  BY <1>1, <1>2 DEF IInv, TypeOK
<1>6. ActiveHoldsUnits'
  BY <1>2 DEF IInv, ActiveHoldsUnits
<1>7. OneRowPerReservation'
  <2>1. \A q \in Releases, j \in AllIds : <<q, j>> \in Keys
    BY DEF Keys
  <2>2. \A j \in AllIds : Rows(j)' = Rows(j)
    BY <1>2, <2>1 DEF Rows
  <2>. QED  BY <2>2 DEF IInv, OneRowPerReservation
<1>8. SettlementMatchesReservation'
  BY <1>2, <1>5, CapitalAssumption DEF IInv, SettlementMatchesReservation
<1>9. CapitalConserved'
  <2>1. ActiveTotal \in Nat
    BY HeldFinite DEF IInv, TypeOK, ActiveTotal
  <2>. QED  BY <1>2, <2>1, CapitalAssumption DEF IInv, CapitalConserved, ActiveTotal
<1>. QED  BY <1>4, <1>6, <1>7, <1>8, <1>9 DEF IInv

(* A staged exit keeps the invariant: the residual row takes up at most    *)
(* what the closed row gave back.                                          *)
LEMMA SettleSliceIInv ==
  ASSUME IInv, NEW i \in AllIds, NEW residual \in Residuals, NEW remaining \in 0..Units,
         NEW net \in Returns, SettleSlice(i, residual, remaining, net)
  PROVE  IInv'
<1>1. PICK r \in Releases :
        /\ ActiveRows(i) = {r}
        /\ remaining < reservations[<<r, i>>].reserved
        /\ Rows(residual) = {}
        /\ settlements' = [settlements EXCEPT ![<<r, i>>] =
                             [fraction |-> reservations[<<r, i>>].reserved - remaining,
                              net |-> net]]
        /\ LET closed == Close(r, i, "settled")
           IN  reservations' = IF remaining > 0
                               THEN [closed EXCEPT ![<<r, residual>>] = NewRow(remaining)]
                               ELSE closed
  BY DEF SettleSlice, Settleable, Close
<1>. DEFINE k      == <<r, i>>
            rest   == <<r, residual>>
            closed == Close(r, i, "settled")
<1>. residual \in AllIds
  BY DEF AllIds
<1>2. /\ k \in Keys
      /\ reservations[k].status = "active"
      /\ reservations[k].reserved \in 1..Units
      /\ closed \in [Keys -> Row]
      /\ closed[k].status = "settled"
      /\ closed[k].reserved = reservations[k].reserved
      /\ \A q \in Keys : q # k => closed[q] = reservations[q]
      /\ Total(closed) = ActiveTotal - reservations[k].reserved
  BY <1>1, CloseHeldRow
<1>3. rest \in Keys /\ reservations[rest].status = "absent" /\ rest # k
  BY <1>1, <1>2 DEF Keys, Rows
<1>4. /\ remaining > 0 => NewRow(remaining) \in Row
      /\ remaining > 0 => NewRow(remaining) = [status |-> "active", reserved |-> remaining]
  BY CapitalAssumption DEF NewRow, Row, Statuses
<1>5. /\ reservations' \in [Keys -> Row]
      /\ \A q \in Keys : q # rest => reservations'[q] = closed[q]
      /\ remaining > 0 => reservations'[rest] = NewRow(remaining)
      /\ remaining = 0 => reservations' = closed
  BY <1>1, <1>2, <1>3, <1>4
<1>13. /\ reservations'[k].status = "settled"
       /\ reservations'[k].reserved = reservations[k].reserved
       /\ \A q \in Keys : q \notin {k, rest} => reservations'[q] = reservations[q]
  BY <1>2, <1>3, <1>5
<1>14. remaining = 0 => reservations'[rest] = reservations[rest]
  BY <1>2, <1>3, <1>5
<1>. HIDE DEF closed
<1>6. [fraction |-> reservations[k].reserved - remaining, net |-> net] \in Settlement
  BY <1>1, <1>2, CapitalAssumption DEF Settlement
<1>7. /\ settlements' \in [Keys -> Settlement]
      /\ settlements'[k].fraction = reservations[k].reserved - remaining
      /\ \A q \in Keys : q # k => settlements'[q] = settlements[q]
  BY <1>1, <1>2, <1>6 DEF IInv, TypeOK
<1>8. TypeOK'
  BY <1>5, <1>7 DEF TypeOK
<1>9. ActiveHoldsUnits'
  <2>1. ASSUME NEW q \in Keys, reservations'[q].status = "active"
        PROVE  reservations'[q].reserved > 0
    <3>1. CASE q = rest /\ remaining > 0
      BY <1>4, <1>5, <3>1
    <3>2. CASE q # rest \/ remaining = 0
      <4>1. reservations'[q] = closed[q]
        BY <1>5, <3>2
      <4>2. q # k
        BY <1>2, <2>1, <4>1
      <4>. QED  BY <1>2, <2>1, <4>1, <4>2 DEF IInv, ActiveHoldsUnits
    <3>. QED  BY <3>1, <3>2
  <2>. QED  BY <2>1 DEF ActiveHoldsUnits
<1>10. OneRowPerReservation'
  <2>1. \A q \in Releases, j \in AllIds : <<q, j>> \in Keys
    BY DEF Keys
  <2>2. ASSUME NEW j \in AllIds, j # residual
        PROVE  Rows(j)' = Rows(j)
    <3>1. ASSUME NEW q \in Releases
          PROVE  reservations'[<<q, j>>].status = "absent"
                   <=> reservations[<<q, j>>].status = "absent"
      <4>1. <<q, j>> # rest
        BY <2>2
      <4>2. CASE <<q, j>> = k
        BY <1>2, <1>13, <4>2
      <4>3. CASE <<q, j>> # k
        BY <1>13, <2>1, <4>1, <4>3
      <4>. QED  BY <4>2, <4>3
    <3>. QED  BY <3>1 DEF Rows
  <2>3. \A q \in Rows(residual)' : q = r
    <3>1. \A q \in Releases : q # r => reservations'[<<q, residual>>] = reservations[<<q, residual>>]
      BY <1>2, <1>3, <1>5, <2>1
    <3>. QED  BY <1>1, <3>1 DEF Rows
  <2>. QED  BY <2>2, <2>3 DEF IInv, OneRowPerReservation
<1>11. SettlementMatchesReservation'
  <2>1. ASSUME NEW q \in Keys
        PROVE  /\ reservations'[q].status = "settled" <=> settlements'[q].fraction > 0
               /\ settlements'[q].fraction <= reservations'[q].reserved
    <3>1. CASE q = k
      BY <1>1, <1>2, <1>7, <1>13, <3>1, CapitalAssumption
    <3>2. CASE q = rest /\ remaining > 0
      <4>1. settlements'[q].fraction = 0
        BY <1>3, <1>7, <3>2, CapitalAssumption
           DEF IInv, TypeOK, SettlementMatchesReservation, Settlement
      <4>. QED  BY <1>4, <1>5, <3>2, <4>1
    <3>3. CASE q # k /\ ~(q = rest /\ remaining > 0)
      <4>1. reservations'[q] = reservations[q] /\ settlements'[q] = settlements[q]
        BY <1>2, <1>5, <1>7, <3>3
      <4>. QED  BY <4>1 DEF IInv, SettlementMatchesReservation
    <3>. QED  BY <3>1, <3>2, <3>3
  <2>. QED  BY <2>1 DEF SettlementMatchesReservation
<1>12. CapitalConserved'
  <2>1. ActiveTotal \in Nat /\ ActiveTotal <= Units
    BY HeldFinite DEF IInv, TypeOK, ActiveTotal, CapitalConserved
  <2>2. CASE remaining = 0
    <3>1. Total(reservations') = ActiveTotal - reservations[k].reserved
      BY <1>2, <1>5, <2>2
    <3>. QED  BY <1>2, <2>1, <3>1, CapitalAssumption DEF CapitalConserved, ActiveTotal
  <2>3. CASE remaining > 0
    <3>1. reservations' = [closed EXCEPT ![rest] = NewRow(remaining)]
      BY <1>1, <2>3 DEF closed
    <3>2. Total(reservations') = Total(closed) - UnitsOf(closed[rest]) + UnitsOf(NewRow(remaining))
      BY <1>2, <1>3, <1>4, <2>3, <3>1, TotalAfterWrite
    <3>3. UnitsOf(closed[rest]) = 0 /\ UnitsOf(NewRow(remaining)) = remaining
      BY <1>2, <1>3, <1>4, <2>3 DEF UnitsOf
    <3>. QED  BY <1>1, <1>2, <2>1, <3>2, <3>3, CapitalAssumption
              DEF CapitalConserved, ActiveTotal
  <2>. QED  BY <2>2, <2>3
<1>. QED  BY <1>8, <1>9, <1>10, <1>11, <1>12 DEF IInv

-----------------------------------------------------------------------------
(* Every step keeps the inductive invariant.                               *)
LEMMA NextIInv == IInv /\ [Next]_vars => IInv'
<1>. SUFFICES ASSUME IInv, [Next]_vars PROVE IInv'
  OBVIOUS
<1>1. CASE \E r \in Releases, i \in Ids, call \in Calls : Reserve(r, i, call)
  BY <1>1, ReserveIInv
<1>2. CASE \E i \in Ids : Cancel(i)
  BY <1>2, CancelIInv
<1>3. CASE \E i \in Ids, net \in Returns : Settle(i, net)
  BY <1>3, SettleIInv
<1>4. CASE \E i \in AllIds, residual \in Residuals, remaining \in 0..Units, net \in Returns :
             SettleSlice(i, residual, remaining, net)
  BY <1>4, SettleSliceIInv
<1>5. CASE UNCHANGED vars
  <2>. USE <1>5 DEF vars
  <2>1. TypeOK'
    BY DEF IInv, TypeOK
  <2>2. ActiveHoldsUnits'
    BY DEF IInv, ActiveHoldsUnits
  <2>3. OneRowPerReservation'
    BY DEF IInv, OneRowPerReservation, Rows
  <2>4. SettlementMatchesReservation'
    BY DEF IInv, SettlementMatchesReservation
  <2>5. CapitalConserved'
    BY DEF IInv, CapitalConserved, ActiveTotal
  <2>. QED  BY <2>1, <2>2, <2>3, <2>4, <2>5 DEF IInv
<1>. QED  BY <1>1, <1>2, <1>3, <1>4, <1>5 DEF Next

(* The inductive invariant holds in every reachable state of a portfolio   *)
(* that starts empty.                                                      *)
THEOREM SpecIInv == Spec => []IInv
<1>. QED  BY InitIInv, NextIInv, PTL DEF Spec

(* The tables stay well formed.                                            *)
THEOREM TypeCorrect == Spec => []TypeOK
<1>1. IInv => TypeOK
  BY DEF IInv
<1>. QED  BY <1>1, SpecIInv, PTL

(* The active reservations of every lane and release together never        *)
(* exceed the one portfolio (capital_conserved of capital_reconciliation). *)
THEOREM CapitalIsConserved == Spec => []CapitalConserved
<1>1. IInv => CapitalConserved
  BY DEF IInv
<1>. QED  BY <1>1, SpecIInv, PTL

(* A deploy creates no shadow capital: an id never owns rows in two        *)
(* releases.                                                               *)
THEOREM NoShadowReservation == Spec => []OneRowPerReservation
<1>1. IInv => OneRowPerReservation
  BY DEF IInv
<1>. QED  BY <1>1, SpecIInv, PTL

(* A settlement exists exactly for the settled reservations and never for  *)
(* a cancelled or rejected one.                                            *)
THEOREM SettlementsMatch == Spec => []SettlementMatchesReservation
<1>1. IInv => SettlementMatchesReservation
  BY DEF IInv
<1>. QED  BY <1>1, SpecIInv, PTL

-----------------------------------------------------------------------------
(* Type correctness needs none of the other conjuncts, so it also holds    *)
(* from a database that starts over-committed.                             *)
LEMMA NextTypeOK == TypeOK /\ [Next]_vars => TypeOK'
<1>. SUFFICES ASSUME TypeOK, [Next]_vars PROVE TypeOK'
  OBVIOUS
<1>1. ASSUME NEW r \in Releases, NEW i \in Ids, NEW call \in Calls, Reserve(r, i, call)
      PROVE  TypeOK'
  <2>1. <<r, i>> \in Keys
    BY DEF Keys, AllIds
  <2>. QED  BY <1>1, <2>1, GrantFits DEF Reserve, TypeOK
<1>2. ASSUME NEW i \in Ids, Cancel(i)
      PROVE  TypeOK'
  <2>1. i \in AllIds
    BY DEF AllIds
  <2>2. PICK r \in Releases :
          /\ ActiveRows(i) = {r}
          /\ reservations' = Close(r, i, "cancelled")
          /\ settlements' = settlements
    BY <1>2 DEF Cancel, Close
  <2>3. reservations' \in [Keys -> Row]
    BY <2>1, <2>2, CloseRow
  <2>. QED  BY <2>2, <2>3 DEF TypeOK
<1>3. ASSUME NEW i \in Ids, NEW net \in Returns, Settle(i, net)
      PROVE  TypeOK'
  <2>1. i \in AllIds
    BY DEF AllIds
  <2>2. PICK r \in Releases :
          /\ ActiveRows(i) = {r}
          /\ settlements' = [settlements EXCEPT ![<<r, i>>] =
                               [fraction |-> reservations[<<r, i>>].reserved, net |-> net]]
          /\ reservations' = Close(r, i, "settled")
    BY <1>3 DEF Settle, Settleable, Close
  <2>3. reservations' \in [Keys -> Row] /\ reservations[<<r, i>>].reserved \in 0..Units
    BY <2>1, <2>2, CloseRow
  <2>4. [fraction |-> reservations[<<r, i>>].reserved, net |-> net] \in Settlement
    BY <2>3, CapitalAssumption DEF Settlement
  <2>. QED  BY <2>2, <2>3, <2>4 DEF TypeOK
<1>4. ASSUME NEW i \in AllIds, NEW residual \in Residuals, NEW remaining \in 0..Units,
             NEW net \in Returns, SettleSlice(i, residual, remaining, net)
      PROVE  TypeOK'
  <2>1. PICK r \in Releases :
          /\ ActiveRows(i) = {r}
          /\ remaining < reservations[<<r, i>>].reserved
          /\ settlements' = [settlements EXCEPT ![<<r, i>>] =
                               [fraction |-> reservations[<<r, i>>].reserved - remaining,
                                net |-> net]]
          /\ LET closed == Close(r, i, "settled")
             IN  reservations' = IF remaining > 0
                                 THEN [closed EXCEPT ![<<r, residual>>] = NewRow(remaining)]
                                 ELSE closed
    BY <1>4 DEF SettleSlice, Settleable, Close
  <2>. DEFINE closed == Close(r, i, "settled")
  <2>2. closed \in [Keys -> Row] /\ reservations[<<r, i>>].reserved \in 0..Units
    BY <2>1, CloseRow
  <2>3. remaining > 0 => NewRow(remaining) \in Row
    BY DEF NewRow, Row, Statuses
  <2>4. reservations' \in [Keys -> Row]
    BY <2>1, <2>2, <2>3
  <2>5. [fraction |-> reservations[<<r, i>>].reserved - remaining, net |-> net] \in Settlement
    BY <2>1, <2>2, CapitalAssumption DEF Settlement
  <2>. QED  BY <2>1, <2>4, <2>5 DEF TypeOK
<1>5. CASE UNCHANGED vars
  BY <1>5 DEF vars, TypeOK
<1>. QED  BY <1>1, <1>2, <1>3, <1>4, <1>5 DEF Next

(* The database of the release-scoped ledger is well formed.               *)
LEMMA LegacyInitTypeOK == LegacyInit => TypeOK
<1>. SUFFICES ASSUME LegacyInit PROVE TypeOK
  OBVIOUS
<1>1. LegacyRow \cup {AbsentRow} \subseteq Row
  BY CapitalAssumption DEF LegacyRow, AbsentRow, Row, Statuses
<1>2. reservations \in [Keys -> Row]
  BY <1>1 DEF LegacyInit
<1>3. ASSUME NEW k \in Keys
      PROVE  settlements[k] \in Settlement
  <2>1. reservations[k].reserved \in 0..Units
    BY <1>2 DEF Row
  <2>2. settlements[k] = IF reservations[k].status = "settled"
                         THEN [fraction |-> reservations[k].reserved, net |-> 0]
                         ELSE NoSettlement
    BY DEF LegacyInit
  <2>. QED  BY <2>1, <2>2, CapitalAssumption DEF NoSettlement, Settlement
<1>4. settlements \in [Keys -> Settlement]
  BY <1>3 DEF LegacyInit
<1>. QED  BY <1>2, <1>4 DEF TypeOK

(* Only a reservation raises the active total, and then within Units.      *)
LEMMA NextGrants == TypeOK /\ [Next]_vars =>
                      (Total(reservations') > ActiveTotal => Total(reservations') <= Units)
<1>. SUFFICES ASSUME TypeOK, [Next]_vars, Total(reservations') > ActiveTotal
              PROVE  Total(reservations') <= Units
  OBVIOUS
<1>0. ActiveTotal \in Nat
  BY HeldFinite DEF TypeOK, ActiveTotal
<1>1. ASSUME NEW r \in Releases, NEW i \in Ids, NEW call \in Calls, Reserve(r, i, call)
      PROVE  Total(reservations') <= Units
  <2>. DEFINE row == NewRow(Granted(call))
  <2>1. <<r, i>> \in Keys /\ reservations[<<r, i>>].status = "absent"
    BY <1>1 DEF Reserve, Rows, Keys, AllIds
  <2>2. row \in Row /\ Granted(call) \in Nat
    BY GrantFits
  <2>3. Total(reservations') = ActiveTotal - UnitsOf(reservations[<<r, i>>]) + UnitsOf(row)
    BY <1>1, <2>1, <2>2, TotalAfterWrite DEF Reserve, TypeOK, ActiveTotal
  <2>4. UnitsOf(reservations[<<r, i>>]) = 0 /\ UnitsOf(row) = Granted(call)
    BY <2>1, <2>2 DEF UnitsOf, NewRow
  <2>. QED  BY <1>0, <2>2, <2>3, <2>4, GrantFits, CapitalAssumption
<1>2. ASSUME NEW i \in Ids, Cancel(i)
      PROVE  FALSE
  <2>1. i \in AllIds
    BY DEF AllIds
  <2>2. PICK r \in Releases :
          /\ ActiveRows(i) = {r}
          /\ reservations' = Close(r, i, "cancelled")
    BY <1>2 DEF Cancel, Close
  <2>3. /\ reservations[<<r, i>>].reserved \in 0..Units
        /\ Total(reservations') = ActiveTotal - reservations[<<r, i>>].reserved
    BY <2>1, <2>2, CloseRow
  <2>. QED  BY <1>0, <2>3, CapitalAssumption
<1>3. ASSUME NEW i \in Ids, NEW net \in Returns, Settle(i, net)
      PROVE  FALSE
  <2>1. i \in AllIds
    BY DEF AllIds
  <2>2. PICK r \in Releases :
          /\ ActiveRows(i) = {r}
          /\ reservations' = Close(r, i, "settled")
    BY <1>3 DEF Settle, Settleable, Close
  <2>3. /\ reservations[<<r, i>>].reserved \in 0..Units
        /\ Total(reservations') = ActiveTotal - reservations[<<r, i>>].reserved
    BY <2>1, <2>2, CloseRow
  <2>. QED  BY <1>0, <2>3, CapitalAssumption
<1>4. ASSUME NEW i \in AllIds, NEW residual \in Residuals, NEW remaining \in 0..Units,
             NEW net \in Returns, SettleSlice(i, residual, remaining, net)
      PROVE  FALSE
  <2>1. PICK r \in Releases :
          /\ ActiveRows(i) = {r}
          /\ remaining < reservations[<<r, i>>].reserved
          /\ Rows(residual) = {}
          /\ LET closed == Close(r, i, "settled")
             IN  reservations' = IF remaining > 0
                                 THEN [closed EXCEPT ![<<r, residual>>] = NewRow(remaining)]
                                 ELSE closed
    BY <1>4 DEF SettleSlice, Settleable, Close
  <2>. DEFINE closed == Close(r, i, "settled")
              rest   == <<r, residual>>
  <2>2. /\ <<r, i>> \in Keys
        /\ reservations[<<r, i>>].status = "active"
        /\ reservations[<<r, i>>].reserved \in 0..Units
        /\ closed \in [Keys -> Row]
        /\ \A q \in Keys : q # <<r, i>> => closed[q] = reservations[q]
        /\ Total(closed) = ActiveTotal - reservations[<<r, i>>].reserved
    BY <2>1, CloseRow
  <2>3. rest \in Keys /\ rest # <<r, i>> /\ reservations[rest].status = "absent"
    BY <2>1, <2>2 DEF Keys, AllIds, Rows
  <2>4. closed[rest].status = "absent"
    BY <2>2, <2>3
  <2>5. remaining > 0 => /\ reservations' = [closed EXCEPT ![rest] = NewRow(remaining)]
                         /\ NewRow(remaining) \in Row
                         /\ UnitsOf(NewRow(remaining)) = remaining
    BY <2>1, CapitalAssumption DEF NewRow, Row, Statuses, UnitsOf
  <2>6. remaining = 0 => reservations' = closed
    BY <2>1
  <2>. HIDE DEF closed
  <2>7. UnitsOf(closed[rest]) = 0
    BY <2>4 DEF UnitsOf
  <2>8. CASE remaining = 0
    <3>1. Total(reservations') = ActiveTotal - reservations[<<r, i>>].reserved
      BY <2>2, <2>6, <2>8
    <3>. QED  BY <1>0, <2>2, <3>1, CapitalAssumption
  <2>9. CASE remaining > 0
    <3>1. Total(reservations') = Total(closed) - UnitsOf(closed[rest]) + UnitsOf(NewRow(remaining))
      BY <2>2, <2>3, <2>5, <2>9, TotalAfterWrite
    <3>. QED  BY <1>0, <2>1, <2>2, <2>5, <2>7, <2>9, <3>1, CapitalAssumption
  <2>. QED  BY <2>8, <2>9
<1>5. CASE UNCHANGED vars
  BY <1>0, <1>5 DEF vars, ActiveTotal
<1>. QED  BY <1>1, <1>2, <1>3, <1>4, <1>5 DEF Next

(* Even over a database that starts over-committed, capital is handed out  *)
(* only up to the portfolio.                                               *)
THEOREM LegacyGrantsBounded == LegacySpec => GrantsStayWithinPortfolio
<1>1. TypeOK /\ [Next]_vars =>
        [Total(reservations') > ActiveTotal => Total(reservations') <= Units]_vars
  BY NextGrants
<1>. QED  BY <1>1, LegacyInitTypeOK, NextTypeOK, PTL DEF LegacySpec, GrantsStayWithinPortfolio

-----------------------------------------------------------------------------
(* What a step may write of a row and of its settlement: a row of an id    *)
(* nobody knows, or the only active row of an id without a settlement.     *)
LEMMA StepWrites ==
  ASSUME TypeOK, [Next]_vars, NEW q \in Releases, NEW j \in AllIds
  PROVE  \/ /\ reservations'[<<q, j>>] = reservations[<<q, j>>]
            /\ settlements'[<<q, j>>] = settlements[<<q, j>>]
         \/ Rows(j) = {} /\ settlements'[<<q, j>>] = settlements[<<q, j>>]
         \/ /\ ActiveRows(j) = {q}
            /\ settlements'[<<q, j>>] = settlements[<<q, j>>] \/ Settled(j) = {}
<1>. DEFINE k == <<q, j>>
<1>0. k \in Keys /\ reservations \in [Keys -> Row] /\ settlements \in [Keys -> Settlement]
  BY DEF Keys, TypeOK
<1>1. ASSUME NEW r \in Releases, NEW i \in Ids, NEW call \in Calls, Reserve(r, i, call), i # j
      PROVE  reservations'[k] = reservations[k] /\ settlements'[k] = settlements[k]
  BY <1>0, <1>1 DEF Reserve
<1>2. ASSUME NEW r \in Releases, NEW call \in Calls, Reserve(r, j, call)
      PROVE  Rows(j) = {} /\ settlements'[k] = settlements[k]
  BY <1>2 DEF Reserve
<1>3. ASSUME NEW i \in Ids, Cancel(i)
      PROVE  \/ reservations'[k] = reservations[k] /\ settlements'[k] = settlements[k]
             \/ ActiveRows(j) = {q} /\ settlements'[k] = settlements[k]
  <2>1. PICK r \in Releases :
          /\ ActiveRows(i) = {r}
          /\ reservations' = Close(r, i, "cancelled")
          /\ settlements' = settlements
    BY <1>3 DEF Cancel, Close
  <2>2. i \in AllIds
    BY DEF AllIds
  <2>3. k # <<r, i>> => reservations'[k] = reservations[k]
    BY <1>0, <2>1, <2>2, CloseRow
  <2>. QED  BY <2>1, <2>3
<1>4. ASSUME NEW i \in Ids, NEW net \in Returns, Settle(i, net)
      PROVE  \/ reservations'[k] = reservations[k] /\ settlements'[k] = settlements[k]
             \/ ActiveRows(j) = {q} /\ Settled(j) = {}
  <2>1. PICK r \in Releases :
          /\ ActiveRows(i) = {r} /\ Settled(i) = {}
          /\ reservations' = Close(r, i, "settled")
          /\ settlements' = [settlements EXCEPT ![<<r, i>>] =
                               [fraction |-> reservations[<<r, i>>].reserved, net |-> net]]
    BY <1>4 DEF Settle, Settleable, Close
  <2>2. i \in AllIds
    BY DEF AllIds
  <2>3. k # <<r, i>> => reservations'[k] = reservations[k]
    BY <1>0, <2>1, <2>2, CloseRow
  <2>4. k # <<r, i>> => settlements'[k] = settlements[k]
    BY <1>0, <2>1
  <2>. QED  BY <2>1, <2>3, <2>4
<1>5. ASSUME NEW i \in AllIds, NEW residual \in Residuals, NEW remaining \in 0..Units,
             NEW net \in Returns, SettleSlice(i, residual, remaining, net)
      PROVE  \/ reservations'[k] = reservations[k] /\ settlements'[k] = settlements[k]
             \/ Rows(j) = {} /\ settlements'[k] = settlements[k]
             \/ ActiveRows(j) = {q} /\ Settled(j) = {}
  <2>1. PICK r \in Releases :
          /\ ActiveRows(i) = {r} /\ Settled(i) = {} /\ Rows(residual) = {}
          /\ settlements' = [settlements EXCEPT ![<<r, i>>] =
                               [fraction |-> reservations[<<r, i>>].reserved - remaining,
                                net |-> net]]
          /\ LET closed == Close(r, i, "settled")
             IN  reservations' = IF remaining > 0
                                 THEN [closed EXCEPT ![<<r, residual>>] = NewRow(remaining)]
                                 ELSE closed
    BY <1>5 DEF SettleSlice, Settleable, Close
  <2>. DEFINE closed == Close(r, i, "settled")
  <2>2. closed \in [Keys -> Row] /\ (k # <<r, i>> => closed[k] = reservations[k])
    BY <1>0, <2>1, CloseRow
  <2>3. k \notin {<<r, i>>, <<r, residual>>} => reservations'[k] = closed[k]
    BY <1>0, <2>1, <2>2
  <2>. HIDE DEF closed
  <2>4. k # <<r, i>> => settlements'[k] = settlements[k]
    BY <1>0, <2>1
  <2>5. CASE k = <<r, i>>
    BY <2>1, <2>5
  <2>6. CASE k # <<r, i>> /\ k = <<r, residual>>
    BY <2>1, <2>4, <2>6
  <2>7. CASE k \notin {<<r, i>>, <<r, residual>>}
    BY <2>2, <2>3, <2>4, <2>7
  <2>. QED  BY <2>5, <2>6, <2>7
<1>6. CASE UNCHANGED vars
  BY <1>6 DEF vars
<1>7. CASE \E r \in Releases, i \in Ids, call \in Calls : Reserve(r, i, call)
  BY <1>1, <1>2, <1>7
<1>8. CASE \E i \in Ids : Cancel(i)
  BY <1>3, <1>8
<1>9. CASE \E i \in Ids, net \in Returns : Settle(i, net)
  BY <1>4, <1>9
<1>10. CASE \E i \in AllIds, residual \in Residuals, remaining \in 0..Units, net \in Returns :
               SettleSlice(i, residual, remaining, net)
  BY <1>5, <1>10
<1>. QED  BY <1>6, <1>7, <1>8, <1>9, <1>10 DEF Next

(* A row that left the active state, and a settlement, are never rewritten *)
(* by a replay, a late cancel or a second settlement.                      *)
THEOREM HistoryStands == Spec => HistoryIsImmutable
<1>. DEFINE History(k) ==
       /\ reservations[k].status \in {"rejected", "cancelled", "settled"}
            => reservations'[k] = reservations[k]
       /\ settlements[k].fraction > 0 => settlements'[k] = settlements[k]
<1>1. ASSUME TypeOK, [Next]_vars, NEW r \in Releases, NEW i \in AllIds
      PROVE  History(<<r, i>>)
  <2>1. Rows(i) = {} => reservations[<<r, i>>].status = "absent"
    BY DEF Rows
  <2>2. ActiveRows(i) = {r} => reservations[<<r, i>>].status = "active"
    BY DEF ActiveRows
  <2>3. Settled(i) = {} => ~ (settlements[<<r, i>>].fraction > 0)
    BY DEF Settled
  <2>. QED  BY <1>1, <2>1, <2>2, <2>3, StepWrites
<1>2. TypeOK /\ [Next]_vars => [\A k \in Keys : History(k)]_vars
  BY <1>1 DEF Keys
<1>. QED  BY <1>2, TypeCorrect, PTL DEF Spec, HistoryIsImmutable

(* Over a legacy table, an id with two active rows keeps both as they are. *)
THEOREM LegacyDuplicatesStand == LegacySpec => DuplicatesFailClosed
<1>. DEFINE Closed(i) ==
       Cardinality(ActiveRows(i)) > 1
         => \A r \in Releases : /\ reservations'[<<r, i>>] = reservations[<<r, i>>]
                                /\ settlements'[<<r, i>>] = settlements[<<r, i>>]
<1>1. ASSUME TypeOK, [Next]_vars, NEW i \in AllIds
      PROVE  Closed(i)
  <2>. SUFFICES ASSUME Cardinality(ActiveRows(i)) > 1, NEW r \in Releases
                PROVE  /\ reservations'[<<r, i>>] = reservations[<<r, i>>]
                       /\ settlements'[<<r, i>>] = settlements[<<r, i>>]
    OBVIOUS
  <2>1. ActiveRows(i) # {r}
    <3>1. Cardinality({r}) = 1
      BY FS_Singleton
    <3>. QED  BY <3>1
  <2>2. Rows(i) # {}
    <3>1. Rows(i) = {} => ActiveRows(i) = {}
      BY DEF Rows, ActiveRows
    <3>2. Cardinality({}) = 0
      BY FS_EmptySet
    <3>. QED  BY <3>1, <3>2
  <2>. QED  BY <1>1, <2>1, <2>2, StepWrites
<1>2. TypeOK /\ [Next]_vars => [\A i \in AllIds : Closed(i)]_vars
  BY <1>1
<1>. QED  BY <1>2, LegacyInitTypeOK, NextTypeOK, PTL DEF LegacySpec, DuplicatesFailClosed

(* What a settling step frees is what its settlement row accounts for, the *)
(* residual of a staged exit included.                                     *)
THEOREM FreedUnitsAreAccounted == Spec => FreedIsAccounted
<1>. DEFINE Freed(k) ==
       settlements'[k] # settlements[k]
         => Total(reservations') = ActiveTotal - settlements'[k].fraction
<1>1. ASSUME IInv, NEW k \in Keys, NEW i \in Ids, NEW net \in Returns, Settle(i, net)
      PROVE  Freed(k)
  <2>1. PICK r \in Releases :
          /\ ActiveRows(i) = {r}
          /\ reservations' = Close(r, i, "settled")
          /\ settlements' = [settlements EXCEPT ![<<r, i>>] =
                               [fraction |-> reservations[<<r, i>>].reserved, net |-> net]]
    BY <1>1 DEF Settle, Settleable, Close
  <2>2. i \in AllIds /\ settlements \in [Keys -> Settlement]
    BY <1>1 DEF AllIds, IInv, TypeOK
  <2>3. Total(reservations') = ActiveTotal - reservations[<<r, i>>].reserved
    BY <1>1, <2>1, <2>2, CloseHeldRow
  <2>4. k # <<r, i>> => settlements'[k] = settlements[k]
    BY <2>1, <2>2
  <2>5. k = <<r, i>> => settlements'[k].fraction = reservations[<<r, i>>].reserved
    BY <2>1, <2>2
  <2>. QED  BY <2>3, <2>4, <2>5
<1>2. ASSUME IInv, NEW k \in Keys, NEW i \in AllIds, NEW residual \in Residuals,
             NEW remaining \in 0..Units, NEW net \in Returns,
             SettleSlice(i, residual, remaining, net)
      PROVE  Freed(k)
  <2>1. PICK r \in Releases :
          /\ ActiveRows(i) = {r}
          /\ remaining < reservations[<<r, i>>].reserved
          /\ Rows(residual) = {}
          /\ settlements' = [settlements EXCEPT ![<<r, i>>] =
                               [fraction |-> reservations[<<r, i>>].reserved - remaining,
                                net |-> net]]
          /\ LET closed == Close(r, i, "settled")
             IN  reservations' = IF remaining > 0
                                 THEN [closed EXCEPT ![<<r, residual>>] = NewRow(remaining)]
                                 ELSE closed
    BY <1>2 DEF SettleSlice, Settleable, Close
  <2>. DEFINE closed == Close(r, i, "settled")
              rest   == <<r, residual>>
              held   == reservations[<<r, i>>].reserved
  <2>2. settlements \in [Keys -> Settlement] /\ ActiveTotal \in Nat
    BY <1>2, HeldFinite DEF IInv, TypeOK, ActiveTotal
  <2>3. /\ <<r, i>> \in Keys
        /\ reservations[<<r, i>>].status = "active"
        /\ held \in 1..Units
        /\ closed \in [Keys -> Row]
        /\ \A q \in Keys : q # <<r, i>> => closed[q] = reservations[q]
        /\ Total(closed) = ActiveTotal - held
    BY <1>2, <2>1, CloseHeldRow
  <2>4. rest \in Keys /\ rest # <<r, i>> /\ reservations[rest].status = "absent"
    BY <2>1, <2>3 DEF Keys, AllIds, Rows
  <2>5. closed[rest].status = "absent"
    BY <2>3, <2>4
  <2>6. remaining > 0 => /\ reservations' = [closed EXCEPT ![rest] = NewRow(remaining)]
                         /\ NewRow(remaining) \in Row
                         /\ UnitsOf(NewRow(remaining)) = remaining
    BY <2>1, CapitalAssumption DEF NewRow, Row, Statuses, UnitsOf
  <2>7. remaining = 0 => reservations' = closed
    BY <2>1
  <2>8. k # <<r, i>> => settlements'[k] = settlements[k]
    BY <2>1, <2>2
  <2>9. k = <<r, i>> => settlements'[k].fraction = held - remaining
    BY <2>1, <2>2, <2>3
  <2>. HIDE DEF closed
  <2>10. CASE remaining = 0
    BY <2>2, <2>3, <2>7, <2>8, <2>9, <2>10, CapitalAssumption
  <2>11. CASE remaining > 0
    <3>1. UnitsOf(closed[rest]) = 0
      BY <2>5 DEF UnitsOf
    <3>2. Total(reservations') = Total(closed) - UnitsOf(closed[rest]) + UnitsOf(NewRow(remaining))
      BY <2>3, <2>4, <2>6, <2>11, TotalAfterWrite
    <3>3. Total(reservations') = ActiveTotal - held + remaining
      BY <2>2, <2>3, <2>6, <2>11, <3>1, <3>2, CapitalAssumption
    <3>. QED  BY <2>2, <2>3, <2>8, <2>9, <3>3, CapitalAssumption
  <2>. QED  BY <2>10, <2>11
<1>3. ASSUME NEW k \in Keys, UNCHANGED settlements
      PROVE  Freed(k)
  BY <1>3
<1>4. IInv /\ [Next]_vars => [\A k \in Keys : Freed(k)]_vars
  <2>. SUFFICES ASSUME IInv, Next, NEW k \in Keys PROVE Freed(k)
    OBVIOUS
  <2>1. CASE \E r \in Releases, i \in Ids, call \in Calls : Reserve(r, i, call)
    BY <1>3, <2>1 DEF Reserve
  <2>2. CASE \E i \in Ids : Cancel(i)
    BY <1>3, <2>2 DEF Cancel
  <2>3. CASE \E i \in Ids, net \in Returns : Settle(i, net)
    BY <1>1, <2>3
  <2>4. CASE \E i \in AllIds, residual \in Residuals, remaining \in 0..Units, net \in Returns :
               SettleSlice(i, residual, remaining, net)
    BY <1>2, <2>4
  <2>. QED  BY <2>1, <2>2, <2>3, <2>4 DEF Next
<1>. QED  BY <1>4, SpecIInv, PTL DEF Spec, FreedIsAccounted
=============================================================================

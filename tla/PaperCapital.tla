---------------------------- MODULE PaperCapital ----------------------------
(***************************************************************************)
(* The atomic paper-capital ledger of v51_atomic_paper_capital.py, with    *)
(* the staged-exit transaction that v52_robinhood_canonical_capital_bridge *)
(* runs on the same two tables.                                            *)
(*                                                                         *)
(* One canonical portfolio is shared by every lane and every deployed      *)
(* release.  A release is lineage only: the identity of a reservation is   *)
(* its reservation_id, although the tables are unique by the pair          *)
(* (release_commit, reservation_id).  Every operation runs under           *)
(* BEGIN IMMEDIATE, so each is one atomic action whoever calls it.         *)
(* Branches that write nothing but a metric row, or that raise after a     *)
(* rollback, leave this state alone and are stuttering steps.              *)
(*                                                                         *)
(* A fraction of the portfolio is a number of whole units out of Units     *)
(* (fraction 1.0), so the code's 1e-12 tolerances vanish.                  *)
(***************************************************************************)
EXTENDS Integers, FiniteSets

CONSTANTS
  Releases,     \* release_commit values, one per deploy
  Ids,          \* reservation ids that entries ask for
  Residuals,    \* ids "robinhood-v52:trial:<n>:residual:<seq>" of staged exits
  Units,        \* units in the whole portfolio: DEFAULT_CAPACITY_FRACTION
  Calls,        \* the argument shapes callers reserve with
  Returns       \* net returns an exit can realise

AllIds == Ids \cup Residuals
Keys   == Releases \X AllIds

(* Arguments of reserve_paper_capital after _finite_fraction has clamped   *)
(* each fraction at zero.                                                  *)
Call == [requested : Nat, minimum : Nat, capacity : 0..Units, downsize : BOOLEAN]

ASSUME CapitalAssumption ==
  /\ IsFiniteSet(Releases)
  /\ IsFiniteSet(AllIds)
  /\ Ids \cap Residuals = {}
  /\ Units \in Nat
  /\ Calls \subseteq Call
  /\ Returns \subseteq Int

VARIABLES
  reservations,  \* v51_paper_capital_reservations, by (release, id)
  settlements    \* v51_paper_capital_settlements, by (release, id)

vars == <<reservations, settlements>>

Statuses     == {"absent", "active", "rejected", "cancelled", "settled"}
Row          == [status : Statuses, reserved : 0..Units]
AbsentRow    == [status |-> "absent", reserved |-> 0]
Settlement   == [fraction : 0..Units, net : Int]
NoSettlement == [fraction |-> 0, net |-> 0]   \* a settlement frees at least a unit

-----------------------------------------------------------------------------
(* SUM(reserved_fraction) over the active rows of the portfolio, as the    *)
(* number of units those rows hold.                                        *)
UnitsOf(row)     == IF row.status = "active" THEN row.reserved ELSE 0
HeldUnits(table) == {h \in Keys \X (1..Units) : h[2] <= UnitsOf(table[h[1]])}
Total(table)     == Cardinality(HeldUnits(table))
ActiveTotal      == Total(reservations)

Rows(i)       == {r \in Releases : reservations[<<r, i>>].status # "absent"}
ActiveRows(i) == {r \in Releases : reservations[<<r, i>>].status = "active"}
Settled(i)    == {r \in Releases : settlements[<<r, i>>].fraction > 0}

(* The status of the row a replayed reserve returns: the first in the      *)
(* ordering of _canonical_reservations.                                    *)
CanonicalStatus(i) ==
  LET has(s) == \E r \in Releases : reservations[<<r, i>>].status = s
  IN  IF has("active")         THEN "active"
      ELSE IF has("settled")   THEN "settled"
      ELSE IF has("cancelled") THEN "cancelled"
      ELSE IF has("rejected")  THEN "rejected"
      ELSE "absent"

(* Mutant: the capacity check forgets what is already reserved.            *)
AvailableIgnoringHeld(capacity) == capacity

Available(capacity) ==
  IF capacity > ActiveTotal THEN capacity - ActiveTotal ELSE 0

(* The fraction a new reservation gets, zero when it is rejected.          *)
Granted(call) ==
  LET free  == Available(call.capacity)
      offer == IF call.requested <= free THEN call.requested
               ELSE IF call.downsize THEN free ELSE 0
  IN  IF offer < call.minimum THEN 0 ELSE offer

NewRow(granted) ==
  [status |-> IF granted > 0 THEN "active" ELSE "rejected", reserved |-> granted]

-----------------------------------------------------------------------------
(* Mutant: replay looks for the row of the calling release only.           *)
ReserveReleaseScoped(r, i, call) ==
  /\ r \notin Rows(i)
  /\ reservations' = [reservations EXCEPT ![<<r, i>>] = NewRow(Granted(call))]
  /\ UNCHANGED settlements

(* reserve_paper_capital for an id the portfolio has never seen.  Any      *)
(* earlier row of any release, whatever its status, is returned unchanged. *)
Reserve(r, i, call) ==
  /\ Rows(i) = {}
  /\ reservations' = [reservations EXCEPT ![<<r, i>>] = NewRow(Granted(call))]
  /\ UNCHANGED settlements

(* Mutants: cancel whatever row is found, or the first of two active ones. *)
CancelAnyRow(i) ==
  \E r \in Rows(i) :
    /\ reservations' = [reservations EXCEPT ![<<r, i>>].status = "cancelled"]
    /\ UNCHANGED settlements

CancelFirstActive(i) ==
  \E r \in ActiveRows(i) :
    /\ reservations' = [reservations EXCEPT ![<<r, i>>].status = "cancelled"]
    /\ UNCHANGED settlements

(* cancel_paper_capital: the single active row, found across releases.     *)
Cancel(i) ==
  \E r \in Releases :
    /\ ActiveRows(i) = {r}
    /\ reservations' = [reservations EXCEPT ![<<r, i>>].status = "cancelled"]
    /\ UNCHANGED settlements

(* Mutant: settle a row that is no longer active.                          *)
SettleableAnyStatus(r, i) == r \in Rows(i) /\ Settled(i) = {}

(* What settle_paper_capital and the staged exit both require: exactly one *)
(* active row, and no settlement of this id in any release.                *)
Settleable(r, i) ==
  /\ ActiveRows(i) = {r}
  /\ Settled(i) = {}

(* settle_paper_capital: the settlement is written under the reservation's *)
(* origin release, whatever release calls.                                 *)
Settle(i, net) ==
  \E r \in Releases :
    /\ Settleable(r, i)
    /\ settlements' = [settlements EXCEPT ![<<r, i>>] =
                         [fraction |-> reservations[<<r, i>>].reserved, net |-> net]]
    /\ reservations' = [reservations EXCEPT ![<<r, i>>].status = "settled"]

(* Mutant: a slice may be realised although the remaining fraction grew.   *)
SettleSliceUnordered(i, residual, remaining, net) ==
  \E r \in Releases :
    /\ Settleable(r, i)
    /\ Rows(residual) = {}
    /\ settlements' = [settlements EXCEPT ![<<r, i>>] =
                         [fraction |-> reservations[<<r, i>>].reserved - remaining,
                          net |-> net]]
    /\ reservations' = [reservations EXCEPT ![<<r, i>>].status = "settled",
                                            ![<<r, residual>>] = NewRow(remaining)]

(* _settle_lot_delta_canonical: realise the sold slice of a lot and, in    *)
(* the same transaction, carry what remains under a new residual id.  The  *)
(* settlement sequence makes that id new.  A full exit has remaining = 0.  *)
SettleSlice(i, residual, remaining, net) ==
  \E r \in Releases :
    /\ Settleable(r, i)
    /\ remaining < reservations[<<r, i>>].reserved
    /\ Rows(residual) = {}
    /\ settlements' = [settlements EXCEPT ![<<r, i>>] =
                         [fraction |-> reservations[<<r, i>>].reserved - remaining,
                          net |-> net]]
    /\ LET closed == [reservations EXCEPT ![<<r, i>>].status = "settled"]
       IN  reservations' =
             IF remaining > 0
             THEN [closed EXCEPT ![<<r, residual>>] = NewRow(remaining)]
             ELSE closed

Init ==
  /\ reservations = [k \in Keys |-> AbsentRow]
  /\ settlements  = [k \in Keys |-> NoSettlement]

Next ==
  \/ \E r \in Releases, i \in Ids, call \in Calls : Reserve(r, i, call)
  \/ \E i \in Ids : Cancel(i)
  \/ \E i \in Ids, net \in Returns : Settle(i, net)
  \/ \E i \in AllIds, residual \in Residuals, remaining \in 0..Units, net \in Returns :
        SettleSlice(i, residual, remaining, net)

Spec == Init /\ [][Next]_vars

(* A database written before the canonical-portfolio repair: identity and  *)
(* capacity were scoped to one release, so an id may own a row in several  *)
(* releases and the portfolio may already be over-committed.               *)
LegacyRow == [status : {"active", "settled"}, reserved : 1..Units]

LegacyInit ==
  /\ reservations \in [Keys -> LegacyRow \cup {AbsentRow}]
  /\ \A k \in Releases \X Residuals : reservations[k] = AbsentRow
  /\ \A r \in Releases :
       Cardinality({h \in HeldUnits(reservations) : h[1][1] = r}) <= Units
  /\ settlements = [k \in Keys |->
                      IF reservations[k].status = "settled"
                      THEN [fraction |-> reservations[k].reserved, net |-> 0]
                      ELSE NoSettlement]

LegacySpec == LegacyInit /\ [][Next]_vars

-----------------------------------------------------------------------------
(* Type invariant: both tables stay well formed.                           *)
TypeOK ==
  /\ reservations \in [Keys -> Row]
  /\ settlements \in [Keys -> Settlement]

(* capital_conserved of capital_reconciliation: the active reservations of *)
(* every lane and every release together never exceed the one portfolio.   *)
CapitalConserved == ActiveTotal <= Units

(* A release is not a capital reset boundary: no id ever owns a row in two *)
(* releases, so replay across a deploy creates no shadow capital.          *)
OneRowPerReservation ==
  \A i \in AllIds : \A r1, r2 \in Rows(i) : r1 = r2

(* A reservation is settled exactly when its settlement row exists, under  *)
(* the same release; a cancelled or rejected one never has a settlement.   *)
SettlementMatchesReservation ==
  \A k \in Keys :
    /\ reservations[k].status = "settled" <=> settlements[k].fraction > 0
    /\ settlements[k].fraction <= reservations[k].reserved

(* Capital leaves a position only by a settlement of that size, or whole   *)
(* by a cancellation: the units a settling step frees are the fraction its *)
(* settlement row accounts for, residual included.                         *)
FreedIsAccounted ==
  [][ \A k \in Keys :
        settlements'[k] # settlements[k]
          => Total(reservations') = ActiveTotal - settlements'[k].fraction ]_vars

(* Rows that left the active state are history: no replay, late cancel or  *)
(* second settlement rewrites them, and no settlement row changes.         *)
HistoryIsImmutable ==
  [][ \A k \in Keys :
        /\ reservations[k].status \in {"rejected", "cancelled", "settled"}
             => reservations'[k] = reservations[k]
        /\ settlements[k].fraction > 0 => settlements'[k] = settlements[k] ]_vars

(* Even over a database that is already over-committed, capital is only    *)
(* handed out up to the portfolio: no step raises the total above Units.   *)
GrantsStayWithinPortfolio ==
  [][ Total(reservations') > ActiveTotal => Total(reservations') <= Units ]_vars

(* An id with two active rows is refused by every operation, so neither    *)
(* row can be cancelled or settled as if it were the only one.             *)
DuplicatesFailClosed ==
  [][ \A i \in AllIds :
        Cardinality(ActiveRows(i)) > 1
          => \A r \in Releases : /\ reservations'[<<r, i>>] = reservations[<<r, i>>]
                                 /\ settlements'[<<r, i>>] = settlements[<<r, i>>] ]_vars
=============================================================================

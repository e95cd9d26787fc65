---------------------------- MODULE RuntimeQuota ----------------------------
(***************************************************************************)
(* nexssflow/storage_backend.go: the budget record of one tenant in an     *)
(* atomic key-value store.  Each operation is one kv.Update, a read and a  *)
(* write of the whole record that nothing comes between.  A function that  *)
(* returns an error leaves the record as it was.                           *)
(*                                                                         *)
(* charge is a history variable: what the commit of each reservation       *)
(* added to spent_micros.                                                  *)
(***************************************************************************)
EXTENDS MicroSum

CONSTANTS Requests, \* the protected calls of one tenant, one reservation each
          MaxInt,   \* math.MaxInt64, scaled down
          Limits    \* arguments of SetRuntimeBudget

ASSUME RuntimeQuotaAssumption ==
  /\ IsFiniteSet(Requests)
  /\ MaxInt \in Nat
  /\ Limits \subseteq -(MaxInt + 1)..MaxInt

VARIABLES budget, \* budget_micros, or None while the tenant has no record
          spent,  \* spent_micros
          hold,   \* the map of reservations: an amount, or None
          charge  \* the charge of each reservation, or None

record == <<budget, spent, hold>>

None == -1

Open    == {q \in Requests : hold[q] # None}
Charged == {q \in Requests : charge[q] # None}

InitRecord ==
  /\ budget = None
  /\ spent = 0
  /\ hold   = [q \in Requests |-> None]
  /\ charge = [q \in Requests |-> None]

\* SetRuntimeBudget creates the record or replaces its limit.
SetRuntimeBudget_NewRecord(l) ==
  /\ l >= 0
  /\ budget' = l
  /\ spent' = 0
  /\ hold' = [q \in Requests |-> None]
  /\ UNCHANGED charge
SetRuntimeBudget(l) ==
  /\ l >= 0
  /\ budget' = l
  /\ UNCHANGED <<spent, hold, charge>>

ValidEstimate(e) == 0 <= e /\ e <= MaxInt \div 2

Reserved == Total(hold, Open)

\* The sums that Reserve forms do not fit an int64.
Overflows(e) == spent + Reserved > MaxInt \/ e > MaxInt - (spent + Reserved)

Exceeds_IgnoresHolds(e) == e > budget - spent
Exceeds(e) == e > budget - (spent + Reserved)

\* A reservation of a tenant without a policy, or whose sums overflow, is an
\* error; one without room is a denial.
ReserveFails(e) == ~ValidEstimate(e) \/ budget = None \/ Overflows(e)
ReserveDenied(e) == ~ReserveFails(e) /\ Exceeds(e)
ReserveApplies(q, e) ==
  /\ ~ReserveFails(e) /\ ~Exceeds(e)
  /\ hold' = [hold EXCEPT ![q] = e]
  /\ UNCHANGED <<budget, spent, charge>>

\* A commit needs its reservation in the record, and room in the counter.
CommitFails(q, a) == hold[q] = None \/ a > MaxInt - spent
CommitApplies_KeepsHold(q, a) ==
  /\ ~CommitFails(q, a)
  /\ spent' = spent + a
  /\ charge' = [charge EXCEPT ![q] = a]
  /\ UNCHANGED <<budget, hold>>
CommitApplies_Reserved(q, a) ==
  /\ ~CommitFails(q, a)
  /\ hold' = [hold EXCEPT ![q] = None]
  /\ spent' = spent + hold[q]
  /\ charge' = [charge EXCEPT ![q] = a]
  /\ UNCHANGED budget
CommitApplies(q, a) ==
  /\ ~CommitFails(q, a)
  /\ hold' = [hold EXCEPT ![q] = None]
  /\ spent' = spent + a
  /\ charge' = [charge EXCEPT ![q] = a]
  /\ UNCHANGED budget

ReleaseFails(q) == hold[q] = None
ReleaseApplies(q) ==
  /\ ~ReleaseFails(q)
  /\ hold' = [hold EXCEPT ![q] = None]
  /\ UNCHANGED <<budget, spent, charge>>
-----------------------------------------------------------------------------
(* Properties.                                                             *)

\* spent_micros is the sum of what commits charged, whichever of them failed,
\* were repeated, or were cut off from their answer.
SpentIsCharged == spent = Total(charge, Charged)

\* The record keeps the contract of a budget whose limit is a policy that
\* changes: "reservations already admitted are allowed to finish and settle"
\* (nexssflow/README).
MB == INSTANCE MovingBudget WITH
  Reservations <- Requests, limit <- IF budget = None THEN 0 ELSE budget

ImplementsMovingBudget == MB!MovingSpec
=============================================================================

---------------------------- MODULE MovingBudget ----------------------------
(***************************************************************************)
(* What a ledger promises whose limit changes while reservations are open: *)
(* the budget policy of the runtime quota, or the money of a prepaid       *)
(* wallet.  A hold is granted only if the limit of that moment has room    *)
(* for it beside every other hold and charge.  A later, lower limit takes  *)
(* no hold back, and a hold ends once: charged, dropped or expired.        *)
(***************************************************************************)
EXTENDS MicroSum

CONSTANTS Reservations, \* identities of the holds
          None          \* no hold, or no charge

VARIABLES limit,  \* the limit in force
          hold,   \* micros held by each reservation, or None
          charge  \* micros charged for each reservation, or None

movingVars == <<limit, hold, charge>>

Holding == {r \in Reservations : hold[r] # None}
Charged == {r \in Reservations : charge[r] # None}

MovingInit ==
  /\ limit \in Nat
  /\ hold   = [r \in Reservations |-> None]
  /\ charge = [r \in Reservations |-> None]

\* The holds once the expired leases S are gone.
Without(S) == [r \in Reservations |-> IF r \in S THEN None ELSE hold[r]]

\* Reserve, in a step that also takes back the expired leases S.
Grant(r, S) ==
  /\ hold[r] = None /\ charge[r] = None
  /\ hold'[r] \in Nat
  /\ Total(hold, Holding \ S) + Total(charge, Charged) + hold'[r] <= limit
  /\ hold' = [Without(S) EXCEPT ![r] = hold'[r]]
  /\ UNCHANGED <<limit, charge>>

\* Commit takes effect: the charge replaces the hold.
Charge(r) ==
  /\ hold[r] # None /\ charge[r] = None
  /\ hold' = [hold EXCEPT ![r] = None]
  /\ charge'[r] \in Nat
  /\ charge' = [charge EXCEPT ![r] = charge'[r]]
  /\ UNCHANGED limit

\* Holds end without a charge: a release, leases that are over, or a charge
\* of zero that leaves no trace.
Drop(S) ==
  /\ hold' = Without(S)
  /\ UNCHANGED <<limit, charge>>

SetLimit ==
  /\ limit' \in Nat
  /\ UNCHANGED <<hold, charge>>

MovingNext ==
  \/ \E r \in Reservations, S \in SUBSET Holding : Grant(r, S)
  \/ \E r \in Reservations : Charge(r)
  \/ \E S \in SUBSET Holding : Drop(S)
  \/ SetLimit

MovingSpec == MovingInit /\ [][MovingNext]_movingVars
=============================================================================

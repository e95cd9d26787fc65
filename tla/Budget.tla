------------------------------- MODULE Budget -------------------------------
(***************************************************************************)
(* What every ledger of the repository promises its callers, abstracted    *)
(* from atomics, scripts and transactions: the Reserver and Reservation    *)
(* interfaces.  A reservation is granted only if the budget still has room *)
(* for it, and it ends exactly once: settled at a charge, released, or,    *)
(* where the adapter gives it a lease, expired.                            *)
(*                                                                         *)
(* The interface lets a commit charge more than was reserved, so the limit *)
(* bounds what is granted, and Overshoot is what commits went beyond it.   *)
(***************************************************************************)
EXTENDS MicroSum

CONSTANTS Reservations, \* identities of the reservations of one budget
          Limit,        \* the limit in micros; negative means unlimited
          Amounts       \* amounts in micros the ledger can represent

ASSUME ReservationsAssumption == IsFiniteSet(Reservations)
ASSUME LimitAssumption == Limit \in Int
ASSUME AmountsAssumption == Amounts \subseteq Nat /\ 0 \in Amounts

VARIABLES phase,  \* how far each reservation has come
          amount, \* micros reserved by each granted reservation
          charge  \* micros charged by each settled reservation

budgetVars == <<phase, amount, charge>>

Phases == {"free", "held", "settled", "released", "expired"}

Held    == {r \in Reservations : phase[r] = "held"}
Settled == {r \in Reservations : phase[r] = "settled"}

\* Micros the budget counts as used: open reservations and final charges.
Usage == Total(amount, Held) + Total(charge, Settled)

Excess == [r \in Reservations |->
             IF charge[r] > amount[r] THEN charge[r] - amount[r] ELSE 0]

\* Micros that commits charged beyond what had been reserved for them.
Overshoot == Total(Excess, Settled)

BudgetTypeOK ==
  /\ phase  \in [Reservations -> Phases]
  /\ amount \in [Reservations -> Amounts]
  /\ charge \in [Reservations -> Amounts]

BudgetInit ==
  /\ phase  = [r \in Reservations |-> "free"]
  /\ amount = [r \in Reservations |-> 0]
  /\ charge = [r \in Reservations |-> 0]

\* The phases once the ledger has taken back the expired leases S.
Lapse(S) == [r \in Reservations |-> IF r \in S THEN "expired" ELSE phase[r]]

\* Reserve succeeds, in a step that also takes back the expired leases S.
Grant(r, e, S) ==
  /\ phase[r] = "free"
  /\ Limit < 0 \/ Usage - Total(amount, S) + e <= Limit
  /\ phase'  = [Lapse(S) EXCEPT ![r] = "held"]
  /\ amount' = [amount EXCEPT ![r] = e]
  /\ UNCHANGED charge

\* Commit takes effect.
Settle(r, a, S) ==
  /\ r \in Held \ S
  /\ phase'  = [Lapse(S) EXCEPT ![r] = "settled"]
  /\ charge' = [charge EXCEPT ![r] = a]
  /\ UNCHANGED amount

\* Release takes effect.
Free(r, S) ==
  /\ r \in Held \ S
  /\ phase' = [Lapse(S) EXCEPT ![r] = "released"]
  /\ UNCHANGED <<amount, charge>>

\* A call that only takes back expired leases.
Expire(S) ==
  /\ phase' = Lapse(S)
  /\ UNCHANGED <<amount, charge>>

BudgetNext ==
  \E S \in SUBSET Held :
    \/ \E r \in Reservations :
         \/ \E e \in Amounts : Grant(r, e, S)
         \/ \E a \in Amounts : Settle(r, a, S)
         \/ Free(r, S)
    \/ Expire(S)

BudgetSpec == BudgetInit /\ [][BudgetNext]_budgetVars
=============================================================================

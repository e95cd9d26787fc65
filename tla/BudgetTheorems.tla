--------------------------- MODULE BudgetTheorems ---------------------------
(***************************************************************************)
(* How Usage and Overshoot move when one reservation changes its phase,    *)
(* and the theorem that the abstract budget keeps its limit.               *)
(***************************************************************************)
EXTENDS Budget, MicroSumTheorems

\* The parts of Usage and Overshoot are well-defined naturals.
LEMMA BudgetSums ==
  ASSUME BudgetTypeOK
  PROVE  /\ IsFiniteSet(Held) /\ IsFiniteSet(Settled)
         /\ \A r \in Reservations : amount[r] \in Nat /\ charge[r] \in Nat /\ Excess[r] \in Nat
         /\ Total(amount, Held) \in Nat
         /\ Total(charge, Settled) \in Nat
         /\ Usage \in Nat
         /\ Overshoot \in Nat
<1>1. IsFiniteSet(Held) /\ IsFiniteSet(Settled)
  BY ReservationsAssumption, FS_Subset DEF Held, Settled
<1>2. \A r \in Reservations : amount[r] \in Nat /\ charge[r] \in Nat
  BY AmountsAssumption DEF BudgetTypeOK
<1>3. \A r \in Reservations : Excess[r] \in Nat
  BY <1>2 DEF Excess
<1>4. Total(amount, Held) \in Nat
  BY <1>1, <1>2, TotalNat DEF Held
<1>5. Total(charge, Settled) \in Nat
  BY <1>1, <1>2, TotalNat DEF Settled
<1>6. Overshoot \in Nat
  BY <1>1, <1>3, TotalNat DEF Settled, Overshoot
<1> QED
  BY <1>1, <1>2, <1>3, <1>4, <1>5, <1>6 DEF Usage

\* Every reservation is free at first and nothing is used.
LEMMA InitUsage ==
  ASSUME BudgetInit
  PROVE  BudgetTypeOK /\ Held = {} /\ Settled = {} /\ Usage = 0 /\ Overshoot = 0
<1>1. Held = {} /\ Settled = {}
  BY DEF BudgetInit, Held, Settled
<1>2. Usage = 0 /\ Overshoot = 0
  BY <1>1, TotalEmpty DEF Usage, Overshoot
<1>3. BudgetTypeOK
  BY AmountsAssumption DEF BudgetInit, BudgetTypeOK, Phases
<1> QED
  BY <1>1, <1>2, <1>3

\* Taking back no lease changes no phase and no sum.
LEMMA LapseNothing ==
  ASSUME BudgetTypeOK
  PROVE  Lapse({}) = phase /\ Total(amount, {}) = 0
BY TotalEmpty DEF Lapse, BudgetTypeOK

\* The amounts of the leases taken back are part of the open amounts.
LEMMA LapseTotal ==
  ASSUME BudgetTypeOK, NEW S \in SUBSET Held
  PROVE  /\ Total(amount, Held \ S) = Total(amount, Held) - Total(amount, S)
         /\ Total(amount, Held \ S) \in Nat
         /\ Total(amount, S) \in Nat
         /\ Total(amount, S) <= Usage
<1>1. IsFiniteSet(S) /\ IsFiniteSet(Held \ S) /\ (Held \ S) \cup S = Held
  BY BudgetSums, FS_Subset
<1>2. \A q \in Held : amount[q] \in Nat
  BY BudgetSums DEF Held
<1>3. Total(amount, S) \in Nat /\ Total(amount, Held \ S) \in Nat
  BY <1>1, <1>2, TotalNat
<1>4. Total(amount, Held) = Total(amount, Held \ S) + Total(amount, S)
  BY <1>1, <1>2, TotalUnion
<1> QED
  BY <1>3, <1>4, BudgetSums DEF Usage

\* A step that only takes back the leases S gives their amounts back.
LEMMA LapseUsage ==
  ASSUME BudgetTypeOK, NEW S \in SUBSET Held,
         phase' = Lapse(S), UNCHANGED <<amount, charge>>
  PROVE  /\ Usage' = Usage - Total(amount, S)
         /\ Overshoot' = Overshoot
         /\ Held' = Held \ S
         /\ Settled' = Settled
         /\ BudgetTypeOK'
<1>1. Held' = Held \ S /\ Settled' = Settled /\ Excess' = Excess
  BY DEF Lapse, BudgetTypeOK, Held, Settled, Excess
<1>2. BudgetTypeOK'
  BY DEF Lapse, BudgetTypeOK, Phases
<1> QED
  BY <1>1, <1>2, LapseTotal, BudgetSums DEF Usage, Overshoot

\* A granted reservation adds its amount to the usage, and the leases taken
\* back in the same step no longer count.
LEMMA LapseGrantUsage ==
  ASSUME BudgetTypeOK, NEW S \in SUBSET Held, NEW r \in Reservations, NEW e \in Amounts,
         r \notin Held \ S, r \notin Settled,
         phase'  = [Lapse(S) EXCEPT ![r] = "held"],
         amount' = [amount EXCEPT ![r] = e],
         charge' = charge
  PROVE  /\ Usage' = Usage - Total(amount, S) + e
         /\ Overshoot' = Overshoot
         /\ Held' = (Held \ S) \cup {r}
         /\ Settled' = Settled
         /\ BudgetTypeOK'
<1>1. Held' = (Held \ S) \cup {r} /\ Settled' = Settled
  BY DEF Lapse, BudgetTypeOK, Held, Settled
<1>2. \A q \in Reservations \ {r} : amount'[q] = amount[q] /\ Excess'[q] = Excess[q]
  BY DEF BudgetTypeOK, Excess
<1>3. amount'[r] = e /\ e \in Nat
  BY AmountsAssumption DEF BudgetTypeOK
<1>4. Total(amount', (Held \ S) \cup {r}) = Total(amount', Held \ S) + e
  <2>1. \A q \in (Held \ S) \cup {r} : amount'[q] \in Nat
    BY <1>2, <1>3, BudgetSums DEF Held
  <2>2. IsFiniteSet(Held \ S)
    BY BudgetSums, FS_Subset
  <2> QED
    BY <1>3, <2>1, <2>2, TotalAdd
<1>5. Total(amount', Held \ S) = Total(amount, Held \ S)
  <2>1. \A q \in Held \ S : amount'[q] = amount[q]
    BY <1>2 DEF Held
  <2> QED
    BY <2>1, TotalCong
<1>6. Total(Excess', Settled) = Total(Excess, Settled)
  <2>1. \A q \in Settled : Excess'[q] = Excess[q]
    BY <1>2 DEF Settled
  <2> QED
    BY <2>1, TotalCong
<1>7. Usage' = Total(amount', (Held \ S) \cup {r}) + Total(charge, Settled)
  BY <1>1 DEF Usage
<1>8. Overshoot' = Overshoot
  BY <1>1, <1>6 DEF Overshoot
<1>9. BudgetTypeOK'
  BY DEF Lapse, BudgetTypeOK, Phases
<1> QED
  BY <1>1, <1>3, <1>4, <1>5, <1>7, <1>8, <1>9, LapseTotal, BudgetSums DEF Usage

\* A settled reservation is no longer open.
LEMMA LapseSettleSets ==
  ASSUME BudgetTypeOK, NEW S \in SUBSET Held, NEW r \in Held \ S, NEW a \in Amounts,
         phase'  = [Lapse(S) EXCEPT ![r] = "settled"],
         charge' = [charge EXCEPT ![r] = a],
         amount' = amount
  PROVE  /\ Held' = (Held \ S) \ {r}
         /\ Settled' = Settled \cup {r}
         /\ \A q \in Settled : charge'[q] = charge[q]
         /\ BudgetTypeOK'
<1>1. Held' = (Held \ S) \ {r} /\ Settled' = Settled \cup {r} /\ r \notin Settled /\ r \in Reservations
  BY DEF Lapse, BudgetTypeOK, Held, Settled
<1>2. \A q \in Settled : charge'[q] = charge[q]
  BY <1>1 DEF BudgetTypeOK, Settled
<1>3. BudgetTypeOK'
  BY <1>1 DEF Lapse, BudgetTypeOK, Phases
<1> QED
  BY <1>1, <1>2, <1>3

\* A settled reservation's charge takes the place of its amount.
LEMMA LapseSettleUsage ==
  ASSUME BudgetTypeOK, NEW S \in SUBSET Held, NEW r \in Held \ S, NEW a \in Amounts,
         phase'  = [Lapse(S) EXCEPT ![r] = "settled"],
         charge' = [charge EXCEPT ![r] = a],
         amount' = amount
  PROVE  /\ Usage' = Usage - Total(amount, S) - amount[r] + a
         /\ a <= amount[r] => Overshoot' = Overshoot
         /\ a > amount[r] => Overshoot' = Overshoot + (a - amount[r])
         /\ Total(amount, S) + amount[r] <= Usage
<1>1. Held' = (Held \ S) \ {r} /\ Settled' = Settled \cup {r} /\ r \notin Settled /\ r \in Reservations
  BY LapseSettleSets DEF Held, Settled
<1>2. \A q \in Reservations \ {r} : charge'[q] = charge[q] /\ Excess'[q] = Excess[q]
  BY DEF BudgetTypeOK, Excess
<1>3. charge'[r] = a /\ a \in Nat /\ Excess'[r] = IF a > amount[r] THEN a - amount[r] ELSE 0
  BY <1>1, AmountsAssumption DEF BudgetTypeOK, Excess
<1>4. \A q \in Settled : charge'[q] = charge[q] /\ Excess'[q] = Excess[q]
  BY <1>1, <1>2 DEF Settled
<1>5. Total(charge', Settled \cup {r}) = Total(charge, Settled) + a
  <2>1. \A q \in Settled \cup {r} : charge'[q] \in Nat
    BY <1>3, <1>4, BudgetSums DEF Settled
  <2>2. Total(charge', Settled \cup {r}) = Total(charge', Settled) + a
    BY <1>1, <1>3, <2>1, BudgetSums, TotalAdd
  <2> QED
    BY <1>4, <2>2, TotalCong
<1>6. Total(Excess', Settled \cup {r}) = Total(Excess, Settled) + Excess'[r]
  <2>1. \A q \in Settled \cup {r} : Excess'[q] \in Nat
    BY <1>1, <1>3, <1>4, BudgetSums DEF Settled
  <2>2. Total(Excess', Settled \cup {r}) = Total(Excess', Settled) + Excess'[r]
    BY <1>1, <2>1, BudgetSums, TotalAdd
  <2> QED
    BY <1>4, <2>2, TotalCong
<1>7. /\ Total(amount, (Held \ S) \ {r}) = Total(amount, Held \ S) - amount[r]
      /\ amount[r] <= Total(amount, Held \ S)
  <2>1. \A q \in Held \ S : amount[q] \in Nat
    BY BudgetSums DEF Held
  <2>2. IsFiniteSet(Held \ S)
    BY BudgetSums, FS_Subset
  <2> QED
    BY <2>1, <2>2, TotalRemove
<1>8. amount[r] \in Nat
  BY <1>1, BudgetSums
<1>9. Usage' = Total(amount, (Held \ S) \ {r}) + Total(charge', Settled \cup {r})
  BY <1>1 DEF Usage
<1>10. Overshoot' = Total(Excess', Settled \cup {r})
  BY <1>1 DEF Overshoot
<1>11. Usage' = Usage - Total(amount, S) - amount[r] + a /\ Total(amount, S) + amount[r] <= Usage
  <2>1. /\ Total(amount, Held \ S) = Total(amount, Held) - Total(amount, S)
        /\ Total(amount, S) \in Nat
    BY LapseTotal
  <2>2. Usage' = (Total(amount, Held \ S) - amount[r]) + (Total(charge, Settled) + a)
    BY <1>5, <1>7, <1>9
  <2>3. Total(amount, Held) \in Nat /\ Total(charge, Settled) \in Nat
    BY BudgetSums
  <2> QED
    BY <1>3, <1>7, <1>8, <2>1, <2>2, <2>3 DEF Usage
<1>12. /\ a <= amount[r] => Overshoot' = Overshoot
       /\ a > amount[r] => Overshoot' = Overshoot + (a - amount[r])
  <2>1. Overshoot' = Overshoot + Excess'[r]
    BY <1>6, <1>10 DEF Overshoot
  <2> QED
    BY <1>3, <1>8, <2>1, BudgetSums
<1> QED
  BY <1>11, <1>12

\* An open reservation that ends without a charge gives its amount back.
LEMMA LapseDropUsage ==
  ASSUME BudgetTypeOK, NEW S \in SUBSET Held, NEW r \in Held \ S,
         NEW p \in {"released", "expired"},
         phase' = [Lapse(S) EXCEPT ![r] = p],
         UNCHANGED <<amount, charge>>
  PROVE  /\ Usage' = Usage - Total(amount, S) - amount[r]
         /\ Overshoot' = Overshoot
         /\ Total(amount, S) + amount[r] <= Usage
         /\ Held' = (Held \ S) \ {r}
         /\ Settled' = Settled
         /\ BudgetTypeOK'
<1>1. Held' = (Held \ S) \ {r} /\ Settled' = Settled /\ r \in Reservations
  BY DEF Lapse, BudgetTypeOK, Held, Settled
<1>2. Excess' = Excess
  BY DEF Excess
<1>3. /\ Total(amount, (Held \ S) \ {r}) = Total(amount, Held \ S) - amount[r]
      /\ amount[r] <= Total(amount, Held \ S)
  <2>1. \A q \in Held \ S : amount[q] \in Nat
    BY BudgetSums DEF Held
  <2>2. IsFiniteSet(Held \ S)
    BY BudgetSums, FS_Subset
  <2> QED
    BY <2>1, <2>2, TotalRemove
<1>4. amount[r] \in Nat
  BY <1>1, BudgetSums
<1>5. Usage' = Total(amount, (Held \ S) \ {r}) + Total(charge, Settled)
  BY <1>1 DEF Usage
<1>6. Overshoot' = Overshoot
  BY <1>1, <1>2 DEF Overshoot
<1>7. BudgetTypeOK'
  BY <1>1 DEF Lapse, BudgetTypeOK, Phases
<1> QED
  BY <1>1, <1>3, <1>4, <1>5, <1>6, <1>7, LapseTotal, BudgetSums DEF Usage

\* The same for a ledger without leases: a granted reservation adds its
\* amount to the usage.
LEMMA GrantUsage ==
  ASSUME BudgetTypeOK, NEW r \in Reservations, NEW e \in Amounts,
         phase[r] = "free",
         phase'  = [phase EXCEPT ![r] = "held"],
         amount' = [amount EXCEPT ![r] = e],
         charge' = charge
  PROVE  /\ Usage' = Usage + e
         /\ Overshoot' = Overshoot
         /\ Held' = Held \cup {r}
         /\ Settled' = Settled
<1>1. {} \in SUBSET Held /\ r \notin Held \ {} /\ r \notin Settled /\ Held \ {} = Held
  BY DEF Held, Settled
<1>2. /\ Usage' = Usage - Total(amount, {}) + e
      /\ Overshoot' = Overshoot
      /\ Held' = (Held \ {}) \cup {r}
      /\ Settled' = Settled
  BY <1>1, LapseNothing, LapseGrantUsage
<1> QED
  BY <1>1, <1>2, LapseNothing, BudgetSums

\* A charge takes the place of the amount it settles.
LEMMA SettleUsage ==
  ASSUME BudgetTypeOK, NEW r \in Reservations, NEW a \in Amounts,
         phase[r] = "held",
         phase'  = [phase EXCEPT ![r] = "settled"],
         charge' = [charge EXCEPT ![r] = a],
         amount' = amount
  PROVE  /\ Usage' = Usage - amount[r] + a
         /\ a <= amount[r] => Overshoot' = Overshoot
         /\ a > amount[r] => Overshoot' = Overshoot + (a - amount[r])
         /\ amount[r] <= Usage
         /\ Held' = Held \ {r}
         /\ Settled' = Settled \cup {r}
         /\ \A q \in Settled : charge'[q] = charge[q]
<1>1. {} \in SUBSET Held /\ r \in Held \ {} /\ Held \ {} = Held
  BY DEF Held
<1>2. /\ phase'  = [Lapse({}) EXCEPT ![r] = "settled"]
      /\ charge' = [charge EXCEPT ![r] = a]
      /\ amount' = amount
  BY LapseNothing
<1>3. /\ Usage' = Usage - Total(amount, {}) - amount[r] + a
      /\ a <= amount[r] => Overshoot' = Overshoot
      /\ a > amount[r] => Overshoot' = Overshoot + (a - amount[r])
      /\ Total(amount, {}) + amount[r] <= Usage
  BY <1>1, <1>2, LapseSettleUsage
<1>4. /\ Held' = (Held \ {}) \ {r}
      /\ Settled' = Settled \cup {r}
      /\ \A q \in Settled : charge'[q] = charge[q]
  BY <1>1, <1>2, LapseSettleSets
<1> QED
  BY <1>1, <1>3, <1>4, LapseNothing, BudgetSums

\* A released reservation gives its amount back.
LEMMA DropUsage ==
  ASSUME BudgetTypeOK, NEW r \in Reservations, NEW p \in {"released", "expired"},
         phase[r] = "held",
         phase' = [phase EXCEPT ![r] = p],
         UNCHANGED <<amount, charge>>
  PROVE  /\ Usage' = Usage - amount[r]
         /\ Overshoot' = Overshoot
         /\ amount[r] <= Usage
         /\ Held' = Held \ {r}
         /\ Settled' = Settled
<1>1. {} \in SUBSET Held /\ r \in Held \ {} /\ Held \ {} = Held
  BY DEF Held
<1>2. /\ Usage' = Usage - Total(amount, {}) - amount[r]
      /\ Overshoot' = Overshoot
      /\ Total(amount, {}) + amount[r] <= Usage
      /\ Held' = (Held \ {}) \ {r}
      /\ Settled' = Settled
  BY <1>1, LapseNothing, LapseDropUsage
<1> QED
  BY <1>1, <1>2, LapseNothing, BudgetSums

\* A step that leaves the budget alone leaves its sums alone.
LEMMA SameUsage ==
  ASSUME UNCHANGED budgetVars
  PROVE  /\ Usage' = Usage
         /\ Overshoot' = Overshoot
         /\ Held' = Held
         /\ Settled' = Settled
BY DEF budgetVars, Usage, Overshoot, Excess, Held, Settled

\* Only commits take a limited budget over its limit (README: "Reserve is
\* atomic against the configured limit").
LimitIsKept == Limit >= 0 => Usage <= Limit + Overshoot

\* A reservation is granted once and ends once.
EndsOnce ==
  [][\A r \in Reservations :
       /\ phase[r] \in {"settled", "released", "expired"} =>
            phase'[r] = phase[r] /\ charge'[r] = charge[r]
       /\ phase[r] = "held" => phase'[r] # "free" /\ amount'[r] = amount[r]]_budgetVars

\* Every step of the abstract budget keeps its types and its limit.
LEMMA BudgetStep ==
  BudgetTypeOK /\ LimitIsKept /\ [BudgetNext]_budgetVars => BudgetTypeOK' /\ LimitIsKept'
<1> SUFFICES ASSUME BudgetTypeOK, LimitIsKept, [BudgetNext]_budgetVars
             PROVE  BudgetTypeOK' /\ LimitIsKept'
  OBVIOUS
<1>1. Usage \in Nat /\ Overshoot \in Nat /\ Limit \in Int
  BY BudgetSums, LimitAssumption
<1>2. ASSUME NEW S \in SUBSET Held, NEW r \in Reservations, NEW e \in Amounts, Grant(r, e, S)
      PROVE  BudgetTypeOK' /\ LimitIsKept'
  <2>1. r \notin Held \ S /\ r \notin Settled
    BY <1>2 DEF Grant, Held, Settled
  <2>2. BudgetTypeOK' /\ Usage' = Usage - Total(amount, S) + e /\ Overshoot' = Overshoot
    BY <1>2, <2>1, LapseGrantUsage DEF Grant
  <2>3. Limit >= 0 => Usage' <= Limit
    BY <1>1, <1>2, <2>2 DEF Grant
  <2> QED
    BY <1>1, <2>2, <2>3 DEF LimitIsKept
<1>3. ASSUME NEW S \in SUBSET Held, NEW r \in Reservations, NEW a \in Amounts, Settle(r, a, S)
      PROVE  BudgetTypeOK' /\ LimitIsKept'
  <2>1. /\ BudgetTypeOK'
        /\ Usage' = Usage - Total(amount, S) - amount[r] + a
        /\ a <= amount[r] => Overshoot' = Overshoot
        /\ a > amount[r] => Overshoot' = Overshoot + (a - amount[r])
    <3>1. /\ r \in Held \ S
          /\ phase'  = [Lapse(S) EXCEPT ![r] = "settled"]
          /\ charge' = [charge EXCEPT ![r] = a]
          /\ amount' = amount
      BY <1>3 DEF Settle
    <3>2. BudgetTypeOK'
      BY <3>1, LapseSettleSets
    <3>3. /\ Usage' = Usage - Total(amount, S) - amount[r] + a
          /\ a <= amount[r] => Overshoot' = Overshoot
          /\ a > amount[r] => Overshoot' = Overshoot + (a - amount[r])
      BY <3>1, LapseSettleUsage
    <3> QED
      BY <3>2, <3>3
  <2>2. Total(amount, S) \in Nat /\ amount[r] \in Nat /\ a \in Nat
    BY LapseTotal, BudgetSums, AmountsAssumption
  <2> QED
    BY <1>1, <2>1, <2>2 DEF LimitIsKept
<1>4. ASSUME NEW S \in SUBSET Held, NEW r \in Reservations, Free(r, S)
      PROVE  BudgetTypeOK' /\ LimitIsKept'
  <2>1. BudgetTypeOK' /\ Usage' = Usage - Total(amount, S) - amount[r] /\ Overshoot' = Overshoot
    BY <1>4, LapseDropUsage DEF Free
  <2>2. Total(amount, S) \in Nat /\ amount[r] \in Nat
    BY LapseTotal, BudgetSums
  <2>3. Usage' <= Usage
    BY <1>1, <2>1, <2>2
  <2> QED
    BY <1>1, <2>1, <2>2, <2>3 DEF LimitIsKept
<1>5. ASSUME NEW S \in SUBSET Held, Expire(S)
      PROVE  BudgetTypeOK' /\ LimitIsKept'
  <2>1. BudgetTypeOK' /\ Usage' = Usage - Total(amount, S) /\ Overshoot' = Overshoot
    BY <1>5, LapseUsage DEF Expire
  <2>2. Total(amount, S) \in Nat
    BY LapseTotal
  <2> QED
    BY <1>1, <2>1, <2>2 DEF LimitIsKept
<1>6. CASE UNCHANGED budgetVars
  BY <1>6, SameUsage DEF budgetVars, BudgetTypeOK, LimitIsKept
<1> QED
  BY <1>2, <1>3, <1>4, <1>5, <1>6 DEF BudgetNext

\* What the ledgers that implement the abstract budget promise: the limit is
\* passed by no more than commits overshot (LimitIsKept, README guarantees 1
\* and 8).
THEOREM BudgetKeepsLimit == BudgetSpec => []LimitIsKept
<1>1. BudgetInit => BudgetTypeOK /\ LimitIsKept
  BY InitUsage, LimitAssumption DEF LimitIsKept
<1> QED
  BY <1>1, BudgetStep, PTL DEF BudgetSpec

\* And a reservation is granted once and ends once, as what it was granted
\* and charged at (README guarantee 3).
THEOREM BudgetEndsOnce == BudgetSpec => EndsOnce
<1>1. BudgetTypeOK /\ [BudgetNext]_budgetVars =>
        [\A r \in Reservations :
           /\ phase[r] \in {"settled", "released", "expired"} =>
                phase'[r] = phase[r] /\ charge'[r] = charge[r]
           /\ phase[r] = "held" => phase'[r] # "free" /\ amount'[r] = amount[r]]_budgetVars
  BY DEF BudgetTypeOK, BudgetNext, Grant, Settle, Free, Expire, Lapse, Held, budgetVars
<1>2. BudgetSpec => []BudgetTypeOK
  <2>1. BudgetInit => BudgetTypeOK /\ LimitIsKept
    BY InitUsage, LimitAssumption DEF LimitIsKept
  <2> QED
    BY <2>1, BudgetStep, PTL DEF BudgetSpec
<1> QED
  BY <1>1, <1>2, PTL DEF BudgetSpec, EndsOnce
=============================================================================

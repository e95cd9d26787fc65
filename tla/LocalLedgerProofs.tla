-------------------------- MODULE LocalLedgerProofs --------------------------
(***************************************************************************)
(* Theorems about the in-process ledger, for any number of goroutines and  *)
(* reservations, any limit and any integer width.                          *)
(*                                                                         *)
(* UsedIsExact is not inductive by itself: whether an addition to used is  *)
(* the one that the history asks for depends on where the threads are.     *)
(* Settling says that a thread about to adjust used owns an open           *)
(* reservation that is done and that no other thread settles; Creating     *)
(* that a thread inside Reserve owns a free one; Checked that the value a  *)
(* thread is about to swap passed Reserve's guards.  SettledOnce needs the *)
(* converse of Settling (Owned), and SpentBehindUsed the same ownership    *)
(* between the two additions of a commit (Spending).                       *)
(***************************************************************************)
EXTENDS LocalLedger, BudgetTheorems

\* A thread between the done flag and the addition to used owns an open,
\* done reservation, alone.
Settling ==
  \A t \in Threads : pc[t] \in {"addUsed", "subUsed"} =>
    /\ resv[t] \in Reservations
    /\ phase[resv[t]] = "held"
    /\ done[resv[t]]
    /\ \A u \in Threads \ {t} : pc[u] \in {"addUsed", "subUsed"} => resv[u] # resv[t]

\* A thread inside Reserve owns a free reservation object, alone.
Creating ==
  \A t \in Threads : pc[t] \in {"load", "cas"} =>
    /\ resv[t] \in Reservations
    /\ phase[resv[t]] = "free"
    /\ \A u \in Threads \ {t} : pc[u] \in {"load", "cas"} => resv[u] # resv[t]

\* Only done reservations are closed, and a free one is not done.
DoneFlags ==
  \A r \in Reservations :
    /\ phase[r] \in {"settled", "released"} => done[r]
    /\ phase[r] = "free" => ~done[r]

\* The value loaded by a thread about to swap passed the guards.
Checked == \A t \in Threads : pc[t] = "cas" => ~Refused(seen[t], est[t])

Struct ==
  /\ TypeOK
  /\ Settling
  /\ Creating
  /\ DoneFlags
  /\ Checked

\* Int64 arithmetic stays in range, and is exact when the result fits.
LEMMA WrapRange ==
  ASSUME NEW x \in Int64, NEW y \in Int64
  PROVE  /\ AddInt64(x, y) \in Int64
         /\ SubInt64(x, y) \in Int64
         /\ x + y \in Int64 => AddInt64(x, y) = x + y
         /\ x - y \in Int64 => SubInt64(x, y) = x - y
BY MaxIntAssumption DEF AddInt64, SubInt64, Wrap, Int64

\* A value that passed Reserve's guards is not negative, and the sum with
\* the estimate fits under the cap.
LEMMA NotRefused ==
  ASSUME NEW u \in Int64, NEW e \in 0..MaxInt, ~Refused(u, e)
  PROVE  u >= 0 /\ u + e <= Cap
BY MaxIntAssumption, LimitAssumption DEF Refused, SubInt64, Wrap, Int64, Cap

\* The estimates that pass validation are the naturals of an int64.
LEMMA ValidEstimateRange ==
  ASSUME NEW e \in Int64, ValidEstimate(e)
  PROVE  e \in 0..MaxInt
BY MaxIntAssumption DEF ValidEstimate, Int64

\* The structural part of the invariant holds initially.
LEMMA StructInit == Init => Struct
<1> SUFFICES ASSUME Init PROVE Struct
  OBVIOUS
<1>1. TypeOK
  BY InitUsage, MaxIntAssumption DEF Init, TypeOK, Int64
<1> QED
  BY <1>1 DEF Init, BudgetInit, Struct, Settling, Creating, DoneFlags, Checked

\* Every step keeps the structural part of the invariant.
LEMMA StructNext == Struct /\ [Next]_vars => Struct'
<1> SUFFICES ASSUME Struct, [Next]_vars PROVE Struct'
  OBVIOUS
<1> USE DEF Struct
<1>1. ASSUME NEW t \in Threads, NEW e \in Estimates, ReserveCall(t, e)
      PROVE  Struct'
  <2>1. e \in 0..MaxInt
    BY <1>1, ArgumentsAssumption, ValidEstimateRange DEF ReserveCall, Int64
  <2>2. PICK r \in Reservations : /\ phase[r] = "free"
                                 /\ \A u \in Threads : resv[u] # r
                                 /\ resv' = [resv EXCEPT ![t] = r]
    BY <1>1 DEF ReserveCall
  <2>3. TypeOK'
    BY <1>1, <2>1, <2>2 DEF ReserveCall, TypeOK, BudgetTypeOK
  <2>4. Settling'
    BY <1>1, <2>2 DEF ReserveCall, TypeOK, Settling
  <2>5. Creating'
    BY <1>1, <2>2 DEF ReserveCall, TypeOK, Creating
  <2>6. DoneFlags'
    BY <1>1 DEF ReserveCall, DoneFlags
  <2>7. Checked'
    BY <1>1 DEF ReserveCall, TypeOK, Checked, Refused
  <2> QED
    BY <2>3, <2>4, <2>5, <2>6, <2>7
<1>2. ASSUME NEW t \in Threads, Load(t)
      PROVE  Struct'
  <2>1. TypeOK'
    BY <1>2, MaxIntAssumption DEF Load, Return, TypeOK, BudgetTypeOK, Int64
  <2>2. Settling'
    BY <1>2 DEF Load, Return, TypeOK, Settling
  <2>3. Creating'
    BY <1>2 DEF Load, Return, TypeOK, Creating
  <2>4. DoneFlags'
    BY <1>2 DEF Load, DoneFlags
  <2>5. Checked'
    BY <1>2 DEF Load, Return, TypeOK, Checked, Refused
  <2> QED
    BY <2>1, <2>2, <2>3, <2>4, <2>5
<1>3. ASSUME NEW t \in Threads, Cas(t)
      PROVE  Struct'
  <2>1. resv[t] \in Reservations /\ phase[resv[t]] = "free"
    BY <1>3 DEF Cas, Creating
  <2>2. TypeOK'
    <3>1. AddInt64(seen[t], est[t]) \in Int64
      BY WrapRange, MaxIntAssumption DEF TypeOK, Int64
    <3> QED
      BY <1>3, <2>1, <3>1, Int64Assumption, MaxIntAssumption
         DEF Cas, Return, TypeOK, BudgetTypeOK, Phases, Int64
  <2>3. Settling'
    BY <1>3, <2>1 DEF Cas, Return, TypeOK, BudgetTypeOK, Settling
  <2>4. Creating'
    BY <1>3, <2>1 DEF Cas, Return, TypeOK, BudgetTypeOK, Creating
  <2>5. DoneFlags'
    BY <1>3, <2>1 DEF Cas, TypeOK, BudgetTypeOK, DoneFlags
  <2>6. Checked'
    BY <1>3 DEF Cas, Return, TypeOK, Checked, Refused
  <2> QED
    BY <2>2, <2>3, <2>4, <2>5, <2>6
<1>4. ASSUME NEW t \in Threads, CasFail(t)
      PROVE  Struct'
  <2>1. TypeOK'
    BY <1>4, MaxIntAssumption DEF CasFail, Return, TypeOK, BudgetTypeOK, Int64
  <2>2. Settling'
    BY <1>4 DEF CasFail, Return, TypeOK, Settling
  <2>3. Creating'
    BY <1>4 DEF CasFail, Return, TypeOK, Creating
  <2>4. DoneFlags'
    BY <1>4 DEF CasFail, DoneFlags
  <2>5. Checked'
    BY <1>4 DEF CasFail, Return, TypeOK, Checked, Refused
  <2> QED
    BY <2>1, <2>2, <2>3, <2>4, <2>5
<1>5. ASSUME NEW t \in Threads, NEW r \in Reservations, NEW a \in Actuals, CommitCall(t, r, a)
      PROVE  Struct'
  <2>1. TypeOK'
    <3>1. CASE done[r]
      BY <1>5, <3>1 DEF CommitCall, Close, TypeOK, BudgetTypeOK
    <3>2. CASE ~done[r]
      <4>1. (IF a < 0 THEN 0 ELSE a) \in 0..MaxInt
        BY ArgumentsAssumption, MaxIntAssumption
      <4>2. act' = [act EXCEPT ![t] = IF a < 0 THEN 0 ELSE a]
        BY <1>5, <3>2 DEF CommitCall
      <4>3. act' \in [Threads -> 0..MaxInt]
        BY <4>1, <4>2 DEF TypeOK
      <4> QED
        BY <1>5, <3>2, <4>3 DEF CommitCall, Close, TypeOK, BudgetTypeOK
    <3> QED
      BY <3>1, <3>2
  <2>2. Settling'
    BY <1>5 DEF CommitCall, Close, HasHandle, TypeOK, Settling, DoneFlags
  <2>3. Creating'
    BY <1>5 DEF CommitCall, Close, TypeOK, Creating
  <2>4. DoneFlags'
    BY <1>5 DEF CommitCall, Close, HasHandle, TypeOK, DoneFlags
  <2>5. Checked'
    BY <1>5 DEF CommitCall, Close, TypeOK, Checked, Refused
  <2> QED
    BY <2>1, <2>2, <2>3, <2>4, <2>5
<1>6. ASSUME NEW t \in Threads, AddUsed(t)
      PROVE  Struct'
  <2>1. resv[t] \in Reservations /\ phase[resv[t]] = "held" /\ done[resv[t]]
    BY <1>6 DEF AddUsed, Settling
  <2>2. TypeOK'
    <3>1. act[t] \in Int64 /\ amount[resv[t]] \in Int64
      BY <2>1, Int64Assumption, MaxIntAssumption DEF TypeOK, BudgetTypeOK, Int64
    <3>2. AddInt64(used, SubInt64(act[t], amount[resv[t]])) \in Int64
      BY <3>1, WrapRange DEF TypeOK
    <3>3. act[t] \in Amounts
      BY Int64Assumption DEF TypeOK
    <3>4. BudgetTypeOK'
      BY <1>6, <2>1, <3>3 DEF AddUsed, TypeOK, BudgetTypeOK, Phases
    <3> QED
      BY <1>6, <3>2, <3>4, MaxIntAssumption DEF AddUsed, Return, TypeOK, Int64
  <2>3. Settling'
    BY <1>6, <2>1 DEF AddUsed, Return, TypeOK, BudgetTypeOK, Settling
  <2>4. Creating'
    BY <1>6, <2>1 DEF AddUsed, Return, TypeOK, BudgetTypeOK, Creating
  <2>5. DoneFlags'
    BY <1>6, <2>1 DEF AddUsed, TypeOK, BudgetTypeOK, DoneFlags
  <2>6. Checked'
    BY <1>6 DEF AddUsed, Return, TypeOK, Checked, Refused
  <2> QED
    BY <2>2, <2>3, <2>4, <2>5, <2>6
<1>7. ASSUME NEW t \in Threads, AddSpent(t)
      PROVE  Struct'
  <2>1. TypeOK'
    <3>1. act[t] \in Int64 /\ spent \in Int64
      BY MaxIntAssumption DEF TypeOK, Int64
    <3>2. AddInt64(spent, act[t]) \in Int64
      BY <3>1, WrapRange
    <3> QED
      BY <1>7, <3>2, MaxIntAssumption DEF AddSpent, Return, TypeOK, BudgetTypeOK, Int64
  <2>2. Settling'
    BY <1>7 DEF AddSpent, Return, TypeOK, Settling
  <2>3. Creating'
    BY <1>7 DEF AddSpent, Return, TypeOK, Creating
  <2>4. DoneFlags'
    BY <1>7 DEF AddSpent, DoneFlags
  <2>5. Checked'
    BY <1>7 DEF AddSpent, Return, TypeOK, Checked, Refused
  <2> QED
    BY <2>1, <2>2, <2>3, <2>4, <2>5
<1>8. ASSUME NEW t \in Threads, NEW r \in Reservations, ReleaseCall(t, r)
      PROVE  Struct'
  <2>1. TypeOK'
    BY <1>8 DEF ReleaseCall, Close, TypeOK, BudgetTypeOK
  <2>2. Settling'
    BY <1>8 DEF ReleaseCall, Close, HasHandle, TypeOK, Settling, DoneFlags
  <2>3. Creating'
    BY <1>8 DEF ReleaseCall, Close, TypeOK, Creating
  <2>4. DoneFlags'
    BY <1>8 DEF ReleaseCall, Close, HasHandle, TypeOK, DoneFlags
  <2>5. Checked'
    BY <1>8 DEF ReleaseCall, Close, TypeOK, Checked, Refused
  <2> QED
    BY <2>1, <2>2, <2>3, <2>4, <2>5
<1>9. ASSUME NEW t \in Threads, SubUsed(t)
      PROVE  Struct'
  <2>1. resv[t] \in Reservations /\ phase[resv[t]] = "held" /\ done[resv[t]]
    BY <1>9 DEF SubUsed, Settling
  <2>2. TypeOK'
    <3>1. -amount[resv[t]] \in Int64
      BY <2>1, Int64Assumption, MaxIntAssumption DEF TypeOK, BudgetTypeOK, Int64
    <3>2. AddInt64(used, -amount[resv[t]]) \in Int64
      BY <3>1, WrapRange DEF TypeOK
    <3> QED
      BY <1>9, <2>1, <3>2, MaxIntAssumption
         DEF SubUsed, Return, TypeOK, BudgetTypeOK, Phases, Int64
  <2>3. Settling'
    BY <1>9, <2>1 DEF SubUsed, Return, TypeOK, BudgetTypeOK, Settling
  <2>4. Creating'
    BY <1>9, <2>1 DEF SubUsed, Return, TypeOK, BudgetTypeOK, Creating
  <2>5. DoneFlags'
    BY <1>9, <2>1 DEF SubUsed, TypeOK, BudgetTypeOK, DoneFlags
  <2>6. Checked'
    BY <1>9 DEF SubUsed, Return, TypeOK, Checked, Refused
  <2> QED
    BY <2>2, <2>3, <2>4, <2>5, <2>6
<1>10. CASE UNCHANGED vars
  BY <1>10 DEF vars, threadVars, TypeOK, BudgetTypeOK, Settling, Creating,
               DoneFlags, Checked, Refused
<1> QED
  BY <1>1, <1>2, <1>3, <1>4, <1>5, <1>6, <1>7, <1>8, <1>9, <1>10
     DEF Next, Call, Proceed

\* Type correctness of the ledger (TypeOK), for every value of the constants.
THEOREM TypeCorrect == Spec => []TypeOK
<1>1. Spec => []Struct
  BY StructInit, StructNext, PTL DEF Spec
<1>2. Struct => TypeOK
  BY DEF Struct
<1> QED
  BY <1>1, <1>2, PTL

\* Every step keeps the counter exact.
LEMMA ExactNext == Struct /\ UsedIsExact /\ [Next]_vars => UsedIsExact'
<1> SUFFICES ASSUME Struct, UsedIsExact, [Next]_vars, Fits'
             PROVE  used' = Usage' /\ Usage' <= Cap + Overshoot'
  BY DEF UsedIsExact
<1> USE DEF Struct
<1>1. BudgetTypeOK /\ Usage \in Nat /\ Overshoot \in Nat /\ Cap \in Int /\ Cap <= MaxInt /\ MaxInt \in Nat
  BY BudgetSums, LimitAssumption, MaxIntAssumption DEF TypeOK, Cap
<1>2. ASSUME UNCHANGED <<budgetVars, used>>
      PROVE  used' = Usage' /\ Usage' <= Cap + Overshoot'
  <2>1. Usage' = Usage /\ Overshoot' = Overshoot
    BY <1>2, SameUsage
  <2> QED
    BY <1>2, <2>1 DEF Fits, UsedIsExact, Cap
<1>3. ASSUME NEW t \in Threads, Cas(t)
      PROVE  used' = Usage' /\ Usage' <= Cap + Overshoot'
  <2> DEFINE r == resv[t]
  <2>1. r \in Reservations /\ phase[r] = "free"
    BY <1>3 DEF Cas, Creating
  <2>2. est[t] \in Amounts /\ est[t] \in 0..MaxInt /\ seen[t] \in Int64
    BY <1>1, Int64Assumption DEF TypeOK
  <2>3. Usage' = Usage + est[t] /\ Overshoot' = Overshoot
    BY <1>1, <1>3, <2>1, <2>2, GrantUsage DEF Cas
  <2>4. used = Usage
    BY <2>3 DEF Fits, UsedIsExact, Cap
  <2>5. seen[t] >= 0 /\ seen[t] + est[t] <= Cap
    BY <1>3, <2>2, NotRefused DEF Cas, Checked
  <2>6. AddInt64(seen[t], est[t]) = seen[t] + est[t]
    BY <1>1, <2>2, <2>5 DEF AddInt64, Wrap, Int64
  <2> QED
    BY <1>1, <1>3, <2>2, <2>3, <2>4, <2>5, <2>6 DEF Cas
<1>4. ASSUME NEW t \in Threads, AddUsed(t)
      PROVE  used' = Usage' /\ Usage' <= Cap + Overshoot'
  <2> DEFINE r == resv[t]
  <2>1. r \in Reservations /\ phase[r] = "held"
    BY <1>4 DEF AddUsed, Settling
  <2>2. act[t] \in 0..MaxInt /\ amount[r] \in 0..MaxInt
    BY <2>1, Int64Assumption DEF TypeOK, BudgetTypeOK
  <2>3. /\ Usage' = Usage - amount[r] + act[t]
        /\ act[t] <= amount[r] => Overshoot' = Overshoot
        /\ act[t] > amount[r] => Overshoot' = Overshoot + (act[t] - amount[r])
        /\ amount[r] <= Usage
    <3>1. act[t] \in Amounts
      BY <2>2, Int64Assumption
    <3>2. /\ phase'  = [phase EXCEPT ![r] = "settled"]
          /\ charge' = [charge EXCEPT ![r] = act[t]]
          /\ amount' = amount
      BY <1>4 DEF AddUsed
    <3> QED
      BY <1>1, <2>1, <3>1, <3>2, SettleUsage
  <2>4. used = Usage /\ Usage <= Cap + Overshoot /\ Overshoot' <= MaxInt - Cap
    BY <1>1, <2>2, <2>3 DEF Fits, UsedIsExact, Cap
  <2>5. Usage' <= Cap + Overshoot'
    BY <1>1, <2>2, <2>3, <2>4
  <2>6. AddInt64(used, SubInt64(act[t], amount[r])) = used + (act[t] - amount[r])
    BY <1>1, <2>2, <2>3, <2>4, <2>5 DEF AddInt64, SubInt64, Wrap
  <2> QED
    BY <1>1, <1>4, <2>2, <2>3, <2>4, <2>5, <2>6 DEF AddUsed
<1>5. ASSUME NEW t \in Threads, SubUsed(t)
      PROVE  used' = Usage' /\ Usage' <= Cap + Overshoot'
  <2> DEFINE r == resv[t]
  <2>1. r \in Reservations /\ phase[r] = "held"
    BY <1>5 DEF SubUsed, Settling
  <2>2. amount[r] \in 0..MaxInt
    BY <2>1, Int64Assumption DEF TypeOK, BudgetTypeOK
  <2>3. Usage' = Usage - amount[r] /\ Overshoot' = Overshoot /\ amount[r] <= Usage
    BY <1>1, <1>5, <2>1, DropUsage DEF SubUsed
  <2>4. used = Usage /\ Usage <= Cap + Overshoot /\ Overshoot <= MaxInt - Cap
    BY <2>3 DEF Fits, UsedIsExact, Cap
  <2>5. AddInt64(used, -amount[r]) = used - amount[r]
    BY <1>1, <2>2, <2>3, <2>4 DEF AddInt64, Wrap
  <2> QED
    BY <1>1, <1>5, <2>2, <2>3, <2>4, <2>5 DEF SubUsed
<1>6. ASSUME NEW t \in Threads,
             \/ \E e \in Estimates : ReserveCall(t, e)
             \/ \E r \in Reservations, a \in Actuals : CommitCall(t, r, a)
             \/ \E r \in Reservations : ReleaseCall(t, r)
             \/ Load(t) \/ CasFail(t) \/ AddSpent(t)
      PROVE  UNCHANGED <<budgetVars, used>>
  BY <1>6 DEF budgetVars, ReserveCall, CommitCall, ReleaseCall, Load, CasFail, AddSpent
<1>7. CASE UNCHANGED vars
  BY <1>2, <1>7 DEF vars, budgetVars
<1> QED
  BY <1>2, <1>3, <1>4, <1>5, <1>6, <1>7 DEF Next, Call, Proceed

\* The used counter is exact and keeps the limit (UsedIsExact): concurrent
\* callers cannot exceed the budget, whatever their number.
THEOREM UsedExact == Spec => []UsedIsExact
<1>1. Init => UsedIsExact
  <2> SUFFICES ASSUME Init PROVE used = Usage /\ Usage <= Cap + Overshoot
    BY DEF UsedIsExact
  <2>1. Usage = 0 /\ Overshoot = 0
    BY InitUsage DEF Init
  <2> QED
    BY <2>1, LimitAssumption, MaxIntAssumption DEF Init, Cap
<1> QED
  BY <1>1, StructInit, StructNext, ExactNext, PTL DEF Spec

\* While overspending holds the counter below zero, no step grants a
\* reservation (WrappedGrantsNothing).
THEOREM FailsClosed == Spec => WrappedGrantsNothing
<1>1. Struct /\ [Next]_vars => [used < 0 => Held' \subseteq Held]_vars
  <2> SUFFICES ASSUME Struct, Next, used < 0
               PROVE  Held' \subseteq Held
    OBVIOUS
  <2> USE DEF Struct
  <2>1. ASSUME NEW t \in Threads, Cas(t) PROVE FALSE
    <3>1. seen[t] \in Int64 /\ est[t] \in 0..MaxInt
      BY DEF TypeOK
    <3>2. seen[t] >= 0
      BY <2>1, <3>1, NotRefused DEF Cas, Checked
    <3> QED
      BY <2>1, <3>1, <3>2, MaxIntAssumption DEF Cas, Int64
  <2>2. ASSUME NEW t \in Threads, AddUsed(t) \/ SubUsed(t)
        PROVE  Held' \subseteq Held
    BY <2>2 DEF AddUsed, SubUsed, Held, TypeOK, BudgetTypeOK
  <2>3. ASSUME NEW t \in Threads,
               \/ \E e \in Estimates : ReserveCall(t, e)
               \/ \E r \in Reservations, a \in Actuals : CommitCall(t, r, a)
               \/ \E r \in Reservations : ReleaseCall(t, r)
               \/ Load(t) \/ CasFail(t) \/ AddSpent(t)
        PROVE  Held' \subseteq Held
    BY <2>3 DEF Held, ReserveCall, CommitCall, ReleaseCall, Load, CasFail, AddSpent
  <2> QED
    BY <2>1, <2>2, <2>3 DEF Next, Call, Proceed
<1> QED
  BY <1>1, StructInit, StructNext, PTL DEF Spec, WrappedGrantsNothing

\* The lock-free ledger implements the abstract Budget until overspending
\* wraps the counter (ImplementsBudget): the swap is the grant, the additions to used are the settlements, and
\* every other atomic operation is invisible to the contract.
THEOREM LedgerImplementsBudget == Spec => ImplementsBudget
<1>1. Init => BudgetInit
  BY DEF Init
<1>2. Struct /\ UsedIsExact /\ [Next]_vars => [Fits' => BudgetNext]_budgetVars
  <2> SUFFICES ASSUME Struct, UsedIsExact, Next, Fits', ~UNCHANGED budgetVars
               PROVE  BudgetNext
    BY DEF vars, budgetVars
  <2> USE DEF Struct
  <2>1. BudgetTypeOK /\ Usage \in Nat /\ {} \in SUBSET Held
    BY BudgetSums DEF TypeOK
  <2>2. Lapse({}) = phase /\ Total(amount, {}) = 0
    BY <2>1, LapseNothing
  <2>3. ASSUME NEW t \in Threads, Cas(t) PROVE BudgetNext
    <3> DEFINE r == resv[t]
               e == est[t]
    <3>1. r \in Reservations /\ phase[r] = "free"
      BY <2>3 DEF Cas, Creating
    <3>2. e \in Amounts /\ e \in 0..MaxInt /\ e \in Nat /\ seen[t] \in Int64
      BY Int64Assumption, MaxIntAssumption DEF TypeOK
    <3>3. Overshoot' = Overshoot
      BY <2>1, <2>3, <3>1, <3>2, GrantUsage DEF Cas
    <3>4. used = Usage
      BY <3>3 DEF Fits, UsedIsExact, Cap
    <3>5. seen[t] + e <= Cap
      BY <2>3, <3>2, NotRefused DEF Cas, Checked
    <3>6. Limit < 0 \/ Usage - Total(amount, {}) + e <= Limit
      BY <2>1, <2>2, <2>3, <3>2, <3>4, <3>5, LimitAssumption DEF Cas, Cap, Int64
    <3>7. Grant(r, e, {})
      BY <2>2, <2>3, <3>1, <3>6 DEF Cas, Grant
    <3> QED
      BY <2>1, <3>1, <3>2, <3>7 DEF BudgetNext
  <2>4. ASSUME NEW t \in Threads, AddUsed(t) PROVE BudgetNext
    <3> DEFINE r == resv[t]
    <3>1. r \in Reservations /\ phase[r] = "held"
      BY <2>4 DEF AddUsed, Settling
    <3>2. act[t] \in Amounts
      BY Int64Assumption DEF TypeOK
    <3>3. Settle(r, act[t], {})
      BY <2>2, <2>4, <3>1 DEF AddUsed, Settle, Held
    <3> QED
      BY <2>1, <3>1, <3>2, <3>3 DEF BudgetNext
  <2>5. ASSUME NEW t \in Threads, SubUsed(t) PROVE BudgetNext
    <3> DEFINE r == resv[t]
    <3>1. r \in Reservations /\ phase[r] = "held"
      BY <2>5 DEF SubUsed, Settling
    <3>2. Free(r, {})
      BY <2>2, <2>5, <3>1 DEF SubUsed, Free, Held
    <3> QED
      BY <2>1, <3>1, <3>2 DEF BudgetNext
  <2>6. ASSUME NEW t \in Threads,
               \/ \E e \in Estimates : ReserveCall(t, e)
               \/ \E r \in Reservations, a \in Actuals : CommitCall(t, r, a)
               \/ \E r \in Reservations : ReleaseCall(t, r)
               \/ Load(t) \/ CasFail(t) \/ AddSpent(t)
        PROVE  FALSE
    BY <2>6 DEF budgetVars, ReserveCall, CommitCall, ReleaseCall, Load, CasFail, AddSpent
  <2> QED
    BY <2>3, <2>4, <2>5, <2>6 DEF Next, Call, Proceed
<1>3. Spec => []Struct
  BY StructInit, StructNext, PTL DEF Spec
<1> QED
  BY <1>1, <1>2, <1>3, UsedExact, PTL DEF Spec, ImplementsBudget

\* An open reservation that is done has a thread that settles it.
Owned ==
  \A r \in Reservations : phase[r] = "held" /\ done[r] => Settlers(r) # {}

\* Every step keeps a settling thread for every open, done reservation.
LEMMA OwnedNext == Struct /\ Owned /\ [Next]_vars => Owned'
<1> SUFFICES ASSUME Struct, Owned, [Next]_vars,
                    NEW r \in Reservations, phase'[r] = "held", done'[r]
             PROVE  Settlers(r)' # {}
  BY DEF Owned
<1> USE DEF Struct
<1>1. ASSUME NEW u \in Threads, pc'[u] \in {"addUsed", "subUsed"}, resv'[u] = r
      PROVE  Settlers(r)' # {}
  BY <1>1 DEF Settlers
<1>2. ASSUME phase[r] = "held", done[r],
             \A u \in Settlers(r) : pc'[u] = pc[u] /\ resv'[u] = resv[u]
      PROVE  Settlers(r)' # {}
  BY <1>1, <1>2 DEF Owned, Settlers
<1>3. ASSUME NEW t \in Threads, NEW e \in Estimates, ReserveCall(t, e)
      PROVE  Settlers(r)' # {}
  BY <1>2, <1>3 DEF ReserveCall, Settlers, TypeOK
<1>4. ASSUME NEW t \in Threads, Load(t) \/ CasFail(t) \/ AddSpent(t)
      PROVE  Settlers(r)' # {}
  BY <1>2, <1>4 DEF Load, CasFail, AddSpent, Return, Settlers, TypeOK
<1>5. ASSUME NEW t \in Threads, Cas(t)
      PROVE  Settlers(r)' # {}
  <2>1. phase[resv[t]] = "free" /\ ~done[resv[t]] /\ done' = done
    BY <1>5 DEF Cas, Creating, DoneFlags
  <2>2. phase[r] = "held"
    BY <1>5, <2>1 DEF Cas, TypeOK, BudgetTypeOK
  <2> QED
    BY <1>2, <1>5, <2>1, <2>2 DEF Cas, Return, Settlers, TypeOK
<1>6. ASSUME NEW t \in Threads, NEW q \in Reservations, NEW next \in {"addUsed", "subUsed"},
             Close(t, q, next), phase' = phase
      PROVE  Settlers(r)' # {}
  <2>1. CASE q = r /\ ~done[r]
    BY <1>1, <1>6, <2>1 DEF Close, TypeOK
  <2>2. CASE q # r \/ done[r]
    BY <1>2, <1>6, <2>2 DEF Close, Settlers, TypeOK
  <2> QED
    BY <2>1, <2>2
<1>7. ASSUME NEW t \in Threads, AddUsed(t) \/ SubUsed(t)
      PROVE  Settlers(r)' # {}
  <2>1. resv[t] # r /\ phase[r] = "held" /\ done[r]
    BY <1>7 DEF AddUsed, SubUsed, TypeOK, BudgetTypeOK
  <2> QED
    BY <1>2, <1>7, <2>1 DEF AddUsed, SubUsed, Return, Settlers, TypeOK
<1>8. CASE UNCHANGED vars
  BY <1>2, <1>8 DEF vars, threadVars
<1> QED
  BY <1>3, <1>4, <1>5, <1>6, <1>7, <1>8
     DEF Next, Call, Proceed, CommitCall, ReleaseCall

\* Commit and Release race for a reservation and exactly one of the calls
\* settles it, however many there are (SettledOnce).
THEOREM LedgerSettlesOnce == Spec => []SettledOnce
<1>1. Init => Owned
  BY DEF Init, BudgetInit, Owned
<1>2. Struct /\ Owned => SettledOnce
  <2> SUFFICES ASSUME Struct, Owned, NEW r \in Reservations
               PROVE  /\ Cardinality(Settlers(r)) =
                           IF phase[r] = "held" /\ done[r] THEN 1 ELSE 0
                      /\ phase[r] \in {"settled", "released"} => done[r]
    BY DEF SettledOnce
  <2> USE DEF Struct
  <2>1. CASE phase[r] = "held" /\ done[r]
    <3>1. PICK t \in Threads : t \in Settlers(r)
      BY <2>1 DEF Owned, Settlers
    <3>2. Settlers(r) = {t}
      BY <3>1 DEF Settlers, Settling
    <3> QED
      BY <2>1, <3>2, FS_Singleton
  <2>2. CASE ~(phase[r] = "held" /\ done[r])
    <3>1. Settlers(r) = {}
      BY <2>2 DEF Settlers, Settling
    <3> QED
      BY <2>2, <3>1, FS_EmptySet DEF DoneFlags
  <2> QED
    BY <2>1, <2>2
<1> QED
  BY <1>1, <1>2, StructInit, StructNext, OwnedNext, PTL DEF Spec

\* A thread about to add to spent carries the charge of a settled
\* reservation, alone.
Spending ==
  \A t \in Threads : pc[t] = "addSpent" =>
    /\ resv[t] \in Reservations
    /\ phase[resv[t]] = "settled"
    /\ act[t] = charge[resv[t]]
    /\ \A u \in Threads \ {t} : pc[u] = "addSpent" => resv[u] # resv[t]

\* spent misses exactly the charges still to be added.
Booked == Fits => spent = Total(charge, Settled \ Unspent)

\* Every step keeps the charges on their way to spent apart.
LEMMA SpendingNext == Struct /\ Spending /\ [Next]_vars => Spending'
<1> SUFFICES ASSUME Struct, Spending, [Next]_vars PROVE Spending'
  OBVIOUS
<1> USE DEF Struct
<1>1. ASSUME NEW t \in Threads,
             \/ \E e \in Estimates : ReserveCall(t, e)
             \/ Load(t) \/ CasFail(t) \/ AddSpent(t)
      PROVE  Spending'
  BY <1>1 DEF ReserveCall, Load, CasFail, AddSpent, Return, Spending, TypeOK
<1>2. ASSUME NEW t \in Threads, NEW r \in Reservations,
             ReleaseCall(t, r) \/ \E a \in Actuals : CommitCall(t, r, a)
      PROVE  Spending'
  BY <1>2 DEF ReleaseCall, CommitCall, Close, Spending, TypeOK
<1>3. ASSUME NEW t \in Threads, Cas(t)
      PROVE  Spending'
  BY <1>3 DEF Cas, Return, Creating, Spending, TypeOK, BudgetTypeOK
<1>4. ASSUME NEW t \in Threads, AddUsed(t)
      PROVE  Spending'
  <2>1. resv[t] \in Reservations /\ phase[resv[t]] = "held"
    BY <1>4 DEF AddUsed, Settling
  <2> QED
    BY <1>4, <2>1 DEF AddUsed, Return, Spending, TypeOK, BudgetTypeOK
<1>5. ASSUME NEW t \in Threads, SubUsed(t)
      PROVE  Spending'
  <2>1. resv[t] \in Reservations /\ phase[resv[t]] = "held"
    BY <1>5 DEF SubUsed, Settling
  <2> QED
    BY <1>5, <2>1 DEF SubUsed, Return, Spending, TypeOK, BudgetTypeOK
<1>6. CASE UNCHANGED vars
  BY <1>6 DEF vars, threadVars, Spending
<1> QED
  BY <1>1, <1>2, <1>3, <1>4, <1>5, <1>6 DEF Next, Call, Proceed

\* Only the two additions of a commit move the missing charges.
LEMMA SameUnspent ==
  ASSUME TypeOK, NEW t \in Threads, pc[t] # "addSpent", pc'[t] # "addSpent",
         \A u \in Threads \ {t} : pc'[u] = pc[u] /\ resv'[u] = resv[u]
  PROVE  Unspent' = Unspent
BY DEF Unspent

\* A step that adds no charge and takes none off the way keeps spent exact.
LEMMA BookedSame ==
  ASSUME Booked, UNCHANGED <<charge, spent>>,
         Settled' = Settled, Unspent' = Unspent, Overshoot' = Overshoot
  PROVE  Booked'
BY DEF Booked, Fits, Cap

\* Every step keeps spent exact but for the charges on their way.
LEMMA BookedNext ==
  Struct /\ UsedIsExact /\ Spending /\ Booked /\ [Next]_vars => Booked'
<1> SUFFICES ASSUME Struct, UsedIsExact, Spending, Booked, [Next]_vars PROVE Booked'
  OBVIOUS
<1> USE DEF Struct
<1>1. /\ BudgetTypeOK /\ Usage \in Nat /\ Overshoot \in Nat
      /\ Cap \in Int /\ Cap <= MaxInt /\ MaxInt \in Nat
      /\ IsFiniteSet(Settled) /\ \A r \in Settled : charge[r] \in Nat
      /\ Total(amount, Held) \in Nat
  BY BudgetSums, LimitAssumption, MaxIntAssumption DEF TypeOK, Cap, Settled
<1>2. ASSUME NEW t \in Threads,
             \/ \E e \in Estimates : ReserveCall(t, e)
             \/ \E r \in Reservations, a \in Actuals : CommitCall(t, r, a)
             \/ \E r \in Reservations : ReleaseCall(t, r)
             \/ Load(t) \/ CasFail(t)
      PROVE  Booked'
  <2>1. UNCHANGED budgetVars /\ spent' = spent
    BY <1>2 DEF budgetVars, ReserveCall, CommitCall, ReleaseCall, Load, CasFail
  <2>2. /\ pc[t] # "addSpent" /\ pc'[t] # "addSpent"
        /\ \A u \in Threads \ {t} : pc'[u] = pc[u] /\ resv'[u] = resv[u]
    BY <1>2 DEF ReserveCall, CommitCall, ReleaseCall, Close, Load, CasFail, Return, TypeOK
  <2> QED
    BY <2>1, <2>2, SameUnspent, SameUsage, BookedSame DEF budgetVars
<1>3. ASSUME NEW t \in Threads, Cas(t)
      PROVE  Booked'
  <2>1. resv[t] \in Reservations /\ phase[resv[t]] = "free" /\ est[t] \in Amounts
    BY <1>1, <1>3, Int64Assumption DEF Cas, Creating, TypeOK
  <2>2. Settled' = Settled /\ Overshoot' = Overshoot
    BY <1>1, <1>3, <2>1, GrantUsage DEF Cas
  <2>3. Unspent' = Unspent
    BY <1>3, SameUnspent DEF Cas, Return, TypeOK
  <2> QED
    BY <1>3, <2>2, <2>3, BookedSame DEF Cas
<1>4. ASSUME NEW t \in Threads, SubUsed(t)
      PROVE  Booked'
  <2>1. resv[t] \in Reservations /\ phase[resv[t]] = "held"
    BY <1>4 DEF SubUsed, Settling
  <2>2. Settled' = Settled /\ Overshoot' = Overshoot
    BY <1>1, <1>4, <2>1, DropUsage DEF SubUsed
  <2>3. Unspent' = Unspent
    BY <1>4, SameUnspent DEF SubUsed, Return, TypeOK
  <2> QED
    BY <1>4, <2>2, <2>3, BookedSame DEF SubUsed
<1>5. ASSUME NEW t \in Threads, AddUsed(t)
      PROVE  Booked'
  <2> DEFINE r == resv[t]
  <2>1. r \in Reservations /\ phase[r] = "held" /\ act[t] \in Amounts /\ act[t] \in Nat
    BY <1>1, <1>5, Int64Assumption DEF AddUsed, Settling, TypeOK
  <2>2. /\ phase'  = [phase EXCEPT ![r] = "settled"]
        /\ charge' = [charge EXCEPT ![r] = act[t]]
        /\ amount' = amount /\ spent' = spent
    BY <1>5 DEF AddUsed
  <2>3. /\ act[t] <= amount[r] => Overshoot' = Overshoot
        /\ act[t] > amount[r] => Overshoot' = Overshoot + (act[t] - amount[r])
        /\ Settled' = Settled \cup {r}
        /\ \A q \in Settled : charge'[q] = charge[q]
    BY <1>1, <2>1, <2>2, SettleUsage
  <2>4. r \notin Settled /\ r \notin Unspent
    BY <2>1 DEF Settled, Unspent, Spending
  <2>5. Overshoot <= Overshoot' /\ Overshoot' \in Int
    <3>1. amount[r] \in Nat
      BY <1>1, <2>1, BudgetSums
    <3> QED
      BY <1>1, <2>1, <2>3, <3>1
  <2>6. Fits' => spent = Total(charge, Settled \ Unspent)
    BY <1>1, <2>5 DEF Booked, Fits, Cap
  <2>7. Total(charge', Settled \ Unspent) = Total(charge, Settled \ Unspent)
    BY <2>3, TotalCong
  <2>8. CASE act[t] > 0
    <3>1. Unspent' = Unspent \cup {r}
      BY <1>5, <2>1, <2>8 DEF AddUsed, Unspent, TypeOK
    <3>2. Settled' \ Unspent' = Settled \ Unspent
      BY <2>3, <2>4, <3>1
    <3> QED
      BY <2>2, <2>6, <2>7, <3>2 DEF Booked
  <2>9. CASE ~(act[t] > 0)
    <3>1. Unspent' = Unspent
      BY <1>5, <2>9, SameUnspent DEF AddUsed, Return, TypeOK
    <3>2. Settled' \ Unspent' = (Settled \ Unspent) \cup {r} /\ r \notin Settled \ Unspent
      BY <2>3, <2>4, <3>1
    <3>3. charge'[r] = 0
      BY <2>1, <2>2, <2>9 DEF TypeOK, BudgetTypeOK
    <3>4. IsFiniteSet(Settled \ Unspent)
      BY <1>1, FS_Subset
    <3>5. \A q \in (Settled \ Unspent) \cup {r} : charge'[q] \in Nat
      BY <1>1, <2>3, <3>3
    <3>6. /\ Total(charge', (Settled \ Unspent) \cup {r}) = Total(charge', Settled \ Unspent) + 0
          /\ Total(charge', Settled \ Unspent) \in Nat
      BY <3>2, <3>3, <3>4, <3>5, TotalAdd, TotalNat
    <3>7. Total(charge', (Settled \ Unspent) \cup {r}) = Total(charge', Settled \ Unspent)
      BY <3>6
    <3>8. Total(charge', Settled' \ Unspent') = Total(charge, Settled \ Unspent)
      BY <2>7, <3>2, <3>7, Zenon
    <3> QED
      BY <2>2, <2>6, <3>8 DEF Booked
  <2> QED
    BY <2>8, <2>9
<1>6. ASSUME NEW t \in Threads, AddSpent(t)
      PROVE  Booked'
  <2> DEFINE r    == resv[t]
             rest == Settled \ Unspent
  <2>1. r \in Reservations /\ phase[r] = "settled" /\ act[t] = charge[r] /\ pc[t] = "addSpent"
    BY <1>6 DEF AddSpent, Spending
  <2>2. UNCHANGED <<budgetVars, used>> /\ spent' = AddInt64(spent, charge[r])
    BY <1>6, <2>1 DEF AddSpent, budgetVars
  <2>3. Settled' = Settled /\ Overshoot' = Overshoot /\ charge' = charge
    BY <2>2, SameUsage DEF budgetVars
  <2>4. Unspent' = Unspent \ {r} /\ r \in Unspent /\ r \in Settled
    BY <1>6, <2>1 DEF AddSpent, Return, Unspent, Spending, Settled, TypeOK
  <2>5. Settled' \ Unspent' = rest \cup {r} /\ r \notin rest
    BY <2>3, <2>4
  <2>6. IsFiniteSet(rest) /\ rest \cup {r} \in SUBSET Settled
    BY <1>1, <2>4, FS_Subset
  <2>7. /\ Total(charge, rest \cup {r}) = Total(charge, rest) + charge[r]
        /\ Total(charge, rest) \in Nat
        /\ Total(charge, rest \cup {r}) <= Total(charge, Settled)
        /\ Total(charge, Settled) \in Nat
        /\ charge[r] \in Nat
    BY <1>1, <2>4, <2>5, <2>6, TotalAdd, TotalNat, TotalSubset
  <2>8. ASSUME Fits PROVE spent' = Total(charge, rest \cup {r})
    <3>1. spent = Total(charge, rest) /\ Usage <= Cap + Overshoot /\ Overshoot <= MaxInt - Cap
      BY <2>8 DEF Booked, UsedIsExact, Fits
    <3>2. spent + charge[r] <= MaxInt
      BY <1>1, <2>7, <3>1 DEF Usage
    <3> QED
      BY <1>1, <2>2, <2>7, <3>1, <3>2 DEF AddInt64, Wrap
  <2> QED
    BY <2>3, <2>5, <2>8 DEF Booked, Fits, Cap
<1>7. CASE UNCHANGED vars
  <2>1. UNCHANGED budgetVars /\ spent' = spent /\ Unspent' = Unspent
    BY <1>7 DEF vars, budgetVars, threadVars, Unspent
  <2> QED
    BY <2>1, SameUsage, BookedSame DEF budgetVars
<1> QED
  BY <1>2, <1>3, <1>4, <1>5, <1>6, <1>7 DEF Next, Call, Proceed

\* spent trails used by the commits between their two additions and never
\* passes it (SpentBehindUsed).
THEOREM LedgerSpentBehindUsed == Spec => []SpentBehindUsed
<1>1. Init => Spending /\ Booked
  <2> SUFFICES ASSUME Init PROVE Spending /\ Booked
    OBVIOUS
  <2>1. Settled \ Unspent = {}
    BY InitUsage DEF Init
  <2> QED
    BY <2>1, TotalEmpty DEF Init, Spending, Booked
<1>2. Struct /\ UsedIsExact /\ Booked => SpentBehindUsed
  <2> SUFFICES ASSUME Struct, UsedIsExact, Booked, Fits
               PROVE  spent = Total(charge, Settled \ Unspent) /\ spent <= used
    BY DEF SpentBehindUsed
  <2>1. /\ IsFiniteSet(Settled) /\ \A r \in Settled : charge[r] \in Nat
        /\ Total(amount, Held) \in Nat /\ Total(charge, Settled) \in Nat
    BY BudgetSums DEF Struct, TypeOK, Settled
  <2>2. /\ Total(charge, Settled \ Unspent) <= Total(charge, Settled)
        /\ Total(charge, Settled \ Unspent) \in Nat
    BY <2>1, FS_Subset, TotalSubset, TotalNat
  <2> QED
    BY <2>1, <2>2 DEF Booked, UsedIsExact, Usage
<1>3. Spec => [](Struct /\ Spending)
  BY <1>1, StructInit, StructNext, SpendingNext, PTL DEF Spec
<1> QED
  BY <1>1, <1>2, <1>3, UsedExact, BookedNext, PTL DEF Spec
=============================================================================

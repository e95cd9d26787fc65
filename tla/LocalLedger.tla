----------------------------- MODULE LocalLedger -----------------------------
(***************************************************************************)
(* ledger.go and reservation.go: the in-process ledger.  Goroutines share  *)
(* two atomic counters, used and spent, and call Reserve, Commit and       *)
(* Release without a lock: Reserve is a compare-and-swap loop, and a       *)
(* reservation is settled by whoever flips its done flag first.  Every     *)
(* atomic operation is one step here, so all interleavings are explored.   *)
(*                                                                         *)
(* phase and charge are history variables: the abstract Budget's view of   *)
(* each reservation, moved in the step that changes the used counter.      *)
(* amount is the reservation's field "reserved".  Calls with a nil or      *)
(* cancelled context return at once and change nothing, so they are left   *)
(* out, except for the context check inside Reserve's loop.                *)
(*                                                                         *)
(* Here and in the other modules an operator D_X is D with a fault X put   *)
(* in; it is no part of the specification and only shows that a property   *)
(* notices the fault.                                                      *)
(***************************************************************************)
EXTENDS Budget

CONSTANTS Threads,   \* goroutines that call the ledger
          NoResv,    \* a thread that works on no reservation
          MaxInt,    \* math.MaxInt64, scaled down
          Estimates, \* arguments of Reserve
          Actuals    \* arguments of Commit

ASSUME ThreadsAssumption == IsFiniteSet(Threads)
ASSUME NoResvAssumption == NoResv \notin Reservations
ASSUME MaxIntAssumption == MaxInt \in Nat /\ Limit <= MaxInt
ASSUME Int64Assumption == Amounts = 0..MaxInt
ASSUME ArgumentsAssumption ==
  /\ Estimates \subseteq -(MaxInt + 1)..MaxInt
  /\ Actuals   \subseteq -(MaxInt + 1)..MaxInt

VARIABLES used,  \* usedMicros
          spent, \* spentMicros
          done,  \* the done flag of each reservation
          pc,    \* the next atomic operation of each thread
          resv,  \* the reservation a thread is creating or settling
          est,   \* estimateMicros of the thread's Reserve
          seen,  \* the value of used that Reserve loaded
          act    \* actualMicros of the thread's Commit, clamped

threadVars == <<pc, resv, est, seen, act>>
vars == <<phase, amount, charge, used, spent, done, threadVars>>

Int64 == -(MaxInt + 1)..MaxInt

\* Go's int64 arithmetic: two's complement, wrapping.
Wrap(x) == IF x > MaxInt THEN x - 2 * (MaxInt + 1)
           ELSE IF x < -(MaxInt + 1) THEN x + 2 * (MaxInt + 1)
           ELSE x

AddInt64(x, y) == Wrap(x + y)
SubInt64(x, y) == Wrap(x - y)

Init ==
  /\ BudgetInit
  /\ used  = 0
  /\ spent = 0
  /\ done  = [r \in Reservations |-> FALSE]
  /\ pc    = [t \in Threads |-> "idle"]
  /\ resv  = [t \in Threads |-> NoResv]
  /\ est   = [t \in Threads |-> 0]
  /\ seen  = [t \in Threads |-> 0]
  /\ act   = [t \in Threads |-> 0]

\* The call of thread t returns and its local variables are gone.
Return(t) ==
  /\ pc'   = [pc EXCEPT ![t] = "idle"]
  /\ resv' = [resv EXCEPT ![t] = NoResv]
  /\ est'  = [est EXCEPT ![t] = 0]
  /\ seen' = [seen EXCEPT ![t] = 0]
  /\ act'  = [act EXCEPT ![t] = 0]

ValidEstimate_NoLowerBound(e) == e <= MaxInt \div 2
ValidEstimate(e) == e >= 0 /\ e <= MaxInt \div 2

\* The two guards of Reserve's loop on the value it loaded.  On a negative
\* u the subtraction wraps, and the first guard refuses every estimate.
Refused_NoOverflowGuard(u, e) == Limit >= 0 /\ u > Limit - e
Refused_OffByOne(u, e) ==
  \/ e > SubInt64(MaxInt, u)
  \/ Limit >= 0 /\ u > Limit - e + 1
Refused(u, e) ==
  \/ e > SubInt64(MaxInt, u)
  \/ Limit >= 0 /\ u > Limit - e

\* Reserve: the estimate is validated before the loop.  The reservation
\* object is drawn here from the finite pool, which bounds how many
\* reservations a behaviour makes; a failed call gives it back.
ReserveCall(t, e) ==
  /\ pc[t] = "idle"
  /\ ValidEstimate(e)
  /\ \E r \in Reservations :
       /\ phase[r] = "free"
       /\ \A u \in Threads : resv[u] # r
       /\ resv' = [resv EXCEPT ![t] = r]
  /\ pc'  = [pc EXCEPT ![t] = "load"]
  /\ est' = [est EXCEPT ![t] = e]
  /\ UNCHANGED <<phase, amount, charge, used, spent, done, seen, act>>

\* usedMicros.Load, then the guards, which read only the loaded value.
Load(t) ==
  /\ pc[t] = "load"
  /\ IF Refused(used, est[t])
       THEN Return(t)
       ELSE /\ pc'   = [pc EXCEPT ![t] = "cas"]
            /\ seen' = [seen EXCEPT ![t] = used]
            /\ UNCHANGED <<resv, est, act>>
  /\ UNCHANGED <<phase, amount, charge, used, spent, done>>

\* The compare-and-swap succeeds: the reservation exists.
Cas_BlindStore(t) ==
  LET r == resv[t] IN
  /\ pc[t] = "cas"
  /\ used'   = AddInt64(seen[t], est[t])
  /\ phase'  = [phase EXCEPT ![r] = "held"]
  /\ amount' = [amount EXCEPT ![r] = est[t]]
  /\ Return(t)
  /\ UNCHANGED <<charge, spent, done>>
Cas(t) ==
  LET r == resv[t] IN
  /\ pc[t] = "cas"
  /\ used = seen[t]
  /\ used'   = AddInt64(seen[t], est[t])
  /\ phase'  = [phase EXCEPT ![r] = "held"]
  /\ amount' = [amount EXCEPT ![r] = est[t]]
  /\ Return(t)
  /\ UNCHANGED <<charge, spent, done>>

\* It fails: Reserve gives up if its context is cancelled, else loads again.
CasFail_NoReload(t) ==
  /\ pc[t] = "cas"
  /\ used # seen[t]
  /\ UNCHANGED vars
CasFail(t) ==
  /\ pc[t] = "cas"
  /\ used # seen[t]
  /\ \/ Return(t)
     \/ pc' = [pc EXCEPT ![t] = "load"] /\ UNCHANGED <<resv, est, seen, act>>
  /\ UNCHANGED <<phase, amount, charge, used, spent, done>>

\* A caller has the handle of r once Reserve returned it.
HasHandle(r) == phase[r] \in {"held", "settled", "released"}

\* done.CompareAndSwap(false, true) of thread t, which then settles r at
\* step next; on a reservation already done the call returns nil.
Close_NoSwap(t, r, next) ==
  /\ pc[t] = "idle"
  /\ phase[r] = "held"
  /\ done' = [done EXCEPT ![r] = TRUE]
  /\ pc'   = [pc EXCEPT ![t] = next]
  /\ resv' = [resv EXCEPT ![t] = r]
Close(t, r, next) ==
  /\ pc[t] = "idle"
  /\ HasHandle(r)
  /\ IF done[r]
       THEN UNCHANGED <<done, pc, resv>>
       ELSE /\ done' = [done EXCEPT ![r] = TRUE]
            /\ pc'   = [pc EXCEPT ![t] = next]
            /\ resv' = [resv EXCEPT ![t] = r]

\* Commit: clamp the actual cost, then race for the done flag.
CommitCall(t, r, a) ==
  /\ Close(t, r, "addUsed")
  /\ act' = [act EXCEPT ![t] = IF done[r] THEN @ ELSE IF a < 0 THEN 0 ELSE a]
  /\ UNCHANGED <<phase, amount, charge, used, spent, est, seen>>

\* usedMicros.Add(actual - reserved): the charge replaces the reservation.
AddUsed(t) ==
  LET r == resv[t] IN
  /\ pc[t] = "addUsed"
  /\ used'   = AddInt64(used, SubInt64(act[t], amount[r]))
  /\ phase'  = [phase EXCEPT ![r] = "settled"]
  /\ charge' = [charge EXCEPT ![r] = act[t]]
  /\ IF act[t] > 0
       THEN pc' = [pc EXCEPT ![t] = "addSpent"] /\ UNCHANGED <<resv, est, seen, act>>
       ELSE Return(t)
  /\ UNCHANGED <<amount, spent, done>>

\* spentMicros.Add(actual).
AddSpent_Reserved(t) ==
  /\ pc[t] = "addSpent"
  /\ spent' = AddInt64(spent, amount[resv[t]])
  /\ Return(t)
  /\ UNCHANGED <<phase, amount, charge, used, done>>
AddSpent(t) ==
  /\ pc[t] = "addSpent"
  /\ spent' = AddInt64(spent, act[t])
  /\ Return(t)
  /\ UNCHANGED <<phase, amount, charge, used, done>>

\* Release: race for the done flag.
ReleaseCall(t, r) ==
  /\ Close(t, r, "subUsed")
  /\ UNCHANGED <<phase, amount, charge, used, spent, est, seen, act>>

\* usedMicros.Add(-reserved).
SubUsed(t) ==
  LET r == resv[t] IN
  /\ pc[t] = "subUsed"
  /\ used'  = AddInt64(used, -amount[r])
  /\ phase' = [phase EXCEPT ![r] = "released"]
  /\ Return(t)
  /\ UNCHANGED <<amount, charge, spent, done>>

\* A call starts.
Call(t) ==
  \/ \E e \in Estimates : ReserveCall(t, e)
  \/ \E r \in Reservations :
       \/ \E a \in Actuals : CommitCall(t, r, a)
       \/ ReleaseCall(t, r)

\* A call in progress takes its next atomic operation.
Proceed(t) ==
  \/ Load(t)
  \/ Cas(t)
  \/ CasFail(t)
  \/ AddUsed(t)
  \/ AddSpent(t)
  \/ SubUsed(t)

Next == \E t \in Threads : Call(t) \/ Proceed(t)

Spec == Init /\ [][Next]_vars

\* A goroutine that has started a call is eventually scheduled again.
FairSpec == Spec /\ \A t \in Threads : WF_vars(Proceed(t))
-----------------------------------------------------------------------------
(* Properties.                                                             *)

\* Every variable has its type; pc names an atomic operation of the code.
TypeOK ==
  /\ BudgetTypeOK
  /\ used  \in Int64
  /\ spent \in Int64
  /\ done  \in [Reservations -> BOOLEAN]
  /\ pc    \in [Threads -> {"idle", "load", "cas", "addUsed", "addSpent", "subUsed"}]
  /\ resv  \in [Threads -> Reservations \cup {NoResv}]
  /\ est   \in [Threads -> 0..MaxInt]
  /\ seen  \in [Threads -> Int64]
  /\ act   \in [Threads -> 0..MaxInt]

\* The most an int64 counter may grant: Reserve's overflow guard limits
\* even an unlimited ledger.
Cap == IF Limit < 0 THEN MaxInt ELSE Limit

\* Commits may charge any int64, so the counter can wrap; it does not as
\* long as what they charge beyond their reservations fits above the cap.
Fits == Overshoot <= MaxInt - Cap

\* Threads between winning the done flag of r and adjusting used.
Settlers(r) == {t \in Threads : pc[t] \in {"addUsed", "subUsed"} /\ resv[t] = r}

\* Reservations whose charge is not yet in spent.
Unspent == {r \in Reservations :
              \E t \in Threads : pc[t] = "addSpent" /\ resv[t] = r}

\* Reserve's loop and the lock-free settlement keep the counter exact: at
\* every instant used is the open reservations plus the final charges, and
\* it passes the limit by no more than commits overshot (README guarantees
\* 1 and 8).
UsedIsExact == Fits => used = Usage /\ Usage <= Cap + Overshoot

\* Commit and Release race for one reservation and exactly one of them
\* settles it (README guarantee 3): an open reservation that is done has one
\* settling thread, one that is not done has none, a closed one is done.
SettledOnce ==
  \A r \in Reservations :
    /\ Cardinality(Settlers(r)) = IF phase[r] = "held" /\ done[r] THEN 1 ELSE 0
    /\ phase[r] \in {"settled", "released"} => done[r]

\* Commit adds to used before it adds to spent (reservation.go): at every
\* instant spent misses only the commits between the two additions, and is
\* no more than used, whatever is being released or settled meanwhile.
SpentBehindUsed ==
  Fits => /\ spent = Total(charge, Settled \ Unspent)
          /\ spent <= used

\* Once overspending has wrapped the counter, Reserve fails closed: no
\* reservation is granted while used is negative (ledger.go, the guard
\* commented "Guard against signed integer overflow").
WrappedGrantsNothing == [][used < 0 => Held' \subseteq Held]_vars

\* Every call returns.  Reserve's loop is lock-free, not wait-free: a call
\* repeats it only when another call changed used, which the pool bounds.
CallsReturn == \A t \in Threads : pc[t] # "idle" ~> pc[t] = "idle"

\* The ledger implements the abstract Budget for as long as overspending
\* has not wrapped the counter: the swap is the grant, the additions to used
\* are the settlements, and no other step is visible to the contract.
ImplementsBudget == BudgetInit /\ [][Fits' => BudgetNext]_budgetVars
=============================================================================

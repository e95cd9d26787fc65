------------------------ MODULE QuotaMiddlewareProofs ------------------------
(***************************************************************************)
(* Theorems about the quota middleware and its record, for any number of   *)
(* requests, any inputs, costs, policies and deployments, any width of the *)
(* integers, and failures anywhere.                                        *)
(*                                                                         *)
(* Whatever a request does, its effect on the record is one of four, which *)
(* keep RecordOK.  What its results say follows from Control, which ties   *)
(* each request's next step to its own hold and charge; no step of another *)
(* request, and no policy change, touches them.                            *)
(***************************************************************************)
EXTENDS QuotaMiddleware, MicroSumTheorems

\* The record, and that no hold is open beside a charge of its own.
RecordOK ==
  /\ budget \in 0..MaxInt \cup {None}
  /\ spent \in 0..MaxInt
  /\ hold \in [Requests -> 0..(MaxInt \div 2) \cup {None}]
  /\ charge \in [Requests -> 0..MaxInt \cup {None}]
  /\ \A q \in Requests : hold[q] # None => charge[q] = None
  /\ SpentIsCharged

\* The variables of the requests.
RequestsOK ==
  /\ conf \in Setups
  /\ pc \in [Requests -> Steps \cup Returned \cup {"new", "crashed"}]
  /\ est \in [Requests -> Nat]
  /\ est \in [Requests -> ResolvedEstimates]
  /\ actual \in [Requests -> Nat]
  /\ output \in [Requests -> Outputs \cup {"none"}]
  /\ result \in [Requests -> Returned]
  /\ faults \subseteq Requests

\* What a settlement will return: an error only for an output that cannot be
\* annotated.
Settling(q) ==
  /\ result[q] \in {"ok", "error"}
  /\ result[q] = "error" => output[q] \notin {"none", "object"} /\ ~conf.hooks

\* The hold and the charge of a request at each of its steps.
Control(q) ==
  /\ charge[q] # None => charge[q] = actual[q]
  /\ pc[q] \in {"new", "reserve", "denied"} =>
       hold[q] = None /\ charge[q] = None /\ output[q] = "none"
  /\ pc[q] = "run" =>
       charge[q] = None /\ output[q] = "none" /\ (conf.leased \/ hold[q] = est[q])
  /\ pc[q] = "commit" => charge[q] = None /\ Settling(q)
  /\ pc[q] = "record" => charge[q] = actual[q] /\ hold[q] = None /\ Settling(q)
  /\ pc[q] \in {"release", "releaseAgain"} =>
       /\ result[q] \in {"error", "panicked"} /\ (q \in faults \/ charge[q] = None)
       /\ conf.hooks => output[q] = "none"
  /\ pc[q] = "ok" /\ ~conf.hooks => charge[q] = actual[q] /\ hold[q] = None
  /\ pc[q] \in {"error", "panicked"} /\ conf.hooks => output[q] = "none"
  /\ pc[q] \in {"error", "panicked"} /\ q \notin faults /\ output[q] \in {"none", "object"} =>
       charge[q] = None
  /\ pc[q] \in Returned /\ hold[q] # None => q \in faults \/ Refused(q)

QuotaInv == RecordOK /\ RequestsOK /\ \A q \in Requests : Control(q)

\* The holds and charges are finitely many naturals.
LEMMA RecordSums ==
  ASSUME RecordOK
  PROVE  /\ IsFiniteSet(Open) /\ \A q \in Open : hold[q] \in Nat
         /\ IsFiniteSet(Charged) /\ \A q \in Charged : charge[q] \in Nat
         /\ Reserved \in Nat
         /\ Total(charge, Charged) \in Nat
<1>1. Open \subseteq Requests /\ Charged \subseteq Requests
  BY DEF Open, Charged
<1>2. IsFiniteSet(Open) /\ IsFiniteSet(Charged)
  BY <1>1, FS_Subset, RuntimeQuotaAssumption
<1>3. \A q \in Open : hold[q] \in Nat
  BY RuntimeQuotaAssumption DEF RecordOK, Open
<1>4. \A q \in Charged : charge[q] \in Nat
  BY RuntimeQuotaAssumption DEF RecordOK, Charged
<1> QED
  BY <1>2, <1>3, <1>4, TotalNat DEF Reserved

\* A commit adds its charge to the sum of the charges.
LEMMA CommitCharges ==
  ASSUME RecordOK, NEW q \in Requests, NEW a \in Nat, CommitApplies(q, a)
  PROVE  Total(charge', Charged') = Total(charge, Charged) + a
<1>1. charge[q] = None /\ q \notin Charged
  BY DEF CommitApplies, CommitFails, RecordOK, Charged
<1>2. \A p \in Charged : charge'[p] = charge[p]
  BY <1>1 DEF CommitApplies, Charged, RecordOK
<1>3. Total(charge', Charged) = Total(charge, Charged)
  BY <1>2, TotalCong
<1>4. charge'[q] = a
  BY DEF CommitApplies, RecordOK
<1>5. Charged' = Charged \cup {q}
  BY <1>1, <1>4 DEF CommitApplies, Charged, RecordOK, None
<1>6. \A p \in Charged \cup {q} : charge'[p] \in Nat
  BY <1>2, <1>4, RecordSums
<1>7. Total(charge', Charged \cup {q}) = Total(charge', Charged) + charge'[q]
  BY <1>1, <1>6, RecordSums, TotalAdd
<1> QED
  BY <1>3, <1>4, <1>5, <1>7

\* The effects that steps have on the record.
Effect ==
  \/ UNCHANGED <<record, charge>>
  \/ \E q \in Requests : charge[q] = None /\ hold[q] = None /\ ReserveApplies(q, est[q])
  \/ \E q \in Requests : CommitApplies(q, actual[q])
  \/ \E q \in Requests : ReleaseApplies(q)
  \/ \E l \in Limits : SetRuntimeBudget(l)

\* Each effect keeps the record's invariant.
LEMMA EffectKeepsRecord ==
  ASSUME RecordOK, RequestsOK, Effect
  PROVE  RecordOK'
<1>1. CASE UNCHANGED <<record, charge>>
  BY <1>1 DEF record, RecordOK, SpentIsCharged, Charged
<1>2. ASSUME NEW q \in Requests, charge[q] = None, ReserveApplies(q, est[q])
      PROVE  RecordOK'
  <2>1. est[q] \in 0..(MaxInt \div 2)
    BY <1>2 DEF ReserveApplies, ReserveFails, ValidEstimate, RequestsOK
  <2> QED
    BY <1>2, <2>1 DEF ReserveApplies, RecordOK, SpentIsCharged, Charged
<1>3. ASSUME NEW q \in Requests, CommitApplies(q, actual[q])
      PROVE  RecordOK'
  <2>1. actual[q] \in Nat
    BY DEF RequestsOK
  <2>2. spent' = spent + actual[q] /\ actual[q] \in 0..MaxInt /\ spent' \in 0..MaxInt
    BY <1>3, <2>1, RuntimeQuotaAssumption DEF CommitApplies, CommitFails, RecordOK
  <2>3. SpentIsCharged'
    BY <1>3, <2>1, <2>2, CommitCharges DEF RecordOK, SpentIsCharged
  <2> QED
    BY <1>3, <2>2, <2>3 DEF CommitApplies, RecordOK
<1>4. ASSUME NEW q \in Requests, ReleaseApplies(q)
      PROVE  RecordOK'
  BY <1>4 DEF ReleaseApplies, RecordOK, SpentIsCharged, Charged
<1>5. ASSUME NEW l \in Limits, SetRuntimeBudget(l)
      PROVE  RecordOK'
  <2>1. l \in 0..MaxInt
    BY <1>5, RuntimeQuotaAssumption DEF SetRuntimeBudget
  <2> QED
    BY <1>5, <2>1 DEF SetRuntimeBudget, RecordOK, SpentIsCharged, Charged
<1> QED
  BY <1>1, <1>2, <1>3, <1>4, <1>5 DEF Effect

\* Nothing that Control says of p has changed.
Untouched(p) ==
  /\ pc'[p] = pc[p] /\ est'[p] = est[p] /\ actual'[p] = actual[p]
  /\ output'[p] = output[p] /\ result'[p] = result[p]
  /\ hold'[p] = hold[p] /\ charge'[p] = charge[p]
  /\ p \in faults' <=> p \in faults

\* The counter never decreases, so that what was refused stays refused.
LEMMA SpentGrows ==
  ASSUME RecordOK, RequestsOK, Effect
  PROVE  spent' \in Int /\ spent' >= spent
<1>1. spent \in Int /\ \A q \in Requests : actual[q] \in Nat
  BY RuntimeQuotaAssumption DEF RecordOK, RequestsOK
<1> QED
  BY <1>1 DEF Effect, record, ReserveApplies, CommitApplies, ReleaseApplies, SetRuntimeBudget

LEMMA UntouchedControl ==
  ASSUME QuotaInv, Effect, UNCHANGED conf, NEW p \in Requests, Untouched(p)
  PROVE  Control(p)'
<1>1. Refused(p) => Refused(p)'
  <2>1. actual[p] \in Nat /\ spent \in Int /\ spent' \in Int /\ spent' >= spent
    BY SpentGrows, RuntimeQuotaAssumption DEF QuotaInv, RecordOK, RequestsOK
  <2> QED
    BY <2>1, RuntimeQuotaAssumption DEF Refused, Untouched
<1> QED
  BY <1>1 DEF QuotaInv, Control, Settling, Untouched

\* A step of request q that keeps q's own part of the invariant, and does not
\* touch the others, keeps the invariant.
LEMMA OneRequest ==
  ASSUME QuotaInv, NEW q \in Requests, Effect, UNCHANGED conf, RequestsOK',
         Control(q)', \A p \in Requests \ {q} : Untouched(p)
  PROVE  QuotaInv'
<1>1. RecordOK'
  BY EffectKeepsRecord DEF QuotaInv
<1>2. ASSUME NEW p \in Requests PROVE Control(p)'
  BY UntouchedControl
<1> QED
  BY <1>1, <1>2 DEF QuotaInv

\* An estimate that resolves is a natural number.
LEMMA ArriveInv ==
  ASSUME QuotaInv, NEW q \in Requests, NEW x \in Inputs, Arrive(q, x), UNCHANGED conf
  PROVE  QuotaInv'
<1> USE DEF QuotaInv
<1>1. Effect
  BY DEF Arrive, Effect, record
<1>2. RequestsOK'
  <2>1. Resolves(x) => x.value \in Nat
    BY QuotaMiddlewareAssumption DEF Arrive, ParseEstimate, Resolves
  <2>2. Resolves(x) => x.value \in ResolvedEstimates
    BY QuotaMiddlewareAssumption, RuntimeQuotaAssumption DEF Resolves, ResolvedEstimates
  <2> QED
    BY <2>1, <2>2 DEF Arrive, Goto, RequestsOK, Steps, Returned
<1>3. Control(q)'
  BY DEF Arrive, Goto, Control, RequestsOK, record, Returned
<1>4. \A p \in Requests \ {q} : Untouched(p)
  BY DEF Arrive, Goto, Untouched, RequestsOK, record
<1> QED
  BY <1>1, <1>2, <1>3, <1>4, OneRequest

\* A Reserve that fails or is denied leaves nothing; one that is granted holds
\* the estimate; one whose answer is lost is a fault.
LEMMA ReserveInv ==
  ASSUME QuotaInv, NEW q \in Requests, Reserve(q), UNCHANGED conf
  PROVE  QuotaInv'
<1> USE DEF QuotaInv
<1>1. hold[q] = None /\ charge[q] = None /\ output[q] = "none"
  BY DEF Reserve, Control
<1>2. Effect
  BY <1>1 DEF Reserve, Effect
<1>3. RequestsOK'
  BY DEF Reserve, Goto, NoFault, Fault, RequestsOK, Steps, Returned
<1>4. Control(q)'
  BY <1>1 DEF Reserve, ReserveApplies, Goto, NoFault, Fault, Control, RequestsOK, RecordOK, record, Returned
<1>5. \A p \in Requests \ {q} : Untouched(p)
  BY DEF Reserve, ReserveApplies, Goto, NoFault, Fault, Untouched, RequestsOK, RecordOK, record
<1> QED
  BY <1>2, <1>3, <1>4, <1>5, OneRequest

\* The action returns, fails or panics.
LEMMA RunInv ==
  ASSUME QuotaInv, NEW q \in Requests, UNCHANGED conf,
         \/ \E o \in Outputs, a \in conf.actuals : RunSucceeds(q, o, a)
         \/ \E r \in {"error", "panicked"} : RunFails(q, r)
  PROVE  QuotaInv'
<1> USE DEF QuotaInv
<1>1. charge[q] = None /\ output[q] = "none"
  BY DEF RunSucceeds, RunFails, Control
<1>2. Effect
  BY DEF RunSucceeds, RunFails, Effect, record
<1>3. CASE \E o \in Outputs, a \in conf.actuals : RunSucceeds(q, o, a)
  <2>1. PICK o \in Outputs, a \in conf.actuals : RunSucceeds(q, o, a)
    BY <1>3
  <2>2. a \in Int
    BY QuotaMiddlewareAssumption, RuntimeQuotaAssumption DEF RequestsOK
  <2>3. o \in {"object", "reporter", "other"} /\ Annotated(o) \in {"ok", "error"}
    BY QuotaMiddlewareAssumption DEF Annotated
  <2>4. Annotated(o) = "error" => o # "object" /\ ~conf.hooks
    BY DEF Annotated
  <2>5. (IF o = "reporter" THEN Clamp(a) ELSE est[q]) \in Nat
    BY <2>2 DEF Clamp, RequestsOK
  <2>6. RequestsOK'
    BY <2>1, <2>3, <2>5 DEF RunSucceeds, Goto, RequestsOK, Steps, Returned
  <2>7. Control(q)'
    BY <1>1, <2>1, <2>3, <2>4 DEF RunSucceeds, Goto, Control, Settling, RequestsOK, record, Returned
  <2>8. \A p \in Requests \ {q} : Untouched(p)
    BY <2>1 DEF RunSucceeds, Goto, Untouched, RequestsOK, record
  <2> QED
    BY <1>2, <2>6, <2>7, <2>8, OneRequest
<1>4. CASE \E r \in {"error", "panicked"} : RunFails(q, r)
  <2>1. RequestsOK'
    BY <1>4 DEF RunFails, Goto, RequestsOK, Steps, Returned
  <2>2. Control(q)'
    BY <1>1, <1>4 DEF RunFails, Goto, Control, RequestsOK, record, Returned
  <2>3. \A p \in Requests \ {q} : Untouched(p)
    BY <1>4 DEF RunFails, Goto, Untouched, RequestsOK, record
  <2> QED
    BY <1>2, <2>1, <2>2, <2>3, OneRequest
<1> QED
  BY <1>3, <1>4

\* A settlement takes its own hold; one that fails leads a middleware to its
\* release, and leaves a hook's hold only after a fault or for lack of room.
LEMMA CommitInv ==
  ASSUME QuotaInv, NEW q \in Requests, Commit(q), UNCHANGED conf
  PROVE  QuotaInv'
<1> USE DEF QuotaInv
<1>1. /\ charge[q] = None /\ Settling(q) /\ actual[q] \in Nat
      /\ conf.hooks \in BOOLEAN /\ pc[q] = "commit"
  BY QuotaMiddlewareAssumption DEF Commit, Control, RequestsOK
<1>2. Effect
  BY DEF Commit, Effect
<1>3. RequestsOK'
  BY DEF Commit, SettlementFailed, Goto, NoFault, Fault, RequestsOK, Steps, Returned
<1>4. \A p \in Requests \ {q} : Untouched(p)
  BY DEF Commit, SettlementFailed, CommitApplies, Goto, NoFault, Fault, Untouched, RequestsOK, RecordOK, record
<1>5. Control(q)'
  <2> USE <1>1 DEF Goto, RequestsOK
  <2>1. ASSUME CommitApplies(q, actual[q]), NoFault, UNCHANGED <<result, actual, output>>,
               Goto(q, IF actual[q] > 0 THEN "record" ELSE result[q])
        PROVE  Control(q)'
    <3>1. charge'[q] = actual[q] /\ hold'[q] = None
      BY <2>1 DEF CommitApplies, RecordOK
    <3>2. UNCHANGED <<result[q], actual[q], output[q], faults, conf>>
      BY <2>1 DEF NoFault
    <3>3. CASE actual[q] > 0
      BY <2>1, <3>1, <3>2, <3>3 DEF Control, Settling, Returned
    <3>4. CASE actual[q] = 0
      BY <2>1, <3>1, <3>2, <3>4 DEF Control, Settling, Returned
    <3> QED
      BY <3>3, <3>4
  <2>2. ASSUME Fault(q), SettlementFailed(q), UNCHANGED <<actual, output>>,
               CommitApplies(q, actual[q]) \/ UNCHANGED <<record, charge>>
        PROVE  Control(q)'
    <3>1. q \in faults' /\ charge'[q] \in {None, actual'[q]}
      BY <2>2 DEF Fault, CommitApplies, RecordOK
    <3>2. \/ conf.hooks /\ pc'[q] = "ok"
          \/ ~conf.hooks /\ pc'[q] = "release" /\ result'[q] = "error"
      BY <2>2 DEF SettlementFailed
    <3> QED
      BY <3>1, <3>2 DEF Control, Returned
  <2>3. ASSUME CommitFails(q, actual[q]), NoFault, SettlementFailed(q),
               UNCHANGED <<record, charge, actual, output>>
        PROVE  Control(q)'
    <3>1. /\ UNCHANGED <<hold[q], charge[q], actual[q], output[q], faults, conf, spent>>
          /\ hold[q] = None \/ actual[q] > MaxInt - spent
      BY <2>3 DEF NoFault, CommitFails, record
    <3>2. \/ conf.hooks /\ pc'[q] = "ok"
          \/ ~conf.hooks /\ pc'[q] = "release" /\ result'[q] = "error"
      BY <2>3 DEF SettlementFailed
    <3> QED
      BY <3>1, <3>2 DEF Control, Refused, Returned
  <2> QED
    BY <2>1, <2>2, <2>3 DEF Commit
<1> QED
  BY <1>2, <1>3, <1>4, <1>5, OneRequest

\* The event of a charge is recorded, or not, and the request returns.
LEMMA RecordInv ==
  ASSUME QuotaInv, NEW q \in Requests, Record(q), UNCHANGED conf
  PROVE  QuotaInv'
<1> USE DEF QuotaInv
<1>1. charge[q] = actual[q] /\ hold[q] = None /\ Settling(q)
  BY DEF Record, Control
<1>2. Effect
  BY DEF Record, Effect
<1>3. RequestsOK'
  BY DEF Record, Goto, NoFault, Fault, RequestsOK, Returned
<1>4. Control(q)'
  BY <1>1 DEF Record, Goto, NoFault, Fault, Settling, Control, RequestsOK, record, Returned
<1>5. \A p \in Requests \ {q} : Untouched(p)
  BY DEF Record, Goto, NoFault, Fault, Untouched, RequestsOK, record
<1> QED
  BY <1>2, <1>3, <1>4, <1>5, OneRequest

\* A release leaves no hold behind without a fault.
LEMMA ReleaseInv ==
  ASSUME QuotaInv, NEW q \in Requests, Release(q), UNCHANGED conf
  PROVE  QuotaInv'
<1> USE DEF QuotaInv
<1>1. /\ result[q] \in {"error", "panicked"} /\ (q \in faults \/ charge[q] = None)
      /\ charge[q] # None => charge[q] = actual[q]
      /\ conf.hooks => output[q] = "none"
  BY DEF Release, Control
<1>2. Effect
  BY DEF Release, Effect
<1>3. RequestsOK'
  BY DEF Release, Released, Goto, NoFault, Fault, RequestsOK, Steps
<1>4. /\ q \in faults' \/ hold'[q] = None
      /\ charge'[q] = charge[q] /\ (q \in faults => q \in faults')
  BY DEF Release, ReleaseApplies, ReleaseFails, NoFault, Fault, RecordOK, record
<1>5. /\ pc'[q] = result[q] \/ pc'[q] = "releaseAgain"
      /\ UNCHANGED <<output[q], result[q], actual[q]>>
  BY DEF Release, Released, Goto, RequestsOK
<1>6. Control(q)'
  BY <1>1, <1>4, <1>5 DEF Control
<1>7. \A p \in Requests \ {q} : Untouched(p)
  BY DEF Release, Released, ReleaseApplies, Goto, NoFault, Fault, Untouched, RequestsOK, RecordOK, record
<1> QED
  BY <1>2, <1>3, <1>6, <1>7, OneRequest

\* A process that ends returns nothing, and a lease that is over takes only
\* its own hold.
LEMMA EnvironmentInv ==
  ASSUME QuotaInv, NEW q \in Requests, Crash(q) \/ Lapse(q), UNCHANGED conf
  PROVE  QuotaInv'
<1> USE DEF QuotaInv
<1>1. Effect
  BY DEF Crash, Lapse, Effect
<1>2. RequestsOK'
  BY DEF Crash, Lapse, Goto, requestVars, RequestsOK
<1>3. Control(q)'
  BY DEF Crash, Lapse, ReleaseApplies, Goto, requestVars, Control, Settling, RequestsOK, RecordOK, record, Returned
<1>4. \A p \in Requests \ {q} : Untouched(p)
  BY DEF Crash, Lapse, ReleaseApplies, Goto, requestVars, Untouched, RequestsOK, RecordOK, record
<1> QED
  BY <1>1, <1>2, <1>3, <1>4, OneRequest

\* A policy change touches no request.
LEMMA PolicyInv ==
  ASSUME QuotaInv, NEW l \in Limits, SetPolicy(l), UNCHANGED conf
  PROVE  QuotaInv'
<1> USE DEF QuotaInv
<1>1. Effect
  BY DEF SetPolicy, Effect
<1>2. RecordOK' /\ RequestsOK'
  BY <1>1, EffectKeepsRecord DEF SetPolicy, requestVars, RequestsOK
<1>3. \A p \in Requests : Untouched(p)
  BY DEF SetPolicy, SetRuntimeBudget, requestVars, Untouched
<1> QED
  BY <1>1, <1>2, <1>3, UntouchedControl

LEMMA QuotaInit == Init => QuotaInv
<1> SUFFICES ASSUME Init PROVE QuotaInv
  OBVIOUS
<1>1. Charged = {}
  BY DEF Init, InitRecord, Charged
<1>2. RecordOK
  BY <1>1, TotalEmpty, RuntimeQuotaAssumption DEF Init, InitRecord, RecordOK, SpentIsCharged
<1>3. RequestsOK /\ \A q \in Requests : Control(q)
  BY RuntimeQuotaAssumption DEF Init, InitRecord, RequestsOK, ResolvedEstimates, Control, Returned
<1> QED
  BY <1>2, <1>3 DEF QuotaInv

LEMMA QuotaNext == QuotaInv /\ [Next]_vars => QuotaInv'
<1> SUFFICES ASSUME QuotaInv, [Next]_vars PROVE QuotaInv'
  OBVIOUS
<1>1. ASSUME NEW q \in Requests, Proceed(q), UNCHANGED conf PROVE QuotaInv'
  BY <1>1, ReserveInv, RunInv, CommitInv, RecordInv, ReleaseInv DEF Proceed
<1>2. CASE UNCHANGED vars
  <2>1. Effect
    BY <1>2 DEF vars, flowVars, Effect
  <2>2. RecordOK' /\ RequestsOK'
    BY <1>2, <2>1, EffectKeepsRecord DEF vars, flowVars, requestVars, QuotaInv, RequestsOK
  <2>3. \A p \in Requests : Untouched(p)
    BY <1>2 DEF vars, flowVars, requestVars, record, Untouched
  <2> QED
    BY <1>2, <2>1, <2>2, <2>3, UntouchedControl DEF QuotaInv, vars
<1> QED
  BY <1>1, <1>2, ArriveInv, EnvironmentInv, PolicyInv DEF Next

\* The invariant holds in every reachable state.
LEMMA QuotaAlways == Spec => []QuotaInv
<1> QED
  BY QuotaInit, QuotaNext, PTL DEF Spec

\* The variables keep their types, and what is held passed the validation of
\* Reserve, although estimates may come from anywhere.
THEOREM QuotaTypeCorrect == Spec => []TypeOK
<1>1. QuotaInv => TypeOK
  BY DEF QuotaInv, RecordOK, RequestsOK, TypeOK
<1> QED
  BY <1>1, QuotaAlways, PTL

\* spent_micros is the sum of what commits charged, whatever failed, was
\* repeated or was cut off from its answer.
THEOREM QuotaSpentIsCharged == Spec => []SpentIsCharged
<1>1. QuotaInv => SpentIsCharged
  BY DEF QuotaInv, RecordOK
<1> QED
  BY <1>1, QuotaAlways, PTL

\* What a request returns is what happened to the budget, and where a ledger
\* call has failed, it was charged its actual cost or nothing.
THEOREM QuotaResultIsTrue == Spec => []ResultIsTrue
<1>1. QuotaInv => ResultIsTrue
  BY DEF QuotaInv, RecordOK, Control, ResultIsTrue, Errors, Returned
<1> QED
  BY <1>1, QuotaAlways, PTL

\* Without leases an action runs under the hold it was admitted with.
THEOREM QuotaAdmittedIsCovered == Spec => []AdmittedIsCovered
<1>1. QuotaInv => AdmittedIsCovered
  BY DEF QuotaInv, Control, AdmittedIsCovered
<1> QED
  BY <1>1, QuotaAlways, PTL

\* Only a failed ledger call leaves the hold of a request that has returned.
THEOREM QuotaStrandedOnlyByFault == Spec => []StrandedOnlyByFault
<1>1. QuotaInv => StrandedOnlyByFault
  BY DEF QuotaInv, Control, StrandedOnlyByFault
<1> QED
  BY <1>1, QuotaAlways, PTL
-----------------------------------------------------------------------------
(* The record implements the contract of a budget with a moving limit.     *)

\* The limit of the contract: a tenant without a policy has none to spend.
Policy == IF budget = None THEN 0 ELSE budget

\* The names of the contract are those of the record.
LEMMA QuotaNames ==
  /\ MB!Holding = Open /\ MB!Charged = Charged
  /\ \A f, S : MB!Total(f, S) = Total(f, S)
<1>1. MB!Holding = Open /\ MB!Charged = Charged
  BY DEF MB!Holding, MB!Charged, Open, Charged
<1>2. ASSUME NEW f, NEW S
      PROVE  MB!Total(f, S) = Total(f, S)
  BY DEF MB!Total, MB!Units, Total, Units, MB!Cardinality, Cardinality
<1> QED
  BY <1>1, <1>2

\* A Reserve that is granted found room beside every other hold and charge.
LEMMA ReserveIsGrant ==
  ASSUME RecordOK, RequestsOK, NEW q \in Requests,
         hold[q] = None, charge[q] = None, ReserveApplies(q, est[q])
  PROVE  MB!Grant(q, {})
<1>1. budget # None /\ est[q] \in Nat /\ hold'[q] = est[q]
  BY DEF ReserveApplies, ReserveFails, RequestsOK, RecordOK
<1>2. Total(hold, Open \ {}) + Total(charge, Charged) + hold'[q] <= Policy
  <2>1. est[q] <= budget - (spent + Reserved) /\ budget \in Int /\ spent \in Int
    BY <1>1, RecordSums, RuntimeQuotaAssumption DEF ReserveApplies, Exceeds, RecordOK
  <2>2. Open \ {} = Open
    OBVIOUS
  <2> QED
    BY <1>1, <2>1, <2>2, RecordSums DEF Policy, Reserved, RecordOK, SpentIsCharged
<1>3. hold' = [MB!Without({}) EXCEPT ![q] = hold'[q]]
  BY <1>1 DEF ReserveApplies, MB!Without, RecordOK
<1>4. UNCHANGED <<Policy, charge>>
  BY DEF ReserveApplies, Policy
<1> QED
  BY <1>1, <1>2, <1>3, <1>4, QuotaNames DEF MB!Grant, Policy

\* Each effect on the record is a step of the contract or none.
LEMMA EffectMaps ==
  ASSUME RecordOK, RequestsOK, Effect
  PROVE  [MB!MovingNext]_(MB!movingVars)
<1>1. CASE UNCHANGED <<record, charge>>
  BY <1>1 DEF record, MB!movingVars
<1>2. ASSUME NEW q \in Requests, hold[q] = None, charge[q] = None, ReserveApplies(q, est[q])
      PROVE  MB!MovingNext
  <2>1. MB!Grant(q, {})
    BY <1>2, ReserveIsGrant
  <2> QED
    BY <2>1 DEF MB!MovingNext
<1>3. ASSUME NEW q \in Requests, CommitApplies(q, actual[q])
      PROVE  MB!MovingNext
  <2>1. hold[q] # None /\ charge[q] = None /\ charge'[q] = actual[q] /\ actual[q] \in Nat
    BY <1>3 DEF CommitApplies, CommitFails, RecordOK, RequestsOK
  <2>2. MB!Charge(q)
    BY <1>3, <2>1 DEF CommitApplies, MB!Charge
  <2> QED
    BY <2>2 DEF MB!MovingNext
<1>4. ASSUME NEW q \in Requests, ReleaseApplies(q)
      PROVE  MB!MovingNext
  <2>1. hold' = MB!Without({q}) /\ {q} \in SUBSET MB!Holding
    BY <1>4, QuotaNames DEF ReleaseApplies, ReleaseFails, MB!Without, RecordOK, Open
  <2>2. MB!Drop({q})
    BY <1>4, <2>1 DEF ReleaseApplies, MB!Drop
  <2> QED
    BY <2>1, <2>2 DEF MB!MovingNext
<1>5. ASSUME NEW l \in Limits, SetRuntimeBudget(l)
      PROVE  MB!MovingNext
  <2>1. Policy' \in Nat
    BY <1>5, RuntimeQuotaAssumption DEF SetRuntimeBudget, Policy
  <2> QED
    BY <1>5, <2>1 DEF SetRuntimeBudget, MB!MovingNext, MB!SetLimit, Policy
<1> QED
  BY <1>1, <1>2, <1>3, <1>4, <1>5 DEF Effect

\* Every step of a request or of its environment has one of the effects.
LEMMA NextHasEffect == QuotaInv /\ [Next]_vars => Effect
<1> SUFFICES ASSUME QuotaInv, [Next]_vars PROVE Effect
  OBVIOUS
<1> USE DEF Effect
<1>1. ASSUME NEW q \in Requests, Proceed(q) PROVE Effect
  <2>1. CASE Reserve(q)
    BY <2>1 DEF Reserve, QuotaInv, Control
  <2>2. CASE \E o \in Outputs, a \in conf.actuals : RunSucceeds(q, o, a)
    BY <2>2 DEF RunSucceeds
  <2>3. CASE \E r \in {"error", "panicked"} : RunFails(q, r)
    BY <2>3 DEF RunFails
  <2>4. CASE Commit(q) \/ Record(q) \/ Release(q)
    BY <2>4 DEF Commit, Record, Release
  <2> QED
    BY <1>1, <2>1, <2>2, <2>3, <2>4 DEF Proceed
<1>2. ASSUME NEW q \in Requests, (\E x \in Inputs : Arrive(q, x)) \/ Crash(q) \/ Lapse(q)
      PROVE  Effect
  BY <1>2 DEF Arrive, Crash, Lapse
<1>3. ASSUME NEW l \in Limits, SetPolicy(l) PROVE Effect
  BY <1>3 DEF SetPolicy
<1>4. CASE UNCHANGED vars
  BY <1>4 DEF vars, flowVars
<1> QED
  BY <1>1, <1>2, <1>3, <1>4 DEF Next

\* Whatever the requests, their failures and their processes do, and whichever
\* policies are set meanwhile, the record grants only what fits under the
\* policy of the moment, and every hold ends once.
THEOREM QuotaImplements == Spec => ImplementsMovingBudget
<1>1. Init => MB!MovingInit
  BY DEF Init, InitRecord, MB!MovingInit
<1>2. QuotaInv /\ [Next]_vars => [MB!MovingNext]_(MB!movingVars)
  BY NextHasEffect, EffectMaps DEF QuotaInv
<1> QED
  BY <1>1, <1>2, QuotaAlways, PTL DEF Spec, ImplementsMovingBudget, MB!MovingSpec
=============================================================================

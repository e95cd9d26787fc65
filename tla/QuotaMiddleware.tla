--------------------------- MODULE QuotaMiddleware ---------------------------
(***************************************************************************)
(* An action under :cost_estimate.  The durable backends wrap it in        *)
(* quotaMiddleware (nexssflow/storage_backend.go and postgres.go, the same *)
(* control twice); the memory backend and Go hosts use the hooks of        *)
(* adapters/kernel/guard.go and nexssflow/dynamic_guard.go.  Either way a  *)
(* request resolves its estimate, reserves it, runs the action, settles,   *)
(* and records an event; an error, a panic or a failed settlement leads to *)
(* a release.  A request may end with its process between any two steps.   *)
(*                                                                         *)
(* The ledger is the atomic record of RuntimeQuota, which the other        *)
(* ledgers implement as well; where it has leases, a hold may lapse while  *)
(* its action runs.  A call may fail before or after it took effect.       *)
(***************************************************************************)
EXTENDS RuntimeQuota

CONSTANTS Inputs, \* what the estimate expression meets in a request
          Outputs, \* "object", "reporter" (a cost.Reporter) or "other"
          Setups  \* the deployments to start from

ASSUME QuotaMiddlewareAssumption ==
  /\ Inputs \subseteq [kind : {"literal", "int", "number", "uint", "float", "string"}, value : Int]
  /\ Outputs \subseteq {"object", "reporter", "other"}
  /\ \A s \in Setups :
       /\ {s.hooks, s.leased, s.faulty} \subseteq BOOLEAN
       /\ s.actuals \subseteq -(MaxInt + 1)..MaxInt

VARIABLES conf,   \* hooks or middleware, leases or not, a ledger that may fail
          pc,     \* the next step of each request, or how it ended
          est,    \* its estimate
          actual, \* the cost it commits
          output, \* what its action returned, or "none"
          result, \* what it will return once it has settled or released
          faults  \* the requests that met a failing ledger call

requestVars == <<pc, est, actual, output, result, faults>>
flowVars == <<record, charge, requestVars>>
vars == <<conf, flowVars>>

\* A request whose process has ended is "crashed"; "denied" is the quota
\* state of the middleware and ErrBudgetExceeded from a hook.
Returned == {"denied", "error", "panicked", "ok"}
Steps == {"reserve", "run", "commit", "record", "release", "releaseAgain"}

Init ==
  /\ conf \in Setups
  /\ InitRecord
  /\ pc     = [q \in Requests |-> "new"]
  /\ est    = [q \in Requests |-> 0]
  /\ actual = [q \in Requests |-> 0]
  /\ output = [q \in Requests |-> "none"]
  /\ result = [q \in Requests |-> "error"]
  /\ faults = {}

Goto(q, l) == pc' = [pc EXCEPT ![q] = l]
-----------------------------------------------------------------------------
(* The estimate, an expression parsed once: a literal, or a path into the  *)
(* request.  A path may lead nowhere, or to a value of another kind.       *)

ParseEstimate(x) == x.kind # "literal" \/ x.value >= 0

\* A float may be as large as float64(math.MaxInt64/2), which is 2^62 and
\* one more than the integer it was rounded from.
IntegerMicros(x) ==
  CASE x.kind \in {"int", "number"} -> TRUE
    [] x.kind = "uint"  -> x.value <= MaxInt
    [] x.kind = "float" -> 0 <= x.value /\ x.value <= MaxInt \div 2 + 1
    [] OTHER -> FALSE

\* A literal is not bounded from above before it reaches the ledger.
Resolves_FloatUnchecked(x) ==
  \/ x.kind = "literal"
  \/ IntegerMicros(x) /\ (x.kind = "float" \/ (0 <= x.value /\ x.value <= MaxInt \div 2))
Resolves(x) ==
  x.kind = "literal" \/ (IntegerMicros(x) /\ 0 <= x.value /\ x.value <= MaxInt \div 2)

\* A request arrives; one whose estimate or tenant cannot be found is an
\* error before anything is reserved.
Arrive(q, x) ==
  /\ pc[q] = "new"
  /\ ParseEstimate(x)
  /\ \/ /\ Resolves(x)
        /\ est' = [est EXCEPT ![q] = x.value]
        /\ Goto(q, "reserve")
     \/ Goto(q, "error") /\ UNCHANGED est
  /\ UNCHANGED <<record, charge, actual, output, result, faults>>
-----------------------------------------------------------------------------
(* Calls of the ledger.                                                    *)

\* The call fails: the connection breaks or its time is over.
Fault(q) == conf.faulty /\ faults' = faults \cup {q}
NoFault  == UNCHANGED faults

\* Reserve.  It fails without effect, also when the request's context has
\* ended; a denied middleware annotates its input, which must be an object;
\* a reservation whose answer is lost belongs to nobody.
Reserve(q) ==
  /\ pc[q] = "reserve"
  /\ \/ Goto(q, "error") /\ NoFault /\ UNCHANGED <<record, charge>>
     \/ /\ ReserveDenied(est[q])
        /\ Goto(q, "denied") /\ NoFault /\ UNCHANGED <<record, charge>>
     \/ ReserveApplies(q, est[q]) /\ Goto(q, "run") /\ NoFault
     \/ ReserveApplies(q, est[q]) /\ Goto(q, "error") /\ Fault(q)
  /\ UNCHANGED <<est, actual, output, result>>

\* What a successful action's request returns if its settlement succeeds:
\* setQuotaState annotates map[string]any and map[string]string, which have
\* no methods, so that a cost.Reporter never is one.
Annotated(o) == IF conf.hooks \/ o = "object" THEN "ok" ELSE "error"

Clamp_None(a) == a
Clamp(a) == IF a < 0 THEN 0 ELSE a

\* The action returns: its own cost if it reports one, the estimate if not.
RunSucceeds(q, o, a) ==
  /\ pc[q] = "run"
  /\ output' = [output EXCEPT ![q] = o]
  /\ actual' = [actual EXCEPT ![q] = IF o = "reporter" THEN Clamp(a) ELSE est[q]]
  /\ result' = [result EXCEPT ![q] = Annotated(o)]
  /\ Goto(q, "commit")
  /\ UNCHANGED <<record, charge, est, faults>>

\* It returns an error, its context being cancelled included, or panics.
RunFails(q, r) ==
  /\ pc[q] = "run"
  /\ result' = [result EXCEPT ![q] = r]
  /\ Goto(q, "release")
  /\ UNCHANGED <<record, charge, est, actual, output, faults>>

\* Commit has returned an error: the middleware returns it and releases in
\* its deferred function, a hook only logs it.
SettlementFailed_Keeps(q) ==
  /\ Goto(q, IF conf.hooks THEN "ok" ELSE "error")
  /\ result' = [result EXCEPT ![q] = "error"]
SettlementFailed(q) ==
  IF conf.hooks THEN Goto(q, "ok") /\ UNCHANGED result
                ELSE Goto(q, "release") /\ result' = [result EXCEPT ![q] = "error"]

\* Commit.  The event of a charge is recorded next.
Commit_IgnoresError(q) ==
  /\ pc[q] = "commit"
  /\ Goto(q, "record")
  /\ CommitApplies(q, actual[q]) \/ UNCHANGED <<record, charge>>
  /\ UNCHANGED <<est, actual, output, result, faults>>
Commit(q) ==
  /\ pc[q] = "commit"
  /\ \/ CommitApplies(q, actual[q]) /\ NoFault
        /\ Goto(q, IF actual[q] > 0 THEN "record" ELSE result[q]) /\ UNCHANGED result
     \/ CommitApplies(q, actual[q]) /\ Fault(q) /\ SettlementFailed(q)
     \/ CommitFails(q, actual[q]) /\ NoFault /\ SettlementFailed(q) /\ UNCHANGED <<record, charge>>
     \/ Fault(q) /\ SettlementFailed(q) /\ UNCHANGED <<record, charge>>
  /\ UNCHANGED <<est, actual, output>>

\* Record, which for the runtime quota and the wallet does nothing: the
\* middleware returns its error, a hook logs it.
Record(q) ==
  /\ pc[q] = "record"
  /\ \/ Goto(q, result[q]) /\ NoFault
     \/ Goto(q, IF conf.hooks THEN "ok" ELSE "error") /\ Fault(q)
  /\ UNCHANGED <<record, charge, est, actual, output, result>>

\* Release, in the deferred function or in After, OnPanic or OnCancel; its
\* error is joined to the result or logged.  A cancelled action can bring a
\* second hook, for which a reservation that is done is a no-op.
Released(q, ok) ==
  \/ Goto(q, result[q])
  \/ (conf.hooks /\ ~ok /\ pc[q] = "release" /\ Goto(q, "releaseAgain"))
Release(q) ==
  /\ pc[q] \in {"release", "releaseAgain"}
  /\ \/ ReleaseApplies(q) /\ NoFault /\ Released(q, TRUE)
     \/ ReleaseApplies(q) /\ Fault(q) /\ Released(q, FALSE)
     \/ ReleaseFails(q) /\ NoFault /\ Released(q, FALSE) /\ UNCHANGED <<record, charge>>
     \/ Fault(q) /\ Released(q, FALSE) /\ UNCHANGED <<record, charge>>
  /\ UNCHANGED <<est, actual, output, result>>
-----------------------------------------------------------------------------
(* The environment.                                                        *)

\* The process of a request ends.
Crash(q) ==
  /\ pc[q] \in Steps
  /\ Goto(q, "crashed")
  /\ UNCHANGED <<record, charge, est, actual, output, result, faults>>

\* A lease is over and another caller's Reserve takes the hold back.
Lapse(q) ==
  /\ conf.leased
  /\ ReleaseApplies(q)
  /\ UNCHANGED requestVars

\* An administrator sets the policy, also while requests are under way.
SetPolicy(l) == SetRuntimeBudget(l) /\ UNCHANGED requestVars

Proceed(q) ==
  \/ Reserve(q)
  \/ \E o \in Outputs, a \in conf.actuals : RunSucceeds(q, o, a)
  \/ \E r \in {"error", "panicked"} : RunFails(q, r)
  \/ Commit(q)
  \/ Record(q)
  \/ Release(q)

Next ==
  /\ \/ \E q \in Requests : (\E x \in Inputs : Arrive(q, x)) \/ Proceed(q) \/ Crash(q) \/ Lapse(q)
     \/ \E l \in Limits : SetPolicy(l)
  /\ UNCHANGED conf

Spec == Init /\ [][Next]_vars

\* Accounting calls have a timeout of five seconds and are not cancelled with
\* their request; the action itself is taken to end.
FairSpec == Spec /\ \A q \in Requests : WF_flowVars(Proceed(q))
-----------------------------------------------------------------------------
(* Properties.                                                             *)

\* What may reach a ledger: amounts read from a request, within the bound, and
\* those written into the expressions themselves.
ResolvedEstimates ==
  0..(MaxInt \div 2) \cup {x.value : x \in {i \in Inputs : i.kind = "literal"}}

\* Every variable has its type: an estimate that was read from a request is
\* within the bound before it reaches a ledger, also where a float was rounded
\* up to one above it; what is held passed Reserve's validation.
TypeOK ==
  /\ conf \in Setups
  /\ budget \in 0..MaxInt \cup {None}
  /\ spent \in 0..MaxInt
  /\ hold \in [Requests -> 0..(MaxInt \div 2) \cup {None}]
  /\ charge \in [Requests -> 0..MaxInt \cup {None}]
  /\ pc \in [Requests -> Steps \cup Returned \cup {"new", "crashed"}]
  /\ est \in [Requests -> ResolvedEstimates]
  /\ actual \in [Requests -> Int]
  /\ output \in [Requests -> Outputs \cup {"none"}]
  /\ result \in [Requests -> Returned]
  /\ faults \subseteq Requests

Errors(o) == {q \in Requests : pc[q] \in {"error", "panicked"} /\ q \notin faults /\ output[q] \in o}

\* What a request returns is what happened, whatever lapses or fails
\* meanwhile: a success of the middleware was charged at its actual cost and
\* holds nothing; a denial holds and cost nothing and its action never ran
\* (README guarantee 6, nexssflow/README "the protected action is skipped");
\* and an error with no ledger failure behind it cost nothing, so that its
\* caller may try again, if the action returned an object or nothing.  When a
\* ledger call has failed, also the Record after a charge, a hook does not
\* turn a success into an error, and a request, whatever it returns, was
\* charged either nothing or its actual cost.
ResultIsTrue ==
  /\ \A q \in Requests :
       /\ pc[q] = "ok" /\ ~conf.hooks => charge[q] = actual[q] /\ hold[q] = None
       /\ pc[q] = "denied" => charge[q] = None /\ hold[q] = None /\ output[q] = "none"
       /\ pc[q] \in Returned /\ output[q] # "none" /\ conf.hooks => pc[q] = "ok"
       /\ pc[q] \in Returned /\ charge[q] # None => charge[q] = actual[q] /\ hold[q] = None
  /\ \A q \in Errors({"none", "object"}) : charge[q] = None

\* Without leases an admitted action is covered to its end by the hold it was
\* admitted with: no other request, settlement or policy change takes it.
AdmittedIsCovered ==
  ~conf.leased => \A q \in Requests : pc[q] = "run" => hold[q] = est[q]

\* A hook does not release when the counter has no room for its charge.
Refused(q) == conf.hooks /\ actual[q] > MaxInt - spent

\* A request that has returned leaves no hold behind unless a ledger call
\* made for it failed: errors, panics, and settlements that the middleware
\* saw refused or came too late with all end in a release that finds what
\* there is to release.
StrandedOnlyByFault ==
  \A q \in Requests : pc[q] \in Returned /\ hold[q] # None => q \in faults \/ Refused(q)

\* "A successful result implementing cost.Reporter supplies the actual cost"
\* and the result of a successful, settled action is marked quota_reserved
\* (nexssflow/README, examples/durable_quota/README): a reported cost that
\* was charged does not come back as an error.
ReportedCostSucceeds == \A q \in Errors({"reporter"}) : charge[q] = None

\* Every hold ends, unless its process or a ledger call about it has failed,
\* a refused hook included: nothing else can leave an unexpiring reservation.
HoldsEnd ==
  \A q \in Requests : hold[q] # None ~>
    hold[q] = None \/ q \in faults \/ Refused(q) \/ pc[q] = "crashed"
=============================================================================

------------------------------- MODULE Report -------------------------------
(***************************************************************************)
(* The library actions of the memory backend (nexssflow/library.go and     *)
(* report.go) around the counters and the ring of one in-process ledger:   *)
(* cost.record, cost.snapshot, cost.report, and guarded actions, which     *)
(* move the counters and record an event only afterwards.  A report takes  *)
(* its entries and then each counter in a step of its own, while other     *)
(* actions go on.  The ledger is unlimited: whether Reserve grants is the  *)
(* matter of LocalLedger.                                                  *)
(*                                                                         *)
(* History variables: posted, what cost.record has put into the ring, and  *)
(* since, what was committed since a reader loaded used.                   *)
(***************************************************************************)
EXTENDS AuditRing, MicroSum

CONSTANTS Guards,   \* the threads that run guarded actions,
          Posters,  \* cost.record,
          Readers,  \* cost.report and cost.snapshot
          Estimate, \* what a guarded action reserves
          OpOf,     \* the operation of each thread's guarded actions
          ActualOf, \* and the cost they report, if they report any
          Posts     \* events that cost.record is called with

ASSUME ReportAssumption ==
  /\ IsFiniteSet(Threads)
  /\ Estimate \in Nat
  /\ Guards \cup Posters \cup Readers \subseteq Threads
  /\ OpOf \in [Guards -> Operations] /\ ActualOf \in [Guards -> {c \in Costs : c > 0}]
  /\ Posts \subseteq [op : Operations, cost : Costs, currency : {Own, Other, NoCurrency}]

VARIABLES used,  \* usedMicros
          spent, \* spentMicros
          act,   \* the action of each thread outside the ring's code
          view,  \* what its report or snapshot has read
          posted, since

viewVars == <<view, since>>
vars == <<ringVars, used, spent, act, viewVars, posted>>

NoView == [buckets |-> <<>>, used |-> 0, spent |-> 0]

Init ==
  /\ RingInit
  /\ used = 0 /\ spent = 0 /\ posted = 0
  /\ act   = [t \in Threads |-> "none"]
  /\ view  = [t \in Threads |-> NoView]
  /\ since = [t \in Threads |-> 0]

Become(t, a) == act' = [act EXCEPT ![t] = a]
Ready(t) == act[t] = "none" /\ pc[t] = "idle"

\* Events still to come of the actions under way, for the bound on events.
Guarding == {t \in Threads : act[t] \in {"run", "spend", "record"}}
MoreEvents == calls + Cardinality(Guarding) < MaxRecords
-----------------------------------------------------------------------------
(* Guarded actions and cost.record.                                        *)

GuardReserve(t) ==
  /\ t \in Guards /\ Ready(t) /\ MoreEvents
  /\ used' = used + Estimate
  /\ Become(t, "run")
  /\ UNCHANGED <<ringVars, spent, viewVars>>

\* The action failed, or it cost nothing, so that nothing is recorded.
GuardRelease(t) ==
  /\ act[t] = "run"
  /\ used' = used - Estimate
  /\ Become(t, "none")
  /\ UNCHANGED <<ringVars, spent, viewVars>>

\* The commit's usedMicros.Add, and what it does next.
AfterUsed_Recorded == "record"
AfterUsed == "spend"

Adjustment_Reserved(t) == 0
Adjustment(t) == ActualOf[t] - Estimate

CommitUsed(t) ==
  /\ act[t] = "run"
  /\ used' = used + Adjustment(t)
  /\ Become(t, AfterUsed)
  /\ UNCHANGED <<ringVars, spent, viewVars>>

\* Its spentMicros.Add.
CommitSpent(t) ==
  /\ act[t] = "spend"
  /\ spent' = spent + ActualOf[t]
  /\ since' = [u \in Threads |-> IF act[u] = "loadSpent" THEN since[u] + ActualOf[t] ELSE since[u]]
  /\ Become(t, "record")
  /\ UNCHANGED <<ringVars, used, view>>

\* The guard's After then calls Record, without a currency.
GuardRecord(t) ==
  /\ act[t] = "record"
  /\ RecordCall(t, OpOf[t], ActualOf[t], NoCurrency)
  /\ Become(t, "none")
  /\ UNCHANGED <<used, spent, viewVars>>

\* cost.record, which leaves the counters alone.
RecordAction(t) ==
  /\ t \in Posters /\ Ready(t) /\ MoreEvents
  /\ \E e \in Posts :
       /\ RecordCall(t, e.op, e.cost, e.currency)
       /\ posted' = IF Accepted(e.cost, e.currency) THEN posted + e.cost ELSE posted
  /\ UNCHANGED <<used, spent, act, viewVars>>
-----------------------------------------------------------------------------
(* cost.report and cost.snapshot.                                          *)

\* One more event in the buckets: its own is found by its key or appended.
InBucket_Never(b, e) == FALSE
InBucket(b, e) == b.op = e.op

Tally(buckets, e) ==
  IF \E i \in DOMAIN buckets : InBucket(buckets[i], e)
    THEN [i \in DOMAIN buckets |->
            IF InBucket(buckets[i], e)
              THEN [buckets[i] EXCEPT !.count = @ + 1, !.spent = @ + e.cost]
              ELSE buckets[i]]
    ELSE Append(buckets, [op |-> e.op, count |-> 1, spent |-> e.cost])

Buckets(events) ==
  LET tallied[n \in 0..Len(events)] ==
        IF n = 0 THEN <<>> ELSE Tally(tallied[n - 1], events[n])
  IN tallied[Len(events)]

ReportCall(t) ==
  /\ t \in Readers /\ Ready(t)
  /\ EntriesCall(t)
  /\ Become(t, "report")
  /\ UNCHANGED <<used, spent, viewVars>>

\* Entries returns, and its events are aggregated.
ReportBuckets(t) ==
  /\ act[t] = "report"
  /\ view' = [view EXCEPT ![t].buckets = Buckets(out[t])]
  /\ Finish(t)
  /\ Become(t, "loadUsed")
  /\ UNCHANGED <<used, spent, since>>

\* A snapshot has no buckets and loads used twice: remaining comes from a
\* load of its own just before.
SnapshotCall(t) ==
  /\ t \in Readers /\ Ready(t)
  /\ Become(t, "loadUsed")
  /\ UNCHANGED <<ringVars, used, spent, viewVars>>

LoadUsed(t) ==
  /\ act[t] = "loadUsed"
  /\ view' = [view EXCEPT ![t].used = used]
  /\ Become(t, "loadSpent")
  /\ UNCHANGED <<ringVars, used, spent, since>>

LoadSpent(t) ==
  /\ act[t] = "loadSpent"
  /\ view' = [view EXCEPT ![t].spent = spent]
  /\ Become(t, "view")
  /\ UNCHANGED <<ringVars, used, spent, since>>

\* The action returns what it has read.
ReturnView(t) ==
  /\ act[t] = "view"
  /\ view' = [view EXCEPT ![t] = NoView]
  /\ since' = [since EXCEPT ![t] = 0]
  /\ Become(t, "none")
  /\ UNCHANGED <<ringVars, used, spent>>

Act(t) ==
  \/ RecordAction(t)
  \/ /\ \/ GuardReserve(t) \/ GuardRelease(t)
        \/ CommitUsed(t) \/ CommitSpent(t) \/ GuardRecord(t)
        \/ ReportCall(t) \/ SnapshotCall(t)
        \/ LoadUsed(t) \/ LoadSpent(t) \/ ReturnView(t)
     /\ UNCHANGED posted

\* The code of Record and Entries goes on.
RingStep(t) ==
  \/ (Lock(t) \/ WriteSlot(t) \/ Advance(t) \/ Begin(t) \/ CopySlot(t))
       /\ UNCHANGED <<used, spent, act, viewVars, posted>>
  \/ ReportBuckets(t) /\ UNCHANGED posted

Next == \E t \in Threads : Act(t) \/ RingStep(t)

Spec == Init /\ [][Next]_vars

\* A goroutine that can run is eventually run, and the mutex is fair to a
\* writer: it keeps new readers out while one waits.
FairSpec == Spec /\ \A t \in Threads : WF_vars(RingStep(t))
-----------------------------------------------------------------------------
(* Properties.                                                             *)

At(op, s) == {i \in DOMAIN s : s[i].op = op}

\* A report has one bucket for each operation among its entries, in the order
\* in which they first appear, with the number of its entries and the sum of
\* their costs (nexssflow/README "first-seen ordered").
BucketsAreExact ==
  \A t \in Threads :
    LET s == out[t]
        b == Buckets(s)
        costs == [i \in DOMAIN s |-> s[i].cost] IN
    /\ \A op \in Operations : At(op, s) # {} <=> At(op, b) # {}
    /\ \A i \in DOMAIN b : /\ b[i].count = Cardinality(At(b[i].op, s))
                           /\ b[i].spent = Total(costs, At(b[i].op, s))
    /\ \A i, j \in DOMAIN b : i < j =>
         \E k \in At(b[i].op, s) : \A l \in At(b[j].op, s) : k < l

Reporting == {t \in Threads : act[t] = "view"}

\* The buckets of a report add up to no more than its spent_micros and what
\* cost.record put into the ring: an event's commit has moved the counter
\* before the event is recorded, and the counter is read after the ring.
ReportIsCovered ==
  \A t \in Reporting :
    Total([i \in DOMAIN view[t].buckets |-> view[t].buckets[i].spent], DOMAIN view[t].buckets)
      <= view[t].spent + posted

\* A snapshot or report shows more spent than used by no more than what other
\* goroutines committed between its two loads: commits move used before
\* spent, and readers load them in the same order.
SkewIsConcurrent == \A t \in Reporting : view[t].spent <= view[t].used + since[t]
=============================================================================

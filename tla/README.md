# A TLA+ verification of `nexssp/cost`

`nexssp/cost` keeps budgets: a caller *reserves* an estimated cost before it does
something expensive, and afterwards *commits* the actual cost or *releases* the
reservation. The same contract (`reserver.go`) is implemented in process, in Redis,
in PostgreSQL and, for prepaid wallets, in a second set of PostgreSQL tables. This
directory models these ledgers, and the actions that are guarded by them, in TLA+,
checks the models with TLC on small instances, and proves every safety property that
TLC checks with TLAPS for every value of the constants. All amounts are integer
micro-units.

## 1. Inventory

| Component | State | Operations | What is hard about it |
|---|---|---|---|
| Core contract (`reserver.go`) | reservations, used amount | Reserve, Commit, Release, Record | one promise, four implementations |
| In-process ledger (`ledger.go`, `reservation.go`) | two atomic int64 counters, a `done` flag per reservation | Reserve (compare-and-swap loop), Commit, Release | no lock at all; commits may charge anything, so int64 can wrap |
| Audit ring (`ledger.go`) | ring of 1024 events, `head`, RWMutex | Record, Entries | snapshots while slots are overwritten |
| Redis adapter (`adapters/redis`) | `used` key, one key and one sorted-set entry per reservation | three Lua scripts, Record (INCRBY) | lost and late replies, repeated scripts, leases, eviction, batched reclamation |
| PostgreSQL adapter (`adapters/postgres`) | rows `cost_budgets`, `cost_reservations`, `cost_entries` | Reserve, Commit, Release, Record, EnsureSchema | transactions of several statements, row locks in opposite orders, lost COMMIT answers |
| Monthly quota (`nexssflow/postgres.go`) | one scope row per tenant and month | ledgerForTenant, ensureBudgetRow, middleware | configuration races, settlement after the action ran |
| Prepaid wallet (`nexssflow/wallet.go`, `schema.sql`) | wallet row, reservation rows, immutable entries | Reserve, Commit, Release, cost_credit_wallet, Record | money must neither be overdrawn nor counted twice |
| Runtime quota (`nexssflow/storage_backend.go`) | one KV record per tenant | Reserve, Commit, Release, SetRuntimeBudget | limit changes under way, holds that never expire |
| Quota middleware (`nexssflow/postgres.go`, `storage_backend.go`) | the reservation of a request | resolve, reserve, run, settle, record, annotate; release in a deferred function | every step may fail after it took effect; leases that lapse while the action runs |
| Guards (`adapters/kernel`, `nexssflow/dynamic_guard.go`) | reservation in a context | Before, After, OnPanic, OnCancel | terminal calls from several callbacks, errors that are only logged |
| Estimate expressions (`nexssflow/estimate.go`) | — | parse, resolve | bounds of each kind of number |
| Library actions (`library.go`, `report.go`) | — | snapshot, report, record | counters and ring read one after the other while actions move them |
| Currency, test kit | — | parsing, formatting | sequential |

The components meet at the `Reserver` interface. Goroutines share the in-process
ledger; processes share only the databases. The guarantees quoted in the modules are
the numbered list in the repository's `README.md` (section on required guarantees)
and `docs/semantics.md`. `PROJECT.json` lists every hazard at its line.

## 2. Modules and how they correspond to the code

| Module | Models | Correspondence |
|---|---|---|
| `MicroSum` | sums of amounts | `Total(f, S)` counts units, so that no recursion is needed; TLC compares it with a recursive sum in `MCLocalLedger` |
| `Budget` | the contract | `Grant`, `Settle`, `Free`, `Expire`; `Usage` is open reservations plus charges, `Overshoot` what commits charged beyond their reservations |
| `LocalLedger` | in-process ledger | one action per atomic operation: `ReserveCall`, `Load`, `Cas`, `CasFail`; `CommitCall`, `AddUsed`, `AddSpent`; `ReleaseCall`, `SubUsed` |
| `MovingBudget` | the contract where the limit moves | `Grant`, `Charge`, `Drop`, `SetLimit` on `limit`, `hold` and `charge`; the refinement target of the wallet and the runtime quota |
| `AuditRing` | Record and Entries | one action per access under the RWMutex; Go's mutex lets waiting readers in when a writer leaves and keeps new readers behind a waiting writer |
| `RedisLedger` | Redis adapter | client: `Reserve`, `Commit`, `Release`, `Receive`, `Timeout`, `Resend`; network: `Drop`; server: `RunReserve`, `RunCommit`, `RunRelease`, each a whole script; `Tick` moves the clock and evicts keys |
| `PostgresLedger` | PostgreSQL adapter | one action per statement: `LockBudget`, `Reclaim`, `Insert`, `CommitReserve`, `CommitReclaimed`; `DeleteRow`, `NotFound`, `UpdateBudget`, `CommitEnd`; `Abort` anywhere; `BreakDeadlock` |
| `Report` | guarded actions, cost.record, cost.snapshot, cost.report | extends `AuditRing` with the two counters; a report is `ReportCall`, the ring's steps, `ReportBuckets`, `LoadUsed`, `LoadSpent`; a guarded action `GuardReserve`, `CommitUsed`, `CommitSpent`, `GuardRecord` |
| `ScopeRow` | EnsureSchema, ensureBudgetRow | statements of the schema transaction, and the single upsert; `conf` is the initial configuration |
| `EventLog` | Record of the three durable ledgers | extends `ScopeRow`, whose processes record once their ledger is set up; `conf` says which store, events and ids; it is chosen initially and never changes |
| `WalletLedger` | wallet.go, cost_credit_wallet | calls begin with a timestamp and a snapshot of the owner's status and wait for the wallet row; from the lock to COMMIT is one action: `Refuse`, `Grant`, `Settle`, `Free`, `CreditWallet`; `Rollback` for every error |
| `RuntimeQuota` | the KV record of one tenant | one operator per `kv.Update`: `SetRuntimeBudget`, `ReserveApplies`, `CommitApplies`, `ReleaseApplies`, with the conditions under which the function returns an error |
| `QuotaMiddleware` | a request through the middleware or the hooks, over `RuntimeQuota` | `Arrive` (the estimate), `Reserve`, `RunSucceeds`, `RunFails`, `Commit`, `Record`, `Release`; `Crash`, `Lapse` and `SetPolicy` from outside |

`LocalLedger`, `RedisLedger` and `PostgresLedger` extend `Budget` and move its
variables as history variables in the step that makes a change definite (the atomic
operation, the script, the COMMIT); `ImplementsBudget` says that they do so as the
contract allows. The wallet and the runtime quota have no fixed limit: they are
mapped to `MovingBudget` (`MB` in `WalletLedger` and `RuntimeQuota`), where the money
paid in, or the policy, is the limit of the moment. A hold must fit beside every
other hold and every charge under that limit; a limit lowered later takes no hold
back.

`QuotaMiddleware` has both middlewares and both guards in one module, since their
control is the same; `conf.hooks` tells them apart where they differ (hooks log the
error of a settlement, middlewares return it and release; middlewares annotate the
output). The ledger under it is the record of `RuntimeQuota`. With `conf.leased` its
holds may lapse at any time, as those of the PostgreSQL adapter and the wallet do
once their TTL is over; with `conf.faulty` a call may fail before or after it took
effect. This covers more than each backend does: a ledger with leases has no policy
that changes, and the Record of the runtime quota fails only when its context ends.
The properties hold in this larger set of behaviours.

What is abstracted: identities are model values and fresh by construction; amounts
are small integers with the width of int64/BIGINT scaled down to `MaxInt` where
overflow matters; error values are reduced to what the caller knows afterwards
(`client`); calls with a nil or cancelled context change nothing and are left out;
timestamps of events are left out, and domain and operation are one name. In
`Report` the ledger is unlimited (whether Reserve grants is `LocalLedger`'s matter),
and `remaining` of a snapshot, one more load of `used`, is left out. In
`QuotaMiddleware` an identity or a path may lead nowhere at any request, so that
`Arrive` may always end in an error.

In the wallet the transaction after its lock is one step because every transaction
of `wallet.go` and of `cost_credit_wallet` locks the same wallet row first, reads and
writes nothing but rows of that wallet, and uses the timestamp it had at its start.
In the PostgreSQL adapter this is not so (Commit deletes its reservation row before
it touches the budget row), hence the finer grain there.

An operator named `D_X` (for example `Refused_OffByOne`) is the definition `D` with
a plausible fault. It is not part of a specification; putting it in place of `D`
makes TLC report the property that `PROJECT.json` names under `mutants`.

## 3. Runs

Bounds are chosen so that the interesting cases happen: estimates that fit, that
exactly fill the budget and that exceed it, negative arguments, actual costs above
the estimate, a clock that passes every lease, a ring that wraps.

| Run | Question | Bounds |
|---|---|---|
| `local` | is the lock-free counter exact, each reservation settled once, nothing granted once the counter has wrapped; does it implement `Budget` while overspending fits the width; does every call return? | 2 goroutines, 3 reservations, `MaxInt` 7 |
| `memory` | are copies of the ring its latest events, untorn; are a report's buckets exact and covered by its counters; how far can counters be torn; does everyone get the mutex? | 3 goroutines: two run guarded actions, one of them also cost.record, two read; capacity 2, 3 events: the ring wraps |
| `redis` | is `used` exact whatever is lost, late or evicted; is `Budget` implemented; do terminal calls find what is open; are leases taken back batch by batch; what can scripts do that the client library repeats? | 2 reservations with 3 and 2 requests (a reservation and a repeated settlement; any of them may be the library's repetition), batch 1, lease 1, margin 1, clock 2: a second lease is left behind by the batch and keys are evicted |
| `postgres` | is the budget row exact and equal to its rows; is `Budget` implemented; do transactions end? | 2 reservations, so that one Reserve reclaims the other while it is being committed; lease 1, clock 2, `MaxInt` 7 |
| `events` | can a scope get a limit or an entry in a foreign currency; is a lock left behind; is what was acknowledged stored, and once? | 3 processes, 2 currencies, 3 limits, three set-ups of the scope with 3 events; 5 events for the wallet and Redis; 2 calls each |
| `wallet` | is money ever overdrawn, unbooked or booked twice; what may still happen after a suspension; is `MovingBudget` implemented? | 2 reservations, 1 top-up key, clock 2; wallet and owner are suspended and reinstated at any time |
| `quota` | does a request's result say what happened to the budget; what can be left behind, and is anything paid for an error; is `MovingBudget` implemented; do holds end? | 2 requests, `MaxInt` 9; four deployments: middleware over the storage record, middleware over leases, hooks in process, hooks over a faulty ledger with leases; estimates that fit, are negative, too large (literals), or the largest float, which is one above the bound; costs above the estimate and near `MaxInt` |

Deadlock checking is off where callers may simply be finished (PostgreSQL, events,
quota).

Five runs are expected to fail. Each shows a disagreement between the code and what
the repository says of it:

* `redis_idle`: a reservation key is evicted while its lease is still in the sorted
  set, although the comment beside the margin says it persists. The amount is then
  never subtracted.
* `redis_zero`: a reservation of zero micros cannot be committed or released, because
  the scripts read an amount of 0 as "no such reservation".
* `events_no_ids`: the PostgreSQL adapter stores an absent event id as the empty
  string, so all events without one collide and only the first is kept, with success
  reported for the rest. The middleware and the guard record events without ids.
* `scope_race`: two processes with different currencies initialise a fresh scope with
  EnsureSchema and both succeed.
* `quota_reporter`: an action whose output implements `cost.Reporter` is charged what
  it reports, and then the middleware returns an error, because only the plain map
  types, which have no methods, can be annotated. A caller that tries again pays
  again.

The properties that hold beside them are stated for the rest of the behaviour:
`NotFoundIsClosed` and `ExpiredReclaimed` except reservations whose key Redis has
evicted, `redis` has no zero estimates, `events` gives every event of the PostgreSQL
adapter an id and lets EnsureSchema create a row only where there is one currency,
and what `ResultIsTrue` says of errors is said of outputs that are objects.

`ResultIsTrue` and its theorem do not say that every error is free of charge. For a
request none of whose ledger calls failed an error cost nothing. A request that met a
failing call (`faults`) may return an error and have been charged: the answer to its
Commit was lost, or the charge was committed and the Record of the event failed, which
the middleware over PostgreSQL returns as an error. A caller that repeats such a
request pays again; that is what the code does, and the property only bounds it: the
request was charged either nothing or its actual cost and holds nothing beside the
charge, and a hook, which logs these errors, still returns the action's success.

The status of a wallet's owner may be stale when it is used: a call that waits for the
wallet row sees the tenant and the user as they were when its statement began.
`SuspensionDrains` says how far this goes. A suspension of the wallet itself, whose row
is read again under its lock, holds at once. After a suspension of its owner only the
calls that had begun before may still take money, each once and in the step that ends
it; when they are over the wallet is frozen. How long that takes is not bounded by the
code, so this is a safety property only.

`StrandedOnlyByFault` and `HoldsEnd` except a hook whose settlement was refused for
lack of room in the counter (`Refused`): it logs the error and does not release.
`NotFoundIsClosed` (a part of `HandleTruth`) and
`ImplementsBudget` of `RedisLedger` hold until the client library repeats a script
(`resent`); after that `UsedIsExact` asks only that nothing is counted too low.

### Fairness

* `LocalLedger`, `Report`: weak fairness of a goroutine's next step, which Go's
  scheduler gives. Nothing obliges a goroutine to start a call. The compare-and-swap
  loop is lock-free: a call repeats only when another succeeded, and the finite pool
  of reservations bounds that.
* `RedisLedger`: weak fairness of other clients' Reserve calls, only for
  `ExpiredReclaimed`. Reclamation is lazy, so the guarantee holds for a budget in use
  and not for one that nobody calls.
* `PostgresLedger`: strong fairness of each call's next statement, because the server
  queues the waiters of a row lock, and weak fairness of the deadlock detector.
* `QuotaMiddleware`: weak fairness of each request's next step: accounting calls run
  under a context of their own with a timeout of five seconds, and the action is taken
  to end. A crash is a step of the environment that disables the rest, and `HoldsEnd`
  excepts it.

## 4. Proofs

`tlapm` checks the following without any unproved step.

`MicroSumTheorems`: the laws of `Total` (empty, singleton, disjoint union, adding,
removing and changing an element, congruence, monotonicity, a longer interval), from
the theory of finite cardinalities. So is induction over the naturals for a set
(`SetInduction`): the library's induction theorem takes an operator and cannot be
instantiated, but mapping an initial segment of a counterexample into itself without
its 0 contradicts its finite cardinality.

`BudgetTheorems`: what granting, settling and dropping a reservation do to `Usage` and
`Overshoot`, alone or together with leases that lapse in the same step (the `Lapse...`
lemmas); these carry the proofs about the three ledgers. Of the contract itself,
`BudgetKeepsLimit` (usage passes the limit by no more than commits overshot) and
`BudgetEndsOnce` (a reservation is granted once, at one amount, and ends once, at one
charge): what a ledger inherits by implementing `Budget`.

`LocalLedgerProofs`, for any finite sets of goroutines and reservations, any limit and
any width:

* `TypeCorrect`, `UsedExact` (`UsedIsExact`), `FailsClosed`
  (`WrappedGrantsNothing`), `LedgerImplementsBudget` (`ImplementsBudget`: every step
  whose result fits the width is a step of `Budget` or none). They hold for unlimited
  budgets too, which no run covers.
* The inductive invariant is `Struct` with exactness. Exactness alone is not
  inductive: that an addition to `used` is the one owed depends on the thread owning
  an open reservation nobody else settles (`Settling`), on a thread inside Reserve
  owning a free one (`Creating`), and on the value about to be swapped having passed
  the guards (`Checked`). The compare in compare-and-swap then transfers what the
  guards said of the old value to the current one.
* `LedgerSettlesOnce` (`SettledOnce`) adds the converse of `Settling`, that an open
  done reservation has a settling thread (`Owned`). `LedgerSpentBehindUsed`
  (`SpentBehindUsed`) adds the ownership of a charge between the two additions of a
  commit (`Spending`) and that `spent` misses just those charges (`Booked`); that the
  addition to `spent` cannot wrap follows from the exactness of `used`.
* Assumed: `MaxIntAssumption`, `Int64Assumption`, the finiteness of the sets and
  that arguments are int64 values.

`WalletLedgerProofs`, for any reservations, top-ups, amounts, leases and clock:

* `WalletNeverOverdrawn`, `WalletHoldsAreRows`, `WalletBooksBalance`,
  `WalletReportsTruth`, `WalletTypeCorrect`, and the action properties
  `WalletChargedOnce` and `WalletSuspensionDrains`.
* The inductive invariant `WalletInv` joins them with `Lifecycle`: an identity is
  granted once and is not charged while its hold is open. `NeverOverdrawn` needs
  `HoldsAreRows` (a settled hold is part of `reserved_micros`), and `BooksBalance`
  needs `Lifecycle` (an entry is new when it is written).
* A consequence: the CHECK constraints of `schema.sql` never fire for calls of this
  code, and a charge within its own live hold is never refused for lack of funds.

* `WalletImplements`: the wallet implements `MovingBudget` under the mapping above. A
  granted Reserve is a `Grant` together with the expiries it reclaims; a settlement
  is a `Charge`, or a `Drop` when it charges nothing; a top-up is a `SetLimit`.

`QuotaMiddlewareProofs`, for any requests, inputs, costs, policies and deployments:

* `QuotaTypeCorrect`, `QuotaSpentIsCharged`, `QuotaResultIsTrue` (with the exemption
  of requests that met a failing call, as above), `QuotaAdmittedIsCovered`,
  `QuotaStrandedOnlyByFault` and `QuotaImplements`.
* Whatever a step does, its effect on the record is one of four (`Effect`), which
  keep `RecordOK` and map to `MovingBudget`. `Control` says of each request what its
  next step implies about its own hold and charge. It is inductive because a step of
  one request leaves the hold, the charge and the step of every other one alone
  (`Untouched`), a lapse only takes a hold away, and `spent` never decreases, so that
  a settlement that was refused stays refused.

`PostgresLedgerProofs`, for any reservations, limit, lease and width of BIGINT:

* `PostgresTypeCorrect`, `PostgresRowsExact` (`RowsAreExact`), `PostgresHandleTruth`
  and `PostgresImplementsBudget`.
* A transaction acts on what it read in an earlier statement, so the inductive
  invariant says what it may rely on while it holds its locks. `Struct` has a part for
  each reason: `Rows`, the table holds exactly the reservations its phases say;
  `Locked`, which rows a transaction has locked by its next statement; `Calls`, what its
  caller may know by then; `Read`, that what it has read or computed from its reads is
  still what the committed rows say. `Sums` adds that the committed `used_micros` is
  congruent to the usage modulo the width of a BIGINT, and equal to it and bounded on a
  limited scope.
* Congruence rather than equality, because Reserve adds in Go and may wrap on an
  unlimited scope: the last step is that the two are equal wherever the usage fits.
  The runs cover limited scopes only; a wrap is covered by the theorem alone.

`RedisLedgerProofs`, for any reservations, limit, lease, margin, batch size and numbers
of requests:

* `RedisTypeCorrect`, `RedisUsedExact` (`UsedIsExact`), `RedisImplementsBudget`
  (`ImplementsBudget`), `RedisRefusesTruly` and `RedisHandleTruth` (`HandleTruth`).
* The scripts trust the keys, so `Keys` says what a key implies about its reservation:
  its amount while it is open, and afterwards only where a repeated request has set it
  again (`Stray`). `Exact` then says that `used` covers the usage and what stray keys
  will give back, which makes "never too small" inductive where the bare property is
  not: a settlement of a stray key subtracts its amount. `Asking` and `Agree` say that
  a reserving request on its way is the only one for its id until the client library
  repeats one; `Callers` what a client that waits, or has its answer, may conclude.
* `HandleTruth` has the hypothesis `0 \notin Estimates`: it is false otherwise, as
  `redis_zero` shows. `RedisRefusesTruly` says without it that an open reservation is
  not found only if its key was evicted or its amount is 0.
* A consequence: no more than the limit is granted even when scripts are repeated, and
  whatever the margin; the amounts that eviction leaves in `used` keep being counted
  as open.

`EventProofs` about `EventLog`, for any processes, currencies, limits, events and
numbers of calls:

* `ScopeKeepsCurrency` (`ScopeHasOneCurrency`), by `Scope`: a process that found no row
  will find, if any, a row of its own currency, and what a transaction is about to
  commit is the row its own process would write. Its hypothesis (`Agreed`) is that
  the processes of a scope have one currency if EnsureSchema may create it.
* `EventsKept` (`AckedIsKept`) and `EventsStoredOnce` (`StoredOnce`), where ids are
  distinct (`Identified`): then a conflict can only be with the event's own row. The
  counter of Redis is enclosed between the acknowledged events and the calls made,
  less those whose statement has not run (`Counted`).
* `MCEventLog` has TLC evaluate both hypotheses on the set-ups of the run `events`.
  The runs `scope_race` and `events_no_ids` show that neither can be dropped.

`EventProofs` about `Report` and the ring under it, for any finite set of goroutines,
any capacity, costs, estimate and events, and any number of calls:

* `RingShowsLatest` (`SnapshotIsLatest`), by `RingInv`: position `i` of the trail is in
  the slot `i % Capacity` unless `Capacity` later events have been written, where the
  event that a writer has put into its slot but not yet counted is one of them
  (`Overwritten`). That clause is what the bare property lacks: between the write and
  `head++` the oldest event that `Entries` would copy is gone, and only the mutex
  (`RingMutex`) keeps every reader out. `RingCopies` says how far a reader has come.
* `ReportBucketsExact` (`BucketsAreExact`), for every sequence of recorded events, by
  induction over the rounds of the aggregation (`Tallied` is its loop invariant,
  `RoundsExist` that the recursion has a solution at all).
* `ReportCovered` (`ReportIsCovered`) and `SkewConcurrent` (`SkewIsConcurrent`), by
  `Books`: `used` is the open estimates, `spent`, and the charges between the two
  additions of a commit (`UsedBooked`); the trail, with the events on their way into it
  and those that guarded actions still owe, is `spent` and `posted` (`TrailBooked`);
  and a reader's buckets are a window of the trail, so that they are covered by the
  counters that it loads afterwards (`ViewOf`).
* `TrailComplete`, which no run checks by itself: when nobody is recording, the trail
  adds up to exactly what was spent and posted, and when no reservation is open or half
  committed, `used` is `spent`.
* Assumed (`ReportAssumption`): the goroutines are finitely many, and what a guarded
  action commits and then records is positive. The code records nothing for a cost of
  0, and committing 0 is the step `GuardRelease`. The counters of `Report` do not wrap;
  `LocalLedger` has their width.

Before it was proved, `ReportInv`, which joins `RingInv` and `Books`, was checked by TLC
on the instance of the run `memory`. The module extends `EventLog` and `Report` side by side; no
proof about one uses an assumption of the other.

Only model-checked: all liveness properties and everything with fairness, which the
prover does not handle: `CallsReturn`, `CallsEnd`, `ExpiredReclaimed` and `HoldsEnd`.
Every invariant and action property of a passing run is a theorem.

## 5. Not modelled

* Currency parsing and `ToMicro` (`currency.go`): stateless formatting and float
  rounding. The test kit, examples and option parsing: no state of their own.
* The rounding of Lua doubles above 2^53, far above the instances of TLC.
* Two `:cost_estimate` guards on one action, which share a context key: what happens
  depends on the kernel, which is not in the repository.
* Damaged records of the runtime quota, DDL, path syntax and reflection of estimates.

## 6. Plan

No safety property that a run checks is left without a proof. What remains is to
follow the code: a change to an action is a change to its definition, to the step of
the proof that has its name, and to the mutants of `PROJECT.json`.

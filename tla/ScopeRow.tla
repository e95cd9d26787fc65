------------------------------ MODULE ScopeRow ------------------------------
(***************************************************************************)
(* How a budget row of cost_budgets comes to be and gets its limit:        *)
(* EnsureSchema of adapters/postgres/ledger.go, a transaction that reads   *)
(* the row and then upserts it, and ensureBudgetRow of                     *)
(* nexssflow/postgres.go, a single upsert that compares the currency       *)
(* itself.  Every process starts a ledger for the same scope with its own  *)
(* configured currency and limit.                                          *)
(***************************************************************************)
EXTENDS Integers

CONSTANTS Procs,      \* the processes
          Currencies, \* the currencies they are configured with
          LimitOf,    \* the limit each of them is configured with
          Setups,     \* the configurations to start from
          NoRow,      \* the scope has no row
          NoTx        \* no transaction has the row

BudgetRows == [currency : Currencies, limit : Nat]

ASSUME ScopeRowAssumption ==
  /\ NoTx \notin Procs
  /\ NoRow \notin BudgetRows
  /\ LimitOf \in [Procs -> Nat]
  /\ \A s \in Setups : /\ s.auto \subseteq Procs
                      /\ s.row \in BudgetRows \cup {NoRow}
                      /\ s.currency \in [Procs -> Currencies]

VARIABLES conf,  \* the deployment: the first row or NoRow, each process's
                 \* currency, and who calls EnsureSchema (schema mode auto)
          row,   \* the committed row
          lock,  \* the transaction that has locked it or is inserting it
          write, \* what that transaction will commit
          stage  \* where each process is: "ok" and "error" are results

scopeVars == <<row, lock, write, stage>>

ScopeInit ==
  /\ conf \in Setups
  /\ row = conf.row
  /\ lock = NoTx
  /\ write = NoRow
  /\ stage = [p \in Procs |-> "start"]

CurrencyOf(p) == conf.currency[p]

Enter(p, l) == stage' = [stage EXCEPT ![p] = l]

\* INSERT ... ON CONFLICT(scope) DO UPDATE SET limit_micros.
Upserted(p) ==
  IF row = NoRow THEN [currency |-> CurrencyOf(p), limit |-> LimitOf[p]]
                 ELSE [row EXCEPT !.limit = LimitOf[p]]

\* EnsureSchema: SELECT currency ... FOR UPDATE finds no row, and then has
\* nothing to lock and waits for nobody, not even for an insert in progress.
SelectNone(p) ==
  /\ stage[p] = "start"
  /\ row = NoRow
  /\ Enter(p, "upsert")
  /\ UNCHANGED <<row, lock, write>>

\* The currency comparison of both ways to set the scope up.
Matches_Any(p) == TRUE
Matches(p) == row = NoRow \/ row.currency = CurrencyOf(p)

\* It finds the row, waits for its lock, and compares the currency.
SelectRow(p) ==
  /\ stage[p] = "start"
  /\ row # NoRow
  /\ lock = NoTx
  /\ IF Matches(p) THEN lock' = p /\ Enter(p, "upsert")
                   ELSE Enter(p, "error") /\ UNCHANGED lock
  /\ UNCHANGED <<row, write>>

\* The upsert of EnsureSchema, which waits for an insert in progress.
Upsert(p) ==
  /\ stage[p] = "upsert"
  /\ lock \in {NoTx, p}
  /\ lock' = p
  /\ write' = Upserted(p)
  /\ Enter(p, "commit")
  /\ UNCHANGED row

\* COMMIT; its answer may be lost.
CommitTx(p) ==
  /\ stage[p] = "commit"
  /\ row' = write
  /\ lock' = NoTx
  /\ write' = NoRow
  /\ Enter(p, "ok") \/ Enter(p, "error")

\* The transaction is rolled back: context cancelled or connection lost.
Unlocked(p) == IF lock = p THEN NoTx ELSE lock

Rollback(p) ==
  /\ stage[p] \in {"upsert", "commit"}
  /\ lock' = Unlocked(p)
  /\ write' = IF lock = p THEN NoRow ELSE write
  /\ Enter(p, "error")
  /\ UNCHANGED row

\* ensureBudgetRow: one statement, which updates the row only if its
\* currency is the configured one, and an error if no row was affected.
EnsureBudgetRow(p) ==
  /\ stage[p] = "start"
  /\ lock = NoTx
  /\ IF Matches(p) THEN row' = Upserted(p) /\ (Enter(p, "ok") \/ Enter(p, "error"))
                   ELSE Enter(p, "error") /\ UNCHANGED row
  /\ UNCHANGED <<lock, write>>

\* A process whose ledger could not be set up, or that sets it up for the
\* next action, calls again.
Again(p) ==
  /\ stage[p] \in {"ok", "error"}
  /\ Enter(p, "start")
  /\ UNCHANGED <<row, lock, write>>

EnsureSchema(p) ==
  SelectNone(p) \/ SelectRow(p) \/ Upsert(p) \/ CommitTx(p) \/ Rollback(p)

ScopeNext ==
  \/ \E p \in conf.auto : EnsureSchema(p)
  \/ \E p \in Procs \ conf.auto : EnsureBudgetRow(p)
  \/ \E p \in Procs : Again(p)

ScopeSpec == ScopeInit /\ [][ScopeNext /\ UNCHANGED conf]_<<conf, scopeVars>>
-----------------------------------------------------------------------------
(* Properties.                                                             *)

\* A ledger that was set up without an error has the currency of the row:
\* "Attempting EnsureSchema on existing scope with USD must fail"
\* (adapters/postgres/ledger_test.go), README guarantee 7.
SuccessMeansSameCurrency ==
  \A p \in Procs : stage[p] = "ok" => row # NoRow /\ row.currency = CurrencyOf(p)

\* The limit of a row is an amount in the row's own currency: no process
\* configured with another currency has written it.
LimitInOwnCurrency ==
  row \notin {NoRow, conf.row} =>
    \E p \in Procs : CurrencyOf(p) = row.currency /\ LimitOf[p] = row.limit
=============================================================================

------------------------------ MODULE EventLog ------------------------------
(***************************************************************************)
(* The Record operations of the durable ledgers: cost_entries of           *)
(* adapters/postgres/ledger.go, by the processes that ScopeRow has set up; *)
(* cost_wallet_usage_events of nexssflow/wallet.go; and the counters of    *)
(* adapters/redis/ledger.go.                                               *)
(*                                                                         *)
(* A recorder owns one event, may fail to hear that it was stored, and may *)
(* call Record again.  In both tables a second row with the same event_id  *)
(* is dropped by ON CONFLICT DO NOTHING.  The wallet stores NULL for an    *)
(* event without an id; the adapter stores the empty string, which is an   *)
(* id like any other.                                                      *)
(***************************************************************************)
EXTENDS ScopeRow, MicroSum

CONSTANTS Events,       \* the events, one recorder each
          Recorder,     \* the process whose ledger records each of them
          CostOf,       \* the cost of each event in micros, not always positive
          CurrencyIn,   \* its currency, or ZeroCurrency
          ZeroCurrency, \* the currency of an event that names none
          NoId,         \* the empty string
          MaxTries      \* bound on the calls made for one event

ASSUME EventLogAssumption ==
  /\ IsFiniteSet(Events)
  /\ Recorder \in [Events -> Procs] /\ CostOf \in [Events -> Int]
  /\ \A s \in Setups : s.store \in {"postgres", "wallet", "redis"} /\ s.events \subseteq Events
  /\ MaxTries \in Nat

\* conf also has the store, the events to record, and the id of each event.
VARIABLES rows,    \* the rows of the table
          counter, \* the Redis counter <prefix>:spent:<domain>:<operation>
          state,   \* where each recorder is; "acked" was told of success
          tries    \* number of calls made for each event

logVars == <<rows, counter, state, tries>>

Store == conf.store
IdOf(e) == conf.ids[e]

Null == "NULL"

EventLogInit ==
  /\ ScopeInit
  /\ rows = {}
  /\ counter = 0
  /\ state = [e \in Events |-> "new"]
  /\ tries = [e \in Events |-> 0]

\* A PostgreSQL ledger is handed out once its scope is set up (ledgerForTenant).
HasLedger(e) == Store = "postgres" => stage[Recorder[e]] = "ok"

\* The currency stored: the ledger's own when the event has none.
StampOf(e) == IF CurrencyIn[e] = ZeroCurrency THEN CurrencyOf(Recorder[e]) ELSE CurrencyIn[e]

\* Record validates the event before it talks to the database.
Valid(e) == CostOf[e] > 0 /\ StampOf(e) = CurrencyOf(Recorder[e])

Record(e) ==
  /\ HasLedger(e)
  /\ state[e] \in {"new", "failed"}
  /\ tries[e] < MaxTries
  /\ tries' = [tries EXCEPT ![e] = @ + 1]
  /\ state' = [state EXCEPT ![e] = IF Valid(e) THEN "sent" ELSE "failed"]
  /\ UNCHANGED <<rows, counter>>

\* The value of the event_id column: NULLIF($6, '') in the wallet.
Column_EmptyKept(e) == IdOf(e)
Column(e) == IF Store = "wallet" /\ IdOf(e) = NoId THEN Null ELSE IdOf(e)

\* The unique index on (scope, event_id) WHERE event_id IS NOT NULL.
Conflict_None(e) == FALSE
Conflict(e) == Column(e) # Null /\ \E w \in rows : w.id = Column(e)

\* INSERT ... ON CONFLICT DO NOTHING.
Inserted(e) ==
  IF Conflict(e) THEN rows
  ELSE rows \cup {[event |-> e, id |-> Column(e), currency |-> StampOf(e), n |-> tries[e]]}

\* INCRBY.
Added(e) == CostOf[e]

\* The statement runs, and its answer arrives or is lost.
Apply(e) ==
  /\ state[e] = "sent"
  /\ IF Store = "redis" THEN counter' = counter + Added(e) /\ UNCHANGED rows
                        ELSE rows' = Inserted(e) /\ UNCHANGED counter
  /\ state' \in {[state EXCEPT ![e] = s] : s \in {"acked", "failed"}}
  /\ UNCHANGED tries

\* The statement never reached the database.
Fail(e) ==
  /\ state[e] = "sent"
  /\ state' = [state EXCEPT ![e] = "failed"]
  /\ UNCHANGED <<rows, counter, tries>>

EventLogNext ==
  /\ \/ (\E e \in conf.events : Record(e) \/ Apply(e) \/ Fail(e)) /\ UNCHANGED scopeVars
     \/ Store = "postgres" /\ ScopeNext /\ UNCHANGED logVars
  /\ UNCHANGED conf

EventLogSpec == EventLogInit /\ [][EventLogNext]_<<conf, scopeVars, logVars>>
-----------------------------------------------------------------------------
(* Properties.                                                             *)

\* No two events of a table have the same id, and PostgreSQL gets none
\* without one.
Identified(s) ==
  s.store # "redis" =>
    \A e, f \in s.events :
      /\ s.ids[e] # Null
      /\ e # f /\ s.ids[e] = s.ids[f] => s.store = "wallet" /\ s.ids[e] = NoId

\* Where EnsureSchema creates the scope, every process has one currency.
Agreed(s) ==
  s.store = "postgres" /\ s.row = NoRow =>
    \A p \in s.auto, q \in Procs : s.currency[p] = s.currency[q]

Kept(e) == {w \in rows : w.event = e}
Acked == {e \in Events : state[e] = "acked"}

\* Success is reported only for an event that the store holds: "Durable
\* adapters persist the event and its ID" (docs/semantics.md), README
\* guarantee 6.  The Redis counter has every acknowledged event in it.
AckedIsKept ==
  IF Store = "redis" THEN counter >= Total(CostOf, Acked) ELSE \A e \in Acked : Kept(e) # {}

\* An event with an id is stored once however often its recorder calls, and
\* an event that fails validation is never stored.  The Redis counter
\* ignores the id: a call repeated after a lost answer is counted again, and
\* the counter is bounded by what the calls made could add.
StoredOnce ==
  /\ counter <= Total([e \in Events |-> IF Valid(e) THEN tries[e] * CostOf[e] ELSE 0], Events)
  /\ \A e \in Events : /\ IdOf(e) # NoId => Cardinality(Kept(e)) <= 1
                       /\ Kept(e) # {} => Valid(e)

\* Whoever sets a scope up, and whichever currency its events name, it has
\* one currency: that of every ledger that was set up, of the process that
\* wrote its limit, and of its entries (README guarantee 7).
ScopeHasOneCurrency ==
  Store = "postgres" =>
    /\ SuccessMeansSameCurrency
    /\ LimitInOwnCurrency
    /\ \A w \in rows : row # NoRow /\ w.currency = row.currency
=============================================================================

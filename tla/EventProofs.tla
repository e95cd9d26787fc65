---------------------------- MODULE EventProofs -----------------------------
(***************************************************************************)
(* Theorems about what is recorded and what is reported: the scope's row   *)
(* and the event tables of the durable ledgers (EventLog), and the audit   *)
(* ring of the in-process ledger with the reports made from it (Report),   *)
(* for any processes, threads, events, currencies, limits, costs, ring     *)
(* capacity and number of calls.                                           *)
(*                                                                         *)
(* Once a scope has a row its currency never changes, but while it has     *)
(* none a process that called EnsureSchema has nothing to compare with and *)
(* trusts that the row it will meet is its own.  Scope says what each      *)
(* process may conclude at each step; Log says the same of the recorders   *)
(* and of the rows they insert.                                            *)
(*                                                                         *)
(* RingInv says which event each slot of the ring holds, the slot that a   *)
(* writer has filled and not yet counted included.  Books relates the      *)
(* counters, the trail and what a reader has loaded: every charge that is  *)
(* in one of them is in the others, or is owed by a thread whose action    *)
(* is between two steps.                                                   *)
(***************************************************************************)
EXTENDS EventLog, Report, MicroSumTheorems, SequenceTheorems

Types ==
  /\ conf \in Setups
  /\ counter \in Int
  /\ state \in [Events -> {"new", "sent", "acked", "failed"}]
  /\ tries \in [Events -> Nat]

\* The row as a process would write it.
OwnRow(p) == [currency |-> CurrencyOf(p), limit |-> LimitOf[p]]

\* A process that has compared currencies, or has found no row to compare
\* with, is right about the row; what it will commit is its own.
ProcOf(p) ==
  /\ stage[p] \in {"upsert", "commit", "ok"} => Matches(p)
  /\ stage[p] \in {"upsert", "commit"} => p \in conf.auto
  /\ stage[p] = "ok" => row # NoRow
  /\ stage[p] = "commit" => lock = p /\ write = OwnRow(p)

Scope ==
  /\ row \in BudgetRows \cup {NoRow}
  /\ stage \in [Procs -> {"start", "upsert", "commit", "ok", "error"}]
  /\ conf.row # NoRow => row # NoRow
  /\ \A p \in Procs : ProcOf(p)
  /\ LimitInOwnCurrency

\* What a recorder has validated, and what a row of the table says.
Log ==
  /\ \A e \in Events : state[e] \in {"sent", "acked"} => Valid(e)
  /\ \A w \in rows : w.event \in conf.events /\ Valid(w.event) /\ w.id = Column(w.event)

\* A recorder's ledger has been set up, so that its event and every row have
\* the currency of the scope.
Coined ==
  /\ \A e \in Events : state[e] = "sent" => row # NoRow /\ row.currency = CurrencyOf(Recorder[e])
  /\ \A w \in rows : row # NoRow /\ w.currency = row.currency

\* The step of a process or a recorder.
ScopeStep == Store = "postgres" /\ ScopeNext /\ UNCHANGED logVars /\ conf' = conf
LogStep(e) == (Record(e) \/ Apply(e) \/ Fail(e)) /\ UNCHANGED scopeVars /\ conf' = conf

allVars == <<conf, scopeVars, logVars>>

\* What a step can be.
LEMMA NextCases ==
  ASSUME [EventLogNext]_allVars
  PROVE  \/ ScopeStep
         \/ \E e \in conf.events : LogStep(e)
         \/ UNCHANGED allVars
BY DEF EventLogNext, ScopeStep, LogStep, allVars

\* What the assumptions say of the deployment at hand.
LEMMA Deployed ==
  ASSUME conf \in Setups
  PROVE  /\ conf.auto \subseteq Procs /\ conf.events \subseteq Events
         /\ conf.row \in BudgetRows \cup {NoRow}
         /\ \A p \in Procs : /\ CurrencyOf(p) \in Currencies
                             /\ OwnRow(p) \in BudgetRows /\ OwnRow(p) # NoRow
BY ScopeRowAssumption, EventLogAssumption DEF CurrencyOf, OwnRow, BudgetRows

\* A deployment never changes, and with it what an event says.
LEMMA SameDeployment ==
  ASSUME conf' = conf
  PROVE  /\ Store' = Store
         /\ \A p : CurrencyOf(p)' = CurrencyOf(p) /\ OwnRow(p)' = OwnRow(p)
         /\ \A e : Valid(e)' = Valid(e) /\ StampOf(e)' = StampOf(e) /\ Column(e)' = Column(e)
         /\ \A e : IdOf(e)' = IdOf(e)
BY DEF Store, CurrencyOf, OwnRow, Valid, StampOf, Column, IdOf

\* At first nothing is recorded, and no process has concluded anything.
LEMMA LogInit == EventLogInit => Types /\ Scope /\ Log /\ Coined
<1> SUFFICES ASSUME EventLogInit PROVE Types /\ Scope /\ Log /\ Coined
  OBVIOUS
<1>1. /\ conf \in Setups /\ row = conf.row /\ stage = [p \in Procs |-> "start"]
      /\ rows = {} /\ counter = 0
      /\ state = [e \in Events |-> "new"] /\ tries = [e \in Events |-> 0]
  BY DEF EventLogInit, ScopeInit
<1>2. Types
  BY <1>1 DEF Types
<1>3. Scope
  BY <1>1, Deployed DEF Scope, ProcOf, LimitInOwnCurrency
<1>4. Log /\ Coined
  BY <1>1 DEF Log, Coined
<1> QED
  BY <1>2, <1>3, <1>4
-----------------------------------------------------------------------------
(* The row.                                                                *)

\* A process whose currency matches writes the row it would write alone.
LEMMA UpsertsOwn ==
  ASSUME Scope, NEW p \in Procs, Matches(p)
  PROVE  Upserted(p) = OwnRow(p)
<1>1. CASE row = NoRow
  BY <1>1 DEF Upserted, OwnRow
<1>2. CASE row # NoRow
  <2>1. row \in BudgetRows /\ row.currency = CurrencyOf(p) /\ LimitOf[p] \in Nat
    BY <1>2, ScopeRowAssumption DEF Scope, Matches
  <2>2. row = [currency |-> row.currency, limit |-> row.limit]
    BY <2>1 DEF BudgetRows
  <2>3. [row EXCEPT !.limit = LimitOf[p]] = [currency |-> row.currency, limit |-> LimitOf[p]]
    BY <2>2
  <2> QED
    BY <1>2, <2>1, <2>3 DEF Upserted, OwnRow
<1> QED
  BY <1>1, <1>2

\* A step either leaves the row alone or has a process write its own.
LEMMA RowWrites ==
  ASSUME Types, Scope, ScopeStep
  PROVE  \/ row' = row
         \/ \E p \in Procs : row' = OwnRow(p) /\ Matches(p)
<1>1. CASE \E p \in Procs : CommitTx(p)
  BY <1>1 DEF CommitTx, Scope, ProcOf
<1>2. CASE \E p \in Procs : EnsureBudgetRow(p)
  BY <1>2, UpsertsOwn DEF EnsureBudgetRow
<1>3. CASE \E p \in Procs : SelectNone(p) \/ SelectRow(p) \/ Upsert(p) \/ Rollback(p) \/ Again(p)
  BY <1>3 DEF SelectNone, SelectRow, Upsert, Rollback, Again
<1> QED
  BY <1>1, <1>2, <1>3, Deployed DEF ScopeStep, ScopeNext, EnsureSchema, Types

\* A row stays, with its currency and in a currency its limit may have.
LEMMA RowStays ==
  ASSUME Types, Scope, ScopeStep
  PROVE  /\ row' \in BudgetRows \cup {NoRow}
         /\ row # NoRow => row' # NoRow /\ row'.currency = row.currency
         /\ LimitInOwnCurrency'
<1>1. CASE row' = row
  BY <1>1, SameDeployment DEF Types, Scope, LimitInOwnCurrency, ScopeStep
<1>2. ASSUME NEW p \in Procs, row' = OwnRow(p), Matches(p)
      PROVE  /\ row' \in BudgetRows \cup {NoRow}
             /\ row # NoRow => row' # NoRow /\ row'.currency = row.currency
             /\ LimitInOwnCurrency'
  <2>1. OwnRow(p) \in BudgetRows /\ OwnRow(p) # NoRow
    BY Deployed DEF Types
  <2>2. row'.currency = CurrencyOf(p) /\ row'.limit = LimitOf[p] /\ CurrencyOf(p)' = CurrencyOf(p)
    BY <1>2, SameDeployment DEF OwnRow, ScopeStep
  <2>3. LimitInOwnCurrency'
    BY <2>2 DEF LimitInOwnCurrency
  <2> QED
    BY <1>2, <2>1, <2>2, <2>3 DEF Matches
<1> QED
  BY <1>1, <1>2, RowWrites

\* Where the processes of a fresh scope agree, a row that appears matches
\* everyone that did not find one.
LEMMA StillMatches ==
  ASSUME Types, Scope, ScopeStep, \A s \in Setups : Agreed(s),
         NEW q \in Procs, Matches(q), row # NoRow \/ q \in conf.auto
  PROVE  Matches(q)'
<1>1. CurrencyOf(q)' = CurrencyOf(q)
  BY SameDeployment DEF ScopeStep
<1>2. CASE row # NoRow
  BY <1>1, <1>2, RowStays DEF Matches
<1>3. CASE row = NoRow /\ q \in conf.auto
  <2>1. \A p \in Procs : CurrencyOf(p) = CurrencyOf(q)
    BY <1>3 DEF Scope, Types, Agreed, CurrencyOf, ScopeStep, Store
  <2>2. ASSUME NEW p \in Procs, row' = OwnRow(p) PROVE row'.currency = CurrencyOf(q)
    BY <2>1, <2>2 DEF OwnRow
  <2> QED
    BY <1>1, <1>3, <2>2, RowWrites DEF Matches
<1> QED
  BY <1>2, <1>3

\* The steps of EnsureSchema and ensureBudgetRow keep what the processes may
\* conclude about the row.
LEMMA ScopeNextOK ==
  ASSUME Types, Scope, ScopeStep, \A s \in Setups : Agreed(s)
  PROVE  Scope'
<1>1. conf' = conf /\ \A q \in Procs : OwnRow(q)' = OwnRow(q)
  BY SameDeployment DEF ScopeStep
<1>2. ASSUME NEW q \in Procs, stage[q] \in {"upsert", "commit", "ok"} PROVE Matches(q)'
  <2>1. Matches(q) /\ (row # NoRow \/ q \in conf.auto)
    BY <1>2 DEF Scope, ProcOf
  <2> QED
    BY <2>1, StillMatches
<1>3. ASSUME NEW q \in Procs, stage'[q] = stage[q],
             stage[q] = "commit" => lock' = lock /\ write' = write
      PROVE  ProcOf(q)'
  BY <1>1, <1>2, <1>3, RowStays DEF Scope, ProcOf
<1>4. ASSUME NEW p \in Procs, NEW l \in {"start", "upsert", "commit", "ok", "error"}, Enter(p, l)
      PROVE  /\ stage' \in [Procs -> {"start", "upsert", "commit", "ok", "error"}]
             /\ stage'[p] = l /\ \A q \in Procs \ {p} : stage'[q] = stage[q]
  BY <1>4 DEF Enter, Scope
<1>5. ASSUME NEW p \in conf.auto, SelectNone(p)
      PROVE  /\ \A q \in Procs : ProcOf(q)'
             /\ stage' \in [Procs -> {"start", "upsert", "commit", "ok", "error"}]
  <2>1. p \in Procs /\ row = NoRow /\ Enter(p, "upsert") /\ UNCHANGED <<row, lock, write>>
    BY <1>5, Deployed DEF SelectNone, Types
  <2>2. ProcOf(p)'
    BY <1>1, <1>4, <2>1 DEF ProcOf, Matches
  <2> QED
    BY <1>3, <1>4, <2>1, <2>2
<1>6. ASSUME NEW p \in conf.auto, SelectRow(p)
      PROVE  /\ \A q \in Procs : ProcOf(q)'
             /\ stage' \in [Procs -> {"start", "upsert", "commit", "ok", "error"}]
  <2>1. /\ p \in Procs /\ lock = NoTx /\ row # NoRow /\ UNCHANGED <<row, write>>
        /\ \/ Matches(p) /\ Enter(p, "upsert")
           \/ Enter(p, "error")
    BY <1>6, Deployed DEF SelectRow, Types
  <2>2. Matches(p) => Matches(p)'
    BY <2>1, StillMatches
  <2>3. ProcOf(p)'
    BY <1>1, <1>4, <2>1, <2>2 DEF ProcOf
  <2>4. \A q \in Procs : stage[q] # "commit"
    BY <2>1, ScopeRowAssumption DEF Scope, ProcOf
  <2> QED
    BY <1>3, <1>4, <2>1, <2>3, <2>4
<1>7. ASSUME NEW p \in conf.auto, Upsert(p)
      PROVE  /\ \A q \in Procs : ProcOf(q)'
             /\ stage' \in [Procs -> {"start", "upsert", "commit", "ok", "error"}]
  <2>1. /\ p \in Procs /\ lock \in {NoTx, p} /\ stage[p] = "upsert" /\ Enter(p, "commit")
        /\ lock' = p /\ write' = Upserted(p) /\ row' = row
    BY <1>7, Deployed DEF Upsert, Types
  <2>2. write' = OwnRow(p) /\ Matches(p)'
    BY <1>2, <2>1, UpsertsOwn DEF Scope, ProcOf
  <2>3. ProcOf(p)'
    BY <1>1, <1>4, <2>1, <2>2 DEF ProcOf
  <2>4. \A q \in Procs \ {p} : stage[q] # "commit"
    BY <2>1, ScopeRowAssumption DEF Scope, ProcOf
  <2> QED
    BY <1>3, <1>4, <2>1, <2>3, <2>4
<1>8. ASSUME NEW p \in conf.auto, CommitTx(p)
      PROVE  /\ \A q \in Procs : ProcOf(q)'
             /\ stage' \in [Procs -> {"start", "upsert", "commit", "ok", "error"}]
  <2>1. /\ p \in Procs /\ stage[p] = "commit" /\ row' = OwnRow(p)
        /\ Enter(p, "ok") \/ Enter(p, "error")
    BY <1>8, Deployed DEF CommitTx, Types, Scope, ProcOf
  <2>2. Matches(p)' /\ row' # NoRow
    BY <1>2, <2>1, Deployed DEF Types
  <2>3. ProcOf(p)'
    BY <1>1, <1>4, <2>1, <2>2 DEF ProcOf
  <2>4. \A q \in Procs \ {p} : stage[q] # "commit"
    BY <2>1 DEF Scope, ProcOf
  <2> QED
    BY <1>3, <1>4, <2>1, <2>3, <2>4
<1>9. ASSUME NEW p \in Procs, Rollback(p) \/ Again(p)
      PROVE  /\ \A q \in Procs : ProcOf(q)'
             /\ stage' \in [Procs -> {"start", "upsert", "commit", "ok", "error"}]
  <2>1. /\ Enter(p, "error") \/ Enter(p, "start")
        /\ \A q \in Procs \ {p} : stage[q] = "commit" => lock' = lock /\ write' = write
    BY <1>9 DEF Rollback, Again, Unlocked, Scope, ProcOf
  <2>2. ProcOf(p)'
    BY <1>4, <2>1 DEF ProcOf
  <2> QED
    BY <1>3, <1>4, <2>1, <2>2
<1>10. ASSUME NEW p \in Procs, EnsureBudgetRow(p)
       PROVE  /\ \A q \in Procs : ProcOf(q)'
              /\ stage' \in [Procs -> {"start", "upsert", "commit", "ok", "error"}]
  <2>1. /\ lock = NoTx
        /\ \/ Matches(p) /\ row' = OwnRow(p) /\ (Enter(p, "ok") \/ Enter(p, "error"))
           \/ Enter(p, "error")
    BY <1>10, UpsertsOwn DEF EnsureBudgetRow
  <2>2. ASSUME row' = OwnRow(p) PROVE Matches(p)' /\ row' # NoRow
    BY <1>1, <2>2, Deployed DEF Matches, OwnRow, Types, CurrencyOf
  <2>3. ProcOf(p)'
    BY <1>1, <1>4, <2>1, <2>2 DEF ProcOf
  <2>4. \A q \in Procs : stage[q] # "commit"
    BY <2>1, ScopeRowAssumption DEF Scope, ProcOf
  <2> QED
    BY <1>3, <1>4, <2>1, <2>3, <2>4
<1>11. /\ \A q \in Procs : ProcOf(q)'
       /\ stage' \in [Procs -> {"start", "upsert", "commit", "ok", "error"}]
  BY <1>5, <1>6, <1>7, <1>8, <1>9, <1>10, Deployed DEF ScopeStep, ScopeNext, EnsureSchema, Types
<1>12. conf'.row # NoRow => row' # NoRow
  BY <1>1, RowStays DEF Scope
<1> QED
  BY <1>11, <1>12, RowStays DEF Scope
-----------------------------------------------------------------------------
(* The tables.                                                             *)

\* The row that a statement inserts.
NewRow(e) == [event |-> e, id |-> Column(e), currency |-> StampOf(e), n |-> tries[e]]

\* A step of a recorder moves its own event, which is valid once it is sent,
\* and a statement inserts it or meets a row with its id.
LEMMA LogStepOK ==
  ASSUME Types, Log, NEW e \in conf.events, LogStep(e)
  PROVE  /\ Types' /\ Log' /\ e \in Events
         /\ \A f \in Events \ {e} : state'[f] = state[f] /\ tries'[f] = tries[f]
         /\ rows' = rows \/ (rows' = rows \cup {NewRow(e)} /\ state[e] = "sent" /\ ~Conflict(e))
<1>1. e \in Events /\ conf' = conf /\ UNCHANGED scopeVars
  BY Deployed DEF Types, LogStep
<1>2. /\ \A f : Valid(f)' = Valid(f) /\ Column(f)' = Column(f)
  BY <1>1, SameDeployment
<1>3. /\ Types' /\ \A f \in Events \ {e} : state'[f] = state[f] /\ tries'[f] = tries[f]
      /\ state'[e] \in {"sent", "acked"} => Valid(e)
      /\ rows' = rows \/ (rows' = rows \cup {NewRow(e)} /\ state[e] = "sent" /\ ~Conflict(e))
  <2>1. CASE Record(e)
    BY <1>1, <2>1 DEF Record, Types
  <2>2. CASE Apply(e)
    <3>1. Valid(e) /\ CostOf[e] \in Int
      BY <1>1, <2>2, EventLogAssumption DEF Apply, Log
    <3>2. counter' \in Int
      BY <2>2, <3>1 DEF Apply, Added, Types
    <3>3. /\ state' \in [Events -> {"new", "sent", "acked", "failed"}] /\ tries' = tries
          /\ \A f \in Events \ {e} : state'[f] = state[f]
      BY <1>1, <2>2 DEF Apply, Types
    <3>4. rows' = rows \/ (rows' = rows \cup {NewRow(e)} /\ state[e] = "sent" /\ ~Conflict(e))
      BY <2>2 DEF Apply, Inserted, NewRow
    <3> QED
      BY <1>1, <3>1, <3>2, <3>3, <3>4 DEF Types
  <2>3. CASE Fail(e)
    BY <1>1, <2>3 DEF Fail, Types
  <2> QED
    BY <2>1, <2>2, <2>3 DEF LogStep
<1>4. \A f \in Events : state'[f] \in {"sent", "acked"} => Valid(f)
  BY <1>1, <1>3 DEF Log
<1>5. \A w \in rows' : w.event \in conf.events /\ Valid(w.event) /\ w.id = Column(w.event)
  <2>1. state[e] = "sent" => Valid(e)
    BY <1>1 DEF Log
  <2>2. NewRow(e).event = e /\ NewRow(e).id = Column(e)
    BY DEF NewRow
  <2> QED
    BY <1>3, <2>1, <2>2 DEF Log
<1>6. Log'
  BY <1>1, <1>2, <1>4, <1>5 DEF Log
<1> QED
  BY <1>1, <1>3, <1>6

\* What a recorder stores has the currency of the scope.
LEMMA LogStepCoined ==
  ASSUME Types, Scope, Log, Coined, Store = "postgres", NEW e \in conf.events, LogStep(e)
  PROVE  Coined'
<1>1. e \in Events /\ conf' = conf /\ row' = row /\ Recorder[e] \in Procs
  BY LogStepOK, EventLogAssumption DEF LogStep, scopeVars
<1>2. \A f \in Events : CurrencyOf(Recorder[f])' = CurrencyOf(Recorder[f])
  BY <1>1, SameDeployment
<1>3. \A f \in Events \ {e} : state'[f] = state[f]
  BY LogStepOK
<1>4. state'[e] = "sent" => row # NoRow /\ row.currency = CurrencyOf(Recorder[e])
  <2>1. CASE Record(e)
    <3>1. stage[Recorder[e]] = "ok"
      BY <2>1 DEF Record, HasLedger
    <3> QED
      BY <1>1, <3>1 DEF Scope, ProcOf, Matches
  <2>2. CASE Apply(e) \/ Fail(e)
    BY <1>1, <2>2 DEF Apply, Fail, Types
  <2> QED
    BY <2>1, <2>2 DEF LogStep
<1>5. \A w \in rows' : row # NoRow /\ w.currency = row.currency
  <2>1. state[e] = "sent" => /\ row # NoRow /\ row.currency = CurrencyOf(Recorder[e])
                             /\ StampOf(e) = CurrencyOf(Recorder[e])
    BY <1>1 DEF Coined, Log, Valid
  <2>2. NewRow(e).currency = StampOf(e)
    BY DEF NewRow
  <2> QED
    BY <2>1, <2>2, LogStepOK DEF Coined
<1> QED
  BY <1>1, <1>2, <1>3, <1>4, <1>5 DEF Coined

\* An acknowledged event is in its table, and with an id it is there once.
Stored ==
  /\ Store # "redis" => \A e \in Events : state[e] = "acked" => \E w \in rows : w.event = e
  /\ \A w, v \in rows : w.event = v.event /\ IdOf(w.event) # NoId => w = v

\* Only the event itself has its id in the table.
LEMMA OwnConflict ==
  ASSUME Types, Log, \A s \in Setups : Identified(s), Store # "redis",
         NEW e \in conf.events, Conflict(e)
  PROVE  \E w \in rows : w.event = e
<1>1. PICK w \in rows : Column(e) # Null /\ w.id = Column(e)
  BY DEF Conflict
<1>2. w.event \in conf.events /\ Column(w.event) = Column(e)
  BY <1>1 DEF Log
<1>3. IdOf(w.event) = IdOf(e) /\ (Store = "wallet" => IdOf(e) # NoId)
  BY <1>1, <1>2 DEF Column
<1>4. e # w.event /\ conf.ids[e] = conf.ids[w.event] => conf.store = "wallet" /\ conf.ids[e] = NoId
  BY <1>2 DEF Identified, Types, Store
<1> QED
  BY <1>3, <1>4 DEF IdOf, Store

\* A recorder's step keeps the acknowledged events and the ids in the table.
LEMMA LogStepStored ==
  ASSUME Types, Log, Stored, \A s \in Setups : Identified(s), NEW e \in conf.events, LogStep(e)
  PROVE  Stored'
<1>1. /\ e \in Events /\ conf' = conf /\ Store' = Store /\ \A f : IdOf(f)' = IdOf(f)
      /\ rows' = rows \/ (rows' = rows \cup {NewRow(e)} /\ state[e] = "sent" /\ ~Conflict(e))
      /\ \A f \in Events \ {e} : state'[f] = state[f]
  BY LogStepOK, SameDeployment DEF LogStep
<1>2. NewRow(e).event = e /\ NewRow(e).id = Column(e)
  BY DEF NewRow
<1>3. ASSUME Store # "redis", state'[e] = "acked" PROVE \E w \in rows' : w.event = e
  <2>1. Apply(e)
    BY <1>1, <1>3 DEF LogStep, Record, Apply, Fail, Types
  <2>2. rows' = IF Conflict(e) THEN rows ELSE rows \cup {NewRow(e)}
    BY <1>3, <2>1 DEF Apply, Inserted, NewRow
  <2> QED
    BY <1>2, <1>3, <2>2, OwnConflict
<1>4. Store # "redis" => \A f \in Events : state'[f] = "acked" => \E w \in rows' : w.event = f
  BY <1>1, <1>3 DEF Stored
<1>5. ASSUME NEW w \in rows, w.event = e, IdOf(e) # NoId, Store # "redis" PROVE Conflict(e)
  <2>1. w.id = Column(e) /\ Column(e) = IdOf(e)
    BY <1>5 DEF Log, Column
  <2>2. IdOf(e) # Null
    BY <1>5 DEF Identified, Types, Store, IdOf
  <2> QED
    BY <2>1, <2>2 DEF Conflict
<1>6. ASSUME NEW w \in rows', NEW v \in rows', w.event = v.event, IdOf(w.event) # NoId
      PROVE  w = v
  <2>1. CASE rows' = rows
    BY <1>6, <2>1 DEF Stored
  <2>2. CASE rows' # rows
    <3>1. rows' = rows \cup {NewRow(e)} /\ ~Conflict(e) /\ Store # "redis"
      BY <1>1, <2>2 DEF LogStep, Record, Apply, Fail
    <3>2. IdOf(e) # NoId => \A u \in rows : u.event # e
      BY <1>5, <3>1
    <3> QED
      BY <1>2, <1>6, <3>1, <3>2 DEF Stored
  <2> QED
    BY <2>1, <2>2
<1> QED
  BY <1>1, <1>4, <1>6 DEF Stored
-----------------------------------------------------------------------------
(* The counter.                                                            *)

Sent == {e \in Events : state[e] = "sent"}

\* What the calls made so far could add to the counter.
Made == [e \in Events |-> IF Valid(e) THEN tries[e] * CostOf[e] ELSE 0]

\* The counter has every acknowledged event in it, and leaves room for those
\* that are still to be added.
Counted ==
  /\ Store = "redis" => counter >= Total(CostOf, Acked)
  /\ counter + Total(CostOf, Sent) <= Total(Made, Events)

\* The sums are well-defined naturals.
LEMMA CounterSums ==
  ASSUME Types, Log
  PROVE  /\ IsFiniteSet(Sent) /\ IsFiniteSet(Acked) /\ IsFiniteSet(Events)
         /\ \A e \in Events : Valid(e) => CostOf[e] \in Nat
         /\ \A e \in Sent \cup Acked : CostOf[e] \in Nat
         /\ \A e \in Events : Made[e] \in Nat
         /\ Total(CostOf, Sent) \in Nat /\ Total(CostOf, Acked) \in Nat
         /\ Total(Made, Events) \in Nat
<1>1. IsFiniteSet(Sent) /\ IsFiniteSet(Acked) /\ IsFiniteSet(Events)
  BY EventLogAssumption, FS_Subset DEF Sent, Acked
<1>2. \A e \in Events : Valid(e) => CostOf[e] \in Nat
  BY EventLogAssumption DEF Valid
<1>3. \A e \in Sent \cup Acked : CostOf[e] \in Nat
  BY <1>2 DEF Sent, Acked, Log
<1>4. \A e \in Events : Made[e] \in Nat
  BY <1>2 DEF Made, Types
<1> QED
  BY <1>1, <1>2, <1>3, <1>4, TotalNat

\* One more call can add the cost of its event once more.
LEMMA OneMore ==
  ASSUME Types, Log, NEW e \in Events, tries' = [tries EXCEPT ![e] = @ + 1],
         conf' = conf, Valid(e)
  PROVE  Total(Made', Events) = Total(Made, Events) + CostOf[e]
<1>1. CostOf[e] \in Nat /\ tries[e] \in Nat
  BY CounterSums DEF Types
<1>2. \A f \in Events : Valid(f)' = Valid(f)
  BY SameDeployment
<1>3. \A f \in Events \ {e} : Made'[f] = Made[f]
  BY <1>2 DEF Made, Types
<1>4. Made[e] = tries[e] * CostOf[e] /\ Made'[e] = (tries[e] + 1) * CostOf[e]
  BY <1>2 DEF Made, Types
<1>5. Made'[e] = Made[e] + CostOf[e] /\ Made'[e] \in Nat
  BY <1>1, <1>4
<1>6. \A f \in Events : Made[f] \in Nat /\ Made'[f] \in Nat
  BY <1>3, <1>5, CounterSums
<1>7. Total(Made', Events) = Total(Made, Events) - Made[e] + Made'[e]
  BY <1>3, <1>6, CounterSums, TotalChange
<1> QED
  BY <1>1, <1>5, <1>6, <1>7, CounterSums

\* A call of an event that is not valid can add nothing.
LEMMA NoneMore ==
  ASSUME Types, conf' = conf, \A f \in Events : Valid(f) => tries'[f] = tries[f]
  PROVE  Made' = Made
BY SameDeployment DEF Made

\* A recorder's step keeps the two bounds on the Redis counter.
LEMMA LogStepCounted ==
  ASSUME Types, Log, Counted, NEW e \in conf.events, LogStep(e)
  PROVE  Counted'
<1>1. e \in Events /\ conf' = conf /\ Store' = Store
  BY LogStepOK, SameDeployment DEF LogStep
<1>2. /\ counter \in Int /\ Total(CostOf, Sent) \in Nat /\ Total(CostOf, Acked) \in Nat
      /\ Total(Made, Events) \in Nat
  BY CounterSums DEF Types
<1>3. CASE Record(e)
  <2>1. /\ counter' = counter /\ state[e] \in {"new", "failed"}
        /\ tries' = [tries EXCEPT ![e] = @ + 1]
        /\ state' = [state EXCEPT ![e] = IF Valid(e) THEN "sent" ELSE "failed"]
    BY <1>3 DEF Record
  <2>2. Acked' = Acked
    BY <1>1, <2>1 DEF Acked, Types
  <2>3. CASE Valid(e)
    <3>1. Sent' = Sent \cup {e} /\ e \notin Sent
      BY <1>1, <2>1, <2>3 DEF Sent, Types
    <3>2. Total(CostOf, Sent') = Total(CostOf, Sent) + CostOf[e] /\ CostOf[e] \in Nat
      BY <1>1, <2>3, <3>1, CounterSums, TotalAdd
    <3>3. Total(Made', Events) = Total(Made, Events) + CostOf[e]
      BY <1>1, <2>1, <2>3, OneMore
    <3> QED
      BY <1>1, <1>2, <2>1, <2>2, <3>2, <3>3 DEF Counted
  <2>4. CASE ~Valid(e)
    <3>1. Sent' = Sent
      BY <1>1, <2>1, <2>4 DEF Sent, Types
    <3>2. Made' = Made
      BY <1>1, <2>1, <2>4, NoneMore DEF Types
    <3> QED
      BY <1>1, <2>1, <2>2, <3>1, <3>2 DEF Counted
  <2> QED
    BY <2>3, <2>4
<1>4. CASE Apply(e) \/ Fail(e)
  <2>1. /\ state[e] = "sent" /\ tries' = tries
        /\ state' \in {[state EXCEPT ![e] = s] : s \in {"acked", "failed"}}
        /\ counter' = counter \/ counter' = counter + CostOf[e]
    BY <1>4 DEF Apply, Fail, Added
  <2>2. Sent' = Sent \ {e} /\ e \in Sent /\ e \notin Acked
    BY <1>1, <2>1 DEF Sent, Acked, Types
  <2>3. /\ Total(CostOf, Sent') = Total(CostOf, Sent) - CostOf[e]
        /\ CostOf[e] \in Nat /\ CostOf[e] <= Total(CostOf, Sent)
    BY <2>2, CounterSums, TotalRemove
  <2>4. Made' = Made
    BY <1>1, <2>1, NoneMore
  <2>5. counter' + Total(CostOf, Sent') <= Total(Made', Events)
    BY <1>2, <2>1, <2>3, <2>4 DEF Counted
  <2>6. Store = "redis" => counter' >= Total(CostOf, Acked')
    <3> SUFFICES ASSUME Store = "redis" PROVE counter' >= Total(CostOf, Acked')
      OBVIOUS
    <3>1. counter >= Total(CostOf, Acked)
      BY DEF Counted
    <3>2. CASE state'[e] = "acked"
      <4>1. Acked' = Acked \cup {e}
        BY <1>1, <2>1, <3>2 DEF Acked, Types
      <4>2. \A f \in Acked \cup {e} : CostOf[f] \in Nat
        BY <2>2, CounterSums
      <4>3. Total(CostOf, Acked') = Total(CostOf, Acked) + CostOf[e]
        BY <2>2, <4>1, <4>2, CounterSums, TotalAdd
      <4>4. counter' = counter + CostOf[e]
        BY <1>1, <1>4, <3>2 DEF Apply, Fail, Added, Types
      <4> QED
        BY <1>2, <2>3, <3>1, <4>3, <4>4
    <3>3. CASE state'[e] # "acked"
      <4>1. Acked' = Acked
        BY <1>1, <2>1, <2>2, <3>3 DEF Acked, Types
      <4> QED
        BY <1>2, <2>1, <2>3, <3>1, <4>1
    <3> QED
      BY <3>2, <3>3
  <2> QED
    BY <1>1, <2>5, <2>6 DEF Counted
<1> QED
  BY <1>3, <1>4 DEF LogStep
-----------------------------------------------------------------------------
(* The theorems.                                                           *)

\* A step that changes nothing.
LEMMA Stutters ==
  ASSUME UNCHANGED allVars
  PROVE  /\ UNCHANGED <<conf, row, lock, write, stage, rows, counter, state, tries>>
         /\ \A p : ProcOf(p)' = ProcOf(p)
         /\ \A e : Valid(e)' = Valid(e) /\ Column(e)' = Column(e) /\ IdOf(e)' = IdOf(e)
         /\ Store' = Store /\ Sent' = Sent /\ Acked' = Acked /\ Made' = Made
<1>1. UNCHANGED <<conf, row, lock, write, stage, rows, counter, state, tries>>
  BY DEF allVars, scopeVars, logVars
<1>2. \A p : ProcOf(p)' = ProcOf(p)
  BY <1>1 DEF ProcOf, Matches, OwnRow, CurrencyOf
<1>3. /\ \A e : Valid(e)' = Valid(e) /\ Column(e)' = Column(e) /\ IdOf(e)' = IdOf(e)
      /\ Store' = Store
  BY <1>1, SameDeployment
<1>4. Sent' = Sent /\ Acked' = Acked /\ Made' = Made
  BY <1>1, <1>3 DEF Sent, Acked, Made
<1> QED
  BY <1>1, <1>2, <1>3, <1>4

\* The recorders' part of the invariant, and the counter.
LEMMA LogNext == Types /\ Log /\ Counted /\ [EventLogNext]_allVars => Types' /\ Log' /\ Counted'
<1> SUFFICES ASSUME Types, Log, Counted, [EventLogNext]_allVars PROVE Types' /\ Log' /\ Counted'
  OBVIOUS
<1>1. CASE ScopeStep
  <2>1. UNCHANGED <<conf, rows, counter, state, tries>>
    BY <1>1 DEF ScopeStep, logVars
  <2>2. /\ \A e : Valid(e)' = Valid(e) /\ Column(e)' = Column(e)
        /\ Store' = Store
    BY <2>1, SameDeployment
  <2>3. Sent' = Sent /\ Acked' = Acked /\ Made' = Made
    BY <2>1, <2>2 DEF Sent, Acked, Made
  <2> QED
    BY <2>1, <2>2, <2>3 DEF Types, Log, Counted
<1>2. CASE \E e \in conf.events : LogStep(e)
  BY <1>2, LogStepOK, LogStepCounted
<1>3. CASE UNCHANGED allVars
  BY <1>3, Stutters DEF Types, Log, Counted
<1> QED
  BY <1>1, <1>2, <1>3, NextCases

\* The counter starts within its bounds.
LEMMA CountedInit == EventLogInit => Counted
<1> SUFFICES ASSUME EventLogInit PROVE Counted
  OBVIOUS
<1>1. /\ counter = 0 /\ Sent = {} /\ Acked = {}
  BY DEF EventLogInit, Sent, Acked
<1>2. Total(Made, Events) \in Nat
  BY LogInit, CounterSums
<1> QED
  BY <1>1, <1>2, TotalEmpty DEF Counted

\* The recorders' part holds in every state.
LEMMA LogCorrect == EventLogSpec => [](Types /\ Log /\ Counted)
BY LogInit, CountedInit, LogNext, PTL DEF EventLogSpec, allVars

\* Under distinct ids the table holds what it should.
LEMMA StoredNext ==
  ASSUME \A s \in Setups : Identified(s)
  PROVE  Types /\ Log /\ Stored /\ [EventLogNext]_allVars => Stored'
<1> SUFFICES ASSUME Types, Log, Stored, [EventLogNext]_allVars PROVE Stored'
  OBVIOUS
<1>1. CASE ScopeStep
  <2>1. UNCHANGED <<conf, rows, state>>
    BY <1>1 DEF ScopeStep, logVars
  <2> QED
    BY <2>1, SameDeployment DEF Stored
<1>2. CASE \E e \in conf.events : LogStep(e)
  BY <1>2, LogStepStored
<1>3. CASE UNCHANGED allVars
  BY <1>3, Stutters DEF Stored
<1> QED
  BY <1>1, <1>2, <1>3, NextCases

\* And with distinct ids the table's part.
LEMMA StoredCorrect ==
  ASSUME \A s \in Setups : Identified(s)
  PROVE  EventLogSpec => []Stored
<1>1. EventLogInit => Stored
  BY DEF EventLogInit, Stored
<1>2. Types /\ Log /\ Stored /\ [EventLogNext]_allVars => Stored'
  BY StoredNext
<1> QED
  BY <1>1, <1>2, LogCorrect, PTL DEF EventLogSpec, allVars

\* An event that Record acknowledged is in the table, or in the Redis counter,
\* whatever answers were lost and however often it was recorded
\* (AckedIsKept), where no two events have the same id.
THEOREM EventsKept ==
  ASSUME \A s \in Setups : Identified(s)
  PROVE  EventLogSpec => []AckedIsKept
<1>1. Counted /\ Stored => AckedIsKept
  BY DEF Counted, Stored, AckedIsKept, Kept, Acked
<1>2. EventLogSpec => []Stored
  BY StoredCorrect
<1> QED
  BY <1>1, <1>2, LogCorrect, PTL

\* An event with an id has at most one row, only valid events have one, and
\* the Redis counter is bounded by what the calls made could add (StoredOnce).
THEOREM EventsStoredOnce ==
  ASSUME \A s \in Setups : Identified(s)
  PROVE  EventLogSpec => []StoredOnce
<1>1. Types /\ Log /\ Counted /\ Stored => StoredOnce
  <2> SUFFICES ASSUME Types, Log, Counted, Stored PROVE StoredOnce
    OBVIOUS
  <2>1. counter <= Total(Made, Events)
    BY CounterSums DEF Counted, Types
  <2>2. ASSUME NEW e \in Events, IdOf(e) # NoId PROVE Cardinality(Kept(e)) <= 1
    <3>1. \A w, v \in Kept(e) : w = v
      BY <2>2 DEF Stored, Kept
    <3>2. CASE Kept(e) = {}
      BY <3>2, FS_EmptySet
    <3>3. CASE Kept(e) # {}
      <4>1. PICK w \in Kept(e) : Kept(e) = {w}
        BY <3>1, <3>3
      <4>2. Cardinality({w}) = 1
        BY FS_Singleton
      <4>3. Cardinality(Kept(e)) = 1
        BY <4>1, <4>2, Zenon
      <4> QED
        BY <4>3
    <3> QED
      BY <3>2, <3>3
  <2>3. \A e \in Events : Kept(e) # {} => Valid(e)
    BY DEF Log, Kept
  <2> QED
    BY <2>1, <2>2, <2>3 DEF StoredOnce, Made
<1>2. EventLogSpec => []Stored
  BY StoredCorrect
<1> QED
  BY <1>1, <1>2, LogCorrect, PTL

\* A scope has one currency (ScopeHasOneCurrency), for any interleaving of
\* EnsureSchema, ensureBudgetRow and Record, where the processes agree on a
\* currency if EnsureSchema creates the scope; scope_race shows what happens
\* if they do not.
THEOREM ScopeKeepsCurrency ==
  ASSUME \A s \in Setups : Agreed(s)
  PROVE  EventLogSpec => []ScopeHasOneCurrency
<1> DEFINE Inv == Scope /\ (Store = "postgres" => Coined)
<1>1. EventLogInit => Inv
  BY LogInit
<1>2. Types /\ Log /\ Inv /\ [EventLogNext]_allVars => Inv'
  <2> SUFFICES ASSUME Types, Log, Inv, [EventLogNext]_allVars PROVE Inv'
    OBVIOUS
  <2>1. CASE ScopeStep
    <3>1. Scope'
      BY <2>1, ScopeNextOK
    <3>2. UNCHANGED <<conf, rows, state>> /\ Store = "postgres"
      BY <2>1 DEF ScopeStep, logVars
    <3>3. Coined'
      BY <2>1, <3>2, RowStays, SameDeployment DEF Coined
    <3> QED
      BY <3>1, <3>3
  <2>2. CASE \E e \in conf.events : LogStep(e)
    <3>1. UNCHANGED <<conf, row, lock, write, stage>>
      BY <2>2 DEF LogStep, scopeVars
    <3>2. Scope'
      BY <3>1 DEF Scope, ProcOf, Matches, OwnRow, CurrencyOf, LimitInOwnCurrency
    <3>3. Store' = Store
      BY <3>1, SameDeployment
    <3> QED
      BY <2>2, <3>2, <3>3, LogStepCoined
  <2>3. CASE UNCHANGED allVars
    <3>1. UNCHANGED <<conf, row, lock, write, stage, rows, state>> /\ Store' = Store
      BY <2>3, Stutters
    <3>2. Scope'
      BY <3>1 DEF Scope, ProcOf, Matches, OwnRow, CurrencyOf, LimitInOwnCurrency
    <3>3. Coined => Coined'
      BY <3>1 DEF Coined, CurrencyOf
    <3> QED
      BY <3>1, <3>2, <3>3
  <2> QED
    BY <2>1, <2>2, <2>3, NextCases
<1>3. Inv => ScopeHasOneCurrency
  BY DEF Scope, ProcOf, Matches, Coined, ScopeHasOneCurrency, SuccessMeansSameCurrency
<1> HIDE DEF Inv
<1> QED
  BY <1>1, <1>2, <1>3, LogCorrect, PTL DEF EventLogSpec, allVars
-----------------------------------------------------------------------------
(* AuditRing: what the ring holds and what its readers copy.               *)

\* Positions of the trail less than Capacity apart have slots of their own.
LEMMA SlotsDiffer ==
  ASSUME NEW i \in Nat, NEW j \in Nat, i < j, j - i < Capacity
  PROVE  i % Capacity # j % Capacity
<1> USE CapacityAssumption
<1> DEFINE p == i \div Capacity
           q == j \div Capacity
<1>1. p \in Int /\ q \in Int
  OBVIOUS
<1>2. i = Capacity * p + (i % Capacity) /\ j = Capacity * q + (j % Capacity)
  OBVIOUS
<1>3. SUFFICES ASSUME i % Capacity = j % Capacity PROVE FALSE
  OBVIOUS
<1>4. j - i = Capacity * (q - p)
  <2>1. \A x, y \in Int : Capacity * (y - x) = Capacity * y - Capacity * x
    OBVIOUS
  <2>2. Capacity * (q - p) = Capacity * q - Capacity * p
    BY <1>1, <2>1
  <2>3. Capacity * p \in Int /\ Capacity * q \in Int /\ i % Capacity \in Int
    BY <1>1
  <2> HIDE DEF p, q
  <2> QED
    BY <1>2, <1>3, <2>2, <2>3
<1>5. CASE q - p <= 0
  <2>1. Capacity * (q - p) <= 0
    BY <1>1, <1>5
  <2> QED
    BY <1>4, <2>1
<1>6. CASE q - p >= 1
  <2>1. Capacity * (q - p) >= Capacity
    BY <1>1, <1>6
  <2> QED
    BY <1>4, <2>1
<1> QED
  BY <1>1, <1>5, <1>6

\* head % capacity is the index of a slot.
LEMMA SlotsInRange ==
  ASSUME NEW i \in Nat
  PROVE  i % Capacity \in Slots
BY CapacityAssumption DEF Slots

\* The events that Record lets through.
Recorded == [id : Nat, op : Operations, cost : Nat \ {0}, currency : {Own}]

\* The threads that are recording an event.
Recording == {t \in Threads : pc[t] \in {"lock", "write", "advance"}}

\* Every variable of the ring has its type.
RingType ==
  /\ entries \in [Slots -> Recorded \cup {NoEvent}]
  /\ head \in Nat
  /\ pc \in [Threads -> {"idle", "lock", "write", "advance", "rlock", "begin", "copy"}]
  /\ event \in [Threads -> Recorded \cup {NoEvent}]
  /\ \A t \in Recording : event[t] \in Recorded
  /\ scan \in [Threads -> [start : Nat, count : Nat]]
  /\ out \in [Threads -> Seq(Recorded)]
  /\ calls \in Nat
  /\ trail \in Seq(Recorded) /\ head = Len(trail)

\* The mutex is held by one writer, or by readers.
RingMutex ==
  /\ writer = {t \in Threads : pc[t] \in {"write", "advance"}}
  /\ readers = {t \in Threads : pc[t] \in {"begin", "copy"}}
  /\ \A t \in writer : writer = {t} /\ readers = {}

\* A slot has been overwritten whose event is no longer counted out.
Overwritten == \E t \in Threads : pc[t] = "advance"

\* The last events of the trail are in their slots.
InSlot(i) == entries[i % Capacity] = trail[i + 1]
RingSlots ==
  /\ \A i \in 0..(head - 1) :
       head - i <= Capacity /\ ~(head - i = Capacity /\ Overwritten) => InSlot(i)
  /\ \A t \in Threads : pc[t] = "advance" => entries[head % Capacity] = event[t]

\* A reader has copied a part of them, which are the last ones still.
CopyOf(t) ==
  /\ pc[t] = "copy" =>
       /\ scan[t] = [start |-> head - Count, count |-> Count]
       /\ Len(out[t]) <= Count
       /\ \A i \in 1..Len(out[t]) : out[t][i] = trail[head - Count + i]
  /\ pc[t] # "copy" => out[t] = <<>>
RingCopies == \A t \in Threads : CopyOf(t)

\* The inductive invariant of the ring.
RingInv == RingType /\ RingMutex /\ RingSlots /\ RingCopies

\* The empty ring satisfies the invariant.
LEMMA RingInvInit == RingInit => RingInv
<1> SUFFICES ASSUME RingInit PROVE RingInv
  OBVIOUS
<1> USE CapacityAssumption DEF RingInit
<1>1. RingType
  BY DEF RingType, Recording, NoScan
<1>2. RingMutex /\ RingSlots /\ RingCopies
  BY DEF RingMutex, RingSlots, RingCopies, CopyOf
<1> QED
  BY <1>1, <1>2 DEF RingInv

\* What Record stores has the ledger's currency and a positive cost.
LEMMA AcceptedIsRecorded ==
  ASSUME NEW op \in Operations, NEW cost \in Costs,
         NEW c \in {Own, Other, NoCurrency}, Accepted(cost, c), NEW n \in Nat
  PROVE  [id |-> n, op |-> op, cost |-> cost, currency |-> Stamp(c)] \in Recorded
BY CostsAssumption, CurrenciesAssumption DEF Accepted, Stamp, Recorded

\* Each step of Record and Entries keeps it.  Record's call brings an event.
LEMMA RingRecordCall ==
  ASSUME RingInv, NEW t \in Threads, NEW op \in Operations, NEW cost \in Costs,
         NEW c \in {Own, Other, NoCurrency}, RecordCall(t, op, cost, c)
  PROVE  RingInv'
<1> USE DEF RecordCall, Goto, RingInv
<1>1. CASE Accepted(cost, c)
  <2> DEFINE e == [id |-> calls + 1, op |-> op, cost |-> cost, currency |-> Stamp(c)]
  <2>1. e \in Recorded /\ calls + 1 \in Nat
    BY AcceptedIsRecorded, <1>1 DEF RingType
  <2>2. /\ pc' = [pc EXCEPT ![t] = "lock"] /\ event' = [event EXCEPT ![t] = e]
        /\ calls' = calls + 1
        /\ UNCHANGED <<entries, head, writer, readers, scan, out, trail>>
    BY <1>1
  <2> HIDE DEF e
  <2>3. RingType'
    BY <2>1, <2>2 DEF RingType, Recording
  <2>4. RingMutex'
    BY <2>2 DEF RingType, RingMutex
  <2>5. RingSlots' /\ RingCopies'
    BY <2>2 DEF RingType, RingSlots, InSlot, Overwritten, RingCopies, CopyOf, Count
  <2> QED
    BY <2>3, <2>4, <2>5
<1>2. CASE ~Accepted(cost, c)
  BY <1>2 DEF RingType, Recording, RingMutex, RingSlots, InSlot, Overwritten,
              RingCopies, CopyOf, Count
<1> QED
  BY <1>1, <1>2

\* The lock is granted when nobody is in it.
LEMMA RingLock ==
  ASSUME RingInv, NEW t \in Threads, Lock(t)
  PROVE  RingInv'
<1> USE DEF Lock, Goto, RingInv
<1>1. RingType'
  BY DEF RingType, Recording
<1>2. RingMutex'
  BY DEF RingType, RingMutex
<1>3. RingSlots' /\ RingCopies'
  BY DEF RingType, RingSlots, InSlot, Overwritten, RingCopies, CopyOf, Count
<1> QED
  BY <1>1, <1>2, <1>3

\* The slot written is that of the oldest event, which no longer
\* counts, and of no other.
LEMMA RingWriteSlot ==
  ASSUME RingInv, NEW t \in Threads, WriteSlot(t)
  PROVE  RingInv'
<1> USE DEF WriteSlot, Goto, RingInv
<1>1. head % Capacity \in Slots
  BY SlotsInRange DEF RingType
<1>2. RingType'
  BY <1>1 DEF RingType, Recording
<1>3. RingMutex' /\ RingCopies'
  BY DEF RingType, RingMutex, RingCopies, CopyOf, Count
<1>4. RingSlots'
  <2>1. ASSUME NEW i \in 0..(head - 1), head - i < Capacity
        PROVE  InSlot(i)'
    <3>1. InSlot(i)
      BY <2>1, CapacityAssumption DEF RingType, RingSlots
    <3>2. i % Capacity # head % Capacity /\ i % Capacity \in Slots
      BY <2>1, SlotsDiffer, SlotsInRange DEF RingType
    <3> QED
      BY <3>1, <3>2 DEF RingType, InSlot
  <2>2. entries'[head % Capacity] = event[t] /\ Overwritten'
    BY <1>1 DEF RingType, Overwritten
  <2>3. \A u \in Threads : pc'[u] = "advance" => u = t
    BY DEF RingType, RingMutex
  <2>4. ASSUME NEW i \in 0..(head - 1), head - i <= Capacity, ~(head - i = Capacity)
        PROVE  InSlot(i)'
    BY <2>1, <2>4, CapacityAssumption DEF RingType
  <2> QED
    BY <2>2, <2>3, <2>4 DEF RingType, RingSlots
<1> QED
  BY <1>2, <1>3, <1>4

\* With head++ the slot written becomes that of the last event.
LEMMA RingAdvance ==
  ASSUME RingInv, NEW t \in Threads, Advance(t)
  PROVE  RingInv'
<1> USE DEF Advance, RingInv
<1>1. event[t] \in Recorded /\ writer = {t} /\ readers = {}
  BY DEF RingType, Recording, RingMutex
<1>2. /\ trail' \in Seq(Recorded) /\ Len(trail') = head + 1
      /\ \A i \in 1..head : trail'[i] = trail[i]
      /\ trail'[head + 1] = event[t]
  BY <1>1 DEF RingType
<1>3. \A u \in Threads : /\ pc[u] = "copy" => FALSE
                         /\ pc[u] \in {"write", "advance"} => u = t
                         /\ pc'[u] \notin {"write", "advance", "copy"}
                         /\ u \in Recording' => u \in Recording /\ u # t
                         /\ pc'[u] \in {"begin", "copy"} <=> u \in LetIn
  BY <1>1 DEF RingType, RingMutex, LetIn, Waiting, Recording
<1>4. RingType'
  <2>1. pc' \in [Threads -> {"idle", "lock", "write", "advance", "rlock", "begin", "copy"}]
    BY DEF RingType
  <2>2. \A u \in Recording' : event'[u] \in Recorded
    BY <1>3 DEF RingType, Recording
  <2> QED
    BY <1>2, <2>1, <2>2 DEF RingType
<1>5. RingMutex'
  BY <1>3 DEF RingMutex, LetIn, Waiting
<1>6. RingSlots'
  <2>1. ASSUME NEW i \in 0..head, head + 1 - i <= Capacity
        PROVE  InSlot(i)'
    <3>1. CASE i = head
      BY <3>1, <1>2 DEF RingSlots, InSlot
    <3>2. CASE i # head
      <4>1. i \in 0..(head - 1) /\ head - i < Capacity
        BY <3>2, <2>1, CapacityAssumption DEF RingType
      <4>2. InSlot(i)
        BY <4>1, CapacityAssumption DEF RingType, RingSlots
      <4> QED
        BY <4>1, <4>2, <1>2 DEF RingType, InSlot
    <3> QED
      BY <3>1, <3>2
  <2> QED
    BY <2>1, <1>3 DEF RingType, RingSlots
<1>7. RingCopies'
  BY <1>3 DEF RingCopies, CopyOf
<1> QED
  BY <1>4, <1>5, <1>6, <1>7

\* A reader enters only while no writer is inside.
LEMMA RingEntriesCall ==
  ASSUME RingInv, NEW t \in Threads, EntriesCall(t)
  PROVE  RingInv'
<1> USE DEF EntriesCall, Goto, RingInv
<1>1. RingType'
  BY DEF RingType, Recording
<1>2. RingMutex'
  BY DEF RingType, RingMutex, Blocked
<1>3. RingSlots' /\ RingCopies'
  BY DEF RingType, RingSlots, InSlot, Overwritten, RingCopies, CopyOf, Count
<1> QED
  BY <1>1, <1>2, <1>3

\* Entries finds at most Capacity events, and no more than there are.
LEMMA CountRange ==
  ASSUME RingType
  PROVE  Count \in 0..Capacity /\ Count <= head /\ head - Count \in Nat
BY CapacityAssumption DEF RingType, Count

\* It computes count and start under the read lock.
LEMMA RingBegin ==
  ASSUME RingInv, NEW t \in Threads, Begin(t)
  PROVE  RingInv'
<1> USE DEF Begin, Goto, RingInv
<1>1. Count \in Nat /\ head - Count \in Nat
  BY CountRange
<1>2. RingType'
  BY <1>1 DEF RingType, Recording
<1>3. RingMutex' /\ RingSlots'
  BY DEF RingType, RingMutex, RingSlots, InSlot, Overwritten
<1>4. RingCopies'
  <2>1. Count' = Count
    BY DEF Count
  <2>2. ASSUME NEW u \in Threads, u # t PROVE CopyOf(u)'
    BY <2>1, <2>2 DEF RingType, RingCopies, CopyOf
  <2>3. CopyOf(t)'
    BY <1>1, <2>1 DEF RingType, RingCopies, CopyOf
  <2> QED
    BY <2>2, <2>3 DEF RingCopies
<1> QED
  BY <1>2, <1>3, <1>4

\* The slot it copies holds the event of that position: no writer is inside.
LEMMA RingCopySlot ==
  ASSUME RingInv, NEW t \in Threads, CopySlot(t)
  PROVE  RingInv'
<1> USE DEF CopySlot, RingInv
<1> DEFINE k == head - Count + Len(out[t])
           e == entries[k % Capacity]
<1>1. /\ Count \in 0..Capacity /\ Count <= head /\ head - Count \in Nat
      /\ Len(out[t]) \in Nat /\ Len(out[t]) < Count /\ k \in 0..(head - 1)
      /\ scan[t].start = head - Count
  BY CountRange DEF RingType, RingCopies, CopyOf
<1>2. ~Overwritten
  BY DEF RingType, RingMutex, Overwritten
<1>3. e = trail[k + 1] /\ e \in Recorded
  <2>1. head - k <= Capacity
    BY <1>1, CapacityAssumption DEF RingType
  <2>2. InSlot(k)
    BY <1>1, <1>2, <2>1 DEF RingSlots
  <2>3. k + 1 \in 1..Len(trail)
    BY <1>1 DEF RingType
  <2> QED
    BY <2>2, <2>3 DEF RingType, InSlot
<1>4. /\ out' = [out EXCEPT ![t] = Append(@, e)]
      /\ out'[t] \in Seq(Recorded) /\ Len(out'[t]) = Len(out[t]) + 1
      /\ \A i \in 1..Len(out[t]) : out'[t][i] = out[t][i]
      /\ out'[t][Len(out[t]) + 1] = e
  BY <1>1, <1>3 DEF RingType
<1>5. RingType'
  BY <1>4 DEF RingType, Recording
<1>6. RingMutex' /\ RingSlots'
  BY DEF RingType, RingMutex, RingSlots, InSlot, Overwritten
<1>7. RingCopies'
  <2>1. Count' = Count
    BY DEF Count
  <2>2. ASSUME NEW u \in Threads, u # t PROVE CopyOf(u)'
    BY <2>1, <2>2 DEF RingType, RingCopies, CopyOf
  <2>3. \A i \in 1..Len(out[t]) : out'[t][i] = trail[head - Count + i]
    BY <1>4 DEF RingCopies, CopyOf
  <2>4. out'[t][Len(out[t]) + 1] = trail[head - Count + (Len(out[t]) + 1)]
    <3>1. k + 1 = head - Count + (Len(out[t]) + 1)
      BY <1>1 DEF RingType
    <3> QED
      BY <1>3, <1>4, <3>1
  <2>5. \A i \in 1..Len(out'[t]) : out'[t][i] = trail[head - Count + i]
    BY <1>1, <1>4, <2>3, <2>4
  <2>6. scan[t] = [start |-> head - Count, count |-> Count] /\ Len(out'[t]) <= Count
    BY <1>1, <1>4 DEF RingCopies, CopyOf
  <2>7. CopyOf(t)'
    BY <2>1, <2>5, <2>6 DEF CopyOf
  <2> QED
    BY <2>2, <2>7 DEF RingCopies
<1> QED
  BY <1>5, <1>6, <1>7

\* It leaves the lock.
LEMMA RingFinish ==
  ASSUME RingInv, NEW t \in Threads, Finish(t)
  PROVE  RingInv'
<1> USE DEF Finish, Goto, RingInv
<1>1. RingType'
  BY DEF RingType, Recording, NoScan
<1>2. RingMutex'
  BY DEF RingType, RingMutex
<1>3. RingSlots' /\ RingCopies'
  BY DEF RingType, RingSlots, InSlot, Overwritten, RingCopies, CopyOf, Count
<1> QED
  BY <1>1, <1>2, <1>3

\* Steps elsewhere leave the ring alone.
LEMMA RingStutter ==
  ASSUME RingInv, UNCHANGED ringVars
  PROVE  RingInv'
BY DEF ringVars, RingInv, RingType, Recording, RingMutex, RingSlots, InSlot, Overwritten,
       RingCopies, CopyOf, Count

\* A complete copy is the end of the trail.
LEMMA RingInvSnapshot == RingInv => SnapshotIsLatest
<1> SUFFICES ASSUME RingInv, NEW t \in Threads, pc[t] = "copy", Len(out[t]) = scan[t].count
             PROVE  /\ out[t] = SubSeq(trail, Len(trail) - Retained + 1, Len(trail))
                    /\ \A i \in DOMAIN out[t] : out[t][i].currency = Own
  BY DEF SnapshotIsLatest
<1> DEFINE s == SubSeq(trail, head - Count + 1, head)
<1>1. Count \in Nat /\ Count <= head /\ head \in Nat /\ Retained = Count /\ head = Len(trail)
  BY CountRange DEF RingInv, RingType, Retained, Count
<1>2. /\ out[t] \in Seq(Recorded) /\ Len(out[t]) = Count
      /\ \A i \in 1..Count : out[t][i] = trail[head - Count + i]
  BY DEF RingInv, RingType, RingCopies, CopyOf
<1>3. /\ s \in Seq(Recorded) /\ Len(s) = Count
      /\ \A i \in 1..Count : s[i] = trail[head - Count + i]
  <2>1. \A i \in (head - Count + 1)..head : trail[i] \in Recorded
    BY <1>1 DEF RingInv, RingType
  <2>2. /\ s \in Seq(Recorded)
        /\ Len(s) = IF head - Count + 1 <= head THEN head - (head - Count + 1) + 1 ELSE 0
        /\ \A i \in 1..(head - (head - Count + 1) + 1) : s[i] = trail[head - Count + 1 + i - 1]
    BY <1>1, <2>1, SubSeqProperties
  <2>3. Len(s) = Count /\ head - (head - Count + 1) + 1 = Count
    BY <1>1, <2>2
  <2>4. ASSUME NEW i \in 1..Count PROVE s[i] = trail[head - Count + i]
    <3>1. head - Count + 1 + i - 1 = head - Count + i
      BY <1>1
    <3> QED
      BY <2>2, <2>3, <3>1
  <2> QED
    BY <2>2, <2>3, <2>4
<1>4. out[t] = s
  BY <1>2, <1>3, SeqEqual
<1>5. \A i \in DOMAIN out[t] : out[t][i] \in Recorded
  BY <1>2
<1> QED
  BY <1>1, <1>4, <1>5 DEF Recorded
-----------------------------------------------------------------------------
(* Report: what events cost together.                                      *)

\* What the events of a sequence cost together.
CostsOf(s) == [i \in DOMAIN s |-> s[i].cost]
SumOf(s) == Total(CostsOf(s), DOMAIN s)

\* A sequence has finitely many positions.
LEMMA SeqFinite ==
  ASSUME NEW S, NEW q \in Seq(S)
  PROVE  IsFiniteSet(DOMAIN q) /\ DOMAIN q = 1..Len(q) /\ Len(q) \in Nat
<1>1. DOMAIN q = 1..Len(q) /\ Len(q) \in Nat
  OBVIOUS
<1>2. IsFiniteSet(1..Len(q))
  BY <1>1, FS_Interval
<1> QED
  BY <1>1, <1>2

\* Costs are natural numbers, and so is their total.
LEMMA SumOfNat ==
  ASSUME NEW s \in Seq(Recorded)
  PROVE  /\ SumOf(s) \in Nat /\ IsFiniteSet(DOMAIN s) /\ DOMAIN s = 1..Len(s)
         /\ \A i \in DOMAIN s : CostsOf(s)[i] = s[i].cost /\ s[i].cost \in Nat
<1>1. DOMAIN s = 1..Len(s) /\ Len(s) \in Nat /\ \A i \in 1..Len(s) : s[i] \in Recorded
  OBVIOUS
<1>2. IsFiniteSet(DOMAIN s)
  BY SeqFinite
<1>3. \A i \in DOMAIN s : CostsOf(s)[i] = s[i].cost /\ s[i].cost \in Nat
  BY <1>1 DEF CostsOf, Recorded
<1> QED
  BY <1>1, <1>2, <1>3, TotalNat DEF SumOf

\* An event more costs its cost more.
LEMMA SumOfAppend ==
  ASSUME NEW s \in Seq(Recorded), NEW e \in Recorded
  PROVE  SumOf(Append(s, e)) = SumOf(s) + e.cost
<1> DEFINE n == Len(s) + 1
           a == Append(s, e)
<1>1. /\ a \in Seq(Recorded) /\ DOMAIN a = DOMAIN s \cup {n} /\ n \notin DOMAIN s
      /\ a[n] = e /\ \A i \in DOMAIN s : a[i] = s[i]
  OBVIOUS
<1> HIDE DEF a, n
<1>2. Total(CostsOf(a), DOMAIN a) = Total(CostsOf(a), DOMAIN s) + CostsOf(a)[n]
  <2>1. IsFiniteSet(DOMAIN s)
    BY SumOfNat
  <2>2. \A i \in DOMAIN s \cup {n} : CostsOf(a)[i] \in Nat
    BY <1>1, SumOfNat
  <2> QED
    BY <1>1, <2>1, <2>2, TotalAdd
<1>3. Total(CostsOf(a), DOMAIN s) = SumOf(s)
  <2>1. \A i \in DOMAIN s : CostsOf(a)[i] = CostsOf(s)[i]
    BY <1>1 DEF CostsOf
  <2> QED
    BY <2>1, TotalCong DEF SumOf
<1>4. CostsOf(a)[n] = e.cost
  BY <1>1 DEF CostsOf
<1> QED
  BY <1>2, <1>3, <1>4 DEF SumOf, a, n

\* Entries that a window of the trail shows cost no more than the trail.
LEMMA SumOfWindow ==
  ASSUME NEW s \in Seq(Recorded), NEW w \in Seq(Recorded), NEW m \in Nat,
         m + Len(w) <= Len(s), \A i \in 1..Len(w) : w[i] = s[m + i]
  PROVE  SumOf(w) <= SumOf(s)
<1> DEFINE f == CostsOf(w)
           g == CostsOf(s)
           P == {n \in Nat : n <= Len(w) => Total(f, 1..n) <= Total(g, 1..(m + n))}
<1>0. Len(s) \in Nat /\ Len(w) \in Nat /\ DOMAIN s = 1..Len(s) /\ DOMAIN w = 1..Len(w)
  OBVIOUS
<1>1. \A i \in 1..Len(w) : f[i] = g[m + i] /\ f[i] \in Nat
  BY <1>0, SumOfNat DEF CostsOf
<1>2. \A i \in 1..Len(s) : g[i] \in Nat
  BY <1>0, SumOfNat
<1> HIDE DEF f, g
<1>3. ASSUME NEW n \in Nat, n <= Len(w)
      PROVE  Total(f, 1..n) \in Nat /\ Total(g, 1..(m + n)) \in Nat
  <2>1. m + n \in Nat /\ \A i \in 1..(m + n) : g[i] \in Nat
    BY <1>0, <1>2, <1>3
  <2>2. \A i \in 1..n : f[i] \in Nat
    BY <1>0, <1>1, <1>3
  <2> QED
    BY <2>1, <2>2, TotalUpTo
<1>4. 0 \in P
  <2>1. Total(f, 1..0) = 0
    BY TotalEmpty
  <2> QED
    BY <1>0, <1>3, <2>1
<1>5. ASSUME NEW n \in Nat, n \in P PROVE n + 1 \in P
  <2> SUFFICES ASSUME n + 1 <= Len(w) PROVE Total(f, 1..(n + 1)) <= Total(g, 1..(m + (n + 1)))
    OBVIOUS
  <2> DEFINE k == m + n
  <2>1. k \in Nat /\ m + (n + 1) = k + 1 /\ k + 1 <= Len(s)
    BY <1>0
  <2>2. f[n + 1] = g[m + (n + 1)] /\ f[n + 1] \in Nat
    BY <1>0, <1>1, SMTT(30)
  <2>3. Total(f, 1..(n + 1)) = Total(f, 1..n) + f[n + 1]
    <3>1. \A i \in 1..n : f[i] \in Nat
      BY <1>0, <1>1
    <3> QED
      BY <2>2, <3>1, TotalUpTo
  <2>4. Total(g, 1..(k + 1)) = Total(g, 1..k) + g[k + 1]
    <3>1. (\A i \in 1..k : g[i] \in Nat) /\ g[k + 1] \in Nat
      BY <1>0, <1>2, <2>1
    <3> QED
      BY <2>1, <3>1, TotalUpTo
  <2>5. Total(f, 1..n) \in Nat /\ Total(g, 1..k) \in Nat /\ Total(f, 1..n) <= Total(g, 1..k)
    <3>1. n <= Len(w)
      BY <1>0
    <3> QED
      BY <1>3, <1>5, <3>1
  <2> QED
    BY <2>1, <2>2, <2>3, <2>4, <2>5
<1>6. \A n \in Nat : n \in P => n + 1 \in P
  BY <1>5
<1> DEFINE l == Len(w)
<1>7. l \in P
  <2> HIDE DEF P, l
  <2>1. l \in Nat
    BY <1>0 DEF l
  <2> QED
    BY <1>4, <1>6, <2>1, SetInduction
<1>8. Total(g, 1..(m + l)) <= Total(g, 1..Len(s))
  <2>1. IsFiniteSet(1..Len(s)) /\ 1..(m + l) \in SUBSET (1..Len(s))
    <3>1. IsFiniteSet(1..Len(s))
      BY <1>0, FS_Interval
    <3> QED
      BY <1>0, <3>1
  <2> QED
    BY <1>2, <2>1, TotalSubset
<1>9. Total(f, 1..l) \in Nat /\ Total(g, 1..(m + l)) \in Nat /\ Total(g, 1..Len(s)) \in Nat
  <2>1. Total(f, 1..l) \in Nat /\ Total(g, 1..(m + l)) \in Nat
    BY <1>0, <1>3
  <2>2. Total(g, 1..Len(s)) \in Nat
    BY <1>0, <1>2, TotalUpTo
  <2> QED
    BY <2>1, <2>2
<1> QED
  BY <1>0, <1>7, <1>8, <1>9 DEF SumOf, f, g
-----------------------------------------------------------------------------
(* The aggregation of a report.                                            *)

\* One row of a report.
BucketType == [op : Operations, count : Nat, spent : Nat]

\* The first n events of s that name op.
Among(s, n, op) == {i \in 1..n : s[i].op = op}

\* The amounts of the buckets.
SpentOf(b) == [i \in DOMAIN b |-> b[i].spent]

\* The loop invariant of the aggregation: b is right about the first n events.
Tallied(s, n, b) ==
  /\ b \in Seq(BucketType)
  /\ \A op \in Operations : Among(s, n, op) # {} <=> \E i \in DOMAIN b : b[i].op = op
  /\ \A i \in DOMAIN b : /\ b[i].count = Cardinality(Among(s, n, b[i].op))
                         /\ b[i].spent = Total(CostsOf(s), Among(s, n, b[i].op))
  /\ \A i, j \in DOMAIN b : i < j =>
       \E k \in Among(s, n, b[i].op) : \A l \in Among(s, n, b[j].op) : k < l
  /\ Total(SpentOf(b), DOMAIN b) = Total(CostsOf(s), 1..n)

\* One more event is among those of its operation, and of no other.
LEMMA AmongNext ==
  ASSUME NEW s \in Seq(Recorded), NEW n \in Nat, n < Len(s), NEW op \in Operations
  PROVE  LET a == Among(s, n, op)
             b == Among(s, n + 1, op) IN
         /\ IsFiniteSet(a) /\ a \in SUBSET (1..n) /\ Cardinality(a) \in Nat
         /\ Total(CostsOf(s), a) \in Nat
         /\ s[n + 1].op # op => b = a
         /\ s[n + 1].op = op => /\ b = a \cup {n + 1}
                                /\ Cardinality(b) = Cardinality(a) + 1
                                /\ Total(CostsOf(s), b) = Total(CostsOf(s), a) + s[n + 1].cost
<1> DEFINE a == Among(s, n, op)
           b == Among(s, n + 1, op)
           m == n + 1
           f == CostsOf(s)
<1>1. IsFiniteSet(a)
  <2>1. IsFiniteSet(1..n) /\ a \in SUBSET (1..n)
    BY FS_Interval DEF Among
  <2> QED
    BY <2>1, FS_Subset
<1>2. a \in SUBSET (1..n) /\ m \notin a
  BY DEF Among
<1>3. \A i \in a \cup {m} : f[i] \in Nat
  <2>1. \A i \in 1..Len(s) : f[i] \in Nat
    BY SumOfNat
  <2>2. a \cup {m} \in SUBSET (1..Len(s))
    BY <1>2
  <2> QED
    BY <2>1, <2>2
<1>4. f[m] = s[m].cost
  BY DEF CostsOf
<1>5. s[m].op # op => b = a
  BY DEF Among
<1>6. s[m].op = op => b = a \cup {m}
  BY DEF Among
<1> HIDE DEF a, b, m, f
<1>7. Cardinality(a) \in Nat /\ Total(f, a) \in Nat
  BY <1>1, <1>3, FS_CardinalityType, TotalNat
<1>8. Cardinality(a \cup {m}) = Cardinality(a) + 1
  BY <1>1, <1>2, FS_AddElement
<1>9. Total(f, a \cup {m}) = Total(f, a) + f[m]
  BY <1>1, <1>2, <1>3, TotalAdd
<1> QED
  BY <1>1, <1>2, <1>4, <1>5, <1>6, <1>7, <1>8, <1>9 DEF a, b, m, f

\* No operation has two buckets.
LEMMA OneBucket ==
  ASSUME NEW s, NEW n \in Nat, NEW b, Tallied(s, n, b),
         NEW i \in DOMAIN b, NEW j \in DOMAIN b, b[i].op = b[j].op
  PROVE  i = j
<1>1. i \in Nat /\ j \in Nat
  BY DEF Tallied
<1>2. ASSUME NEW x \in DOMAIN b, NEW y \in DOMAIN b, x < y, b[x].op = b[y].op PROVE FALSE
  <2>1. PICK k \in Among(s, n, b[x].op) : \A l \in Among(s, n, b[y].op) : k < l
    BY <1>2 DEF Tallied
  <2>2. k < k /\ k \in Nat
    BY <1>2, <2>1 DEF Among
  <2> QED
    BY <2>2
<1> QED
  BY <1>1, <1>2

\* The event goes into the bucket that its operation has.
LEMMA TallyOld ==
  ASSUME NEW s \in Seq(Recorded), NEW n \in Nat, n < Len(s), NEW b, Tallied(s, n, b),
         NEW x \in DOMAIN b, b[x].op = s[n + 1].op
  PROVE  Tallied(s, n + 1, Tally(b, s[n + 1]))
<1> DEFINE e == s[n + 1]
           c == Tally(b, e)
<1>1. e.cost \in Nat
  <2>1. e \in Recorded
    OBVIOUS
  <2> QED
    BY <2>1 DEF Recorded
<1>2. b \in Seq(BucketType) /\ DOMAIN b = 1..Len(b) /\ Len(b) \in Nat
  BY DEF Tallied
<1>3. \A i \in DOMAIN b : b[i].op = e.op <=> i = x
  BY OneBucket
<1>4. c = [i \in DOMAIN b |-> IF i = x THEN [b[i] EXCEPT !.count = @ + 1, !.spent = @ + e.cost]
                                       ELSE b[i]]
  BY <1>3 DEF Tally, InBucket
<1> HIDE DEF c
<1>5. /\ c \in Seq(BucketType) /\ DOMAIN c = DOMAIN b
      /\ \A i \in DOMAIN b : /\ c[i].op = b[i].op /\ b[i].op \in Operations
                             /\ i # x => c[i] = b[i]
      /\ c[x].count = b[x].count + 1 /\ c[x].spent = b[x].spent + e.cost
  <2>1. \A i \in DOMAIN b : b[i] \in BucketType
    BY <1>2
  <2>2. [b[x] EXCEPT !.count = @ + 1, !.spent = @ + e.cost] \in BucketType
    <3>1. b[x].count + 1 \in Nat /\ b[x].spent + e.cost \in Nat
      BY <1>1, <2>1 DEF BucketType
    <3> QED
      BY <2>1, <3>1 DEF BucketType
  <2>3. c \in Seq(BucketType) /\ DOMAIN c = DOMAIN b
    <3>1. c \in [1..Len(b) -> BucketType]
      BY <1>2, <1>4, <2>1, <2>2
    <3> QED
      BY <1>2, <3>1
  <2> QED
    BY <1>4, <2>1, <2>3 DEF BucketType
<1>6. \A op \in Operations : Among(s, n + 1, op) # {} <=> \E i \in DOMAIN c : c[i].op = op
  <2>1. ASSUME NEW op \in Operations
        PROVE  Among(s, n + 1, op) # {} <=> Among(s, n, op) # {} \/ op = e.op
    <3>1. CASE op = e.op
      <4>1. Among(s, n + 1, op) = Among(s, n, op) \cup {n + 1}
        BY <3>1, AmongNext
      <4> QED
        BY <3>1, <4>1
    <3>2. CASE op # e.op
      BY <3>2, AmongNext
    <3> QED
      BY <3>1, <3>2
  <2> QED
    BY <1>5, <2>1 DEF Tallied
<1>7. \A i \in DOMAIN c : /\ c[i].count = Cardinality(Among(s, n + 1, c[i].op))
                          /\ c[i].spent = Total(CostsOf(s), Among(s, n + 1, c[i].op))
  <2>1. ASSUME NEW i \in DOMAIN b, i # x
        PROVE  Among(s, n + 1, b[i].op) = Among(s, n, b[i].op)
    BY <1>3, <1>5, <2>1, AmongNext
  <2>2. /\ Cardinality(Among(s, n + 1, e.op)) = Cardinality(Among(s, n, e.op)) + 1
        /\ Total(CostsOf(s), Among(s, n + 1, e.op)) = Total(CostsOf(s), Among(s, n, e.op)) + e.cost
    BY <1>5, AmongNext
  <2> QED
    BY <1>5, <2>1, <2>2 DEF Tallied
<1>8. \A i, j \in DOMAIN c : i < j =>
        \E k \in Among(s, n + 1, c[i].op) : \A l \in Among(s, n + 1, c[j].op) : k < l
  <2> SUFFICES ASSUME NEW i \in DOMAIN b, NEW j \in DOMAIN b, i < j
               PROVE  \E k \in Among(s, n + 1, b[i].op) : \A l \in Among(s, n + 1, b[j].op) : k < l
    BY <1>5
  <2>1. PICK k \in Among(s, n, b[i].op) : \A l \in Among(s, n, b[j].op) : k < l
    BY DEF Tallied
  <2>2. k \in 1..n /\ k \in Among(s, n + 1, b[i].op)
    BY <2>1 DEF Among
  <2>3. \A l \in Among(s, n + 1, b[j].op) : l \in Among(s, n, b[j].op) \/ l = n + 1
    BY DEF Among
  <2>4. ASSUME NEW l \in Among(s, n + 1, b[j].op) PROVE k < l
    <3>1. CASE l \in Among(s, n, b[j].op)
      BY <2>1, <3>1
    <3>2. CASE l = n + 1
      BY <2>2, <3>2
    <3> QED
      BY <2>3, <3>1, <3>2
  <2> QED
    BY <2>2, <2>4
<1>9. Total(SpentOf(c), DOMAIN c) = Total(CostsOf(s), 1..(n + 1))
  <2>1. IsFiniteSet(DOMAIN b)
    BY <1>2, SeqFinite
  <2>2. \A i \in DOMAIN b : SpentOf(b)[i] = b[i].spent /\ SpentOf(c)[i] = c[i].spent
                            /\ b[i].spent \in Nat /\ c[i].spent \in Nat
    <3>1. \A i \in DOMAIN b : b[i] \in BucketType /\ c[i] \in BucketType
      BY <1>2, <1>5
    <3> QED
      BY <1>5, <3>1 DEF SpentOf, BucketType
  <2>3. \A i \in DOMAIN b : SpentOf(b)[i] \in Nat /\ SpentOf(c)[i] \in Nat
    BY <2>2
  <2>4. \A i \in DOMAIN b \ {x} : SpentOf(c)[i] = SpentOf(b)[i]
    BY <1>5, <2>2
  <2>5. Total(SpentOf(c), DOMAIN b) = Total(SpentOf(b), DOMAIN b) - SpentOf(b)[x] + SpentOf(c)[x]
    BY <2>1, <2>3, <2>4, TotalChange
  <2>6. /\ Total(CostsOf(s), 1..(n + 1)) = Total(CostsOf(s), 1..n) + e.cost
        /\ Total(CostsOf(s), 1..n) \in Nat /\ e.cost \in Nat
    <3>1. \A i \in 1..(n + 1) : CostsOf(s)[i] \in Nat
      BY SumOfNat
    <3>2. CostsOf(s)[n + 1] = e.cost
      BY DEF CostsOf
    <3>3. \A i \in 1..n : CostsOf(s)[i] \in Nat
      BY <3>1
    <3>4. CostsOf(s)[n + 1] \in Nat
      BY <3>1
    <3> QED
      BY <3>2, <3>3, <3>4, TotalUpTo
  <2>7. Total(SpentOf(b), DOMAIN b) = Total(CostsOf(s), 1..n)
    BY DEF Tallied
  <2> QED
    BY <1>5, <2>2, <2>5, <2>6, <2>7
<1> QED
  BY <1>5, <1>6, <1>7, <1>8, <1>9 DEF Tallied, c

\* The event is the first of its operation, and gets a bucket behind all others.
LEMMA TallyNew ==
  ASSUME NEW s \in Seq(Recorded), NEW n \in Nat, n < Len(s), NEW b, Tallied(s, n, b),
         \A i \in DOMAIN b : b[i].op # s[n + 1].op
  PROVE  Tallied(s, n + 1, Tally(b, s[n + 1]))
<1> DEFINE e == s[n + 1]
           c == Tally(b, e)
           x == Len(b) + 1
           z == [op |-> e.op, count |-> 1, spent |-> e.cost]
<1>1. e \in Recorded /\ z \in BucketType /\ e.op \in Operations /\ e.cost \in Nat
  <2>1. e \in Recorded
    OBVIOUS
  <2> QED
    BY <2>1 DEF Recorded, BucketType
<1>2. b \in Seq(BucketType) /\ DOMAIN b = 1..Len(b) /\ Len(b) \in Nat
  BY DEF Tallied
<1>3. c = Append(b, z)
  BY DEF Tally, InBucket
<1> HIDE DEF c, z
<1>4. /\ c \in Seq(BucketType) /\ DOMAIN c = DOMAIN b \cup {x} /\ x \notin DOMAIN b
      /\ c[x] = z /\ \A i \in DOMAIN b : c[i] = b[i] /\ b[i].op \in Operations
  <2>1. c \in Seq(BucketType) /\ DOMAIN c = DOMAIN b \cup {x} /\ x \notin DOMAIN b /\ c[x] = z
    BY <1>1, <1>2, <1>3
  <2>2. \A i \in DOMAIN b : b[i] \in BucketType /\ c[i] = b[i]
    BY <1>1, <1>2, <1>3
  <2> QED
    BY <2>1, <2>2 DEF BucketType
<1>5. z.op = e.op /\ z.count = 1 /\ z.spent = e.cost
  BY DEF z
<1>6. Among(s, n, e.op) = {} /\ Among(s, n + 1, e.op) = {n + 1}
  <2>1. Among(s, n, e.op) = {}
    BY <1>1 DEF Tallied
  <2>2. Among(s, n + 1, e.op) = Among(s, n, e.op) \cup {n + 1}
    BY <1>1, AmongNext
  <2> QED
    BY <2>1, <2>2
<1>7. \A i \in DOMAIN b : Among(s, n + 1, b[i].op) = Among(s, n, b[i].op)
  BY <1>4, AmongNext
<1>8. \A op \in Operations : Among(s, n + 1, op) # {} <=> \E i \in DOMAIN c : c[i].op = op
  <2>1. ASSUME NEW op \in Operations
        PROVE  Among(s, n + 1, op) # {} <=> Among(s, n, op) # {} \/ op = e.op
    <3>1. CASE op = e.op
      <4>1. Among(s, n + 1, op) = Among(s, n, op) \cup {n + 1}
        BY <3>1, AmongNext
      <4> QED
        BY <3>1, <4>1
    <3>2. CASE op # e.op
      BY <3>2, AmongNext
    <3> QED
      BY <3>1, <3>2
  <2> QED
    BY <1>4, <1>5, <2>1 DEF Tallied
<1>9. \A i \in DOMAIN c : /\ c[i].count = Cardinality(Among(s, n + 1, c[i].op))
                          /\ c[i].spent = Total(CostsOf(s), Among(s, n + 1, c[i].op))
  <2>1. /\ Cardinality({n + 1}) = 1
        /\ Total(CostsOf(s), {n + 1}) = e.cost
    <3>1. CostsOf(s)[n + 1] = e.cost
      BY DEF CostsOf
    <3> QED
      BY <1>1, <3>1, FS_Singleton, TotalSingleton
  <2>2. ASSUME NEW i \in DOMAIN b
        PROVE  /\ c[i].count = Cardinality(Among(s, n + 1, c[i].op))
               /\ c[i].spent = Total(CostsOf(s), Among(s, n + 1, c[i].op))
    BY <1>4, <1>7 DEF Tallied
  <2>3. /\ c[x].count = Cardinality(Among(s, n + 1, c[x].op))
        /\ c[x].spent = Total(CostsOf(s), Among(s, n + 1, c[x].op))
    BY <1>4, <1>5, <1>6, <2>1
  <2> QED
    BY <1>4, <2>2, <2>3
<1>10. \A i, j \in DOMAIN c : i < j =>
        \E k \in Among(s, n + 1, c[i].op) : \A l \in Among(s, n + 1, c[j].op) : k < l
  <2> SUFFICES ASSUME NEW i \in DOMAIN c, NEW j \in DOMAIN c, i < j
               PROVE  \E k \in Among(s, n + 1, c[i].op) : \A l \in Among(s, n + 1, c[j].op) : k < l
    OBVIOUS
  <2>1. i \in DOMAIN b
    BY <1>2, <1>4
  <2>2. CASE j \in DOMAIN b
    BY <1>4, <1>7, <2>1, <2>2 DEF Tallied
  <2>3. CASE j = x
    <3>1. Among(s, n, b[i].op) # {}
      BY <1>4, <2>1 DEF Tallied
    <3>2. PICK k \in Among(s, n, b[i].op) : TRUE
      BY <3>1
    <3>3. k < n + 1
      BY <3>2 DEF Among
    <3> QED
      BY <1>4, <1>5, <1>6, <1>7, <2>1, <2>3, <3>2, <3>3
  <2> QED
    BY <1>4, <2>2, <2>3
<1>11. Total(SpentOf(c), DOMAIN c) = Total(CostsOf(s), 1..(n + 1))
  <2>1. IsFiniteSet(DOMAIN b)
    BY <1>2, SeqFinite
  <2>2. \A i \in DOMAIN b : SpentOf(c)[i] = SpentOf(b)[i] /\ SpentOf(b)[i] \in Nat
    <3>1. \A i \in DOMAIN b : b[i] \in BucketType
      BY <1>2
    <3> QED
      BY <1>4, <3>1 DEF SpentOf, BucketType
  <2>3. SpentOf(c)[x] = e.cost
    BY <1>4, <1>5 DEF SpentOf
  <2>4. Total(SpentOf(c), DOMAIN b \cup {x}) = Total(SpentOf(c), DOMAIN b) + e.cost
    <3>1. \A i \in DOMAIN b \cup {x} : SpentOf(c)[i] \in Nat
      BY <1>1, <2>2, <2>3
    <3>2. x \notin DOMAIN b
      BY <1>4
    <3> HIDE DEF x
    <3>3. Total(SpentOf(c), DOMAIN b \cup {x}) = Total(SpentOf(c), DOMAIN b) + SpentOf(c)[x]
      BY <2>1, <3>1, <3>2, TotalAdd
    <3> QED
      BY <2>3, <3>3
  <2>5. Total(SpentOf(c), DOMAIN b) = Total(SpentOf(b), DOMAIN b)
    BY <2>2, TotalCong
  <2>6. Total(CostsOf(s), 1..(n + 1)) = Total(CostsOf(s), 1..n) + e.cost
    <3>1. \A i \in 1..(n + 1) : CostsOf(s)[i] \in Nat
      BY SumOfNat
    <3>2. CostsOf(s)[n + 1] = e.cost
      BY DEF CostsOf
    <3>3. \A i \in 1..n : CostsOf(s)[i] \in Nat
      BY <3>1
    <3> QED
      BY <1>1, <3>2, <3>3, TotalUpTo
  <2>7. Total(SpentOf(b), DOMAIN b) = Total(CostsOf(s), 1..n)
    BY DEF Tallied
  <2> QED
    BY <1>4, <2>4, <2>5, <2>6, <2>7
<1> QED
  BY <1>4, <1>8, <1>9, <1>10, <1>11 DEF Tallied, c

\* One round of the aggregation.
LEMMA TallyNext ==
  ASSUME NEW s \in Seq(Recorded), NEW n \in Nat, n < Len(s), NEW b, Tallied(s, n, b)
  PROVE  Tallied(s, n + 1, Tally(b, s[n + 1]))
BY TallyOld, TallyNew

\* Before the first round there are no buckets.
LEMMA TallyNone ==
  ASSUME NEW s \in Seq(Recorded)
  PROVE  Tallied(s, 0, <<>>)
<1>1. 1..0 = {} /\ DOMAIN <<>> = {} /\ <<>> \in Seq(BucketType)
  OBVIOUS
<1>2. \A op : Among(s, 0, op) = {}
  BY DEF Among
<1>3. Total(SpentOf(<<>>), {}) = 0 /\ Total(CostsOf(s), {}) = 0
  BY TotalEmpty
<1> QED
  BY <1>1, <1>2, <1>3 DEF Tallied

\* b is the results of the first n rounds of the aggregation of s.
Rounds(s, n, b) ==
  b = [i \in 0..n |-> IF i = 0 THEN <<>> ELSE Tally(b[i - 1], s[i])]

\* The recursion of Buckets has a solution.
LEMMA RoundsExist ==
  ASSUME NEW s, NEW n \in Nat
  PROVE  \E b : Rounds(s, n, b)
<1> DEFINE Has(m) == \E b : Rounds(s, m, b)
           P == {m \in Nat : Has(m)}
<1>1. Has(0)
  <2> DEFINE b == [i \in 0..0 |-> <<>>]
  <2>1. b = [i \in 0..0 |-> IF i = 0 THEN <<>> ELSE Tally(b[i - 1], s[i])]
    OBVIOUS
  <2> QED
    BY <2>1 DEF Rounds
<1>2. ASSUME NEW m \in Nat, Has(m) PROVE Has(m + 1)
  <2>1. PICK b : Rounds(s, m, b)
    BY <1>2
  <2> DEFINE c == [i \in 0..(m + 1) |-> IF i <= m THEN b[i] ELSE Tally(b[m], s[m + 1])]
  <2>2. \A i \in 0..m : b[i] = IF i = 0 THEN <<>> ELSE Tally(b[i - 1], s[i])
    BY <2>1 DEF Rounds
  <2>3. ASSUME NEW i \in 0..(m + 1)
        PROVE  c[i] = IF i = 0 THEN <<>> ELSE Tally(c[i - 1], s[i])
    <3>1. CASE i = 0
      BY <2>2, <3>1
    <3>2. CASE i \in 1..m
      <4>1. c[i] = b[i] /\ c[i - 1] = b[i - 1] /\ i # 0
        BY <3>2
      <4>2. b[i] = Tally(b[i - 1], s[i])
        BY <2>2, <3>2
      <4> QED
        BY <4>1, <4>2
    <3>3. CASE i = m + 1
      <4>1. c[i] = Tally(b[m], s[i]) /\ c[i - 1] = b[m] /\ i # 0
        BY <3>3
      <4> QED
        BY <4>1
    <3> QED
      BY <3>1, <3>2, <3>3
  <2>4. c = [i \in 0..(m + 1) |-> c[i]]
    OBVIOUS
  <2> HIDE DEF c
  <2>5. Rounds(s, m + 1, c)
    BY <2>3, <2>4 DEF Rounds
  <2> QED
    BY <2>5
<1> HIDE DEF Has
<1>3. 0 \in P /\ \A m \in Nat : m \in P => m + 1 \in P
  BY <1>1, <1>2
<1>4. n \in P
  <2> HIDE DEF P
  <2> QED
    BY <1>3, SetInduction
<1> QED
  BY <1>4 DEF Has

\* What the aggregation computes for any entries.
LEMMA BucketsTallied ==
  ASSUME NEW s \in Seq(Recorded)
  PROVE  Tallied(s, Len(s), Buckets(s))
<1> DEFINE b == CHOOSE r : Rounds(s, Len(s), r)
           P == {n \in Nat : n <= Len(s) => Tallied(s, n, b[n])}
<1>1. Len(s) \in Nat
  OBVIOUS
<1>2. Rounds(s, Len(s), b)
  BY <1>1, RoundsExist
<1>3. Buckets(s) = b[Len(s)]
  BY Zenon DEF Buckets, Rounds
<1> HIDE DEF b
<1>4. \A n \in 0..Len(s) : b[n] = IF n = 0 THEN <<>> ELSE Tally(b[n - 1], s[n])
  BY <1>2 DEF Rounds
<1>5. 0 \in P
  BY <1>1, <1>4, TallyNone
<1>6. ASSUME NEW n \in Nat, n \in P PROVE n + 1 \in P
  <2> SUFFICES ASSUME n < Len(s) PROVE Tallied(s, n + 1, b[n + 1])
    BY <1>1
  <2>1. b[n + 1] = Tally(b[n], s[n + 1])
    BY <1>1, <1>4
  <2>2. Tallied(s, n, b[n])
    BY <1>1, <1>6
  <2> QED
    BY <2>1, <2>2, TallyNext
<1> DEFINE l == Len(s)
<1>7. l \in P
  <2> HIDE DEF P, l
  <2> QED
    BY <1>1, <1>5, <1>6, SetInduction DEF l
<1> QED
  BY <1>3, <1>7

\* The buckets of any entries are exact.
LEMMA BucketsExact ==
  ASSUME NEW s \in Seq(Recorded), NEW b, b = Buckets(s),
         NEW costs, costs = [i \in DOMAIN s |-> s[i].cost]
  PROVE  /\ \A op \in Operations : At(op, s) # {} <=> At(op, b) # {}
         /\ \A i \in DOMAIN b : /\ b[i].count = Cardinality(At(b[i].op, s))
                                /\ b[i].spent = Total(costs, At(b[i].op, s))
         /\ \A i, j \in DOMAIN b : i < j =>
              \E k \in At(b[i].op, s) : \A l \in At(b[j].op, s) : k < l
<1>1. Tallied(s, Len(s), b)
  BY BucketsTallied
<1>2. \A op : At(op, s) = Among(s, Len(s), op)
  BY DEF At, Among
<1>3. \A op : At(op, b) # {} <=> \E i \in DOMAIN b : b[i].op = op
  BY DEF At
<1>4. costs = CostsOf(s)
  BY DEF CostsOf
<1>5. \A op \in Operations : At(op, s) # {} <=> At(op, b) # {}
  BY <1>1, <1>2, <1>3, Zenon DEF Tallied
<1>6. \A i \in DOMAIN b : /\ b[i].count = Cardinality(At(b[i].op, s))
                          /\ b[i].spent = Total(costs, At(b[i].op, s))
  BY <1>1, <1>2, <1>4, Zenon DEF Tallied
<1>7. \A i, j \in DOMAIN b : i < j =>
        \E k \in At(b[i].op, s) : \A l \in At(b[j].op, s) : k < l
  <2> SUFFICES ASSUME NEW i \in DOMAIN b, NEW j \in DOMAIN b, i < j
               PROVE  \E k \in At(b[i].op, s) : \A l \in At(b[j].op, s) : k < l
    OBVIOUS
  <2>1. PICK k \in Among(s, Len(s), b[i].op) : \A l \in Among(s, Len(s), b[j].op) : k < l
    BY <1>1 DEF Tallied
  <2>2. k \in At(b[i].op, s) /\ At(b[j].op, s) = Among(s, Len(s), b[j].op)
    BY <1>2, Zenon
  <2> QED
    BY <2>1, <2>2, Zenon
<1> QED
  BY <1>5, <1>6, <1>7, Zenon

\* They add up to what the entries cost.
LEMMA BucketsSum ==
  ASSUME NEW s \in Seq(Recorded)
  PROVE  Total(SpentOf(Buckets(s)), DOMAIN Buckets(s)) = SumOf(s)
BY BucketsTallied, SumOfNat DEF Tallied, SumOf
-----------------------------------------------------------------------------
(* The books of the counters, the trail and the readers.                   *)

\* The threads whose action is at a.
In(a) == {t \in Threads : act[t] = a}

\* What each thread reserves, and what the event it is recording costs.
Estimates == [t \in Threads |-> Estimate]
EventCosts == [t \in Threads |-> event[t].cost]

\* What the events cost that are in the trail or on their way into it.
OnTrail == SumOf(trail) + Total(EventCosts, Recording)

\* What a reader can have read, and what its buckets add up to.
Views == [buckets : Seq(BucketType), used : Nat, spent : Nat]
BucketSum(t) == Total(SpentOf(view[t].buckets), DOMAIN view[t].buckets)

\* Where a thread is outside the ring's code.
Places == {"none", "run", "spend", "record", "report", "loadUsed", "loadSpent", "view"}

\* Every variable of the actions has its type.
ActType ==
  /\ act \in [Threads -> Places]
  /\ \A t \in Threads : act[t] \in {"run", "spend", "record"} => t \in Guards
  /\ spent \in Nat /\ posted \in Nat
  /\ since \in [Threads -> Nat] /\ view \in [Threads -> Views]

\* used has the charges that spent will get, and the open estimates.
UsedBooked == used = Total(Estimates, In("run")) + spent + Total(ActualOf, In("spend"))

\* What was spent or posted is on the trail, or will be recorded.
TrailBooked == OnTrail + Total(ActualOf, In("record")) = spent + posted

\* What a reader has loaded so far.
ViewOf(t) ==
  /\ act[t] \notin {"loadUsed", "loadSpent", "view"} => view[t] = NoView
  /\ act[t] \notin {"loadSpent", "view"} => since[t] = 0
  /\ act[t] = "loadSpent" => spent <= view[t].used + since[t]
  /\ act[t] = "view" => view[t].spent <= view[t].used + since[t]
  /\ act[t] \in {"loadUsed", "loadSpent"} => BucketSum(t) <= spent + posted
  /\ act[t] = "view" => BucketSum(t) <= view[t].spent + posted

\* The counters, the trail and the readers agree.
Books == ActType /\ UsedBooked /\ TrailBooked /\ \A t \in Threads : ViewOf(t)

\* The inductive invariant of Report.
ReportInv == RingInv /\ Books

\* A positive cost is a natural number: costs are integers.
LEMMA PositiveCost ==
  ASSUME NEW c \in Costs, c > 0
  PROVE  c \in Nat \ {0}
BY CostsAssumption

\* A thread goes on with its action.
LEMMA InBecomes ==
  ASSUME ActType, NEW t \in Threads, NEW a, Become(t, a)
  PROVE  \A b : In(b)' = IF b = a THEN In(b) \cup {t} ELSE In(b) \ {t}
BY DEF ActType, Become, In

\* The totals of both books are natural numbers.
LEMMA BookNats ==
  ASSUME Books, RingInv
  PROVE  /\ \A b : IsFiniteSet(In(b))
         /\ \A t \in Threads : Estimates[t] \in Nat
         /\ \A b \in {"run", "spend", "record"} : \A t \in In(b) : ActualOf[t] \in Nat \ {0}
         /\ \A b : Total(Estimates, In(b)) \in Nat
         /\ \A b \in {"run", "spend", "record"} : Total(ActualOf, In(b)) \in Nat
         /\ IsFiniteSet(Recording) /\ \A t \in Recording : EventCosts[t] \in Nat
         /\ SumOf(trail) \in Nat /\ Total(EventCosts, Recording) \in Nat /\ OnTrail \in Nat
<1>1. \A b : IsFiniteSet(In(b))
  <2> TAKE b
  <2>1. In(b) \in SUBSET Threads
    BY DEF In
  <2> QED
    BY <2>1, ReportAssumption, FS_Subset
<1>2. \A t \in Threads : Estimates[t] \in Nat
  BY ReportAssumption DEF Estimates
<1>3. \A b \in {"run", "spend", "record"} : \A t \in In(b) : ActualOf[t] \in Nat \ {0}
  <2>1. \A t \in Guards : ActualOf[t] \in Nat \ {0}
    <3>1. \A t \in Guards : ActualOf[t] \in {c \in Costs : c > 0}
      BY ReportAssumption
    <3> QED
      BY <3>1, PositiveCost
  <2> QED
    BY <2>1 DEF Books, ActType, In
<1>4. \A b : Total(Estimates, In(b)) \in Nat
  <2> TAKE b
  <2>1. \A t \in In(b) : Estimates[t] \in Nat
    BY <1>2 DEF In
  <2> QED
    BY <1>1, <2>1, TotalNat
<1>5. \A b \in {"run", "spend", "record"} : Total(ActualOf, In(b)) \in Nat
  BY <1>1, <1>3, TotalNat
<1>6. IsFiniteSet(Recording) /\ \A t \in Recording : EventCosts[t] \in Nat
  <2>1. Recording \in SUBSET Threads /\ \A t \in Recording : event[t] \in Recorded
    BY DEF Recording, RingInv, RingType
  <2>2. IsFiniteSet(Recording)
    BY <2>1, ReportAssumption, FS_Subset
  <2> QED
    BY <2>1, <2>2 DEF EventCosts, Recorded
<1>7. SumOf(trail) \in Nat /\ Total(EventCosts, Recording) \in Nat
  BY <1>6, SumOfNat, TotalNat DEF RingInv, RingType
<1> QED
  BY <1>1, <1>2, <1>3, <1>4, <1>5, <1>6, <1>7 DEF OnTrail

\* Nothing changes on the trail while no event is recorded.
LEMMA TrailSame ==
  ASSUME UNCHANGED <<trail, event>>, Recording' = Recording
  PROVE  OnTrail' = OnTrail
BY DEF OnTrail, EventCosts

\* Record takes an event on its way, or refuses it.
LEMMA TrailRecordCall ==
  ASSUME RingInv, Books, NEW t \in Threads, NEW op \in Operations, NEW cost \in Costs,
         NEW c \in {Own, Other, NoCurrency}, RecordCall(t, op, cost, c)
  PROVE  OnTrail' = IF Accepted(cost, c) THEN OnTrail + cost ELSE OnTrail
<1>1. CASE Accepted(cost, c)
  <2> DEFINE e == [id |-> calls + 1, op |-> op, cost |-> cost, currency |-> Stamp(c)]
  <2>1. pc' = [pc EXCEPT ![t] = "lock"] /\ event' = [event EXCEPT ![t] = e] /\ trail' = trail
    BY <1>1 DEF RecordCall, Goto
  <2>2. Recording' = Recording \cup {t} /\ t \notin Recording
    BY <2>1 DEF RecordCall, RingInv, RingType, Recording
  <2>3. EventCosts'[t] = cost /\ \A u \in Recording : EventCosts'[u] = EventCosts[u]
    BY <2>1, <2>2 DEF EventCosts, RingInv, RingType, Recording
  <2>4. cost \in Nat
    BY <1>1, CostsAssumption DEF Accepted
  <2>5. Total(EventCosts', Recording \cup {t}) = Total(EventCosts', Recording) + cost
    <3>1. \A u \in Recording \cup {t} : EventCosts'[u] \in Nat
      BY <2>3, <2>4, BookNats
    <3>2. IsFiniteSet(Recording)
      BY BookNats
    <3> QED
      BY <2>2, <2>3, <3>1, <3>2, TotalAdd
  <2>6. Total(EventCosts', Recording) = Total(EventCosts, Recording)
    BY <2>3, TotalCong
  <2>7. SumOf(trail)' = SumOf(trail)
    BY <2>1
  <2> QED
    BY <1>1, <2>2, <2>4, <2>5, <2>6, <2>7, BookNats DEF OnTrail
<1>2. CASE ~Accepted(cost, c)
  <2>1. UNCHANGED <<trail, event, pc>>
    BY <1>2 DEF RecordCall
  <2> QED
    BY <1>2, <2>1, TrailSame DEF Recording
<1> QED
  BY <1>1, <1>2

\* An event arrives.
LEMMA TrailAdvance ==
  ASSUME RingInv, Books, NEW t \in Threads, Advance(t)
  PROVE  OnTrail' = OnTrail
<1>1. event[t] \in Recorded /\ t \in Recording /\ trail' = Append(trail, event[t])
  BY DEF Advance, RingInv, RingType, Recording
<1>2. Recording' = Recording \ {t}
  BY DEF Advance, RingInv, RingType, Recording, LetIn, Waiting
<1>3. \A u \in Recording \ {t} : EventCosts'[u] = EventCosts[u]
  BY DEF Advance, EventCosts, RingInv, RingType, Recording
<1>4. SumOf(trail)' = SumOf(trail) + event[t].cost
  BY <1>1, SumOfAppend DEF RingInv, RingType
<1>5. /\ Total(EventCosts, Recording \ {t}) = Total(EventCosts, Recording) - event[t].cost
      /\ event[t].cost \in Nat
  <2>1. EventCosts[t] = event[t].cost
    BY DEF EventCosts
  <2>2. EventCosts[t] \in Nat
    BY <1>1, BookNats
  <2> QED
    BY <1>1, <2>1, <2>2, BookNats, TotalRemove
<1>6. Total(EventCosts', Recording \ {t}) = Total(EventCosts, Recording \ {t})
  BY <1>3, TotalCong
<1> QED
  BY <1>2, <1>4, <1>5, <1>6, BookNats DEF OnTrail

\* What the buckets add up to is a natural number.
LEMMA BucketSumNat ==
  ASSUME NEW b \in Seq(BucketType)
  PROVE  Total(SpentOf(b), DOMAIN b) \in Nat
<1>1. DOMAIN b = 1..Len(b) /\ Len(b) \in Nat /\ \A i \in DOMAIN b : b[i] \in BucketType
  OBVIOUS
<1>2. IsFiniteSet(DOMAIN b)
  BY SeqFinite
<1>3. \A i \in DOMAIN b : SpentOf(b)[i] \in Nat
  BY <1>1 DEF SpentOf, BucketType
<1> QED
  BY <1>2, <1>3, TotalNat

\* A reader keeps what it has while the counters only grow.
LEMMA ViewKept ==
  ASSUME Books, NEW u \in Threads, act'[u] = act[u], view'[u] = view[u],
         posted' \in Nat, posted' >= posted,
         \/ spent' = spent /\ since'[u] = since[u]
         \/ \E a \in Nat : /\ spent' = spent + a
                           /\ since'[u] = IF act[u] = "loadSpent" THEN since[u] + a ELSE since[u]
  PROVE  ViewOf(u)'
<1>1. BucketSum(u) \in Nat /\ BucketSum(u)' = BucketSum(u)
  BY BucketSumNat DEF Books, ActType, Views, BucketSum
<1>2. view[u].used \in Nat /\ view[u].spent \in Nat /\ since[u] \in Nat /\ spent \in Nat
      /\ posted \in Nat
  BY DEF Books, ActType, Views
<1> HIDE DEF BucketSum
<1>3. ViewOf(u)
  BY DEF Books
<1>4. PICK a \in Nat : /\ spent' = spent + a
                       /\ act[u] = "loadSpent" => since'[u] = since[u] + a
                       /\ act[u] # "loadSpent" => since'[u] = since[u]
  <2>1. CASE spent' = spent /\ since'[u] = since[u]
    <3>1. spent' = spent + 0 /\ since'[u] = since[u] + 0
      BY <1>2, <2>1
    <3> QED
      BY <2>1, <3>1
  <2>2. CASE \E a \in Nat : /\ spent' = spent + a
                            /\ since'[u] = IF act[u] = "loadSpent" THEN since[u] + a ELSE since[u]
    BY <2>2
  <2> QED
    BY <2>1, <2>2
<1> QED
  BY <1>1, <1>2, <1>3, <1>4 DEF ViewOf

\* The books do not change while the ring moves an event.
LEMMA BooksRing ==
  ASSUME Books, RingInv, OnTrail' = OnTrail,
         UNCHANGED <<used, spent, act, view, since, posted>>
  PROVE  Books'
<1>1. ActType' /\ UsedBooked' /\ TrailBooked'
  BY DEF Books, ActType, UsedBooked, TrailBooked, In
<1>2. \A u \in Threads : ViewOf(u)'
  BY DEF Books, ViewOf, BucketSum
<1> QED
  BY <1>1, <1>2 DEF Books

\* cost.record adds to the trail what it adds to posted.
LEMMA BooksRecordAction ==
  ASSUME Books, RingInv, NEW t \in Threads, RecordAction(t)
  PROVE  Books'
<1>1. PICK e \in Posts :
        /\ RecordCall(t, e.op, e.cost, e.currency)
        /\ posted' = IF Accepted(e.cost, e.currency) THEN posted + e.cost ELSE posted
  BY DEF RecordAction
<1>2. UNCHANGED <<used, spent, act, view, since>>
  BY DEF RecordAction, viewVars
<1>3. e.op \in Operations /\ e.cost \in Costs /\ e.currency \in {Own, Other, NoCurrency}
  BY ReportAssumption
<1>4. OnTrail' = IF Accepted(e.cost, e.currency) THEN OnTrail + e.cost ELSE OnTrail
  BY <1>1, <1>3, TrailRecordCall
<1>5. Accepted(e.cost, e.currency) => e.cost \in Nat
  BY <1>3, PositiveCost DEF Accepted
<1>6. posted' \in Nat /\ posted' >= posted
  BY <1>1, <1>5 DEF Books, ActType
<1>7. ActType' /\ UsedBooked'
  BY <1>2, <1>6 DEF Books, ActType, UsedBooked, In
<1>8. TrailBooked'
  <2>1. In("record")' = In("record") /\ OnTrail \in Nat /\ Total(ActualOf, In("record")) \in Nat
    BY <1>2, BookNats DEF In
  <2>2. CASE Accepted(e.cost, e.currency)
    BY <1>1, <1>2, <1>4, <1>5, <2>1, <2>2 DEF Books, ActType, TrailBooked
  <2>3. CASE ~Accepted(e.cost, e.currency)
    BY <1>1, <1>2, <1>4, <2>1, <2>3 DEF Books, TrailBooked
  <2> QED
    BY <2>2, <2>3
<1>9. \A u \in Threads : ViewOf(u)'
  BY <1>2, <1>6, ViewKept
<1> QED
  BY <1>7, <1>8, <1>9 DEF Books

\* What the threads at a guarded action's step stand for, when one arrives
\* there or leaves.
LEMMA BookMoves ==
  ASSUME Books, RingInv, NEW t \in Threads, NEW o, act[t] = o, NEW a, a # o, Become(t, a)
  PROVE  /\ \A b : b \notin {a, o} => In(b)' = In(b)
         /\ Total(Estimates, In(a)') = Total(Estimates, In(a)) + Estimate
         /\ Total(Estimates, In(o)') = Total(Estimates, In(o)) - Estimate
         /\ t \in Guards /\ a \in {"run", "spend", "record"} =>
              Total(ActualOf, In(a)') = Total(ActualOf, In(a)) + ActualOf[t]
         /\ o \in {"run", "spend", "record"} =>
              Total(ActualOf, In(o)') = Total(ActualOf, In(o)) - ActualOf[t]
         /\ \A u \in Threads \ {t} : act'[u] = act[u]
         /\ act'[t] = a
<1>1. /\ \A b : b \notin {a, o} => In(b)' = In(b)
      /\ In(a)' = In(a) \cup {t} /\ t \notin In(a)
      /\ In(o)' = In(o) \ {t} /\ t \in In(o)
  <2>1. \A b : In(b)' = IF b = a THEN In(b) \cup {t} ELSE In(b) \ {t}
    BY InBecomes DEF Books
  <2>2. \A b : t \in In(b) <=> b = o
    BY DEF In
  <2> QED
    BY <2>1, <2>2
<1>2. (\A u \in Threads \ {t} : act'[u] = act[u]) /\ act'[t] = a
  BY DEF Become, Books, ActType
<1>3. IsFiniteSet(In(a)) /\ IsFiniteSet(In(o))
  BY BookNats
<1>4. /\ Total(Estimates, In(a) \cup {t}) = Total(Estimates, In(a)) + Estimate
      /\ Total(Estimates, In(o) \ {t}) = Total(Estimates, In(o)) - Estimate
  <2>1. Estimates[t] = Estimate /\ \A u \in Threads : Estimates[u] \in Nat
    BY BookNats DEF Estimates
  <2>2. (\A u \in In(a) \cup {t} : Estimates[u] \in Nat) /\ (\A u \in In(o) : Estimates[u] \in Nat)
    BY <2>1 DEF In
  <2> QED
    BY <1>1, <1>3, <2>1, <2>2, TotalAdd, TotalRemove
<1>5. ASSUME t \in Guards, a \in {"run", "spend", "record"}
      PROVE  Total(ActualOf, In(a) \cup {t}) = Total(ActualOf, In(a)) + ActualOf[t]
  <2>1. \A u \in In(a) \cup {t} : ActualOf[u] \in Nat
    <3>1. \A u \in In(a) : ActualOf[u] \in Nat
      BY <1>5, BookNats
    <3>2. ActualOf[t] \in {c \in Costs : c > 0}
      BY <1>5, ReportAssumption
    <3> QED
      BY <3>1, <3>2, PositiveCost
  <2> QED
    BY <1>1, <1>3, <2>1, TotalAdd
<1>6. ASSUME o \in {"run", "spend", "record"}
      PROVE  Total(ActualOf, In(o) \ {t}) = Total(ActualOf, In(o)) - ActualOf[t]
  <2>1. \A u \in In(o) : ActualOf[u] \in Nat
    BY <1>6, BookNats
  <2> QED
    BY <1>1, <1>3, <2>1, TotalRemove
<1> QED
  BY <1>1, <1>2, <1>4, <1>5, <1>6

\* used is never below spent, since a commit moves used first.
LEMMA UsedNat ==
  ASSUME Books, RingInv
  PROVE  used \in Nat /\ spent <= used
<1>1. Total(Estimates, In("run")) \in Nat /\ Total(ActualOf, In("spend")) \in Nat
  BY BookNats
<1> QED
  BY <1>1 DEF Books, ActType, UsedBooked

\* While no event is recorded, a step of an action leaves the trail alone.
LEMMA TrailStill ==
  ASSUME UNCHANGED ringVars
  PROVE  OnTrail' = OnTrail
BY TrailSame DEF ringVars, Recording

\* The views of the other threads, when only t's changes and nothing is spent.
LEMMA OtherViews ==
  ASSUME Books, RingInv, NEW t \in Threads, \A u \in Threads \ {t} : act'[u] = act[u],
         \A u \in Threads \ {t} : view'[u] = view[u] /\ since'[u] = since[u],
         UNCHANGED <<spent, posted>>
  PROVE  \A u \in Threads \ {t} : ViewOf(u)'
BY ViewKept DEF Books, ActType

\* A reservation opens an estimate.
LEMMA BooksGuardReserve ==
  ASSUME Books, RingInv, NEW t \in Threads, GuardReserve(t), UNCHANGED posted
  PROVE  Books'
<1> USE DEF GuardReserve, Ready, viewVars
<1>1. act[t] = "none" /\ Become(t, "run")
  OBVIOUS
<1>2. /\ Total(Estimates, In("run")') = Total(Estimates, In("run")) + Estimate
      /\ In("spend")' = In("spend") /\ In("record")' = In("record")
      /\ (\A u \in Threads \ {t} : act'[u] = act[u]) /\ act'[t] = "run"
  BY <1>1, BookMoves
<1>3. ActType'
  BY <1>1 DEF Books, ActType, Places, Become
<1>4. UsedBooked'
  <2>1. Total(Estimates, In("run")) \in Nat /\ Total(ActualOf, In("spend")) \in Nat
    BY BookNats
  <2> QED
    BY <1>2, <2>1, ReportAssumption DEF Books, ActType, UsedBooked, Estimates
<1>5. TrailBooked'
  BY <1>2, TrailStill DEF Books, TrailBooked
<1>6. \A u \in Threads : ViewOf(u)'
  <2>1. ViewOf(t)'
    BY <1>1, <1>2 DEF Books, ViewOf
  <2> QED
    BY <1>2, <2>1, OtherViews
<1> QED
  BY <1>3, <1>4, <1>5, <1>6 DEF Books

\* A release closes it.
LEMMA BooksGuardRelease ==
  ASSUME Books, RingInv, NEW t \in Threads, GuardRelease(t), UNCHANGED posted
  PROVE  Books'
<1> USE DEF GuardRelease, viewVars
<1>1. act[t] = "run" /\ Become(t, "none")
  OBVIOUS
<1>2. /\ Total(Estimates, In("run")') = Total(Estimates, In("run")) - Estimate
      /\ In("spend")' = In("spend") /\ In("record")' = In("record")
      /\ (\A u \in Threads \ {t} : act'[u] = act[u]) /\ act'[t] = "none"
  BY <1>1, BookMoves
<1>3. ActType'
  BY <1>1 DEF Books, ActType, Places, Become
<1>4. UsedBooked'
  <2>1. Total(Estimates, In("run")) \in Nat /\ Total(ActualOf, In("spend")) \in Nat
    BY BookNats
  <2> QED
    BY <1>2, <2>1, ReportAssumption DEF Books, ActType, UsedBooked, Estimates
<1>5. TrailBooked'
  BY <1>2, TrailStill DEF Books, TrailBooked
<1>6. \A u \in Threads : ViewOf(u)'
  <2>1. ViewOf(t)'
    BY <1>1, <1>2 DEF Books, ViewOf
  <2> QED
    BY <1>2, <2>1, OtherViews
<1> QED
  BY <1>3, <1>4, <1>5, <1>6 DEF Books

\* The first addition of a commit turns the estimate into the charge that
\* spent still lacks.
LEMMA BooksCommitUsed ==
  ASSUME Books, RingInv, NEW t \in Threads, CommitUsed(t), UNCHANGED posted
  PROVE  Books'
<1> USE DEF CommitUsed, viewVars
<1>1. act[t] = "run" /\ Become(t, "spend") /\ t \in Guards
  BY DEF AfterUsed, Books, ActType
<1>2. /\ Total(Estimates, In("run")') = Total(Estimates, In("run")) - Estimate
      /\ Total(ActualOf, In("spend")') = Total(ActualOf, In("spend")) + ActualOf[t]
      /\ In("record")' = In("record")
      /\ (\A u \in Threads \ {t} : act'[u] = act[u]) /\ act'[t] = "spend"
  BY <1>1, BookMoves
<1>3. ActType'
  BY <1>1 DEF Books, ActType, Places, Become
<1>4. UsedBooked'
  <2>1. Total(Estimates, In("run")) \in Nat /\ Total(ActualOf, In("spend")) \in Nat
    BY BookNats
  <2>2. ActualOf[t] \in Nat
    BY <1>1, BookNats DEF In
  <2> QED
    BY <1>2, <2>1, <2>2, ReportAssumption DEF Books, ActType, UsedBooked, Estimates, Adjustment
<1>5. TrailBooked'
  BY <1>2, TrailStill DEF Books, TrailBooked
<1>6. \A u \in Threads : ViewOf(u)'
  <2>1. ViewOf(t)'
    BY <1>1, <1>2 DEF Books, ViewOf
  <2> QED
    BY <1>2, <2>1, OtherViews
<1> QED
  BY <1>3, <1>4, <1>5, <1>6 DEF Books

\* The second one makes the charge an event that is owed to the trail.
LEMMA BooksCommitSpent ==
  ASSUME Books, RingInv, NEW t \in Threads, CommitSpent(t), UNCHANGED posted
  PROVE  Books'
<1> USE DEF CommitSpent
<1>1. act[t] = "spend" /\ Become(t, "record") /\ t \in Guards
  BY DEF Books, ActType
<1>2. /\ In("run")' = In("run")
      /\ Total(ActualOf, In("spend")') = Total(ActualOf, In("spend")) - ActualOf[t]
      /\ Total(ActualOf, In("record")') = Total(ActualOf, In("record")) + ActualOf[t]
      /\ (\A u \in Threads \ {t} : act'[u] = act[u]) /\ act'[t] = "record"
  BY <1>1, BookMoves
<1>3. ActualOf[t] \in Nat
  BY <1>1, BookNats DEF In
<1>4. ActType'
  BY <1>1, <1>3 DEF Books, ActType, Places, Become
<1>5. /\ Total(Estimates, In("run")) \in Nat /\ Total(ActualOf, In("spend")) \in Nat
      /\ Total(ActualOf, In("record")) \in Nat /\ OnTrail \in Nat
  BY BookNats
<1>6. UsedBooked'
  BY <1>2, <1>3, <1>5 DEF Books, ActType, UsedBooked, Estimates
<1>7. TrailBooked'
  BY <1>2, <1>3, <1>5, TrailStill DEF Books, ActType, TrailBooked
<1>8. \A u \in Threads : ViewOf(u)'
  <2>1. ViewOf(t)'
    BY <1>1, <1>2 DEF Books, ActType, ViewOf
  <2>2. ASSUME NEW u \in Threads \ {t} PROVE ViewOf(u)'
    BY <1>2, <1>3, <2>2, ViewKept DEF Books, ActType
  <2> QED
    BY <2>1, <2>2
<1> QED
  BY <1>4, <1>6, <1>7, <1>8 DEF Books

\* Record takes the event: it has a positive cost and the ledger's currency.
LEMMA BooksGuardRecord ==
  ASSUME Books, RingInv, NEW t \in Threads, GuardRecord(t), UNCHANGED posted
  PROVE  Books'
<1> USE DEF GuardRecord, viewVars
<1>1. act[t] = "record" /\ Become(t, "none") /\ t \in Guards
  BY DEF Books, ActType
<1>2. /\ In("run")' = In("run") /\ In("spend")' = In("spend")
      /\ Total(ActualOf, In("record")') = Total(ActualOf, In("record")) - ActualOf[t]
      /\ (\A u \in Threads \ {t} : act'[u] = act[u]) /\ act'[t] = "none"
  BY <1>1, BookMoves
<1>3. ActType'
  BY <1>1 DEF Books, ActType, Places, Become
<1>4. UsedBooked'
  BY <1>2 DEF Books, UsedBooked, Estimates
<1>5. TrailBooked'
  <2>1. ActualOf[t] \in Costs /\ ActualOf[t] > 0 /\ OpOf[t] \in Operations
    BY <1>1, ReportAssumption
  <2>2. Accepted(ActualOf[t], NoCurrency)
    BY <2>1, CurrenciesAssumption DEF Accepted, Stamp
  <2>3. OnTrail' = OnTrail + ActualOf[t]
    BY <2>1, <2>2, TrailRecordCall
  <2>4. ActualOf[t] \in Nat /\ OnTrail \in Nat /\ Total(ActualOf, In("record")) \in Nat
    BY <2>1, PositiveCost, BookNats
  <2> QED
    BY <1>2, <2>3, <2>4 DEF Books, ActType, TrailBooked
<1>6. \A u \in Threads : ViewOf(u)'
  <2>1. ViewOf(t)'
    BY <1>1, <1>2 DEF Books, ViewOf
  <2> QED
    BY <1>2, <2>1, OtherViews
<1> QED
  BY <1>3, <1>4, <1>5, <1>6 DEF Books

\* The actions of readers, and the step of t to one of them.
Reading == {"none", "report", "loadUsed", "loadSpent", "view"}
ReadOn(t, a) ==
  /\ act' \in [Threads -> Places]
  /\ \A u \in Threads : act'[u] \in {"run", "spend", "record"} => u \in Guards
  /\ UsedBooked' /\ TrailBooked'
  /\ (\A u \in Threads \ {t} : act'[u] = act[u]) /\ act'[t] = a

\* The steps of a reader leave both books alone.
LEMMA BooksReader ==
  ASSUME Books, RingInv, NEW t \in Threads, NEW a \in Reading,
         act[t] \in Reading, act[t] # a, Become(t, a),
         UNCHANGED <<used, spent, posted>>, OnTrail' = OnTrail
  PROVE  ReadOn(t, a)
<1> USE DEF Reading, Places
<1>1. PICK o : act[t] = o
  OBVIOUS
<1>2. /\ \A b : b \notin {a, o} => In(b)' = In(b)
      /\ (\A u \in Threads \ {t} : act'[u] = act[u]) /\ act'[t] = a
  BY <1>1, BookMoves
<1>3. In("run")' = In("run") /\ In("spend")' = In("spend") /\ In("record")' = In("record")
  BY <1>1, <1>2
<1>4. UsedBooked' /\ TrailBooked'
  BY <1>3 DEF Books, UsedBooked, TrailBooked, Estimates
<1> QED
  BY <1>2, <1>4 DEF Books, ActType, Become, ReadOn

\* A report begins.
LEMMA BooksReportCall ==
  ASSUME Books, RingInv, NEW t \in Threads, ReportCall(t), UNCHANGED posted
  PROVE  Books'
<1> USE DEF ReportCall, Ready, viewVars, Reading, Places, ReadOn
<1>1. act[t] = "none" /\ Become(t, "report")
  OBVIOUS
<1>2. OnTrail' = OnTrail
  BY TrailSame DEF EntriesCall, Goto, RingInv, RingType, Recording
<1>3. ReadOn(t, "report")
  BY <1>1, <1>2, BooksReader
<1>4. ViewOf(t)'
  BY <1>1, <1>3 DEF Books, ViewOf
<1> QED
  BY <1>3, <1>4, OtherViews DEF Books, ActType

\* Its buckets are a part of the trail, which is covered by what was spent
\* and posted before.
LEMMA BooksReportBuckets ==
  ASSUME Books, RingInv, NEW t \in Threads, ReportBuckets(t), UNCHANGED posted
  PROVE  Books'
<1> USE DEF ReportBuckets, Reading, Places, ReadOn
<1>1. act[t] = "report" /\ Become(t, "loadUsed")
  OBVIOUS
<1>2. OnTrail' = OnTrail
  BY TrailSame DEF Finish, Goto, RingInv, RingType, Recording
<1>3. ReadOn(t, "loadUsed")
  BY <1>1, <1>2, BooksReader
<1> DEFINE b == Buckets(out[t])
<1>4. out[t] \in Seq(Recorded) /\ b \in Seq(BucketType)
  <2>1. out[t] \in Seq(Recorded)
    BY DEF RingInv, RingType
  <2> QED
    BY <2>1, BucketsTallied DEF Tallied
<1>5. Total(SpentOf(b), DOMAIN b) <= spent + posted
  <2>1. /\ trail \in Seq(Recorded) /\ head = Len(trail) /\ head - Count \in Nat
        /\ Len(out[t]) <= Count /\ Count \in Nat /\ head \in Nat
        /\ \A i \in 1..Len(out[t]) : out[t][i] = trail[head - Count + i]
    BY CountRange DEF Finish, RingInv, RingType, RingCopies, CopyOf
  <2>2. head - Count + Len(out[t]) <= Len(trail)
    BY <1>4, <2>1
  <2> DEFINE m == head - Count
  <2>3. SumOf(out[t]) <= SumOf(trail)
    <3> HIDE DEF m
    <3>1. /\ m \in Nat /\ m + Len(out[t]) <= Len(trail)
          /\ \A i \in 1..Len(out[t]) : out[t][i] = trail[m + i]
      BY <2>1, <2>2 DEF m
    <3> QED
      BY <1>4, <2>1, <3>1, SumOfWindow
  <2>4. Total(SpentOf(b), DOMAIN b) = SumOf(out[t])
    BY <1>4, BucketsSum
  <2>5. /\ SumOf(trail) \in Nat /\ Total(EventCosts, Recording) \in Nat
        /\ Total(ActualOf, In("record")) \in Nat
    BY BookNats
  <2>6. SumOf(out[t]) \in Nat
    BY <1>4, SumOfNat
  <2> QED
    BY <2>3, <2>4, <2>5, <2>6 DEF Books, ActType, TrailBooked, OnTrail
<1>6. view' = [view EXCEPT ![t].buckets = b]
  OBVIOUS
<1> HIDE DEF b
<1>7. view' \in [Threads -> Views] /\ view'[t].buckets = b
      /\ \A u \in Threads \ {t} : view'[u] = view[u]
  BY <1>4, <1>6 DEF Books, ActType, Views
<1>8. ActType'
  BY <1>3, <1>7 DEF Books, ActType
<1>9. ViewOf(t)'
  <2>1. BucketSum(t)' = Total(SpentOf(b), DOMAIN b)
    BY <1>7 DEF BucketSum
  <2>2. since[t] = 0
    BY <1>1 DEF Books, ViewOf
  <2> QED
    BY <1>3, <1>5, <2>1, <2>2 DEF ViewOf
<1>10. \A u \in Threads \ {t} : ViewOf(u)'
  BY <1>3, <1>7, OtherViews
<1> QED
  BY <1>3, <1>8, <1>9, <1>10 DEF Books

\* A snapshot begins without buckets.
LEMMA BooksSnapshotCall ==
  ASSUME Books, RingInv, NEW t \in Threads, SnapshotCall(t), UNCHANGED posted
  PROVE  Books'
<1> USE DEF SnapshotCall, Ready, viewVars, Reading, Places, ReadOn
<1>1. act[t] = "none" /\ Become(t, "loadUsed")
  OBVIOUS
<1>2. ReadOn(t, "loadUsed")
  BY <1>1, TrailStill, BooksReader
<1>3. ViewOf(t)'
  <2>1. view[t] = NoView /\ since[t] = 0
    BY <1>1 DEF Books, ViewOf
  <2>2. BucketSum(t)' = 0
    <3>1. view'[t].buckets = <<>> /\ DOMAIN <<>> = {}
      BY <2>1 DEF NoView
    <3> QED
      BY <3>1, TotalEmpty DEF BucketSum
  <2> QED
    BY <1>2, <2>1, <2>2 DEF Books, ActType, ViewOf
<1> QED
  BY <1>2, <1>3, OtherViews DEF Books, ActType

\* The used it loads is at least what is spent now.
LEMMA BooksLoadUsed ==
  ASSUME Books, RingInv, NEW t \in Threads, LoadUsed(t), UNCHANGED posted
  PROVE  Books'
<1> USE DEF LoadUsed, Reading, Places, ReadOn
<1>1. act[t] = "loadUsed" /\ Become(t, "loadSpent")
  OBVIOUS
<1>2. ReadOn(t, "loadSpent")
  BY <1>1, TrailStill, BooksReader
<1>3. used \in Nat /\ spent <= used /\ spent \in Nat
  BY UsedNat DEF Books, ActType
<1>4. view' \in [Threads -> Views] /\ view'[t].used = used /\ view'[t].buckets = view[t].buckets
      /\ \A u \in Threads \ {t} : view'[u] = view[u]
  BY <1>3 DEF Books, ActType, Views
<1>5. ActType'
  BY <1>2, <1>4 DEF Books, ActType
<1>6. ViewOf(t)'
  <2>1. BucketSum(t)' = BucketSum(t)
    BY <1>4 DEF BucketSum
  <2>2. since[t] = 0 /\ BucketSum(t) <= spent + posted
    BY <1>1 DEF Books, ViewOf
  <2> HIDE DEF BucketSum
  <2> QED
    BY <1>2, <1>3, <1>4, <2>1, <2>2 DEF ViewOf
<1> QED
  BY <1>2, <1>4, <1>5, <1>6, OtherViews DEF Books

\* The spent it loads has grown since by what was committed in between.
LEMMA BooksLoadSpent ==
  ASSUME Books, RingInv, NEW t \in Threads, LoadSpent(t), UNCHANGED posted
  PROVE  Books'
<1> USE DEF LoadSpent, Reading, Places, ReadOn
<1>1. act[t] = "loadSpent" /\ Become(t, "view")
  OBVIOUS
<1>2. ReadOn(t, "view")
  BY <1>1, TrailStill, BooksReader
<1>3. view' \in [Threads -> Views] /\ view'[t].spent = spent
      /\ view'[t].used = view[t].used /\ view'[t].buckets = view[t].buckets
      /\ \A u \in Threads \ {t} : view'[u] = view[u]
  BY DEF Books, ActType, Views
<1>4. ActType'
  BY <1>2, <1>3 DEF Books, ActType
<1>5. ViewOf(t)'
  <2>1. BucketSum(t)' = BucketSum(t)
    BY <1>3 DEF BucketSum
  <2> QED
    BY <1>1, <1>2, <1>3, <2>1 DEF Books, ViewOf
<1> QED
  BY <1>2, <1>3, <1>4, <1>5, OtherViews DEF Books

\* It returns what it has read.
LEMMA BooksReturnView ==
  ASSUME Books, RingInv, NEW t \in Threads, ReturnView(t), UNCHANGED posted
  PROVE  Books'
<1> USE DEF ReturnView, Reading, Places, ReadOn
<1>1. act[t] = "view" /\ Become(t, "none")
  OBVIOUS
<1>2. ReadOn(t, "none")
  BY <1>1, TrailStill, BooksReader
<1>3. /\ view' \in [Threads -> Views] /\ since' \in [Threads -> Nat]
      /\ view'[t] = NoView /\ since'[t] = 0
      /\ \A u \in Threads \ {t} : view'[u] = view[u] /\ since'[u] = since[u]
  <2>1. NoView \in Views
    BY DEF NoView, Views
  <2> QED
    BY <2>1 DEF Books, ActType
<1>4. ActType'
  BY <1>2, <1>3 DEF Books, ActType
<1>5. ViewOf(t)'
  BY <1>2, <1>3 DEF ViewOf
<1> QED
  BY <1>2, <1>3, <1>4, <1>5, OtherViews DEF Books
-----------------------------------------------------------------------------
(* The theorems about the ring and its reports.                            *)

\* Nothing is recorded, used or spent at first.
LEMMA ReportInvInit == Init => ReportInv
<1> SUFFICES ASSUME Init PROVE ReportInv
  OBVIOUS
<1>1. RingInv
  BY RingInvInit DEF Init
<1>2. /\ trail = <<>> /\ pc = [t \in Threads |-> "idle"] /\ act = [t \in Threads |-> "none"]
      /\ view = [t \in Threads |-> NoView] /\ since = [t \in Threads |-> 0]
      /\ used = 0 /\ spent = 0 /\ posted = 0
  BY DEF Init, RingInit
<1>3. Recording = {} /\ \A a \in {"run", "spend", "record"} : In(a) = {}
  BY <1>2 DEF Recording, In
<1>4. OnTrail = 0
  <2>1. SumOf(<<>>) = 0
    BY TotalEmpty DEF SumOf
  <2> QED
    BY <1>2, <1>3, <2>1, TotalEmpty DEF OnTrail
<1>5. NoView \in Views
  BY DEF NoView, Views
<1>6. ActType
  BY <1>2, <1>5 DEF ActType, Places
<1>7. UsedBooked /\ TrailBooked
  <2>1. /\ Total(Estimates, In("run")) = 0 /\ Total(ActualOf, In("spend")) = 0
        /\ Total(ActualOf, In("record")) = 0
    BY <1>3, TotalEmpty
  <2> QED
    BY <1>2, <1>4, <2>1 DEF UsedBooked, TrailBooked
<1>8. \A t \in Threads : ViewOf(t)
  BY <1>2 DEF ViewOf
<1> QED
  BY <1>1, <1>6, <1>7, <1>8 DEF ReportInv, Books

\* An action's step keeps the invariant, and has the ring as it finds it
\* unless it calls Record or Entries.
LEMMA ActOK ==
  ASSUME ReportInv, NEW t \in Threads, Act(t)
  PROVE  ReportInv'
<1> USE DEF ReportInv
<1>1. CASE RecordAction(t)
  <2>1. PICK e \in Posts : RecordCall(t, e.op, e.cost, e.currency)
    BY <1>1 DEF RecordAction
  <2>2. e.op \in Operations /\ e.cost \in Costs /\ e.currency \in {Own, Other, NoCurrency}
    BY ReportAssumption
  <2>3. RingInv'
    BY <2>1, <2>2, RingRecordCall
  <2> QED
    BY <1>1, <2>3, BooksRecordAction
<1>2. CASE GuardReserve(t) /\ UNCHANGED posted
  <2>1. RingInv'
    BY <1>2, RingStutter DEF GuardReserve
  <2> QED
    BY <1>2, <2>1, BooksGuardReserve
<1>3. CASE GuardRelease(t) /\ UNCHANGED posted
  <2>1. RingInv'
    BY <1>3, RingStutter DEF GuardRelease
  <2> QED
    BY <1>3, <2>1, BooksGuardRelease
<1>4. CASE CommitUsed(t) /\ UNCHANGED posted
  <2>1. RingInv'
    BY <1>4, RingStutter DEF CommitUsed
  <2> QED
    BY <1>4, <2>1, BooksCommitUsed
<1>5. CASE CommitSpent(t) /\ UNCHANGED posted
  <2>1. RingInv'
    BY <1>5, RingStutter DEF CommitSpent
  <2> QED
    BY <1>5, <2>1, BooksCommitSpent
<1>6. CASE GuardRecord(t) /\ UNCHANGED posted
  <2>1. t \in Guards
    BY <1>6 DEF GuardRecord, Books, ActType
  <2>2. OpOf[t] \in Operations /\ ActualOf[t] \in Costs /\ NoCurrency \in {Own, Other, NoCurrency}
    BY <2>1, ReportAssumption
  <2>3. RingInv'
    BY <1>6, <2>2, RingRecordCall DEF GuardRecord
  <2> QED
    BY <1>6, <2>3, BooksGuardRecord
<1>7. CASE ReportCall(t) /\ UNCHANGED posted
  <2>1. RingInv'
    BY <1>7, RingEntriesCall DEF ReportCall
  <2> QED
    BY <1>7, <2>1, BooksReportCall
<1>8. CASE SnapshotCall(t) /\ UNCHANGED posted
  <2>1. RingInv'
    BY <1>8, RingStutter DEF SnapshotCall
  <2> QED
    BY <1>8, <2>1, BooksSnapshotCall
<1>9. CASE LoadUsed(t) /\ UNCHANGED posted
  <2>1. RingInv'
    BY <1>9, RingStutter DEF LoadUsed
  <2> QED
    BY <1>9, <2>1, BooksLoadUsed
<1>10. CASE LoadSpent(t) /\ UNCHANGED posted
  <2>1. RingInv'
    BY <1>10, RingStutter DEF LoadSpent
  <2> QED
    BY <1>10, <2>1, BooksLoadSpent
<1>11. CASE ReturnView(t) /\ UNCHANGED posted
  <2>1. RingInv'
    BY <1>11, RingStutter DEF ReturnView
  <2> QED
    BY <1>11, <2>1, BooksReturnView
<1> QED
  BY <1>1, <1>2, <1>3, <1>4, <1>5, <1>6, <1>7, <1>8, <1>9, <1>10, <1>11 DEF Act

\* So does a step of the code of Record and Entries.
LEMMA RingStepOK ==
  ASSUME ReportInv, NEW t \in Threads, RingStep(t)
  PROVE  ReportInv'
<1> USE DEF ReportInv
<1>1. CASE ReportBuckets(t) /\ UNCHANGED posted
  <2>1. RingInv'
    BY <1>1, RingFinish DEF ReportBuckets
  <2> QED
    BY <1>1, <2>1, BooksReportBuckets
<1>2. CASE /\ Lock(t) \/ WriteSlot(t) \/ Advance(t) \/ Begin(t) \/ CopySlot(t)
           /\ UNCHANGED <<used, spent, act, viewVars, posted>>
  <2>1. RingInv'
    BY <1>2, RingLock, RingWriteSlot, RingAdvance, RingBegin, RingCopySlot
  <2>2. OnTrail' = OnTrail
    <3>1. CASE Advance(t)
      BY <3>1, TrailAdvance
    <3>2. CASE Lock(t) \/ WriteSlot(t) \/ Begin(t) \/ CopySlot(t)
      <4>1. pc \in [Threads -> {"idle", "lock", "write", "advance", "rlock", "begin", "copy"}]
        BY DEF RingInv, RingType
      <4>2. Recording' = Recording /\ UNCHANGED <<trail, event>>
        BY <3>2, <4>1 DEF Lock, WriteSlot, Begin, CopySlot, Goto, Recording
      <4> QED
        BY <4>2, TrailSame
    <3> QED
      BY <1>2, <3>1, <3>2
  <2> QED
    BY <1>2, <2>1, <2>2, BooksRing DEF viewVars
<1> QED
  BY <1>1, <1>2 DEF RingStep

\* Every step keeps the invariant.
LEMMA ReportInvNext == ReportInv /\ [Next]_vars => ReportInv'
<1> SUFFICES ASSUME ReportInv, [Next]_vars PROVE ReportInv'
  OBVIOUS
<1>1. CASE Next
  BY <1>1, ActOK, RingStepOK DEF Next
<1>2. CASE UNCHANGED vars
  <2>1. UNCHANGED ringVars /\ UNCHANGED <<used, spent, act, view, since, posted>>
    BY <1>2 DEF vars, viewVars
  <2> QED
    BY <2>1, RingStutter, TrailStill, BooksRing DEF ReportInv
<1> QED
  BY <1>1, <1>2

\* It holds in every state.
LEMMA ReportCorrect == Spec => []ReportInv
BY ReportInvInit, ReportInvNext, PTL DEF Spec

\* A snapshot that Entries returns is the last events of the trail, in order,
\* without a gap or an overwritten slot, and each has the ledger's currency
\* (SnapshotIsLatest), for any ring capacity and any number of goroutines
\* that record and copy.
THEOREM RingShowsLatest == Spec => []SnapshotIsLatest
<1>1. ReportInv => SnapshotIsLatest
  BY RingInvSnapshot DEF ReportInv
<1> QED
  BY <1>1, ReportCorrect, PTL

\* A report has one bucket for each operation among its entries, in the order
\* in which they first appear, with their number and the sum of their costs
\* (BucketsAreExact), for any entries that the ring can show.
THEOREM ReportBucketsExact == Spec => []BucketsAreExact
<1>1. ReportInv => BucketsAreExact
  <2> SUFFICES ASSUME ReportInv, NEW t \in Threads
               PROVE  LET s == out[t]
                          b == Buckets(s)
                          costs == [i \in DOMAIN s |-> s[i].cost] IN
                      /\ \A op \in Operations : At(op, s) # {} <=> At(op, b) # {}
                      /\ \A i \in DOMAIN b : /\ b[i].count = Cardinality(At(b[i].op, s))
                                             /\ b[i].spent = Total(costs, At(b[i].op, s))
                      /\ \A i, j \in DOMAIN b : i < j =>
                           \E k \in At(b[i].op, s) : \A l \in At(b[j].op, s) : k < l
    BY Zenon DEF BucketsAreExact
  <2>1. out[t] \in Seq(Recorded)
    BY DEF ReportInv, RingInv, RingType
  <2> QED
    BY <2>1, BucketsExact, Zenon
<1> QED
  BY <1>1, ReportCorrect, PTL

\* The buckets of a report add up to no more than the spent_micros it shows
\* and what cost.record posted (ReportIsCovered), whichever commits and
\* records go on while it reads.
THEOREM ReportCovered == Spec => []ReportIsCovered
<1>1. ReportInv => ReportIsCovered
  <2> SUFFICES ASSUME ReportInv, NEW t \in Threads, act[t] = "view"
               PROVE  Total([i \in DOMAIN view[t].buckets |-> view[t].buckets[i].spent],
                            DOMAIN view[t].buckets) <= view[t].spent + posted
    BY DEF ReportIsCovered, Reporting
  <2> QED
    BY DEF ReportInv, Books, ViewOf, BucketSum, SpentOf
<1> QED
  BY <1>1, ReportCorrect, PTL

\* A snapshot or report shows more spent than used by no more than what was
\* committed between its two loads (SkewIsConcurrent).
THEOREM SkewConcurrent == Spec => []SkewIsConcurrent
<1>1. ReportInv => SkewIsConcurrent
  BY DEF ReportInv, Books, ViewOf, SkewIsConcurrent, Reporting
<1> QED
  BY <1>1, ReportCorrect, PTL

\* Once the actions under way have ended, the trail accounts for every micro
\* that was spent or posted, and used for no more than what was spent.
TrailIsComplete ==
  /\ Recording = {} /\ In("record") = {} => SumOf(trail) = spent + posted
  /\ In("run") = {} /\ In("spend") = {} => used = spent

\* No commit is missing from the audit trail, none is in it twice, and no
\* estimate stays behind in used (TrailIsComplete), however the additions of
\* commits and the Record calls after them interleave.
THEOREM TrailComplete == Spec => []TrailIsComplete
<1>1. ReportInv => TrailIsComplete
  <2> SUFFICES ASSUME ReportInv PROVE TrailIsComplete
    OBVIOUS
  <2>1. Books /\ RingInv /\ spent \in Nat /\ posted \in Nat
    BY DEF ReportInv, Books, ActType
  <2>2. SumOf(trail) \in Nat
    BY <2>1, BookNats
  <2>3. ASSUME Recording = {}, In("record") = {} PROVE SumOf(trail) = spent + posted
    <3>1. Total(EventCosts, Recording) = 0 /\ Total(ActualOf, In("record")) = 0
      BY <2>3, TotalEmpty
    <3> QED
      BY <2>1, <2>2, <3>1 DEF Books, TrailBooked, OnTrail
  <2>4. ASSUME In("run") = {}, In("spend") = {} PROVE used = spent
    <3>1. Total(Estimates, In("run")) = 0 /\ Total(ActualOf, In("spend")) = 0
      BY <2>4, TotalEmpty
    <3> QED
      BY <2>1, <3>1 DEF Books, UsedBooked
  <2> QED
    BY <2>3, <2>4 DEF TrailIsComplete
<1> QED
  BY <1>1, ReportCorrect, PTL
=============================================================================

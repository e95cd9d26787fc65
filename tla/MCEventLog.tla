----------------------------- MODULE MCEventLog -----------------------------
(* EventLog for TLC: three processes in two currencies and with distinct    *)
(* limits record events that have an id, have none, are free of charge, or  *)
(* are in another currency than their recorder.                             *)
EXTENDS EventLog

CONSTANTS p1, p2, p3, EUR, USD, e1, e2, e3, e4, e5, idA, idB

MCProcs == {p1, p2, p3}
MCCurrencies == {EUR, USD}
MCLimitOf == [p \in Procs |-> CASE p = p1 -> 1 [] p = p2 -> 2 [] p = p3 -> 3]
OneCurrency == [p \in Procs |-> EUR]
TwoCurrencies == [p \in Procs |-> IF p = p2 THEN USD ELSE EUR]
ExistingRow == [currency |-> EUR, limit |-> 9]

MCEvents == {e1, e2, e3, e4, e5}
MCRecorder == [e \in Events |-> IF e \in {e2, e3} THEN p2 ELSE p1]
MCCosts == [e \in Events |-> CASE e = e5 -> 0 [] e = e1 -> 2 [] OTHER -> 1]
MCCurrencyIn == [e \in Events |-> CASE e = e1 -> EUR [] e = e2 -> USD [] OTHER -> ZeroCurrency]
SomeIds == [e \in Events |-> CASE e = e1 -> idA [] e = e2 -> idB [] OTHER -> NoId]
DistinctIds == [e \in Events |-> e]

Deployment(store, first, currency, auto, events, ids) ==
  [store |-> store, row |-> first, currency |-> currency, auto |-> auto,
   events |-> events, ids |-> ids]

\* The wallet and Redis with every event; PostgreSQL with an id for each of
\* three events, in a fresh scope of one currency, an existing one in two,
\* and a fresh one in two currencies that only ensureBudgetRow creates.
MCSetups ==
  { Deployment("wallet",   NoRow,       OneCurrency,   {},       Events, SomeIds),
    Deployment("redis",    NoRow,       OneCurrency,   {},       Events, SomeIds),
    Deployment("postgres", NoRow,       OneCurrency,   {p1, p2}, {e1, e2, e3}, DistinctIds),
    Deployment("postgres", ExistingRow, TwoCurrencies, {p1, p2}, {e1, e2, e3}, DistinctIds),
    Deployment("postgres", NoRow,       TwoCurrencies, {},       {e1, e2, e3}, DistinctIds) }

\* What the theorems about all three properties ask of a set-up.
ASSUME \A s \in MCSetups : Identified(s) /\ Agreed(s)

\* PostgreSQL with events that have no id.
MCNoIds == {Deployment("postgres", NoRow, OneCurrency, {p1, p2}, Events, SomeIds)}
=============================================================================

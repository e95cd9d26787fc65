----------------------------- MODULE MCScopeRow -----------------------------
(* ScopeRow with three processes in two currencies and distinct limits. *)
EXTENDS ScopeRow

CONSTANTS p1, p2, p3, EUR, USD

MCProcs == {p1, p2, p3}
MCCurrencies == {EUR, USD}
MCLimitOf == [p \in Procs |-> CASE p = p1 -> 1 [] p = p2 -> 2 [] p = p3 -> 3]
TwoCurrencies == [p \in Procs |-> IF p = p2 THEN USD ELSE EUR]

\* EnsureSchema creates the scope, called in two currencies.
MCRace == {[row |-> NoRow, currency |-> TwoCurrencies, auto |-> Procs]}
=============================================================================

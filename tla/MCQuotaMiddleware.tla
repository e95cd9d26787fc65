------------------------- MODULE MCQuotaMiddleware -------------------------
(* QuotaMiddleware in four deployments of two requests for TLC. *)
EXTENDS QuotaMiddleware

CONSTANTS q1, q2

MCRequests == {q1, q2}
MCLimits == {-1, 1, 6}

\* Literals that fit, are negative or too large; paths that lead to the
\* largest accepted float, one above the bound, to a value out of range, and
\* to no number.
MCInputs ==
  [kind : {"literal"}, value : {-1, 2, 6}]
    \cup { [kind |-> "float", value |-> 5], [kind |-> "uint", value |-> 4],
           [kind |-> "int", value |-> -1], [kind |-> "string", value |-> 0] }

\* The runtime quota, the PostgreSQL backend, the hooks over the in-process
\* ledger, and the hooks over a ledger elsewhere.
MCSetups ==
  { [hooks |-> FALSE, leased |-> FALSE, faulty |-> TRUE,  actuals |-> {-1, 0, 5}],
    [hooks |-> FALSE, leased |-> TRUE,  faulty |-> TRUE,  actuals |-> {0, 3}],
    [hooks |-> TRUE,  leased |-> FALSE, faulty |-> FALSE, actuals |-> {-1, 3}],
    [hooks |-> TRUE,  leased |-> TRUE,  faulty |-> TRUE,  actuals |-> {0, 8}] }

MCOutputs == {"object", "reporter", "other"}
=============================================================================

--------------------------- MODULE MCRedisLedger ---------------------------
(* RedisLedger on small instances for TLC. *)
EXTENDS RedisLedger

CONSTANTS r1, r2

MCReservations == {r1, r2}
MCAmounts == 0..3
MCEstimates == {-1, 1, 3}
MCEstimatesZero == {0, 1}
MCActuals == {-1, 3}
MCActuals1 == {1}

\* Enough requests for r1 to be refused a settlement, or to lose its answer,
\* and try again; any of them may be the client library's own repetition.
MCMaxSends == [r \in Reservations |-> IF r = r1 THEN 3 ELSE 2]
MCMaxSends2 == [r \in Reservations |-> 2]
=============================================================================

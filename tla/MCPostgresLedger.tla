-------------------------- MODULE MCPostgresLedger --------------------------
(* PostgresLedger on a small instance for TLC. *)
EXTENDS PostgresLedger

CONSTANTS r1, r2

MCReservations == {r1, r2}
MCAmounts == 0..MaxInt
MCEstimates == {-1, 1, 2, 3}
MCActuals == {-1, 6}
=============================================================================

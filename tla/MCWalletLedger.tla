--------------------------- MODULE MCWalletLedger ---------------------------
(* WalletLedger on small instances for TLC. *)
EXTENDS WalletLedger, TLC

CONSTANTS r1, r2, k1

MCReservations == {r1, r2}
MCTopUps == {k1}
MCEstimates == {-1, 1, 2}
MCActuals == {-1, 1, 3}
MCCredits == {0, 1}

Symmetric == Permutations(Reservations)
=============================================================================

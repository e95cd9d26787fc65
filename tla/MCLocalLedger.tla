---------------------------- MODULE MCLocalLedger ----------------------------
(* LocalLedger on a small instance for TLC. *)
EXTENDS LocalLedger

CONSTANTS t1, t2, r1, r2, r3

MCThreads == {t1, t2}
MCReservations == {r1, r2, r3}
MCAmounts == 0..MaxInt
MCEstimates == {-1, 0, 2, 3, 4}
MCActuals == {-1, 3, 7}

\* The total by counting units is the sum, on all functions of this size.
FS == INSTANCE FiniteSetsExt
ASSUME TotalIsSum ==
  \A f \in [1..3 -> 0..3] : \A S \in SUBSET (1..3) :
    Total(f, S) = FS!MapThenSumSet(LAMBDA i : f[i], S)
=============================================================================

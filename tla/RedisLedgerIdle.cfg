SPECIFICATION Spec
CONSTANTS
  r1 = r1
  r2 = r2
  Reservations <- MCReservations
  Amounts <- MCAmounts
  Limit = 2
  Estimates <- MCEstimates
  Actuals <- MCActuals1
  TTL = 1
  Margin = 1
  Batch = 1
  MaxTime = 3
  MaxSends <- MCMaxSends2
INVARIANTS
  KeyOutlivesLease

SPECIFICATION FairSpec
CONSTANTS
  r1 = r1
  r2 = r2
  Reservations <- MCReservations
  Amounts <- MCAmounts
  Limit = 2
  Estimates <- MCEstimates
  Actuals <- MCActuals
  TTL = 1
  Margin = 1
  Batch = 1
  MaxTime = 2
  MaxSends <- MCMaxSends
INVARIANTS
  TypeOK
  UsedIsExact
  HandleTruth
PROPERTIES
  ImplementsBudget
  ExpiredReclaimed

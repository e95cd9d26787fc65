SPECIFICATION FairSpec
CONSTANTS
  r1 = r1
  r2 = r2
  NoTx = NoTx
  Reservations <- MCReservations
  Amounts <- MCAmounts
  MaxInt = 7
  Limit = 2
  Estimates <- MCEstimates
  Actuals <- MCActuals
  TTL = 1
  MaxTime = 2
CHECK_DEADLOCK FALSE
INVARIANTS
  TypeOK
  RowsAreExact
  HandleTruth
PROPERTIES
  ImplementsBudget
  CallsEnd

SPECIFICATION FairSpec
CONSTANTS
  t1 = t1
  t2 = t2
  r1 = r1
  r2 = r2
  r3 = r3
  NoResv = NoResv
  Threads <- MCThreads
  Reservations <- MCReservations
  Amounts <- MCAmounts
  MaxInt = 7
  Limit = 4
  Estimates <- MCEstimates
  Actuals <- MCActuals
INVARIANTS
  TypeOK
  UsedIsExact
  SettledOnce
  SpentBehindUsed
PROPERTIES
  WrappedGrantsNothing
  ImplementsBudget
  CallsReturn

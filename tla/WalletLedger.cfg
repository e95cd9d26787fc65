SPECIFICATION Spec
CONSTANTS
  r1 = r1
  r2 = r2
  k1 = k1
  Reservations <- MCReservations
  TopUps <- MCTopUps
  Opening = 2
  MaxInt = 4
  TTL = 1
  Estimates <- MCEstimates
  Actuals <- MCActuals
  Credits <- MCCredits
  MaxTime = 2
SYMMETRY Symmetric
INVARIANTS
  TypeOK
  NeverOverdrawn
  HoldsAreRows
  BooksBalance
  ReportedIsBooked
PROPERTIES
  ImplementsMovingBudget
  ChargedOnce
  SuspensionDrains

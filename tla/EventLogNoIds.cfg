SPECIFICATION EventLogSpec
CONSTANTS
  p1 = p1
  p2 = p2
  p3 = p3
  EUR = EUR
  USD = USD
  NoRow = NoRow
  NoTx = NoTx
  Procs <- MCProcs
  LimitOf <- MCLimitOf
  Currencies <- MCCurrencies
  e1 = e1
  e2 = e2
  e3 = e3
  e4 = e4
  e5 = e5
  idA = idA
  idB = idB
  NoId = NoId
  ZeroCurrency = ZeroCurrency
  Events <- MCEvents
  Recorder <- MCRecorder
  CostOf <- MCCosts
  CurrencyIn <- MCCurrencyIn
  Setups <- MCNoIds
  MaxTries = 2
CHECK_DEADLOCK FALSE
INVARIANTS
  AckedIsKept

SPECIFICATION ScopeSpec
CONSTANTS
  p1 = p1
  p2 = p2
  p3 = p3
  EUR = EUR
  USD = USD
  NoRow = NoRow
  NoTx = NoTx
  Procs <- MCProcs
  LimitOf <- MCLimitOf
  Currencies <- MCCurrencies
  Setups <- MCRace
INVARIANTS
  SuccessMeansSameCurrency

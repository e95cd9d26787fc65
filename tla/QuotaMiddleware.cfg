SPECIFICATION FairSpec
CONSTANTS
  q1 = q1
  q2 = q2
  Requests <- MCRequests
  MaxInt = 9
  Limits <- MCLimits
  Inputs <- MCInputs
  Outputs <- MCOutputs
  Setups <- MCSetups
CHECK_DEADLOCK FALSE
INVARIANTS
  TypeOK
  SpentIsCharged
  ResultIsTrue
  AdmittedIsCovered
  StrandedOnlyByFault
PROPERTIES
  ImplementsMovingBudget
  HoldsEnd

SPECIFICATION Spec
CONSTANTS
  q1 = q1
  q2 = q2
  Requests <- MCRequests
  MaxInt = 9
  Limits <- MCLimits
  Inputs <- MCInputs
  Outputs <- MCOutputs
  Setups <- MCSetups
CHECK_DEADLOCK FALSE

INVARIANTS
  ReportedCostSucceeds

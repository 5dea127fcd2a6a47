SPECIFICATION FairSpec
CONSTANTS
  run1 = run1
  Run = {run1}
  Finding = {f1, f2, f3}
  RunOf <- MCRunOf
  Request = {r1, r2}
  NoRequest = NoRequest
  ThresholdNum = 4
  ThresholdDen = 5
INVARIANTS GateMatchesVerdicts
PROPERTIES ImplementsLedger EveryRequestEnds

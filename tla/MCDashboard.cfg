SPECIFICATION SeedSpec
CONSTANTS
  Run = {"r1", "d1"}
  Finding = {"f1", "f2", "f3", "f4"}
  RunOf <- MCRunOf
  Demo = {"d1"}
  DaysAgo <- MCDaysAgo
  DemoUse <- MCDemoUse
  ThresholdNum = 1
  ThresholdDen = 2
  TokenUse <- MCTokenUse
  Prices <- MCPrices
  NULL = NULL
  PerMtok = 10
  Window = {1, 9}
  Forever = 9
  MaxDay = 1
INVARIANTS HeadlineReconciles StatusIsEarned
PROPERTIES HeadlineIsHonest HookSparesActivity

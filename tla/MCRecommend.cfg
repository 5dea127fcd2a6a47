SPECIFICATION RecommendSpec
CONSTANTS
  RowId = {1, 2, 3, 4}
  Model = {1, 2}
  TaskType = {"ci_review", "security_analysis"}
  ModelOf <- MCModelOf
  TaskOf <- MCTaskOf
  GroupOf <- MCGroupOf
  BaselineFor <- MCBaselineFor
  Score = {0, 2, 3}
  Cost = {0, 3}
  Weight = {8, 17}
  Unit = 20
  Quantum = 3
  ShortlistSize = 2
  OnlyRunnable = TRUE
  MaxEdits = 1
INVARIANTS OrderFollowsWeights CheaperAndNoWorseWins BaselineIsFair

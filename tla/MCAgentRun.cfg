SPECIFICATION FairSpec
CONSTANTS
  MaxAttempts = 2
  MaxSteps = 2
  MaxSeconds = 2
  TokenCeiling = 2
  StepTokens = 2
  FailSeverities <- MCFailSeverities
  Report <- MCReport
INVARIANTS PassIsExamined ExitTellsLastAttempt CeilingsHold ChildIsGone
PROPERTIES EveryRunEnds ImplementsStage
CHECK_DEADLOCK FALSE

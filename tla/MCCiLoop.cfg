SPECIFICATION Spec
CONSTANTS
  review1 = review1
  sec1 = sec1
  m1 = m1
  b1 = b1
  Editor = {e1}
  Option = {review1, sec1}
  Model = {m1}
  ModelOf <- MCModelOf
  Task <- MCTask
  TaskOf <- MCTaskOf
  Omitted = Omitted
  Attempt = {a1, a2}
  Build = {b1}
  BuildOf <- SameBuild
  MaxRotations = 1
SYMMETRY AttemptSymmetry
INVARIANTS VerdictIsRecorded OneRunPerBuild RunFromOneRowVersion
           UndisturbedRunRecordsWhatRan TaskFollowsOption
PROPERTIES AttemptsAreAgents

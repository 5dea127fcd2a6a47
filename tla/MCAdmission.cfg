SPECIFICATION FairSignInSpec
CONSTANTS
  Worker = {w1, w2}
  Email <- MCEmail
  Lower <- MCLower
  Subject = {s1}
  NoSubject = NoSubject
  NoWorker = NoWorker
  Capacity = 2
  SeedNewUserExamples = TRUE
  Nonce = {n1}
  s1 = s1
  Google <- MCGoogle
  Burst = 1
  PerMinute = 1
  Minute = 2
  FillTime = 2
  MaxBacks = 1
  MaxForward = 2
INVARIANTS WithinCapacity EmailsUnique ExamplesWithAccount ChallengeUsedOnce
PROPERTIES EverySignInEnds ImplementsBucket BucketRefills

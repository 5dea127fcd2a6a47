SPECIFICATION StoreSpec
CONSTANTS
  review1 = review1
  review2 = review2
  review3 = review3
  sec1 = sec1
  sec2 = sec2
  sec3 = sec3
  m1 = m1
  m2 = m2
  m3 = m3
  Editor = {e1, e2}
  Option = {review1, review2, review3, sec1, sec2, sec3}
  Model = {m1, m2, m3}
  ModelOf <- MCModelOf
  Task <- MCTask
  TaskOf <- MCTaskOf
  Omitted = Omitted
INVARIANTS TaskFollowsOption

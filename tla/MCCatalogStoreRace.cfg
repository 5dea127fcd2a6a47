SPECIFICATION Spec
CONSTANTS
  Writer = {w1, w2}
  Key = {k1}
  Group = {g1, g2}
  Task = {t1}
  NoTask = NoTask
  Absent = Absent
  Source = {s1, dashboard}
  Report = {dashboard}
  Scanner <- MCScanner
  k1 = k1
  ReportGroup = g1
  ReportTask = t1
  NoSource = NoSource
  Batch <- RowLists
  MaxCrashes = 0
INVARIANTS TaskOwnsOneGroup

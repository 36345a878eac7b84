CONSTANTS
  e1 = e1 e2 = e2 e3 = e3 e4 = e4 p1 = p1 p2 = p2 y1 = y1 y2 = y2
  k1 = k1 k2 = k2 r1 = r1 r2 = r2 r3 = r3 NULL = NULL
  EntryId = {e1, e2, e3, e4}
  Period = {p1}
  Year = {y1}
  YearOf <- SinglePeriod
  SourceId = {}
  Request = {r1}
SYMMETRY Symmetry4
SPECIFICATION Spec
INVARIANT OneClosingPerExercise

CONSTANTS
  e1 = e1 e2 = e2 p1 = p1 y1 = y1 r1 = r1
  A = A B = B s1 = s1 s2 = s2 f1 = f1 f2 = f2 NULL = NULL
  EntryId = {e1, e2}
  Period = {p1}
  Year = {y1}
  YearOf <- SinglePeriod
  SourceId = {}
  Request = {r1}
  Bank = {A, B}
  Movements <- Inflows
  Statement = {s1, s2}
  File = {f1, f2}
  AmountsOf <- BothWays
SYMMETRY Symmetry
SPECIFICATION ReconSpec
PROPERTY ReconciledNeverReversed

CHECK_DEADLOCK FALSE
CONSTANTS
  d1 = d1 r1 = r1 r2 = r2 j1 = j1
  Doc = {d1}
  Request = {r1}
  Job = {j1}
  MissLimit = 2
  MaxTry = 2
  MayCrash = TRUE
SPECIFICATION FiscalFairSpec
PROPERTY ContingencyEnds

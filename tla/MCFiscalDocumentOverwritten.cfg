CHECK_DEADLOCK FALSE
CONSTANTS
  d1 = d1 r1 = r1 r2 = r2 j1 = j1
  Doc = {d1}
  Request = {r1, r2}
  Job = {}
  MissLimit = 2
  MaxTry = 2
  MayCrash = FALSE
SPECIFICATION FiscalSpec
PROPERTY AuthorizedIsKept

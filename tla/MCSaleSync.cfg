CHECK_DEADLOCK FALSE
CONSTANTS
  s1 = s1 s2 = s2 h1 = h1 h2 = h2 j1 = j1 j2 = j2 NULL = NULL
  Sale = {s1}
  Handler = {h1}
  Round = {j1}
  Overlap = 1
  Skew = 1
  MaxTime = 2
SPECIFICATION SyncFairSpec
INVARIANTS SyncTypeOK NothingForgotten ResolvedIsBooked SettledAfterOpening
PROPERTIES MissedIsRedriven

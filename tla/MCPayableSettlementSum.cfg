CHECK_DEADLOCK FALSE
CONSTANTS
  t1 = t1 p1 = p1 p2 = p2 r1 = r1 r2 = r2 w1 = w1 w2 = w2 NULL = NULL
  Title = {t1}
  Payment = {p1, p2}
  AmountOf <- TwoCents
  Request = {r1, r2}
  Pass = {}
SYMMETRY Symmetry
SPECIFICATION PayableSpec
INVARIANT PaidIsSumOfActive

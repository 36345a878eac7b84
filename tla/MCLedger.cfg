CONSTANTS
  e1 = e1 e2 = e2 e3 = e3 e4 = e4 p1 = p1 p2 = p2 y1 = y1 y2 = y2
  k1 = k1 k2 = k2 r1 = r1 r2 = r2 r3 = r3 NULL = NULL
  EntryId = {e1, e2, e3}
  Period = {p1}
  Year = {y1}
  YearOf <- SinglePeriod
  SourceId = {k1}
  Request = {r1, r2}
SYMMETRY Symmetry3
SPECIFICATION Spec
INVARIANTS
  LedgerInv TypeOK GaplessNumbering UniqueSource ReversalsPairUp IdempotentAnswers
  AuditTellsJournal
PROPERTIES HardCloseSeals LateRecordsSaySo KeepsTheBook

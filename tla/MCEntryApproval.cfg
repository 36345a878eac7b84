CONSTANTS
  e1 = e1 p1 = p1 p2 = p2 y1 = y1 y2 = y2 r1 = r1 c1 = c1 c2 = c2
  owner = owner u1 = u1 a = a NULL = NULL
  EntryId = {e1}
  Period = {p1, p2}
  Year = {y1, y2}
  YearOf <- TwoYears
  SourceId = {}
  Request = {r1}
  User = {owner, u1}
  Owner = owner
  Content = {a}
  Command = {c1, c2}
  MaxVersion = 4
SYMMETRY Symmetry
SPECIFICATION ApprovalSpec
INVARIANTS ApprovalTypeOK ContentFrozen DutiesSegregated NumberedIffPosted
PROPERTIES PostedIsImmutable KeepsTheBook HardCloseSeals LateRecordsSaySo

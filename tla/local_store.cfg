SPECIFICATION Spec
CONSTANTS
  a = a
  b = b
  l = l
  u1 = u1
  u2 = u2
  RecordId = {a, b, l}
  Url = {u1, u2}
  Content = {c1, c2}
  Run = {r1, r2}
  IdOf <- MCIdOf
  LegacyId = {a, l}
  NoRow = NoRow
  None = None
  Torn = Torn
  Complete = TRUE
  MaxFaults = 2
SYMMETRY Symmetry
CHECK_DEADLOCK FALSE
INVARIANTS
  TypeOK
  PublishedExact
  FirstFaultUndone
  LocalAudit
PROPERTIES
  RestoredExactly

SPECIFICATION FairSpec
CONSTANTS
  a = a
  b = b
  l = l
  u1 = u1
  u2 = u2
  RecordId = {a, b}
  Url = {u1, u2}
  Content = {c1, c2}
  Run = {r1, r2}
  IdOf <- MCIdOf
  LegacyId = {}
  NoRow = NoRow
  None = None
  Complete = FALSE
  Overlap = TRUE
  AckLoss = FALSE
  Verdict = {}
CHECK_DEADLOCK FALSE
INVARIANTS
  LastKnownGood
PROPERTIES
  BatchApplied
  AuditMatchesEffect
  EveryRunEnds

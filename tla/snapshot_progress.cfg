SPECIFICATION FairSpec
CONSTANTS
  a = a
  b = b
  l = l
  u1 = u1
  u2 = u2
  RecordId = {a, b, l}
  Url = {u1, u2}
  Content = {c1}
  Run = {r1, r2}
  IdOf <- MCIdOf
  LegacyId = {l}
  NoRow = NoRow
  None = None
  Complete = TRUE
  Overlap = TRUE
  AckLoss = TRUE
  Verdict = {"INDEXED", "FAILED"}
CHECK_DEADLOCK FALSE
INVARIANTS
  SnapshotExact
PROPERTIES
  EveryRunEnds

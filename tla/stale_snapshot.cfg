SPECIFICATION Spec
CONSTANTS
  a = a
  b = b
  l = l
  u1 = u1
  u2 = u2
  RecordId = {a, b}
  Url = {u1, u2}
  Content = {c1}
  Run = {r1, r2}
  IdOf <- MCIdOf
  LegacyId = {}
  NoRow = NoRow
  None = None
  Complete = TRUE
  Overlap = TRUE
  AckLoss = FALSE
  Verdict = {"INDEXED"}
CHECK_DEADLOCK FALSE
INVARIANT MissingMeansUnobserved

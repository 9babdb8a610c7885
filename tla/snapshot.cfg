SPECIFICATION Spec
CONSTANTS
  a = a
  b = b
  l = l
  u1 = u1
  u2 = u2
  RecordId = {a, b, l}
  Url = {u1, u2}
  Content = {c1, c2}
  Run = {r1, r2}
  IdOf <- MCIdOf
  LegacyId = {l}
  NoRow = NoRow
  None = None
  Complete = TRUE
  Overlap = TRUE
  AckLoss = FALSE
  Verdict = {"INDEXED"}
SYMMETRY Symmetry
CHECK_DEADLOCK FALSE
INVARIANTS
  TypeOK
  SnapshotExact
  LastKnownGood
  IndexFresh
  ExitAgrees
PROPERTIES
  AuditMatchesEffect
  NoReembedding
  IdentityStable
  UniqueUrlsStable
  RerunIdempotent
  ImplementsAtomicListing

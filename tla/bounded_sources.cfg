SPECIFICATION Spec
CONSTANTS
  Item = {A, B, P, X}
  Approved = {A, B, P}
  External = {X}
  Programs = {P}
  PageSize = 1
  PageBase = 1
  Frozen <- MCFrozen
  MaxRedirects = 1
  SiteSize = 2
  MaxChanges = 2
  Before = {{A, P}}
  Inputs <- BoundedInputs
  None = None
CHECK_DEADLOCK FALSE
INVARIANTS
  TypeOK
  RubricMissesAtMostSwaps
  ScholarshipsMissesAtMostArrivals
  AllOrNothing
  BoundedNeverMarks
  AttemptsStartOver
  ExitTellsEffect
  WritesAreApproved
  EndsReported
PROPERTY EveryRunEnds

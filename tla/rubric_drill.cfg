SPECIFICATION Spec
CONSTANTS
  Item = {A, B}
  Approved = {A, B}
  External = {}
  Programs = {}
  PageSize = 2
  PageBase = 1
  Frozen <- MCFrozen
  MaxRedirects = 1
  SiteSize = 2
  MaxChanges = 0
  Before <- AnyBefore
  Inputs <- RubricDrill
  None = None
CHECK_DEADLOCK FALSE
INVARIANT DrillReported

SPECIFICATION Spec
CONSTANTS
  Item = {A, B, C, D, X}
  Approved = {A, B, C, D}
  External = {}
  Programs = {}
  PageSize = 2
  PageBase = 1
  Frozen <- MCFrozen
  MaxRedirects = 1
  SiteSize = 4
  MaxChanges = 2
  Before <- AnyBefore
  Inputs <- CompleteInputs
  None = None
SYMMETRY Symmetry
CHECK_DEADLOCK FALSE
INVARIANTS
  MissesAtMostArrivals
  EventsMissesAtMostChanges
  PopulationIsListing
  RequestsBounded

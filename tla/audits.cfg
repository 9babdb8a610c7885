SPECIFICATION Spec
CONSTANTS
  Item <- MCItem
  PageSize = 1
  Class <- MCClass
  ClassOf <- MCClassOf
  Feeds <- MCFeeds
  FeedItems <- MCFeedItems
  Primary = {"program"}
  MaxFeedPages = 4
  SiteSize = 2
  MaxChanges = 2
  Selections <- MCSelections
  Details <- MCDetails
  DomainOf <- MCDomainOf
  IdentityOf <- MCIdentityOf
  Frozen <- MCFrozen
  None = None
CHECK_DEADLOCK FALSE
INVARIANTS
  TypeOK
  CensusMissesAtMostArrivals
  GreenMeansRead
  UnpacedBounded

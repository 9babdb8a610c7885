---------------------------- MODULE CatalogueCensus ----------------------------
(***************************************************************************)
(* discover_full_catalogue (sources/courses/collector.py): every feed of   *)
(* the catalogue API, page after page until its own total is reached, the  *)
(* rows united by identity, and the primary feeds that do not reconcile    *)
(* listed.  Feeds change while they are read.                              *)
(***************************************************************************)
EXTENDS Site

CONSTANTS
  Class,        \* entity classes
  ClassOf,      \* of each item; another class than the feed's is refused
  Feeds,        \* the classes of the feeds, in the order they are read
  FeedItems,    \* what the feeds of a class may list
  Primary,      \* course and program
  MaxFeedPages, \* max_pages_per_feed
  SiteSize,     \* bound: rows of a feed when it is opened
  MaxChanges,   \* bound: changes of all feeds together
  None

ASSUME ClassAssumption == ClassOf \in [Item -> Class]
ASSUME FeedsAssumption ==
  Feeds \in Seq(Class) /\ Feeds # <<>> /\ Primary \subseteq Class
ASSUME PagesAssumption == MaxFeedPages \in Nat \ {0}
ASSUME BoundAssumption == SiteSize \in Nat /\ MaxChanges \in Nat
ASSUME NoneAssumption == None \notin Nat

VARIABLES
  stage,        \* "opening", "paging", "closing", "complete" or "raised"
  feed,         \* number of the feed
  index,        \* PageIndex
  total,        \* TotalCount of the feed's first page, or None
  rows,         \* raw rows of the feed, repetitions included
  ids,          \* feed_seen
  previous,     \* identities of the page before, or None
  repeated,
  found,        \* all_items, in the order of discovery
  unreconciled, \* feeds of a primary class that did not reconcile
  \* observation only
  site, steady, \* rows of the feed now, and throughout
  settled,      \* the steady rows of the primary feeds that are closed
  arrivals, changes

traversal == <<index, total, rows, ids, previous, repeated>>
feeds == <<site, steady, settled, arrivals, changes>>
census == <<stage, feed, traversal, found, unreconciled, feeds>>

CensusInit ==
  /\ stage = "opening" /\ feed = 1
  /\ index = 0 /\ total = None /\ rows = 0
  /\ ids = {} /\ previous = None /\ repeated = FALSE
  /\ found = <<>> /\ unreconciled = {}
  /\ site = <<>> /\ steady = {} /\ settled = {} /\ arrivals = 0 /\ changes = 0

Accepted == {row \in Item : ClassOf[row] = Feeds[feed]}

OpenFeed ==
  /\ stage = "opening"
  /\ stage' = "paging"
  /\ site' \in {s \in Sites(SiteSize) : Shown(s) \subseteq FeedItems[Feeds[feed]]}
  /\ steady' = Shown(site')
  /\ index' = 0 /\ total' = None /\ rows' = 0
  /\ ids' = {} /\ previous' = None /\ repeated' = FALSE
  /\ UNCHANGED <<feed, found, unreconciled, settled, arrivals, changes>>

FeedChanges ==
  /\ stage = "paging"
  /\ changes < MaxChanges
  /\ changes' = changes + 1
  /\ \/ /\ site' \in {s \in Arrivals(site) : Shown(s) \subseteq FeedItems[Feeds[feed]]}
        /\ arrivals' = arrivals + 1
     \/ site' \in Departures(site) /\ UNCHANGED arrivals
  /\ steady' = steady \cap Shown(site')
  /\ UNCHANGED <<stage, feed, traversal, found, unreconciled, settled>>

\* One page of rows.  An empty page or the page before once more ends the
\* feed; so does its total.
FetchRows ==
  LET page == Page(site, index)
      items == Filtered(page, Accepted)
      again == previous = items
  IN
  /\ stage = "paging"
  /\ index < MaxFeedPages
  /\ total \in {None, Len(site)}
  /\ index' = index + 1
  /\ total' = Len(site)
  /\ rows' = rows + Len(page)
  /\ repeated' = (page # <<>> /\ again)
  /\ IF page = <<>> \/ again
     THEN stage' = "closing" /\ UNCHANGED <<previous, ids, found>>
     ELSE /\ previous' = items
          /\ ids' = ids \cup Shown(items)
          /\ found' = found \o Filtered(items, Item \ Shown(found))
          /\ stage' = IF rows' >= total' THEN "closing" ELSE "paging"
  /\ UNCHANGED <<feed, unreconciled, feeds>>

\* TotalCount changed, the pages ran out, a request failed, or the payload is
\* not what the API promises: a ValueError or a FetchError.
CensusRaises ==
  /\ stage = "paging"
  /\ stage' = "raised"
  /\ UNCHANGED <<feed, traversal, found, unreconciled, feeds>>

\* Mutant: as many rows as announced are enough, whatever they show.
RowsReconcile == total # 0 /\ rows = total

Reconciles == total # 0 /\ rows = total /\ Cardinality(ids) = total /\ ~repeated

CloseFeed ==
  /\ stage = "closing"
  /\ unreconciled' =
       unreconciled \cup (IF Feeds[feed] \in Primary /\ ~Reconciles THEN {feed} ELSE {})
  /\ settled' = settled \cup (IF Feeds[feed] \in Primary THEN steady ELSE {})
  /\ stage' = IF feed < Len(Feeds) THEN "opening" ELSE "complete"
  /\ feed' = IF feed < Len(Feeds) THEN feed + 1 ELSE feed
  /\ UNCHANGED <<traversal, found, site, steady, arrivals, changes>>

CensusNext == OpenFeed \/ FeedChanges \/ FetchRows \/ CensusRaises \/ CloseFeed

\* If every primary feed reconciles, nothing they listed throughout is missing
\* from the census, rows that were refused included, but for as many as arrived
\* while they were read.
CensusMissesAtMostArrivals ==
  stage = "complete" /\ unreconciled = {} =>
    Cardinality(settled \ Shown(found)) <= arrivals
=================================================================================

------------------------------ MODULE AuditProofs ------------------------------
(***************************************************************************)
(* The read-only commands, proved for every catalogue, number of feeds,    *)
(* page size, class and selection: what a census can miss, what an exit    *)
(* code of 0 says, and how many requests are not spaced.                   *)
(***************************************************************************)
EXTENDS CoverageAudit, SiteProofs

(***************************************************************************)
(* The census.                                                             *)
(***************************************************************************)
CensusTypes ==
  /\ stage \in {"opening", "paging", "closing", "complete", "raised"}
  /\ feed \in DOMAIN Feeds /\ unreconciled \subseteq DOMAIN Feeds
  /\ index \in 0..MaxFeedPages /\ rows \in Nat /\ total \in Nat \cup {None}
  /\ repeated \in BOOLEAN
  /\ found \in Seq(Item) /\ ids \subseteq Shown(found)
  /\ site \in Seq(Item) /\ Distinct(site) /\ steady \subseteq Shown(site)
  /\ settled \subseteq Item
  /\ changes \in 0..MaxChanges /\ arrivals \in 0..changes
  /\ stage = "closing" => total # None
  /\ total = None => ids = {}

\* What the closed feeds listed throughout and the census does not have.
Lost == settled \ Shown(found)

\* A feed that was opened may yet lose what it lists now beyond its total.
CensusCount ==
  unreconciled = {} =>
    /\ Cardinality(Lost) <= arrivals
    /\ stage \in {"paging", "closing"} /\ total # None =>
         Cardinality(Lost) + Cardinality(Shown(site) \cup ids) <= total + arrivals

CensusInv == CensusTypes /\ CensusCount

LEMMA CensusFacts ==
  ASSUME CensusTypes
  PROVE  /\ arrivals \in Nat /\ changes \in Nat /\ index \in Nat
         /\ IsFiniteSet(Lost) /\ Cardinality(Lost) \in Nat
         /\ Shown(found) \subseteq Item /\ Shown(site) \subseteq Item
         /\ IsFiniteSet(Shown(site) \cup ids) /\ Cardinality(Shown(site) \cup ids) \in Nat
         /\ Cardinality(Shown(site)) = Len(site) /\ Len(site) \in Nat
         /\ IsFiniteSet(Shown(site)) /\ Cardinality(Shown(site)) \in Nat
  <1>1. Shown(found) \subseteq Item /\ Shown(site) \subseteq Item
    BY ShownInRange DEF CensusTypes
  <1>2. Lost \subseteq Item /\ Shown(site) \cup ids \subseteq Item
    BY <1>1 DEF CensusTypes, Lost
  <1>3. IsFiniteSet(Lost) /\ Cardinality(Lost) \in Nat
    BY <1>2, FiniteItemAssumption, CountWithin
  <1>4. IsFiniteSet(Shown(site) \cup ids) /\ Cardinality(Shown(site) \cup ids) \in Nat
    BY <1>2, FiniteItemAssumption, CountWithin
  <1>5. /\ Cardinality(Shown(site)) = Len(site) /\ Len(site) \in Nat
        /\ IsFiniteSet(Shown(site)) /\ Cardinality(Shown(site)) \in Nat
    BY ShownCount, LenProperties DEF CensusTypes
  <1>6. arrivals \in Nat /\ changes \in Nat /\ index \in Nat
    BY PagesAssumption, BoundAssumption DEF CensusTypes
  <1> QED BY <1>1, <1>3, <1>4, <1>5, <1>6

LEMMA CensusStarts == CensusInit => CensusInv
  <1> SUFFICES ASSUME CensusInit PROVE CensusInv
    OBVIOUS
  <1>1. <<>> \in Seq(Item) /\ DOMAIN <<>> = {} /\ Shown(<<>>) = {}
    BY EmptySeq, LenProperties DEF Shown
  <1>2. 1 \in DOMAIN Feeds
    BY FeedsAssumption, LenProperties, EmptySeq
  <1>3. CensusTypes
    <2>1. Distinct(site) /\ Shown(site) = {} /\ Shown(found) = {}
      BY <1>1 DEF CensusInit, Distinct
    <2>2. 0 \in 0..MaxFeedPages /\ 0 \in 0..MaxChanges /\ 0 \in 0..0
      BY PagesAssumption, BoundAssumption
    <2> QED BY <1>1, <1>2, <2>1, <2>2 DEF CensusInit, CensusTypes
  <1>4. Cardinality(Lost) = 0
    BY FS_EmptySet DEF Lost, CensusInit
  <1>5. CensusCount
    BY <1>4 DEF CensusInit, CensusCount
  <1> QED BY <1>3, <1>5 DEF CensusInv

LEMMA CensusOpens ==
  ASSUME CensusInv, OpenFeed
  PROVE  CensusInv'
  <1>1. site' \in Seq(Item) /\ Distinct(site')
    BY BoundAssumption, SiteFacts DEF OpenFeed
  <1>2. CensusTypes'
    <2>1. Distinct(site)' /\ (steady \subseteq Shown(site))' /\ Shown(found)' = Shown(found)
      BY <1>1 DEF OpenFeed, Distinct, Shown
    <2>2. 0 \in 0..MaxFeedPages
      BY PagesAssumption
    <2> QED BY <1>1, <2>1, <2>2 DEF CensusInv, CensusTypes, OpenFeed
  <1>3. Lost' = Lost /\ total' = None /\ arrivals' = arrivals /\ unreconciled' = unreconciled
    BY DEF OpenFeed, Lost, Shown
  <1> QED BY <1>2, <1>3 DEF CensusInv, CensusCount

\* What one page of rows does.
LEMMA FetchedFacts ==
  ASSUME CensusTypes, FetchRows
  PROVE  /\ stage = "paging" /\ stage' \in {"paging", "closing"}
         /\ UNCHANGED <<feed, unreconciled, site, steady, settled, arrivals, changes>>
         /\ index' \in 0..MaxFeedPages /\ rows' \in Nat /\ repeated' \in BOOLEAN
         /\ total \in {None, Len(site)} /\ total' = Len(site) /\ Len(site) \in Nat
         /\ found' \in Seq(Item) /\ Shown(found) \subseteq Shown(found')
         /\ ids' \subseteq ids \cup Shown(site) /\ ids' \subseteq Shown(found')
  <1> DEFINE page == Page(site, index)
             items == Filtered(page, Accepted)
             fresh == Filtered(items, Item \ Shown(found))
  <1>1. /\ found \in Seq(Item) /\ site \in Seq(Item) /\ rows \in Nat
        /\ index \in Nat /\ MaxFeedPages \in Nat /\ Len(site) \in Nat
    BY PagesAssumption, LenProperties DEF CensusTypes
  <1>2. page \in Seq(Item) /\ Len(page) \in Nat /\ Shown(page) \subseteq Shown(site)
    BY <1>1, PageFacts
  <1>3. items \in Seq(Item \cap Accepted) /\ Shown(items) = Shown(page) \cap Accepted
    BY <1>2, FilteredFacts
  <1>4. items \in Seq(Item)
    BY <1>3, SeqMonotonic
  <1>5. /\ fresh \in Seq(Item \cap (Item \ Shown(found)))
        /\ Shown(fresh) = Shown(items) \cap (Item \ Shown(found))
    BY <1>4, FilteredFacts
  <1>6. fresh \in Seq(Item)
    BY <1>5, SeqMonotonic
  <1>7. Shown(found \o fresh) = Shown(found) \cup Shown(fresh) /\ found \o fresh \in Seq(Item)
    BY <1>1, <1>6, ConcatShown, ConcatProperties
  <1>8. /\ Shown(items) \subseteq Shown(site) /\ Shown(items) \subseteq Shown(found \o fresh)
        /\ Shown(found) \subseteq Shown(found \o fresh)
    BY <1>2, <1>3, <1>4, <1>5, <1>7, ShownInRange
  <1>9. /\ stage = "paging" /\ stage' \in {"paging", "closing"}
        /\ UNCHANGED <<feed, unreconciled, site, steady, settled, arrivals, changes>>
        /\ index' = index + 1 /\ index < MaxFeedPages /\ rows' = rows + Len(page)
        /\ repeated' \in BOOLEAN /\ total \in {None, Len(site)} /\ total' = Len(site)
        /\ \/ ids' = ids /\ found' = found
           \/ ids' = ids \cup Shown(items) /\ found' = found \o fresh
    BY DEF FetchRows, feeds
  <1> HIDE DEF page, items, fresh
  <1>10. index' \in 0..MaxFeedPages /\ rows' \in Nat
    BY <1>1, <1>2, <1>9
  <1>11. found' \in Seq(Item) /\ Shown(found) \subseteq Shown(found')
    BY <1>1, <1>7, <1>8, <1>9
  <1>12. ids \subseteq Shown(found)
    BY DEF CensusTypes
  <1>13. ids' \subseteq ids \cup Shown(site) /\ ids' \subseteq Shown(found')
    BY <1>8, <1>9, <1>12
  <1> QED BY <1>1, <1>9, <1>10, <1>11, <1>13

LEMMA CensusFetches ==
  ASSUME CensusInv, FetchRows
  PROVE  CensusInv'
  <1>1. CensusTypes
    BY DEF CensusInv
  <1>2. /\ stage = "paging" /\ stage' \in {"paging", "closing"}
        /\ UNCHANGED <<feed, unreconciled, site, steady, settled, arrivals, changes>>
        /\ index' \in 0..MaxFeedPages /\ rows' \in Nat /\ repeated' \in BOOLEAN
        /\ total \in {None, Len(site)} /\ total' = Len(site) /\ Len(site) \in Nat
        /\ found' \in Seq(Item) /\ Shown(found) \subseteq Shown(found')
        /\ ids' \subseteq ids \cup Shown(site) /\ ids' \subseteq Shown(found')
    BY <1>1, FetchedFacts
  <1>3. total' # None
    BY <1>2, NoneAssumption
  <1>4. CensusTypes'
    BY <1>1, <1>2, <1>3 DEF CensusTypes, Distinct, Shown
  <1>5. IsFiniteSet(Lost) /\ Lost' \subseteq Lost
    BY <1>1, <1>2, CensusFacts DEF Lost, Shown
  <1>6. /\ Cardinality(Lost') \in Nat /\ Cardinality(Lost) \in Nat
        /\ Cardinality(Lost') <= Cardinality(Lost)
    BY <1>5, CountWithin
  <1>7. SUFFICES ASSUME unreconciled = {}
                 PROVE  /\ Cardinality(Lost') <= arrivals
                        /\ Cardinality(Lost') + Cardinality((Shown(site) \cup ids)')
                             <= Len(site) + arrivals
    BY <1>2, <1>4 DEF CensusInv, CensusCount
  <1>8. Cardinality(Lost) <= arrivals /\ arrivals \in Nat
    BY <1>1, <1>7, CensusFacts DEF CensusInv, CensusCount
  <1>9. Cardinality(Lost') <= arrivals
    BY <1>6, <1>8
  <1>10. (Shown(site) \cup ids)' \subseteq Shown(site) \cup ids
    BY <1>2 DEF Shown
  <1>11. /\ Cardinality((Shown(site) \cup ids)') \in Nat
         /\ Cardinality(Shown(site) \cup ids) \in Nat
         /\ Cardinality((Shown(site) \cup ids)') <= Cardinality(Shown(site) \cup ids)
    <2>1. IsFiniteSet(Shown(site) \cup ids)
      BY <1>1, CensusFacts
    <2> QED BY <1>10, <2>1, CountWithin
  <1>12. CASE total = None
    <2>1. ids = {} /\ Shown(site) \cup ids = Shown(site)
      BY <1>1, <1>12 DEF CensusTypes
    <2>2. Cardinality(Shown(site) \cup ids) = Len(site)
      BY <1>1, <2>1, CensusFacts
    <2> QED BY <1>2, <1>6, <1>8, <1>9, <1>11, <2>2
  <1>13. CASE total # None
    <2>1. total = Len(site)
      BY <1>2, <1>13
    <2>2. Cardinality(Lost) + Cardinality(Shown(site) \cup ids) <= Len(site) + arrivals
      BY <1>2, <1>7, <1>13, <2>1 DEF CensusInv, CensusCount
    <2> QED BY <1>2, <1>6, <1>8, <1>9, <1>11, <2>2
  <1> QED BY <1>12, <1>13

LEMMA CensusChanges ==
  ASSUME CensusInv, FeedChanges
  PROVE  CensusInv'
  <1>1. /\ CensusTypes /\ site \in Seq(Item) /\ Distinct(site)
    BY DEF CensusInv, CensusTypes
  <1>2. /\ stage = "paging" /\ stage' = stage /\ changes < MaxChanges /\ changes' = changes + 1
        /\ UNCHANGED <<feed, traversal, found, unreconciled, settled>>
        /\ steady' = steady \cap Shown(site')
        /\ \/ site' \in Arrivals(site) /\ arrivals' = arrivals + 1
           \/ site' \in Departures(site) /\ arrivals' = arrivals
    BY DEF FeedChanges
  <1>3. site' \in Seq(Item) /\ Distinct(site')
    BY <1>1, <1>2, ArrivalFacts, DepartureFacts
  <1>4. changes' \in 0..MaxChanges /\ arrivals' \in 0..changes'
    <2>1. arrivals \in 0..changes /\ changes \in 0..MaxChanges /\ MaxChanges \in Nat
      BY <1>1, BoundAssumption DEF CensusTypes
    <2>2. arrivals' \in {arrivals, arrivals + 1}
      BY <1>2
    <2> QED BY <1>2, <2>1, <2>2
  <1>5. CensusTypes'
    <2>1. /\ Distinct(site)' /\ (steady \subseteq Shown(site))' /\ Shown(found)' = Shown(found)
          /\ index' = index /\ total' = total /\ rows' = rows /\ ids' = ids
          /\ repeated' = repeated
      BY <1>2, <1>3 DEF traversal, Distinct, Shown
    <2> QED BY <1>1, <1>2, <1>3, <1>4, <2>1 DEF CensusTypes
  <1>6. /\ Lost' = Lost /\ total' = total /\ unreconciled' = unreconciled
        /\ (Shown(site) \cup ids)' = Shown(site') \cup ids
    BY <1>2 DEF traversal, Lost, Shown
  <1>7. /\ arrivals \in Nat /\ Cardinality(Lost) \in Nat
        /\ IsFiniteSet(Shown(site) \cup ids) /\ Cardinality(Shown(site) \cup ids) \in Nat
    BY <1>1, CensusFacts
  <1>8. SUFFICES ASSUME unreconciled = {}
                 PROVE  /\ Cardinality(Lost) <= arrivals'
                        /\ total # None => Cardinality(Lost) + Cardinality(Shown(site') \cup ids)
                                             <= total + arrivals'
    BY <1>2, <1>5, <1>6 DEF CensusInv, CensusCount
  <1>9. /\ Cardinality(Lost) <= arrivals
        /\ total # None =>
             /\ total \in Nat
             /\ Cardinality(Lost) + Cardinality(Shown(site) \cup ids) <= total + arrivals
    BY <1>1, <1>2, <1>8 DEF CensusInv, CensusCount, CensusTypes
  <1>10. CASE site' \in Arrivals(site) /\ arrivals' = arrivals + 1
    <2>1. PICK x \in Item : Shown(site') = Shown(site) \cup {x}
      BY <1>1, <1>10, ArrivalFacts
    <2>2. Shown(site') \cup ids \subseteq (Shown(site) \cup ids) \cup {x}
      BY <2>1
    <2>3. /\ Cardinality(Shown(site') \cup ids) \in Nat
          /\ Cardinality(Shown(site') \cup ids) <= Cardinality(Shown(site) \cup ids) + 1
      BY <1>7, <2>2, CountOneMore
    <2> QED BY <1>7, <1>9, <1>10, <2>3
  <1>11. CASE site' \in Departures(site) /\ arrivals' = arrivals
    <2>1. Shown(site') \cup ids \subseteq Shown(site) \cup ids
      BY <1>1, <1>11, DepartureFacts
    <2>2. /\ Cardinality(Shown(site') \cup ids) \in Nat
          /\ Cardinality(Shown(site') \cup ids) <= Cardinality(Shown(site) \cup ids)
      BY <1>7, <2>1, CountWithin
    <2> QED BY <1>7, <1>9, <1>11, <2>2
  <1> QED BY <1>2, <1>10, <1>11

\* A feed that reconciles found as many identities as it announced.
LEMMA CensusCloses ==
  ASSUME CensusInv, CloseFeed
  PROVE  CensusInv'
  <1>1. /\ CensusTypes /\ found \in Seq(Item) /\ ids \subseteq Shown(found)
        /\ steady \subseteq Shown(site) /\ total \in Nat
    BY DEF CensusInv, CensusTypes, CloseFeed
  <1>2. /\ stage = "closing" /\ stage' \in {"opening", "complete"}
        /\ unreconciled' =
             unreconciled \cup (IF Feeds[feed] \in Primary /\ ~Reconciles THEN {feed} ELSE {})
        /\ settled' = settled \cup (IF Feeds[feed] \in Primary THEN steady ELSE {})
        /\ UNCHANGED <<traversal, found, site, steady, arrivals, changes>>
        /\ feed' = IF feed < Len(Feeds) THEN feed + 1 ELSE feed
    BY DEF CloseFeed
  <1>3. CensusTypes'
    <2>1. feed' \in DOMAIN Feeds /\ unreconciled' \subseteq DOMAIN Feeds
      <3>1. DOMAIN Feeds = 1..Len(Feeds) /\ Len(Feeds) \in Nat
        BY FeedsAssumption, LenProperties
      <3>2. feed \in DOMAIN Feeds /\ unreconciled \subseteq DOMAIN Feeds
        BY <1>1 DEF CensusTypes
      <3> QED BY <1>2, <3>1, <3>2
    <2>2. settled' \subseteq Item
      BY <1>1, <1>2, CensusFacts DEF CensusTypes
    <2>3. /\ Distinct(site)' /\ Shown(site)' = Shown(site) /\ Shown(found)' = Shown(found)
          /\ index' = index /\ total' = total /\ rows' = rows /\ ids' = ids
          /\ repeated' = repeated
      BY <1>1, <1>2 DEF traversal, Distinct, Shown, CensusTypes
    <2> QED BY <1>1, <1>2, <2>1, <2>2, <2>3 DEF CensusTypes
  <1>4. SUFFICES ASSUME unreconciled' = {} PROVE Cardinality(Lost') <= arrivals
    BY <1>2, <1>3 DEF CensusInv, CensusCount
  <1>5. unreconciled = {} /\ (Feeds[feed] \in Primary => Reconciles)
    BY <1>2, <1>4
  <1>6. Shown(found') = Shown(found) /\ arrivals \in Nat /\ IsFiniteSet(Lost)
    BY <1>1, <1>2, CensusFacts DEF Shown
  <1>7. CASE Feeds[feed] \notin Primary
    <2>1. Lost' = Lost
      BY <1>2, <1>6, <1>7 DEF Lost
    <2> QED BY <1>5, <2>1 DEF CensusInv, CensusCount
  <1>8. CASE Feeds[feed] \in Primary
    <2> DEFINE unseen == Shown(site) \ ids
    <2>1. Cardinality(ids) = total
      BY <1>5, <1>8 DEF Reconciles
    <2>2. Cardinality(Lost) + Cardinality(Shown(site) \cup ids) <= total + arrivals
      BY <1>1, <1>2, <1>5, NoneAssumption DEF CensusInv, CensusCount
    <2>3. /\ IsFiniteSet(Shown(site) \cup ids) /\ Cardinality(Lost) \in Nat
          /\ IsFiniteSet(Shown(site))
      BY <1>1, CensusFacts
    <2>4. /\ IsFiniteSet(ids) /\ IsFiniteSet(unseen)
          /\ Cardinality(unseen) \in Nat
      BY <2>3, CountWithin
    <2>5. unseen \cap ids = {} /\ unseen \cup ids = Shown(site) \cup ids
      OBVIOUS
    <2>6. Cardinality(Shown(site) \cup ids) = Cardinality(unseen) + Cardinality(ids)
      BY <2>4, <2>5, CountUnion
    <2>7. Lost' \subseteq Lost \cup unseen
      BY <1>1, <1>2, <1>6 DEF Lost
    <2>8. /\ IsFiniteSet(Lost \cup unseen) /\ Cardinality(Lost \cup unseen) \in Nat
          /\ Cardinality(Lost \cup unseen) <= Cardinality(Lost) + Cardinality(unseen)
      BY <1>6, <2>4, CountUnion
    <2>9. Cardinality(Lost') \in Nat /\ Cardinality(Lost') <= Cardinality(Lost \cup unseen)
      BY <2>7, <2>8, CountWithin
    <2> HIDE DEF unseen
    <2> QED BY <1>1, <1>6, <2>1, <2>2, <2>3, <2>4, <2>6, <2>8, <2>9
  <1> QED BY <1>7, <1>8

LEMMA CensusStep ==
  ASSUME CensusInv, CensusNext \/ UNCHANGED census
  PROVE  CensusInv'
  <1>1. CASE CensusRaises \/ UNCHANGED census
    <2>1. /\ UNCHANGED <<feed, traversal, found, unreconciled, feeds>>
          /\ stage' \in {"raised", stage}
      BY <1>1 DEF CensusRaises, census
    <2>2. /\ index' = index /\ total' = total /\ rows' = rows /\ ids' = ids
          /\ repeated' = repeated /\ site' = site /\ steady' = steady
          /\ settled' = settled /\ arrivals' = arrivals /\ changes' = changes
          /\ found' = found /\ unreconciled' = unreconciled /\ feed' = feed
      BY <2>1 DEF traversal, feeds
    <2>3. /\ Distinct(site)' = Distinct(site) /\ Shown(site)' = Shown(site)
          /\ Shown(found)' = Shown(found) /\ Lost' = Lost
      BY <2>2 DEF Distinct, Shown, Lost
    <2>4. CensusTypes'
      BY <2>1, <2>2, <2>3 DEF CensusInv, CensusTypes
    <2>5. CensusCount'
      BY <2>1, <2>2, <2>3 DEF CensusInv, CensusCount
    <2> QED BY <2>4, <2>5 DEF CensusInv
  <1> QED
    BY <1>1, CensusOpens, CensusChanges, CensusFetches, CensusCloses DEF CensusNext

(***************************************************************************)
(* The kinds of steps of the two commands.                                 *)
(***************************************************************************)
\* What becomes of a candidate: it is read, it is asked for, it is passed over.
Reading == {"captured", "missed", "outside"}
Visited == Reading \cup {"refused", "unfetched", "malformed", "mismatch"}
Result == Visited \cup {"unselected", "skipped", "duplicate"}

AuditTypes ==
  /\ selection \in Selections
  /\ pc \in {"listing", "details", "done"} /\ domain \in 1..7
  /\ queue \in Seq(Item) /\ outcomes \in Seq(Result) /\ Len(outcomes) <= Len(queue)
  /\ failures \in [Class -> 0..3]
  /\ blocked = {c \in Class : failures[c] = 3}
  /\ paced \in BOOLEAN /\ unpaced \in Nat
  /\ exit \in {None, 0, 1}
  /\ pc # "done" => exit = None
  /\ pc = "listing" => /\ outcomes = <<>> /\ ~paced /\ unpaced = 0
                       /\ \A c \in Class : failures[c] = 0

\* The listing of a domain is read, or the last one was.
Lists ==
  /\ pc = "listing"
  /\ queue' \in Seq(Item) /\ Shown(queue) \subseteq Shown(queue')
  /\ \/ pc' = "listing" /\ domain' \in {domain, domain + 1} /\ domain <= 6 /\ exit' = exit
     \/ pc' = "details" /\ domain' = domain /\ domain > 6 /\ exit' = exit
     \/ /\ pc' = "done" /\ domain' = domain /\ exit' \in {0, 1}
        /\ exit' = 0 => selection.command = "breadth"
  /\ UNCHANGED <<selection, outcomes, failures, blocked, paced, unpaced>>

\* A candidate gets its outcome.
Visits ==
  /\ Visiting /\ pc' = pc
  /\ UNCHANGED <<census, selection, domain, queue, exit>>
  /\ \E result \in Result :
       /\ outcomes' = Append(outcomes, result)
       /\ result = "duplicate" => Seen
       /\ result = "unselected" => Position \notin Chosen
  /\ \/ UNCHANGED <<failures, blocked, paced, unpaced>>
     \/ /\ ThisClass \notin blocked /\ Request
        /\ failures' = [failures EXCEPT ![ThisClass] = @ + 1]
        /\ blocked' = blocked \cup (IF TooMany(failures'[ThisClass]) THEN {ThisClass} ELSE {})
        /\ paced' = paced
     \/ /\ ThisClass \notin blocked /\ Request
        /\ failures' = [failures EXCEPT ![ThisClass] = 0]
        /\ blocked' = blocked /\ paced' = TRUE

LEMMA DomainNames ==
  /\ Len(Domains) = 6
  /\ \A k \in 1..6 : Domains[k] = "courses" <=> k = 1
  /\ \A k \in 1..6 : Domains[k] # "courses" =>
       Domains[k] \in {"scholarships", "jobs", "accommodation", "support", "events"}
  BY DEF Domains

LEMMA ListKinds ==
  ASSUME CensusTypes, AuditTypes,
         SkipDomain \/ ReadCatalogue \/ JudgeCatalogue \/ ReadListing \/ Listed
  PROVE  Lists
  <1>1. queue \in Seq(Item) /\ found \in Seq(Item) /\ exit = exit
    BY DEF AuditTypes, CensusTypes
  <1>2. CASE SkipDomain \/ ReadCatalogue
    BY <1>1, <1>2, DomainNames
    DEF SkipDomain, ReadCatalogue, Listing, NextDomain, audit, Lists, Shown
  <1>3. CASE JudgeCatalogue
    <2>1. /\ queue \o found \in Seq(Item)
          /\ Shown(queue) \subseteq Shown(queue \o found)
      BY <1>1, ConcatProperties, ConcatShown
    <2>2. /\ pc = "listing" /\ domain <= 6
          /\ UNCHANGED <<selection, outcomes, failures, blocked, paced, unpaced>>
          /\ \/ pc' = "done" /\ exit' = 1 /\ domain' = domain /\ queue' = queue
             \/ /\ queue' = queue \o found
                /\ domain' = domain + 1 /\ pc' = pc /\ exit' = exit
      BY <1>3, DomainNames DEF JudgeCatalogue, Listing, Exit, NextDomain
    <2>3. CASE pc' = "done" /\ exit' = 1 /\ domain' = domain /\ queue' = queue
      BY <1>1, <2>2, <2>3 DEF Lists, Shown
    <2>4. CASE queue' = queue \o found /\ domain' = domain + 1 /\ pc' = pc /\ exit' = exit
      <3>1. Shown(queue)' = Shown(queue \o found)
        BY <2>4 DEF Shown
      <3>2. queue' \in Seq(Item) /\ Shown(queue) \subseteq Shown(queue)'
        BY <2>1, <2>4, <3>1
      <3> QED BY <2>2, <2>4, <3>2 DEF Lists, Shown
    <2> QED BY <2>2, <2>3, <2>4
  <1>4. CASE ReadListing
    <2> DEFINE d == Domains[domain]
    <2>1. /\ pc = "listing" /\ domain <= 6 /\ domain \in 1..6 /\ d # "courses"
          /\ UNCHANGED <<selection, outcomes, failures, blocked, paced, unpaced>>
      BY <1>4, DomainNames DEF ReadListing, Listing, AuditTypes
    <2>2. Details[d] \in Seq(Item) /\ Len(Details[d]) \in Nat
      BY <2>1, DomainNames, DetailsAssumption, LenProperties
    <2>3. \E n \in 0..Len(Details[d]) :
            \/ pc' = "done" /\ exit' = 1 /\ domain' = domain /\ queue' = queue
            \/ /\ queue' \in {queue, queue \o SubSeq(Details[d], 1, n)}
               /\ domain' = domain + 1 /\ pc' = pc /\ exit' = exit
      BY <1>4 DEF ReadListing, Exit, NextDomain
    <2>4. PICK n \in 0..Len(Details[d]) :
            \/ pc' = "done" /\ exit' = 1 /\ domain' = domain /\ queue' = queue
            \/ /\ queue' \in {queue, queue \o SubSeq(Details[d], 1, n)}
               /\ domain' = domain + 1 /\ pc' = pc /\ exit' = exit
      BY <2>3
    <2> DEFINE more == SubSeq(Details[d], 1, n)
    <2>5. more \in Seq(Item)
      BY <2>2, SubSeqProperties
    <2> HIDE DEF more, d
    <2>6. queue \o more \in Seq(Item) /\ Shown(queue) \subseteq Shown(queue \o more)
      BY <1>1, <2>5, ConcatProperties, ConcatShown
    <2>7. CASE queue' = queue
      BY <1>1, <2>1, <2>4, <2>7 DEF Lists, Shown
    <2>8. CASE queue' = queue \o more /\ domain' = domain + 1 /\ pc' = pc /\ exit' = exit
      <3>1. Shown(queue)' = Shown(queue \o more)
        BY <2>8 DEF Shown
      <3>2. queue' \in Seq(Item) /\ Shown(queue) \subseteq Shown(queue)'
        BY <2>6, <2>8, <3>1
      <3> QED BY <2>1, <2>8, <3>2 DEF Lists, Shown
    <2> QED BY <2>4, <2>7, <2>8 DEF more
  <1>5. CASE Listed
    BY <1>1, <1>5, DomainNames DEF Listed, Exit, Lists, AuditTypes
  <1> QED BY <1>2, <1>3, <1>4, <1>5

LEMMA VisitKinds ==
  ASSUME Pass \/ Refuse \/ FetchFails \/ Read
  PROVE  Visits
  <1>1. CASE Pass
    BY <1>1 DEF Pass, Visits, Visiting, Result
  <1>2. CASE Refuse
    BY <1>2 DEF Refuse, Due, Visits, Visiting, Result, Visited
  <1>3. CASE FetchFails
    BY <1>3 DEF FetchFails, Due, Visits, Visiting, Result, Visited
  <1>4. CASE Read
    BY <1>4 DEF Read, Due, Visits, Visiting, Result, Visited, Reading
  <1> QED BY <1>1, <1>2, <1>3, <1>4

Ends == Raises \/ Finish

LEMMA VisitFacts ==
  ASSUME AuditTypes, Visiting
  PROVE  /\ pc = "details" /\ exit = None
         /\ Position \in 1..Len(queue) /\ Position = Len(outcomes) + 1
         /\ Len(queue) \in Nat /\ Len(outcomes) \in Nat
         /\ DOMAIN queue = 1..Len(queue) /\ DOMAIN outcomes = 1..Len(outcomes)
         /\ queue[Position] \in Item /\ ThisClass \in Class
         /\ failures[ThisClass] \in 0..3
         /\ ThisClass \notin blocked => failures[ThisClass] \in 0..2
  <1>1. /\ queue \in Seq(Item) /\ outcomes \in Seq(Result) /\ pc = "details" /\ exit = None
        /\ Position \in DOMAIN queue
    BY DEF AuditTypes, Visiting
  <1>2. /\ Len(queue) \in Nat /\ Len(outcomes) \in Nat
        /\ DOMAIN queue = 1..Len(queue) /\ DOMAIN outcomes = 1..Len(outcomes)
    BY <1>1, LenProperties
  <1>3. queue[Position] \in Item
    BY <1>1, <1>2, ElementOfSeq
  <1>4. ThisClass \in Class
    BY <1>3, ClassAssumption DEF ThisClass
  <1>5. failures[ThisClass] \in 0..3
    BY <1>4 DEF AuditTypes
  <1>6. ThisClass \notin blocked => failures[ThisClass] # 3
    BY <1>4 DEF AuditTypes
  <1> QED BY <1>1, <1>2, <1>3, <1>4, <1>5, <1>6 DEF Position

LEMMA VisitTypes ==
  ASSUME AuditTypes, Visits
  PROVE  AuditTypes'
  <1>1. Visiting /\ UNCHANGED <<pc, selection, domain, queue, exit>>
    BY DEF Visits
  <1>2. PICK result \in Result : outcomes' = Append(outcomes, result)
    BY DEF Visits
  <1>3. outcomes' \in Seq(Result) /\ Len(outcomes') = Len(outcomes) + 1
    BY <1>2, AppendProperties DEF AuditTypes
  <1>4. Len(outcomes') <= Len(queue')
    BY <1>1, <1>3, VisitFacts
  <1>5. /\ failures' \in [Class -> 0..3]
        /\ blocked' = {c \in Class : failures'[c] = 3}
        /\ paced' \in BOOLEAN /\ unpaced' \in Nat
    <2> DEFINE c == ThisClass
               n == failures[c]
    <2>1. CASE UNCHANGED <<failures, blocked, paced, unpaced>>
      BY <2>1 DEF AuditTypes
    <2>2. CASE /\ c \notin blocked /\ Request
               /\ failures' = [failures EXCEPT ![c] = @ + 1]
               /\ blocked' = blocked \cup (IF TooMany(failures'[c]) THEN {c} ELSE {})
               /\ paced' = paced
      <3>1. c \in Class /\ n \in 0..2
        BY <1>1, <2>2, VisitFacts
      <3> HIDE DEF c
      <3>2. failures' \in [Class -> 0..3] /\ failures'[c] = n + 1
        BY <2>2, <3>1 DEF AuditTypes
      <3>3. \A k \in Class : k # c => failures'[k] = failures[k]
        BY <2>2, <3>1 DEF AuditTypes
      <3>4. blocked' = {k \in Class : failures'[k] = 3}
        <4>1. blocked' = blocked \cup (IF n + 1 >= 3 THEN {c} ELSE {})
          BY <2>2, <3>2 DEF TooMany
        <4>2. n + 1 >= 3 <=> failures'[c] = 3
          BY <3>1, <3>2
        <4> QED BY <2>2, <3>1, <3>3, <4>1, <4>2 DEF AuditTypes
      <3>5. paced' \in BOOLEAN /\ unpaced' \in Nat
        BY <2>2 DEF AuditTypes, Request
      <3> QED BY <3>2, <3>4, <3>5
    <2>3. CASE /\ c \notin blocked /\ Request
               /\ failures' = [failures EXCEPT ![c] = 0]
               /\ blocked' = blocked /\ paced' = TRUE
      <3>1. c \in Class /\ n \in 0..2
        BY <1>1, <2>3, VisitFacts
      <3> HIDE DEF c
      <3>2. failures' \in [Class -> 0..3] /\ failures'[c] = 0
        BY <2>3, <3>1 DEF AuditTypes
      <3>3. \A k \in Class : k # c => failures'[k] = failures[k]
        BY <2>3, <3>1 DEF AuditTypes
      <3>4. blocked' = {k \in Class : failures'[k] = 3}
        BY <2>3, <3>1, <3>2, <3>3 DEF AuditTypes
      <3>5. paced' \in BOOLEAN /\ unpaced' \in Nat
        BY <2>3 DEF AuditTypes, Request
      <3> QED BY <3>2, <3>4, <3>5
    <2> QED BY <2>1, <2>2, <2>3 DEF Visits
  <1>6. pc = "details" /\ exit = None
    BY <1>1, VisitFacts
  <1> QED BY <1>1, <1>3, <1>4, <1>5, <1>6 DEF AuditTypes

LEMMA ListTypes ==
  ASSUME AuditTypes, Lists
  PROVE  AuditTypes'
  <1>1. /\ pc = "listing" /\ exit = None /\ outcomes = <<>> /\ ~paced /\ unpaced = 0
        /\ \A c \in Class : failures[c] = 0
    BY DEF AuditTypes, Lists
  <1>2. /\ UNCHANGED <<selection, outcomes, failures, blocked, paced, unpaced>>
        /\ queue' \in Seq(Item)
        /\ pc' \in {"listing", "details", "done"}
        /\ pc' # "done" => exit' = None
        /\ exit' \in {None, 0, 1}
    BY <1>1 DEF Lists
  <1>3. domain' \in 1..7
    <2>1. domain \in 1..7
      BY DEF AuditTypes
    <2> QED BY <2>1 DEF Lists
  <1>4. Len(outcomes') = 0 /\ Len(queue') \in Nat
    BY <1>1, <1>2, LenProperties
  <1> QED BY <1>1, <1>2, <1>3, <1>4 DEF AuditTypes

LEMMA EndTypes ==
  ASSUME AuditTypes, Ends \/ UNCHANGED audit
  PROVE  AuditTypes'
  <1>1. /\ UNCHANGED <<selection, domain, queue, outcomes, failures, blocked, paced, unpaced>>
        /\ \/ pc' = "done" /\ exit' \in {0, 1}
           \/ UNCHANGED <<pc, exit>>
    BY DEF Ends, Raises, Finish, Exit, audit
  <1> QED BY <1>1 DEF AuditTypes

LEMMA StepKinds ==
  ASSUME CensusTypes, AuditTypes, Next \/ UNCHANGED vars
  PROVE  /\ CensusNext \/ UNCHANGED census
         /\ (Lists \/ Visits \/ Ends \/ UNCHANGED audit)
         /\ ~Lists => UNCHANGED queue
  <1>1. CASE SkipDomain \/ ReadCatalogue \/ JudgeCatalogue \/ ReadListing \/ Listed
    <2>1. Lists
      BY <1>1, ListKinds
    <2>2. CensusNext \/ UNCHANGED census
      BY <1>1 DEF SkipDomain, ReadCatalogue, JudgeCatalogue, ReadListing, Listed
    <2> QED BY <2>1, <2>2
  <1>2. CASE Pass \/ Refuse \/ FetchFails \/ Read
    BY <1>2, VisitKinds DEF Visits
  <1>3. CASE Raises \/ Finish
    BY <1>3 DEF Ends, Raises, Finish
  <1>4. CASE UNCHANGED vars
    BY <1>4 DEF vars, audit
  <1> QED BY <1>1, <1>2, <1>3, <1>4 DEF Next

AuditInv == CensusInv /\ AuditTypes

LEMMA AuditStarts == Init => AuditInv
  <1> SUFFICES ASSUME Init PROVE AuditInv
    OBVIOUS
  <1>1. CensusInv
    BY CensusStarts DEF Init
  <1>2. queue \in Seq(Item) /\ outcomes \in Seq(Result) /\ Len(outcomes) <= Len(queue)
    BY EmptySeq DEF Init
  <1>3. /\ failures \in [Class -> 0..3] /\ \A c \in Class : failures[c] = 0
        /\ blocked = {}
    BY DEF Init
  <1>4. blocked = {c \in Class : failures[c] = 3}
    BY <1>3
  <1>5. AuditTypes
    <2>1. /\ selection \in Selections /\ pc = "listing" /\ domain = 1 /\ outcomes = <<>>
          /\ paced = FALSE /\ unpaced = 0 /\ exit = None
      BY DEF Init
    <2>2. paced \in BOOLEAN /\ ~paced
      BY <2>1
    <2>3. domain \in 1..7 /\ unpaced \in Nat
      BY <2>1
    <2> QED BY <1>2, <1>3, <1>4, <2>1, <2>2, <2>3 DEF AuditTypes
  <1> QED BY <1>1, <1>5 DEF AuditInv

LEMMA AuditStep ==
  ASSUME AuditInv, Next \/ UNCHANGED vars
  PROVE  AuditInv'
  <1>1. CensusTypes /\ AuditTypes
    BY DEF AuditInv, CensusInv
  <1>2. CensusInv'
    BY <1>1, StepKinds, CensusStep DEF AuditInv
  <1>3. AuditTypes'
    BY <1>1, StepKinds, ListTypes, VisitTypes, EndTypes
  <1> QED BY <1>2, <1>3 DEF AuditInv

(***************************************************************************)
(* What the audit has of the catalogue.                                    *)
(***************************************************************************)
Judged == (pc = "listing" /\ domain > 1) \/ pc = "details" \/ exit = 0

Catalogued ==
  /\ ~Selected("courses") => settled = {}
  /\ Selected("courses") /\ selection.command = "coverage" /\ Judged =>
       stage = "complete" /\ unreconciled = {} /\ Shown(found) \subseteq Shown(queue)

LEMMA CatalogueStep ==
  ASSUME AuditInv, Catalogued, Next \/ UNCHANGED vars
  PROVE  Catalogued'
  <1>1. /\ queue \in Seq(Item) /\ found \in Seq(Item) /\ domain \in 1..7
        /\ None \notin Nat /\ (pc # "done" => exit # 0)
    BY NoneAssumption DEF AuditInv, CensusInv, CensusTypes, AuditTypes
  <1>2. CASE ReadCatalogue
    <2>1. /\ Selected("courses") /\ pc = "listing" /\ domain = 1
          /\ UNCHANGED <<selection, pc, domain, exit>>
      BY <1>1, <1>2, DomainNames DEF ReadCatalogue, Listing, audit
    <2> QED BY <1>1, <2>1 DEF Catalogued, Judged, Selected
  <1>3. CASE JudgeCatalogue
    <2>1. /\ Selected("courses") /\ pc = "listing" /\ stage = "complete"
          /\ UNCHANGED <<census, selection>>
          /\ \/ exit' = 1 /\ pc' = "done"
             \/ /\ queue' = queue \o found
                /\ selection.command = "coverage" => unreconciled = {}
      BY <1>3 DEF JudgeCatalogue, Exit, Listing, Reconciled
    <2>2. UNCHANGED <<stage, unreconciled, found, settled>>
      BY <2>1 DEF census, feeds
    <2>3. CASE exit' = 1 /\ pc' = "done"
      BY <2>1, <2>2, <2>3 DEF Catalogued, Judged, Selected
    <2>4. CASE /\ queue' = queue \o found
               /\ selection.command = "coverage" => unreconciled = {}
      <3>1. Shown(found) \subseteq Shown(queue \o found)
        BY <1>1, ConcatShown
      <3>2. Shown(found)' = Shown(found) /\ Shown(queue)' = Shown(queue \o found)
        BY <2>2, <2>4 DEF Shown
      <3> QED BY <2>1, <2>2, <2>4, <3>1, <3>2 DEF Catalogued, Selected
    <2> QED BY <2>1, <2>3, <2>4
  <1>4. CASE SkipDomain \/ ReadListing \/ Listed
    <2>1. /\ Lists /\ UNCHANGED <<census, selection>>
          /\ Selected("courses") => domain > 1 \/ (pc' = "done" /\ exit' = 1)
      <3>1. Lists /\ UNCHANGED <<census, selection>>
        BY <1>4, ListKinds DEF SkipDomain, ReadListing, Listed, AuditInv, CensusInv
      <3>2. CASE SkipDomain
        BY <1>1, <3>1, <3>2, DomainNames DEF SkipDomain, Listing
      <3>3. CASE ReadListing
        BY <1>1, <3>1, <3>3, DomainNames DEF ReadListing, Listing
      <3>4. CASE Listed
        BY <1>1, <3>1, <3>4, DomainNames DEF Listed
      <3> QED BY <1>4, <3>1, <3>2, <3>3, <3>4
    <2>2. UNCHANGED <<stage, unreconciled, found, settled>> /\ Shown(found)' = Shown(found)
      BY <2>1 DEF census, feeds, Shown
    <2>3. pc = "listing" /\ Shown(queue) \subseteq Shown(queue)'
      BY <2>1 DEF Lists, Shown
    <2> QED BY <1>1, <2>1, <2>2, <2>3 DEF Catalogued, Judged, Selected
  <1>5. CASE \/ Pass \/ Refuse \/ FetchFails \/ Read
             \/ Raises \/ Finish \/ UNCHANGED vars
    <2>1. /\ UNCHANGED <<census, selection, domain, queue>>
          /\ \/ UNCHANGED <<pc, exit>>
             \/ pc' = "done" /\ (exit' = 1 \/ pc = "details")
      BY <1>5 DEF Pass, Refuse, FetchFails, Read, Raises, Finish, Exit, vars, audit
    <2>2. /\ UNCHANGED <<stage, unreconciled, found, settled>>
          /\ Shown(found)' = Shown(found) /\ Shown(queue)' = Shown(queue)
      BY <2>1 DEF census, feeds, Shown
    <2> QED BY <2>1, <2>2 DEF Catalogued, Judged, Selected
  <1> QED BY <1>2, <1>3, <1>4, <1>5 DEF Next

(***************************************************************************)
(* What an exit code of 0 says of the candidates.                          *)
(***************************************************************************)
Alike(j, k) ==
  ClassOf[queue[j]] = ClassOf[queue[k]] /\ IdentityOf[queue[j]] = IdentityOf[queue[k]]

Repeats ==
  /\ \A k \in DOMAIN outcomes :
       outcomes[k] = "duplicate" =>
         \E j \in DOMAIN outcomes : outcomes[j] \in Visited /\ Alike(j, k)
  /\ selection.limit = None => \A k \in DOMAIN outcomes : outcomes[k] # "unselected"

AllRead ==
  exit = 0 /\ selection.command = "coverage" /\ selection.limit = None =>
    /\ DOMAIN outcomes = DOMAIN queue
    /\ \A k \in DOMAIN outcomes : outcomes[k] \in Reading \cup {"duplicate"}

LEMMA RepeatsStep ==
  ASSUME AuditInv, Repeats, Lists \/ Visits \/ Ends \/ UNCHANGED audit
  PROVE  Repeats'
  <1>1. CASE Lists
    <2>1. outcomes' = <<>>
      BY <1>1 DEF Lists, AuditInv, AuditTypes
    <2> QED BY <2>1 DEF Repeats
  <1>2. CASE Visits
    <2>1. UNCHANGED <<selection, queue>> /\ Visiting /\ AuditTypes
      BY <1>2 DEF Visits, AuditInv
    <2>2. PICK result \in Result :
            /\ outcomes' = Append(outcomes, result)
            /\ result = "duplicate" => Seen
            /\ result = "unselected" => Position \notin Chosen
      BY <1>2 DEF Visits
    <2>3. /\ DOMAIN outcomes = 1..Len(outcomes) /\ Position = Len(outcomes) + 1
          /\ Len(outcomes) \in Nat /\ Position \in DOMAIN queue
      BY <2>1, VisitFacts
    <2>4. /\ DOMAIN outcomes' = 1..Position
          /\ outcomes'[Position] = result
          /\ \A k \in DOMAIN outcomes : outcomes'[k] = outcomes[k]
      BY <2>1, <2>2, <2>3, AppendProperties DEF AuditTypes
    <2>5. \A j, k : Alike(j, k)' <=> Alike(j, k)
      BY <2>1 DEF Alike
    <2>6. ASSUME result = "duplicate"
          PROVE  \E j \in DOMAIN outcomes : outcomes[j] \in Visited /\ Alike(j, Position)
      <3>1. PICK i \in DOMAIN outcomes :
              outcomes[i] \notin {"unselected", "skipped"} /\ Alike(i, Position)
        BY <2>2, <2>6 DEF Seen, Alike, ThisClass
      <3>2. outcomes[i] \in Visited \cup {"duplicate"}
        BY <2>1, <3>1, ElementOfSeq DEF AuditTypes, Result
      <3>3. CASE outcomes[i] = "duplicate"
        <4>1. PICK j \in DOMAIN outcomes : outcomes[j] \in Visited /\ Alike(j, i)
          BY <3>1, <3>3 DEF Repeats
        <4> QED BY <3>1, <4>1 DEF Alike
      <3> QED BY <3>1, <3>2, <3>3
    <2>7. selection.limit = None => result # "unselected"
      BY <2>2, <2>3 DEF Chosen
    <2>8. \A k \in DOMAIN outcomes' : k = Position \/ k \in DOMAIN outcomes
      BY <2>3, <2>4
    <2>9. DOMAIN outcomes \subseteq DOMAIN outcomes'
      BY <2>3, <2>4
    <2>10. ASSUME NEW k \in DOMAIN outcomes', outcomes'[k] = "duplicate"
           PROVE  \E j \in DOMAIN outcomes' : outcomes'[j] \in Visited /\ Alike(j, k)
      <3>1. PICK j \in DOMAIN outcomes : outcomes[j] \in Visited /\ Alike(j, k)
        BY <2>4, <2>6, <2>8, <2>10 DEF Repeats
      <3> QED BY <2>4, <2>9, <3>1
    <2>11. selection.limit = None => \A k \in DOMAIN outcomes' : outcomes'[k] # "unselected"
      BY <2>4, <2>7, <2>8 DEF Repeats
    <2> QED BY <2>1, <2>5, <2>10, <2>11 DEF Repeats
  <1>3. CASE Ends \/ UNCHANGED audit
    <2>1. UNCHANGED <<selection, queue, outcomes>>
      BY <1>3 DEF Ends, Raises, Finish, audit
    <2> QED BY <2>1 DEF Repeats, Alike
  <1> QED BY <1>1, <1>2, <1>3

\* Whatever the frozen denominators are, a domain that is GREEN has no page
\* that was refused, not fetched, not parsed, or of another address.
LEMMA GreenIsWhole ==
  ASSUME AuditInv, NEW d, Health(d) = "GREEN", NEW k \in DOMAIN outcomes,
         DomainOf[ClassOf[queue[k]]] = d
  PROVE  outcomes[k] \notin {"unfetched", "refused", "skipped", "malformed", "mismatch"}
  <1>1. ~Shortfall(d) /\ ~Defective(d)
    BY DEF Health
  <1>2. DOMAIN outcomes = 1..Len(outcomes) /\ Len(outcomes) \in Nat
    BY LenProperties DEF AuditInv, AuditTypes
  <1>3. ASSUME NEW results, ~(Pages(d, results) > 0)
        PROVE  outcomes[k] \notin results
    <2> DEFINE those == {i \in DOMAIN outcomes :
                           DomainOf[ClassOf[queue[i]]] = d /\ outcomes[i] \in results}
    <2>1. IsFiniteSet(DOMAIN outcomes)
      BY <1>2, FS_Interval
    <2>2. IsFiniteSet(those) /\ Cardinality(those) \in Nat
      BY <2>1, FS_Subset, FS_CardinalityType
    <2>3. ~(Cardinality(those) > 0)
      BY <1>3 DEF Pages
    <2>4. Cardinality(those) = 0
      <3> HIDE DEF those
      <3> QED BY <2>2, <2>3
    <2>5. those = {}
      BY <2>2, <2>4, FS_EmptySet
    <2> QED BY <2>5
  <1> QED BY <1>1, <1>3 DEF Shortfall, Defective

LEMMA AllReadStep ==
  ASSUME AuditInv, Repeats, AllRead, Lists \/ Visits \/ Ends \/ UNCHANGED audit
  PROVE  AllRead'
  <1>1. None \notin Nat /\ (pc # "done" => exit = None)
    BY NoneAssumption DEF AuditInv, AuditTypes
  <1>2. CASE Lists
    <2>1. exit' = 0 => selection'.command # "coverage"
      BY <1>1, <1>2 DEF Lists
    <2> QED BY <2>1 DEF AllRead
  <1>3. CASE Visits
    <2>1. exit' # 0
      BY <1>1, <1>3 DEF Visits, Visiting
    <2> QED BY <2>1 DEF AllRead
  <1>4. CASE Raises
    BY <1>4 DEF Raises, Exit, AllRead
  <1>5. CASE Finish
    <2> SUFFICES ASSUME exit' = 0, selection.limit = None
                 PROVE  /\ DOMAIN outcomes = DOMAIN queue
                        /\ \A k \in DOMAIN outcomes : outcomes[k] \in Reading \cup {"duplicate"}
      BY <1>5 DEF Finish, AllRead
    <2>1. Len(outcomes) = Len(queue) /\ \A d \in Reported : Health(d) = "GREEN"
      BY <1>5 DEF Finish, Exit
    <2>2. DOMAIN outcomes = DOMAIN queue
      BY <2>1, LenProperties DEF AuditInv, AuditTypes
    <2>3. ASSUME NEW k \in DOMAIN outcomes
          PROVE  outcomes[k] \in Reading \cup {"duplicate"}
      <3>1. DomainOf[ClassOf[queue[k]]] \in Reported
        BY <2>2 DEF Reported, Chosen
      <3>2. outcomes[k] \notin {"unfetched", "refused", "skipped", "malformed", "mismatch"}
        BY <2>1, <3>1, GreenIsWhole
      <3>3. outcomes[k] # "unselected"
        BY DEF Repeats
      <3>4. outcomes[k] \in Result
        BY ElementOfSeq, LenProperties DEF AuditInv, AuditTypes
      <3> QED BY <3>2, <3>3, <3>4 DEF Result, Visited
    <2> QED BY <2>2, <2>3
  <1>6. CASE UNCHANGED audit
    BY <1>6 DEF audit, AllRead
  <1> QED BY <1>2, <1>3, <1>4, <1>5, <1>6 DEF Ends

(***************************************************************************)
(* The requests that no interval precedes.                                 *)
(***************************************************************************)
Classes == {ClassOf[queue[k]] : k \in DOMAIN queue}

\* The failures a class can have before it is stopped, and those it had.
Failing == Classes \X (1..3)
Failed == {try \in Failing : try[2] <= failures[try[1]]}

Paced ==
  /\ unpaced <= 3 * Cardinality(Classes)
  /\ ~paced => unpaced <= Cardinality(Failed)

LEMMA CountClasses ==
  ASSUME NEW q \in Seq(Item), NEW C, C = {ClassOf[q[k]] : k \in DOMAIN q}
  PROVE  C \subseteq Class /\ IsFiniteSet(C) /\ Cardinality(C) \in Nat
  <1> DEFINE f == [k \in DOMAIN q |-> ClassOf[q[k]]]
  <1>1. DOMAIN q = 1..Len(q) /\ Len(q) \in Nat /\ \A k \in DOMAIN q : q[k] \in Item
    BY LenProperties, ElementOfSeq
  <1>2. C \subseteq Class
    BY <1>1, ClassAssumption
  <1>3. IsFiniteSet(1..Len(q))
    BY <1>1, FS_Interval
  <1>4. f \in Surjection(DOMAIN q, C)
    BY DEF Surjection
  <1> QED BY <1>1, <1>2, <1>3, <1>4, FS_Surjection, FS_CardinalityType

LEMMA CountTo ==
  ASSUME NEW n \in Nat
  PROVE  IsFiniteSet(1..n) /\ Cardinality(1..n) = n
  <1>1. 1 \in Int /\ n \in Int
    OBVIOUS
  <1>2. IsFiniteSet(1..n) /\ Cardinality(1..n) = IF 1 > n THEN 0 ELSE n - 1 + 1
    BY <1>1, FS_Interval
  <1> QED BY <1>2

LEMMA CountTries ==
  ASSUME NEW C, IsFiniteSet(C), NEW F, F \subseteq C \X (1..3)
  PROVE  /\ IsFiniteSet(F) /\ Cardinality(F) \in Nat
         /\ Cardinality(F) <= 3 * Cardinality(C) /\ 3 * Cardinality(C) \in Nat
  <1>1. Cardinality(C) \in Nat
    BY FS_CardinalityType
  <1>3. IsFiniteSet(1..3) /\ Cardinality(1..3) = 3
    BY CountTo
  <1>4. IsFiniteSet(C \X (1..3)) /\ Cardinality(C \X (1..3)) = Cardinality(C) * 3
    BY <1>3, FS_Product
  <1>5. Cardinality(C) * 3 = 3 * Cardinality(C) /\ 3 * Cardinality(C) \in Nat
    BY <1>1
  <1>6. /\ IsFiniteSet(F) /\ Cardinality(F) \in Nat
        /\ Cardinality(F) <= Cardinality(C \X (1..3))
    BY <1>4, FS_Subset, FS_CardinalityType
  <1> QED BY <1>4, <1>5, <1>6

LEMMA PacedStep ==
  ASSUME AuditTypes, Paced, Lists \/ Visits \/ Ends \/ UNCHANGED audit
  PROVE  Paced'
  <1>1. CASE Lists
    <2>1. unpaced' = 0 /\ queue' \in Seq(Item)
      BY <1>1 DEF AuditTypes, Lists
    <2>2. /\ Classes' = {ClassOf[queue'[k]] : k \in DOMAIN queue'}
          /\ Failed' \subseteq Classes' \X (1..3)
      BY DEF Classes, Failed, Failing
    <2>3. Cardinality(Failed') \in Nat /\ 3 * Cardinality(Classes') \in Nat
      BY <2>1, <2>2, CountTries, CountClasses
    <2>4. 0 <= Cardinality(Failed') /\ 0 <= 3 * Cardinality(Classes')
      <3> DEFINE v == Cardinality(Failed')
                 w == 3 * Cardinality(Classes')
      <3>1. v \in Nat /\ w \in Nat
        BY <2>3
      <3> HIDE DEF v, w
      <3>2. 0 <= v /\ 0 <= w
        BY <3>1
      <3> QED BY <3>2 DEF v, w
    <2> QED BY <2>1, <2>4 DEF Paced
  <1>2. CASE Visits /\ ~UNCHANGED <<failures, blocked, paced, unpaced>>
    <2> DEFINE c == ThisClass
               n == failures[c]
               try == <<c, n + 1>>
    <2>1. /\ c \notin blocked /\ Request /\ UNCHANGED queue
          /\ \/ failures' = [failures EXCEPT ![c] = @ + 1] /\ paced' = paced
             \/ paced' = TRUE
      BY <1>2 DEF Visits
    <2>2. c \in Class /\ n \in 0..2 /\ c \in Classes
      BY <1>2, <2>1, VisitFacts DEF Visits, Visiting, Classes, ThisClass
    <2>3. Classes' = Classes /\ Failing' = Failing
      BY <2>1 DEF Classes, Failing
    <2>4. try \in Failing /\ try \notin Failed
      BY <2>2 DEF Failing, Failed
    <2>5. /\ Cardinality(Failed) \in Nat /\ 3 * Cardinality(Classes) \in Nat
          /\ Cardinality(Failed \cup {try}) = Cardinality(Failed) + 1
          /\ Cardinality(Failed \cup {try}) <= 3 * Cardinality(Classes)
      <3>1. Failed \subseteq Failing /\ Failed \cup {try} \subseteq Failing
        BY <2>4 DEF Failed
      <3>2. queue \in Seq(Item)
        BY DEF AuditTypes
      <3>3. IsFiniteSet(Failed) /\ Cardinality(Failed) \in Nat
        BY <3>1, <3>2, CountTries, CountClasses DEF Classes, Failing
      <3>4. Cardinality(Failed \cup {try}) <= 3 * Cardinality(Classes)
            /\ 3 * Cardinality(Classes) \in Nat
        BY <3>1, <3>2, CountTries, CountClasses DEF Classes, Failing
      <3>5. Cardinality(Failed \cup {try}) = Cardinality(Failed) + 1
        BY <2>4, <3>3, FS_AddElement
      <3> QED BY <3>3, <3>4, <3>5
    <2>8. Classes \subseteq Class
      BY CountClasses DEF AuditTypes, Classes
    <2>6. CASE paced
      <3>1. unpaced' = unpaced /\ paced'
        BY <2>1, <2>6 DEF Request
      <3> QED BY <2>3, <3>1 DEF Paced
    <2>7. CASE ~paced
      <3>1. unpaced' = unpaced + 1 /\ unpaced <= Cardinality(Failed)
        BY <2>1, <2>7 DEF Request, Paced
      <3>2. unpaced' <= Cardinality(Failed \cup {try})
        BY <2>5, <3>1 DEF AuditTypes
      <3>3. unpaced' <= 3 * Cardinality(Classes)
        <4> DEFINE w == 3 * Cardinality(Classes)
                   v == Cardinality(Failed \cup {try})
        <4>1. v <= w /\ w \in Nat /\ v \in Nat /\ unpaced' <= v /\ unpaced' \in Nat
          BY <2>5, <3>1, <3>2 DEF AuditTypes
        <4> HIDE DEF w, v
        <4>2. unpaced' <= w
          BY <4>1
        <4> QED BY <4>2 DEF w
      <3>4. ASSUME ~paced'
            PROVE  unpaced' <= Cardinality(Failed')
        <4>1. failures' = [failures EXCEPT ![c] = n + 1]
          BY <2>1, <3>4
        <4>2. Failed' = Failed \cup {try}
          <5>1. ASSUME NEW p \in Failing
                PROVE  p[2] <= failures'[p[1]] <=> p[2] <= failures[p[1]] \/ p = try
            <6>1. p[1] \in Class /\ p[2] \in 1..3 /\ p = <<p[1], p[2]>>
              BY <2>8 DEF Failing
            <6>2. CASE p[1] = c
              <7>1. failures'[p[1]] = n + 1
                BY <2>2, <4>1, <6>2 DEF AuditTypes
              <7>2. p = try <=> p[2] = n + 1
                BY <6>1, <6>2
              <7> QED BY <2>2, <6>1, <6>2, <7>1, <7>2
            <6>3. CASE p[1] # c
              <7>1. failures'[p[1]] = failures[p[1]]
                BY <2>2, <4>1, <6>1, <6>3 DEF AuditTypes
              <7>2. p # try
                BY <6>3
              <7> QED BY <7>1, <7>2
            <6> QED BY <6>2, <6>3
          <5> HIDE DEF try
          <5> QED BY <2>3, <2>4, <5>1 DEF Failed
        <4> QED BY <3>2, <4>2
      <3> QED BY <2>3, <3>3, <3>4 DEF Paced
    <2> QED BY <2>6, <2>7
  <1>3. CASE UNCHANGED <<queue, failures, paced, unpaced>>
    <2>1. Classes' = Classes /\ Failed' = Failed
      BY <1>3 DEF Classes, Failed, Failing
    <2> QED BY <1>3, <2>1 DEF Paced
  <1> QED
    BY <1>1, <1>2, <1>3 DEF Visits, Ends, Raises, Finish, audit

(***************************************************************************)
(* The theorems.                                                           *)
(***************************************************************************)
Inv == AuditInv /\ Catalogued /\ Repeats /\ AllRead /\ Paced

\* The inductive invariant: the kinds of steps, and what each leaves true.
THEOREM AuditInvariant == Spec => []Inv
  <1>1. Init => Inv
    <2> SUFFICES ASSUME Init PROVE Inv
      OBVIOUS
    <2>1. AuditInv
      BY AuditStarts
    <2>2. /\ settled = {} /\ pc = "listing" /\ domain = 1 /\ exit = None
          /\ queue = <<>> /\ outcomes = <<>> /\ unpaced = 0
          /\ None \notin Nat
      BY NoneAssumption DEF Init, CensusInit
    <2>3. Catalogued /\ Repeats /\ AllRead
      BY <2>2 DEF Catalogued, Judged, Repeats, AllRead
    <2>4. Paced
      <3>1. /\ queue \in Seq(Item)
            /\ Failed \subseteq Classes \X (1..3)
        BY <2>1 DEF AuditInv, AuditTypes, Failed, Failing
      <3>2. Cardinality(Failed) \in Nat /\ 3 * Cardinality(Classes) \in Nat
        BY <3>1, CountTries, CountClasses DEF Classes
      <3> DEFINE v == Cardinality(Failed)
                 w == 3 * Cardinality(Classes)
      <3>3. 0 <= v /\ 0 <= w
        <4>1. v \in Nat /\ w \in Nat
          BY <3>2
        <4> HIDE DEF v, w
        <4> QED BY <4>1
      <3> QED BY <2>2, <3>3 DEF Paced
    <2> QED BY <2>1, <2>3, <2>4 DEF Inv
  <1>2. Inv /\ [Next]_vars => Inv'
    <2> SUFFICES ASSUME Inv, Next \/ UNCHANGED vars PROVE Inv'
      OBVIOUS
    <2>1. AuditInv' /\ Catalogued'
      BY AuditStep, CatalogueStep DEF Inv
    <2>2. AuditTypes /\ (Lists \/ Visits \/ Ends \/ UNCHANGED audit)
      BY StepKinds DEF Inv, AuditInv, CensusInv
    <2>3. Repeats' /\ AllRead' /\ Paced'
      BY <2>2, RepeatsStep, AllReadStep, PacedStep DEF Inv
    <2> QED BY <2>1, <2>3 DEF Inv
  <1> QED BY <1>1, <1>2, PTL DEF Spec

\* The state of both commands keeps its types; a class is stopped when, and as
\* long as, its last three pages could not be fetched.
THEOREM AuditTyped == Spec => []TypeOK
  <1>1. Inv => TypeOK
    <2> SUFFICES ASSUME Inv PROVE TypeOK
      OBVIOUS
    <2>1. CensusTypes /\ AuditTypes
      BY DEF Inv, AuditInv, CensusInv
    <2>2. Shown(found) \subseteq Item /\ Shown(site) \subseteq Item
      BY <2>1, CensusFacts
    <2>3. arrivals \in 0..MaxChanges
      BY <2>1, BoundAssumption DEF CensusTypes
    <2>4. domain \in 1..Len(Domains) + 1
      BY <2>1, DomainNames DEF AuditTypes
    <2> QED BY <2>1, <2>2, <2>3, <2>4 DEF TypeOK, CensusTypes, AuditTypes
  <1> QED BY <1>1, AuditInvariant, PTL

\* Totals that agree catch every row a change of the feeds made the census
\* skip, but for as many as arrived while they were read.
THEOREM CensusMissesLittle == Spec => []CensusMissesAtMostArrivals
  <1>1. Inv => CensusMissesAtMostArrivals
    BY DEF Inv, AuditInv, CensusInv, CensusCount, CensusMissesAtMostArrivals, Lost
  <1> QED BY <1>1, AuditInvariant, PTL

\* An exit code of 0 without a limit: every candidate was read, if only as the
\* duplicate of one that was, and so was what the feeds listed throughout, but
\* for as many as arrived meanwhile.
THEOREM GreenReads == Spec => []GreenMeansRead
  <1>1. Inv => GreenMeansRead
    <2> DEFINE read == {IdentityOf[queue[k]] :
                 k \in {j \in DOMAIN outcomes : outcomes[j] \in {"captured", "missed", "outside"}}}
               unread == {i \in settled : IdentityOf[i] \notin read}
    <2> SUFFICES ASSUME Inv, selection.command = "coverage", exit = 0, selection.limit = None
                 PROVE  /\ \A k \in DOMAIN queue : IdentityOf[queue[k]] \in read
                        /\ Cardinality(unread) <= arrivals
      BY DEF GreenMeansRead
    <2>1. CensusTypes /\ AuditTypes /\ CensusCount /\ Catalogued /\ Repeats /\ AllRead
      BY DEF Inv, AuditInv, CensusInv
    <2>2. /\ DOMAIN outcomes = DOMAIN queue
          /\ \A k \in DOMAIN outcomes : outcomes[k] \in Reading \cup {"duplicate"}
      BY <2>1 DEF AllRead
    <2>3. ASSUME NEW k \in DOMAIN queue
          PROVE  IdentityOf[queue[k]] \in read
      <3>1. CASE outcomes[k] = "duplicate"
        <4>1. PICK j \in DOMAIN outcomes : outcomes[j] \in Visited /\ Alike(j, k)
          BY <2>1, <2>2, <3>1 DEF Repeats
        <4>2. outcomes[j] \in Reading
          BY <2>2, <4>1 DEF Visited, Reading
        <4> QED BY <4>1, <4>2 DEF Alike, Reading
      <3>2. CASE outcomes[k] \in Reading
        BY <2>2, <3>2 DEF Reading
      <3> QED BY <2>2, <3>1, <3>2
    <2> HIDE DEF read
    <2>4. unread \subseteq Lost /\ (Lost = {} \/ unreconciled = {})
      <3>1. CASE Selected("courses")
        <4>1. unreconciled = {} /\ Shown(found) \subseteq Shown(queue)
          BY <2>1, <3>1 DEF Catalogued, Judged
        <4>2. ASSUME NEW i \in Shown(found)
              PROVE  IdentityOf[i] \in read
          <5>1. \E k \in DOMAIN queue : i = queue[k]
            BY <2>1, <4>1, <4>2, LenProperties DEF Shown, AuditTypes
          <5> QED BY <2>3, <5>1
        <4> QED BY <4>1, <4>2 DEF Lost
      <3>2. CASE ~Selected("courses")
        BY <2>1, <3>2 DEF Catalogued, Lost
      <3> QED BY <3>1, <3>2
    <2>5. /\ arrivals \in Nat /\ IsFiniteSet(Lost) /\ Cardinality(Lost) \in Nat
      BY <2>1, CensusFacts
    <2>6. Cardinality(Lost) <= arrivals
      <3>1. CASE Lost = {}
        BY <2>5, <3>1, FS_EmptySet
      <3>2. CASE unreconciled = {}
        BY <2>1, <3>2 DEF CensusCount
      <3> QED BY <2>4, <3>1, <3>2
    <2> HIDE DEF unread
    <2>7. Cardinality(unread) \in Nat /\ Cardinality(unread) <= Cardinality(Lost)
      BY <2>4, <2>5, CountWithin
    <2> QED BY <2>3, <2>5, <2>6, <2>7
  <1> QED BY <1>1, AuditInvariant, PTL

\* Three failures in a row stop a class, so at most three requests for each
\* class are made before a page was read, without the interval.
THEOREM UnpacedAreFew == Spec => []UnpacedBounded
  <1>1. Inv => UnpacedBounded
    BY DEF Inv, Paced, Classes, UnpacedBounded
  <1> QED BY <1>1, AuditInvariant, PTL
================================================================================

------------------------------- MODULE JobCounts -------------------------------
(***************************************************************************)
(* How much a traversal of a changing listing can miss, proved for every   *)
(* listing, page size and number of changes.                               *)
(***************************************************************************)
EXTENDS JobProofs

Early == {"config", "opening", "starting", "first", "single"}

\* Behind the gate between the listing and the details.
Selected == pc \in {"building", "committing"} \cup Fetching \/ run = "SUCCESS"

Wanted == steady \cap Approved

FirstInv == pc \in Early => advertised = None

\* Jobs: what is listed or was found is no more than what was advertised and
\* what arrived since.
JobsInv ==
  config.source = "jobs" =>
    /\ Distinct(found)
    /\ advertised # None => Cardinality(Shown(site) \cup Shown(found)) <= advertised + arrivals
    /\ Selected => advertised # None /\ Len(found) = advertised

\* ANU events: every departure hides at most one event of the pages read, and
\* the last page that was linked to ends the listing but for what arrived.
EventsInv ==
  config.source = "events" =>
    /\ advertised # None =>
         /\ Len(site) <= (advertised + 1) * PageSize + arrivals
         /\ Cardinality(Skipped(Wanted, site, page, found)) <= departures
    /\ Selected => advertised # None /\ page = advertised + 1

\* What was skipped, what is ahead and the cards read so far are no more than
\* what was advertised and what arrived since.
Swept == Sweep(Wanted, site, page, found) + cards <= advertised + arrivals

RubricInv ==
  config.source = "rubric" =>
    /\ advertised # None =>
         /\ Swept
         /\ Len(site) + departures = advertised + arrivals
         /\ pc = "judging" \/ Selected => Len(site) = advertised
    /\ Selected => advertised # None /\ cards >= advertised

ScholarshipsInv ==
  config.source = "scholarships" =>
    /\ advertised # None /\ Len(found) < Limit => Swept
    /\ Selected /\ MaxPages > 1 => advertised # None /\ cards = advertised

CountInv == FirstInv /\ JobsInv /\ EventsInv /\ RubricInv /\ ScholarshipsInv

Counts == WorkInv /\ StoreInv /\ CountInv

(***************************************************************************)
(* Steps that leave the listing and the traversal alone.                   *)
(***************************************************************************)
Rests ==
  /\ UNCHANGED <<config, traversal, world>>
  /\ pc' \in Early => pc \in Early
  /\ Selected' => Selected
  /\ pc' = "judging" => pc = "judging" \/ config.source # "rubric"

LEMMA CountRests ==
  ASSUME CountInv, Rests
  PROVE  CountInv'
  <1>1. /\ config' = config /\ page' = page /\ advertised' = advertised /\ cards' = cards
        /\ found' = found /\ site' = site /\ steady' = steady /\ arrivals' = arrivals
        /\ departures' = departures /\ (Selected' => Selected)
        /\ pc' \in Early => pc \in Early
        /\ pc' = "judging" => pc = "judging" \/ config.source # "rubric"
    BY DEF Rests, traversal, world
  <1>2. FirstInv'
    BY <1>1 DEF CountInv, FirstInv
  <1>3. JobsInv'
    BY <1>1 DEF CountInv, JobsInv, Distinct, Shown
  <1>4. /\ Wanted' = Wanted /\ (Swept' <=> Swept)
        /\ Skipped(Wanted, site, page, found)' = Skipped(Wanted, site, page, found)
    BY <1>1 DEF Wanted, Swept, Sweep, Skipped, Ahead, FirstPlaces, Shown
  <1>5. EventsInv'
    BY <1>1, <1>4 DEF CountInv, EventsInv
  <1>6. RubricInv'
    BY <1>1, <1>4 DEF CountInv, RubricInv
  <1>7. ScholarshipsInv'
    BY <1>1, <1>4, SameConfig DEF CountInv, ScholarshipsInv
  <1> QED BY <1>2, <1>3, <1>5, <1>6, <1>7 DEF CountInv

LEMMA CountInit ==
  ASSUME Init
  PROVE  CountInv
  BY RunNames DEF Init, CountInv, FirstInv, JobsInv, EventsInv, RubricInv, ScholarshipsInv,
         Selected, Fetching, Distinct

\* The listing is what it is when the traversal starts.
LEMMA CountBegins ==
  ASSUME WorkInv, CountInv, Begins
  PROVE  CountInv'
  <1>1. /\ pc = "starting" /\ pc' \in {"first", "single", "reporting", "returned"}
        /\ run' \in {"RUNNING", "FAILED"}
        /\ config' = config /\ advertised' = advertised /\ found' = found
    BY DEF Begins, SaveRunning, RunningRefused, traversal, work
  <1>2. advertised = None /\ found = <<>>
    BY <1>1 DEF CountInv, FirstInv, Early, WorkInv, FreshInv
  <1>3. ~Selected'
    BY <1>1 DEF Selected, Fetching
  <1>4. Distinct(found)'
    BY <1>1, <1>2 DEF Distinct
  <1> QED
    BY <1>1, <1>2, <1>3, <1>4
    DEF CountInv, FirstInv, JobsInv, EventsInv, RubricInv, ScholarshipsInv

\* No source has seen anything before its first page.
LEMMA FirstStep ==
  ASSUME WorkInv, CountInv, Collects
  PROVE  FirstInv'
  <1>1. CASE Begins
    BY <1>1, CountBegins DEF CountInv
  <1>2. CASE Retries
    BY <1>2 DEF Retries, traversal, CountInv, FirstInv
  <1>3. CASE ~Begins /\ ~Retries
    <2>1. pc' \notin Early
      BY <1>3
      DEF Collects, GivesUp, Discovers, Moves, Accepts, Builds, Commits, Asks, Fetches, Reads,
          ReadsCourse, Drills, Persists, Persist, Fail, Early, Fetching
    <2> QED BY <2>1 DEF FirstInv
  <1> QED BY <1>1, <1>2, <1>3

LEMMA CountOther ==
  ASSUME WorkInv, CountInv,
         Configure \/ Open \/ OpenFails \/ Report \/ Escape \/ Summarise \/ Kill
           \/ UNCHANGED vars
  PROVE  CountInv'
  <1>1. CASE UNCHANGED vars
    <2>1. Rests
      BY <1>1 DEF vars, work, Rests, Selected
    <2> QED BY <2>1, CountRests
  <1>2. CASE Configure \/ Open \/ OpenFails
    <2>1. Rests
      BY <1>2
      DEF Configure, Open, OpenFails, work, Rests, Selected, Early, Fetching
    <2> QED BY <2>1, CountRests
  <1>3. CASE Report \/ Escape \/ Summarise \/ Kill
    <2>1. Rests
      BY <1>3 DEF Report, Escape, Summarise, Kill, work, Rests, Selected, Early, Fetching
    <2> QED BY <2>1, CountRests
  <1> QED BY <1>1, <1>2, <1>3

(***************************************************************************)
(* The listing changes.                                                    *)
(***************************************************************************)
LEMMA CountChanges ==
  ASSUME WorkInv, CountInv, SiteChanges
  PROVE  CountInv'
  <1>1. /\ pc = "paging" /\ pc' = pc /\ run' = run
        /\ config' = config /\ page' = page /\ advertised' = advertised
        /\ cards' = cards /\ found' = found
        /\ steady' = steady \cap Shown(site')
        /\ \/ site' \in Arrivals(site) /\ arrivals' = arrivals + 1 /\ departures' = departures
           \/ site' \in Departures(site) /\ departures' = departures + 1 /\ arrivals' = arrivals
    BY DEF SiteChanges, traversal
  <1>2. /\ site \in Seq(Item) /\ Distinct(site) /\ steady \subseteq Shown(site)
        /\ found \in Seq(Approved) /\ page \in Nat /\ cards \in Nat
        /\ arrivals \in Nat /\ departures \in Nat /\ advertised \in Nat \cup {None}
        /\ Len(site) \in Nat
    BY BoundAssumption, LenProperties DEF WorkInv, WorkTypes
  <1>3. run = "RUNNING" /\ ~Selected /\ ~Selected' /\ pc \notin Early
    BY <1>1 DEF WorkInv, BuiltInv, Collecting, Fetching, Selected, Early
  <1>4. FirstInv'
    BY <1>1, <1>3 DEF FirstInv
  <1>5. /\ IsFiniteSet(Shown(site) \cup Shown(found))
        /\ Cardinality(Shown(site) \cup Shown(found)) \in Nat
    BY <1>2, ShownCount, CountUnion
  <1>6. /\ Cardinality(Shown(site') \cup Shown(found)) \in Nat
        /\ Cardinality(Shown(site') \cup Shown(found)) <=
             Cardinality(Shown(site) \cup Shown(found)) + (arrivals' - arrivals)
    <2>1. CASE site' \in Arrivals(site) /\ arrivals' = arrivals + 1
      <3>1. PICK x \in Item : Shown(site') = Shown(site) \cup {x}
        BY <1>2, <2>1, ArrivalFacts
      <3>2. Shown(site') \cup Shown(found) \subseteq (Shown(site) \cup Shown(found)) \cup {x}
        BY <3>1
      <3>3. /\ Cardinality(Shown(site') \cup Shown(found)) \in Nat
            /\ Cardinality(Shown(site') \cup Shown(found)) <=
                 Cardinality(Shown(site) \cup Shown(found)) + 1
        BY <1>5, <3>2, CountOneMore
      <3> QED BY <1>2, <2>1, <3>3
    <2>2. CASE site' \in Departures(site) /\ arrivals' = arrivals
      <3>1. Shown(site') \cup Shown(found) \subseteq Shown(site) \cup Shown(found)
        BY <1>2, <2>2, DepartureFacts
      <3>2. /\ Cardinality(Shown(site') \cup Shown(found)) \in Nat
            /\ Cardinality(Shown(site') \cup Shown(found)) <=
                 Cardinality(Shown(site) \cup Shown(found))
        BY <1>5, <3>1, CountWithin
      <3> QED BY <1>2, <1>5, <2>2, <3>2
    <2> QED BY <1>1, <2>1, <2>2
  <1>7. arrivals' \in Nat /\ departures' \in Nat
    BY <1>1, <1>2
  <1>8. JobsInv'
    <2>1. Distinct(found)' <=> Distinct(found)
      BY <1>1 DEF Distinct
    <2>2. ASSUME config.source = "jobs", advertised # None
          PROVE  Cardinality(Shown(site') \cup Shown(found)) <= advertised + arrivals'
      <3>1. Cardinality(Shown(site) \cup Shown(found)) <= advertised + arrivals
        BY <2>2 DEF CountInv, JobsInv
      <3> QED BY <1>2, <1>5, <1>6, <1>7, <2>2, <3>1
    <2>3. (Shown(site) \cup Shown(found))' = Shown(site') \cup Shown(found)
      BY <1>1 DEF Shown
    <2> QED BY <1>1, <1>3, <2>1, <2>2, <2>3 DEF CountInv, JobsInv
  <1>9. /\ Wanted \subseteq Shown(site) /\ Wanted' \subseteq Wanted
        /\ Skipped(Wanted, site, page, found)' = Skipped(Wanted', site', page, found)
        /\ Sweep(Wanted, site, page, found)' = Sweep(Wanted', site', page, found)
    BY <1>1, <1>2 DEF Wanted, Sweep, Skipped, Ahead, FirstPlaces, Shown
  <1> DEFINE skipped == Cardinality(Skipped(Wanted, site, page, found))
             skippedNow == Cardinality(Skipped(Wanted', site', page, found))
             sweep == Sweep(Wanted, site, page, found)
             sweepNow == Sweep(Wanted', site', page, found)
  <1>10. /\ site' \in Seq(Item) /\ Wanted' \subseteq Shown(site') /\ Len(site') \in Nat
    <2>1. site' \in Seq(Item)
      BY <1>1, <1>2, ArrivalFacts, DepartureFacts
    <2>2. Wanted' \subseteq Shown(site')
      BY <1>1 DEF Wanted
    <2> QED BY <2>1, <2>2, LenProperties
  <1>11. skipped \in Nat /\ skippedNow \in Nat /\ sweep \in Nat /\ sweepNow \in Nat
    BY <1>2, <1>9, <1>10, SweepFacts
  <1>12. \/ /\ arrivals' = arrivals + 1 /\ departures' = departures
           /\ skippedNow <= skipped /\ sweepNow <= sweep + 1 /\ Len(site') = Len(site) + 1
         \/ /\ arrivals' = arrivals /\ departures' = departures + 1
            /\ skippedNow <= skipped + 1 /\ sweepNow <= sweep /\ Len(site') = Len(site) - 1
    <2>1. CASE site' \in Arrivals(site) /\ arrivals' = arrivals + 1 /\ departures' = departures
      <3>1. skippedNow <= skipped /\ sweepNow <= sweep + 1
        BY <1>2, <1>9, <2>1, SweepArrival
      <3>2. Len(site') = Len(site) + 1
        BY <1>2, <2>1, ArrivalFacts
      <3> QED BY <2>1, <3>1, <3>2
    <2>2. CASE site' \in Departures(site) /\ departures' = departures + 1 /\ arrivals' = arrivals
      <3>1. skippedNow <= skipped + 1 /\ sweepNow <= sweep
        BY <1>2, <1>9, <2>2, SweepDeparture
      <3>2. Len(site') = Len(site) - 1
        BY <1>2, <2>2, DepartureFacts
      <3> QED BY <2>2, <3>1, <3>2
    <2> QED BY <1>1, <2>1, <2>2
  <1>13. /\ Swept <=> sweep + cards <= advertised + arrivals
         /\ Swept' <=> sweepNow + cards <= advertised + arrivals'
    BY <1>1, <1>9 DEF Swept
  <1>14. /\ Cardinality(Skipped(Wanted, site, page, found))' = skippedNow
    BY <1>9
  <1> HIDE DEF skipped, skippedNow, sweep, sweepNow
  <1>15. ASSUME advertised # None, Swept PROVE Swept'
    <2>1. /\ advertised \in Nat /\ cards \in Nat /\ arrivals \in Nat /\ arrivals' \in Nat
          /\ sweep \in Nat /\ sweepNow \in Nat
      BY <1>2, <1>7, <1>11, <1>15
    <2>2. sweep + cards <= advertised + arrivals
      BY <1>13, <1>15
    <2>3. sweepNow + cards <= advertised + arrivals'
      <3>1. CASE arrivals' = arrivals + 1 /\ sweepNow <= sweep + 1
        <4>1. sweepNow + cards <= advertised + (arrivals + 1)
          BY <2>1, <2>2, <3>1
        <4> QED BY <3>1, <4>1
      <3>2. CASE arrivals' = arrivals /\ sweepNow <= sweep
        <4>1. sweepNow + cards <= advertised + arrivals
          BY <2>1, <2>2, <3>2
        <4> QED BY <3>2, <4>1
      <3> QED BY <1>12, <3>1, <3>2
    <2> QED BY <1>13, <2>3
  <1>16. EventsInv'
    <2>1. ASSUME config.source = "events", advertised # None
          PROVE  /\ Len(site') <= (advertised + 1) * PageSize + arrivals'
                 /\ skippedNow <= departures'
      <3>1. /\ Len(site) <= (advertised + 1) * PageSize + arrivals
            /\ skipped <= departures
        BY <2>1 DEF CountInv, EventsInv, skipped
      <3>2. (advertised + 1) * PageSize \in Nat
        BY <1>2, <2>1, PageSizeAssumption
      <3> DEFINE last == (advertised + 1) * PageSize
      <3> HIDE DEF last
      <3>4. /\ arrivals \in Nat /\ departures \in Nat /\ Len(site) \in Nat /\ last \in Nat
        BY <1>2, <3>2 DEF last
      <3>6. Len(site) <= last + arrivals
        BY <3>1 DEF last
      <3>7. Len(site') <= last + arrivals'
        BY <1>12, <3>4, <3>6
      <3>8. skippedNow <= departures'
        BY <1>11, <1>12, <3>1, <3>4
      <3> QED BY <3>7, <3>8 DEF last
    <2> QED BY <1>1, <1>3, <1>14, <2>1 DEF EventsInv
  <1>17. RubricInv'
    <2>1. ASSUME config.source = "rubric", advertised # None
          PROVE  Swept' /\ Len(site') + departures' = advertised + arrivals'
      <3>1. Swept /\ Len(site) + departures = advertised + arrivals
        BY <2>1 DEF CountInv, RubricInv
      <3>2. /\ arrivals \in Nat /\ departures \in Nat /\ Len(site) \in Nat /\ advertised \in Nat
        BY <1>2, <2>1
      <3>4. Len(site') + departures' = advertised + arrivals'
        BY <1>12, <3>1, <3>2
      <3> QED BY <1>15, <2>1, <3>1, <3>4
    <2> QED BY <1>1, <1>3, <2>1 DEF RubricInv
  <1>18. ScholarshipsInv'
    BY <1>1, <1>3, <1>15, SameConfig DEF CountInv, ScholarshipsInv
  <1> QED BY <1>4, <1>8, <1>16, <1>17, <1>18 DEF CountInv

(***************************************************************************)
(* Jobs.                                                                   *)
(***************************************************************************)
\* A page adds what it shows.
LEMMA CountPage ==
  ASSUME WorkTypes, NEW k \in Nat
  PROVE  /\ Shown(New(Page(site, k))) \subseteq Shown(site)
         /\ Shown(found \o New(Page(site, k))) \subseteq Shown(site) \cup Shown(found)
         /\ Shown(found) \subseteq Shown(found \o New(Page(site, k)))
         /\ Shown(Page(site, k)) \cap Wanted \subseteq Shown(found \o New(Page(site, k)))
         /\ found = <<>> => found \o New(Page(site, k)) = New(Page(site, k))
         /\ Distinct(found) => Distinct(found \o New(Page(site, k)))
         /\ New(Page(site, k)) \in Seq(Approved)
         /\ Distinct(New(Page(site, k)))
  <1>1. /\ Page(site, k) \in Seq(Item) /\ Distinct(Page(site, k))
        /\ Shown(Page(site, k)) \subseteq Shown(site)
    BY PageFacts DEF WorkTypes
  <1>2. /\ New(Page(site, k)) \in Seq(Approved)
        /\ Shown(New(Page(site, k))) = (Shown(Page(site, k)) \cap Approved) \ Shown(found)
        /\ Shown(found \o New(Page(site, k))) =
             Shown(found) \cup (Shown(Page(site, k)) \cap Approved)
        /\ Distinct(New(Page(site, k)))
        /\ Distinct(found) => Distinct(found \o New(Page(site, k)))
    BY <1>1, NewFacts DEF WorkTypes
  <1>3. found = <<>> => found \o New(Page(site, k)) = New(Page(site, k))
    BY <1>2, ConcatEmptySeq
  <1> QED BY <1>1, <1>2, <1>3 DEF Wanted

LEMMA JobsCounts ==
  ASSUME WorkInv, CountInv, config.source = "jobs", Jobs!Next, Gated
  PROVE  CountInv'
  <1>1. /\ WorkTypes /\ page \in Nat /\ arrivals \in Nat
        /\ advertised \in Nat \cup {None} /\ Len(site) \in Nat
        /\ site \in Seq(Item) /\ Distinct(site) /\ found \in Seq(Approved)
        /\ IsFiniteSet(Shown(site)) /\ Cardinality(Shown(site)) = Len(site)
    BY BoundAssumption, LenProperties, ShownCount DEF WorkInv, WorkTypes
  <1>2. ASSUME JobsInv', FirstInv', config' = config PROVE CountInv'
    BY <1>2 DEF CountInv, EventsInv, RubricInv, ScholarshipsInv
  <1>3. FirstInv'
    BY JobsCollects, FirstStep
  <1>4. CASE Jobs!Start
    BY <1>4, JobsNames, CountBegins DEF Jobs!Start, Begins
  <1>5. CASE Jobs!FetchBase
    <2> DEFINE first == Page(site, 0)
    <2>1. /\ pc = "first" /\ pc' = "paging" /\ run' = run /\ config' = config
          /\ advertised' \in {Len(site), None} /\ found' = New(first)
          /\ site' = site /\ arrivals' = arrivals
      BY <1>5, JobsNames DEF Jobs!FetchBase, Jobs!world
    <2>2. arrivals = 0 /\ run = "RUNNING"
      BY <2>1 DEF WorkInv, FreshInv, BuiltInv, Collecting
    <2>3. Distinct(New(first)) /\ Shown(New(first)) \subseteq Shown(site)
      BY <1>1, CountPage
    <2>4. Shown(site) \cup Shown(New(first)) = Shown(site)
      BY <2>3
    <2>5. /\ Distinct(found)' /\ (Shown(site) \cup Shown(found))' = Shown(site) \cup Shown(New(first))
      BY <2>1, <2>3 DEF Distinct, Shown
    <2>6. ~Selected'
      BY <2>1, <2>2 DEF Selected, Fetching
    <2>7. advertised' # None =>
            Cardinality((Shown(site) \cup Shown(found))') <= advertised' + arrivals'
      <3>1. Cardinality((Shown(site) \cup Shown(found))') = Len(site)
        BY <1>1, <2>4, <2>5
      <3>2. advertised' # None => advertised' + arrivals' = Len(site)
        BY <1>1, <2>1, <2>2
      <3> QED BY <1>1, <3>1, <3>2
    <2>8. JobsInv'
      BY <2>5, <2>6, <2>7 DEF JobsInv
    <2> QED BY <1>2, <1>3, <2>1, <2>8
  <1>6. CASE Jobs!FetchPage
    <2> DEFINE items == Page(site, page - PageBase)
    <2>1. /\ pc = "paging" /\ pc' \in {"paging", "judging"} /\ run' = run /\ config' = config
          /\ advertised' = advertised /\ found' = found \o New(items)
          /\ site' = site /\ arrivals' = arrivals
      BY <1>6, JobsNames DEF Jobs!FetchPage, Jobs!world
    <2>2. run = "RUNNING" /\ page - PageBase \in Nat
      BY <1>1, <2>1, PageBaseAssumption DEF WorkInv, RequestInv, BuiltInv, Collecting
    <2>3. /\ Distinct(found) => Distinct(found \o New(items))
          /\ Shown(found \o New(items)) \subseteq Shown(site) \cup Shown(found)
          /\ Shown(found) \subseteq Shown(found \o New(items))
      BY <1>1, <2>2, CountPage
    <2>4. Shown(site) \cup Shown(found \o New(items)) = Shown(site) \cup Shown(found)
      BY <2>3
    <2>5. /\ Distinct(found)' <=> Distinct(found \o New(items))
          /\ (Shown(site) \cup Shown(found))' = Shown(site) \cup Shown(found \o New(items))
      BY <2>1 DEF Distinct, Shown
    <2>6. ~Selected'
      BY <2>1, <2>2 DEF Selected, Fetching
    <2>7. JobsInv'
      BY <2>1, <2>3, <2>4, <2>5, <2>6 DEF CountInv, JobsInv
    <2> QED BY <1>2, <1>3, <2>1, <2>7
  <1>7. CASE Jobs!Judge
    <2>1. /\ UNCHANGED <<config, traversal, world>> /\ pc = "judging"
          /\ \/ pc' = "building" /\ run' = run /\ Jobs!Verdict = "RUNNING"
             \/ pc' = "reporting" /\ run' = Jobs!Verdict
      BY <1>7 DEF Jobs!Judge, Jobs!Fail, Jobs!work, traversal, world,
                  Jobs!traversal, Jobs!world
    <2>2. Jobs!Verdict = "RUNNING" => advertised # None /\ Len(found) = advertised
      BY DEF Jobs!Verdict, Jobs!Zero, Jobs!Reconciles
    <2>3. Jobs!Verdict # "SUCCESS" /\ run # "SUCCESS"
      BY <2>1, RunNames
      DEF Jobs!Verdict, Jobs!Zero, WorkInv, BuiltInv, Collecting
    <2>4. Selected' => advertised # None /\ Len(found) = advertised
      BY <2>1, <2>2, <2>3 DEF Selected, Fetching
    <2>5. JobsInv'
      BY <2>1, <2>4 DEF CountInv, JobsInv, traversal, world, Distinct, Shown
    <2> QED BY <1>2, <1>3, <2>1, <2>5
  <1>8. CASE \/ Jobs!StopPaging \/ Jobs!FetchFails \/ Jobs!BuildRecord \/ Jobs!EvidenceFails
             \/ Jobs!Commit \/ Jobs!PersistFails
    <2>1. Rests
      BY <1>8
      DEF Jobs!StopPaging, Jobs!FetchFails, Jobs!BuildRecord, Jobs!EvidenceFails, Jobs!Commit,
          Jobs!PersistFails, Jobs!Fail, Rests, Jobs!work, traversal, world, Jobs!traversal,
          Jobs!world, Selected, Early, Fetching
    <2> QED BY <2>1, CountRests
  <1>9. CASE Jobs!Replace
    <2>1. Persist(TRUE)
      BY <1>9, JobsNames DEF Jobs!Replace
    <2>2. Rests
      BY <2>1 DEF Persist, Fail, Rests, work, Selected, Early, Fetching
    <2> QED BY <2>2, CountRests
  <1> QED
    BY <1>4, <1>5, <1>6, <1>7, <1>8, <1>9 DEF Jobs!Next

(***************************************************************************)
(* ANU events.                                                             *)
(***************************************************************************)
\* A page that is read leaves nothing of its own behind.
LEMMA CountNext ==
  ASSUME WorkTypes, NEW k \in Nat, NEW g, g = found \o New(Page(site, k))
  PROVE  /\ Len(Page(site, k)) \in Nat
         /\ Cardinality(Skipped(Wanted, site, k, found)) \in Nat
         /\ Cardinality(Skipped(Wanted, site, k + 1, g)) \in Nat
         /\ Cardinality(Skipped(Wanted, site, k + 1, g)) <=
              Cardinality(Skipped(Wanted, site, k, found))
         /\ Sweep(Wanted, site, k, found) \in Nat /\ Sweep(Wanted, site, k + 1, g) \in Nat
         /\ Sweep(Wanted, site, k + 1, g) + Len(Page(site, k)) <= Sweep(Wanted, site, k, found)
  <1>1. site \in Seq(Item) /\ Wanted \subseteq Shown(site)
    BY DEF WorkTypes, Wanted
  <1>2. Shown(found) \subseteq Shown(g) /\ Shown(Page(site, k)) \cap Wanted \subseteq Shown(g)
    BY CountPage
  <1>3. k + 1 \in Nat /\ Len(Page(site, k)) \in Nat
    BY <1>1, PageFacts
  <1>4. /\ Cardinality(Skipped(Wanted, site, k, found)) \in Nat
        /\ Sweep(Wanted, site, k, found) \in Nat
    BY <1>1, SweepFacts
  <1>5. /\ Cardinality(Skipped(Wanted, site, k + 1, g)) \in Nat
        /\ Sweep(Wanted, site, k + 1, g) \in Nat
    BY <1>1, <1>3, SweepFacts
  <1> QED BY <1>1, <1>2, <1>3, <1>4, <1>5, SweepPage

\* The first page: nothing is behind it.
LEMMA CountFirst ==
  ASSUME WorkTypes, NEW g, g = found \o New(Page(site, 0))
  PROVE  /\ Cardinality(Skipped(Wanted, site, 1, g)) = 0
         /\ Sweep(Wanted, site, 1, g) \in Nat /\ Len(Page(site, 0)) \in Nat
         /\ Sweep(Wanted, site, 1, g) + Len(Page(site, 0)) <= Len(site)
  <1>1. site \in Seq(Item) /\ Len(site) \in Nat
    BY LenProperties DEF WorkTypes
  <1>2. 0 + 1 = 1 /\ 0 \in Nat
    OBVIOUS
  <1>3. /\ Skipped(Wanted, site, 0, found) = {} /\ Sweep(Wanted, site, 0, found) = Len(site)
    BY <1>1, SweepStart
  <1>4. Cardinality(Skipped(Wanted, site, 0, found)) = 0
    BY <1>3, FS_EmptySet
  <1>5. /\ Len(Page(site, 0)) \in Nat
        /\ Cardinality(Skipped(Wanted, site, 0 + 1, g)) \in Nat
        /\ Cardinality(Skipped(Wanted, site, 0 + 1, g)) <=
             Cardinality(Skipped(Wanted, site, 0, found))
        /\ Sweep(Wanted, site, 0 + 1, g) \in Nat
        /\ Sweep(Wanted, site, 0 + 1, g) + Len(Page(site, 0)) <= Sweep(Wanted, site, 0, found)
    BY <1>2, CountNext
  <1>6. /\ Cardinality(Skipped(Wanted, site, 1, g)) \in Nat
        /\ Cardinality(Skipped(Wanted, site, 1, g)) <= 0
    BY <1>2, <1>4, <1>5
  <1> QED BY <1>1, <1>2, <1>3, <1>5, <1>6

\* The last page the pager links to holds the end of the listing.
LEMMA LastPageFacts ==
  ASSUME NEW items \in Seq(Item)
  PROVE  /\ Official!LastPage(items) \in Nat
         /\ Len(items) <= (Official!LastPage(items) + 1) * PageSize
  <1> DEFINE last == (Len(items) - 1) \div PageSize
             rest == (Len(items) - 1) % PageSize
  <1>1. Len(items) \in Nat /\ (items = <<>> <=> Len(items) = 0)
    BY LenProperties, EmptySeq
  <1>2. PageSize \in Nat /\ PageSize > 0
    BY PageSizeAssumption
  <1>3. CASE Len(items) = 0
    <2>1. Official!LastPage(items) = 0 /\ (0 + 1) * PageSize = PageSize
      BY <1>1, <1>2, <1>3 DEF Official!LastPage
    <2> QED BY <1>2, <1>3, <2>1
  <1>4. CASE Len(items) # 0
    <2>1. Official!LastPage(items) = last
      BY <1>1, <1>4 DEF Official!LastPage
    <2>2. Len(items) - 1 \in Nat
      BY <1>1, <1>4
    <2>3. /\ last \in Nat /\ rest \in 0..PageSize - 1
          /\ Len(items) - 1 = PageSize * last + rest
      BY <1>2, <2>2
    <2>4. (last + 1) * PageSize = PageSize * last + PageSize
      BY <1>2, <2>3
    <2>5. PageSize * last \in Nat
      BY <1>2, <2>3
    <2> DEFINE whole == PageSize * last
    <2> HIDE DEF last, rest, whole
    <2>6. Len(items) <= whole + PageSize
      <3>1. Len(items) - 1 = whole + rest /\ whole \in Nat
        BY <2>3, <2>5 DEF whole
      <3> QED BY <1>1, <1>2, <2>3, <3>1
    <2> QED BY <2>1, <2>3, <2>4, <2>6 DEF whole
  <1> QED BY <1>3, <1>4

LEMMA OfficialCounts ==
  ASSUME WorkInv, CountInv, config.source = "events", Official!Next, Gated
  PROVE  CountInv'
  <1>1. /\ WorkTypes /\ page \in Nat /\ arrivals \in Nat /\ departures \in Nat
        /\ advertised \in Nat \cup {None} /\ site \in Seq(Item) /\ Len(site) \in Nat
        /\ found \in Seq(Approved)
    BY BoundAssumption, LenProperties DEF WorkInv, WorkTypes
  <1>2. ASSUME EventsInv', FirstInv', config' = config PROVE CountInv'
    BY <1>2 DEF CountInv, JobsInv, RubricInv, ScholarshipsInv
  <1>3. FirstInv'
    BY OfficialCollects, FirstStep
  <1>4. CASE Official!Start
    BY <1>4, OfficialNames, CountBegins DEF Official!Start, Begins
  <1>5. CASE Official!FetchFirst
    <2> DEFINE g == found \o New(Page(site, 0))
    <2>1. /\ pc = "first" /\ pc' = "paging" /\ run' = run /\ config' = config
          /\ advertised' = Official!LastPage(site) /\ found' = New(Page(site, 0))
          /\ page' = page /\ site' = site /\ steady' = steady /\ arrivals' = arrivals
          /\ departures' = departures
      BY <1>5, OfficialNames DEF Official!FetchFirst, Official!world
    <2>2. /\ found = <<>> /\ page = 1 /\ arrivals = 0 /\ departures = 0 /\ run = "RUNNING"
      BY <1>1, <2>1 DEF WorkInv, FreshInv, BuiltInv, Collecting
    <2>3. found' = g
      BY <1>1, <2>1, <2>2, CountPage
    <2>4. Cardinality(Skipped(Wanted, site, 1, g)) = 0
      BY <1>1, CountFirst
    <2>5. Cardinality(Skipped(Wanted, site, page, found))' = 0
      BY <2>1, <2>2, <2>3, <2>4 DEF Wanted, Skipped, FirstPlaces, Shown
    <2>6. /\ Official!LastPage(site) \in Nat
          /\ Len(site) <= (Official!LastPage(site) + 1) * PageSize
      BY <1>1, LastPageFacts
    <2> DEFINE last == (Official!LastPage(site) + 1) * PageSize
    <2>7. last \in Nat
      BY <2>6, PageSizeAssumption
    <2> HIDE DEF last
    <2>8. Len(site) <= last + 0
      BY <1>1, <2>6, <2>7 DEF last
    <2>9. Len(site)' <= ((advertised + 1) * PageSize + arrivals)'
      BY <2>1, <2>2, <2>8 DEF last
    <2>10. ~Selected'
      BY <2>1, <2>2 DEF Selected, Fetching
    <2>11. EventsInv'
      BY <2>1, <2>2, <2>5, <2>9, <2>10 DEF EventsInv
    <2> QED BY <1>2, <1>3, <2>1, <2>11
  <1>6. CASE Official!FetchPage
    <2> DEFINE g == found \o New(Page(site, page))
    <2>1. /\ pc = "paging" /\ pc' = pc /\ run' = run /\ config' = config
          /\ advertised' = advertised /\ found' = g /\ page' = page + 1
          /\ site' = site /\ steady' = steady /\ arrivals' = arrivals
          /\ departures' = departures
      BY <1>6, OfficialNames DEF Official!FetchPage, Official!world
    <2>2. run = "RUNNING"
      BY <2>1 DEF WorkInv, BuiltInv, Collecting
    <2>3. /\ Cardinality(Skipped(Wanted, site, page, found)) \in Nat
          /\ Cardinality(Skipped(Wanted, site, page + 1, g)) \in Nat
          /\ Cardinality(Skipped(Wanted, site, page + 1, g)) <=
               Cardinality(Skipped(Wanted, site, page, found))
      BY <1>1, CountNext
    <2>4. Skipped(Wanted, site, page, found)' = Skipped(Wanted, site, page + 1, g)
      BY <2>1 DEF Wanted, Skipped, FirstPlaces, Shown
    <2>5. ~Selected'
      BY <2>1, <2>2 DEF Selected, Fetching
    <2>6. advertised # None =>
            /\ Len(site)' <= ((advertised + 1) * PageSize + arrivals)'
            /\ Cardinality(Skipped(Wanted, site, page, found)) <= departures
      BY <2>1 DEF CountInv, EventsInv
    <2>7. advertised # None => Cardinality(Skipped(Wanted, site, page, found))' <= departures'
      BY <1>1, <2>1, <2>3, <2>4, <2>6
    <2>8. EventsInv'
      BY <2>1, <2>5, <2>6, <2>7 DEF EventsInv
    <2> QED BY <1>2, <1>3, <2>1, <2>8
  <1>7. CASE Official!Judge
    <2>1. /\ UNCHANGED <<config, traversal, world>> /\ pc = "judging"
          /\ \/ pc' = "building" /\ run' = run /\ Official!Verdict = "RUNNING"
             \/ pc' = "reporting" /\ run' = Official!Verdict
      BY <1>7 DEF Official!Judge, Official!Fail, Official!work, traversal, world,
                  Official!traversal, Official!world
    <2>2. Official!Verdict = "RUNNING" => page = advertised + 1
      BY DEF Official!Verdict, Official!Complete
    <2>3. Official!Verdict # "SUCCESS" /\ run # "SUCCESS" /\ advertised # None
      BY <1>1, <2>1, RunNames, NoneAssumption
      DEF Official!Verdict, WorkInv, BuiltInv, PlaceInv, Collecting
    <2>4. Selected' => advertised' # None /\ page' = advertised' + 1
      BY <2>1, <2>2, <2>3 DEF Selected, Fetching, traversal
    <2>5. /\ Skipped(Wanted, site, page, found)' = Skipped(Wanted, site, page, found)
          /\ advertised' = advertised /\ arrivals' = arrivals /\ departures' = departures
          /\ config' = config /\ site' = site
      BY <2>1 DEF Wanted, Skipped, FirstPlaces, Shown, traversal, world
    <2>6. EventsInv'
      BY <2>4, <2>5 DEF CountInv, EventsInv
    <2> QED BY <1>2, <1>3, <2>5, <2>6
  <1>8. CASE \/ Official!StopPaging \/ Official!FetchFails \/ Official!BuildRecord
             \/ Official!EvidenceFails \/ Official!DuplicateAlias \/ Official!Commit
             \/ Official!PersistFails
    <2>1. Rests
      BY <1>8
      DEF Official!StopPaging, Official!FetchFails, Official!BuildRecord,
          Official!EvidenceFails, Official!DuplicateAlias, Official!Commit,
          Official!PersistFails, Official!Fail, Rests, Official!work, traversal, world,
          Official!traversal, Official!world, Selected, Early, Fetching
    <2> QED BY <2>1, CountRests
  <1>9. CASE Official!Replace
    <2>1. Persist(TRUE)
      BY <1>9, OfficialNames DEF Official!Replace
    <2>2. Rests
      BY <2>1 DEF Persist, Fail, Rests, work, Selected, Early, Fetching
    <2> QED BY <2>2, CountRests
  <1> QED
    BY <1>4, <1>5, <1>6, <1>7, <1>8, <1>9 DEF Official!Next

(***************************************************************************)
(* Rubric.                                                                 *)
(***************************************************************************)
LEMMA RubricSearches ==
  ASSUME WorkInv, CountInv, config.source = "rubric", Rubric!SearchPage
  PROVE  RubricInv'
  <1>1. /\ WorkTypes /\ page \in Nat /\ arrivals \in Nat /\ departures \in Nat
        /\ advertised \in Nat \cup {None} /\ site \in Seq(Item) /\ Len(site) \in Nat
        /\ found \in Seq(Approved) /\ cards \in Nat
    BY BoundAssumption, LenProperties DEF WorkInv, WorkTypes
  <1> DEFINE rows == Len(Page(site, page))
             g == found \o New(Page(site, page))
             ahead == Sweep(Wanted, site, page, found)
             after == Sweep(Wanted, site, page + 1, g)
  <1>2. /\ pc \in {"first", "paging"} /\ config' = config
        /\ advertised' = IF pc = "first" THEN Len(site) ELSE advertised
        /\ cards' = cards + rows /\ page' = page + 1 /\ found' = g
        /\ \/ pc' = "reporting" /\ run' = "FAILED"
           \/ Rubric!SameTotal /\ pc' = "judging" /\ run' = run
           \/ pc' = "paging" /\ run' = run
        /\ site' = site /\ steady' = steady /\ arrivals' = arrivals
        /\ departures' = departures
    BY <1>1, RubricNames DEF Rubric!SearchPage, Rubric!world, Rubric!Fail
  <1>3. run = "RUNNING"
    BY <1>2 DEF WorkInv, BuiltInv, Collecting
  <1>4. ~Selected'
    BY <1>2, <1>3 DEF Selected, Fetching
  <1>5. rows \in Nat /\ ahead \in Nat /\ after \in Nat /\ after + rows <= ahead
    BY <1>1, CountNext
  <1>6. Sweep(Wanted, site, page, found)' = after
    BY <1>2 DEF Wanted, Sweep, Skipped, Ahead, FirstPlaces, Shown
  <1> HIDE DEF rows, g, ahead, after
  <1>7. CASE pc = "first"
    <2>1. /\ found = <<>> /\ page = 0 /\ cards = 0 /\ arrivals = 0 /\ departures = 0
      BY <1>1, <1>7 DEF WorkInv, FreshInv
    <2>2. ahead = Len(site)
      BY <1>1, <2>1, SweepStart DEF ahead
    <2>3. after + (cards + rows) <= Len(site) + arrivals
      BY <1>1, <1>5, <2>1, <2>2
    <2>4. Swept'
      BY <1>2, <1>6, <1>7, <2>3 DEF Swept
    <2>5. Len(site) + departures = Len(site) + arrivals
      BY <1>1, <2>1
    <2> QED BY <1>2, <1>4, <1>7, <2>4, <2>5 DEF RubricInv
  <1>8. CASE pc = "paging"
    <2>1. advertised \in Nat /\ advertised # None
      BY <1>8, NoneAssumption DEF WorkInv, PlaceInv
    <2>2. Swept /\ Len(site) + departures = advertised + arrivals
      BY <2>1 DEF CountInv, RubricInv
    <2>3. ahead + cards <= advertised + arrivals
      BY <2>2 DEF Swept, ahead
    <2>4. after + (cards + rows) <= advertised + arrivals
      BY <1>1, <1>5, <2>1, <2>3
    <2>5. Swept'
      BY <1>2, <1>6, <1>8, <2>4 DEF Swept
    <2>6. pc' = "judging" => Len(site) = advertised
      BY <1>2, <1>8 DEF Rubric!SameTotal
    <2> QED BY <1>2, <1>4, <1>8, <2>2, <2>5, <2>6 DEF RubricInv
  <1> QED BY <1>2, <1>7, <1>8

LEMMA RubricCounts ==
  ASSUME WorkInv, CountInv, config.source = "rubric", Rubric!Next, Gated
  PROVE  CountInv'
  <1>2. ASSUME RubricInv', FirstInv', config' = config PROVE CountInv'
    BY <1>2 DEF CountInv, JobsInv, EventsInv, ScholarshipsInv
  <1>3. FirstInv'
    BY RubricCollects, FirstStep
  <1>4. CASE Rubric!Start
    BY <1>4, RubricNames, CountBegins DEF Rubric!Start, Begins
  <1>5. CASE Rubric!SearchPage
    <2>1. config' = config
      BY <1>5 DEF Rubric!SearchPage
    <2> QED BY <1>2, <1>3, <1>5, <2>1, RubricSearches
  <1>6. CASE Rubric!Judge
    <2>1. /\ UNCHANGED <<config, traversal, world>> /\ pc = "judging"
          /\ \/ pc' = "building" /\ run' = run /\ Rubric!Verdict = "RUNNING"
             \/ pc' = "reporting" /\ run' = Rubric!Verdict
      BY <1>6 DEF Rubric!Judge, Rubric!Fail, Rubric!work, traversal, world,
                  Rubric!traversal, Rubric!world
    <2>2. Rubric!Verdict = "RUNNING" => cards >= advertised
      BY DEF Rubric!Verdict, Rubric!Complete
    <2>3. Rubric!Verdict # "SUCCESS" /\ run # "SUCCESS" /\ advertised # None
      BY <2>1, RunNames, NoneAssumption
      DEF Rubric!Verdict, WorkInv, BuiltInv, PlaceInv, Collecting
    <2>4. Selected' => cards >= advertised
      BY <2>1, <2>2, <2>3 DEF Selected, Fetching
    <2>5. /\ (Swept' <=> Swept) /\ advertised' = advertised /\ arrivals' = arrivals
          /\ departures' = departures /\ config' = config /\ site' = site /\ cards' = cards
      BY <2>1 DEF Wanted, Swept, Sweep, Skipped, Ahead, FirstPlaces, Shown, traversal, world
    <2>6. Swept /\ Len(site) + departures = advertised + arrivals /\ Len(site) = advertised
      BY <2>1, <2>3 DEF CountInv, RubricInv
    <2>7. RubricInv'
      BY <2>3, <2>4, <2>5, <2>6 DEF RubricInv
    <2> QED BY <1>2, <1>3, <2>5, <2>7
  <1>7. CASE \/ Rubric!Retry \/ Rubric!RequestFails \/ Rubric!DrillRaises
             \/ Rubric!ReadDetail \/ Rubric!Commit \/ Rubric!PersistFails
    <2>1. Rests
      BY <1>7
      DEF Rubric!Retry, Rubric!RequestFails, Rubric!DrillRaises, Rubric!ReadDetail,
          Rubric!Commit, Rubric!PersistFails, Rubric!Requesting, Rubric!Fail, Rests,
          Rubric!work, traversal, world, Rubric!traversal, Rubric!world, Selected, Early,
          Fetching
    <2> QED BY <2>1, CountRests
  <1>8. CASE Rubric!Extend
    <2>1. Persist(FALSE)
      BY <1>8, RubricNames DEF Rubric!Extend
    <2>2. Rests
      BY <2>1 DEF Persist, Fail, Rests, work, Selected, Early, Fetching
    <2> QED BY <2>2, CountRests
  <1> QED
    BY <1>4, <1>5, <1>6, <1>7, <1>8 DEF Rubric!Next

(***************************************************************************)
(* Scholarships.                                                           *)
(***************************************************************************)
\* Behind the gate no collector reads the listing any more.
LEMMA LaterRests ==
  ASSUME Collects, pc \in {"building", "committing"} \cup Fetching
  PROVE  Rests
  <1>1. CASE GivesUp
    BY <1>1 DEF GivesUp, Rests, work, Selected, Early, Fetching, Failures
  <1>2. CASE Builds \/ Commits
    BY <1>2 DEF Builds, Commits, Moves, Rests, work, Selected, Early, Fetching
  <1>3. CASE Asks \/ Fetches \/ Reads
    BY <1>3 DEF Asks, Fetches, Reads, Rests, work, Selected, Early, Fetching
  <1>4. CASE Retries
    BY <1>4 DEF Retries, Rests, work, Selected, Early, Fetching
  <1>5. CASE Persists
    BY <1>5 DEF Persists, Persist, Fail, Rests, work, Selected, Early, Fetching
  <1>6. ~Begins /\ ~Discovers /\ ~Accepts /\ ~ReadsCourse /\ ~Drills /\ ~Moves("paging", "judging")
    BY DEF Begins, SaveRunning, RunningRefused, Discovers, Accepts, Moves, ReadsCourse, Drills,
           Fetching
  <1> QED BY <1>1, <1>2, <1>3, <1>4, <1>5, <1>6 DEF Collects

\* What max_details did not cut off was all found.
LEMMA WithinCounts ==
  ASSUME WorkTypes, Limit \in 1..2000, NEW k \in Nat,
         Len(Scholarships!Within(found \o New(Page(site, k)))) < Limit
  PROVE  /\ Scholarships!Within(found \o New(Page(site, k))) = found \o New(Page(site, k))
         /\ Len(found) < Limit
  <1> DEFINE more == found \o New(Page(site, k))
  <1>1. /\ more \in Seq(Approved) /\ Len(more) = Len(found) + Len(New(Page(site, k)))
        /\ New(Page(site, k)) \in Seq(Approved) /\ found \in Seq(Approved)
    BY PageOfSite, NewFacts DEF WorkTypes
  <1>2. Len(found) \in Nat /\ Len(New(Page(site, k))) \in Nat
    BY <1>1, LenProperties
  <1> HIDE DEF more
  <1>3. Len(Scholarships!Within(more)) < Limit
    BY DEF more
  <1>4. Scholarships!Within(more) = more /\ Len(more) < Limit
    BY <1>1, <1>3, WithinFacts
  <1> QED BY <1>1, <1>2, <1>4 DEF more

LEMMA ScholarshipsPages ==
  ASSUME WorkInv, CountInv, Gated, config.source = "scholarships",
         Scholarships!FetchFirst \/ Scholarships!FetchPage
  PROVE  ScholarshipsInv'
  <1> DEFINE first == pc = "first"
             k == IF first THEN 0 ELSE page
             rows == Len(Page(site, k))
             g == found \o New(Page(site, k))
             ahead == Sweep(Wanted, site, k, found)
             after == Sweep(Wanted, site, k + 1, g)
  <1>1. /\ WorkTypes /\ page \in Nat /\ k \in Nat /\ arrivals \in Nat
        /\ site \in Seq(Item) /\ Len(site) \in Nat /\ cards \in Nat
        /\ advertised \in Nat \cup {None} /\ found \in Seq(Approved)
    BY BoundAssumption, LenProperties DEF WorkInv, WorkTypes
  <1>2. Limit \in 1..2000
    BY Limits DEF Paged
  <1>3. first => found = <<>> /\ page = 1 /\ cards = 0 /\ arrivals = 0
    BY DEF WorkInv, FreshInv
  <1>4. New(Page(site, 0)) \in Seq(Approved) /\ (found = <<>> => New(Page(site, 0)) = found \o New(Page(site, 0)))
    BY <1>1, CountPage
  <1>5. /\ pc \in {"first", "paging"} /\ pc' \in {"paging", "judging"} /\ run' = run
        /\ config' = config /\ found' = Scholarships!Within(g) /\ cards' = cards + rows
        /\ page' = k + 1 /\ site' = site /\ steady' = steady /\ arrivals' = arrivals
        /\ advertised' \in IF first THEN {Len(site), None} ELSE {advertised}
    <2>1. CASE Scholarships!FetchFirst
      <3>1. first /\ found = <<>> /\ page = 1 /\ cards = 0
        BY <1>3, <2>1 DEF Scholarships!FetchFirst
      <3>2. /\ k = 0 /\ g = New(Page(site, 0)) /\ 0 + 1 = 1 /\ 0 + rows = rows
        BY <1>1, <1>4, <3>1, PageFacts
      <3> HIDE DEF rows, g, k, first
      <3>3. rows = Len(Page(site, 0))
        BY <3>2 DEF rows
      <3>4. /\ pc = "first" /\ pc' = "paging" /\ run' = run /\ config' = config
            /\ found' = Scholarships!Within(New(Page(site, 0)))
            /\ cards' = Len(Page(site, 0)) /\ page' = page /\ site' = site
            /\ steady' = steady /\ arrivals' = arrivals /\ advertised' \in {Len(site), None}
        BY <2>1, ScholarshipsNames DEF Scholarships!FetchFirst, Scholarships!world
      <3> QED BY <3>1, <3>2, <3>3, <3>4
    <2>2. CASE Scholarships!FetchPage
      BY <1>1, <2>2, ScholarshipsNames DEF Scholarships!FetchPage, Scholarships!world
    <2> QED BY <2>1, <2>2
  <1>6. run = "RUNNING"
    BY <1>5 DEF WorkInv, BuiltInv, Collecting
  <1>7. ~Selected'
    BY <1>5, <1>6 DEF Selected, Fetching
  <1>8. SUFFICES ASSUME advertised' # None, Len(found') < Limit PROVE Swept'
    BY <1>5, <1>7, SameConfig DEF ScholarshipsInv
  <1>9. found' = g /\ Len(found) < Limit
    <2> HIDE DEF k
    <2>1. Len(Scholarships!Within(found \o New(Page(site, k)))) < Limit
      BY <1>5, <1>8
    <2>2. Scholarships!Within(found \o New(Page(site, k))) = found \o New(Page(site, k))
          /\ Len(found) < Limit
      BY <1>1, <1>2, <2>1, WithinCounts
    <2> QED BY <1>5, <2>2
  <1>10. rows \in Nat /\ ahead \in Nat /\ after \in Nat /\ after + rows <= ahead
    BY <1>1, CountNext
  <1>11. Sweep(Wanted, site, page, found)' = after
    BY <1>5, <1>9 DEF Wanted, Sweep, Skipped, Ahead, FirstPlaces, Shown
  <1> HIDE DEF rows, g, ahead, after
  <1>12. CASE first
    <2>1. found = <<>> /\ k = 0 /\ cards = 0 /\ arrivals = 0 /\ advertised' = Len(site)
      BY <1>3, <1>5, <1>8, <1>12
    <2>2. ahead = Len(site)
      BY <1>1, <2>1, SweepStart DEF ahead
    <2>3. after + (cards + rows) <= Len(site) + arrivals
      BY <1>1, <1>10, <2>1, <2>2
    <2> QED BY <1>5, <1>11, <2>1, <2>3 DEF Swept
  <1>13. CASE ~first
    <2>1. advertised' = advertised /\ k = page /\ advertised # None /\ advertised \in Nat
      BY <1>1, <1>5, <1>8, <1>13
    <2>2. Swept
      BY <1>9, <2>1 DEF CountInv, ScholarshipsInv
    <2>3. ahead + cards <= advertised + arrivals
      BY <2>1, <2>2 DEF Swept, ahead
    <2>4. after + (cards + rows) <= advertised + arrivals
      BY <1>1, <1>10, <2>1, <2>3
    <2> QED BY <1>5, <1>11, <2>1, <2>4 DEF Swept
  <1> QED BY <1>12, <1>13

LEMMA ScholarshipsCounts ==
  ASSUME WorkInv, CountInv, config.source = "scholarships", Scholarships!Next, Gated
  PROVE  CountInv'
  <1>1. Collects
    BY ScholarshipsCollects
  <1>2. ASSUME ScholarshipsInv', FirstInv', config' = config PROVE CountInv'
    BY <1>2 DEF CountInv, JobsInv, EventsInv, RubricInv
  <1>3. FirstInv'
    BY <1>1, FirstStep
  <1>4. CASE Scholarships!Start
    BY <1>4, ScholarshipsNames, CountBegins DEF Scholarships!Start, Begins
  <1>5. CASE Scholarships!FetchFirst \/ Scholarships!FetchPage
    <2>1. config' = config
      BY <1>5 DEF Scholarships!FetchFirst, Scholarships!FetchPage
    <2> QED BY <1>2, <1>3, <1>5, <2>1, ScholarshipsPages
  <1>6. CASE Scholarships!Judge
    <2>1. /\ UNCHANGED <<config, traversal, world>> /\ pc = "judging"
          /\ \/ pc' = "building" /\ run' = run /\ Scholarships!Verdict = "RUNNING"
             \/ pc' = "reporting" /\ run' = Scholarships!Verdict
      BY <1>6 DEF Scholarships!Judge, Scholarships!Fail, Scholarships!work, traversal, world,
                  Scholarships!traversal, Scholarships!world
    <2>2. /\ Scholarships!Verdict = "RUNNING" =>
               (MaxPages > 1 => advertised # None /\ cards = advertised)
          /\ Scholarships!Verdict # "SUCCESS" /\ run # "SUCCESS"
      <3>1. MaxPages \in 1..100
        BY Limits DEF Paged
      <3> QED
        BY <2>1, <3>1, RunNames, ScholarshipsNames
        DEF Scholarships!Verdict, Scholarships!Zero, Scholarships!Census, WorkInv, BuiltInv,
            Collecting
    <2>3. Selected' /\ MaxPages > 1 => advertised # None /\ cards = advertised
      BY <2>1, <2>2 DEF Selected, Fetching
    <2>4. /\ (Swept' <=> Swept) /\ advertised' = advertised /\ found' = found
          /\ config' = config /\ cards' = cards
      BY <2>1 DEF Wanted, Swept, Sweep, Skipped, Ahead, FirstPlaces, Shown, traversal, world
    <2>5. ScholarshipsInv'
      BY <2>3, <2>4, SameConfig DEF CountInv, ScholarshipsInv
    <2> QED BY <1>2, <1>3, <2>4, <2>5
  <1>7. CASE Scholarships!StopPaging \/ Scholarships!ListingFails
    <2>1. Rests
      BY <1>7
      DEF Scholarships!StopPaging, Scholarships!ListingFails, Scholarships!Fail, Rests,
          Scholarships!work, traversal, world, Scholarships!traversal, Scholarships!world,
          Selected, Early, Fetching
    <2> QED BY <2>1, CountRests
  <1>8. CASE pc \in {"building", "committing"} \cup Fetching
    BY <1>1, <1>8, LaterRests, CountRests
  <1>9. CASE \/ Scholarships!Call \/ Scholarships!Body \/ Scholarships!GetFails
             \/ Scholarships!GetRedirect \/ Scholarships!SkipExternal \/ Scholarships!Parse
             \/ Scholarships!DetailFails \/ Scholarships!Commit \/ Scholarships!Extend
             \/ Scholarships!PersistFails
    <2>1. pc \in {"building", "committing"} \cup Fetching
      BY <1>9
      DEF Scholarships!Call, Scholarships!Body, Scholarships!GetFails,
          Scholarships!GetRedirect, Scholarships!SkipExternal, Scholarships!Parse,
          Scholarships!DetailFails, Scholarships!Commit, Scholarships!Extend,
          Scholarships!Persist, Scholarships!PersistFails, Fetching
    <2> QED BY <1>8, <2>1
  <1> QED
    BY <1>4, <1>5, <1>6, <1>7, <1>9 DEF Scholarships!Next

(***************************************************************************)
(* Every step.                                                             *)
(***************************************************************************)
LEMMA CountStep ==
  ASSUME WorkInv, CountInv, [Next]_vars
  PROVE  CountInv'
  <1>1. CASE Collect
    <2>1. Gated /\ Collects
      BY <1>1, CollectGated
    <2>2. CASE config.source \notin Paged
      <3>1. config' = config
        BY <2>1
        DEF Collects, Begins, SaveRunning, RunningRefused, GivesUp, Discovers, Moves, Accepts,
            Builds, Commits, Asks, Fetches, Reads, ReadsCourse, Retries, Drills, Persists,
            Persist
      <3>2. FirstInv'
        BY <2>1, FirstStep
      <3> QED
        BY <2>2, <3>1, <3>2
        DEF CountInv, JobsInv, EventsInv, RubricInv, ScholarshipsInv, Paged
    <2>3. CASE config.source \in Paged
      BY <1>1, <2>1, <2>3, JobsCounts, OfficialCounts, RubricCounts, ScholarshipsCounts
      DEF Collect, Paged
    <2> QED BY <2>2, <2>3
  <1>2. CASE SiteChanges
    BY <1>2, CountChanges
  <1>3. CASE \/ Configure \/ Open \/ OpenFails \/ Report \/ Escape \/ Summarise \/ Kill
             \/ UNCHANGED vars
    BY <1>3, CountOther
  <1> QED
    BY <1>1, <1>2, <1>3 DEF Next, Progress, Environment

LEMMA Counting == Spec => []Counts
  <1>1. Init => Counts
    BY WorkInit, StoreInit, CountInit DEF Counts
  <1>2. Counts /\ [Next]_vars => Counts'
    BY WorkStep, StoreStep, CountStep DEF Counts
  <1> QED BY <1>1, <1>2, PTL DEF Spec

(***************************************************************************)
(* The theorems.                                                           *)
(***************************************************************************)
\* Jobs: a published listing misses at most one job for each that arrived
\* while it was traversed (the comparison with the advertised total in
\* sources/jobs, and the replacement of the whole population).
THEOREM JobsMissLittle == Spec => []MissesAtMostArrivals
  <1>1. ASSUME Counts, PopulationIsListing PROVE MissesAtMostArrivals
    <2> SUFFICES ASSUME config.source = "jobs", Published
                 PROVE  Cardinality((steady \cap Approved) \ Current) <= arrivals
      BY DEF MissesAtMostArrivals
    <2> DEFINE missed == Wanted \ Shown(found)
    <2>1. Current = Shown(found)
      BY <1>1 DEF PopulationIsListing, CompleteSources
    <2>2. /\ Distinct(found) /\ advertised # None /\ Len(found) = advertised
          /\ Cardinality(Shown(site) \cup Shown(found)) <= advertised + arrivals
      BY <1>1 DEF Counts, CountInv, JobsInv, Published, Selected
    <2>3. /\ found \in Seq(Approved) /\ site \in Seq(Item) /\ arrivals \in Nat
          /\ Len(found) \in Nat /\ Wanted \subseteq Shown(site)
      BY <1>1, BoundAssumption, LenProperties DEF Counts, WorkInv, WorkTypes, Wanted
    <2>4. /\ IsFiniteSet(Shown(found)) /\ Cardinality(Shown(found)) = Len(found)
          /\ IsFiniteSet(Shown(site))
      BY <2>2, <2>3, ShownCount
    <2>5. /\ IsFiniteSet(Shown(site) \cup Shown(found))
          /\ Cardinality(Shown(site) \cup Shown(found)) \in Nat
      BY <2>4, CountUnion
    <2>6. missed \subseteq Shown(site) /\ missed \cap Shown(found) = {}
      BY <2>3
    <2>7. IsFiniteSet(missed) /\ Cardinality(missed) \in Nat
      BY <2>4, <2>6, CountWithin
    <2>8. Cardinality(missed \cup Shown(found)) = Cardinality(missed) + Cardinality(Shown(found))
      BY <2>4, <2>6, <2>7, CountUnion
    <2>9. missed \cup Shown(found) \subseteq Shown(site) \cup Shown(found)
      BY <2>6
    <2>10. Cardinality(missed \cup Shown(found)) <= Cardinality(Shown(site) \cup Shown(found))
      BY <2>5, <2>9, CountWithin
    <2>11. Cardinality(missed) + Len(found) <= advertised + arrivals
      <3>1. Cardinality(missed) + Len(found) <= Cardinality(Shown(site) \cup Shown(found))
        BY <2>4, <2>8, <2>10
      <3> HIDE DEF missed
      <3> QED BY <2>2, <2>3, <2>5, <2>7, <3>1
    <2>12. Cardinality(missed) <= arrivals
      <3> HIDE DEF missed
      <3> QED BY <2>2, <2>3, <2>7, <2>11
    <2> QED BY <2>1, <2>12 DEF Wanted
  <1> QED BY <1>1, Counting, PopulationReplaced, PTL

\* ANU events: a published listing misses at most one event for each arrival
\* and each departure while it was traversed, although no total is compared
\* (the pager of the first page alone decides in sources/events).
THEOREM EventsMissLittle == Spec => []EventsMissesAtMostChanges
  <1>1. ASSUME Counts, PopulationIsListing PROVE EventsMissesAtMostChanges
    <2> SUFFICES ASSUME config.source = "events", Published
                 PROVE  Cardinality((steady \cap Approved) \ Current) <= arrivals + departures
      BY DEF EventsMissesAtMostChanges
    <2> DEFINE missed == Cardinality(Wanted \ Shown(found))
               skipped == Cardinality(Skipped(Wanted, site, page, found))
               ahead == Ahead(site, page)
               places == page * PageSize
    <2>1. Current = Shown(found)
      BY <1>1 DEF PopulationIsListing, CompleteSources
    <2>2. /\ advertised # None /\ page = advertised + 1
          /\ Len(site) <= (advertised + 1) * PageSize + arrivals
          /\ skipped <= departures
      BY <1>1 DEF Counts, CountInv, EventsInv, Published, Selected
    <2>3. /\ site \in Seq(Item) /\ arrivals \in Nat /\ departures \in Nat /\ page \in Nat
          /\ Len(site) \in Nat /\ Wanted \subseteq Shown(site)
      BY <1>1, BoundAssumption, LenProperties DEF Counts, WorkInv, WorkTypes, Wanted
    <2>4. places \in Nat
      BY <2>3, PageSizeAssumption
    <2>5. Len(site) <= places + arrivals
      BY <2>2
    <2>6. ahead = IF Len(site) <= places THEN 0 ELSE Len(site) - places
      BY DEF Ahead
    <2>7. skipped \in Nat /\ missed \in Nat /\ missed <= skipped + ahead
      BY <2>3, SweepFacts DEF Sweep
    <2> HIDE DEF missed, skipped, ahead, places
    <2>8. ahead \in Nat /\ ahead <= arrivals
      BY <2>3, <2>4, <2>5, <2>6
    <2>9. missed <= arrivals + departures
      BY <2>2, <2>3, <2>7, <2>8
    <2> QED BY <2>1, <2>9 DEF missed, Wanted
  <1> QED BY <1>1, Counting, PopulationReplaced, PTL

\* Rubric: a search that passed misses an event only if one arrived and one
\* departed (the total is compared on every page in rubric_adapter.py).
THEOREM RubricMissesLittle == Spec => []RubricMissesAtMostSwaps
  <1>1. ASSUME Counts PROVE RubricMissesAtMostSwaps
    <2> SUFFICES ASSUME config.source = "rubric", Published
                 PROVE  /\ Cardinality(Wanted \ Shown(found)) <= arrivals
                        /\ Cardinality(Wanted \ Shown(found)) <= departures
      BY DEF RubricMissesAtMostSwaps, Wanted
    <2> DEFINE missed == Cardinality(Wanted \ Shown(found))
               sweep == Sweep(Wanted, site, page, found)
    <2>1. /\ advertised # None /\ cards >= advertised /\ Swept
          /\ Len(site) + departures = advertised + arrivals /\ Len(site) = advertised
      BY <1>1 DEF Counts, CountInv, RubricInv, Published, Selected
    <2>2. /\ site \in Seq(Item) /\ arrivals \in Nat /\ departures \in Nat /\ page \in Nat
          /\ Len(site) \in Nat /\ Wanted \subseteq Shown(site) /\ advertised \in Nat
          /\ cards \in Nat
      BY <1>1, <2>1, BoundAssumption, LenProperties DEF Counts, WorkInv, WorkTypes, Wanted
    <2>3. missed \in Nat /\ sweep \in Nat /\ missed <= sweep
      BY <2>2, SweepFacts
    <2>4. sweep + cards <= advertised + arrivals
      BY <2>1 DEF Swept
    <2> HIDE DEF missed, sweep
    <2>5. missed <= arrivals
      BY <2>1, <2>2, <2>3, <2>4
    <2>6. arrivals = departures
      BY <2>1, <2>2
    <2> QED BY <2>5, <2>6 DEF missed
  <1> QED BY <1>1, Counting, PTL

\* Scholarships: a census that passed missed at most one scholarship for each
\* that arrived, unless max_details cut the list off (run_listing compares the
\* cards with the headline).
THEOREM ScholarshipsMissLittle == Spec => []ScholarshipsMissesAtMostArrivals
  <1>1. ASSUME Counts PROVE ScholarshipsMissesAtMostArrivals
    <2> SUFFICES ASSUME config.source = "scholarships", Published, MaxPages > 1,
                        Len(found) < Limit
                 PROVE  Cardinality(Wanted \ Shown(found)) <= arrivals
      BY DEF ScholarshipsMissesAtMostArrivals, Wanted
    <2> DEFINE missed == Cardinality(Wanted \ Shown(found))
               sweep == Sweep(Wanted, site, page, found)
    <2>1. advertised # None /\ cards = advertised /\ Swept
      BY <1>1 DEF Counts, CountInv, ScholarshipsInv, Published, Selected
    <2>2. /\ site \in Seq(Item) /\ arrivals \in Nat /\ page \in Nat
          /\ Wanted \subseteq Shown(site) /\ advertised \in Nat /\ cards \in Nat
      BY <1>1, <2>1, BoundAssumption DEF Counts, WorkInv, WorkTypes, Wanted
    <2>3. missed \in Nat /\ sweep \in Nat /\ missed <= sweep
      BY <2>2, SweepFacts
    <2>4. sweep + cards <= advertised + arrivals
      BY <2>1 DEF Swept
    <2> HIDE DEF missed, sweep
    <2>5. missed <= arrivals
      BY <2>1, <2>2, <2>3, <2>4
    <2> QED BY <2>5 DEF missed
  <1> QED BY <1>1, Counting, PTL
================================================================================

------------------------------- MODULE JobProofs -------------------------------
(***************************************************************************)
(* The invariants of one execution of the job, proved for every registry,  *)
(* site, set of command lines and earlier contents of the store, and the   *)
(* theorems that follow from them.                                         *)
(***************************************************************************)
EXTENDS JobSteps

(***************************************************************************)
(* Where a step of the collectors starts.                                  *)
(***************************************************************************)
LEMMA JobsPlace ==
  ASSUME Jobs!Next PROVE pc \in {"starting"} \cup Collecting
  BY DEF Jobs!Next, Jobs!Start, Jobs!SaveRunning, Jobs!RunningRefused, Jobs!FetchBase,
         Jobs!FetchPage, Jobs!StopPaging, Jobs!FetchFails, Jobs!Judge, Jobs!BuildRecord,
         Jobs!EvidenceFails, Jobs!Commit, Jobs!Replace, Jobs!Persist, Jobs!PersistFails,
         Collecting

LEMMA OfficialPlace ==
  ASSUME Official!Next PROVE pc \in {"starting"} \cup Collecting
  BY DEF Official!Next, Official!Start, Official!SaveRunning, Official!RunningRefused,
         Official!FetchFirst, Official!FetchPage, Official!StopPaging, Official!FetchFails,
         Official!Judge, Official!BuildRecord, Official!EvidenceFails,
         Official!DuplicateAlias, Official!Commit, Official!Replace, Official!Persist,
         Official!PersistFails, Collecting

LEMMA RubricPlace ==
  ASSUME Rubric!Next PROVE pc \in {"starting"} \cup Collecting
  BY DEF Rubric!Next, Rubric!Start, Rubric!SaveRunning, Rubric!RunningRefused, Rubric!Retry,
         Rubric!RequestFails, Rubric!Requesting, Rubric!SearchPage, Rubric!DrillRaises,
         Rubric!Judge, Rubric!ReadDetail, Rubric!Commit, Rubric!Extend, Rubric!Persist,
         Rubric!PersistFails, Collecting

LEMMA ScholarshipsPlace ==
  ASSUME Scholarships!Next PROVE pc \in {"starting"} \cup Collecting
  BY DEF Scholarships!Next, Scholarships!Start, Scholarships!SaveRunning,
         Scholarships!RunningRefused, Scholarships!FetchFirst, Scholarships!FetchPage,
         Scholarships!StopPaging, Scholarships!ListingFails, Scholarships!Judge,
         Scholarships!Call, Scholarships!Body, Scholarships!GetFails,
         Scholarships!GetRedirect, Scholarships!SkipExternal, Scholarships!Parse,
         Scholarships!DetailFails, Scholarships!Commit, Scholarships!Extend,
         Scholarships!Persist, Scholarships!PersistFails, Collecting, Fetching

LEMMA AccommodationPlace ==
  ASSUME Accommodation!Next PROVE pc \in {"starting"} \cup Collecting
  BY DEF Accommodation!Next, Accommodation!Start, Accommodation!SaveRunning,
         Accommodation!RunningRefused, Accommodation!FetchRegistry,
         Accommodation!RegistryFails, Accommodation!Judge, Accommodation!ReadDetail,
         Accommodation!DetailFails, Accommodation!Commit, Accommodation!Extend,
         Accommodation!Persist, Accommodation!PersistFails, Collecting

LEMMA SupportPlace ==
  ASSUME Support!Next PROVE pc \in {"starting"} \cup Collecting
  BY DEF Support!Next, Support!Start, Support!SaveRunning, Support!RunningRefused,
         Support!FetchRegistry, Support!RegistryFails, Support!Judge, Support!ReadDetail,
         Support!DetailFails, Support!Commit, Support!Extend, Support!Persist,
         Support!PersistFails, Collecting

LEMMA CataloguePlace ==
  ASSUME Catalogue!Next PROVE pc \in {"starting"} \cup Collecting
  BY DEF Catalogue!Next, Catalogue!Start, Catalogue!SaveRunning, Catalogue!RunningRefused,
         Catalogue!FetchCourse, Catalogue!CourseFails, Catalogue!FetchFeeds,
         Catalogue!FeedFails, Catalogue!Judge, Catalogue!ReadDetail, Catalogue!DetailFails,
         Catalogue!Commit, Catalogue!Extend, Catalogue!Persist, Catalogue!PersistFails,
         Collecting

\* A collector acts only behind the gates of the configuration.
LEMMA CollectGated ==
  ASSUME WorkInv, Collect
  PROVE  Gated /\ Collects
  <1>1. pc \in {"starting"} \cup Collecting
    BY JobsPlace, OfficialPlace, RubricPlace, ScholarshipsPlace, AccommodationPlace,
       SupportPlace, CataloguePlace DEF Collect
  <1>2. Gated
    BY <1>1 DEF WorkInv, RequestInv, Collecting, Fetching
  <1> QED BY <1>2, CollectKinds

(***************************************************************************)
(* The work of an execution.                                               *)
(***************************************************************************)
LEMMA SameConfig ==
  ASSUME config' = config
  PROVE  /\ Gated' <=> Gated
         /\ Limit' = Limit /\ MaxPages' = MaxPages
         /\ ListingRequests' = ListingRequests /\ DetailRequests' = DetailRequests
  <1>1. Gated' <=> Gated
    BY DEF Gated, Loads, CoursesLoad, Allowed
  <1>2. Limit' = Limit /\ MaxPages' = MaxPages
    BY DEF Limit, MaxPages
  <1> QED BY <1>1, <1>2 DEF ListingRequests, DetailRequests

LEMMA SameWork ==
  ASSUME WorkTypes, UNCHANGED work
  PROVE  /\ WorkTypes'
         /\ site' = site /\ steady' = steady /\ arrivals' = arrivals
         /\ departures' = departures /\ page' = page /\ advertised' = advertised
         /\ shown' = shown /\ cards' = cards /\ found' = found /\ built' = built
         /\ eligible' = eligible /\ requests' = requests /\ attempt' = attempt
         /\ hop' = hop /\ target' = target
  BY DEF WorkTypes, work, traversal, details, fetching, world

LEMMA RequestLimits ==
  ASSUME Gated
  PROVE  ListingRequests \in Nat /\ DetailRequests \in Nat
  <1>1. ListingRequests \in 1..100 /\ DetailRequests \in Nat
    BY Limits
  <1> QED BY <1>1

LEMMA WorkInit ==
  ASSUME Init
  PROVE  WorkInv
  <1>1. WorkTypes
    <2>1. /\ <<>> \in Seq(Item) /\ <<>> \in Seq(Approved) /\ <<>> \in Seq(Outcome)
          /\ Len(<<>>) = 0 /\ DOMAIN <<>> = {}
      OBVIOUS
    <2> QED BY <2>1, BoundAssumption, MaxRedirectsAssumption DEF Init, WorkTypes, Distinct
  <1>2. FreshInv /\ PlaceInv
    BY DEF Init, FreshInv, PlaceInv, Fetching
  <1>3. RequestInv
    <2>1. Gated => ListingRequests + DetailRequests >= 0
      BY Limits
    <2> QED BY <2>1 DEF Init, RequestInv, Fetching
  <1>4. BuiltInv
    <2>1. DOMAIN <<>> = {} /\ None \notin RunStatus
      BY NoneIsNoValue
    <2> QED BY <2>1 DEF Init, BuiltInv, Collecting, Fetching, RunStatus
  <1> QED BY <1>1, <1>2, <1>3, <1>4 DEF WorkInv

\* Steps that leave the work alone.
LEMMA WorkConfigure ==
  ASSUME WorkInv, Configure \/ Open \/ OpenFails
  PROVE  WorkInv'
  <1>1. /\ pc \in {"config", "opening"} /\ pc' \in {"opening", "starting", "done"}
        /\ pc' # "done" /\ pc = "config" => Gated
        /\ run' = run /\ config' = config /\ UNCHANGED work
    BY DEF Configure, Open, OpenFails, Gated
  <1>2. WorkTypes'
    BY <1>1, SameWork DEF WorkInv
  <1>3. FreshInv'
    BY <1>1, SameWork DEF WorkInv, FreshInv
  <1>4. PlaceInv'
    BY <1>1, SameWork DEF PlaceInv, Fetching
  <1>5. RequestInv'
    BY <1>1, SameWork, SameConfig DEF WorkInv, RequestInv, Fetching
  <1>6. BuiltInv'
    <2>1. run = None
      BY <1>1 DEF WorkInv, BuiltInv
    <2> QED
      BY <1>1, <2>1, SameWork, SameConfig, NoneIsNoValue
      DEF WorkInv, BuiltInv, Collecting, Fetching, RunStatus
  <1> QED BY <1>2, <1>3, <1>4, <1>5, <1>6 DEF WorkInv

LEMMA WorkBegins ==
  ASSUME WorkInv, Begins
  PROVE  WorkInv'
  <1> DEFINE kept == /\ config' = config /\ page' = page /\ advertised' = advertised
                     /\ shown' = shown /\ cards' = cards /\ found' = found
                     /\ built' = built /\ eligible' = eligible /\ requests' = requests
                     /\ attempt' = attempt /\ hop' = hop /\ target' = target
                     /\ arrivals' = arrivals /\ departures' = departures
  <1>1. /\ pc = "starting" /\ kept
        /\ \/ site' \in Sites(SiteSize) /\ steady' = Shown(site')
           \/ site' = site /\ steady' = steady
        /\ \/ pc' = "first" /\ run' = "RUNNING" /\ (config.source = "courses" => config.code # "valid")
           \/ pc' = "single" /\ run' = "RUNNING" /\ config.source = "courses" /\ config.code = "valid"
           \/ pc' \in {"reporting", "returned"} /\ run' = "FAILED"
    <2>1. ASSUME NEW next \in {"first", "single"}, SaveRunning(next)
          PROVE  /\ pc = "starting" /\ kept /\ pc' = next /\ run' = "RUNNING"
                 /\ site' \in Sites(SiteSize) /\ steady' = Shown(site')
      BY <2>1 DEF SaveRunning, traversal, details, fetching
    <2>2. ASSUME NEW next, RunningRefused(next)
          PROVE  /\ pc = "starting" /\ kept /\ pc' = next /\ run' = "FAILED"
                 /\ site' = site /\ steady' = steady
      BY <2>2 DEF RunningRefused, work, traversal, details, fetching, world
    <2> HIDE DEF kept
    <2> QED BY <2>1, <2>2 DEF Begins
  <1>2. WorkTypes'
    <2>1. site' \in Seq(Item) /\ Distinct(site)' /\ steady' \subseteq Shown(site)'
      BY <1>1, SiteFacts, BoundAssumption DEF WorkInv, WorkTypes, Distinct, Shown
    <2> QED BY <1>1, <2>1 DEF WorkInv, WorkTypes
  <1>3. FreshInv'
    BY <1>1 DEF WorkInv, FreshInv
  <1>4. PlaceInv'
    BY <1>1 DEF WorkInv, PlaceInv, Fetching
  <1>5. RequestInv'
    BY <1>1, SameConfig DEF WorkInv, RequestInv, Fetching
  <1>6. BuiltInv'
    <2>1. built = <<>> /\ eligible = 0 /\ DOMAIN <<>> = {}
      BY <1>1 DEF WorkInv, FreshInv
    <2> QED
      BY <1>1, <2>1, SameConfig
      DEF WorkInv, BuiltInv, Collecting, Fetching, Failures
  <1> QED BY <1>2, <1>3, <1>4, <1>5, <1>6 DEF WorkInv

LEMMA WorkGivesUp ==
  ASSUME WorkInv, GivesUp
  PROVE  WorkInv'
  <1>1. /\ pc \in Collecting /\ pc' = "reporting" /\ run' \in Failures
        /\ config' = config /\ UNCHANGED work
    BY DEF GivesUp
  <1>2. WorkTypes'
    BY <1>1, SameWork DEF WorkInv
  <1>3. FreshInv' /\ PlaceInv'
    BY <1>1 DEF FreshInv, PlaceInv, Fetching
  <1>4. RequestInv'
    BY <1>1, SameWork, SameConfig DEF WorkInv, RequestInv, Collecting, Fetching
  <1>5. BuiltInv'
    BY <1>1, SameWork, SameConfig DEF WorkInv, BuiltInv, Collecting, Fetching, Failures
  <1> QED BY <1>2, <1>3, <1>4, <1>5 DEF WorkInv

LEMMA WorkDiscovers ==
  ASSUME WorkInv, Discovers
  PROVE  WorkInv'
  <1>1. /\ Gated /\ run = "RUNNING" /\ built = <<>> /\ eligible = 0
        /\ config' = config /\ built' = built /\ eligible' = eligible
        /\ hop' = hop /\ target' = target /\ site' = site /\ steady' = steady
        /\ arrivals' = arrivals /\ departures' = departures
    BY DEF Discovers, WorkInv, RequestInv, BuiltInv, FreshInv, Collecting, details, world
  <1>2. Len(<<>>) = 0 /\ DOMAIN <<>> = {}
    OBVIOUS
  <1>3. WorkTypes'
    <2>1. Len(found') \in Nat
      BY LenProperties DEF Discovers
    <2>2. /\ page' \in 0..100 /\ advertised' \in Nat \cup {None} /\ shown' \in Nat
          /\ cards' \in Nat /\ found' \in Seq(Approved) /\ requests' \in Nat
          /\ attempt' \in 1..3
      BY DEF Discovers
    <2>3. Distinct(site)' /\ steady' \subseteq Shown(site)'
      BY <1>1 DEF WorkInv, WorkTypes, Distinct, Shown
    <2> QED BY <1>1, <1>2, <2>1, <2>2, <2>3 DEF WorkInv, WorkTypes
  <1>4. FreshInv'
    BY <1>1 DEF Discovers, FreshInv
  <1>5. PlaceInv'
    BY <1>1 DEF Discovers, WorkInv, PlaceInv, Paged, Fetching
  <1>6. RequestInv'
    <2>1. requests' \in Nat /\ requests' <= ListingRequests
      BY DEF Discovers
    <2>2. ListingRequests \in Nat /\ DetailRequests \in Nat
      BY <1>1, RequestLimits
    <2>3. requests' <= ListingRequests + DetailRequests
      BY <2>1, <2>2
    <2>4. pc' = "paging" =>
            /\ requests' = page' /\ page' >= 1 /\ page' <= MaxPages
            /\ config.source = "rubric" => page' < MaxPages
      BY DEF Discovers
    <2>5. config.source = "scholarships" => Len(found') <= Limit
      BY DEF Discovers
    <2>6. pc' \in {"paging", "judging", "reporting"}
      BY DEF Discovers
    <2> QED
      BY <1>1, <2>1, <2>3, <2>4, <2>5, <2>6, SameConfig DEF RequestInv, Fetching
  <1>7. BuiltInv'
    <2>1. config.source \in {"accommodation", "support"} => Capped'
      BY <1>1, SameConfig DEF Discovers, Capped
    <2>2. run' \in Failures \cup {"RUNNING"} /\ (pc' # "reporting" => run' = "RUNNING")
      BY <1>1 DEF Discovers
    <2> QED
      BY <1>1, <1>2, <2>1, <2>2 DEF Discovers, BuiltInv, Collecting, Fetching, Failures
  <1> QED BY <1>3, <1>4, <1>5, <1>6, <1>7 DEF WorkInv

LEMMA WorkStopsPaging ==
  ASSUME WorkInv, Moves("paging", "judging")
  PROVE  WorkInv'
  <1>1. /\ pc = "paging" /\ pc' = "judging" /\ run' = run
        /\ config' = config /\ UNCHANGED work
    BY DEF Moves
  <1>2. WorkTypes'
    BY <1>1, SameWork DEF WorkInv
  <1>3. FreshInv' /\ PlaceInv'
    BY <1>1, SameWork DEF WorkInv, FreshInv, PlaceInv, Fetching, Paged
  <1>4. RequestInv'
    BY <1>1, SameWork, SameConfig DEF WorkInv, RequestInv, Fetching
  <1>5. BuiltInv'
    <2>1. config.source \in Paged
      BY <1>1 DEF WorkInv, PlaceInv
    <2> QED
      BY <1>1, <2>1, SameWork, SameConfig
      DEF WorkInv, BuiltInv, Paged, Collecting, Fetching, Failures
  <1> QED BY <1>2, <1>3, <1>4, <1>5 DEF WorkInv

LEMMA WorkAccepts ==
  ASSUME WorkInv, Accepts
  PROVE  WorkInv'
  <1>1. /\ pc = "judging" /\ pc' = "building" /\ run' = run
        /\ config' = config /\ UNCHANGED work
    BY DEF Accepts, Moves
  <1>2. /\ Gated /\ run = "RUNNING" /\ built = <<>> /\ Len(<<>>) = 0 /\ Len(found) \in Nat
        /\ cards \in Nat
    BY <1>1, LenProperties DEF WorkInv, WorkTypes, RequestInv, BuiltInv, FreshInv, Collecting
  <1>3. WorkTypes'
    BY <1>1, SameWork DEF WorkInv
  <1>4. FreshInv' /\ PlaceInv'
    BY <1>1, SameWork DEF WorkInv, FreshInv, PlaceInv, Fetching
  <1>5. config.source \notin CompleteSources => Len(found) <= DetailRequests
    <2>1. CASE config.source \in {"accommodation", "support"}
      <3>1. Capped /\ Limit \in Nat /\ DetailRequests = Limit
        BY <1>1, <1>2, <2>1, Limits DEF WorkInv, BuiltInv, DetailRequests
      <3> QED BY <1>2, <3>1 DEF Capped
    <2>2. CASE config.source = "courses"
      BY <1>2, <2>2, Limits DEF Accepts, DetailRequests
    <2>3. CASE config.source = "scholarships"
      BY <1>1, <2>3 DEF WorkInv, RequestInv, DetailRequests
    <2>4. CASE config.source = "rubric"
      BY <2>4 DEF Accepts, DetailRequests
    <2> QED
      BY <1>2, <2>1, <2>2, <2>3, <2>4, Limits DEF Registry, CompleteSources
  <1>6. RequestInv'
    <2>1. requests <= ListingRequests /\ requests \in Nat
      BY <1>1 DEF WorkInv, RequestInv, WorkTypes
    <2>2. ListingRequests \in Nat /\ DetailRequests \in Nat
      BY <1>2, RequestLimits
    <2>3. Len(built) = 0 /\ requests <= ListingRequests + DetailRequests
      BY <1>2, <2>1, <2>2
    <2>4. built' = built /\ found' = found /\ requests' = requests
      BY <1>1, SameWork DEF WorkInv
    <2> QED
      BY <1>1, <1>2, <1>5, <2>1, <2>2, <2>3, <2>4, SameConfig DEF RequestInv, Fetching
  <1>7. BuiltInv'
    <2>1. config.source \in {"accommodation", "support"} => Capped'
      BY <1>1, SameWork, SameConfig DEF WorkInv, BuiltInv, Capped
    <2>2. config.source = "courses" => config.code # "valid"
      BY <1>1 DEF WorkInv, PlaceInv
    <2> QED
      BY <1>1, <1>2, <2>1, <2>2, SameWork, SameConfig
      DEF WorkInv, BuiltInv, Accepts, Collecting, Fetching, Failures
  <1> QED BY <1>3, <1>4, <1>6, <1>7 DEF WorkInv

LEMMA WorkBuilds ==
  ASSUME WorkInv, Builds
  PROVE  WorkInv'
  <1> PICK outcome \in Outcome :
        /\ built' = Append(built, outcome)
        /\ outcome = "rejected" => config.source = "rubric"
        /\ config.source \in {"accommodation", "support", "courses"} => outcome = "detail"
        /\ \/ eligible' = eligible
           \/ eligible' = eligible + 1 /\ outcome # "rejected"
    BY DEF Builds
  <1>1. /\ pc = "building" /\ pc' = "building" /\ run' = run /\ config' = config
        /\ page' = page /\ advertised' = advertised /\ shown' = shown /\ cards' = cards
        /\ found' = found /\ hop' = hop /\ target' = target /\ site' = site
        /\ steady' = steady /\ arrivals' = arrivals /\ departures' = departures
        /\ attempt' \in 1..3 /\ Len(built) < Len(found)
        /\ \/ requests' = requests
           \/ /\ requests' = requests + 1
              /\ config.source \in CompleteSources => Len(built) < Limit
    BY DEF Builds, traversal, world
  <1>2. /\ built \in Seq(Outcome) /\ Len(built) \in Nat /\ Len(found) \in Nat
        /\ requests \in Nat /\ eligible \in 0..Len(built)
        /\ built' \in Seq(Outcome) /\ Len(built') = Len(built) + 1
        /\ DOMAIN built' = 1..(Len(built) + 1)
        /\ \A k \in DOMAIN built : k \in DOMAIN built' /\ built'[k] = built[k]
        /\ built'[Len(built) + 1] = outcome
        /\ \A k \in DOMAIN built' : k \in DOMAIN built \/ k = Len(built) + 1
    BY AppendProperties, LenProperties DEF WorkInv, WorkTypes
  <1>3. WorkTypes'
    <2>1. Distinct(site)' /\ steady' \subseteq Shown(site)'
      BY <1>1 DEF WorkInv, WorkTypes, Distinct, Shown
    <2>2. Len(built') <= Len(found') /\ eligible' \in 0..Len(built') /\ requests' \in Nat
      BY <1>1, <1>2
    <2> QED BY <1>1, <1>2, <2>1, <2>2 DEF WorkInv, WorkTypes
  <1>4. FreshInv' /\ PlaceInv'
    BY <1>1 DEF WorkInv, PlaceInv, FreshInv, Fetching
  <1>5. RequestInv'
    <2>1. /\ Gated /\ ListingRequests \in Nat /\ DetailRequests \in Nat
          /\ requests <= ListingRequests + Len(built)
      BY <1>1, RequestLimits DEF WorkInv, RequestInv
    <2>2. requests <= ListingRequests + DetailRequests
      BY <2>1 DEF WorkInv, RequestInv
    <2>3. config.source \notin CompleteSources => Len(found) <= DetailRequests
      BY <1>1 DEF WorkInv, RequestInv
    <2>4. config.source \in CompleteSources => DetailRequests = Limit
      BY DEF CompleteSources, DetailRequests
    <2>5. requests' <= ListingRequests + DetailRequests
      <3>1. CASE requests' = requests
        BY <2>2, <3>1
      <3>2. CASE requests' = requests + 1
        <4>1. Len(built) < DetailRequests
          BY <1>1, <1>2, <2>1, <2>3, <2>4, <3>2
        <4> QED BY <1>2, <2>1, <3>2, <4>1
      <3> QED BY <1>1, <3>1, <3>2
    <2>6. requests' <= ListingRequests + Len(built')
      BY <1>1, <1>2, <2>1
    <2> QED BY <1>1, <2>1, <2>3, <2>5, <2>6, SameConfig DEF RequestInv, Fetching
  <1>6. BuiltInv'
    <2>1. /\ config.source \notin {"rubric", "scholarships"} =>
               \A k \in DOMAIN built' : built'[k] # "rejected"
          /\ config.source \in {"accommodation", "support", "courses"} =>
               \A k \in DOMAIN built' : built'[k] = "detail"
      BY <1>2 DEF WorkInv, BuiltInv
    <2>2. eligible' # 0 => \E k \in DOMAIN built' : built'[k] # "rejected"
      <3>1. CASE eligible' = eligible
        BY <1>2, <3>1 DEF WorkInv, BuiltInv
      <3>2. CASE outcome # "rejected"
        <4>1. Len(built) + 1 \in DOMAIN built'
          BY <1>2
        <4> QED BY <1>2, <3>2, <4>1
      <3> QED BY <3>1, <3>2
    <2>3. /\ config.source \in {"accommodation", "support"} => Capped'
          /\ config.source = "jobs" => found # <<>>
          /\ config.source \in {"accommodation", "support"} =>
               cards # 0 /\ cards = Frozen[config.source]
          /\ config.source = "courses" =>
               Len(found) = IF config.code = "valid" THEN 1 ELSE config.courses + config.programs
      BY <1>1, SameConfig DEF WorkInv, BuiltInv, Capped
    <2>4. run = "RUNNING"
      BY <1>1 DEF WorkInv, BuiltInv, Collecting
    <2> QED
      BY <1>1, <2>1, <2>2, <2>3, <2>4 DEF BuiltInv, Collecting, Fetching
  <1> QED BY <1>3, <1>4, <1>5, <1>6 DEF WorkInv

LEMMA WorkCommits ==
  ASSUME WorkInv, Commits
  PROVE  WorkInv'
  <1>1. /\ pc = "building" /\ pc' = "committing" /\ run' = run
        /\ config' = config /\ UNCHANGED work /\ Len(built) = Len(found)
        /\ config.source \in {"jobs", "accommodation", "support", "courses"} \/ eligible # 0
    BY DEF Commits, Moves
  <1>2. WorkTypes'
    BY <1>1, SameWork DEF WorkInv
  <1>3. FreshInv' /\ PlaceInv'
    BY <1>1 DEF FreshInv, PlaceInv, Fetching
  <1>4. RequestInv'
    BY <1>1, SameWork, SameConfig DEF WorkInv, RequestInv, Fetching
  <1>5. Gated /\ run = "RUNNING"
    BY <1>1 DEF WorkInv, RequestInv, BuiltInv, Collecting
  <1>6. \E k \in DOMAIN built : built[k] # "rejected"
    <2>1. CASE eligible # 0
      BY <2>1 DEF WorkInv, BuiltInv
    <2>2. CASE config.source \in {"jobs", "accommodation", "support", "courses"}
      <3>1. /\ built \in Seq(Outcome) /\ found \in Seq(Approved)
            /\ cards \in Nat
        BY DEF WorkInv, WorkTypes
      <3>2. Len(found) # 0
        <4>1. CASE config.source = "jobs"
          BY <1>1, <3>1, <4>1, EmptySeq DEF WorkInv, BuiltInv
        <4>2. CASE config.source \in {"accommodation", "support"}
          <5>1. Capped /\ cards # 0
            BY <1>1, <4>2 DEF WorkInv, BuiltInv
          <5>2. Limit \in 1..2000
            BY <1>5, <4>2, Limits
          <5> QED BY <3>1, <5>1, <5>2 DEF Capped
        <4>3. CASE config.source = "courses"
          <5>1. config.courses \in 1..4 /\ config.programs \in 1..4
            BY <1>5, Limits
          <5>2. Len(found) = IF config.code = "valid" THEN 1 ELSE config.courses + config.programs
            BY <1>1, <4>3 DEF WorkInv, BuiltInv
          <5> QED BY <5>1, <5>2
        <4> QED BY <2>2, <4>1, <4>2, <4>3
      <3>3. 1 \in DOMAIN built
        BY <1>1, <3>1, <3>2, LenProperties
      <3>4. config.source \notin {"rubric", "scholarships"}
        BY <2>2
      <3> QED BY <3>3, <3>4 DEF WorkInv, BuiltInv
    <2> QED BY <1>1, <2>1, <2>2
  <1>7. BuiltInv'
    <2>1. config.source \in {"accommodation", "support"} => Capped'
      BY <1>1, SameWork, SameConfig DEF WorkInv, BuiltInv, Capped
    <2> QED
      BY <1>1, <1>5, <1>6, <2>1, SameWork, SameConfig DEF WorkInv, BuiltInv, Collecting, Fetching
  <1> QED BY <1>2, <1>3, <1>4, <1>7 DEF WorkInv

\* A step from the details of scholarships that builds nothing.
LEMMA WorkFetches ==
  ASSUME WorkInv, Asks \/ Fetches
  PROVE  WorkInv'
  <1>1. /\ pc \in {"building", "getting"} /\ pc' \in Fetching /\ run' = run
        /\ config' = config /\ config.source = "scholarships"
        /\ page' = page /\ advertised' = advertised /\ shown' = shown /\ cards' = cards
        /\ found' = found /\ built' = built /\ eligible' = eligible /\ site' = site
        /\ steady' = steady /\ arrivals' = arrivals /\ departures' = departures
        /\ attempt' \in 1..3 /\ hop' \in 0..MaxRedirects
        /\ Len(built) < Len(found)
        /\ requests' = IF pc = "building" THEN requests + 1 ELSE requests
    BY MaxRedirectsAssumption
    DEF Asks, Fetches, WorkInv, PlaceInv, traversal, details, world, Fetching
  <1>2. /\ found \in Seq(Approved) /\ built \in Seq(Outcome)
        /\ Len(found) \in Nat /\ Len(built) \in Nat /\ requests \in Nat
        /\ target \in Approved \cup {None}
    BY LenProperties DEF WorkInv, WorkTypes
  <1>3. Candidate \in Approved /\ Candidate' = Candidate
    <2>1. Len(built) + 1 \in 1..Len(found)
      BY <1>1, <1>2
    <2>2. found[Len(built) + 1] \in Approved
      BY <1>2, <2>1, ElementOfSeq
    <2> QED BY <1>1, <2>2 DEF Candidate
  <1>4. /\ target' \in Approved \cup {None}
        /\ pc' = "getting" => target' \in Approved /\ (hop' = 0 => target' = Candidate)
    BY <1>2, <1>3 DEF Asks, Fetches
  <1>5. WorkTypes'
    <2>1. Distinct(site)' /\ steady' \subseteq Shown(site)'
      BY <1>1 DEF WorkInv, WorkTypes, Distinct, Shown
    <2>2. requests' \in Nat
      BY <1>1, <1>2
    <2> QED BY <1>1, <1>4, <2>1, <2>2 DEF WorkInv, WorkTypes
  <1>6. FreshInv'
    BY <1>1 DEF WorkInv, FreshInv, Fetching
  <1>7. PlaceInv'
    BY <1>1, <1>3, <1>4 DEF PlaceInv, Fetching
  <1>8. RequestInv'
    <2>1. Gated
      BY <1>1 DEF WorkInv, RequestInv, Fetching
    <2>2. ListingRequests \in Nat /\ DetailRequests \in Nat
      BY <2>1, RequestLimits
    <2>3. Len(found) <= DetailRequests
      BY <1>1 DEF WorkInv, RequestInv, Fetching, CompleteSources
    <2>4. /\ pc = "building" => requests <= ListingRequests + Len(built)
          /\ pc = "getting" => requests <= ListingRequests + Len(built) + 1
      BY DEF WorkInv, RequestInv, Fetching
    <2>5. requests' <= ListingRequests + Len(built) + 1
      BY <1>1, <1>2, <2>2, <2>4
    <2>6. requests' <= ListingRequests + DetailRequests
      BY <1>1, <1>2, <2>2, <2>3, <2>5
    <2> QED BY <1>1, <2>1, <2>3, <2>5, <2>6, SameConfig DEF RequestInv, Fetching
  <1>9. BuiltInv'
    <2>1. run = "RUNNING"
      BY <1>1 DEF WorkInv, BuiltInv, Collecting, Fetching
    <2> QED
      BY <1>1, <2>1 DEF WorkInv, BuiltInv, Collecting, Fetching
  <1> QED BY <1>5, <1>6, <1>7, <1>8, <1>9 DEF WorkInv

LEMMA WorkReads ==
  ASSUME WorkInv, Reads
  PROVE  WorkInv'
  <1>1. PICK outcome \in {"rejected", "detail"} :
          /\ built' = Append(built, outcome)
          /\ \/ eligible' = eligible
             \/ eligible' = eligible + 1 /\ outcome # "rejected"
    BY DEF Reads
  <1>2. /\ pc \in Fetching /\ pc' = "building" /\ run' = run
        /\ config' = config /\ config.source = "scholarships"
        /\ page' = page /\ advertised' = advertised /\ shown' = shown /\ cards' = cards
        /\ found' = found /\ requests' = requests /\ site' = site
        /\ steady' = steady /\ arrivals' = arrivals /\ departures' = departures
        /\ attempt' = attempt /\ hop' = hop /\ target' = target
        /\ Len(built) < Len(found)
    BY DEF Reads, WorkInv, PlaceInv, traversal, fetching, world, Fetching
  <1>3. /\ built \in Seq(Outcome) /\ Len(built) \in Nat /\ Len(found) \in Nat
        /\ requests \in Nat /\ eligible \in 0..Len(built)
        /\ built' \in Seq(Outcome) /\ Len(built') = Len(built) + 1
        /\ DOMAIN built' = 1..(Len(built) + 1)
        /\ \A k \in DOMAIN built : k \in DOMAIN built' /\ built'[k] = built[k]
        /\ built'[Len(built) + 1] = outcome
    BY <1>1, AppendProperties, LenProperties DEF WorkInv, WorkTypes, Outcome
  <1>4. WorkTypes'
    <2>1. Distinct(site)' /\ steady' \subseteq Shown(site)'
      BY <1>2 DEF WorkInv, WorkTypes, Distinct, Shown
    <2>2. Len(built') <= Len(found') /\ eligible' \in 0..Len(built')
      BY <1>1, <1>2, <1>3
    <2> QED BY <1>2, <1>3, <2>1, <2>2 DEF WorkInv, WorkTypes
  <1>5. FreshInv' /\ PlaceInv'
    BY <1>2 DEF PlaceInv, FreshInv, Fetching
  <1>6. RequestInv'
    <2>1. /\ Gated /\ requests <= ListingRequests + Len(built) + 1
          /\ Len(found) <= DetailRequests /\ requests <= ListingRequests + DetailRequests
      BY <1>2 DEF WorkInv, RequestInv, Fetching, CompleteSources
    <2>2. ListingRequests \in Nat
      BY <2>1, RequestLimits
    <2>3. requests' <= ListingRequests + Len(built')
      BY <1>2, <1>3, <2>1, <2>2
    <2> QED BY <1>2, <2>1, <2>3, SameConfig DEF RequestInv, Fetching
  <1>7. BuiltInv'
    <2>1. eligible' # 0 => \E k \in DOMAIN built' : built'[k] # "rejected"
      <3>1. CASE eligible' = eligible
        BY <1>3, <3>1 DEF WorkInv, BuiltInv
      <3>2. CASE outcome # "rejected"
        <4>1. Len(built) + 1 \in DOMAIN built'
          BY <1>3
        <4> QED BY <1>3, <3>2, <4>1
      <3> QED BY <1>1, <3>1, <3>2
    <2>2. run = "RUNNING"
      BY <1>2 DEF WorkInv, BuiltInv, Collecting
    <2> QED
      BY <1>2, <2>1, <2>2 DEF BuiltInv, Collecting, Fetching
  <1> QED BY <1>4, <1>5, <1>6, <1>7 DEF WorkInv

LEMMA WorkReadsCourse ==
  ASSUME WorkInv, ReadsCourse
  PROVE  WorkInv'
  <1>1. /\ pc = "single" /\ pc' = "committing" /\ run' = run /\ config' = config
        /\ config.source = "courses" /\ config.code = "valid"
        /\ page' = page /\ advertised' = advertised /\ shown' = shown /\ cards' = cards
        /\ found' \in Seq(Approved) /\ Len(found') = 1 /\ built' = <<"detail">>
        /\ eligible' = eligible /\ requests' = 1 /\ site' = site
        /\ steady' = steady /\ arrivals' = arrivals /\ departures' = departures
        /\ attempt' = attempt /\ hop' = hop /\ target' = target
    BY DEF ReadsCourse, WorkInv, PlaceInv, fetching, world
  <1>2. /\ built' \in Seq(Outcome) /\ Len(built') = 1 /\ DOMAIN built' = {1}
        /\ built'[1] = "detail"
    BY <1>1 DEF Outcome
  <1>3. eligible = 0 /\ run = "RUNNING" /\ Gated
    BY <1>1 DEF WorkInv, FreshInv, BuiltInv, RequestInv, Collecting
  <1>4. WorkTypes'
    <2>1. Distinct(site)' /\ steady' \subseteq Shown(site)'
      BY <1>1 DEF WorkInv, WorkTypes, Distinct, Shown
    <2> QED BY <1>1, <1>2, <1>3, <2>1 DEF WorkInv, WorkTypes
  <1>5. FreshInv' /\ PlaceInv'
    BY <1>1 DEF FreshInv, PlaceInv, Fetching
  <1>6. RequestInv'
    <2>1. ListingRequests = 2 /\ DetailRequests \in Nat
      BY <1>1, <1>3, RequestLimits DEF ListingRequests
    <2> QED BY <1>1, <1>3, <2>1, SameConfig DEF RequestInv, Fetching
  <1>7. BuiltInv'
    BY <1>1, <1>2, <1>3, SameConfig DEF BuiltInv, Collecting, Fetching
  <1> QED BY <1>4, <1>5, <1>6, <1>7 DEF WorkInv

LEMMA WorkRetries ==
  ASSUME WorkInv, Retries
  PROVE  WorkInv'
  <1>1. /\ pc \in {"first", "paging", "building"} /\ pc' = pc /\ run' = run
        /\ config' = config /\ page' = page /\ advertised' = advertised
        /\ shown' = shown /\ cards' = cards /\ found' = found /\ built' = built
        /\ eligible' = eligible /\ requests' = requests /\ site' = site
        /\ steady' = steady /\ arrivals' = arrivals /\ departures' = departures
        /\ attempt' \in 1..3 /\ hop' = hop /\ target' = target
    BY DEF Retries, traversal, details, world
  <1>2. WorkTypes'
    <2>1. Distinct(site)' /\ steady' \subseteq Shown(site)'
      BY <1>1 DEF WorkInv, WorkTypes, Distinct, Shown
    <2> QED BY <1>1, <2>1 DEF WorkInv, WorkTypes
  <1>3. FreshInv' /\ PlaceInv'
    BY <1>1 DEF WorkInv, FreshInv, PlaceInv, Fetching
  <1>4. RequestInv'
    BY <1>1, SameConfig DEF WorkInv, RequestInv, Fetching
  <1>5. BuiltInv'
    <2>1. config.source \in {"accommodation", "support"} => (Capped' <=> Capped)
      BY <1>1, SameConfig DEF Capped
    <2> QED BY <1>1, <2>1, SameConfig DEF WorkInv, BuiltInv, Collecting, Fetching
  <1> QED BY <1>2, <1>3, <1>4, <1>5 DEF WorkInv

LEMMA WorkPersists ==
  ASSUME WorkInv, Persists
  PROVE  WorkInv'
  <1>1. /\ pc = "committing" /\ config' = config /\ UNCHANGED work
        /\ \/ pc' = "returned" /\ run' = "SUCCESS"
           \/ pc' = "reporting" /\ run' = "FAILED"
    BY DEF Persists, Persist, Fail
  <1>2. WorkTypes'
    BY <1>1, SameWork DEF WorkInv
  <1>3. FreshInv' /\ PlaceInv'
    BY <1>1 DEF FreshInv, PlaceInv, Fetching
  <1>4. RequestInv'
    BY <1>1, SameWork, SameConfig DEF WorkInv, RequestInv, Fetching
  <1>5. BuiltInv'
    <2>1. config.source \in {"accommodation", "support"} => Capped'
      BY <1>1, SameWork, SameConfig DEF WorkInv, BuiltInv, Capped
    <2> QED
      BY <1>1, <2>1, SameWork, SameConfig
      DEF WorkInv, BuiltInv, Collecting, Fetching, Failures
  <1> QED BY <1>2, <1>3, <1>4, <1>5 DEF WorkInv

\* The last steps, and the ends from outside.
LEMMA WorkEnds ==
  ASSUME WorkInv, Report \/ Escape \/ Summarise \/ Kill \/ Drills
  PROVE  WorkInv'
  <1>1. /\ pc' \in {"returned", "done", "killed"} /\ run' = run
        /\ config' = config /\ UNCHANGED work
        /\ pc' = "returned" => pc = "reporting"
    BY DEF Report, Escape, Summarise, Kill, Drills
  <1>2. WorkTypes'
    BY <1>1, SameWork DEF WorkInv
  <1>3. FreshInv' /\ PlaceInv'
    BY <1>1 DEF FreshInv, PlaceInv, Fetching
  <1>4. RequestInv'
    BY <1>1, SameWork, SameConfig DEF WorkInv, RequestInv, Fetching
  <1>5. BuiltInv'
    <2>1. config.source \in {"accommodation", "support"} => (Capped' <=> Capped)
      BY <1>1, SameWork, SameConfig DEF WorkInv, Capped
    <2> QED
      BY <1>1, <2>1, SameWork, SameConfig
      DEF WorkInv, BuiltInv, Collecting, Fetching
  <1> QED BY <1>2, <1>3, <1>4, <1>5 DEF WorkInv

LEMMA WorkChanges ==
  ASSUME WorkInv, SiteChanges
  PROVE  WorkInv'
  <1>1. /\ pc = "paging" /\ pc' = pc /\ run' = run
        /\ config' = config /\ page' = page /\ advertised' = advertised
        /\ shown' = shown /\ cards' = cards /\ found' = found /\ built' = built
        /\ eligible' = eligible /\ requests' = requests
        /\ attempt' = attempt /\ hop' = hop /\ target' = target
        /\ steady' = steady \cap Shown(site')
        /\ \/ site' \in Arrivals(site) /\ arrivals' = arrivals + 1 /\ departures' = departures
           \/ site' \in Departures(site) /\ departures' = departures + 1 /\ arrivals' = arrivals
        /\ arrivals + departures < MaxChanges
    BY DEF SiteChanges, traversal, details, fetching
  <1>2. WorkTypes'
    <2>1. site' \in Seq(Item) /\ Distinct(site')
      BY <1>1, ArrivalFacts, DepartureFacts DEF WorkInv, WorkTypes
    <2>2. steady' \subseteq Shown(site') /\ Distinct(site)' /\ Shown(site)' = Shown(site')
      BY <1>1, <2>1 DEF Distinct, Shown
    <2>3. arrivals' \in 0..MaxChanges /\ departures' \in 0..MaxChanges
      BY <1>1, BoundAssumption DEF WorkInv, WorkTypes
    <2> QED BY <1>1, <2>1, <2>2, <2>3 DEF WorkInv, WorkTypes
  <1>3. FreshInv' /\ PlaceInv'
    BY <1>1 DEF WorkInv, FreshInv, PlaceInv, Fetching
  <1>4. RequestInv'
    BY <1>1, SameConfig DEF WorkInv, RequestInv, Fetching
  <1>5. BuiltInv'
    BY <1>1, SameConfig DEF WorkInv, BuiltInv, Collecting, Fetching, Capped
  <1> QED BY <1>2, <1>3, <1>4, <1>5 DEF WorkInv

LEMMA WorkStep ==
  ASSUME WorkInv, [Next]_vars
  PROVE  WorkInv'
  <1>1. CASE Configure \/ Open \/ OpenFails
    BY <1>1, WorkConfigure
  <1>2. CASE Collect
    <2>1. Collects
      BY <1>2, CollectGated
    <2> QED
      BY <2>1, WorkBegins, WorkGivesUp, WorkDiscovers, WorkStopsPaging, WorkAccepts,
         WorkBuilds, WorkCommits, WorkFetches, WorkReads, WorkReadsCourse, WorkRetries,
         WorkEnds, WorkPersists
      DEF Collects
  <1>3. CASE Report \/ Escape \/ Summarise \/ Kill
    BY <1>3, WorkEnds
  <1>4. CASE SiteChanges
    BY <1>4, WorkChanges
  <1>5. CASE UNCHANGED vars
    <2>1. /\ pc' = pc /\ run' = run /\ config' = config /\ UNCHANGED work
      BY <1>5 DEF vars
    <2>2. WorkTypes'
      BY <2>1, SameWork DEF WorkInv
    <2>3. FreshInv' /\ PlaceInv'
      BY <2>1, SameWork DEF WorkInv, FreshInv, PlaceInv, Fetching, Candidate
    <2>4. RequestInv'
      BY <2>1, SameWork, SameConfig DEF WorkInv, RequestInv, Fetching
    <2>5. BuiltInv'
      BY <2>1, SameWork, SameConfig DEF WorkInv, BuiltInv, Collecting, Fetching, Capped
    <2> QED BY <2>2, <2>3, <2>4, <2>5 DEF WorkInv
  <1> QED
    BY <1>1, <1>2, <1>3, <1>4, <1>5 DEF Next, Progress, Environment

LEMMA Working == Spec => []WorkInv
  <1> QED BY WorkInit, WorkStep, PTL DEF Spec

\* No execution asks for more pages and details than its configuration allows
\* (collectors' max_pages and max_details, load_config).
THEOREM RequestLimit == Spec => []RequestsBounded
  <1>1. ASSUME WorkInv PROVE RequestsBounded
    <2> SUFFICES ASSUME requests # 0
                 PROVE  requests <= CASE config.source = "courses" -> 2 + config.courses + config.programs
                                      [] config.source \in {"accommodation", "support"} -> 1 + Limit
                                      [] OTHER -> MaxPages + Limit
      BY DEF RequestsBounded
    <2>1. requests <= ListingRequests + DetailRequests /\ Gated
      BY <1>1 DEF WorkInv, RequestInv
    <2>2. config.courses \in Nat /\ config.programs \in Nat
      <3>1. config.courses \in 1..4 /\ config.programs \in 1..4
        BY <2>1, Limits
      <3> QED BY <3>1
    <2>3. CASE config.source = "courses"
      <3>1. 2 + (config.courses + config.programs) = 2 + config.courses + config.programs
        BY <2>2
      <3> QED BY <2>1, <2>3, <3>1 DEF ListingRequests, DetailRequests
    <2>4. CASE config.source # "courses"
      BY <2>1, <2>4 DEF ListingRequests, DetailRequests
    <2> QED BY <2>3, <2>4
  <1> QED BY <1>1, Working, PTL

\* Every attempt at a scholarship starts at its own address, and no request of
\* it leaves the approved boundary (fetcher.get, collector._fetch_detail).
THEOREM FreshAttempts == Spec => []AttemptsStartOver
  <1>1. ASSUME WorkInv PROVE AttemptsStartOver
    BY <1>1 DEF WorkInv, PlaceInv, AttemptsStartOver
  <1> QED BY <1>1, Working, PTL

(***************************************************************************)
(* The store.                                                              *)
(***************************************************************************)
StoreTypes ==
  /\ config \in Inputs
  /\ pc \in {"config", "opening", "starting", "reporting", "returned", "done", "killed"}
          \cup Collecting
  /\ run \in RunStatus \cup {None} /\ audit \in RunStatus \cup {None}
  /\ exit \in {None, 0, 1, 2}
  /\ stored \in [Approved -> StoredRecord \cup {None}]
  /\ earlier \in [Approved -> StoredRecord \cup {None}]
  /\ \A i \in Approved : earlier[i] # None => ~earlier[i].missing
  /\ faulty \in BOOLEAN

\* The store holds the batch of this execution over what was there before.
BatchStored ==
  \A i \in Approved :
    stored[i] = IF i \in Kept THEN [text |-> TextOf(i), missing |-> FALSE]
                ELSE IF config.source \in CompleteSources /\ earlier[i] # None
                     THEN [earlier[i] EXCEPT !.missing = TRUE]
                     ELSE earlier[i]

\* What is written, and when.
WrittenInv ==
  /\ stored = earlier \/ BatchStored
  /\ config.dry => stored = earlier /\ audit = None
  /\ pc \in {"config", "opening", "starting"} => stored = earlier /\ audit = None
  /\ pc \in Collecting => stored = earlier /\ audit = IF config.dry THEN None ELSE "RUNNING"
  /\ stored # earlier \/ audit # None => Gated
  /\ run = "SUCCESS" => /\ pc \in {"returned", "done", "killed"}
                        /\ ~config.dry => audit = "SUCCESS" /\ BatchStored
  /\ ~faulty /\ run # "SUCCESS" => stored = earlier /\ audit # "SUCCESS"

\* What is reported.
ReportedInv ==
  /\ pc = "returned" => run \in Failures \cup {"SUCCESS"}
  /\ pc = "returned" /\ ~faulty => audit = IF config.dry THEN None ELSE run
  /\ pc = "done" =>
       /\ exit \in {0, 1, 2}
       /\ exit = 0 => run = "SUCCESS"
       /\ exit = 1 => faulty \/ run # "SUCCESS"
       /\ exit = 2 => stored = earlier /\ audit = None /\ run = None /\ requests = 0
       /\ ~faulty =>
            /\ run # "RUNNING" => audit = (IF config.dry \/ run = None THEN None ELSE run)
            /\ run = "RUNNING" => /\ exit = 1 /\ stored = earlier
                                  /\ audit = (IF config.dry THEN None ELSE "RUNNING")

StoreInv == StoreTypes /\ WrittenInv /\ ReportedInv

LEMMA RunNames ==
  /\ None \notin RunStatus
  /\ RunStatus = {"RUNNING", "SUCCESS"} \cup Failures
  /\ "RUNNING" \notin Failures /\ "SUCCESS" \notin Failures /\ None \notin Failures
  /\ None # "SUCCESS" /\ None # "RUNNING"
  BY NoneIsNoValue DEF RunStatus, Failures

LEMMA StoreInit ==
  ASSUME Init
  PROVE  StoreInv
  <1>1. PICK known \in Before :
          stored = [i \in Approved |->
                      IF i \in known THEN [text |-> "detail", missing |-> FALSE] ELSE None]
    BY DEF Init
  <1>2. [text |-> "detail", missing |-> FALSE] \in StoredRecord
    BY DEF StoredRecord, Text
  <1>3. /\ stored \in [Approved -> StoredRecord \cup {None}] /\ earlier = stored
        /\ \A i \in Approved : earlier[i] # None => ~earlier[i].missing
    BY <1>1, <1>2 DEF Init
  <1>4. StoreTypes
    BY <1>3 DEF Init, StoreTypes
  <1>5. WrittenInv /\ ReportedInv
    BY <1>3, RunNames DEF Init, WrittenInv, ReportedInv, Collecting, Fetching
  <1> QED BY <1>4, <1>5 DEF StoreInv

LEMMA SameBatch ==
  ASSUME UNCHANGED <<config, stored, earlier, work>>
  PROVE  BatchStored' <=> BatchStored
  <1>1. found' = found /\ built' = built
    BY DEF work, traversal, details
  <1>2. Kept' = Kept /\ \A i : TextOf(i)' = TextOf(i)
    BY <1>1 DEF Kept, Accepted, TextOf
  <1> QED BY <1>2 DEF BatchStored

LEMMA StoreConfigure ==
  ASSUME WorkInv, StoreInv, Configure \/ Open \/ OpenFails
  PROVE  StoreInv'
  <1>1. /\ pc \in {"config", "opening"} /\ pc' \in {"opening", "starting", "done"}
        /\ UNCHANGED <<config, run, audit, stored, work, earlier, faulty>>
        /\ \/ pc' # "done" /\ exit' = exit
           \/ pc' = "done" /\ exit' \in {1, 2}
    BY DEF Configure, Open, OpenFails
  <1>2. run = None /\ stored = earlier /\ audit = None /\ requests = 0 /\ requests' = requests
    BY <1>1, SameWork DEF WorkInv, BuiltInv, FreshInv, StoreInv, WrittenInv
  <1>3. StoreTypes'
    BY <1>1 DEF StoreInv, StoreTypes
  <1>4. WrittenInv'
    BY <1>1, <1>2, SameConfig, RunNames DEF WrittenInv, Collecting, Fetching
  <1>5. ReportedInv'
    BY <1>1, <1>2, RunNames DEF ReportedInv
  <1> QED BY <1>3, <1>4, <1>5 DEF StoreInv

\* Steps that neither write nor end.
Quiet ==
  /\ pc \in Collecting /\ pc' \in Collecting \cup {"reporting"}
  /\ \/ run' = run
     \/ run' \in Failures
  /\ UNCHANGED <<config, audit, exit, stored, earlier, faulty>>

LEMMA QuietSteps ==
  ASSUME GivesUp \/ Discovers \/ Moves("paging", "judging") \/ Accepts \/ Builds \/ Commits
         \/ Asks \/ Fetches \/ Reads \/ ReadsCourse \/ Retries \/ SiteChanges
  PROVE  Quiet
  <1>1. CASE GivesUp
    BY <1>1 DEF GivesUp, Quiet
  <1>2. CASE Discovers
    BY <1>2 DEF Discovers, Quiet, Collecting
  <1>3. CASE Moves("paging", "judging") \/ Accepts \/ Commits
    BY <1>3 DEF Moves, Accepts, Commits, Quiet, Collecting
  <1>4. CASE Builds \/ ReadsCourse \/ Retries \/ SiteChanges
    BY <1>4 DEF Builds, ReadsCourse, Retries, SiteChanges, Quiet, Collecting
  <1>5. CASE Asks \/ Fetches \/ Reads
    BY <1>5 DEF Asks, Fetches, Reads, Quiet, Collecting, Fetching
  <1> QED BY <1>1, <1>2, <1>3, <1>4, <1>5

LEMMA StoreQuiet ==
  ASSUME WorkInv, StoreInv, Quiet
  PROVE  StoreInv'
  <1>1. run = "RUNNING" /\ Gated /\ stored = earlier
    BY DEF Quiet, WorkInv, BuiltInv, RequestInv, Collecting, Fetching, StoreInv, WrittenInv
  <1>2. StoreTypes'
    BY RunNames DEF Quiet, StoreInv, StoreTypes
  <1>3. run' # "SUCCESS"
    BY <1>1, RunNames DEF Quiet
  <1>4. WrittenInv'
    BY <1>1, <1>3, SameConfig, RunNames
    DEF Quiet, StoreInv, WrittenInv, Collecting, Fetching
  <1>5. ReportedInv'
    BY DEF Quiet, ReportedInv, Collecting, Fetching
  <1> QED BY <1>2, <1>4, <1>5 DEF StoreInv

LEMMA StoreBegins ==
  ASSUME WorkInv, StoreInv, Begins
  PROVE  StoreInv'
  <1>1. /\ pc = "starting" /\ pc' \in {"first", "single", "reporting", "returned"}
        /\ UNCHANGED <<config, exit, stored, earlier>>
        /\ \/ /\ pc' \in {"first", "single"} /\ run' = "RUNNING"
              /\ audit' = Durable("RUNNING") /\ faulty' = faulty
           \/ /\ pc' \in {"reporting", "returned"} /\ run' = "FAILED" /\ ~config.dry
              /\ audit' \in {None, "RUNNING"} /\ faulty' = TRUE
    BY DEF Begins, SaveRunning, RunningRefused
  <1>2. stored = earlier /\ audit = None /\ Gated
    BY <1>1 DEF StoreInv, WrittenInv, WorkInv, RequestInv
  <1>3. audit' = IF pc' \in {"first", "single"} /\ config.dry THEN None ELSE audit'
    BY <1>1, <1>2 DEF Durable
  <1>4. /\ audit' \in {None, "RUNNING"}
        /\ config.dry => audit' = None
        /\ pc' \in {"first", "single"} => audit' = IF config.dry THEN None ELSE "RUNNING"
    BY <1>1, <1>2 DEF Durable
  <1>5. StoreTypes'
    BY <1>1, <1>4, RunNames DEF StoreInv, StoreTypes, Collecting, Failures
  <1>6. WrittenInv'
    BY <1>1, <1>2, <1>4, SameConfig, RunNames DEF WrittenInv, Collecting, Fetching, Failures
  <1>7. ReportedInv'
    BY <1>1, <1>2 DEF ReportedInv, Failures
  <1> QED BY <1>5, <1>6, <1>7 DEF StoreInv

LEMMA KeptFacts ==
  ASSUME WorkTypes, Len(built) = Len(found)
  PROVE  /\ \A k \in Accepted : k \in DOMAIN found /\ found[k] \in Kept
         /\ Kept \subseteq Approved
         /\ \A i : TextOf(i) \in Text
         /\ \A i \in Kept : [text |-> TextOf(i), missing |-> FALSE] \in StoredRecord
  <1>1. /\ DOMAIN built = DOMAIN found
        /\ \A k \in DOMAIN found : found[k] \in Approved
    BY LenProperties, ElementOfSeq DEF WorkTypes
  <1>2. \A k \in Accepted : k \in DOMAIN found /\ found[k] \in Kept
    BY <1>1 DEF Accepted, Kept
  <1>3. Kept \subseteq Approved
    BY <1>1 DEF Accepted, Kept
  <1>4. \A i : TextOf(i) \in Text
    BY DEF TextOf, Text
  <1> QED BY <1>2, <1>3, <1>4 DEF StoredRecord

LEMMA StorePersists ==
  ASSUME WorkInv, StoreInv, Persists
  PROVE  StoreInv'
  <1>1. /\ pc = "committing" /\ UNCHANGED <<config, exit, work, earlier>>
        /\ audit' = Durable("SUCCESS")
        /\ stored' = IF config.dry THEN stored ELSE Batch(config.source \in CompleteSources)
        /\ \/ pc' = "returned" /\ run' = "SUCCESS" /\ faulty' = faulty
           \/ ~config.dry /\ pc' = "reporting" /\ run' = "FAILED" /\ faulty' = TRUE
    <2>1. CASE config.source \in CompleteSources
      BY <2>1 DEF Persists, Persist, Fail
    <2>2. CASE config.source \notin CompleteSources
      <3>1. Batch(config.source \in CompleteSources) = Batch(FALSE)
        BY <2>2 DEF Batch
      <3> QED BY <2>2, <3>1 DEF Persists, Persist, Fail
    <2> QED BY <2>1, <2>2
  <1>2. /\ stored = earlier /\ Gated /\ Len(built) = Len(found)
        /\ audit = IF config.dry THEN None ELSE "RUNNING"
    BY <1>1 DEF StoreInv, WrittenInv, Collecting, WorkInv, RequestInv, BuiltInv
  <1>3. audit' = IF config.dry THEN None ELSE "SUCCESS"
    BY <1>1, <1>2 DEF Durable
  <1>4. Kept' = Kept /\ \A i : TextOf(i)' = TextOf(i)
    <2>1. found' = found /\ built' = built
      BY <1>1, SameWork DEF WorkInv
    <2> QED BY <2>1 DEF Kept, Accepted, TextOf
  <1>5. ~config.dry => BatchStored'
    BY <1>1, <1>2, <1>4 DEF Batch, BatchStored
  <1>6. stored' \in [Approved -> StoredRecord \cup {None}]
    <2>1. ASSUME NEW i \in Approved, stored[i] # None
          PROVE  [stored[i] EXCEPT !.missing = TRUE] \in StoredRecord
      BY <2>1 DEF StoreInv, StoreTypes, StoredRecord
    <2>2. ASSUME NEW i \in Approved
          PROVE  stored[i] \in StoredRecord \cup {None}
      BY DEF StoreInv, StoreTypes
    <2>3. \A i \in Kept : [text |-> TextOf(i), missing |-> FALSE] \in StoredRecord
      BY <1>2, KeptFacts DEF WorkInv
    <2>4. Batch(config.source \in CompleteSources) \in [Approved -> StoredRecord \cup {None}]
      BY <2>1, <2>2, <2>3 DEF Batch
    <2> QED BY <1>1, <2>4 DEF StoreInv, StoreTypes
  <1>7. StoreTypes'
    BY <1>1, <1>3, <1>6, RunNames DEF StoreInv, StoreTypes, Failures
  <1>8. WrittenInv'
    <2>1. config.dry => stored' = earlier'
      BY <1>1, <1>2
    <2> QED
      BY <1>1, <1>2, <1>3, <1>5, <2>1, SameConfig, RunNames
      DEF WrittenInv, Collecting, Fetching, Failures
  <1>9. ReportedInv'
    BY <1>1, <1>3 DEF ReportedInv
  <1> QED BY <1>7, <1>8, <1>9 DEF StoreInv

LEMMA StoreReport ==
  ASSUME WorkInv, StoreInv, Report
  PROVE  StoreInv'
  <1>1. /\ pc = "reporting" /\ pc' = "returned"
        /\ UNCHANGED <<config, run, exit, stored, work, earlier>>
        /\ \/ audit' = Durable(run) /\ faulty' = faulty
           \/ ~config.dry /\ faulty' = TRUE /\ audit' \in {audit, run}
    BY DEF Report
  <1>2. run \in Failures /\ Gated
    BY <1>1 DEF WorkInv, BuiltInv, RequestInv
  <1>3. /\ config.dry => audit = None /\ stored = earlier
        /\ audit' \in {audit, run}
        /\ ~faulty' => ~faulty /\ audit' = IF config.dry THEN None ELSE run
        /\ config.dry => audit' = None
    BY <1>1 DEF Durable, StoreInv, StoreTypes, WrittenInv
  <1>4. StoreTypes'
    BY <1>1, <1>2, <1>3, RunNames DEF StoreInv, StoreTypes
  <1>5. WrittenInv'
    <2>1. stored' = earlier' \/ BatchStored'
      BY <1>1, SameBatch DEF StoreInv, WrittenInv
    <2>2. ~faulty' => stored' = earlier' /\ audit' # "SUCCESS"
      BY <1>1, <1>2, <1>3, RunNames DEF StoreInv, WrittenInv
    <2> QED
      BY <1>1, <1>2, <1>3, <2>1, <2>2, SameConfig, RunNames DEF WrittenInv, Collecting, Fetching
  <1>6. ReportedInv'
    BY <1>1, <1>2, <1>3 DEF ReportedInv
  <1> QED BY <1>4, <1>5, <1>6 DEF StoreInv

LEMMA EscapePlace ==
  ASSUME Raises PROVE pc \in Collecting
  BY DEF Raises, Jobs!Raises, Official!Raises, Rubric!Raises, Accommodation!Raises,
         Support!Raises, Catalogue!Raises, Collecting

LEMMA StoreEnds ==
  ASSUME WorkInv, StoreInv, Escape \/ Summarise \/ Kill \/ Drills
  PROVE  StoreInv'
  <1>1. /\ UNCHANGED <<config, run, audit, stored, work, earlier, faulty>>
        /\ \/ pc' = "killed" /\ exit' = exit
           \/ pc' = "done" /\ pc \in Collecting /\ exit' = 1
           \/ pc' = "done" /\ pc = "returned" /\ exit' = ExitCode(run)
    <2>1. Escape => pc \in Collecting
      BY EscapePlace DEF Escape
    <2>2. Drills => pc \in Collecting
      BY DEF Drills, Collecting
    <2> QED BY <2>1, <2>2 DEF Escape, Summarise, Kill, Drills
  <1>2. StoreTypes'
    BY <1>1 DEF StoreInv, StoreTypes, ExitCode
  <1>3. WrittenInv'
    <2>1. BatchStored' <=> BatchStored
      BY <1>1, SameBatch
    <2>2. ~faulty' => ~faulty
      BY <1>1 DEF StoreInv, StoreTypes
    <2> QED
      BY <1>1, <2>1, <2>2, SameConfig DEF StoreInv, WrittenInv, Collecting, Fetching
  <1>4. ReportedInv'
    <2>1. pc \in Collecting =>
            /\ run = "RUNNING" /\ stored = earlier
            /\ audit = IF config.dry THEN None ELSE "RUNNING"
      BY DEF WorkInv, BuiltInv, StoreInv, WrittenInv
    <2>2. pc = "returned" =>
            /\ run \in Failures \cup {"SUCCESS"} /\ run # "RUNNING" /\ run # None
            /\ ~faulty => audit = IF config.dry THEN None ELSE run
      BY RunNames DEF StoreInv, ReportedInv
    <2> QED
      BY <1>1, <2>1, <2>2, RunNames DEF ReportedInv, ExitCode
  <1> QED BY <1>2, <1>3, <1>4 DEF StoreInv

LEMMA StoreStep ==
  ASSUME WorkInv, StoreInv, [Next]_vars
  PROVE  StoreInv'
  <1>1. CASE Configure \/ Open \/ OpenFails
    BY <1>1, StoreConfigure
  <1>2. CASE Collect
    <2>1. Collects
      BY <1>2, CollectGated
    <2> QED BY <2>1, StoreBegins, QuietSteps, StoreQuiet, StoreEnds, StorePersists DEF Collects
  <1>3. CASE Report
    BY <1>3, StoreReport
  <1>4. CASE Escape \/ Summarise \/ Kill
    BY <1>4, StoreEnds
  <1>5. CASE SiteChanges
    BY <1>5, QuietSteps, StoreQuiet
  <1>6. CASE UNCHANGED vars
    <2>1. UNCHANGED <<config, pc, run, audit, exit, stored, work, earlier, faulty>>
      BY <1>6 DEF vars
    <2>2. StoreTypes'
      BY <2>1 DEF StoreInv, StoreTypes
    <2>3. WrittenInv'
      BY <2>1, SameBatch, SameConfig DEF StoreInv, WrittenInv
    <2>4. ReportedInv'
      BY <2>1, SameWork DEF WorkInv, StoreInv, ReportedInv
    <2> QED BY <2>2, <2>3, <2>4 DEF StoreInv
  <1> QED
    BY <1>1, <1>2, <1>3, <1>4, <1>5, <1>6 DEF Next, Progress, Environment

LEMMA Storing == Spec => [](WorkInv /\ StoreInv)
  <1>1. Init => WorkInv /\ StoreInv
    BY WorkInit, StoreInit
  <1>2. WorkInv /\ StoreInv /\ [Next]_vars => (WorkInv /\ StoreInv)'
    BY WorkStep, StoreStep
  <1> QED BY <1>1, <1>2, PTL DEF Spec

(***************************************************************************)
(* The theorems.                                                           *)
(***************************************************************************)
\* Every variable of an execution keeps its type, whatever the configuration,
\* the site and the store hold (job.py and the collectors).
THEOREM TypeCorrect == Spec => []TypeOK
  <1>1. ASSUME WorkInv, StoreInv PROVE TypeOK
    <2>1. steady \subseteq Item
      BY <1>1, ShownInRange DEF WorkInv, WorkTypes
    <2>2. pc \in {"config", "opening", "starting", "first", "single", "paging", "judging",
                  "building", "getting", "parsing", "external", "failing", "committing",
                  "reporting", "returned", "done", "killed"}
      BY <1>1 DEF StoreInv, StoreTypes, Collecting, Fetching
    <2> QED BY <1>1, <2>1, <2>2 DEF WorkInv, WorkTypes, StoreInv, StoreTypes, TypeOK
  <1> QED BY <1>1, Storing, PTL

\* The shared database is written only for a source that was itself approved
\* for it (execute_job's gates).
THEOREM ApprovedWrites == Spec => []WritesAreApproved
  <1>1. ASSUME StoreInv PROVE WritesAreApproved
    BY <1>1 DEF StoreInv, WrittenInv, Gated, Allowed, WritesAreApproved
  <1> QED BY <1>1, Storing, PTL

\* An ending that a collector handles leaves a row with the status it returned
\* (_save_failed_run and the single transaction of the batch); an exception that
\* no handler names, the RUNNING row and the records as they were.
THEOREM ReportedEnds == Spec => []EndsReported
  <1>1. ASSUME StoreInv PROVE EndsReported
    BY <1>1, RunNames DEF StoreInv, ReportedInv, EndsReported
  <1> QED BY <1>1, Storing, PTL

\* A batch that is not of a whole population marks nothing missing
\* (save_records_and_run).
THEOREM BoundedKeeps == Spec => []BoundedNeverMarks
  <1>1. ASSUME WorkInv, StoreInv PROVE BoundedNeverMarks
    <2> SUFFICES ASSUME config.source \notin CompleteSources,
                        NEW i \in Approved, earlier[i] # None
                 PROVE  stored[i] # None /\ ~stored[i].missing
      BY DEF BoundedNeverMarks
    <2>1. ~earlier[i].missing
      BY <1>1 DEF StoreInv, StoreTypes
    <2>2. CASE stored = earlier
      BY <2>1, <2>2
    <2>3. CASE BatchStored
      <3>1. [text |-> TextOf(i), missing |-> FALSE] \in StoredRecord
        BY DEF TextOf, Text, StoredRecord
      <3>2. stored[i] = IF i \in Kept THEN [text |-> TextOf(i), missing |-> FALSE] ELSE earlier[i]
        BY <2>3 DEF BatchStored
      <3>3. CASE i \in Kept
        <4>1. stored[i] = [text |-> TextOf(i), missing |-> FALSE] /\ stored[i] \in StoredRecord
          BY <3>1, <3>2, <3>3
        <4>2. stored[i] # None
          BY <4>1, NoneIsNoValue
        <4>3. stored[i].missing = FALSE
          BY <4>1
        <4> QED BY <4>2, <4>3
      <3>4. CASE i \notin Kept
        BY <2>1, <3>2, <3>4
      <3> QED BY <3>3, <3>4
    <2> QED BY <1>1, <2>2, <2>3 DEF StoreInv, WrittenInv
  <1> QED BY <1>1, Storing, PTL

\* What a batch leaves current.
LEMMA CurrentFacts ==
  ASSUME WorkInv, StoreInv, BatchStored
  PROVE  /\ Kept \cap Approved \subseteq Current
         /\ config.source \in CompleteSources => Current = Kept \cap Approved
  <1>1. \A i \in Approved : [text |-> TextOf(i), missing |-> FALSE] \in StoredRecord
    BY DEF TextOf, Text, StoredRecord
  <1>2. ASSUME NEW i \in Kept \cap Approved
        PROVE  stored[i] # None /\ ~stored[i].missing
    <2>1. stored[i] = [text |-> TextOf(i), missing |-> FALSE]
      BY DEF BatchStored
    <2> QED BY <1>1, <2>1, NoneIsNoValue
  <1>3. ASSUME config.source \in CompleteSources, NEW i \in Approved, i \notin Kept,
               stored[i] # None
        PROVE  stored[i].missing
    <2>1. /\ earlier[i] # None
          /\ stored[i] = [earlier[i] EXCEPT !.missing = TRUE]
      BY <1>3 DEF BatchStored
    <2>2. earlier[i] \in StoredRecord
      BY <2>1 DEF StoreInv, StoreTypes
    <2> QED BY <2>1, <2>2 DEF StoredRecord
  <1> QED BY <1>2, <1>3 DEF Current

\* What is published was committed.
LEMMA PublishedFacts ==
  ASSUME WorkInv, StoreInv, Published
  PROVE  /\ BatchStored /\ Gated /\ Len(built) = Len(found) /\ DOMAIN built = DOMAIN found
         /\ found \in Seq(Approved) /\ audit = "SUCCESS" /\ Kept \subseteq Approved
         /\ \E k \in DOMAIN built : built[k] # "rejected"
  <1>1. /\ BatchStored /\ Gated /\ Len(built) = Len(found) /\ audit = "SUCCESS"
        /\ \E k \in DOMAIN built : built[k] # "rejected"
        /\ built \in Seq(Outcome) /\ found \in Seq(Approved)
    BY DEF Published, WorkInv, WorkTypes, BuiltInv, StoreInv, WrittenInv
  <1>2. DOMAIN built = DOMAIN found
    BY <1>1, LenProperties
  <1>3. Kept \subseteq Approved
    BY <1>1, KeptFacts DEF WorkInv
  <1> QED BY <1>1, <1>2, <1>3

\* After a success of jobs or ANU events the current records are what the
\* traversal found (save_complete_snapshot).
THEOREM PopulationReplaced == Spec => []PopulationIsListing
  <1>1. ASSUME WorkInv, StoreInv PROVE PopulationIsListing
    <2> SUFFICES ASSUME config.source \in CompleteSources, Published
                 PROVE  Current = Shown(found)
      BY DEF PopulationIsListing
    <2>1. /\ BatchStored /\ DOMAIN built = DOMAIN found /\ Kept \subseteq Approved
      BY <1>1, PublishedFacts
    <2>2. Current = Kept
      BY <1>1, <2>1, CurrentFacts
    <2>3. \A k \in DOMAIN built : built[k] # "rejected"
      BY <1>1 DEF WorkInv, BuiltInv, CompleteSources
    <2>4. Kept = Shown(found)
      BY <2>1, <2>3 DEF Kept, Accepted, Shown
    <2> QED BY <2>2, <2>4
  <1> QED BY <1>1, Storing, PTL

\* Residences, support categories and courses are stored whole or not at all
\* (frozen universes, the requested sample).
THEOREM WholeOrNothing == Spec => []AllOrNothing
  <1>1. ASSUME WorkInv, StoreInv PROVE AllOrNothing
    <2> SUFFICES ASSUME Published,
                        config.source \in {"accommodation", "support", "courses"}
                 PROVE  AllOrNothing
      BY DEF AllOrNothing
    <2>1. /\ BatchStored /\ Len(built) = Len(found) /\ DOMAIN built = DOMAIN found
          /\ Kept \subseteq Approved /\ Gated
      BY <1>1, PublishedFacts
    <2>2. \A k \in DOMAIN built : built[k] = "detail"
      BY <1>1 DEF WorkInv, BuiltInv
    <2>3. ASSUME NEW k \in DOMAIN found
          PROVE  stored[found[k]] = [text |-> "detail", missing |-> FALSE]
      <3>1. k \in Accepted /\ found[k] \in Kept
        BY <2>1, <2>2 DEF Accepted, Kept
      <3>2. TextOf(found[k]) = "detail"
        <4> DEFINE c == CHOOSE c \in Accepted : found[c] = found[k]
        <4>1. c \in Accepted
          BY <3>1
        <4>2. built[c] = "detail"
          BY <2>2, <4>1 DEF Accepted
        <4> QED BY <4>2 DEF TextOf
      <3> QED BY <2>1, <3>1, <3>2 DEF BatchStored
    <2>4. run = "SUCCESS"
      BY DEF Published
    <2>5. CASE config.source \in {"accommodation", "support"}
      <3>1. cards = Frozen[config.source] /\ Len(found) = IF Limit < cards THEN Limit ELSE cards
        BY <1>1, <2>4, <2>5 DEF WorkInv, BuiltInv, Capped
      <3> QED BY <2>1, <2>3, <2>5, <3>1 DEF AllOrNothing
    <2>6. CASE config.source = "courses"
      <3>1. Len(found) = IF config.code = "valid" THEN 1 ELSE config.courses + config.programs
        BY <1>1, <2>4, <2>6 DEF WorkInv, BuiltInv
      <3>2. config.code \in {None, "valid"} /\ None # "valid"
        BY <2>1, <2>6, Limits, NoneIsNoValue
      <3> QED BY <2>1, <2>3, <2>6, <3>1, <3>2 DEF AllOrNothing
    <2> QED BY <2>5, <2>6
  <1> QED BY <1>1, Storing, PTL

\* The exit code tells what happened to the store (main, _summary_from_run).
THEOREM ExitIsTrue == Spec => []ExitTellsEffect
  <1>1. ASSUME WorkInv, StoreInv PROVE ExitTellsEffect
    <2> SUFFICES ASSUME pc = "done" PROVE ExitTellsEffect
      BY DEF ExitTellsEffect
    <2>1. exit \in {0, 1, 2}
      BY <1>1 DEF StoreInv, ReportedInv
    <2>2. CASE exit = 0
      <3>1. run = "SUCCESS"
        BY <1>1, <2>2 DEF StoreInv, ReportedInv
      <3>2. CASE config.dry
        BY <1>1, <2>2, <3>1, <3>2 DEF StoreInv, WrittenInv, ExitTellsEffect
      <3>3. CASE ~config.dry
        <4>1. /\ BatchStored /\ audit = "SUCCESS" /\ Kept \subseteq Approved
              /\ \E k \in DOMAIN built : built[k] # "rejected"
          BY <1>1, <3>1, <3>3, PublishedFacts DEF Published
        <4>2. Kept \subseteq Current /\ Kept # {}
          BY <1>1, <4>1, CurrentFacts DEF Kept, Accepted
        <4> QED BY <2>2, <3>1, <3>3, <4>1, <4>2 DEF ExitTellsEffect
      <3> QED BY <3>2, <3>3
    <2>3. CASE exit = 1
      BY <1>1, <2>3 DEF StoreInv, WrittenInv, ReportedInv, ExitTellsEffect
    <2>4. CASE exit = 2
      BY <1>1, <2>4 DEF StoreInv, ReportedInv, ExitTellsEffect
    <2> QED BY <2>1, <2>2, <2>3, <2>4
  <1> QED BY <1>1, Storing, PTL
=================================================================================

-------------------------------- MODULE JobSteps --------------------------------
(***************************************************************************)
(* The steps of the seven collectors, seen as steps of one: a page is      *)
(* read, the listing judged, a record built, the batch committed.  What    *)
(* each kind of step does to the shared variables is stated once, every    *)
(* action of every collector is shown to be of one of these kinds, and the *)
(* invariants of an execution are then proved for the kinds.               *)
(***************************************************************************)
EXTENDS Job, SiteProofs

Failures == {"FAILED", "SUSPICIOUS_ZERO"}

Fetching == {"getting", "parsing", "external", "failing"}

Collecting == {"first", "single", "paging", "judging", "building", "committing"} \cup Fetching

Paged == {"scholarships", "jobs", "events", "rubric"}

\* What RequestsBounded allows for the listing and for the details.
ListingRequests ==
  CASE config.source = "courses" -> 2
    [] config.source \in {"accommodation", "support"} -> 1
    [] OTHER -> MaxPages

DetailRequests ==
  IF config.source = "courses" THEN config.courses + config.programs ELSE Limit

Gated == Loads(config) /\ Allowed(config)

(***************************************************************************)
(* The kinds of steps.                                                     *)
(***************************************************************************)
\* fail() before anything is written.
GivesUp ==
  /\ pc \in Collecting
  /\ pc' = "reporting" /\ run' \in Failures
  /\ UNCHANGED <<config, audit, exit, stored, work, earlier, faulty>>

\* Only the point of control moves.
Moves(from, to) ==
  /\ pc = from /\ pc' = to
  /\ UNCHANGED <<config, run, audit, exit, stored, work, earlier, faulty>>

\* A page of the listing, or the registry, is read.
Discovers ==
  /\ pc \in {"first", "paging"} /\ pc' \in {"paging", "judging", "reporting"}
  /\ IF pc' = "reporting" THEN run' \in Failures ELSE run' = run
  /\ found' \in Seq(Approved)
  /\ cards' \in Nat /\ shown' \in Nat /\ advertised' \in Nat \cup {None}
  /\ page' \in 0..100 /\ attempt' \in 1..3
  /\ requests' \in Nat /\ requests' <= ListingRequests
  /\ pc' = "paging" =>
       /\ config.source \in Paged
       /\ requests' = page' /\ page' >= 1 /\ page' <= MaxPages
       /\ config.source = "rubric" => page' < MaxPages
  /\ config.source \in {"events", "rubric"} => advertised' \in Nat
  /\ config.source = "scholarships" => Len(found') <= Limit
  /\ config.source \in {"accommodation", "support"} =>
       Len(found') = IF Limit < cards' THEN Limit ELSE cards'
  /\ UNCHANGED <<config, audit, exit, stored, details, hop, target, world, earlier, faulty>>

\* The gate between the listing and the details.
Accepts ==
  /\ Moves("judging", "building")
  /\ config.source = "jobs" => found # <<>>
  /\ config.source = "rubric" => Len(found) <= Limit
  /\ config.source \in {"accommodation", "support"} =>
       cards # 0 /\ cards = Frozen[config.source]
  /\ config.source = "courses" => Len(found) = config.courses + config.programs

\* One record more.
Builds ==
  /\ pc = "building" /\ pc' = "building"
  /\ Len(built) < Len(found)
  /\ \E outcome \in Outcome :
       /\ built' = Append(built, outcome)
       /\ outcome = "rejected" => config.source = "rubric"
       /\ config.source \in {"accommodation", "support", "courses"} => outcome = "detail"
       /\ \/ eligible' = eligible
          \/ eligible' = eligible + 1 /\ outcome # "rejected"
  /\ \/ requests' = requests
     \/ /\ requests' = requests + 1
        /\ config.source \in CompleteSources => Len(built) < Limit
  /\ attempt' \in 1..3
  /\ UNCHANGED <<config, run, audit, exit, stored, traversal, hop, target, world, earlier,
                 faulty>>

Commits ==
  /\ Moves("building", "committing")
  /\ Len(built) = Len(found)
  /\ config.source \in {"jobs", "accommodation", "support", "courses"} \/ eligible # 0

\* Scholarships: a detail is asked for, one of its requests ends, and it is read.
Asks ==
  /\ pc = "building" /\ pc' = "getting"
  /\ config.source = "scholarships"
  /\ Len(built) < Len(found)
  /\ attempt' = 1 /\ hop' = 0 /\ target' = Candidate
  /\ requests' = requests + 1
  /\ UNCHANGED <<config, run, audit, exit, stored, traversal, details, world, earlier, faulty>>

Fetches ==
  /\ pc = "getting" /\ pc' \in Fetching
  /\ config.source = "scholarships"
  /\ attempt' \in 1..3 /\ hop' \in 0..MaxRedirects
  /\ pc' = "getting" => target' \in Approved /\ (hop' = 0 => target' = Candidate)
  /\ pc' # "getting" => target' = target
  /\ UNCHANGED <<config, run, audit, exit, stored, traversal, details, requests, world,
                 earlier, faulty>>

Reads ==
  /\ pc \in {"parsing", "external"} /\ pc' = "building"
  /\ config.source = "scholarships"
  /\ \/ built' = Append(built, "rejected") /\ eligible' = eligible
     \/ built' = Append(built, "detail") /\ eligible' = eligible + 1
  /\ UNCHANGED <<config, run, audit, exit, stored, traversal, fetching, requests, world,
                 earlier, faulty>>

\* Courses: the one course that was asked for by its code.
ReadsCourse ==
  /\ pc = "single" /\ pc' = "committing"
  /\ config.source = "courses"
  /\ found' \in Seq(Approved) /\ Len(found') = 1 /\ built' = <<"detail">>
  /\ requests' = 1
  /\ UNCHANGED <<config, run, audit, exit, stored, page, advertised, shown, cards, eligible,
                 fetching, world, earlier, faulty>>

\* Rubric: a request is tried again.
Retries ==
  /\ pc \in {"first", "paging", "building"}
  /\ pc' = pc
  /\ attempt' \in 1..3
  /\ UNCHANGED <<config, run, audit, exit, stored, traversal, details, requests, hop, target,
                 world, earlier, faulty>>

\* Rubric: the drill ends the process.
Drills ==
  /\ pc = "first" /\ pc' = "done"
  /\ config.source = "rubric" /\ config.simulate
  /\ exit' = 1
  /\ UNCHANGED <<config, run, audit, stored, work, earlier, faulty>>

\* The RUNNING row.
Begins ==
  \/ SaveRunning("first") /\ (config.source = "courses" => config.code # "valid")
  \/ SaveRunning("single") /\ config.source = "courses" /\ config.code = "valid"
  \/ RunningRefused("reporting") \/ RunningRefused("returned")

Persists ==
  \/ config.source \in CompleteSources /\ Persist(TRUE)
  \/ config.source \notin CompleteSources /\ Persist(FALSE)

Collects ==
  \/ Begins \/ GivesUp \/ Discovers \/ Moves("paging", "judging") \/ Accepts \/ Builds
  \/ Commits \/ Asks \/ Fetches \/ Reads \/ ReadsCourse \/ Retries \/ Drills \/ Persists

(***************************************************************************)
(* What the gates of the configuration guarantee.                          *)
(***************************************************************************)
LEMMA Limits ==
  ASSUME Gated
  PROVE  /\ config.source \in Registry
         /\ config.source \in Paged => MaxPages \in 1..100
         /\ config.source # "courses" => Limit \in 1..2000
         /\ config.courses \in 1..4 /\ config.programs \in 1..4
         /\ ListingRequests \in 1..100 /\ DetailRequests \in Nat
         /\ config.source = "courses" => config.code \in {None, "valid"}
  <1>1. config.source \in Registry
    BY DEF Gated, Allowed
  <1>2. config.source \in Paged => MaxPages \in 1..100
    BY DEF Gated, Loads, Paged, MaxOfPages, MaxPages
  <1>3. ASSUME config.source # "courses" PROVE Limit \in 1..2000
    <2>1. /\ config.source \in DOMAIN MaxOfDetails
          /\ MaxOfDetails[config.source] \in {19, 6, 2000}
      BY <1>1, <1>3 DEF MaxOfDetails
    <2>2. Limit \in 1..MaxOfDetails[config.source]
      BY <2>1 DEF Gated, Loads, Limit
    <2> QED BY <2>1, <2>2
  <1>4. /\ config.courses \in 1..4 /\ config.programs \in 1..4
        /\ config.code \in {None, "valid"}
    BY DEF Gated, Loads
  <1>5. ListingRequests \in 1..100
    BY <1>1, <1>2 DEF ListingRequests, Registry, Paged
  <1>6. DetailRequests \in Nat
    BY <1>3, <1>4 DEF DetailRequests
  <1> QED BY <1>1, <1>2, <1>3, <1>4, <1>5, <1>6

(***************************************************************************)
(* The invariant of the work of an execution.                              *)
(***************************************************************************)
WorkTypes ==
  /\ site \in Seq(Item) /\ Distinct(site) /\ steady \subseteq Shown(site)
  /\ arrivals \in 0..MaxChanges /\ departures \in 0..MaxChanges
  /\ page \in 0..100
  /\ advertised \in Nat \cup {None} /\ shown \in Nat /\ cards \in Nat
  /\ found \in Seq(Approved)
  /\ built \in Seq(Outcome) /\ Len(built) <= Len(found)
  /\ eligible \in 0..Len(built)
  /\ requests \in Nat
  /\ attempt \in 1..3 /\ hop \in 0..MaxRedirects
  /\ target \in Approved \cup {None}

\* Before the first answer nothing is known, before the gate nothing is built.
FreshInv ==
  /\ pc \in {"config", "opening", "starting", "first", "single"} =>
       /\ found = <<>> /\ cards = 0 /\ requests = 0
       /\ arrivals = 0 /\ departures = 0
       /\ page = IF config.source = "rubric" THEN 0 ELSE 1
  /\ pc \in {"config", "opening", "starting", "first", "single", "paging", "judging"} =>
       built = <<>> /\ eligible = 0

\* Which source can be at which point.
PlaceInv ==
  /\ pc = "paging" => config.source \in Paged
  /\ pc \in {"paging", "judging"} /\ config.source \in {"events", "rubric"} =>
       advertised \in Nat
  /\ pc = "single" => config.source = "courses" /\ config.code = "valid"
  /\ config.source = "courses" /\ pc \in {"first", "judging", "building"} =>
       config.code # "valid"
  /\ pc \in Fetching => config.source = "scholarships" /\ Len(built) < Len(found)
  /\ pc = "getting" => target \in Approved /\ (hop = 0 => target = Candidate)

\* Requests are pages first and details afterwards.
RequestInv ==
  /\ pc \notin {"config", "done", "killed"} => Gated
  /\ pc = "paging" =>
       /\ requests = page /\ page >= 1 /\ page <= MaxPages
       /\ config.source = "rubric" => page < MaxPages
  /\ pc \in {"paging", "judging"} => requests <= ListingRequests
  /\ pc = "building" => requests <= ListingRequests + Len(built)
  /\ pc \in Fetching => requests <= ListingRequests + Len(built) + 1
  /\ pc \in {"building"} \cup Fetching /\ config.source \notin CompleteSources =>
       Len(found) <= DetailRequests
  /\ pc \in {"paging", "judging"} /\ config.source = "scholarships" => Len(found) <= Limit
  /\ Gated => requests <= ListingRequests + DetailRequests
  /\ ~Gated => requests = 0

Capped == Len(found) = IF Limit < cards THEN Limit ELSE cards

\* What was built, and what a batch that is committed is made of.
BuiltInv ==
  /\ config.source \notin {"rubric", "scholarships"} =>
       \A k \in DOMAIN built : built[k] # "rejected"
  /\ config.source \in {"accommodation", "support", "courses"} =>
       \A k \in DOMAIN built : built[k] = "detail"
  /\ eligible # 0 => \E k \in DOMAIN built : built[k] # "rejected"
  /\ pc \in {"judging", "building", "committing"} \/ run = "SUCCESS" =>
       (config.source \in {"accommodation", "support"} => Capped)
  /\ pc \in {"building", "committing"} \/ run = "SUCCESS" =>
       /\ config.source = "jobs" => found # <<>>
       /\ config.source \in {"accommodation", "support"} =>
            cards # 0 /\ cards = Frozen[config.source]
       /\ config.source = "courses" =>
            Len(found) = IF config.code = "valid" THEN 1 ELSE config.courses + config.programs
  /\ pc = "committing" \/ run = "SUCCESS" =>
       /\ Len(built) = Len(found)
       /\ Gated
       /\ \E k \in DOMAIN built : built[k] # "rejected"
  /\ pc \in Collecting => run = "RUNNING"
  /\ pc \in {"config", "opening", "starting"} => run = None
  /\ pc = "reporting" => run \in Failures

WorkInv == WorkTypes /\ FreshInv /\ PlaceInv /\ RequestInv /\ BuiltInv

(***************************************************************************)
(* What a page adds.                                                       *)
(***************************************************************************)
\* New keeps the approved items that were not found before.
LEMMA NewFacts ==
  ASSUME found \in Seq(Approved), NEW items \in Seq(Item)
  PROVE  /\ New(items) \in Seq(Approved)
         /\ Len(New(items)) <= Len(items)
         /\ Shown(New(items)) = (Shown(items) \cap Approved) \ Shown(found)
         /\ Distinct(items) => Distinct(New(items))
         /\ found \o New(items) \in Seq(Approved)
         /\ Len(found \o New(items)) = Len(found) + Len(New(items))
         /\ Shown(found \o New(items)) = Shown(found) \cup (Shown(items) \cap Approved)
         /\ Distinct(found) /\ Distinct(items) => Distinct(found \o New(items))
  <1> DEFINE S == Approved \ Shown(found)
             new == New(items)
  <1>1. /\ new \in Seq(Item \cap S) /\ Shown(new) = Shown(items) \cap S
        /\ Len(new) <= Len(items)
        /\ Distinct(items) => Distinct(new)
    BY FilteredFacts DEF New
  <1>2. new \in Seq(Approved)
    BY <1>1, SeqMonotonic
  <1>3. Shown(items) \cap S = (Shown(items) \cap Approved) \ Shown(found)
    OBVIOUS
  <1>4. /\ found \o new \in Seq(Approved) /\ Len(found \o new) = Len(found) + Len(new)
    BY <1>2, ConcatProperties
  <1>5. /\ Shown(found \o new) = Shown(found) \cup Shown(new)
        /\ Distinct(found) /\ Distinct(new) /\ Shown(found) \cap Shown(new) = {} =>
             Distinct(found \o new)
    BY <1>2, ConcatShown
  <1> QED BY <1>1, <1>2, <1>3, <1>4, <1>5

\* A page of the site, and what the first one adds.
LEMMA PageOfSite ==
  ASSUME WorkTypes, NEW k \in Nat
  PROVE  /\ Page(site, k) \in Seq(Item) /\ Distinct(Page(site, k))
         /\ Len(Page(site, k)) \in Nat
         /\ found \o New(Page(site, k)) \in Seq(Approved)
         /\ New(Page(site, k)) \in Seq(Approved)
  BY PageFacts, NewFacts DEF WorkTypes

(***************************************************************************)
(* Jobs.                                                                   *)
(***************************************************************************)
\* Every collector uses the operators of Collection under a name of its own.
LEMMA JobsNames ==
  /\ \A next : Jobs!SaveRunning(next) <=> SaveRunning(next)
  /\ \A next : Jobs!RunningRefused(next) <=> RunningRefused(next)
  /\ \A complete : Jobs!Persist(complete) <=> Persist(complete)
  /\ Jobs!work = work
  /\ \A items : Jobs!New(items) = New(items)
  /\ \A items, k : Jobs!Page(items, k) = Page(items, k)
  /\ Jobs!Limit = Limit /\ Jobs!MaxPages = MaxPages
  /\ Jobs!Answers <=> Answers
  <1>1. ASSUME NEW next PROVE Jobs!SaveRunning(next) <=> SaveRunning(next)
    BY DEF Jobs!SaveRunning, SaveRunning, Jobs!Durable, Durable, Jobs!Sites, Sites,
           Jobs!Shown, Shown, Jobs!work, work, Jobs!traversal, traversal, Jobs!details,
           details,
           Jobs!fetching, fetching, Jobs!world, world
  <1>2. ASSUME NEW next PROVE Jobs!RunningRefused(next) <=> RunningRefused(next)
    BY DEF Jobs!RunningRefused, RunningRefused, Jobs!work, work, Jobs!traversal,
           traversal, Jobs!details, details,
           Jobs!fetching, fetching, Jobs!world, world
  <1>3. ASSUME NEW complete PROVE Jobs!Batch(complete) = Batch(complete)
    BY DEF Jobs!Batch, Batch, Jobs!Kept, Kept, Jobs!Accepted, Accepted, Jobs!TextOf,
           TextOf
  <1>4. ASSUME NEW complete PROVE Jobs!Persist(complete) <=> Persist(complete)
    BY <1>3 DEF Jobs!Persist, Persist, Jobs!Durable, Durable, Jobs!Fail, Fail,
                Jobs!work, work, Jobs!traversal, traversal, Jobs!details, details,
           Jobs!fetching, fetching, Jobs!world, world
  <1>5. Jobs!work = work
    BY DEF Jobs!work, work, Jobs!traversal, traversal, Jobs!details, details,
           Jobs!fetching, fetching, Jobs!world, world
  <1>6. ASSUME NEW items PROVE Jobs!New(items) = New(items)
    <2>1. ASSUME NEW S PROVE Jobs!Filtered(items, S) = Filtered(items, S)
      BY Zenon DEF Jobs!Filtered, Filtered, Jobs!Cardinality, Cardinality
    <2>2. Jobs!Shown(found) = Shown(found)
      BY DEF Jobs!Shown, Shown
    <2> QED BY <2>1, <2>2 DEF Jobs!New, New
  <1>7. ASSUME NEW items, NEW k PROVE Jobs!Page(items, k) = Page(items, k)
    BY DEF Jobs!Page, Page
  <1>8. Jobs!Limit = Limit /\ Jobs!MaxPages = MaxPages /\ (Jobs!Answers <=> Answers)
    BY DEF Jobs!Limit, Limit, Jobs!MaxPages, MaxPages, Jobs!Answers, Answers
  <1> QED BY <1>1, <1>2, <1>4, <1>5, <1>6, <1>7, <1>8

LEMMA JobsCollects ==
  ASSUME Gated, WorkInv, config.source = "jobs", Jobs!Next
  PROVE  Collects
  <1>0. /\ MaxPages \in 1..100 /\ Limit \in 1..2000
        /\ ListingRequests = MaxPages /\ DetailRequests = Limit
    BY Limits DEF Paged, ListingRequests, DetailRequests
  <1>1. CASE Jobs!Start
    BY <1>1, JobsNames DEF Jobs!Start, Collects, Begins
  <1>2. CASE Jobs!FetchBase
    <2>1. /\ found = <<>> /\ page = 1
      BY <1>2 DEF Jobs!FetchBase, WorkInv, FreshInv
    <2>2. /\ New(Page(site, 0)) \in Seq(Approved)
          /\ Len(Page(site, 0)) \in Nat /\ Len(site) \in Nat
      BY PageOfSite, LenProperties DEF WorkInv, WorkTypes
    <2>3. Discovers
      BY <1>0, <1>2, <2>1, <2>2, JobsNames
      DEF Jobs!FetchBase, Discovers, Paged, WorkInv, WorkTypes, Jobs!work, work,
          Jobs!traversal, traversal, Jobs!details, details,
           Jobs!fetching, fetching, Jobs!world, world
    <2> QED BY <2>3 DEF Collects
  <1>3. CASE Jobs!FetchPage
    <2> DEFINE items == Page(site, page - PageBase)
    <2>1. requests = page /\ page < MaxPages /\ page \in 0..100 /\ page >= 1
      BY <1>3, JobsNames DEF Jobs!FetchPage, Jobs!MorePages, WorkInv, RequestInv,
                             WorkTypes
    <2>2. /\ found \o New(items) \in Seq(Approved)
          /\ Len(items) \in Nat
      <3>1. page - PageBase \in Nat
        BY <2>1, PageBaseAssumption
      <3> QED BY <3>1, PageOfSite DEF WorkInv
    <2>3. Discovers
      BY <1>0, <1>3, <2>1, <2>2, JobsNames
      DEF Jobs!FetchPage, Discovers, Paged, WorkInv, WorkTypes, Jobs!work, work,
          Jobs!traversal, traversal, Jobs!details, details,
           Jobs!fetching, fetching, Jobs!world, world
    <2> QED BY <2>3 DEF Collects
  <1>4. CASE Jobs!StopPaging
    BY <1>4 DEF Jobs!StopPaging, Collects, Moves,
           Jobs!work, work, Jobs!traversal, traversal, Jobs!details, details,
           Jobs!fetching, fetching, Jobs!world, world
  <1>5. CASE Jobs!FetchFails
    BY <1>5 DEF Jobs!FetchFails, Jobs!Fail, Collects, GivesUp, Collecting,
           Failures, Jobs!work, work, Jobs!traversal, traversal, Jobs!details, details,
           Jobs!fetching, fetching, Jobs!world, world
  <1>6. CASE Jobs!Judge
    <2>1. Jobs!Verdict \in Failures \cup {"RUNNING"}
      BY DEF Jobs!Verdict, Jobs!Zero, Failures
    <2>2. Jobs!Verdict = "RUNNING" => found # <<>>
      BY DEF Jobs!Verdict, Jobs!Zero
    <2> QED
      BY <1>6, <2>1, <2>2
      DEF Jobs!Judge, Jobs!Fail, Collects, GivesUp, Collecting, Accepts, Moves,
          Jobs!work, work, Jobs!traversal, traversal, Jobs!details, details,
           Jobs!fetching, fetching, Jobs!world, world
  <1>7. CASE Jobs!BuildRecord
    BY <1>0, <1>7, JobsNames
    DEF Jobs!BuildRecord, Jobs!Enriched, Collects, Builds, Outcome, WorkInv, WorkTypes,
        Jobs!work, work, Jobs!traversal, traversal, Jobs!details, details,
           Jobs!fetching, fetching, Jobs!world, world
  <1>8. CASE Jobs!EvidenceFails
    BY <1>8 DEF Jobs!EvidenceFails, Jobs!Fail, Collects, GivesUp, Collecting,
           Failures, Jobs!work, work, Jobs!traversal, traversal, Jobs!details, details,
           Jobs!fetching, fetching, Jobs!world, world
  <1>9. CASE Jobs!Commit
    BY <1>9 DEF Jobs!Commit, Collects, Commits, Moves,
           Jobs!work, work, Jobs!traversal, traversal, Jobs!details, details,
           Jobs!fetching, fetching, Jobs!world, world
  <1>10. CASE Jobs!Replace
    BY <1>10, JobsNames DEF Jobs!Replace, Collects, Persists, CompleteSources
  <1>11. CASE Jobs!PersistFails
    BY <1>11 DEF Jobs!PersistFails, Jobs!Fail, Collects, GivesUp, Collecting,
           Failures, Jobs!work, work, Jobs!traversal, traversal, Jobs!details, details,
           Jobs!fetching, fetching, Jobs!world, world
  <1> QED
    BY <1>1, <1>2, <1>3, <1>4, <1>5, <1>6, <1>7, <1>8, <1>9, <1>10, <1>11 DEF Jobs!Next

(**************************************************************************)
(* ANU events.                                                             *)
(**************************************************************************)
LEMMA OfficialNames ==
  /\ \A next : Official!SaveRunning(next) <=> SaveRunning(next)
  /\ \A next : Official!RunningRefused(next) <=> RunningRefused(next)
  /\ \A complete : Official!Persist(complete) <=> Persist(complete)
  /\ \A items : Official!New(items) = New(items)
  /\ \A items, k : Official!Page(items, k) = Page(items, k)
  /\ Official!Limit = Limit /\ Official!MaxPages = MaxPages /\ (Official!Answers <=> Answers)
  <1>1. ASSUME NEW next PROVE Official!SaveRunning(next) <=> SaveRunning(next)
    BY DEF Official!SaveRunning, SaveRunning, Official!Durable, Durable, Official!Sites,
           Sites,
           Official!Shown, Shown, Official!work, work, Official!traversal, traversal,
           Official!details, details,
           Official!fetching, fetching, Official!world, world
  <1>2. ASSUME NEW next PROVE Official!RunningRefused(next) <=> RunningRefused(next)
    BY DEF Official!RunningRefused, RunningRefused, Official!work, work,
           Official!traversal, traversal, Official!details, details,
           Official!fetching, fetching, Official!world, world
  <1>3. ASSUME NEW complete PROVE Official!Batch(complete) = Batch(complete)
    BY DEF Official!Batch, Batch, Official!Kept, Kept, Official!Accepted, Accepted,
           Official!TextOf, TextOf
  <1>4. ASSUME NEW complete PROVE Official!Persist(complete) <=> Persist(complete)
    BY <1>3 DEF Official!Persist, Persist, Official!Durable, Durable, Official!Fail, Fail,
           Official!work, work, Official!traversal, traversal, Official!details, details,
           Official!fetching, fetching, Official!world, world
  <1>5. ASSUME NEW items, NEW S PROVE Official!Filtered(items, S) = Filtered(items, S)
    BY Zenon DEF Official!Filtered, Filtered, Official!Cardinality, Cardinality
  <1>6. ASSUME NEW items PROVE Official!New(items) = New(items)
    <2>1. Official!Shown(found) = Shown(found)
      BY DEF Official!Shown, Shown
    <2> QED BY <1>5, <2>1 DEF Official!New, New
  <1>7. ASSUME NEW items, NEW k PROVE Official!Page(items, k) = Page(items, k)
    BY DEF Official!Page, Page
  <1>8. Official!Limit = Limit /\ Official!MaxPages = MaxPages /\ (Official!Answers <=> Answers)
    BY DEF Official!Limit, Limit, Official!MaxPages, MaxPages, Official!Answers, Answers
  <1> QED BY <1>1, <1>2, <1>4, <1>6, <1>7, <1>8

LEMMA OfficialCollects ==
  ASSUME Gated, WorkInv, config.source = "events", Official!Next
  PROVE  Collects
  <1>0. /\ MaxPages \in 1..100 /\ Limit \in 1..2000
        /\ ListingRequests = MaxPages
    BY Limits DEF Paged, ListingRequests
  <1>1. CASE Official!Start
    BY <1>1, OfficialNames DEF Official!Start, Collects, Begins
  <1>2. CASE Official!FetchFirst
    <2>1. found = <<>> /\ page = 1
      BY <1>2 DEF Official!FetchFirst, WorkInv, FreshInv
    <2>2. /\ New(Page(site, 0)) \in Seq(Approved)
          /\ Len(Page(site, 0)) \in Nat
      BY PageOfSite DEF WorkInv
    <2>3. Official!LastPage(site) \in Nat
      <3>1. Len(site) \in Nat /\ (site # <<>> => Len(site) # 0)
        BY LenProperties, EmptySeq DEF WorkInv, WorkTypes
      <3>2. CASE site = <<>>
        BY <3>2 DEF Official!LastPage
      <3>3. CASE site # <<>>
        <4>1. Len(site) - 1 \in Nat
          BY <3>1, <3>3
        <4>2. (Len(site) - 1) \div PageSize \in Nat
          BY <4>1, PageSizeAssumption
        <4> QED BY <3>3, <4>2 DEF Official!LastPage
      <3> QED BY <3>2, <3>3
    <2>4. Discovers
      BY <1>0, <1>2, <2>1, <2>2, <2>3, OfficialNames
      DEF Official!FetchFirst, Discovers, Paged, WorkInv, WorkTypes, Official!work,
          work, Official!traversal, traversal, Official!details, details,
           Official!fetching, fetching, Official!world, world
    <2> QED BY <2>4 DEF Collects
  <1>3. CASE Official!FetchPage
    <2>1. requests = page /\ page \in 0..100 /\ page >= 1 /\ advertised \in Nat
      BY <1>3 DEF Official!FetchPage, WorkInv, RequestInv, PlaceInv, WorkTypes
    <2>2. page < MaxPages
      BY <1>0, <1>3, <2>1, OfficialNames DEF Official!FetchPage, Official!MorePages
    <2>3. /\ found \o New(Page(site, page)) \in Seq(Approved)
          /\ Len(Page(site, page)) \in Nat
      BY <2>1, PageOfSite DEF WorkInv
    <2>4. Discovers
      BY <1>0, <1>3, <2>1, <2>2, <2>3, OfficialNames
      DEF Official!FetchPage, Discovers, Paged, WorkInv, WorkTypes, Official!work, work,
          Official!traversal, traversal, Official!details, details,
           Official!fetching, fetching, Official!world, world
    <2> QED BY <2>4 DEF Collects
  <1>4. CASE Official!StopPaging
    BY <1>4 DEF Official!StopPaging, Collects, Moves,
           Official!work, work, Official!traversal, traversal, Official!details, details,
           Official!fetching, fetching, Official!world, world
  <1>5. CASE Official!FetchFails
    BY <1>5 DEF Official!FetchFails, Official!Fail, Collects, GivesUp, Collecting,
           Failures, Official!work, work, Official!traversal, traversal,
           Official!details, details,
           Official!fetching, fetching, Official!world, world
  <1>6. CASE Official!Judge
    <2>1. Official!Verdict \in Failures \cup {"RUNNING"}
      BY DEF Official!Verdict, Official!Zero, Failures
    <2> QED
      BY <1>6, <2>1
      DEF Official!Judge, Official!Fail, Collects, GivesUp, Collecting, Accepts, Moves,
          Official!work, work, Official!traversal, traversal, Official!details, details,
           Official!fetching, fetching, Official!world, world
  <1>7. CASE Official!BuildRecord
    BY <1>0, <1>7, OfficialNames
    DEF Official!BuildRecord, Official!Enriched, Collects, Builds, Outcome, WorkInv,
        WorkTypes, Official!work, work, Official!traversal, traversal, Official!details,
        details,
           Official!fetching, fetching, Official!world, world
  <1>8. CASE Official!EvidenceFails
    BY <1>8 DEF Official!EvidenceFails, Official!Fail, Collects, GivesUp, Collecting,
           Failures, Official!work, work, Official!traversal, traversal,
           Official!details, details,
           Official!fetching, fetching, Official!world, world
  <1>9. CASE Official!DuplicateAlias
    BY <1>9 DEF Official!DuplicateAlias, Official!Fail, Collects, GivesUp, Collecting,
           Failures, Official!work, work, Official!traversal, traversal,
           Official!details, details,
           Official!fetching, fetching, Official!world, world
  <1>10. CASE Official!Commit
    BY <1>10 DEF Official!Commit, Official!Fail, Collects, Commits, Moves, GivesUp,
                 Collecting,
           Failures, Official!work, work, Official!traversal, traversal,
           Official!details, details,
           Official!fetching, fetching, Official!world, world
  <1>11. CASE Official!Replace
    BY <1>11, OfficialNames DEF Official!Replace, Collects, Persists, CompleteSources
  <1>12. CASE Official!PersistFails
    BY <1>12 DEF Official!PersistFails, Official!Fail, Collects, GivesUp, Collecting,
           Failures, Official!work, work, Official!traversal, traversal,
           Official!details, details,
           Official!fetching, fetching, Official!world, world
  <1> QED
    BY <1>1, <1>2, <1>3, <1>4, <1>5, <1>6, <1>7, <1>8, <1>9, <1>10, <1>11, <1>12
    DEF Official!Next

(**************************************************************************)
(* Rubric.                                                                 *)
(**************************************************************************)
LEMMA RubricNames ==
  /\ \A next : Rubric!SaveRunning(next) <=> SaveRunning(next)
  /\ \A next : Rubric!RunningRefused(next) <=> RunningRefused(next)
  /\ \A complete : Rubric!Persist(complete) <=> Persist(complete)
  /\ \A items : Rubric!New(items) = New(items)
  /\ \A items, k : Rubric!Page(items, k) = Page(items, k)
  /\ Rubric!Limit = Limit /\ Rubric!MaxPages = MaxPages /\ (Rubric!Answers <=> Answers)
  <1>1. ASSUME NEW next PROVE Rubric!SaveRunning(next) <=> SaveRunning(next)
    BY DEF Rubric!SaveRunning, SaveRunning, Rubric!Durable, Durable, Rubric!Sites, Sites,
           Rubric!Shown, Shown, Rubric!work, work, Rubric!traversal, traversal,
           Rubric!details, details,
           Rubric!fetching, fetching, Rubric!world, world
  <1>2. ASSUME NEW next PROVE Rubric!RunningRefused(next) <=> RunningRefused(next)
    BY DEF Rubric!RunningRefused, RunningRefused, Rubric!work, work, Rubric!traversal,
           traversal, Rubric!details, details,
           Rubric!fetching, fetching, Rubric!world, world
  <1>3. ASSUME NEW complete PROVE Rubric!Batch(complete) = Batch(complete)
    BY DEF Rubric!Batch, Batch, Rubric!Kept, Kept, Rubric!Accepted, Accepted,
           Rubric!TextOf, TextOf
  <1>4. ASSUME NEW complete PROVE Rubric!Persist(complete) <=> Persist(complete)
    BY <1>3 DEF Rubric!Persist, Persist, Rubric!Durable, Durable, Rubric!Fail, Fail,
           Rubric!work, work, Rubric!traversal, traversal, Rubric!details, details,
           Rubric!fetching, fetching, Rubric!world, world
  <1>5. ASSUME NEW items, NEW S PROVE Rubric!Filtered(items, S) = Filtered(items, S)
    BY Zenon DEF Rubric!Filtered, Filtered, Rubric!Cardinality, Cardinality
  <1>6. ASSUME NEW items PROVE Rubric!New(items) = New(items)
    <2>1. Rubric!Shown(found) = Shown(found)
      BY DEF Rubric!Shown, Shown
    <2> QED BY <1>5, <2>1 DEF Rubric!New, New
  <1>7. ASSUME NEW items, NEW k PROVE Rubric!Page(items, k) = Page(items, k)
    BY DEF Rubric!Page, Page
  <1>8. Rubric!Limit = Limit /\ Rubric!MaxPages = MaxPages /\ (Rubric!Answers <=> Answers)
    BY DEF Rubric!Limit, Limit, Rubric!MaxPages, MaxPages, Rubric!Answers, Answers
  <1> QED BY <1>1, <1>2, <1>4, <1>6, <1>7, <1>8

LEMMA RubricCollects ==
  ASSUME Gated, WorkInv, config.source = "rubric", Rubric!Next
  PROVE  Collects
  <1>0. /\ MaxPages \in 1..100 /\ Limit \in 1..2000
        /\ ListingRequests = MaxPages
    BY Limits DEF Paged, ListingRequests
  <1>1. CASE Rubric!Start
    BY <1>1, RubricNames DEF Rubric!Start, Collects, Begins
  <1>2. CASE Rubric!Retry
    <2>1. /\ pc \in {"first", "paging", "building"} /\ attempt' \in 1..3
      BY <1>2 DEF Rubric!Retry, Rubric!Requesting, Rubric!Attempts, WorkInv, WorkTypes
    <2> QED
      BY <1>2, <2>1 DEF Rubric!Retry, Collects, Retries, Rubric!work, work,
                        Rubric!traversal, traversal, Rubric!details, details,
           Rubric!fetching, fetching, Rubric!world, world
  <1>3. CASE Rubric!RequestFails
    BY <1>3 DEF Rubric!RequestFails, Rubric!Requesting, Rubric!Fail, Collects, GivesUp,
                Collecting,
           Failures, Rubric!work, work, Rubric!traversal, traversal, Rubric!details,
           details,
           Rubric!fetching, fetching, Rubric!world, world
  <1>4. CASE Rubric!SearchPage
    <2>1. /\ requests = page /\ page \in 0..100 /\ page < MaxPages
          /\ pc \in {"first", "paging"}
      <3>1. pc \in {"first", "paging"}
        BY <1>4 DEF Rubric!SearchPage
      <3>2. CASE pc = "first"
        BY <1>0, <3>2 DEF WorkInv, FreshInv
      <3>3. CASE pc = "paging"
        BY <1>0, <3>3 DEF WorkInv, RequestInv, WorkTypes
      <3> QED BY <3>1, <3>2, <3>3
    <2>2. /\ found \o New(Page(site, page)) \in Seq(Approved)
          /\ Len(Page(site, page)) \in Nat
          /\ Len(site) \in Nat
      BY <2>1, PageOfSite, LenProperties DEF WorkInv, WorkTypes
    <2>3. /\ pc' \in {"paging", "judging", "reporting"}
          /\ IF pc' = "reporting" THEN run' \in Failures ELSE run' = run
          /\ pc' = "paging" => ~(page' >= MaxPages)
      BY <1>4, RubricNames DEF Rubric!SearchPage, Rubric!Fail, Rubric!Stops, Failures
    <2>4. advertised' \in Nat
      BY <1>4, <2>1, <2>2 DEF Rubric!SearchPage, WorkInv, PlaceInv
    <2>5. /\ found' \in Seq(Approved) /\ cards' \in Nat /\ page' = page + 1
          /\ requests' = requests + 1 /\ attempt' = 1
          /\ UNCHANGED <<config, audit, exit, stored, shown, details, hop, target, world,
                         earlier, faulty>>
      BY <1>4, <2>2, RubricNames DEF Rubric!SearchPage, WorkInv, WorkTypes, Rubric!work,
                                     work, Rubric!traversal, traversal, Rubric!details,
                                     details,
           Rubric!fetching, fetching, Rubric!world, world
    <2>6. Discovers
      BY <1>0, <2>1, <2>3, <2>4, <2>5 DEF Discovers, Paged, WorkInv, WorkTypes
    <2> QED BY <2>6 DEF Collects
  <1>5. CASE Rubric!DrillRaises
    BY <1>5, RubricNames DEF Rubric!DrillRaises, Answers, Collects, Drills, Rubric!work,
                             work, Rubric!traversal, traversal, Rubric!details, details,
           Rubric!fetching, fetching, Rubric!world, world
  <1>6. CASE Rubric!Judge
    <2>1. Rubric!Verdict \in Failures \cup {"RUNNING"}
      BY DEF Rubric!Verdict, Rubric!Zero, Failures
    <2>2. Rubric!Verdict = "RUNNING" => Len(found) <= Limit
      <3>1. Len(found) \in Nat
        BY LenProperties DEF WorkInv, WorkTypes
      <3> QED BY <1>0, <3>1, RubricNames DEF Rubric!Verdict, Rubric!OverLimit
    <2> QED
      BY <1>6, <2>1, <2>2
      DEF Rubric!Judge, Rubric!Fail, Collects, GivesUp, Collecting, Accepts, Moves,
          Rubric!work, work, Rubric!traversal, traversal, Rubric!details, details,
           Rubric!fetching, fetching, Rubric!world, world
  <1>7. CASE Rubric!ReadDetail
    BY <1>7, RubricNames
    DEF Rubric!ReadDetail, Collects, Builds, Outcome, CompleteSources, WorkInv,
        WorkTypes, Rubric!work, work, Rubric!traversal, traversal, Rubric!details,
        details,
           Rubric!fetching, fetching, Rubric!world, world
  <1>8. CASE Rubric!Commit
    BY <1>8 DEF Rubric!Commit, Rubric!Fail, Collects, Commits, Moves, GivesUp, Collecting,
           Failures, Rubric!work, work, Rubric!traversal, traversal, Rubric!details,
           details,
           Rubric!fetching, fetching, Rubric!world, world
  <1>9. CASE Rubric!Extend
    BY <1>9, RubricNames DEF Rubric!Extend, Collects, Persists, CompleteSources
  <1>10. CASE Rubric!PersistFails
    BY <1>10 DEF Rubric!PersistFails, Rubric!Fail, Collects, GivesUp, Collecting,
           Failures, Rubric!work, work, Rubric!traversal, traversal, Rubric!details,
           details,
           Rubric!fetching, fetching, Rubric!world, world
  <1> QED
    BY <1>1, <1>2, <1>3, <1>4, <1>5, <1>6, <1>7, <1>8, <1>9, <1>10
    DEF Rubric!Next

(**************************************************************************)
(* Scholarships.                                                           *)
(**************************************************************************)
LEMMA ScholarshipsNames ==
  /\ \A next : Scholarships!SaveRunning(next) <=> SaveRunning(next)
  /\ \A next : Scholarships!RunningRefused(next) <=> RunningRefused(next)
  /\ \A complete : Scholarships!Persist(complete) <=> Persist(complete)
  /\ \A items : Scholarships!New(items) = New(items)
  /\ \A items, k : Scholarships!Page(items, k) = Page(items, k)
  /\ Scholarships!Limit = Limit /\ Scholarships!MaxPages = MaxPages /\ (Scholarships!Answers <=> Answers)
  <1>1. ASSUME NEW next PROVE Scholarships!SaveRunning(next) <=> SaveRunning(next)
    BY DEF Scholarships!SaveRunning, SaveRunning, Scholarships!Durable, Durable,
           Scholarships!Sites, Sites,
           Scholarships!Shown, Shown, Scholarships!work, work, Scholarships!traversal,
           traversal, Scholarships!details, details,
           Scholarships!fetching, fetching, Scholarships!world, world
  <1>2. ASSUME NEW next PROVE Scholarships!RunningRefused(next) <=> RunningRefused(next)
    BY DEF Scholarships!RunningRefused, RunningRefused, Scholarships!work, work,
           Scholarships!traversal, traversal, Scholarships!details, details,
           Scholarships!fetching, fetching, Scholarships!world, world
  <1>3. ASSUME NEW complete PROVE Scholarships!Batch(complete) = Batch(complete)
    BY DEF Scholarships!Batch, Batch, Scholarships!Kept, Kept, Scholarships!Accepted,
           Accepted,
           Scholarships!TextOf, TextOf
  <1>4. ASSUME NEW complete PROVE Scholarships!Persist(complete) <=> Persist(complete)
    BY <1>3 DEF Scholarships!Persist, Persist, Scholarships!Durable, Durable,
                Scholarships!Fail, Fail,
           Scholarships!work, work, Scholarships!traversal, traversal,
           Scholarships!details, details,
           Scholarships!fetching, fetching, Scholarships!world, world
  <1>5. ASSUME NEW items, NEW S PROVE Scholarships!Filtered(items, S) = Filtered(items, S)
    BY Zenon DEF Scholarships!Filtered, Filtered, Scholarships!Cardinality, Cardinality
  <1>6. ASSUME NEW items PROVE Scholarships!New(items) = New(items)
    <2>1. Scholarships!Shown(found) = Shown(found)
      BY DEF Scholarships!Shown, Shown
    <2> QED BY <1>5, <2>1 DEF Scholarships!New, New
  <1>7. ASSUME NEW items, NEW k PROVE Scholarships!Page(items, k) = Page(items, k)
    BY DEF Scholarships!Page, Page
  <1>8. Scholarships!Limit = Limit /\ Scholarships!MaxPages = MaxPages /\ (Scholarships!Answers <=> Answers)
    BY DEF Scholarships!Limit, Limit, Scholarships!MaxPages, MaxPages,
           Scholarships!Answers, Answers
  <1> QED BY <1>1, <1>2, <1>4, <1>6, <1>7, <1>8

\* A candidate list is cut at max_details.
LEMMA WithinFacts ==
  ASSUME Limit \in 1..2000, NEW items \in Seq(Approved)
  PROVE  /\ Scholarships!Within(items) \in Seq(Approved)
         /\ Len(Scholarships!Within(items)) <= Limit
         /\ Len(Scholarships!Within(items)) < Limit => Scholarships!Within(items) = items
  <1>1. Len(items) \in Nat /\ \A i \in 1..Len(items) : items[i] \in Approved
    BY LenProperties
  <1>2. CASE Len(items) <= Limit
    BY <1>2, ScholarshipsNames DEF Scholarships!Within
  <1>3. CASE ~(Len(items) <= Limit)
    <2>1. Scholarships!Within(items) = SubSeq(items, 1, Limit)
      BY <1>3, ScholarshipsNames DEF Scholarships!Within
    <2>2. \A i \in 1..Limit : items[i] \in Approved
      BY <1>1, <1>3
    <2>3. /\ SubSeq(items, 1, Limit) \in Seq(Approved)
          /\ Len(SubSeq(items, 1, Limit)) = IF 1 <= Limit THEN Limit - 1 + 1 ELSE 0
      BY <2>2, SubSeqProperties
    <2> QED BY <2>1, <2>3
  <1> QED BY <1>2, <1>3

\* Another attempt starts at the candidate again, or there is none.
LEMMA TryAgainFacts ==
  ASSUME WorkInv, pc = "getting", Scholarships!TryAgain
  PROVE  /\ pc' \in {"getting", "failing"}
         /\ pc' \in Fetching
         /\ config.source = "scholarships"
         /\ attempt' \in 1..3 /\ hop' \in 0..MaxRedirects
         /\ pc' = "getting" => target' \in Approved /\ (hop' = 0 => target' = Candidate)
         /\ pc' # "getting" => target' = target
  <1>1. Candidate \in Approved
    BY LenProperties DEF Candidate, WorkInv, WorkTypes, PlaceInv, Fetching
  <1>2. Scholarships!FirstTarget = Candidate
    BY DEF Scholarships!FirstTarget, Scholarships!Candidate, Candidate
  <1>3. CASE attempt < 3
    BY <1>1, <1>2, <1>3, MaxRedirectsAssumption
    DEF Scholarships!TryAgain, Scholarships!MaxAttempts, Fetching, WorkInv, WorkTypes,
        PlaceInv
  <1>4. CASE ~(attempt < 3)
    BY <1>4
    DEF Scholarships!TryAgain, Scholarships!MaxAttempts, Scholarships!fetching, Fetching,
        WorkInv, WorkTypes, PlaceInv
  <1> QED BY <1>3, <1>4

LEMMA ScholarshipsCollects ==
  ASSUME Gated, WorkInv, config.source = "scholarships", Scholarships!Next
  PROVE  Collects
  <1>0. /\ MaxPages \in 1..100 /\ Limit \in 1..2000
        /\ ListingRequests = MaxPages
    BY Limits DEF Paged, ListingRequests
  <1>1. CASE Scholarships!Start
    BY <1>1, ScholarshipsNames DEF Scholarships!Start, Collects, Begins
  <1>2. CASE Scholarships!FetchFirst
    <2>1. found = <<>> /\ page = 1
      BY <1>2 DEF Scholarships!FetchFirst, WorkInv, FreshInv
    <2>2. /\ New(Page(site, 0)) \in Seq(Approved)
          /\ Len(Page(site, 0)) \in Nat /\ Len(site) \in Nat
      BY PageOfSite, LenProperties DEF WorkInv, WorkTypes
    <2>3. /\ Scholarships!Within(New(Page(site, 0))) \in Seq(Approved)
          /\ Len(Scholarships!Within(New(Page(site, 0)))) <= Limit
      BY <1>0, <2>2, WithinFacts
    <2>4. Discovers
      BY <1>0, <1>2, <2>1, <2>2, <2>3, ScholarshipsNames
      DEF Scholarships!FetchFirst, Discovers, Paged, WorkInv, WorkTypes,
          Scholarships!work, work, Scholarships!traversal, traversal,
          Scholarships!details, details,
           Scholarships!fetching, fetching, Scholarships!world, world
    <2> QED BY <2>4 DEF Collects
  <1>3. CASE Scholarships!FetchPage
    <2>1. requests = page /\ page \in 0..100 /\ page >= 1 /\ page < MaxPages
      BY <1>3, ScholarshipsNames DEF Scholarships!FetchPage, WorkInv, RequestInv,
                                     WorkTypes
    <2>2. /\ found \o New(Page(site, page)) \in Seq(Approved)
          /\ Len(Page(site, page)) \in Nat
      BY <2>1, PageOfSite DEF WorkInv
    <2>3. /\ Scholarships!Within(found \o New(Page(site, page))) \in Seq(Approved)
          /\ Len(Scholarships!Within(found \o New(Page(site, page)))) <= Limit
      <3> DEFINE more == found \o New(Page(site, page))
      <3>1. more \in Seq(Approved)
        BY <2>2
      <3> HIDE DEF more
      <3>2. /\ Scholarships!Within(more) \in Seq(Approved)
            /\ Len(Scholarships!Within(more)) <= Limit
        BY <1>0, <3>1, WithinFacts
      <3> QED BY <3>2 DEF more
    <2>4. Discovers
      BY <1>0, <1>3, <2>1, <2>2, <2>3, ScholarshipsNames
      DEF Scholarships!FetchPage, Discovers, Paged, WorkInv, WorkTypes,
          Scholarships!work, work, Scholarships!traversal, traversal,
          Scholarships!details, details,
           Scholarships!fetching, fetching, Scholarships!world, world
    <2> QED BY <2>4 DEF Collects
  <1>4. CASE Scholarships!StopPaging
    BY <1>4 DEF Scholarships!StopPaging, Collects, Moves,
           Scholarships!work, work, Scholarships!traversal, traversal,
           Scholarships!details, details,
           Scholarships!fetching, fetching, Scholarships!world, world
  <1>5. CASE Scholarships!ListingFails
    BY <1>5 DEF Scholarships!ListingFails, Scholarships!Fail, Collects, GivesUp,
                Collecting,
           Failures, Scholarships!work, work, Scholarships!traversal, traversal,
           Scholarships!details, details,
           Scholarships!fetching, fetching, Scholarships!world, world
  <1>6. CASE Scholarships!Judge
    <2>1. Scholarships!Verdict \in Failures \cup {"RUNNING"}
      BY DEF Scholarships!Verdict, Scholarships!Zero, Failures
    <2> QED
      BY <1>6, <2>1
      DEF Scholarships!Judge, Scholarships!Fail, Collects, GivesUp, Collecting, Accepts,
          Moves,
          Scholarships!work, work, Scholarships!traversal, traversal,
          Scholarships!details, details,
           Scholarships!fetching, fetching, Scholarships!world, world
  <1>7. CASE Scholarships!Call
    BY <1>7 DEF Scholarships!Call, Scholarships!outside, Scholarships!Candidate,
                Candidate, Collects, Asks,
           Scholarships!work, work, Scholarships!traversal, traversal,
           Scholarships!details, details,
           Scholarships!fetching, fetching, Scholarships!world, world
  <1>8. CASE Scholarships!Body
    BY <1>8 DEF Scholarships!Body, Scholarships!outside, Collects, Fetches, Fetching,
                WorkInv, WorkTypes,
           Scholarships!work, work, Scholarships!traversal, traversal,
           Scholarships!details, details,
           Scholarships!fetching, fetching, Scholarships!world, world
  <1>9. CASE Scholarships!GetFails
    <2>1. Scholarships!TryAgain
      BY <1>9 DEF Scholarships!GetFails
    <2>2. Fetches
      BY <1>9, <2>1, TryAgainFacts DEF Scholarships!GetFails, Scholarships!outside,
                                       Fetches, Scholarships!work, work,
                                       Scholarships!traversal, traversal,
                                       Scholarships!details, details,
           Scholarships!fetching, fetching, Scholarships!world, world
    <2> QED BY <2>2 DEF Collects
  <1>10. CASE Scholarships!GetRedirect
    <2>1. /\ pc = "getting"
          /\ \/ \E to \in Approved : Scholarships!Follow(to)
             \/ pc' = "external" /\ UNCHANGED fetching
          /\ UNCHANGED <<config, run, audit, exit, stored, traversal, details, requests, world,
                         earlier, faulty>>
      BY <1>10 DEF Scholarships!GetRedirect, Scholarships!outside, Scholarships!work,
                   work, Scholarships!traversal, traversal, Scholarships!details, details,
           Scholarships!fetching, fetching, Scholarships!world, world
    <2>2. CASE \E to \in Approved : Scholarships!Follow(to)
      <3>1. PICK to \in Approved : Scholarships!Follow(to)
        BY <2>2
      <3>2. CASE hop = MaxRedirects
        <4>1. Scholarships!TryAgain
          BY <3>1, <3>2 DEF Scholarships!Follow
        <4>2. Fetches
          BY <2>1, <4>1, TryAgainFacts DEF Fetches
        <4> QED BY <4>2 DEF Collects
      <3>3. CASE hop # MaxRedirects
        <4>1. /\ hop' = hop + 1 /\ target' = to /\ pc' = pc /\ attempt' = attempt
              /\ hop + 1 \in 1..MaxRedirects
          BY <3>1, <3>3, MaxRedirectsAssumption DEF Scholarships!Follow, WorkInv,
                 WorkTypes
        <4>2. Fetches
          BY <2>1, <4>1 DEF Fetches, Fetching, WorkInv, WorkTypes
        <4> QED BY <4>2 DEF Collects
      <3> QED BY <3>2, <3>3
    <2>3. CASE pc' = "external" /\ UNCHANGED fetching
      <3>1. Fetches
        BY <2>1, <2>3 DEF Fetches, Fetching, fetching, WorkInv, WorkTypes
      <3> QED BY <3>1 DEF Collects
    <2> QED BY <2>1, <2>2, <2>3
  <1>11. CASE Scholarships!SkipExternal
    BY <1>11 DEF Scholarships!SkipExternal, Collects, Reads, Scholarships!work, work,
                 Scholarships!traversal, traversal, Scholarships!details, details,
           Scholarships!fetching, fetching, Scholarships!world, world
  <1>12. CASE Scholarships!Parse
    BY <1>12 DEF Scholarships!Parse, Collects, Reads, Scholarships!work, work,
                 Scholarships!traversal, traversal, Scholarships!details, details,
           Scholarships!fetching, fetching, Scholarships!world, world
  <1>13. CASE Scholarships!DetailFails
    BY <1>13 DEF Scholarships!DetailFails, Scholarships!Fail, Collects, GivesUp,
                 Collecting, Fetching, Failures,
           Scholarships!work, work, Scholarships!traversal, traversal,
           Scholarships!details, details,
           Scholarships!fetching, fetching, Scholarships!world, world
  <1>14. CASE Scholarships!Commit
    BY <1>14 DEF Scholarships!Commit, Scholarships!Fail, Collects, Commits, Moves,
                 GivesUp, Collecting,
           Failures, Scholarships!work, work, Scholarships!traversal, traversal,
           Scholarships!details, details,
           Scholarships!fetching, fetching, Scholarships!world, world
  <1>15. CASE Scholarships!Extend
    BY <1>15, ScholarshipsNames DEF Scholarships!Extend, Collects, Persists,
                                    CompleteSources
  <1>16. CASE Scholarships!PersistFails
    BY <1>16 DEF Scholarships!PersistFails, Scholarships!Fail, Collects, GivesUp,
                 Collecting,
           Failures, Scholarships!work, work, Scholarships!traversal, traversal,
           Scholarships!details, details,
           Scholarships!fetching, fetching, Scholarships!world, world
  <1> QED
    BY <1>1, <1>2, <1>3, <1>4, <1>5, <1>6, <1>7, <1>8, <1>9, <1>10, <1>11, <1>12, <1>13,
       <1>14, <1>15, <1>16
    DEF Scholarships!Next

(**************************************************************************)
(* Accommodation and support.                                              *)
(**************************************************************************)
LEMMA AccommodationNames ==
  /\ \A next : Accommodation!SaveRunning(next) <=> SaveRunning(next)
  /\ \A next : Accommodation!RunningRefused(next) <=> RunningRefused(next)
  /\ \A complete : Accommodation!Persist(complete) <=> Persist(complete)
  /\ \A items, S : Accommodation!Filtered(items, S) = Filtered(items, S)
  /\ Accommodation!Limit = Limit /\ Accommodation!MaxPages = MaxPages /\ (Accommodation!Answers <=> Answers)
  <1>1. ASSUME NEW next PROVE Accommodation!SaveRunning(next) <=> SaveRunning(next)
    BY DEF Accommodation!SaveRunning, SaveRunning, Accommodation!Durable, Durable,
           Accommodation!Sites, Sites,
           Accommodation!Shown, Shown, Accommodation!work, work,
           Accommodation!traversal, traversal, Accommodation!details, details,
           Accommodation!fetching, fetching, Accommodation!world, world
  <1>2. ASSUME NEW next PROVE Accommodation!RunningRefused(next) <=> RunningRefused(next)
    BY DEF Accommodation!RunningRefused, RunningRefused, Accommodation!work, work,
           Accommodation!traversal, traversal, Accommodation!details, details,
           Accommodation!fetching, fetching, Accommodation!world, world
  <1>3. ASSUME NEW complete PROVE Accommodation!Batch(complete) = Batch(complete)
    BY DEF Accommodation!Batch, Batch, Accommodation!Kept, Kept, Accommodation!Accepted,
           Accepted,
           Accommodation!TextOf, TextOf
  <1>4. ASSUME NEW complete PROVE Accommodation!Persist(complete) <=> Persist(complete)
    BY <1>3 DEF Accommodation!Persist, Persist, Accommodation!Durable, Durable,
                Accommodation!Fail, Fail,
           Accommodation!work, work, Accommodation!traversal, traversal,
           Accommodation!details, details,
           Accommodation!fetching, fetching, Accommodation!world, world
  <1>5. ASSUME NEW items, NEW S PROVE Accommodation!Filtered(items, S) = Filtered(items, S)
    BY Zenon DEF Accommodation!Filtered, Filtered, Accommodation!Cardinality, Cardinality
  <1>6. Accommodation!Limit = Limit /\ Accommodation!MaxPages = MaxPages /\ (Accommodation!Answers <=> Answers)
    BY DEF Accommodation!Limit, Limit, Accommodation!MaxPages, MaxPages,
           Accommodation!Answers, Answers
  <1> QED BY <1>1, <1>2, <1>4, <1>5, <1>6

LEMMA AccommodationCollects ==
  ASSUME Gated, WorkInv, config.source = "accommodation", Accommodation!Next
  PROVE  Collects
  <1>0. /\ Limit \in 1..2000 /\ ListingRequests = 1
    BY Limits DEF ListingRequests
  <1>1. CASE Accommodation!Start
    BY <1>1, AccommodationNames DEF Accommodation!Start, Collects, Begins
  <1>2. CASE Accommodation!FetchRegistry
    <2> DEFINE all == Filtered(site, Approved)
    <2>1. Accommodation!Residences = all
      BY AccommodationNames DEF Accommodation!Residences
    <2>2. all \in Seq(Approved)
      <3>1. all \in Seq(Item \cap Approved)
        BY FilteredFacts DEF WorkInv, WorkTypes
      <3> QED BY <3>1, SeqMonotonic
    <2> HIDE DEF all
    <2>3. Len(all) \in Nat /\ \A i \in 1..Len(all) : all[i] \in Approved
      BY <2>2, LenProperties
    <2>4. ASSUME ~(Len(all) <= Limit)
          PROVE  /\ SubSeq(all, 1, Limit) \in Seq(Approved)
                 /\ Len(SubSeq(all, 1, Limit)) = Limit
      <3>1. \A i \in 1..Limit : all[i] \in Approved
        BY <1>0, <2>3, <2>4
      <3>2. /\ SubSeq(all, 1, Limit) \in Seq(Approved)
            /\ Len(SubSeq(all, 1, Limit)) = IF 1 <= Limit THEN Limit - 1 + 1 ELSE 0
        BY <1>0, <3>1, SubSeqProperties
      <3> QED BY <1>0, <3>2
    <2>5. /\ pc = "first" /\ pc' = "judging" /\ run' = run
          /\ cards' = Len(all)
          /\ found' = IF Len(all) <= Limit THEN all ELSE SubSeq(all, 1, Limit)
          /\ requests' = 1 /\ page' = page /\ attempt' = attempt /\ shown' = shown
          /\ UNCHANGED <<config, audit, exit, stored, details, hop, target, world, earlier,
                         faulty>>
      BY <1>2, <2>1, AccommodationNames DEF Accommodation!FetchRegistry,
                                            Accommodation!work, work,
                                            Accommodation!traversal, traversal,
                                            Accommodation!details, details,
           Accommodation!fetching, fetching, Accommodation!world, world
    <2>6. advertised' \in Nat \cup {None}
      <3>1. Len(site) \in Nat
        BY LenProperties DEF WorkInv, WorkTypes
      <3> QED BY <1>2, <3>1 DEF Accommodation!FetchRegistry, WorkInv, WorkTypes
    <2>7. found' \in Seq(Approved) /\ Len(found') = IF Limit < cards' THEN Limit ELSE cards'
      <3>1. CASE Len(all) <= Limit
        BY <1>0, <2>2, <2>3, <2>5, <3>1
      <3>2. CASE ~(Len(all) <= Limit)
        BY <1>0, <2>3, <2>4, <2>5, <3>2
      <3> QED BY <3>1, <3>2
    <2>8. Discovers
      BY <1>0, <2>3, <2>5, <2>6, <2>7 DEF Discovers, WorkInv, WorkTypes
    <2> QED BY <2>8 DEF Collects
  <1>3. CASE Accommodation!RegistryFails
    BY <1>3 DEF Accommodation!RegistryFails, Accommodation!Fail, Collects, GivesUp,
                Collecting,
           Failures, Accommodation!work, work, Accommodation!traversal, traversal,
           Accommodation!details, details,
           Accommodation!fetching, fetching, Accommodation!world, world
  <1>4. CASE Accommodation!Judge
    <2>1. Accommodation!Verdict \in Failures \cup {"RUNNING"}
      BY DEF Accommodation!Verdict, Accommodation!Zero, Failures
    <2>2. Accommodation!Verdict = "RUNNING" => cards # 0 /\ cards = Frozen[config.source]
      BY DEF Accommodation!Verdict, Accommodation!FrozenUniverse
    <2> QED
      BY <1>4, <2>1, <2>2
      DEF Accommodation!Judge, Accommodation!Fail, Collects, GivesUp, Collecting,
          Accepts, Moves,
          Accommodation!work, work, Accommodation!traversal, traversal,
          Accommodation!details, details,
           Accommodation!fetching, fetching, Accommodation!world, world
  <1>5. CASE Accommodation!ReadDetail
    BY <1>5, AccommodationNames
    DEF Accommodation!ReadDetail, Collects, Builds, Outcome, CompleteSources, WorkInv,
        WorkTypes, Accommodation!work, work, Accommodation!traversal, traversal,
        Accommodation!details, details,
           Accommodation!fetching, fetching, Accommodation!world, world
  <1>6. CASE Accommodation!DetailFails
    BY <1>6 DEF Accommodation!DetailFails, Accommodation!Fail, Collects, GivesUp,
                Collecting,
           Failures, Accommodation!work, work, Accommodation!traversal, traversal,
           Accommodation!details, details,
           Accommodation!fetching, fetching, Accommodation!world, world
  <1>7. CASE Accommodation!Commit
    BY <1>7 DEF Accommodation!Commit, Collects, Commits, Moves, Accommodation!work,
                work, Accommodation!traversal, traversal, Accommodation!details, details,
           Accommodation!fetching, fetching, Accommodation!world, world
  <1>8. CASE Accommodation!Extend
    BY <1>8, AccommodationNames DEF Accommodation!Extend, Collects, Persists,
                                    CompleteSources
  <1>9. CASE Accommodation!PersistFails
    BY <1>9 DEF Accommodation!PersistFails, Accommodation!Fail, Collects, GivesUp,
                Collecting,
           Failures, Accommodation!work, work, Accommodation!traversal, traversal,
           Accommodation!details, details,
           Accommodation!fetching, fetching, Accommodation!world, world
  <1> QED
    BY <1>1, <1>2, <1>3, <1>4, <1>5, <1>6, <1>7, <1>8, <1>9
    DEF Accommodation!Next

LEMMA SupportNames ==
  /\ \A next : Support!SaveRunning(next) <=> SaveRunning(next)
  /\ \A next : Support!RunningRefused(next) <=> RunningRefused(next)
  /\ \A complete : Support!Persist(complete) <=> Persist(complete)
  /\ \A items, S : Support!Filtered(items, S) = Filtered(items, S)
  /\ Support!Limit = Limit /\ Support!MaxPages = MaxPages /\ (Support!Answers <=> Answers)
  <1>1. ASSUME NEW next PROVE Support!SaveRunning(next) <=> SaveRunning(next)
    BY DEF Support!SaveRunning, SaveRunning, Support!Durable, Durable, Support!Sites,
           Sites,
           Support!Shown, Shown, Support!work, work, Support!traversal, traversal,
           Support!details, details,
           Support!fetching, fetching, Support!world, world
  <1>2. ASSUME NEW next PROVE Support!RunningRefused(next) <=> RunningRefused(next)
    BY DEF Support!RunningRefused, RunningRefused, Support!work, work,
           Support!traversal, traversal, Support!details, details,
           Support!fetching, fetching, Support!world, world
  <1>3. ASSUME NEW complete PROVE Support!Batch(complete) = Batch(complete)
    BY DEF Support!Batch, Batch, Support!Kept, Kept, Support!Accepted, Accepted,
           Support!TextOf, TextOf
  <1>4. ASSUME NEW complete PROVE Support!Persist(complete) <=> Persist(complete)
    BY <1>3 DEF Support!Persist, Persist, Support!Durable, Durable, Support!Fail, Fail,
           Support!work, work, Support!traversal, traversal, Support!details, details,
           Support!fetching, fetching, Support!world, world
  <1>5. ASSUME NEW items, NEW S PROVE Support!Filtered(items, S) = Filtered(items, S)
    BY Zenon DEF Support!Filtered, Filtered, Support!Cardinality, Cardinality
  <1>6. Support!Limit = Limit /\ Support!MaxPages = MaxPages /\ (Support!Answers <=> Answers)
    BY DEF Support!Limit, Limit, Support!MaxPages, MaxPages, Support!Answers, Answers
  <1> QED BY <1>1, <1>2, <1>4, <1>5, <1>6

LEMMA SupportCollects ==
  ASSUME Gated, WorkInv, config.source = "support", Support!Next
  PROVE  Collects
  <1>0. /\ Limit \in 1..2000 /\ ListingRequests = 1
    BY Limits DEF ListingRequests
  <1>1. CASE Support!Start
    BY <1>1, SupportNames DEF Support!Start, Collects, Begins
  <1>2. CASE Support!FetchRegistry
    <2> DEFINE all == Filtered(site, Approved)
    <2>1. Support!Categories = all
      BY SupportNames DEF Support!Categories
    <2>2. all \in Seq(Approved)
      <3>1. all \in Seq(Item \cap Approved)
        BY FilteredFacts DEF WorkInv, WorkTypes
      <3> QED BY <3>1, SeqMonotonic
    <2> HIDE DEF all
    <2>3. Len(all) \in Nat /\ \A i \in 1..Len(all) : all[i] \in Approved
      BY <2>2, LenProperties
    <2>4. ASSUME ~(Len(all) <= Limit)
          PROVE  /\ SubSeq(all, 1, Limit) \in Seq(Approved)
                 /\ Len(SubSeq(all, 1, Limit)) = Limit
      <3>1. \A i \in 1..Limit : all[i] \in Approved
        BY <1>0, <2>3, <2>4
      <3>2. /\ SubSeq(all, 1, Limit) \in Seq(Approved)
            /\ Len(SubSeq(all, 1, Limit)) = IF 1 <= Limit THEN Limit - 1 + 1 ELSE 0
        BY <1>0, <3>1, SubSeqProperties
      <3> QED BY <1>0, <3>2
    <2>5. /\ pc = "first" /\ pc' = "judging" /\ run' = run
          /\ cards' = Len(all)
          /\ found' = IF Len(all) <= Limit THEN all ELSE SubSeq(all, 1, Limit)
          /\ requests' = 1 /\ page' = page /\ attempt' = attempt /\ shown' = shown
          /\ UNCHANGED <<config, audit, exit, stored, details, hop, target, world, earlier,
                         faulty>>
      BY <1>2, <2>1, SupportNames DEF Support!FetchRegistry, Support!work, work,
                                      Support!traversal, traversal, Support!details,
                                      details,
           Support!fetching, fetching, Support!world, world
    <2>6. advertised' \in Nat \cup {None}
      <3>1. Len(site) \in Nat
        BY LenProperties DEF WorkInv, WorkTypes
      <3> QED BY <1>2, <3>1 DEF Support!FetchRegistry, WorkInv, WorkTypes
    <2>7. found' \in Seq(Approved) /\ Len(found') = IF Limit < cards' THEN Limit ELSE cards'
      <3>1. CASE Len(all) <= Limit
        BY <1>0, <2>2, <2>3, <2>5, <3>1
      <3>2. CASE ~(Len(all) <= Limit)
        BY <1>0, <2>3, <2>4, <2>5, <3>2
      <3> QED BY <3>1, <3>2
    <2>8. Discovers
      BY <1>0, <2>3, <2>5, <2>6, <2>7 DEF Discovers, WorkInv, WorkTypes
    <2> QED BY <2>8 DEF Collects
  <1>3. CASE Support!RegistryFails
    BY <1>3 DEF Support!RegistryFails, Support!Fail, Collects, GivesUp, Collecting,
           Failures, Support!work, work, Support!traversal, traversal, Support!details,
           details,
           Support!fetching, fetching, Support!world, world
  <1>4. CASE Support!Judge
    <2>1. Support!Verdict \in Failures \cup {"RUNNING"}
      BY DEF Support!Verdict, Support!Zero, Failures
    <2>2. Support!Verdict = "RUNNING" => cards # 0 /\ cards = Frozen[config.source]
      BY DEF Support!Verdict, Support!FrozenRegistry
    <2> QED
      BY <1>4, <2>1, <2>2
      DEF Support!Judge, Support!Fail, Collects, GivesUp, Collecting, Accepts, Moves,
          Support!work, work, Support!traversal, traversal, Support!details, details,
           Support!fetching, fetching, Support!world, world
  <1>5. CASE Support!ReadDetail
    BY <1>5, SupportNames
    DEF Support!ReadDetail, Collects, Builds, Outcome, CompleteSources, WorkInv,
        WorkTypes, Support!work, work, Support!traversal, traversal, Support!details,
        details,
           Support!fetching, fetching, Support!world, world
  <1>6. CASE Support!DetailFails
    BY <1>6 DEF Support!DetailFails, Support!Fail, Collects, GivesUp, Collecting,
           Failures, Support!work, work, Support!traversal, traversal, Support!details,
           details,
           Support!fetching, fetching, Support!world, world
  <1>7. CASE Support!Commit
    BY <1>7 DEF Support!Commit, Collects, Commits, Moves, Support!work, work,
                Support!traversal, traversal, Support!details, details,
           Support!fetching, fetching, Support!world, world
  <1>8. CASE Support!Extend
    BY <1>8, SupportNames DEF Support!Extend, Collects, Persists, CompleteSources
  <1>9. CASE Support!PersistFails
    BY <1>9 DEF Support!PersistFails, Support!Fail, Collects, GivesUp, Collecting,
           Failures, Support!work, work, Support!traversal, traversal, Support!details,
           details,
           Support!fetching, fetching, Support!world, world
  <1> QED
    BY <1>1, <1>2, <1>3, <1>4, <1>5, <1>6, <1>7, <1>8, <1>9
    DEF Support!Next

(**************************************************************************)
(* Courses and programs.                                                   *)
(**************************************************************************)
LEMMA CatalogueNames ==
  /\ \A next : Catalogue!SaveRunning(next) <=> SaveRunning(next)
  /\ \A next : Catalogue!RunningRefused(next) <=> RunningRefused(next)
  /\ \A complete : Catalogue!Persist(complete) <=> Persist(complete)
  /\ \A items, S : Catalogue!Filtered(items, S) = Filtered(items, S)
  /\ Catalogue!Limit = Limit /\ Catalogue!MaxPages = MaxPages /\ (Catalogue!Answers <=> Answers)
  <1>1. ASSUME NEW next PROVE Catalogue!SaveRunning(next) <=> SaveRunning(next)
    BY DEF Catalogue!SaveRunning, SaveRunning, Catalogue!Durable, Durable,
           Catalogue!Sites, Sites,
           Catalogue!Shown, Shown, Catalogue!work, work, Catalogue!traversal, traversal,
           Catalogue!details, details,
           Catalogue!fetching, fetching, Catalogue!world, world
  <1>2. ASSUME NEW next PROVE Catalogue!RunningRefused(next) <=> RunningRefused(next)
    BY DEF Catalogue!RunningRefused, RunningRefused, Catalogue!work, work,
           Catalogue!traversal, traversal, Catalogue!details, details,
           Catalogue!fetching, fetching, Catalogue!world, world
  <1>3. ASSUME NEW complete PROVE Catalogue!Batch(complete) = Batch(complete)
    BY DEF Catalogue!Batch, Batch, Catalogue!Kept, Kept, Catalogue!Accepted, Accepted,
           Catalogue!TextOf, TextOf
  <1>4. ASSUME NEW complete PROVE Catalogue!Persist(complete) <=> Persist(complete)
    BY <1>3 DEF Catalogue!Persist, Persist, Catalogue!Durable, Durable, Catalogue!Fail,
                Fail,
           Catalogue!work, work, Catalogue!traversal, traversal, Catalogue!details,
           details,
           Catalogue!fetching, fetching, Catalogue!world, world
  <1>5. ASSUME NEW items, NEW S PROVE Catalogue!Filtered(items, S) = Filtered(items, S)
    BY Zenon DEF Catalogue!Filtered, Filtered, Catalogue!Cardinality, Cardinality
  <1>6. Catalogue!Limit = Limit /\ Catalogue!MaxPages = MaxPages /\ (Catalogue!Answers <=> Answers)
    BY DEF Catalogue!Limit, Limit, Catalogue!MaxPages, MaxPages, Catalogue!Answers,
           Answers
  <1> QED BY <1>1, <1>2, <1>4, <1>5, <1>6

\* The candidates of a feed are the first approved rows of it.
LEMMA FeedFacts ==
  ASSUME NEW feed \in Seq(Item), NEW rows \in Nat, NEW n \in Nat
  PROVE  Catalogue!First(Catalogue!Listed(feed, rows), n) \in Seq(Approved)
  <1> DEFINE last == IF rows < Len(feed) THEN rows ELSE Len(feed)
             listed == Catalogue!Listed(feed, rows)
  <1>1. last \in Nat /\ \A i \in 1..last : feed[i] \in Item
    <2>1. Len(feed) \in Nat /\ \A i \in 1..Len(feed) : feed[i] \in Item
      BY LenProperties
    <2> QED BY <2>1
  <1>2. SubSeq(feed, 1, last) \in Seq(Item)
    BY <1>1, SubSeqProperties
  <1>3. listed \in Seq(Approved)
    <2>1. Filtered(SubSeq(feed, 1, last), Approved) \in Seq(Item \cap Approved)
      BY <1>2, FilteredFacts
    <2> QED BY <2>1, SeqMonotonic, CatalogueNames DEF Catalogue!Listed
  <1> HIDE DEF listed
  <1>4. CASE Len(listed) <= n
    BY <1>3, <1>4 DEF Catalogue!First, listed
  <1>5. CASE ~(Len(listed) <= n)
    <2>1. \A i \in 1..n : listed[i] \in Approved
      BY <1>3, <1>5, LenProperties
    <2>2. SubSeq(listed, 1, n) \in Seq(Approved)
      BY <2>1, SubSeqProperties
    <2> QED BY <1>5, <2>2 DEF Catalogue!First, listed
  <1> QED BY <1>4, <1>5

LEMMA CatalogueCollects ==
  ASSUME Gated, WorkInv, config.source = "courses", Catalogue!Next
  PROVE  Collects
  <1>0. /\ ListingRequests = 2 /\ config.courses \in 1..4 /\ config.programs \in 1..4
    BY Limits DEF ListingRequests
  <1>1. CASE Catalogue!Start
    <2>1. \/ Catalogue!SaveRunning("single") /\ config.code = "valid"
          \/ Catalogue!SaveRunning("first") /\ config.code # "valid"
          \/ Catalogue!RunningRefused("reporting")
      BY <1>1 DEF Catalogue!Start
    <2> QED BY <2>1, CatalogueNames DEF Collects, Begins
  <1>2. CASE Catalogue!FetchCourse
    <2>1. PICK course \in Approved : found' = <<course>> /\ built' = <<"detail">>
      BY <1>2 DEF Catalogue!FetchCourse
    <2>2. found' \in Seq(Approved) /\ Len(found') = 1
      BY <2>1
    <2>3. ReadsCourse
      BY <1>2, <2>1, <2>2 DEF Catalogue!FetchCourse, ReadsCourse, Catalogue!work, work,
                              Catalogue!traversal, traversal, Catalogue!details, details,
           Catalogue!fetching, fetching, Catalogue!world, world
    <2> QED BY <2>3 DEF Collects
  <1>3. CASE Catalogue!CourseFails
    BY <1>3 DEF Catalogue!CourseFails, Catalogue!Fail, Collects, GivesUp, Collecting,
           Failures, Catalogue!work, work, Catalogue!traversal, traversal,
           Catalogue!details, details,
           Catalogue!fetching, fetching, Catalogue!world, world
  <1>4. CASE Catalogue!FetchFeeds
    <2>1. PICK rows \in {0, Len(site)} :
            LET courses == Catalogue!First(Catalogue!Listed(Catalogue!Courses, config.courses + rows),
                                    config.courses)
                programs == Catalogue!First(Catalogue!Listed(Catalogue!ProgramFeed, config.programs + rows),
                                     config.programs)
            IN /\ found' = courses \o programs
               /\ cards' = IF Len(courses) < config.courses THEN Len(courses)
                           ELSE IF Len(programs) < config.programs THEN Len(programs)
                           ELSE Len(found')
      BY <1>4 DEF Catalogue!FetchFeeds
    <2> DEFINE courses == Catalogue!First(Catalogue!Listed(Catalogue!Courses, config.courses + rows), config.courses)
               programs == Catalogue!First(Catalogue!Listed(Catalogue!ProgramFeed, config.programs + rows),
                                    config.programs)
    <2>2. rows \in Nat
      BY LenProperties DEF WorkInv, WorkTypes
    <2>3. courses \in Seq(Approved)
      <3>1. Catalogue!Courses \in Seq(Item)
        <4>1. Filtered(site, Item \ Programs) \in Seq(Item \cap (Item \ Programs))
          BY FilteredFacts DEF WorkInv, WorkTypes
        <4> QED BY <4>1, SeqMonotonic, CatalogueNames DEF Catalogue!Courses
      <3>2. config.courses + rows \in Nat /\ config.courses \in Nat
        BY <1>0, <2>2
      <3> QED BY <3>1, <3>2, FeedFacts
    <2>4. programs \in Seq(Approved)
      <3>1. Catalogue!ProgramFeed \in Seq(Item)
        <4>1. Filtered(site, Programs) \in Seq(Item \cap Programs)
          BY FilteredFacts DEF WorkInv, WorkTypes
        <4> QED BY <4>1, SeqMonotonic, CatalogueNames DEF Catalogue!ProgramFeed
      <3>2. config.programs + rows \in Nat /\ config.programs \in Nat
        BY <1>0, <2>2
      <3> QED BY <3>1, <3>2, FeedFacts
    <2> HIDE DEF courses, programs
    <2>5. found' = courses \o programs
      BY <2>1 DEF courses, programs
    <2>6. found' \in Seq(Approved) /\ Len(found') \in Nat
      BY <2>3, <2>4, <2>5, ConcatProperties, LenProperties
    <2>7. cards' \in {Len(courses), Len(programs), Len(found')}
      BY <2>1 DEF courses, programs
    <2>8. cards' \in Nat
      BY <2>3, <2>4, <2>6, <2>7, LenProperties
    <2>9. Discovers
      BY <1>0, <1>4, <2>6, <2>8 DEF Catalogue!FetchFeeds, Discovers, WorkInv, WorkTypes,
                                    Catalogue!work, work, Catalogue!traversal,
                                    traversal, Catalogue!details, details,
           Catalogue!fetching, fetching, Catalogue!world, world
    <2> QED BY <2>9 DEF Collects
  <1>5. CASE Catalogue!FeedFails
    BY <1>5 DEF Catalogue!FeedFails, Catalogue!Fail, Collects, GivesUp, Collecting,
           Failures, Catalogue!work, work, Catalogue!traversal, traversal,
           Catalogue!details, details,
           Catalogue!fetching, fetching, Catalogue!world, world
  <1>6. CASE Catalogue!Judge
    <2>1. Catalogue!Zero(cards) \in Failures
      BY DEF Catalogue!Zero, Failures
    <2> QED
      BY <1>6, <2>1
      DEF Catalogue!Judge, Catalogue!FullSample, Catalogue!Fail, Collects, GivesUp,
          Collecting, Accepts, Moves,
          Catalogue!work, work, Catalogue!traversal, traversal, Catalogue!details,
          details,
           Catalogue!fetching, fetching, Catalogue!world, world
  <1>7. CASE Catalogue!ReadDetail
    BY <1>7, CatalogueNames
    DEF Catalogue!ReadDetail, Collects, Builds, Outcome, CompleteSources, WorkInv,
        WorkTypes, Catalogue!work, work, Catalogue!traversal, traversal,
        Catalogue!details, details,
           Catalogue!fetching, fetching, Catalogue!world, world
  <1>8. CASE Catalogue!DetailFails
    BY <1>8 DEF Catalogue!DetailFails, Catalogue!Fail, Collects, GivesUp, Collecting,
           Failures, Catalogue!work, work, Catalogue!traversal, traversal,
           Catalogue!details, details,
           Catalogue!fetching, fetching, Catalogue!world, world
  <1>9. CASE Catalogue!Commit
    BY <1>9 DEF Catalogue!Commit, Collects, Commits, Moves, Catalogue!work, work,
                Catalogue!traversal, traversal, Catalogue!details, details,
           Catalogue!fetching, fetching, Catalogue!world, world
  <1>10. CASE Catalogue!Extend
    BY <1>10, CatalogueNames DEF Catalogue!Extend, Collects, Persists, CompleteSources
  <1>11. CASE Catalogue!PersistFails
    BY <1>11 DEF Catalogue!PersistFails, Catalogue!Fail, Collects, GivesUp, Collecting,
           Failures, Catalogue!work, work, Catalogue!traversal, traversal,
           Catalogue!details, details,
           Catalogue!fetching, fetching, Catalogue!world, world
  <1> QED
    BY <1>1, <1>2, <1>3, <1>4, <1>5, <1>6, <1>7, <1>8, <1>9, <1>10, <1>11
    DEF Catalogue!Next

(***************************************************************************)
(* Every step of every collector is of one of the kinds.                   *)
(***************************************************************************)
LEMMA CollectKinds ==
  ASSUME Gated, WorkInv, Collect
  PROVE  Collects
  BY JobsCollects, OfficialCollects, RubricCollects, ScholarshipsCollects,
     AccommodationCollects, SupportCollects, CatalogueCollects
  DEF Collect
=================================================================================

----------------------------- MODULE CoursesSample -----------------------------
(***************************************************************************)
(* The courses collector as the job runs it (sources/courses/collector.py):*)
(* either one course page, or a sample of the first courses and programs   *)
(* the catalogue API lists, every one of which must be read before any is  *)
(* stored.                                                                 *)
(***************************************************************************)
EXTENDS Collection

\* _persist_running, for either kind of run.
Start ==
  \/ SaveRunning(IF config.code = "valid" THEN "single" ELSE "first")
  \/ RunningRefused("reporting")

\* run_single.
FetchCourse ==
  /\ pc = "single"
  /\ Answers
  /\ \E course \in Approved \ Programs :
       found' = <<course>> /\ built' = <<"detail">>
  /\ requests' = 1
  /\ pc' = "committing"
  /\ UNCHANGED <<config, run, audit, exit, stored, page, advertised, shown, cards,
                 eligible, fetching, world, earlier, faulty>>

\* The request, the parser or the identity check fails.
CourseFails ==
  /\ pc = "single"
  /\ Fail("FAILED")
  /\ UNCHANGED <<config, audit, exit, stored, work, earlier, faulty>>

(***************************************************************************)
(* run_live_catalogue.                                                     *)
(***************************************************************************)
\* discover_api_payload on the first `rows` of a feed.
Listed(feed, rows) ==
  Filtered(SubSeq(feed, 1, IF rows < Len(feed) THEN rows ELSE Len(feed)), Approved)

First(items, n) == IF Len(items) <= n THEN items ELSE SubSeq(items, 1, n)

Courses == Filtered(site, Item \ Programs)
ProgramFeed == Filtered(site, Programs)

\* Both requests; the API may return as many rows as asked for, or all it has.
\* cards: the candidates of the feed that has fewer than requested, or both.
FetchFeeds ==
  /\ pc = "first"
  /\ Answers
  /\ requests' = 2
  /\ \E rows \in {0, Len(site)} :
       LET courses == First(Listed(Courses, config.courses + rows), config.courses)
           programs == First(Listed(ProgramFeed, config.programs + rows), config.programs)
       IN /\ found' = courses \o programs
          /\ cards' = IF Len(courses) < config.courses THEN Len(courses)
                      ELSE IF Len(programs) < config.programs THEN Len(programs)
                      ELSE Len(found')
  /\ pc' = "judging"
  /\ UNCHANGED <<config, run, audit, exit, stored, page, advertised, shown, details,
                 fetching, world, earlier, faulty>>

\* A request fails, or a payload is not what the API promises.
FeedFails ==
  /\ pc = "first"
  /\ Fail("FAILED")
  /\ UNCHANGED <<config, audit, exit, stored, work, earlier, faulty>>

FullSample == Len(found) = config.courses + config.programs

Judge ==
  /\ pc = "judging"
  /\ IF FullSample
     THEN pc' = "building" /\ UNCHANGED run
     ELSE Fail(Zero(cards))
  /\ UNCHANGED <<config, audit, exit, stored, work, earlier, faulty>>

\* Fetched, parsed, and the record the catalogue announced.
ReadDetail ==
  /\ pc = "building"
  /\ Len(built) < Len(found)
  /\ built' = Append(built, "detail")
  /\ requests' = requests + 1
  /\ UNCHANGED <<config, pc, run, audit, exit, stored, traversal, eligible, fetching,
                 world, earlier, faulty>>

\* Any exception, another identity, or two records of one.
DetailFails ==
  /\ pc = "building"
  /\ Fail("FAILED")
  /\ UNCHANGED <<config, audit, exit, stored, work, earlier, faulty>>

Commit ==
  /\ pc = "building"
  /\ Len(built) = Len(found)
  /\ pc' = "committing"
  /\ UNCHANGED <<config, run, audit, exit, stored, work, earlier, faulty>>

\* _persist_success.
Extend == Persist(FALSE)

\* What the API handlers do not name.
Raises == pc \in {"first", "single"}

Next ==
  \/ Start
  \/ FetchCourse \/ CourseFails
  \/ FetchFeeds \/ FeedFails
  \/ Judge
  \/ ReadDetail \/ DetailFails
  \/ Commit \/ Extend \/ PersistFails
=================================================================================

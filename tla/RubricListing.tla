----------------------------- MODULE RubricListing -----------------------------
(***************************************************************************)
(* The Rubric adapter (sources/events/rubric_adapter.py): a paged search   *)
(* whose total must stay the same, one request per event found, all of     *)
(* which must succeed, and one batch of the events inside the window.  A   *)
(* request is tried three times.                                           *)
(***************************************************************************)
EXTENDS Collection

\* run_listing; a refused RUNNING row is not tried again.
Start == SaveRunning("first") \/ RunningRefused("returned")

(***************************************************************************)
(* HttpRubricTransport.                                                    *)
(***************************************************************************)
\* Mutant: one attempt too many.
OneMore == 4

Attempts == 3

Requesting ==
  \/ pc \in {"first", "paging"}
  \/ pc = "building" /\ Len(built) < Len(found)

\* A transient answer, an empty one, or none: wait and try again.
Retry ==
  /\ Requesting
  /\ Answers
  /\ attempt < Attempts
  /\ attempt' = attempt + 1
  /\ UNCHANGED <<config, pc, run, audit, exit, stored, traversal, details, requests,
                 hop, target, world, earlier, faulty>>

\* The last attempt fails, or the answer is refused by the parser.
RequestFails ==
  /\ Requesting
  /\ Answers
  /\ Fail("FAILED")
  /\ UNCHANGED <<config, audit, exit, stored, work, earlier, faulty>>

(***************************************************************************)
(* discover.                                                               *)
(***************************************************************************)
\* parse_discovery_page refuses a page with one invalid destination.
ValidPage == Shown(Page(site, page)) \subseteq Approved

\* Mutant: the total of a later page is not compared.
AnyTotal == TRUE

SameTotal == IF pc = "first" THEN TRUE ELSE Len(site) = advertised

Stops(rows) == cards' >= advertised' \/ rows = 0 \/ page' >= MaxPages

SearchPage ==
  LET rows == Len(Page(site, page)) IN
  /\ pc \in {"first", "paging"}
  /\ Answers
  /\ ValidPage
  /\ requests' = requests + 1
  /\ attempt' = 1
  /\ advertised' = IF pc = "first" THEN Len(site) ELSE advertised
  /\ cards' = cards + rows
  /\ page' = page + 1
  /\ found' = found \o New(Page(site, page))
  /\ IF ~SameTotal THEN Fail("FAILED")
     ELSE IF Stops(rows) THEN pc' = "judging" /\ UNCHANGED run
     ELSE pc' = "paging" /\ UNCHANGED run
  /\ UNCHANGED <<config, audit, exit, stored, shown, details, hop, target,
                 world, earlier, faulty>>

\* SimulatedFailureRubricTransport has neither post_search nor post_detail.
DrillRaises ==
  /\ pc = "first"
  /\ ~Answers
  /\ pc' = "done"
  /\ exit' = 1
  /\ UNCHANGED <<config, run, audit, stored, work, earlier, faulty>>

(***************************************************************************)
(* run_listing.                                                            *)
(***************************************************************************)
OverLimit == Len(found) > Limit

Complete == cards >= advertised

Verdict ==
  IF advertised = 0 THEN "SUSPICIOUS_ZERO"
  ELSE IF ~Complete \/ OverLimit THEN "FAILED" ELSE "RUNNING"

Judge ==
  /\ pc = "judging"
  /\ IF Verdict = "RUNNING"
     THEN pc' = "building" /\ UNCHANGED run
     ELSE Fail(Verdict)
  /\ UNCHANGED <<config, audit, exit, stored, work, earlier, faulty>>

\* parse_detail: a draft, an event that ends before it starts and one outside
\* the window are left out.
ReadDetail ==
  /\ pc = "building"
  /\ Len(built) < Len(found)
  /\ requests' = requests + 1
  /\ attempt' = 1
  /\ \/ built' = Append(built, "detail") /\ eligible' = eligible + 1
     \/ built' = Append(built, "rejected") /\ UNCHANGED eligible
  /\ UNCHANGED <<config, pc, run, audit, exit, stored, traversal, hop, target,
                 world, earlier, faulty>>

Commit ==
  /\ pc = "building"
  /\ Len(built) = Len(found)
  /\ IF eligible = 0 THEN Fail("SUSPICIOUS_ZERO")
     ELSE IF BelowMinimum THEN Fail("FAILED")
     ELSE pc' = "committing" /\ UNCHANGED run
  /\ UNCHANGED <<config, audit, exit, stored, work, earlier, faulty>>

\* The details catch every exception, the search does not.
Raises == pc \in {"first", "paging"}

\* Mutant: a bounded batch marks what it does not contain.
ExtendAndMark == Persist(TRUE)

Extend == Persist(FALSE)

Next ==
  \/ Start
  \/ Retry \/ RequestFails \/ SearchPage \/ DrillRaises
  \/ Judge
  \/ ReadDetail \/ Commit \/ Extend \/ PersistFails
=================================================================================

------------------------------ MODULE JobsListing ------------------------------
(***************************************************************************)
(* The Jobs collector (sources/jobs): it pages through a listing that may  *)
(* change between two requests, compares what it found with the total the  *)
(* first page advertised, builds one record per candidate - from the       *)
(* detail page if that works, from the listing card otherwise - and        *)
(* replaces the stored population.                                         *)
(***************************************************************************)
EXTENDS Collection

\* run_listing: the RUNNING row, or its failure and a second attempt to
\* leave a row.
Start == SaveRunning("first") \/ RunningRefused("reporting")

(***************************************************************************)
(* discover_full_listing.                                                  *)
(***************************************************************************)
FetchBase ==
  LET first == Page(site, 0) IN
  /\ pc = "first"
  /\ Answers
  /\ pc' = "paging"
  /\ advertised' \in {Len(site), None}     \* None: no "Displaying n - m of t"
  /\ shown' = IF advertised' = None THEN 0 ELSE Len(first)
  /\ cards' = Len(first)
  /\ found' = New(first)
  /\ requests' = 1
  /\ UNCHANGED <<config, run, audit, exit, stored, page, details, fetching, world,
                 earlier, faulty>>

Reached == IF advertised = None THEN FALSE ELSE Len(found) >= advertised

\* Mutant: no cap on the pages.
AnyPage == TRUE

MorePages == page < MaxPages

FetchPage ==
  LET items == Page(site, page - PageBase) IN
  /\ pc = "paging"
  /\ MorePages
  /\ ~Reached
  /\ cards' = cards + Len(items)
  /\ found' = found \o New(items)
  /\ pc' = IF items = <<>> \/ (New(items) = <<>> /\ page > 1) THEN "judging" ELSE "paging"
  /\ page' = page + 1
  /\ requests' = requests + 1
  /\ UNCHANGED <<config, run, audit, exit, stored, advertised, shown, details,
                 fetching, world, earlier, faulty>>

StopPaging ==
  /\ pc = "paging"
  /\ Reached \/ ~MorePages
  /\ pc' = "judging"
  /\ UNCHANGED <<config, run, audit, exit, stored, work, earlier, faulty>>

\* A request fails, or a page cannot be parsed: every exception is caught.
FetchFails ==
  /\ pc \in {"first", "paging"}
  /\ Fail("FAILED")
  /\ UNCHANGED <<config, audit, exit, stored, work, earlier, faulty>>

(***************************************************************************)
(* The gates of run_listing.                                               *)
(***************************************************************************)
\* Mutant: cards are counted, not distinct candidates.
CardsReconcile == cards = advertised

Reconciles == Len(found) = advertised

Suspicious == shown >= 4 /\ cards * 2 < shown

Verdict ==
  IF advertised = None THEN Zero(cards)
  ELSE IF ~Reconciles THEN Zero(Len(found))
  ELSE IF Suspicious THEN "FAILED"
  ELSE IF found = <<>> THEN "SUSPICIOUS_ZERO" ELSE "RUNNING"

Judge ==
  /\ pc = "judging"
  /\ IF Verdict = "RUNNING"
     THEN pc' = "building" /\ UNCHANGED run
     ELSE Fail(Verdict)
  /\ UNCHANGED <<config, audit, exit, stored, work, earlier, faulty>>

(***************************************************************************)
(* One record per candidate: listing_job, then an optional detail.         *)
(***************************************************************************)
Enriched == Len(built) < Limit

\* "fallback": the request, the parser, or the match of the detail with the
\* listing record fails; "listing": the detail is not tried.
BuildRecord ==
  /\ pc = "building"
  /\ Len(built) < Len(found)
  /\ \/ Enriched /\ built' = Append(built, "detail")
     \/ Enriched /\ built' = Append(built, "fallback")
     \/ ~Enriched /\ built' = Append(built, "listing")
  /\ requests' = IF Enriched THEN requests + 1 ELSE requests
  /\ UNCHANGED <<config, pc, run, audit, exit, stored, traversal, eligible, fetching,
                 world, earlier, faulty>>

\* The card itself lacks a title, or a requisition is not a number; or two
\* records turn out to be one.
EvidenceFails ==
  /\ pc = "building"
  /\ Fail("FAILED")
  /\ UNCHANGED <<config, audit, exit, stored, work, earlier, faulty>>

Commit ==
  /\ pc = "building"
  /\ Len(built) = Len(found)
  /\ pc' = "committing"
  /\ UNCHANGED <<config, run, audit, exit, stored, work, earlier, faulty>>

\* Details are parsed under handlers that do not name every exception.
Raises == pc = "building"

\* Mutant: what the listing dropped stays current.
Unite == Persist(FALSE)

Replace == Persist(TRUE)

Next ==
  \/ Start
  \/ FetchBase \/ FetchPage \/ StopPaging \/ FetchFails
  \/ Judge
  \/ BuildRecord \/ EvidenceFails
  \/ Commit \/ Replace \/ PersistFails
=================================================================================

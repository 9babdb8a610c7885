----------------------------- MODULE EventsListing -----------------------------
(***************************************************************************)
(* The ANU events collector (sources/events): as many pages as the first   *)
(* one links to, one record per event card, optionally enriched by the     *)
(* detail page, a coverage gate on the events inside the window, and a     *)
(* replacement of the whole stored population.                             *)
(***************************************************************************)
EXTENDS Collection

Start == SaveRunning("first") \/ RunningRefused("reporting")

\* The highest page its pager links to; a listing of one page has no pager.
LastPage(items) == IF items = <<>> THEN 0 ELSE (Len(items) - 1) \div PageSize

FetchFirst ==
  /\ pc = "first"
  /\ Answers
  /\ pc' = "paging"
  /\ advertised' = LastPage(site)
  /\ cards' = Len(Page(site, 0))
  /\ found' = New(Page(site, 0))
  /\ requests' = 1
  /\ UNCHANGED <<config, run, audit, exit, stored, page, shown, details, fetching,
                 world, earlier, faulty>>

MorePages == page < (IF advertised + 1 < MaxPages THEN advertised + 1 ELSE MaxPages)

\* Page k shows what the site lists there now; its own pager is not read.
FetchPage ==
  /\ pc = "paging"
  /\ MorePages
  /\ cards' = cards + Len(Page(site, page))
  /\ found' = found \o New(Page(site, page))
  /\ page' = page + 1
  /\ requests' = requests + 1
  /\ UNCHANGED <<config, pc, run, audit, exit, stored, advertised, shown, details,
                 fetching, world, earlier, faulty>>

StopPaging ==
  /\ pc = "paging"
  /\ ~MorePages
  /\ pc' = "judging"
  /\ UNCHANGED <<config, run, audit, exit, stored, work, earlier, faulty>>

\* A FetchError, or a page that is empty HTML.
FetchFails ==
  /\ pc \in {"first", "paging"}
  /\ Fail("FAILED")
  /\ UNCHANGED <<config, audit, exit, stored, work, earlier, faulty>>

\* Mutant: pages beyond the hard cap are not missed.
CappedIsComplete == TRUE

Complete == page = advertised + 1

Verdict ==
  IF ~Complete THEN "FAILED"
  ELSE IF found = <<>> THEN "SUSPICIOUS_ZERO" ELSE "RUNNING"

Judge ==
  /\ pc = "judging"
  /\ IF Verdict = "RUNNING"
     THEN pc' = "building" /\ UNCHANGED run
     ELSE Fail(Verdict)
  /\ UNCHANGED <<config, audit, exit, stored, work, earlier, faulty>>

Enriched == Len(built) < Limit

\* listing_event, enrich and _in_window: an event outside the window is kept
\* too, but does not count for the coverage.
BuildRecord ==
  /\ pc = "building"
  /\ Len(built) < Len(found)
  /\ built' \in {Append(built, t) :
                   t \in IF Enriched THEN {"detail", "fallback"} ELSE {"listing"}}
  /\ eligible' \in {eligible, eligible + 1}
  /\ requests' = IF Enriched THEN requests + 1 ELSE requests
  /\ UNCHANGED <<config, pc, run, audit, exit, stored, traversal, fetching, world,
                 earlier, faulty>>

\* A card without title or with dates that are none.
EvidenceFails ==
  /\ pc = "building"
  /\ Len(built) < Len(found)
  /\ Fail("FAILED")
  /\ UNCHANGED <<config, audit, exit, stored, work, earlier, faulty>>

\* Two details carry the same source_event_id.
DuplicateAlias ==
  /\ pc = "building"
  /\ Len(built) = Len(found)
  /\ Cardinality({k \in DOMAIN built : built[k] = "detail"}) > 1
  /\ Fail("FAILED")
  /\ UNCHANGED <<config, audit, exit, stored, work, earlier, faulty>>

Commit ==
  /\ pc = "building"
  /\ Len(built) = Len(found)
  /\ IF eligible = 0 THEN Fail("SUSPICIOUS_ZERO")
     ELSE IF BelowMinimum THEN Fail("FAILED")
     ELSE pc' = "committing" /\ UNCHANGED run
  /\ UNCHANGED <<config, audit, exit, stored, work, earlier, faulty>>

\* Neither the traversal nor the details catch every exception.
Raises == pc \in {"first", "paging", "building"}

Replace == Persist(TRUE)

Next ==
  \/ Start
  \/ FetchFirst \/ FetchPage \/ StopPaging \/ FetchFails
  \/ Judge
  \/ BuildRecord \/ EvidenceFails \/ DuplicateAlias
  \/ Commit \/ Replace \/ PersistFails
=================================================================================

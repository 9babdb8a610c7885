-------------------------- MODULE ScholarshipsListing --------------------------
(***************************************************************************)
(* The scholarships collector (sources/scholarships): finder pages up to   *)
(* the headline total, one detail per candidate within max_details, and    *)
(* one batch of all of them but those that moved to another host.          *)
(***************************************************************************)
EXTENDS Fetch

\* _persist_running.
Start == SaveRunning("first") \/ RunningRefused("reporting")

(***************************************************************************)
(* discover_full_listing.                                                  *)
(***************************************************************************)
Within(items) ==
  IF Len(items) <= Limit THEN items ELSE SubSeq(items, 1, Limit)

FetchFirst ==
  LET first == Page(site, 0) IN
  /\ pc = "first"
  /\ Answers
  /\ pc' = "paging"
  /\ advertised' \in {Len(site), None}     \* None: no headline
  /\ cards' = Len(first)
  /\ found' = Within(New(first))
  /\ requests' = 1
  /\ UNCHANGED <<config, run, audit, exit, stored, page, shown, details, fetching,
                 world, earlier, faulty>>

Reached == IF advertised = None THEN FALSE ELSE cards >= advertised

\* A card that was seen before, or is none of the source's own scholarships,
\* counts for the census.
FetchPage ==
  LET items == Page(site, page) IN
  /\ pc = "paging"
  /\ page < MaxPages
  /\ ~Reached
  /\ cards' = cards + Len(items)
  /\ found' = Within(found \o New(items))
  /\ pc' = IF items = <<>> THEN "judging" ELSE "paging"
  /\ page' = page + 1
  /\ requests' = requests + 1
  /\ UNCHANGED <<config, run, audit, exit, stored, advertised, shown, details,
                 fetching, world, earlier, faulty>>

StopPaging ==
  /\ pc = "paging"
  /\ Reached \/ page >= MaxPages
  /\ pc' = "judging"
  /\ UNCHANGED <<config, run, audit, exit, stored, work, earlier, faulty>>

ListingFails ==
  /\ pc \in {"first", "paging"}
  /\ Fail("FAILED")
  /\ UNCHANGED <<config, audit, exit, stored, work, earlier, faulty>>

(***************************************************************************)
(* run_listing.                                                            *)
(***************************************************************************)
\* Mutant: the headline is a lower bound.
CensusAtMost == MaxPages = 1 \/ (advertised # None /\ cards <= advertised)

\* A run of one page is a sample and is compared with nothing.
Census == MaxPages = 1 \/ (advertised # None /\ cards = advertised)

Verdict ==
  IF ~Census THEN Zero(cards)
  ELSE IF found = <<>> THEN "SUSPICIOUS_ZERO" ELSE "RUNNING"

Judge ==
  /\ pc = "judging"
  /\ IF Verdict = "RUNNING"
     THEN pc' = "building" /\ UNCHANGED run
     ELSE Fail(Verdict)
  /\ UNCHANGED <<config, audit, exit, stored, work, earlier, faulty>>

\* The scholarship is on another host now: it is left out, the run goes on.
SkipExternal ==
  /\ pc = "external"
  /\ pc' = "building"
  /\ built' = Append(built, "rejected")
  /\ UNCHANGED <<config, run, audit, exit, stored, traversal, eligible, fetching,
                 requests, world, earlier, faulty>>

\* The parser takes the address asked for as the canonical one; a page that
\* names its own must name the same.
Parse ==
  /\ pc = "parsing"
  /\ pc' = "building"
  /\ built' = Append(built, "detail")
  /\ eligible' = eligible + 1
  /\ UNCHANGED <<config, run, audit, exit, stored, traversal, fetching, requests,
                 world, earlier, faulty>>

DetailFails ==
  /\ pc \in {"failing", "parsing"}
  /\ Fail("FAILED")
  /\ UNCHANGED <<config, audit, exit, stored, work, earlier, faulty>>

Commit ==
  /\ pc = "building"
  /\ Len(built) = Len(found)
  /\ IF eligible = 0 THEN Fail("SUSPICIOUS_ZERO") ELSE pc' = "committing" /\ UNCHANGED run
  /\ UNCHANGED <<config, audit, exit, stored, work, earlier, faulty>>

Extend == Persist(FALSE)

Next ==
  \/ Start
  \/ FetchFirst \/ FetchPage \/ StopPaging \/ ListingFails
  \/ Judge
  \/ Call \/ Body \/ GetFails \/ GetRedirect
  \/ SkipExternal \/ Parse \/ DetailFails
  \/ Commit \/ Extend \/ PersistFails
=================================================================================

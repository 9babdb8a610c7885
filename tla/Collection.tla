------------------------------- MODULE Collection -------------------------------
(***************************************************************************)
(* What the collectors of one execution share: the public listing they     *)
(* page through, the RUNNING row and the other endings of an ingestion     *)
(* run, and the one batch that replaces or extends the stored records.     *)
(* The store is the atomic one of AtomicListing.                           *)
(***************************************************************************)
EXTENDS Site

CONSTANTS
  Approved,   \* items whose link is inside the approved detail boundary
  External,   \* items on another host than the source's
  Programs,   \* Courses: the items of the program feed
  PageBase,   \* Jobs: the number of the page the listing URL itself shows
  Frozen,     \* frozen_entity_count, by source
  MaxRedirects, \* of one HTTP session
  SiteSize,   \* bound: items listed when an execution starts
  MaxChanges, \* bound: changes of the site during one traversal
  None

ASSUME ItemsAssumption ==
  Approved \subseteq Item /\ External \subseteq Item \ Approved /\ Programs \subseteq Item
ASSUME PageBaseAssumption == PageBase \in {0, 1}
ASSUME NoneAssumption == None \notin Nat
ASSUME MaxRedirectsAssumption == MaxRedirects \in Nat
ASSUME BoundAssumption == SiteSize \in Nat /\ MaxChanges \in Nat

VARIABLES
  config,     \* of this execution
  pc,
  run,        \* status of the IngestionRun in memory
  audit,      \* status of its durable row, or None
  exit,       \* code of the process, or None
  stored,     \* the stored records of the source
  site,
  page,       \* number of the next page
  advertised, \* what the source says of its own size, or None
  shown,      \* Jobs: advertised_page_count
  cards,      \* cards or rows seen, repetitions included
  found,      \* the candidates, in the order of discovery
  built,      \* what became of each of them
  eligible,   \* records inside the window
  requests,   \* of the collector that were answered
  attempt, hop, target,  \* of one fetch
  \* observation only
  earlier,    \* the stored records before this execution
  faulty,     \* the store did not answer a write, or a run row failed to be written
  steady, arrivals, departures

traversal == <<page, advertised, shown, cards, found>>
details == <<built, eligible>>
fetching == <<attempt, hop, target>>
world == <<site, steady, arrivals, departures>>
work == <<traversal, details, fetching, requests, world>>
vars == <<config, pc, run, audit, exit, stored, work, earlier, faulty>>

RunStatus == {"RUNNING", "SUCCESS", "FAILED", "SUSPICIOUS_ZERO"}
Text == {"listing", "detail"}
Outcome == {"listing", "detail", "fallback", "rejected"}
StoredRecord == [text : Text, missing : BOOLEAN]

ASSUME NoneIsNoValue == None \notin RunStatus \cup StoredRecord \cup {"valid"}

(***************************************************************************)
(* The ingestion run.                                                      *)
(***************************************************************************)
\* A store opened with dry_run writes nothing.
Durable(row) == IF config.dry THEN audit ELSE row

\* The RUNNING row; the site is whatever it has become.
SaveRunning(next) ==
  /\ pc = "starting"
  /\ pc' = next
  /\ run' = "RUNNING"
  /\ audit' = Durable("RUNNING")
  /\ site' \in Sites(SiteSize)
  /\ steady' = Shown(site')
  /\ UNCHANGED <<config, exit, stored, traversal, details, fetching, requests,
                 arrivals, departures, earlier, faulty>>

\* Its write fails, or its answer is lost: nothing is collected.
RunningRefused(next) ==
  /\ pc = "starting"
  /\ ~config.dry
  /\ pc' = next
  /\ run' = "FAILED"
  /\ audit' \in {None, "RUNNING"}
  /\ faulty' = TRUE
  /\ UNCHANGED <<config, exit, stored, work, earlier>>

\* Mutant: an early return that leaves the row as it is.
ReturnAtOnce(status) == pc' = "returned" /\ run' = status

\* fail(): the failure row is written next.
Fail(status) == pc' = "reporting" /\ run' = status

Zero(count) == IF count = 0 THEN "SUSPICIOUS_ZERO" ELSE "FAILED"

\* _save_failed_run swallows what the store raises.
Report ==
  /\ pc = "reporting"
  /\ pc' = "returned"
  /\ \/ audit' = Durable(run) /\ UNCHANGED faulty
     \/ ~config.dry /\ faulty' = TRUE /\ audit' \in {audit, run}
  /\ UNCHANGED <<config, run, exit, stored, work, earlier>>

(***************************************************************************)
(* The batch.                                                              *)
(***************************************************************************)
Accepted == {k \in DOMAIN built : built[k] # "rejected"}

Kept == {found[k] : k \in Accepted}

TextOf(item) ==
  LET k == CHOOSE k \in Accepted : found[k] = item
  IN IF built[k] = "detail" THEN "detail" ELSE "listing"

\* complete: save_complete_snapshot; otherwise save_records_and_run.
Batch(complete) ==
  [i \in Approved |->
     IF i \in Kept THEN [text |-> TextOf(i), missing |-> FALSE]
     ELSE IF complete /\ stored[i] # None THEN [stored[i] EXCEPT !.missing = TRUE]
     ELSE stored[i]]

\* One transaction; the answer to its COMMIT may be lost.
Persist(complete) ==
  /\ pc = "committing"
  /\ audit' = Durable("SUCCESS")
  /\ stored' = IF config.dry THEN stored ELSE Batch(complete)
  /\ \/ pc' = "returned" /\ run' = "SUCCESS" /\ UNCHANGED faulty
     \/ ~config.dry /\ Fail("FAILED") /\ faulty' = TRUE
  /\ UNCHANGED <<config, exit, work, earlier>>

PersistFails ==
  /\ pc = "committing"
  /\ Fail("FAILED")
  /\ UNCHANGED <<config, audit, exit, stored, work, earlier, faulty>>

(***************************************************************************)
(* The listing.                                                            *)
(***************************************************************************)
\* The site changes between two requests for pages.
SiteChanges ==
  /\ pc = "paging"
  /\ arrivals + departures < MaxChanges
  /\ \/ site' \in Arrivals(site) /\ arrivals' = arrivals + 1 /\ UNCHANGED departures
     \/ site' \in Departures(site) /\ departures' = departures + 1 /\ UNCHANGED arrivals
  /\ steady' = steady \cap Shown(site')
  /\ UNCHANGED <<config, pc, run, audit, exit, stored, traversal, details, fetching,
                 requests, earlier, faulty>>

\* The simulated fetcher of the failure drill raises on every request.
Answers == ~config.simulate

\* Approved candidates of a page that were not seen before.
New(items) == Filtered(items, Approved \ Shown(found))

Limit == config.details[config.source]

MaxPages == config.pages[config.source]

Candidate == found[Len(built) + 1]

\* ceil(expected * 0.99): the least count the coverage gate lets through.
Minimum == (99 * config.expected + 99) \div 100

BelowMinimum == IF config.expected = None THEN FALSE ELSE eligible < Minimum
=================================================================================

----------------------------- MODULE CoverageAudit -----------------------------
(***************************************************************************)
(* The two read-only commands: breadth.py, a census of the listings, and   *)
(* detail_coverage.py, which reads every detail the listings lead to,      *)
(* stops a class of pages after three failures in a row, and says whether  *)
(* the stored data could be replaced.  The catalogue is read as            *)
(* CatalogueCensus has it; of the other listings, whose traversals         *)
(* the collectors' modules have, only what they return is modelled.        *)
(***************************************************************************)
EXTENDS CatalogueCensus, FiniteSetsExt

CONSTANTS
  Selections,   \* command lines: [command, domains, limit]
  Details,      \* what the listing of another domain may lead to, in order
  DomainOf,     \* domain of each class
  IdentityOf,   \* the last part of an item's address
  Frozen        \* frozen denominators, by class

ASSUME DetailsAssumption ==
  \A d \in {"scholarships", "jobs", "accommodation", "support", "events"} :
    Details[d] \in Seq(Item)

VARIABLES
  selection, pc,
  domain,       \* number of the domain
  queue,        \* candidates
  whole,        \* breadth: every listing reconciled
  outcomes,     \* what became of the selected candidates, in order
  failures,     \* consecutive_fetch_failures, by class
  blocked,      \* classes
  paced,        \* last_fetch
  unpaced,      \* requests for details without an interval before them
  exit

audit == <<selection, pc, domain, queue, whole, outcomes, failures, blocked, paced,
           unpaced, exit>>
vars == <<census, audit>>

Domains == <<"courses", "scholarships", "jobs", "accommodation", "support", "events">>

Init ==
  /\ CensusInit
  /\ selection \in Selections
  /\ pc = "listing" /\ domain = 1
  /\ queue = <<>> /\ whole = TRUE /\ outcomes = <<>>
  /\ failures = [c \in Class |-> 0] /\ blocked = {}
  /\ paced = FALSE /\ unpaced = 0
  /\ exit = None

Exit(code) == pc' = "done" /\ exit' = code

(***************************************************************************)
(* discover_candidates and the reports of breadth.py.                      *)
(***************************************************************************)
Listing == pc = "listing" /\ domain <= Len(Domains)

Selected(d) == d \in selection.domains

NextDomain == domain' = domain + 1 /\ UNCHANGED <<pc, exit>>

SkipDomain ==
  /\ Listing
  /\ ~Selected(Domains[domain])
  /\ NextDomain
  /\ UNCHANGED <<census, selection, queue, whole, outcomes, failures, blocked, paced,
                 unpaced>>

ReadCatalogue ==
  /\ Listing
  /\ Selected("courses") /\ Domains[domain] = "courses"
  /\ CensusNext
  /\ UNCHANGED audit

Reconciled == unreconciled = {}

\* Breadth notes it and goes on; the audit of details stops.
JudgeCatalogue ==
  /\ Listing
  /\ Selected("courses") /\ Domains[domain] = "courses"
  /\ stage = "complete"
  /\ IF selection.command = "breadth" THEN whole' = (whole /\ Reconciled) ELSE UNCHANGED whole
  /\ IF selection.command = "coverage" /\ ~Reconciled
     THEN Exit(1) /\ UNCHANGED <<domain, queue>>
     ELSE queue' = queue \o found /\ NextDomain
  /\ UNCHANGED <<census, selection, outcomes, failures, blocked, paced, unpaced>>

\* The totals a listing has to agree with.  Breadth does not mind a zero.
Agrees(d, approved, rejected, advertised) ==
  CASE d = "scholarships" -> advertised = approved + rejected
    [] d \in {"jobs", "accommodation"} -> advertised = approved
    [] OTHER -> TRUE

Plausible(d, approved, rejected, complete) ==
  CASE d = "scholarships" -> approved + rejected > 0
    [] d = "jobs" -> approved > 0
    [] d = "accommodation" -> approved = Frozen["residence"]
    [] d = "support" -> approved = Frozen["support_service"]
    [] d = "events" -> complete /\ approved > 0

\* What a traversal returned: the candidates inside the boundary, how many
\* were not, what the source advertised, and whether the cap cut it off.
ReadListing ==
  /\ Listing
  /\ LET d == Domains[domain] IN
     /\ d # "courses" /\ Selected(d)
     /\ \E n \in 0..Len(Details[d]), rejected \in {0, 1}, complete \in BOOLEAN,
           advertised \in (0..Len(Details[d]) + 1) \cup {None} :
          IF selection.command = "breadth"
          THEN /\ whole' = (whole /\ Agrees(d, n, rejected, advertised))
               /\ NextDomain
               /\ UNCHANGED queue
          ELSE /\ UNCHANGED whole
               /\ IF Agrees(d, n, rejected, advertised) /\ Plausible(d, n, rejected, complete)
                  THEN queue' = queue \o SubSeq(Details[d], 1, n) /\ NextDomain
                  ELSE Exit(1) /\ UNCHANGED <<domain, queue>>
  /\ UNCHANGED <<census, selection, outcomes, failures, blocked, paced, unpaced>>

\* Every exception ends the command: status FAILED.
Raises ==
  /\ pc \in {"listing", "details"}
  /\ Exit(1)
  /\ UNCHANGED <<census, selection, domain, queue, whole, outcomes, failures, blocked,
                 paced, unpaced>>

Listed ==
  /\ pc = "listing"
  /\ domain > Len(Domains)
  /\ IF selection.command = "breadth"
     THEN Exit(IF whole THEN 0 ELSE 1)
     ELSE pc' = "details" /\ UNCHANGED exit
  /\ UNCHANGED <<census, selection, domain, queue, whole, outcomes, failures, blocked,
                 paced, unpaced>>

(***************************************************************************)
(* _limit_by_class and DetailCoverageAuditor.audit.                        *)
(***************************************************************************)
Rank(k) == Cardinality({j \in 1..k : ClassOf[queue[j]] = ClassOf[queue[k]]})

Chosen ==
  IF selection.limit = None THEN DOMAIN queue
  ELSE {k \in DOMAIN queue : Rank(k) <= selection.limit}

\* outcomes has one entry per candidate, "unselected" beyond the limit.
Position == Len(outcomes) + 1

ThisClass == ClassOf[queue[Position]]

Seen ==
  \E j \in DOMAIN outcomes :
    /\ outcomes[j] \notin {"unselected", "skipped"}
    /\ ClassOf[queue[j]] = ThisClass
    /\ IdentityOf[queue[j]] = IdentityOf[queue[Position]]

Visiting == pc = "details" /\ Position \in DOMAIN queue

Pass ==
  /\ Visiting
  /\ \/ Position \notin Chosen /\ outcomes' = Append(outcomes, "unselected")
     \/ /\ Position \in Chosen /\ ThisClass \in blocked
        /\ outcomes' = Append(outcomes, "skipped")
     \/ /\ Position \in Chosen /\ ThisClass \notin blocked /\ Seen
        /\ outcomes' = Append(outcomes, "duplicate")
  /\ UNCHANGED <<census, selection, pc, domain, queue, whole, failures, blocked, paced,
                 unpaced, exit>>

Due == Visiting /\ Position \in Chosen /\ ThisClass \notin blocked /\ ~Seen

\* _validate_candidate: not the canonical address of a detail.
Refuse ==
  /\ Due
  /\ outcomes' = Append(outcomes, "refused")
  /\ UNCHANGED <<census, selection, pc, domain, queue, whole, failures, blocked, paced,
                 unpaced, exit>>

\* Mutant: nothing is remembered of the pages read.
NeverSpaced == unpaced' = unpaced + 1

\* The interval is kept only after a page was read.
Request == unpaced' = IF paced THEN unpaced ELSE unpaced + 1

\* Mutant: the failures of a class are never too many.
NeverTooMany(n) == FALSE

TooMany(n) == n >= 3

FetchFails ==
  /\ Due
  /\ Request
  /\ outcomes' = Append(outcomes, "unfetched")
  /\ failures' = [failures EXCEPT ![ThisClass] = @ + 1]
  /\ blocked' = blocked \cup (IF TooMany(failures'[ThisClass]) THEN {ThisClass} ELSE {})
  /\ UNCHANGED <<census, selection, pc, domain, queue, whole, paced, exit>>

\* _extract and the counting of fields, for pages of one fact each: "captured",
\* it is in the record; "missed", it is not; "malformed": the parser raises;
\* "mismatch": the page names another canonical address; "outside": an event
\* beyond the window, or without the dates to tell.
Read ==
  /\ Due
  /\ Request
  /\ paced' = TRUE
  /\ failures' = [failures EXCEPT ![ThisClass] = 0]
  /\ \E result \in {"captured", "missed", "malformed", "mismatch"}
                     \cup (IF ThisClass = "event" THEN {"outside"} ELSE {}) :
       outcomes' = Append(outcomes, result)
  /\ UNCHANGED <<census, selection, pc, domain, queue, whole, blocked, exit>>

(***************************************************************************)
(* _health_classifications and main.                                       *)
(***************************************************************************)
Pages(d, results) ==
  Cardinality({k \in DOMAIN outcomes :
                 DomainOf[ClassOf[queue[k]]] = d /\ outcomes[k] \in results})

\* A percentage rounded to two places is below 99.
Below99(part, all) == all = 0 \/ 20000 * part < 19799 * all

\* What the listing said of itself, or the sum of what was frozen.
Denominator(d) ==
  IF d \in {"scholarships", "jobs"}
  THEN Cardinality({k \in DOMAIN queue : DomainOf[ClassOf[queue[k]]] = d})
  ELSE MapThenSumSet(LAMBDA c : Frozen[c], {c \in DOMAIN Frozen : DomainOf[c] = d})

\* Mutant: pages that could not be fetched are not held against the domain.
NoShortfall(d) == FALSE

Shortfall(d) == Pages(d, {"unfetched", "refused", "skipped"}) > 0

Defective(d) == Pages(d, {"refused", "malformed", "mismatch"}) > 0

Thin(d) ==
  \/ Below99(Pages(d, {"captured", "missed"}), Denominator(d))
  \/ Below99(Pages(d, {"captured"}), Pages(d, {"captured", "missed", "malformed"}))

Health(d) ==
  IF Shortfall(d) /\ ~Defective(d) THEN "FALLBACK_LAST_KNOWN_GOOD"
  ELSE IF Shortfall(d) \/ Defective(d) \/ Thin(d) THEN "BLOCKED" ELSE "GREEN"

\* The domains that have a report: those with a candidate.
Reported == {DomainOf[ClassOf[queue[k]]] : k \in Chosen}

Finish ==
  /\ pc = "details"
  /\ Len(outcomes) = Len(queue)
  /\ Exit(IF \A d \in Reported : Health(d) = "GREEN" THEN 0 ELSE 1)
  /\ UNCHANGED <<census, selection, domain, queue, whole, outcomes, failures, blocked,
                 paced, unpaced>>

Next ==
  \/ SkipDomain \/ ReadCatalogue \/ JudgeCatalogue \/ ReadListing \/ Raises \/ Listed
  \/ Pass \/ Refuse \/ FetchFails \/ Read \/ Finish

Spec == Init /\ [][Next]_vars

TypeOK ==
  /\ stage \in {"opening", "paging", "closing", "complete", "raised"}
  /\ feed \in DOMAIN Feeds /\ unreconciled \subseteq DOMAIN Feeds
  /\ index \in 0..MaxFeedPages /\ rows \in Nat /\ total \in Nat \cup {None}
  /\ ids \subseteq Item /\ repeated \in BOOLEAN
  /\ found \in Seq(Item) /\ site \in Seq(Item)
  /\ steady \subseteq Item /\ settled \subseteq Item
  /\ arrivals \in 0..MaxChanges /\ changes \in 0..MaxChanges
  /\ selection \in Selections
  /\ pc \in {"listing", "details", "done"} /\ domain \in 1..Len(Domains) + 1
  /\ queue \in Seq(Item) /\ Len(outcomes) <= Len(queue)
  /\ failures \in [Class -> 0..3]
  /\ blocked = {c \in Class : failures[c] = 3}
  /\ paced \in BOOLEAN /\ unpaced \in Nat
  /\ exit \in {None, 0, 1}

(***************************************************************************)
(* Properties.                                                             *)
(***************************************************************************)
\* An audit of the catalogue that exits with 0 has read, or refused as the
\* duplicate of one that it read, every course and program its primary feeds
\* listed throughout, but for as many as arrived meanwhile; and whatever the
\* frozen denominators say, it has read every candidate it had.
GreenMeansRead ==
  selection.command = "coverage" /\ exit = 0 /\ selection.limit = None =>
    LET read == {IdentityOf[queue[k]] :
                   k \in {j \in DOMAIN outcomes : outcomes[j] \in {"captured", "missed", "outside"}}}
    IN /\ \A k \in DOMAIN queue : IdentityOf[queue[k]] \in read
       /\ Cardinality({i \in settled : IdentityOf[i] \notin read}) <= arrivals

\* Requests that fail before any page was read are not spaced; that there are
\* never more than three of them per class depends on the class being stopped.
UnpacedBounded == unpaced <= 3 * Cardinality({ClassOf[queue[k]] : k \in DOMAIN queue})
=================================================================================

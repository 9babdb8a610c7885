----------------------------------- MODULE Job -----------------------------------
(***************************************************************************)
(* One execution of the job (job.py): the configuration, the gates before  *)
(* anything is fetched or written, the collector of the selected source,   *)
(* and the exit code.                                                      *)
(***************************************************************************)
EXTENDS Collection

CONSTANTS
  Inputs,     \* command lines and environments: raw configurations
  Before      \* sets of items stored before

Official == INSTANCE EventsListing
Rubric == INSTANCE RubricListing
Jobs == INSTANCE JobsListing
Scholarships == INSTANCE ScholarshipsListing
Accommodation == INSTANCE AccommodationListing
Support == INSTANCE SupportListing
Catalogue == INSTANCE CoursesSample

(***************************************************************************)
(* The registry.                                                           *)
(***************************************************************************)
Registry == {"courses", "scholarships", "jobs", "accommodation", "support", "events", "rubric"}

\* Rubric's events are of the same domain as those of the university.
DomainOf(source) == IF source = "rubric" THEN "events" ELSE source

\* The sources whose stored population is replaced as a whole.
CompleteSources == {"jobs", "events"}

(***************************************************************************)
(* load_config.  Every limit is checked whatever the source.               *)
(***************************************************************************)
MaxOfPages == [s \in {"scholarships", "jobs", "events", "rubric"} |-> 100]

MaxOfDetails ==
  [s \in Registry \ {"courses"} |->
     CASE s = "accommodation" -> 19
       [] s = "support" -> 6
       [] OTHER -> 2000]

CoursesLoad(c) ==
  /\ c.year = "valid"
  /\ c.courses + c.programs <= 4

Loads(c) ==
  /\ IF c.source = "courses" THEN CoursesLoad(c)
     ELSE c.year \in {None, "valid"} /\ c.code = None
  /\ c.code \in {None, "valid"}
  /\ c.courses \in 1..4 /\ c.programs \in 1..4
  /\ \A s \in DOMAIN MaxOfPages : c.pages[s] \in 1..MaxOfPages[s]
  /\ \A s \in DOMAIN MaxOfDetails : c.details[s] \in 1..MaxOfDetails[s]
  /\ c.window \in 1..366
  /\ c.expected \in (1..2000) \cup {None}
  /\ c.timeout \in 1..300
  /\ c.interval \in 1..60
  /\ c.backend \in {"local", "postgres"}

(***************************************************************************)
(* execute_job.                                                            *)
(***************************************************************************)
\* Mutant: one approval is as good as another.
AnyApproval(c) ==
  /\ c.source \in Registry
  /\ c.domain = DomainOf(c.source)
  /\ c.backend = "postgres" /\ c.source # "courses" => c.approved # {}

\* Registered, of its own domain, and approved for the database it writes to.
Allowed(c) ==
  /\ c.source \in Registry
  /\ c.domain = DomainOf(c.source)
  /\ c.backend = "postgres" /\ c.source # "courses" => c.source \in c.approved
  /\ c.source = "rubric" => c.endpoint # None

Init ==
  /\ config \in Inputs
  /\ pc = "config"
  /\ run = None /\ audit = None /\ exit = None
  /\ \E known \in Before :
       stored = [i \in Approved |->
                   IF i \in known THEN [text |-> "detail", missing |-> FALSE] ELSE None]
  /\ earlier = stored
  /\ faulty = FALSE
  /\ site = <<>> /\ steady = {} /\ arrivals = 0 /\ departures = 0
  /\ page = IF config.source = "rubric" THEN 0 ELSE 1
  /\ advertised = None /\ shown = 0 /\ cards = 0 /\ found = <<>>
  /\ built = <<>> /\ eligible = 0
  /\ requests = 0 /\ attempt = 1 /\ hop = 0 /\ target = None

Configure ==
  /\ pc = "config"
  /\ IF Loads(config) /\ Allowed(config)
     THEN pc' = "opening" /\ UNCHANGED exit
     ELSE pc' = "done" /\ exit' = 2
  /\ UNCHANGED <<config, run, audit, stored, work, earlier, faulty>>

\* The fetcher, the store and the collector are made.
Open ==
  /\ pc = "opening"
  /\ config.source = "rubric" => config.endpoint = "reviewed"
  /\ pc' = "starting"
  /\ UNCHANGED <<config, run, audit, exit, stored, work, earlier, faulty>>

\* No database settings, no directory to write to, or a search endpoint
\* outside the boundary: an unexpected failure, without a row.
OpenFails ==
  /\ pc = "opening"
  /\ pc' = "done"
  /\ exit' = 1
  /\ UNCHANGED <<config, run, audit, stored, work, earlier, faulty>>

Collect ==
  \/ config.source = "courses" /\ Catalogue!Next
  \/ config.source = "scholarships" /\ Scholarships!Next
  \/ config.source = "jobs" /\ Jobs!Next
  \/ config.source = "accommodation" /\ Accommodation!Next
  \/ config.source = "support" /\ Support!Next
  \/ config.source = "events" /\ Official!Next
  \/ config.source = "rubric" /\ Rubric!Next

Raises ==
  CASE config.source = "jobs" -> Jobs!Raises
    [] config.source = "events" -> Official!Raises
    [] config.source = "rubric" -> Rubric!Raises
    [] config.source = "accommodation" -> Accommodation!Raises
    [] config.source = "support" -> Support!Raises
    [] config.source = "courses" -> Catalogue!Raises
    [] OTHER -> FALSE

\* An exception no handler names ends the process: "Unexpected job failure".
Escape ==
  /\ Answers
  /\ Raises
  /\ pc' = "done"
  /\ exit' = 1
  /\ UNCHANGED <<config, run, audit, stored, work, earlier, faulty>>

\* Mutant: every run that returned is a success.
ExitZero(status) == 0

\* EXIT_SUCCESS or EXIT_INGESTION_FAILURE.
ExitCode(status) == IF status = "SUCCESS" THEN 0 ELSE 1

\* _summary_from_run.
Summarise ==
  /\ pc = "returned"
  /\ pc' = "done"
  /\ exit' = ExitCode(run)
  /\ UNCHANGED <<config, run, audit, stored, work, earlier, faulty>>

\* The container is stopped.
Kill ==
  /\ pc \notin {"config", "done", "killed"}
  /\ pc' = "killed"
  /\ UNCHANGED <<config, run, audit, exit, stored, work, earlier, faulty>>

Progress == Configure \/ Open \/ OpenFails \/ Collect \/ Report \/ Escape \/ Summarise

Environment ==
  \/ config.source \in {"jobs", "events", "rubric", "scholarships"} /\ SiteChanges
  \/ Kill

Next == Progress \/ Environment

\* A process that is not killed goes on.
Spec == Init /\ [][Next]_vars /\ WF_vars(Progress)

TypeOK ==
  /\ config \in Inputs
  /\ pc \in {"config", "opening", "starting", "first", "single", "paging", "judging",
             "building", "getting", "parsing", "external", "failing", "committing",
             "reporting", "returned", "done", "killed"}
  /\ run \in RunStatus \cup {None} /\ audit \in RunStatus \cup {None}
  /\ exit \in {None, 0, 1, 2}
  /\ stored \in [Approved -> StoredRecord \cup {None}]
  /\ earlier \in [Approved -> StoredRecord \cup {None}]
  /\ faulty \in BOOLEAN
  /\ site \in Seq(Item) /\ steady \subseteq Item
  /\ arrivals \in 0..MaxChanges /\ departures \in 0..MaxChanges
  /\ page \in 0..100
  /\ advertised \in Nat \cup {None}
  /\ shown \in Nat /\ cards \in Nat
  /\ found \in Seq(Approved)
  /\ built \in Seq(Outcome) /\ Len(built) <= Len(found)
  /\ eligible \in 0..Len(built)
  /\ requests \in Nat
  /\ attempt \in 1..3 /\ hop \in 0..MaxRedirects
  /\ target \in Approved \cup {None}

(***************************************************************************)
(* Complete listings.                                                      *)
(***************************************************************************)
Published == run = "SUCCESS" /\ ~config.dry

Current == {i \in Approved : IF stored[i] = None THEN FALSE ELSE ~stored[i].missing}

\* Jobs: a listing that changed while it was traversed is published with at
\* most one job missing for each job that arrived meanwhile; one that did not
\* change, or only lost jobs, is published whole.
MissesAtMostArrivals ==
  config.source = "jobs" /\ Published =>
    Cardinality((steady \cap Approved) \ Current) <= arrivals

\* ANU events: no total is compared, so an event shifted across a page
\* boundary by an arrival or a departure can be missed, but no more than that.
EventsMissesAtMostChanges ==
  config.source = "events" /\ Published =>
    Cardinality((steady \cap Approved) \ Current) <= arrivals + departures

\* Jobs and ANU events: after a success the current records are exactly what
\* the traversal found: what the source dropped is marked missing in the same
\* step, and nothing else is.
PopulationIsListing ==
  config.source \in CompleteSources /\ Published => Current = Shown(found)

\* No execution asks for more pages and details than its configuration allows.
RequestsBounded ==
  requests # 0 =>
  requests <= CASE config.source = "courses" -> 2 + config.courses + config.programs
                [] config.source \in {"accommodation", "support"} -> 1 + Limit
                [] OTHER -> MaxPages + Limit

(***************************************************************************)
(* Bounded collections.                                                    *)
(***************************************************************************)
\* Rubric: the search total is the same on every page, so an event can only be
\* missed if one arrived and one departed between two requests.
RubricMissesAtMostSwaps ==
  config.source = "rubric" /\ Published =>
    LET missed == (steady \cap Approved) \ Shown(found)
    IN Cardinality(missed) <= arrivals /\ Cardinality(missed) <= departures

\* Scholarships: a traversal of several pages that passes the census missed at
\* most one scholarship for each that arrived, unless max_details cut it off.
ScholarshipsMissesAtMostArrivals ==
  config.source = "scholarships" /\ Published /\ MaxPages > 1 /\ Len(found) < Limit =>
    Cardinality((steady \cap Approved) \ Shown(found)) <= arrivals

\* Residences, support categories and the course sample are stored from one
\* complete reading of the registry or not at all: a success stores a detail of
\* every one selected, as many as the frozen universe or the request asks for.
AllOrNothing ==
  Published =>
    CASE config.source \in {"accommodation", "support"} ->
           /\ cards = Frozen[config.source]
           /\ Len(built) = (IF Limit < cards THEN Limit ELSE cards)
           /\ \A k \in DOMAIN found : stored[found[k]] = [text |-> "detail", missing |-> FALSE]
      [] config.source = "courses" ->
           /\ Len(built) = (IF config.code = None THEN config.courses + config.programs ELSE 1)
           /\ \A k \in DOMAIN found : stored[found[k]] = [text |-> "detail", missing |-> FALSE]
      [] OTHER -> TRUE

\* A collection that is not of the whole population marks nothing missing.
BoundedNeverMarks ==
  config.source \notin CompleteSources =>
    \A i \in Approved : earlier[i] # None => stored[i] # None /\ ~stored[i].missing

\* Scholarships: every attempt starts at the address of its own candidate,
\* wherever the attempt before was redirected to, and every address tried is
\* inside the approved boundary.
AttemptsStartOver ==
  pc = "getting" => /\ hop = 0 => target = Candidate
                    /\ target \in Approved

(***************************************************************************)
(* The process.                                                            *)
(***************************************************************************)
\* The exit code tells what happened to the store: 0, the audit row says
\* SUCCESS and everything accepted is stored; 1, nothing was stored, also when
\* an unhandled exception ended the process, unless the store failed or
\* committed without an answer; 2, nothing was requested or written.
ExitTellsEffect ==
  pc = "done" =>
    CASE exit = 0 -> /\ run = "SUCCESS"
                     /\ IF config.dry THEN audit = None /\ stored = earlier
                        ELSE audit = "SUCCESS" /\ Kept \subseteq Current /\ Kept # {}
      [] exit = 1 -> faulty \/ (stored = earlier /\ audit # "SUCCESS")
      [] exit = 2 -> stored = earlier /\ audit = None /\ run = None /\ requests = 0

\* Nothing is written to the shared database for a source that was not itself
\* approved for it, whatever else was.
WritesAreApproved ==
  stored # earlier \/ audit # None =>
    /\ DomainOf(config.source) = config.domain
    /\ config.backend = "postgres" /\ config.source # "courses" =>
         config.source \in config.approved

\* What an execution leaves behind if it was not killed and every run row could
\* be written: after an ending that a collector handles, and none of those
\* returns a run that is RUNNING, a row with the status it returned; after an
\* exception that no handler names, the row that says RUNNING, exit code 1 and
\* the records as they were.
EndsReported ==
  /\ pc = "returned" => run \notin {None, "RUNNING"}
  /\ pc = "done" /\ ~faulty =>
       /\ run # "RUNNING" => audit = (IF config.dry \/ run = None THEN None ELSE run)
       /\ run = "RUNNING" => /\ exit = 1 /\ stored = earlier
                             /\ audit = (IF config.dry THEN None ELSE "RUNNING")

\* docs/DEPLOYMENT.md: the switch is a deterministic drill of a fetch failure,
\* after which the run should say FAILED (docs/DAY_7_CLOUD_INGESTION.md asks it
\* of the drill of courses).
DrillReported ==
  config.simulate /\ pc = "done" /\ ~faulty /\ audit # None => audit = "FAILED"

\* docs/DATA_SCHEMA.md: a failed detail preserves the last-known-good text of
\* its record.
FailedDetailKeepsText ==
  Published =>
    \A k \in DOMAIN built :
      built[k] = "fallback" /\ earlier[found[k]] # None =>
        stored[found[k]].text = earlier[found[k]].text

\* Every execution ends, or is killed: retries, redirects and pages run out.
EveryRunEnds == <>(pc \in {"done", "killed"})
=================================================================================

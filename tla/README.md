# Formal models of the AskANU scraper

TLA+ modules, TLC configurations and TLAPS proofs about `askanu-scraper`: a job
that is started by a scheduler, collects one source of the Australian National
University (jobs, events, scholarships, courses, accommodation, support), and
stores the records it observed for a retrieval service to index and serve.

Paths are relative to `src/askanu_scraper/` unless they start with `docs/`.

- [1. The system](#1-the-system)
- [2. Plan](#2-plan)
- [3. The modules](#3-the-modules)
- [4. What is checked](#4-what-is-checked)
- [5. What is proved](#5-what-is-proved)
- [6. What the models found](#6-what-the-models-found)
- [7. Not modelled](#7-not-modelled)

## 1. The system

One process runs one collection and exits. Its life:

```
job.main -> gates -> collector.run_listing
    save_run(RUNNING)
    discovery: listing pages       -> candidates
    details:   one page each       -> records
    preflight: counts, identities  -> FAILED | SUSPICIOUS_ZERO | SUCCESS
    save_complete_snapshot / save_records_and_run (records + SUCCESS run)
-> summary, exit code
```

Several processes may be alive at once: Cloud Scheduler starts a daily
execution, Cloud Run retries a failed one (`docs/DAY_8_SCHEDULED_FRESHNESS.md`),
people start them by hand. They meet only in the database, and there they also
meet the RAG indexer, a separate program that embeds `PENDING` rows.

### Components

| Component | State | Operations | What makes it correct |
|---|---|---|---|
| Records and planning (`common/models.py`, `common/snapshot.py`) | none: rows, statuses, hashes | hash comparison, `plan_snapshot` | a page keeps its identity under any id it was stored with; MISSING exactly when known and unobserved |
| PostgreSQL store (`common/postgres_storage.py`) | `source_records`, `ingestion_runs`, row locks, one advisory lock per source | `save_run`, `save_records_and_run`, `save_complete_snapshot` | a batch and its SUCCESS row are all or nothing, whatever overlaps, fails or dies |
| Local JSON store (`common/storage.py`) | a file per record and per run | the same protocol, with backups written back when a write raises | best-effort all or nothing; what it leaves after a kill is repaired by the next success |
| Run lifecycle (`sources/*/__init__.py`) | the `IngestionRun` object | RUNNING row, outcome, batch, failure handler, failure row | exit code, audit row and table agree |
| Jobs collector (`sources/jobs`, `sources/population.py`) | page, advertised total, candidates | pagination until the advertised total is reached, optional enrichment | a listing is published only if it reconciles; enrichment never decides the population |
| Events collector (`sources/events`) | pages, last advertised page, window | pagination up to the advertised last page, window and 99% gates | an incomplete traversal is never published |
| Rubric adapter (`sources/events/rubric_adapter.py`) | page, advertised total, transport attempts | paged search, one detail per event, three attempts per request | the total is the same on every page and reached; every detail is read or nothing is stored |
| Courses and programs (`sources/courses`) | feeds, totals, identities seen | one course, a sample of at most four, a census of all feeds | the sample is read whole before anything is written; a feed reconciles with its own total |
| Scholarships (`sources/scholarships`) | pages, cards, redirects | finder pages, one detail each, redirect validation | cards of several pages reconcile with the headline; a page of another scholarship is never taken for the one asked for |
| Accommodation, Support | one listing each | single-listing collection | frozen universe of 19 / 6 records |
| HTTP fetcher (`common/fetcher.py`) | session, attempt, hop | three attempts, redirect validation | bounded requests; no unvalidated redirect is followed |
| Job gates (`job.py`, `common/registry.py`) | configuration | approval, freeze and storage gates, dispatch, exit code | nothing is fetched or written before every gate has passed |
| Parsers, normalisation (`common/parser.py`, `common/normalizer.py`, `*/parser.py`) | none | HTML to record | pure functions |
| Audits (`detail_coverage.py`, `breadth.py`) | candidates, pages seen, classes stopped | census of the listings, traversal of every detail, health per domain | exit code 0 means that everything listed was read |
| Release evidence (`common/benchmark_evidence.py`, `common/v7_contract.py`) | none | validation of report files | pure functions |

### Interactions

Collectors call a fetcher and a store through small protocols and hold no state
between executions. A store is shared by executions of all sources; every
statement is keyed by `record_id`, `run_id` or `source_id`, so one source is
modelled and the others are independent of it. (One exception: the JSON store
parses *every* record file before it plans, so a torn file of another source
blocks it too.) Jobs and official Events call `save_complete_snapshot`, which
marks unobserved rows MISSING; every other collector calls
`save_records_and_run`, which touches only the rows it was given. The indexer
changes `index_status` and `embedding_version` of committed rows.

### What is hard here

Overlapping transactions that plan from what they read; a commit whose answer
is lost; a kill between two steps; a handler that runs after a failure of
unknown extent; ids that changed between releases; a source that changes while
its pages are read; a batch of file writes that fails in the middle, and whose
restore fails too. `PROJECT.json` lists these hazards with the line where each
bites and the properties that cover it.

## 2. Plan

The modules, in the order of importance in which they were written. All exist.

1. `Records` - rows, hash comparison, counters, `plan_snapshot`, as operators.
2. `AtomicListing` - the abstract specification: readers see one whole observed
   listing, replaced in one step together with the run's SUCCESS.
3. `PostgresStore` (extends `Records`, instantiates `AtomicListing`) - executions
   and transactions, statement by statement; `PostgresStoreProofs` (what holds in
   every state) and `PostgresStoreSteps` (what no step does) - theorems.
4. `LocalStore` (extends `Records`) - the JSON store with its nested restores;
   `LocalStoreProofs` - theorems.
5. `Site`, `Collection` - a listing that changes while it is read, and what the
   collectors of one execution share.
6. One module per collector, each extending `Collection`: `JobsListing`,
   `EventsListing`, `RubricListing`, `ScholarshipsListing` (with `Fetch`, the
   HTTP fetcher), `AccommodationListing`, `SupportListing`, `CoursesSample`.
7. `Job` - the command line, the gates, and the seven collectors composed;
   `SiteProofs` (lemmas about changing listings), `JobSteps` (the kinds of steps
   the collectors take), `JobProofs` and `JobCounts` - theorems.
8. `CatalogueCensus`, `CoverageAudit` - the two read-only commands; `AuditProofs`
   - theorems.
9. `MCPostgres`, `MCLocal`, `MCJob`, `MCAudit` - finite instances.

Every invariant and every action property of the passing runs is now a theorem
(section 5). What is still worth doing:

- a refinement between the two levels at which a batch is modelled: that the
  atomic `Persist` of `Collection` is what one execution of `PostgresStore` does
  between `collecting` and its end;
- a promise for `LocalStore` in the form of `AtomicListing`, with the states in
  which a kill may leave it named in the abstract specification;
- a bound on what overlapping complete snapshots can lose (`stale_snapshot`): the
  observation that is published is never older than the one before it by more
  than the executions that overlap.

## 3. The modules

### Records

`Table` maps a `record_id` to a row or `NoRow`. A row keeps what the properties
tell apart: canonical URL, content, status, index status, the content its
embedding was computed from, and which execution's clock `collected_at` and
`last_seen_at` were read from. Content is the hashed text and nothing else:
`models.py` recomputes the SHA-256 of `content`, the stores compare that hash,
and `docs/DATA_SCHEMA.md` (129-131) defines CHANGED and UNCHANGED by it. Title,
dates and metadata are not in the model; "the listing" in `SnapshotExact`, in
`AtomicListing` and in the other properties of the stores means URLs and texts. `Saved`, `Counted`, `Reconciled`, `Unobserved`
are the comparison and planning code. `IdOf` is the id today's listing derives
from a URL (its path slug); `LegacyId` are ids which rows of earlier releases
carry instead (numeric requisition and node ids); `SeedTables` are the tables an
earlier release may have left.

### PostgresStore

An execution `r` is a process with a program counter:

| `pc[r]` | Code | Actions |
|---|---|---|
| `idle` | before `save_run(RUNNING)` | `SaveRunning`, `RunningRefused` |
| `collecting` | discovery, details, preflight | `Collected`, `CollectionFails` |
| `open` | `save_records_and_run` up to the first statement | `OpenBatch` |
| `lock` | `pg_advisory_xact_lock` | `AcquireAdvisory` |
| `plan` | `SELECT ... FOR UPDATE`, `plan_snapshot` | `PlanSnapshot`, `PlanRefused` |
| `select` | `SELECT ... FOR UPDATE` of one record | `SelectRecord` |
| `write` | `INSERT` / touch / full `UPDATE` | `WriteRecord`, `UniqueViolation` |
| `finish` | the MISSING updates | `MarkMissing` |
| `commit` | run row upsert and `COMMIT` | `Commit`, `CommitAnswerLost` |
| `reporting` | `_save_failed_run` | `SaveFailedRun`, `FailedRunLost` |
| `done`, `crashed` | process ended | |

`StatementFails` and `Crash` are possible at every step of the batch, and
`DeadlockVictim` whenever a waiting cycle closes. `mem` is the in-memory
`IngestionRun`, whose counters change as the code changes them - also on the
failure path, where the handler resets three of five. The database
(`rows`, `runs`, `rowLock`, `advisory`, `draft`) is PostgreSQL at READ
COMMITTED, modelled from how the store uses it: uncommitted versions are in
`draft`, a row lock lasts until the transaction ends, an `INSERT` waits for an
uncommitted `INSERT` of the same key and then violates it. `Index` is the
indexer. How discovery and details produce a batch is one action here
(`Collected` picks any non-empty listing with distinct ids); it is the subject
of the collectors' modules.

`Complete` selects `save_complete_snapshot` or `save_records_and_run`;
`Overlap`, `AckLoss` and `Verdict` switch parts of the environment on.

### LocalStore

One execution at a time (development command line). Each file write is a step;
a write that raises, or a kill, may leave the file `Torn`, because `open("w")`
truncates first. The two exception handlers are the states `inner`
(`save_records_and_run` writes back the listed records and the run file) and
`outer` (`save_complete_snapshot` writes back those and the records it marked);
an exception inside `inner` continues in `outer`, one inside `outer` in the
collector's handler. Torn files are refused by the next plan until somebody
removes them (`Remove`). A bounded batch (`Complete = FALSE`) plans from no other
file and meets a torn one only when it reads it to update it: its handler then
runs before any write has raised, which `FirstFaultUndone` excepts by name.

### Site and Collection

`Site` is a paginated public listing: a sequence of items, `PageSize` to a page,
to which items are added and from which items are removed while it is read.
`Collection` declares the variables of one execution and what every collector
does with them:

| Definition | Code |
|---|---|
| `SaveRunning`, `RunningRefused` | `save_run(RUNNING)` and the return when it raises; two endings, because some collectors try to leave a FAILED row and others return at once |
| `Fail`, `Zero` | the local `fail()` of each `run_listing` |
| `Report` | `_save_failed_run`, which swallows what the store raises |
| `Persist`, `PersistFails` | `save_complete_snapshot` or `save_records_and_run`, and the handler around it |
| `SiteChanges` | the site between two requests for pages (external) |

The store is atomic here: `PostgresStore` is the module that shows the atomic
step to be what the transactions implement. A batch commits with its answer,
commits without one, or fails. An item is what a card or row leads to; an
`Approved` one has a link inside the boundary of its source, an `External` one
leads to another host, the others are refused. A record is where its text came
from (the listing or the detail) and whether it is marked missing. `steady`,
`arrivals`, `departures`, `earlier` and `faulty` only observe; the code does not
see them. `faulty` is about the store alone: a run row could not be written, or
the answer to a write was lost. A kill is seen in `pc`; an exception that no
handler names (`Escape`, `DrillRaises`) leaves `run`, the status in memory, at
RUNNING when `pc` is `done`, so that no property has to set it aside.

### The collectors

All have the phases `starting`, `first` (or `single`), `paging`, `judging`,
`building`, `committing`, `reporting`, `returned`; an action per request.

- `JobsListing`: `FetchBase` reads the listing URL and the total it advertises
  (or none), `FetchPage` reads `?page=1`, `?page=2`, ... until the total is
  reached, a page is empty, a page after the first numbered one brings nothing
  new, or `max_listing_pages` is used up. `PageBase = 1` says that `?page=1`
  repeats the base page, as `docs/DAY_11_V6_BREADTH_HANDOFF.md` records for the
  real site. `Judge` is the sequence of gates, `BuildRecord` one record per
  candidate (from the detail page, or from the card if the detail fails or lies
  beyond `max_details`), `Replace` the complete snapshot.
- `EventsListing`: the pager of the *first* page says how many pages are read; a
  cap below it is a failure, and no total is compared. An event outside the
  window is stored but does not count for the 99% gate (`BelowMinimum`).
- `RubricListing`: each request has three attempts; the total of every page must
  be that of the first, rows are counted with repetitions, a page with one
  invalid destination is refused whole, and one detail that fails ends the run.
  `DrillRaises` is the failure drill as it is (section 6).
- `ScholarshipsListing` with `Fetch`: an address is tried three times, each time
  from the candidate's own address, following redirects one by one after
  `_validate_detail_redirect` has seen where they lead; a redirect to another
  host skips the candidate (`SkipExternal`), one to another page of this host
  that is no scholarship fails the attempt. Runs of one page are samples and
  compare no headline.
- `AccommodationListing`, `SupportListing`: one registry page whose count must be
  the frozen one (and, for residences, the advertised one), then the first
  `max_details`, all or none.
- `CoursesSample`: `run_single`, and `run_live_catalogue` with its two requests to
  the API, whose rows may be fewer or more than asked for.

Page-reading actions also stand for the parser that turns the page into
candidates: what it keeps, drops and counts is in the action, how it finds that
in the HTML is not.

### Job

`Loads` and `Allowed` are the checks of `load_config` and of `execute_job` before
anything is opened, over a record that holds what was typed (a malformed value
is any value outside the accepted set); `Open` and `OpenFails` make fetcher,
store and adapter; `Collect` dispatches to the seven modules, instantiated over
the same variables; `Escape` is an exception none of the collector's handlers
names, wherever `Raises` says that one can pass, with a store that goes on working; `Summarise` maps the run's
status to the exit code; `Kill` stops the container at any point.

### CatalogueCensus and CoverageAudit

`CatalogueCensus` is `discover_full_catalogue`: feed after feed, page after page
until the feed's own total, every feed changing while it is read; a total that
changes raises, an empty or repeated page ends the feed. `CoverageAudit` runs the
domains in order, the catalogue through that module, the other listings by what
their traversals return (those traversals are the collectors' modules), then
visits one candidate after the other: refuse, fetch, or read. Three failures in a row stop a class.
`_health_classifications` decides over counts per domain, with the rounding to
two places in `Below99`. Each page has one fact.

### AtomicListing

Three variables: what readers see (`active`), what each execution observed, and
each run's outcome. `PostgresStore` implements it with `active` the rows that
are not MISSING, as pairs of URL and content.

## 4. What is checked

Bounds are the constants of the `.cfg` files. Two executions, because every
conflict in the code is between two transactions, or between one and its
successor; two URLs, so that one can be listed and one missing and so that two
batches can lock rows in opposite orders; three ids, the third one carried by
legacy rows only; two contents, so that a page can change. `clock` and
`observedAt` are bounded by the number of executions. Deadlock checking is off
because executions end: a finished system has no step.

| Run | Instance | Shows |
|---|---|---|
| `snapshot` | complete snapshots, overlapping, every fault but lost answers, indexer; all seed tables over `{a, b, l}` | `TypeOK`, `SnapshotExact` (readers see exactly the last committed listing), `LastKnownGood` (no change without the SUCCESS row of its execution), `IndexFresh`, `ExitAgrees`, `AuditMatchesEffect` (the five counts are the difference the commit makes), `NoReembedding`, `IdentityStable`, `UniqueUrlsStable`, `RerunIdempotent`, `ImplementsAtomicListing` |
| `batch` | bounded batches, overlapping | `LastKnownGood`, `BatchApplied` (no lost update, no foreign row touched), `AuditMatchesEffect`, `EveryRunEnds` |
| `snapshot_progress` | complete snapshots with lost answers and a failing indexer, one content | `SnapshotExact`, `EveryRunEnds` |
| `local_store` | two executions in sequence, up to two raising writes per batch, kills, ids `a` and `l` both legacy | `PublishedExact`, `FirstFaultUndone`, `RestoredExactly`, `LocalAudit` |
| `complete_sources` | Jobs and ANU events; any subset of 4 items stored before; at most 4 of 5 items listed at the start, one of them outside the boundary, two to a page, one or three pages, one or two details, two changes during the traversal | `MissesAtMostArrivals`, `EventsMissesAtMostChanges`, `PopulationIsListing`, `RequestsBounded` |
| `bounded_sources` | the other five sources and every gate: 21 command lines; at most 2 of 4 items listed, one of the four a program and one on another host, one to a page, two changes, one redirect | `RubricMissesAtMostSwaps`, `ScholarshipsMissesAtMostArrivals`, `AllOrNothing`, `BoundedNeverMarks`, `AttemptsStartOver`, `ExitTellsEffect`, `WritesAreApproved`, `EndsReported`, `EveryRunEnds` |
| `audits` | both read-only commands; two program feeds that overlap and a feed of majors, one row to a page, two changes; up to five scholarships of which two have one identity | `CensusMissesAtMostArrivals`, `GreenMeansRead`, `UnpacedBounded` |
| `stale_snapshot`, `lost_commit_answer`, `legacy_id_reused`, `detail_failure`, `rubric_drill` | see section 6 | each refutes one documented claim |

`EndsReported` has two halves, for executions that were not killed and whose run
rows could all be written. After an ending that a collector handles, the audit
row has the status the collector returned, which is not RUNNING (no row, if it
was refused before it began). After an exception that no handler names, it claims what the code then
leaves: exit code 1, the row that says RUNNING, and the records as they were.
Section 6 says what the documents make of that row. `ExitTellsEffect` is about the same executions and
those whose store failed: exit code 1 with `stored` changed occurs only there.

The `TypeOK` of each component is checked in one run: `snapshot`, `local_store`,
`bounded_sources` and `audits`.

In `complete_sources` four items on pages of two give a traversal that spans
pages and a shift across a page boundary; two changes give an arrival together
with a departure, which leaves the total right and the listing wrong. With the
cap at three pages, traversals that stop at the cap are among the behaviours.
The bounds on what is missed are tight: with one arrival a steady job can be
missed, with one departure an event can. One execution is enough here: what
overlapping executions do to each other is the subject of the store's runs.
In `bounded_sources` pages of one row make every listing of two span two pages;
two changes allow the swap that Rubric's total cannot see; one redirect and
three attempts give all nestings of the two; details are limited to 1 or 2, and
the frozen count is 2, so that limits below, at and above the population occur.
The limits of the configuration (100 pages, 2000 details, 366 days, ...) are the
code's, checked with values inside and just outside; `MaxRedirects` of a session
(30 in the library) is 1. In `audits` five scholarships are enough for three
failures in a row with candidates before and after; the frozen denominators are
smaller than the population may be, which is the case `GreenMeansRead` is about.
They are given by class and added up over the classes of a domain, as
`_health_classifications` does; section 6 says what that hides.
The audit of details is run for one domain at a time, breadth for all three of
its domains: domains only meet in the order they are read, in the pacing and in
the conjunction of their results, so that `--domain all` of the audit adds states
(their product) but no case.
Percentages near 99 need a hundred items and are exercised only at 0, 1/2 and 1
of such small counts.

Symmetry is used in `snapshot` (executions and contents are interchangeable:
no property or definition orders them, and no liveness is checked there) and in
`local_store` (contents) and `complete_sources` (approved items). The runs with liveness use none.

**Fairness.** `FairSpec` has weak fairness of `Progress(r)` for every execution
that has started: a process whose next statement is possible eventually executes
it. Nothing obliges the scheduler to start an execution, a fault to happen or
the indexer to run, and faults are not part of `Progress`, so `EveryRunEnds`
does not rely on being killed. `DeadlockVictim` is part of it, since PostgreSQL
breaks waiting cycles after `deadlock_timeout`. `Job` has weak fairness of its
`Progress`: the collector is sequential code with timeouts on every request, so a
process that is not killed goes on. Which branch it takes is not constrained:
requests may fail for ever, and the site may change whenever it likes within the
bound. That `EveryRunEnds` holds there is the finiteness of pages, attempts and
redirects, not luck. `CoverageAudit` states no fairness and no liveness.

**Mutants.** Every property of a passing run has a mutated definition in the
module (marked `Mutant:`) that a plausible bug would produce - autocommit, no
advisory lock, planning from unreconciled ids, a handler that forgets the
status - under which TLC finds that property violated.

## 5. What is proved

Every invariant and every action property of the passing runs, and one
refinement, for every value of the constants: any number of executions, URLs,
items, feeds and pages, any page size, any seed table, any number of changes and
of writes that raise. "Assumes" is what a theorem needs beyond the constants'
assumptions, which are named in the modules that declare them and which TLC
evaluates in every run.

### The PostgreSQL store

`PostgresStoreProofs` (what every state satisfies) and `PostgresStoreSteps` (what
no step does):

| Theorem | States | Assumes |
|---|---|---|
| `TypeCorrect` | `[]TypeOK` | |
| `EmbeddingsFresh` | `[]IndexFresh` | |
| `ExitCodeAgrees` | `[]ExitAgrees` | |
| `LastKnownGoodPreserved` | `[]LastKnownGood` | no lost answers |
| `SnapshotsExact` | `[]SnapshotExact` | complete snapshots, `CleanIdentity` |
| `ImplementsAtomic` | `PostgresStore` implements `AtomicListing` | those, and no lost answers |
| `IdentitiesStable` | `IdentityStable` | `CleanIdentity` |
| `UniqueUrlsPreserved` | `UniqueUrlsStable` | complete snapshots, `CleanIdentity` |
| `RerunsAreIdempotent` | `RerunIdempotent` | `CleanIdentity` |
| `EmbeddingsKept` | `NoReembedding` | `CleanIdentity` if snapshots are complete |
| `AuditsMatch` | `AuditMatchesEffect` | the same |
| `BatchesApplied` | `BatchApplied` | bounded batches |

`CleanIdentity` says that `IdOf` is injective and no listed URL derives an id a
legacy row may carry. The first half is how ids are made (`population.py`: the
URL's path slug); the second is what today's sites have (word slugs against
numeric ids). Without it `SnapshotsExact` and the refinement are false: see
`legacy_id_reused`.

**Argument.** The properties are not inductive; the proof goes through

- `TypeInv`: `TypeOK`, and a batch in progress only handles listed URLs;
- `FreshInv`: `IndexFresh` for committed rows, for uncommitted versions and for
  the rows a transaction has read;
- `OutcomeInv`: what the run row may say at each `pc`;
- `StampInv`: a stamp of `r` on a committed row implies `r`'s SUCCESS, and
  before its commit `r`'s stamps exist in its own draft only;
- `PlanInv`, the heart of `SnapshotsExact`: while `r` is between plan and
  commit, the plan is *still current* - `r` holds the advisory lock and every
  row it planned from, so `target` and `gone` are what `plan_snapshot` would
  compute from the committed rows now (`PlanCurrent`), the records already saved
  are exactly those no longer in `todo` (`InProgress`), and the draft holds
  their final versions and nothing else (`DraftsExact`). At commit, the drafts
  over the committed rows are the observed listing;
- `ExactInv`: `SnapshotExact` between commits, when only the indexer writes, and
  it changes neither URL, content nor status;
- `RunInv`: for the refinement, what `outcome` and `observed` are at each `pc`.

The action properties need one account of a commit that holds in both modes,
`CommittedRows`: under the id of each record is what `save_record` makes of the
row the table has there *now*. With complete snapshots it follows from
`PlanInv`; in bounded batches, which hold no advisory lock, from

- `BatchInv`: an execution holds the row lock of every record it has saved, and
  its draft is what the comparison makes of the committed row below it, so that
  no other execution can have changed that row in between;
- `UnstampedInv`: no row, nobody's draft and nothing anybody has read bears the
  stamp of an execution that has not committed - except its own draft;
- `CountsInv`: the counters in memory are the actions `compare_record` took for
  the records no longer in `todo`. At commit they are the difference between
  the tables, by a bijection between the ids and the listed URLs
  (`AuditMatchesEffect` counts ids, the code counts records).

### The local JSON store

`LocalStoreProofs`, in both modes (the run has `Complete = TRUE`), for any number
of executions in sequence and of writes that raise:

| Theorem | States |
|---|---|
| `TypeCorrect` | `[]TypeOK` |
| `PublishesExactly` | `[]PublishedExact` |
| `FirstFaultIsUndone` | `[]FirstFaultUndone` |
| `RestoresExactly` | `RestoredExactly` |
| `LocalAuditsMatch` | `[]LocalAudit` |

**Argument.** `Progress`: from the plan on, each file is exactly what the plan
has for it - saved, marked, or as it was (`FilesExact`) - and the counters count
the saved ones (`CountsExact`); no identity is assumed clean, because this
store looks for duplicates after planning. `RestoreInv`: in either handler the
files that differ from the backup are among those still to be written back
(`Altered` is a subset of `restoring`), the inner handler's among the listed
ones, and a handler runs only after a write has raised, unless the batch was
refused for duplicate ids or could not read a torn file; so a restore that ends without
a second fault ends with the backup. `Stamped`: no file bears the stamp of an
execution before it has begun, which makes the stamped files the saved ones.

### The job and its collectors

`JobProofs` and `JobCounts`, for any command line, registry and site:

| Theorem | States |
|---|---|
| `TypeCorrect` | `[]TypeOK` |
| `RequestLimit` | `[]RequestsBounded` |
| `FreshAttempts` | `[]AttemptsStartOver` |
| `ApprovedWrites` | `[]WritesAreApproved` |
| `ReportedEnds` | `[]EndsReported` |
| `BoundedKeeps` | `[]BoundedNeverMarks` |
| `PopulationReplaced` | `[]PopulationIsListing` |
| `WholeOrNothing` | `[]AllOrNothing` |
| `ExitIsTrue` | `[]ExitTellsEffect` |
| `JobsMissLittle` | `[]MissesAtMostArrivals` |
| `EventsMissLittle` | `[]EventsMissesAtMostChanges` |
| `RubricMissesLittle` | `[]RubricMissesAtMostSwaps` |
| `ScholarshipsMissLittle` | `[]ScholarshipsMissesAtMostArrivals` |

**Argument.** Seven collectors have some sixty actions between them. `JobSteps`
shows that each is of one of a few *kinds* (`Begins`, `Discovers`, `Accepts`,
`Builds`, `Commits`, `Asks`, `Fetches`, ...), and the invariants are preserved
kind by kind:

- `WorkInv`: types, what can be the case at each phase (`PlaceInv`), requests
  against pages and details consumed (`RequestInv`), and what `built` says about
  the first so many of `found` (`BuiltInv`);
- `StoreInv`: nothing is stored before every gate has passed (`WrittenInv`); a
  SUCCESS in memory comes with the store being exactly the batch over what was
  there earlier (`BatchStored`), and what the audit row says otherwise
  (`ReportedInv`).

The four bounds of `JobCounts` are about a listing that shifts under a reader.
Their common measure is `Sweep` (`SiteProofs`): the items on the pages read that
were skipped, and the places ahead. `SweepArrival` and `SweepDeparture` show
that an arrival raises it by at most one and a departure not at all, though a
departure may turn a place ahead into an item skipped; reading a page lowers it
by the rows it counts. So `Swept` holds throughout - skipped, ahead and counted
are at most what was advertised and what arrived since - and when the counted
rows reach the total, the skipped items are at most the arrivals. For Rubric a
second equation (`Len(site) + departures = advertised + arrivals`, while its
pages still agree on the total) bounds them by the departures too. Jobs needs
less: what is listed or found is at most the total and the arrivals. ANU events
has no total, and its bound counts each departure as well.

### The read-only audits

`AuditProofs`, for any catalogue, feeds, classes and selection:

| Theorem | States |
|---|---|
| `AuditTyped` | `[]TypeOK` |
| `CensusMissesLittle` | `[]CensusMissesAtMostArrivals` |
| `GreenReads` | `[]GreenMeansRead` |
| `UnpacedAreFew` | `[]UnpacedBounded` |

**Argument** (`AuditInvariant`). `CensusCount` adds up over the feeds: what the
closed feeds listed throughout and the census lost, and what the open feed shows
or gave, are at most its total and all arrivals so far, as long as no feed
failed to reconcile. `AllRead` carries the exit code back to the outcomes of
the queue, `Repeats` says that a duplicate has a candidate of the same identity
that was visited, and `Catalogued` that the queue holds the whole census.
`Paced` bounds the requests in a row without a pause by the set of failures that
can precede a stop: three tries of each class.

### Only model-checked

Liveness: `EveryRunEnds` of both `PostgresStore` and `Job` rests on fairness,
hence on ENABLED, which is out of the prover's reach. The five runs of section 6
are counterexamples, not theorems.

## 6. What the models found

- **`stale_snapshot`.** Complete snapshots are ordered by the advisory lock, not
  by when the source was observed. Of two overlapping executions, the one that
  read the listing first may commit last; it then marks MISSING a record that
  the newer, committed listing contains. The next execution repairs it.
- **`lost_commit_answer`.** `run_listing` takes any exception of the store for a
  rollback. If the server committed and only the answer was lost, the records
  and the SUCCESS row are durable, and the handler overwrites that row with
  FAILED, "preflighted records were not committed". Readers are not affected
  (`SnapshotExact` holds in `snapshot_progress`); the audit is wrong, and a retry
  reports UNCHANGED.
- **`legacy_id_reused`.** `PostgresDataStore` looks for duplicate ids before
  `plan_snapshot` replaces ids by those of stored rows. If a listed URL derives
  the id that a legacy row of another listed URL carries, both records are saved
  to one row. The JSON store checks after planning and refuses (`local_store`
  runs with such an id).

- **`detail_failure`.** `docs/DATA_SCHEMA.md` says that fetch and parser failures
  preserve last-known-good data. When a *detail* page fails, the record built
  from the listing card replaces the stored detail text, in a run that ends
  SUCCESS; the record is CHANGED, loses its embedding, and flips back later.

- **`rubric_drill`.** `docs/DEPLOYMENT.md` documents a deterministic failure drill.
  The transport that `job.py` substitutes for it has only `post_json`, but the
  adapter calls `post_search` and `post_detail`: the drill ends with an
  `AttributeError` that no handler names, exit code 1 without a run id, and an
  audit row that says RUNNING for ever. (`docs/DAY_7_CLOUD_INGESTION.md`, which
  asks that the failed run be visible, speaks of the drill of courses; there it
  is.)

Two more disagreements with a document are behaviours of the passing runs, and
what the theorems say of them is what the code does:

- **A failure that leaves no FAILED row** (`bounded_sources`, `complete_sources`).
  `docs/DATA_SCHEMA.md` (1059-1064) says "On fetch/parser failure: FAILED, preserve
  last-known-good data". The handlers around the details of the jobs
  (`sources/jobs/__init__.py`, 328 and 337) name four kinds of exception; another
  one, such as `ParserRejectedMarkup` of Beautiful Soup, goes up to `main`
  (`job.py`, 974-980), which reports "Unexpected job failure". The data is
  preserved, the exit code is 1, but the audit row says RUNNING, and no later
  execution repairs it: the second half of `EndsReported`. `Raises` says in which
  phase of which collector this can happen.
- **Pooled classes** (`audits`). `docs/DAY_11_V6_BREADTH_HANDOFF.md` (19-20) says of
  the five classes of the catalogue that they "are independent acceptance
  denominators; they must not be pooled". `_health_classifications`
  (`detail_coverage.py`, 1283) adds up their denominators, and their records, before
  it applies the 99% gate (`Denominator`). With the constants of `audits`, one
  program and one major frozen, two programs read and no major make the domain
  GREEN, and the command exits 0. Only the primary feeds have to reconcile, so
  an empty feed of majors does not stop it, and the drift per class is reported
  (1084-1087) but gates nothing. `GreenMeansRead` holds all the same: what was
  listed was read.

Also visible in the models, without a document that says otherwise: a FAILED row
keeps `records_seen` and `records_missing` of a batch that was not committed; the
JSON store writes the SUCCESS run before the MISSING marks, so a kill in between
leaves a SUCCESS whose marks are absent until the next success; after
a batch is refused for duplicate ids, the JSON store rewrites files it had not
touched, and a fault there loses one; a job that is listed throughout can become MISSING in a
reconciled run if another one arrives while the pages are read
(`MissesAtMostArrivals` bounds how many); the same in the ANU events after an
arrival *or* a departure, since no total is compared; the audit of details keeps
its interval only after a page was read, so that requests which fail from the
start follow each other at once, up to three per class; a second candidate whose
address ends like an earlier one's is counted as a duplicate and not read, and
does not keep the audit from exiting 0; a kill leaves the RUNNING row behind as an
unhandled exception does; a title, a date or metadata that change under the same
text are not stored (the record is UNCHANGED). The limits in `Loads` are the
code's: for scholarships and jobs `docs/DEPLOYMENT.md` (98-102) still has the
older ones, one page and ten details.

## 7. Not modelled

- **Parsing and normalisation** (`*/parser.py`, `common/parser.py`,
  `common/normalizer.py`, `common/search_metadata.py`, and the extraction part of
  `detail_coverage.py`): pure functions of a page, without a reference definition
  to compare them with; a page is what it shows, or a failure.
- **Title, dates and metadata of a record**: neither store compares them
  (section 3, Records).
- **Field validation of `CommonRecord`** (most of `common/models.py`): a record is
  well formed, or the collection fails.
- **Release evidence** (`common/benchmark_evidence.py`, `common/v7_contract.py`):
  validation of report files, no state.
- **`run_catalogue`** of the courses collector (a saved catalogue page), which no
  command calls; `save_record` of the PostgreSQL store, which no collector calls.
- **Time**: intervals between requests, delays between attempts and timeouts
  appear as what may happen next. Whether a request is spaced is modelled in
  the audit only.
- **Sanity figures, summaries' wording and the redaction of secrets**: reports of
  what the models have as state.
- Overlapping executions of *different* sources: they share no row (section 1).

---------------------------- MODULE PostgresStore ----------------------------
(***************************************************************************)
(* Executions of the scraper job against PostgreSQL: the ingestion_runs    *)
(* row that brackets a collection, and PostgresDataStore's one transaction *)
(* that commits a preflighted batch with its SUCCESS row.  Executions may  *)
(* overlap (scheduler retry, manual run), die at any step, and share the   *)
(* table with the external indexer.                                        *)
(*                                                                         *)
(* The database is PostgreSQL at its default READ COMMITTED level, as the  *)
(* store uses it: an uncommitted version is visible to its transaction     *)
(* only, SELECT ... FOR UPDATE and UPDATE hold the row until commit or     *)
(* rollback, an INSERT waits for an uncommitted INSERT of the same key and *)
(* then violates the key, and a transaction that closes a waiting cycle is *)
(* aborted.                                                                *)
(***************************************************************************)
EXTENDS Records

CONSTANTS
  Complete,   \* save_complete_snapshot (TRUE) or save_records_and_run (FALSE)
  Overlap,    \* may an execution start while another one is in progress?
  AckLoss,    \* may the answer to a statement that took effect be lost?
  Verdict     \* the verdicts the external indexer may reach on a row

ASSUME ModeAssumption == {Complete, Overlap, AckLoss} \subseteq BOOLEAN
ASSUME VerdictAssumption == Verdict \subseteq {"INDEXED", "FAILED"}

VARIABLES
  \* the database
  rows,       \* source_records of this source, committed versions
  runs,       \* ingestion_runs
  rowLock,    \* holder of each row (or of its uncommitted key)
  advisory,   \* holder of pg_advisory_xact_lock(hashtext(source_id))
  draft,      \* uncommitted versions of each transaction (NoRow: none)
  \* the executions
  pc,
  mem,        \* the IngestionRun object in memory
  obs,        \* the preflighted records
  target,     \* the record_id each of them will be saved under
  todo,       \* records not yet saved
  cur,        \* the record being saved ...
  found,      \* ... and the row its SELECT returned
  gone,       \* ids planned as MISSING
  \* observation only
  clock, observedAt, \* when a listing was observed
  published          \* the last committed execution

database == <<rows, runs, rowLock, advisory, draft>>
batch    == <<obs, target, todo, cur, found, gone>>
history  == <<clock, observedAt, published>>
vars     == <<database, pc, mem, batch, history>>

Ended   == {"done", "crashed"}
InBatch == {"open", "lock", "plan", "select", "write", "finish", "commit"}
PC      == {"idle", "collecting", "reporting"} \cup InBatch \cup Ended

TypeOK ==
  /\ rows \in Table
  /\ runs \in [Run -> IngestionRun \cup {NoRow}]
  /\ rowLock \in [RecordId -> Run \cup {None}]
  /\ advisory \in Run \cup {None}
  /\ draft \in [Run -> Table]
  /\ pc \in [Run -> PC]
  /\ mem \in [Run -> IngestionRun]
  /\ obs \in [Run -> Listing]
  /\ target \in [Run -> [Url -> RecordId]]
  /\ todo \in [Run -> SUBSET Url]
  /\ cur \in [Run -> Url \cup {None}]
  /\ found \in [Run -> CommonRecord \cup {NoRow}]
  /\ gone \in [Run -> SUBSET RecordId]
  /\ clock \in Nat
  /\ observedAt \in [Run -> Nat]
  /\ published \in Run \cup {None}

NoDraft == [i \in RecordId |-> NoRow]
NothingListed == [u \in Url |-> None]

Init ==
  /\ rows \in SeedTables
  /\ runs = [r \in Run |-> NoRow]
  /\ rowLock = [i \in RecordId |-> None]
  /\ advisory = None
  /\ draft = [r \in Run |-> NoDraft]
  /\ pc = [r \in Run |-> "idle"]
  /\ mem = [r \in Run |-> NewRun("RUNNING")]
  /\ obs = [r \in Run |-> NothingListed]
  /\ target = [r \in Run |-> IdOf]
  /\ todo = [r \in Run |-> {}]
  /\ cur = [r \in Run |-> None]
  /\ found = [r \in Run |-> NoRow]
  /\ gone = [r \in Run |-> {}]
  /\ clock = 0
  /\ observedAt = [r \in Run |-> 0]
  /\ published = None

Goto(r, from, to) ==
  /\ pc[r] = from
  /\ pc' = [pc EXCEPT ![r] = to]

(***************************************************************************)
(* What a statement of r's transaction sees of a row, and what the end of  *)
(* the transaction does to the database.                                   *)
(***************************************************************************)
Visible(r, i) == IF draft[r][i] # NoRow THEN draft[r][i] ELSE rows[i]

\* Mutant: SELECT without FOR UPDATE.
FreeForAnyone(r, i) == TRUE

FreeFor(r, i) == rowLock[i] \in {r, None}

Release(r) ==
  /\ rowLock' = [i \in RecordId |-> IF rowLock[i] = r THEN None ELSE rowLock[i]]
  /\ advisory' = IF advisory = r THEN None ELSE advisory
  /\ draft' = [draft EXCEPT ![r] = NoDraft]

\* Mutant: autocommit, every statement stands.
RollbackNothing(r) ==
  /\ Release(r)
  /\ rows' = [i \in RecordId |-> Visible(r, i)]
  /\ UNCHANGED runs

\* Mutant: the connection is not closed when a statement raises.
RollbackWithoutClosing(r) ==
  /\ draft' = [draft EXCEPT ![r] = NoDraft]
  /\ UNCHANGED <<rows, runs, rowLock, advisory>>

Rollback(r) == Release(r) /\ UNCHANGED <<rows, runs>>

Publish(r) ==
  /\ rows' = [i \in RecordId |-> Visible(r, i)]
  /\ runs' = [runs EXCEPT ![r] = mem[r]]
  /\ Release(r)
  /\ published' = r
  /\ UNCHANGED <<clock, observedAt>>

\* The call returned: its local variables are gone ...
Return(r) ==
  /\ target' = [target EXCEPT ![r] = IdOf]
  /\ todo' = [todo EXCEPT ![r] = {}]
  /\ cur' = [cur EXCEPT ![r] = None]
  /\ found' = [found EXCEPT ![r] = NoRow]
  /\ gone' = [gone EXCEPT ![r] = {}]

\* ... and without a commit, so are the preflighted records.
Discard(r) == Return(r) /\ obs' = [obs EXCEPT ![r] = NothingListed]

(***************************************************************************)
(* run_listing up to the batch: the RUNNING row, then collection.          *)
(***************************************************************************)
Ending(summary, status) == [summary EXCEPT !.status = status]

MayStart(r) == Overlap \/ \A q \in Run : pc[q] \in Ended \cup {"idle"}

SaveRunning(r) ==
  /\ MayStart(r)
  /\ Goto(r, "idle", "collecting")
  /\ runs' = [runs EXCEPT ![r] = mem[r]]
  /\ UNCHANGED <<rows, rowLock, advisory, draft, mem, batch, history>>

\* save_run raises (before or, with AckLoss, after it took effect):
\* collection does not start.
RunningRefused(r) ==
  /\ MayStart(r)
  /\ Goto(r, "idle", "reporting")
  /\ mem' = [mem EXCEPT ![r] = Ending(@, "FAILED")]
  /\ runs' \in {runs} \cup
       (IF AckLoss THEN {[runs EXCEPT ![r] = mem[r]]} ELSE {})
  /\ UNCHANGED <<rows, rowLock, advisory, draft, batch, history>>

DistinctIds(o) ==
  \A u, w \in Listed(o) : IdOf[u] = IdOf[w] => u = w

\* Discovery and details succeeded and the preflight passed.
Collected(r) ==
  /\ Goto(r, "collecting", "open")
  /\ \E o \in Listing :
       /\ Listed(o) # {}
       /\ DistinctIds(o)
       /\ obs' = [obs EXCEPT ![r] = o]
  /\ mem' = [mem EXCEPT ![r] = Ending(@, "SUCCESS")]
  /\ clock' = clock + 1
  /\ observedAt' = [observedAt EXCEPT ![r] = clock + 1]
  /\ UNCHANGED <<database, target, todo, cur, found, gone, published>>

\* fail(): every early return of run_listing.
CollectionFails(r) ==
  /\ Goto(r, "collecting", "reporting")
  /\ \E status \in {"FAILED", "SUSPICIOUS_ZERO"} :
       mem' = [mem EXCEPT ![r] = Ending(@, status)]
  /\ UNCHANGED <<database, batch, history>>

(***************************************************************************)
(* save_records_and_run: one transaction.                                  *)
(***************************************************************************)
\* Mutant: a bounded batch is saved as if it were a complete snapshot.
AlwaysSnapshot == "lock"

FirstStep == IF Complete THEN "lock" ELSE "select"

OpenBatch(r) ==
  /\ Goto(r, "open", FirstStep)
  /\ mem' = [mem EXCEPT ![r].seen = Cardinality(Listed(obs[r]))]
  /\ target' = [target EXCEPT ![r] = IdOf]
  /\ todo' = [todo EXCEPT ![r] = Listed(obs[r])]
  /\ UNCHANGED <<database, obs, cur, found, gone, history>>

\* Mutant: no advisory lock.
AcquireNothing(r) ==
  /\ Goto(r, "lock", "plan")
  /\ UNCHANGED <<database, mem, batch, history>>

AcquireAdvisory(r) ==
  /\ Goto(r, "lock", "plan")
  /\ advisory = None
  /\ advisory' = r
  /\ UNCHANGED <<rows, runs, rowLock, draft, mem, batch, history>>

\* SELECT ... WHERE source_id FOR UPDATE, then plan_snapshot.
PlanSnapshot(r) ==
  /\ Goto(r, "plan", "select")
  /\ UniqueUrls(rows)
  /\ \A i \in Present(rows) : FreeFor(r, i)
  /\ rowLock' = [i \in RecordId |-> IF rows[i] # NoRow THEN r ELSE rowLock[i]]
  /\ target' = [target EXCEPT ![r] = [u \in Url |-> Reconciled(rows, u)]]
  /\ gone' = [gone EXCEPT ![r] = Unobserved(rows, obs[r])]
  /\ mem' = [mem EXCEPT ![r].missing = Cardinality(Unobserved(rows, obs[r]))]
  /\ UNCHANGED <<rows, runs, advisory, draft, obs, todo, cur, found, history>>

SelectRecord(r, u) ==
  /\ pc[r] = "select"
  /\ u \in todo[r]
  /\ LET i == target[r][u] IN
       /\ Visible(r, i) # NoRow => FreeFor(r, i)
       /\ rowLock' = IF Visible(r, i) # NoRow
                     THEN [rowLock EXCEPT ![i] = r] ELSE rowLock
       /\ found' = [found EXCEPT ![r] = Visible(r, i)]
  /\ cur' = [cur EXCEPT ![r] = u]
  /\ todo' = [todo EXCEPT ![r] = @ \ {u}]
  /\ pc' = [pc EXCEPT ![r] = "write"]
  /\ UNCHANGED <<rows, runs, advisory, draft, mem, obs, target, gone, history>>

\* INSERT, touch or full UPDATE; an INSERT waits for another transaction's
\* uncommitted row of that key.
WriteRecord(r) ==
  /\ Goto(r, "write", IF todo[r] = {} THEN "finish" ELSE "select")
  /\ LET u == cur[r]
         i == target[r][u]
         final == Saved(found[r], u, obs[r][u], r)
     IN
       /\ found[r] = NoRow => rows[i] = NoRow /\ FreeFor(r, i)
       /\ rowLock' = [rowLock EXCEPT ![i] = r]
       /\ draft' = [draft EXCEPT ![r][i] = final]
       /\ mem' = [mem EXCEPT ![r] = Counted(@, Action(found[r], obs[r][u]))]
  /\ UNCHANGED <<rows, runs, advisory, batch, history>>

\* Mutant: planned marks are never written.
MarkNothing(r) ==
  /\ Goto(r, "finish", "commit")
  /\ UNCHANGED <<database, mem, batch, history>>

MarkMissing(r) ==
  /\ Goto(r, "finish", "commit")
  /\ draft' = [draft EXCEPT ![r] =
       [i \in RecordId |-> IF i \in gone[r]
                           THEN MarkedMissing(Visible(r, i)) ELSE draft[r][i]]]
  /\ UNCHANGED <<rows, runs, rowLock, advisory, mem, batch, history>>

\* The run-row upsert is the transaction's last statement; it names this
\* execution's own row, so nothing can wait for it.
Commit(r) ==
  /\ Goto(r, "commit", "done")
  /\ Publish(r)
  /\ Return(r)
  /\ UNCHANGED <<mem, obs>>

(***************************************************************************)
(* The ways a batch fails.  run_listing's handler resets three counters of *)
(* the run object, not all five, and then tries to save it.                *)
(***************************************************************************)
\* Mutant: the handler forgets the status.
FailedButSuccess(summary) ==
  [summary EXCEPT !.added = 0, !.changed = 0, !.unchanged = 0]

Failed(summary) ==
  [summary EXCEPT !.status = "FAILED",
                  !.added = 0, !.changed = 0, !.unchanged = 0]

GiveUp(r) ==
  /\ pc' = [pc EXCEPT ![r] = "reporting"]
  /\ mem' = [mem EXCEPT ![r] = Failed(@)]

\* plan_snapshot raises: two rows already share a URL.
PlanRefused(r) ==
  /\ pc[r] = "plan"
  /\ ~UniqueUrls(rows)
  /\ GiveUp(r) /\ Discard(r) /\ Rollback(r)
  /\ UNCHANGED history

\* Another transaction inserted and committed the key since the SELECT.
UniqueViolation(r) ==
  /\ pc[r] = "write"
  /\ found[r] = NoRow
  /\ rows[target[r][cur[r]]] # NoRow
  /\ GiveUp(r) /\ Discard(r) /\ Rollback(r)
  /\ UNCHANGED history

\* The row r's current statement waits for.
WaitsFor(r, i) ==
  /\ ~FreeFor(r, i)
  /\ \/ /\ pc[r] = "select"
        /\ rows[i] # NoRow
        /\ \E u \in todo[r] : target[r][u] = i
     \/ /\ pc[r] = "write"
        /\ found[r] = NoRow
        /\ target[r][cur[r]] = i

DeadlockVictim(r) ==
  /\ \E i, j \in RecordId :
       /\ WaitsFor(r, i)
       /\ rowLock[j] = r
       /\ WaitsFor(rowLock[i], j)
  /\ GiveUp(r) /\ Discard(r) /\ Rollback(r)
  /\ UNCHANGED history

\* Connecting or any statement raises; the connection context rolls back.
StatementFails(r) ==
  /\ pc[r] \in InBatch
  /\ GiveUp(r) /\ Discard(r) /\ Rollback(r)
  /\ UNCHANGED history

\* The server committed, but the client sees an error from COMMIT.
CommitAnswerLost(r) ==
  /\ AckLoss
  /\ pc[r] = "commit"
  /\ GiveUp(r) /\ Return(r) /\ Publish(r)
  /\ UNCHANGED obs

(***************************************************************************)
(* _save_failed_run: best effort.                                          *)
(***************************************************************************)
SaveFailedRun(r) ==
  /\ Goto(r, "reporting", "done")
  /\ runs' = [runs EXCEPT ![r] = mem[r]]
  /\ UNCHANGED <<rows, rowLock, advisory, draft, mem, batch, history>>

FailedRunLost(r) ==
  /\ Goto(r, "reporting", "done")
  /\ UNCHANGED <<database, mem, batch, history>>

\* The container is killed (task timeout, memory, eviction), or an exception
\* the collector does not catch ends the process; the server rolls back.
Crash(r) ==
  /\ pc[r] \notin Ended \cup {"idle"}
  /\ pc' = [pc EXCEPT ![r] = "crashed"]
  /\ mem' = [mem EXCEPT ![r] = NewRun("RUNNING")]
  /\ IF published = r THEN Return(r) /\ UNCHANGED obs ELSE Discard(r)
  /\ Rollback(r)
  /\ UNCHANGED history

(***************************************************************************)
(* The RAG indexer (external): embeds a committed PENDING row.             *)
(***************************************************************************)
Indexed(row, verdict) ==
  [row EXCEPT !.index = verdict,
              !.embedding = IF verdict = "INDEXED" THEN row.content ELSE None]

Index(i) ==
  /\ rows[i] # NoRow
  /\ rows[i].index = "PENDING"
  /\ rowLock[i] = None
  /\ \E verdict \in Verdict : rows' = [rows EXCEPT ![i] = Indexed(@, verdict)]
  /\ UNCHANGED <<runs, rowLock, advisory, draft, pc, mem, batch, history>>

(***************************************************************************)
Progress(r) ==
  \/ SaveRunning(r)
  \/ Collected(r)
  \/ OpenBatch(r)
  \/ AcquireAdvisory(r)
  \/ PlanSnapshot(r)
  \/ PlanRefused(r)
  \/ \E u \in Url : SelectRecord(r, u)
  \/ WriteRecord(r)
  \/ UniqueViolation(r)
  \/ DeadlockVictim(r)
  \/ MarkMissing(r)
  \/ Commit(r)
  \/ SaveFailedRun(r)

Fault(r) ==
  \/ RunningRefused(r)
  \/ CollectionFails(r)
  \/ StatementFails(r)
  \/ CommitAnswerLost(r)
  \/ FailedRunLost(r)
  \/ Crash(r)

Next ==
  \/ \E r \in Run : Progress(r) \/ Fault(r)
  \/ \E i \in RecordId : Index(i)

Spec == Init /\ [][Next]_vars

(***************************************************************************)
(* A started process keeps executing until it ends; nothing obliges the    *)
(* scheduler to start one, a fault to happen, or the indexer to run.       *)
(***************************************************************************)
FairSpec == Spec /\ \A r \in Run : WF_vars(pc[r] # "idle" /\ Progress(r))

(***************************************************************************)
(* Properties.                                                             *)
(***************************************************************************)

\* After any commit of complete snapshots, and until the next one, the rows
\* that are not MISSING are exactly the records the committing execution
\* observed, under their observed contents: nothing lost, nothing left over,
\* however executions, crashes and the indexer interleave
\* (save_records_and_run with complete_snapshot, plan_snapshot).
SnapshotExact ==
  Complete /\ published # None => Active(rows) = AsPairs(obs[published])

\* A row that carries an execution's timestamp was committed with that
\* execution's SUCCESS row: an execution that is still RUNNING, or ended in
\* any other way, has changed no record (the transaction of
\* save_records_and_run, run_listing's early returns).
LastKnownGood ==
  \A i \in Present(rows) : \A r \in {rows[i].seen, rows[i].collected} \ {None} :
    runs[r] # NoRow /\ runs[r].status = "SUCCESS"

\* The counts a SUCCESS row commits are the difference between the table
\* before and after it: ids added, contents changed, rows seen again, rows
\* that became MISSING (the counters of save_records_and_run).
AuditMatchesEffect ==
  [][\A r \in Run :
       runs'[r] # runs[r] /\ runs'[r].status = "SUCCESS" =>
         LET old == Present(rows)
             now == {i \in RecordId : rows'[i] # NoRow}
             seen == {i \in now : rows'[i].seen = r}
         IN /\ runs'[r].seen = Cardinality(seen)
            /\ runs'[r].added = Cardinality(now \ old)
            /\ runs'[r].changed =
                 Cardinality({i \in old : rows'[i].content # rows[i].content})
            /\ runs'[r].unchanged =
                 Cardinality({i \in old \cap seen : rows'[i].content = rows[i].content})
            /\ runs'[r].missing =
                 Cardinality({i \in old : /\ rows'[i].status = "MISSING"
                                         /\ rows[i].status # "MISSING"})]_vars

\* An embedding is never kept for a content it was not computed from, although
\* executions and the indexer update the same rows (the CHANGED branch clears
\* it; the UNCHANGED branch writes two other columns only).
IndexFresh ==
  \A i \in Present(rows) :
    rows[i].embedding # None =>
      rows[i].embedding = rows[i].content /\ rows[i].index = "INDEXED"

\* Only a change of content sends an indexed row back to the indexer:
\* re-observing a page, or losing and finding it again, costs no embedding.
NoReembedding ==
  [][\A i \in Present(rows) :
       rows[i].index = "INDEXED" /\ rows'[i].content = rows[i].content =>
         rows'[i].index = "INDEXED" /\ rows'[i].embedding = rows[i].embedding]_vars

\* A stored record keeps its id, its canonical URL and its collected_at for
\* ever, whatever id the listing derives for that URL today, and is never
\* deleted (plan_snapshot's reconciliation, the CHANGED branch).
IdentityStable ==
  [][\A i \in Present(rows) :
       /\ rows'[i] # NoRow
       /\ rows'[i].url = rows[i].url
       /\ rows'[i].collected = rows[i].collected]_vars

\* No execution makes two rows share a canonical URL, which plan_snapshot
\* would from then on refuse: the source could never be refreshed again.
UniqueUrlsStable == [][UniqueUrls(rows) => UniqueUrls(rows')]_vars

\* Committing what is already published again reports only UNCHANGED and
\* touches nothing a reader or the indexer looks at (the retry of an
\* execution whose first attempt had succeeded).
RerunIdempotent ==
  [][\A r \in Run :
       /\ Complete /\ published # None
       /\ published' = r /\ published # r
       /\ obs[r] = obs[published]
       => /\ runs'[r].unchanged = runs'[r].seen
          /\ runs'[r].missing = 0
          /\ \A i \in RecordId :
               IF rows[i] = NoRow THEN rows'[i] = NoRow
               ELSE \A f \in {"content", "index", "embedding"} :
                      rows'[i][f] = rows[i][f]]_vars

\* A process that exits with code 0 (its run object says SUCCESS) has its
\* SUCCESS row and batch in the database; one that ends otherwise has no
\* SUCCESS row, unless an answer was lost (_summary_from_run, run_listing).
ExitAgrees ==
  \A r \in Run : pc[r] = "done" =>
    LET durable == runs[r] # NoRow /\ runs[r].status = "SUCCESS"
    IN /\ mem[r].status = "SUCCESS" => durable
       /\ durable /\ ~AckLoss => mem[r].status = "SUCCESS"

\* A committed bounded batch stores every record it was given as given, and
\* leaves every other row of the source as it was: no MISSING marks, no lost
\* update by an overlapping execution (save_records_and_run).
BatchApplied ==
  [][\A r \in Run : published' = r /\ published # r =>
       LET written == {IdOf[u] : u \in Listed(obs[r])}
       IN /\ \A u \in Listed(obs[r]) :
               /\ rows'[IdOf[u]].content = obs[r][u]
               /\ rows'[IdOf[u]].seen = r
               /\ rows'[IdOf[u]].status # "MISSING"
          /\ \A i \in RecordId \ written : rows'[i] = rows[i]]_vars

\* Every started execution ends: neither the advisory lock nor row locks taken
\* in different orders by overlapping batches can hold one up for ever.
EveryRunEnds == \A r \in Run : pc[r] # "idle" ~> pc[r] \in Ended

\* MISSING: "previously known record was not observed" (docs/DATA_SCHEMA.md):
\* of the committed executions, the one that observed the source last did not
\* see the record.
Committed == {r \in Run : runs[r] # NoRow /\ runs[r].status = "SUCCESS"}

MissingMeansUnobserved ==
  \A i \in Present(rows) : rows[i].status = "MISSING" =>
    \A r \in Committed :
      (\A q \in Committed : observedAt[q] <= observedAt[r]) =>
        obs[r][rows[i].url] = None

\* A FAILED row says "preflighted records were not committed"
\* (sources/jobs/__init__.py): no row carries that execution's timestamps.
FailedMeansNotCommitted ==
  \A r \in Run : runs[r] # NoRow /\ runs[r].status = "FAILED" =>
    \A i \in Present(rows) : r \notin {rows[i].seen, rows[i].collected}

\* "record batch contains duplicate record IDs" is refused
\* (postgres_storage.py): every record a committed batch counts as seen has a
\* row of its own.
OneRowPerRecord ==
  published # None /\ runs[published].status = "SUCCESS" =>
    runs[published].seen =
      Cardinality({i \in Present(rows) : rows[i].seen = published})

(***************************************************************************)
(* The abstract specification, seen through the table and the run rows.    *)
(***************************************************************************)
Atomic == INSTANCE AtomicListing WITH
  active   <- Active(rows),
  observed <- [r \in Run |-> AsPairs(obs[r])],
  outcome  <- [r \in Run |-> IF runs[r] = NoRow THEN None ELSE runs[r].status]

\* PostgresStore with complete snapshots implements AtomicListing, as long as
\* no answer of the database is lost.
ImplementsAtomicListing == Atomic!Spec
=============================================================================

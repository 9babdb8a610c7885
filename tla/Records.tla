------------------------------- MODULE Records -------------------------------
(***************************************************************************)
(* The rows of source_records that belong to one source, and the pure      *)
(* functions both stores apply to them: hash comparison on save            *)
(* (NEW / CHANGED / UNCHANGED) and complete-population planning            *)
(* (common/snapshot.py).                                                   *)
(*                                                                         *)
(* Abstractions.  A Content value is the text of a record and nothing      *)
(* else: content_hash is the SHA-256 of that text (models.py checks it),   *)
(* so equal hashes are equal contents.  Title, dates and metadata are not  *)
(* modelled: when only they differ, the record is UNCHANGED and the stored *)
(* ones stay.  A timestamp is the execution whose clock it was read from:  *)
(* collected_at and last_seen_at hold a Run.  embedding_version is the     *)
(* content the stored embedding was computed from.  A batch of listing     *)
(* records is a function from URL to the content observed there (None: not *)
(* listed), which builds in the preflight "no two records share a          *)
(* canonical URL".                                                         *)
(***************************************************************************)
EXTENDS Integers, FiniteSets

CONSTANTS
  RecordId,   \* values of record_id
  Url,        \* canonical URLs of the source
  Content,    \* the texts a page may have
  Run,        \* executions of the job, one ingestion_runs row each
  IdOf,       \* the record_id the listing derives from a URL
  LegacyId,   \* ids that rows of earlier releases may carry instead
  NoRow,      \* "no such row"
  None        \* null

ASSUME IdOfAssumption == IdOf \in [Url -> RecordId]
ASSUME FiniteIdAssumption == IsFiniteSet(RecordId)
ASSUME FiniteUrlAssumption == IsFiniteSet(Url)
ASSUME NoneAssumption == None \notin Content \cup Run \cup Url

RecordStatus == {"NEW", "CHANGED", "UNCHANGED", "MISSING"}
IndexStatus  == {"PENDING", "INDEXED", "FAILED"}
IngestionRunStatus == {"RUNNING", "SUCCESS", "FAILED", "SUSPICIOUS_ZERO"}

CommonRecord ==
  [ url       : Url,
    content   : Content,
    status    : RecordStatus,
    index     : IndexStatus,
    embedding : Content \cup {None},
    collected : Run \cup {None},      \* None: before every modelled execution
    seen      : Run \cup {None} ]

Table   == [RecordId -> CommonRecord \cup {NoRow}]
Listing == [Url -> Content \cup {None}]

Present(table) == {i \in RecordId : table[i] # NoRow}
Listed(obs)    == {u \in Url : obs[u] # None}

IngestionRun ==
  [ status : IngestionRunStatus,
    seen : Nat, added : Nat, changed : Nat, unchanged : Nat, missing : Nat ]

ASSUME NoRowAssumption == NoRow \notin CommonRecord \cup IngestionRun

NewRun(status) ==
  [ status |-> status,
    seen |-> 0, added |-> 0, changed |-> 0, unchanged |-> 0, missing |-> 0 ]

(***************************************************************************)
(* Tables an earlier release may have left, some rows under an id that is  *)
(* not the one today's listing derives from the URL.  (The indexer may     *)
(* process them before the first execution.)                               *)
(***************************************************************************)
SeedRecords ==
  [ url : Url, content : Content, status : {"NEW"}, index : {"PENDING"},
    embedding : {None}, collected : {None}, seen : {None} ]

SeedTables ==
  {t \in [RecordId -> SeedRecords \cup {NoRow}] :
     \A i \in Present(t) : IdOf[t[i].url] = i \/ i \in LegacyId}

(***************************************************************************)
(* save_record: compare with the existing row and build the final one.     *)
(***************************************************************************)
Action(existing, c) ==
  IF existing = NoRow THEN "NEW"
  ELSE IF existing.content = c THEN "UNCHANGED" ELSE "CHANGED"

Inserted(u, c, run) ==
  [ url |-> u, content |-> c, status |-> "NEW",
    index |-> "PENDING", embedding |-> None,
    collected |-> run, seen |-> run ]

\* Mutant: re-observing a page sends it back to the indexer.
TouchedAndRequeued(existing, run) ==
  [existing EXCEPT !.status = "UNCHANGED", !.seen = run, !.index = "PENDING"]

Touched(existing, run) ==
  [existing EXCEPT !.status = "UNCHANGED", !.seen = run]

\* Mutant: the index columns are left out of the UPDATE.
ReplacedKeepingIndex(existing, u, c, run) ==
  [existing EXCEPT !.url = u, !.content = c, !.status = "CHANGED", !.seen = run]

\* Mutant: a changed record is dated as if collected today.
ReplacedAndRedated(existing, u, c, run) ==
  [Inserted(u, c, run) EXCEPT !.status = "CHANGED"]

Replaced(existing, u, c, run) ==
  [ url |-> u, content |-> c, status |-> "CHANGED",
    index |-> "PENDING", embedding |-> None,
    collected |-> existing.collected, seen |-> run ]

\* Mutant: no hash comparison, every known record is rewritten.
SavedBlindly(existing, u, c, run) ==
  IF existing = NoRow THEN Inserted(u, c, run)
  ELSE Replaced(existing, u, c, run)

Saved(existing, u, c, run) ==
  IF existing = NoRow THEN Inserted(u, c, run)
  ELSE IF existing.content = c THEN Touched(existing, run)
  ELSE Replaced(existing, u, c, run)

\* Mutant: whatever is not NEW is counted as unchanged.
CountedTwoWays(summary, action) ==
  IF action = "NEW" THEN [summary EXCEPT !.added = @ + 1]
  ELSE [summary EXCEPT !.unchanged = @ + 1]

Counted(summary, action) ==
  IF action = "NEW" THEN [summary EXCEPT !.added = @ + 1]
  ELSE IF action = "CHANGED" THEN [summary EXCEPT !.changed = @ + 1]
  ELSE [summary EXCEPT !.unchanged = @ + 1]

(***************************************************************************)
(* plan_snapshot: a listed URL keeps the id of the row already stored for  *)
(* it; rows that no listed URL maps to, and that are not MISSING yet, are  *)
(* to be marked MISSING.                                                   *)
(***************************************************************************)
UniqueUrls(table) ==
  \A i, j \in Present(table) : table[i].url = table[j].url => i = j

\* Mutant: no reconciliation with legacy ids.
NotReconciled(table, u) == IdOf[u]

Reconciled(table, u) ==
  IF \E i \in Present(table) : table[i].url = u
  THEN CHOOSE i \in Present(table) : table[i].url = u
  ELSE IdOf[u]

\* Mutant: membership tested with the ids the listing derived.
UnobservedBeforeReconciling(table, obs) ==
  {i \in Present(table) :
     /\ \A u \in Listed(obs) : IdOf[u] # i
     /\ table[i].status # "MISSING"}

Unobserved(table, obs) ==
  {i \in Present(table) :
     /\ \A u \in Listed(obs) : Reconciled(table, u) # i
     /\ table[i].status # "MISSING"}

\* Mutant: the mark goes to the wrong column.
MarkedInIndexColumn(row) == [row EXCEPT !.index = "MISSING"]

MarkedMissing(row) == [row EXCEPT !.status = "MISSING"]

\* What a reader of the table who skips MISSING rows sees: <<URL, content>>.
Active(table) ==
  {<<table[i].url, table[i].content>> :
     i \in {j \in Present(table) : table[j].status # "MISSING"}}

AsPairs(obs) == {<<u, obs[u]>> : u \in Listed(obs)}
=============================================================================

------------------------------ MODULE LocalStore ------------------------------
(***************************************************************************)
(* Executions against LocalDataStore: one JSON file per record and per     *)
(* run, written one after the other, with backups that are written back    *)
(* when a write raises.  Executions of the development command line run    *)
(* one at a time; the process may be killed at any step.                   *)
(*                                                                         *)
(* open(path, "w") truncates before it writes: a write that raises, or a   *)
(* kill during a write, may leave the file Torn (not parseable).  Nothing  *)
(* reads a file while it is being written, so a write is one step and a    *)
(* kill may tear the file the next write would have produced.              *)
(***************************************************************************)
EXTENDS Records

CONSTANTS
  Complete,   \* save_complete_snapshot (TRUE) or save_records_and_run (FALSE)
  Torn,       \* a file that cannot be parsed
  MaxFaults   \* writes that may raise during one batch

ASSUME TornAssumption == Torn \notin CommonRecord \cup IngestionRun \cup {NoRow}
ASSUME FaultAssumption == Complete \in BOOLEAN /\ MaxFaults \in Nat

VARIABLES
  files,      \* records_dir
  runFiles,   \* runs_dir
  exec,       \* the current execution
  pc, mem, obs, target, todo, gone,
  backup,     \* the record files read before the batch
  restoring,  \* backups not written back yet
  faults,     \* writes that raised in this batch
  before      \* observation only: the record files when exec started

vars == <<files, runFiles, exec, pc, mem, obs, target, todo, gone, backup,
          restoring, faults, before>>

Ended == {"idle", "done", "killed"}
PC == {"collecting", "plan", "check", "save", "success", "mark",
       "inner", "outer", "reporting"} \cup Ended

File == CommonRecord \cup {NoRow, Torn}

TypeOK ==
  /\ files \in [RecordId -> File]
  /\ runFiles \in [Run -> IngestionRun \cup {NoRow, Torn}]
  /\ exec \in Run \cup {None}
  /\ pc \in PC
  /\ mem \in IngestionRun
  /\ obs \in Listing
  /\ target \in [Url -> RecordId]
  /\ todo \subseteq Url
  /\ gone \subseteq RecordId
  /\ backup \in [RecordId -> File]
  /\ restoring \subseteq RecordId
  /\ faults \in 0..MaxFaults
  /\ before \in [RecordId -> File]

Init ==
  /\ files \in SeedTables
  /\ runFiles = [r \in Run |-> NoRow]
  /\ exec = None
  /\ pc = "idle"
  /\ mem = NewRun("RUNNING")
  /\ obs = [u \in Url |-> None]
  /\ target = IdOf
  /\ todo = {}
  /\ gone = {}
  /\ backup = files
  /\ restoring = {}
  /\ faults = 0
  /\ before = files

batch == <<obs, target, todo, gone, backup, restoring, faults, before>>

\* What open("w") and write leave of a file when the write raises.
TornOrNot(dir, path) == {dir, [dir EXCEPT ![path] = Torn]}

(***************************************************************************)
(* run_listing up to the batch.                                            *)
(***************************************************************************)
Start(r) ==
  /\ pc \in Ended
  /\ runFiles[r] = NoRow
  /\ exec' = r
  /\ before' = files
  /\ obs' = [u \in Url |-> None]
  /\ faults' = 0
  /\ \/ /\ pc' = "collecting"
        /\ mem' = NewRun("RUNNING")
        /\ runFiles' = [runFiles EXCEPT ![r] = NewRun("RUNNING")]
     \/ /\ pc' = "reporting"                 \* save_run raised
        /\ mem' = NewRun("FAILED")
        /\ runFiles' \in TornOrNot(runFiles, r)
  /\ target' = IdOf
  /\ todo' = {}
  /\ gone' = {}
  /\ backup' = files
  /\ restoring' = {}
  /\ UNCHANGED files

Collected ==
  /\ pc = "collecting"
  /\ pc' = "plan"
  /\ mem' = [mem EXCEPT !.status = "SUCCESS"]
  /\ obs' \in {o \in Listing :
       /\ Listed(o) # {}
       /\ \A u, w \in Listed(o) : IdOf[u] = IdOf[w] => u = w}
  /\ UNCHANGED <<files, runFiles, exec, target, todo, gone, backup, restoring,
                 faults, before>>

CollectionFails ==
  /\ pc = "collecting"
  /\ pc' = "reporting"
  /\ \E status \in {"FAILED", "SUSPICIOUS_ZERO"} :
       mem' = [mem EXCEPT !.status = status]
  /\ UNCHANGED <<files, runFiles, exec, batch>>

(***************************************************************************)
(* save_complete_snapshot and save_records_and_run.                        *)
(***************************************************************************)
TornFiles == {i \in RecordId : files[i] = Torn}

Failed(summary) ==
  [summary EXCEPT !.status = "FAILED",
                  !.added = 0, !.changed = 0, !.unchanged = 0]

\* The collector's handler.
GiveUp == pc' = "reporting" /\ mem' = Failed(mem)

\* save_complete_snapshot reads and parses every record file, plans, and keeps
\* the files it may write in memory.
Plannable == Complete => TornFiles = {} /\ UniqueUrls(files)

Plan ==
  /\ pc = "plan"
  /\ Plannable
  /\ pc' = "check"
  /\ target' = IF Complete THEN [u \in Url |-> Reconciled(files, u)] ELSE IdOf
  /\ gone' = IF Complete THEN Unobserved(files, obs) ELSE {}
  /\ backup' = files
  /\ mem' = [mem EXCEPT !.missing = Cardinality(gone')]
  /\ UNCHANGED <<files, runFiles, exec, obs, todo, restoring, faults, before>>

PlanRefused ==
  /\ pc = "plan"
  /\ ~Plannable
  /\ GiveUp
  /\ UNCHANGED <<files, runFiles, exec, batch>>

\* Mutant: the duplicate check looks at the ids the listing derived.
DistinctBeforePlan(o, targets) ==
  \A u, w \in Listed(o) : IdOf[u] = IdOf[w] => u = w

DistinctTargets(o, targets) ==
  \A u, w \in Listed(o) : targets[u] = targets[w] => u = w

\* save_records_and_run starts.
OpenBatch ==
  /\ pc = "check"
  /\ DistinctTargets(obs, target)
  /\ pc' = "save"
  /\ todo' = Listed(obs)
  /\ mem' = [mem EXCEPT !.seen = Cardinality(Listed(obs))]
  /\ UNCHANGED <<files, runFiles, exec, obs, target, gone, backup, restoring,
                 faults, before>>

SaveRecord(u) ==
  LET i == target[u] IN
  /\ pc = "save"
  /\ u \in todo
  /\ files[i] # Torn
  /\ files' = [files EXCEPT ![i] = Saved(@, u, obs[u], exec)]
  /\ mem' = Counted(mem, Action(files[i], obs[u]))
  /\ todo' = todo \ {u}
  /\ pc' = IF todo' = {} THEN "success" ELSE "save"
  /\ UNCHANGED <<runFiles, exec, obs, target, gone, backup, restoring, faults, before>>

SaveSuccess ==
  /\ pc = "success"
  /\ runFiles' = [runFiles EXCEPT ![exec] = mem]
  /\ pc' = IF gone = {} THEN "done" ELSE "mark"
  /\ UNCHANGED <<files, exec, mem, batch>>

\* MISSING marks are written from the planned copies, after the run file.
Mark(i) ==
  /\ pc = "mark"
  /\ i \in gone
  /\ files' = [files EXCEPT ![i] = MarkedMissing(backup[i])]
  /\ gone' = gone \ {i}
  /\ pc' = IF gone' = {} THEN "done" ELSE "mark"
  /\ UNCHANGED <<runFiles, exec, mem, obs, target, todo, backup, restoring, faults, before>>

(***************************************************************************)
(* A write raises.  Inside save_records_and_run its own backups (the       *)
(* listed records, then the run file) are written back first, and          *)
(* save_complete_snapshot's (those of the missing records too) after that. *)
(***************************************************************************)
ListedFiles == {target[u] : u \in Listed(obs)}

\* Mutant: the batch trusts save_records_and_run to have restored everything.
AffectedListedOnly == ListedFiles

Affected == ListedFiles \cup Unobserved(backup, obs)

Raise ==
  /\ faults < MaxFaults
  /\ faults' = faults + 1

EnterInner ==
  /\ pc' = "inner"
  /\ restoring' = ListedFiles
  /\ UNCHANGED mem

\* Mutant: save_complete_snapshot has no handler of its own.
PropagateToCollector == GiveUp /\ restoring' = {}

\* The exception leaves the current handler, or the marking loop.
Propagate ==
  IF Complete /\ pc # "outer"
  THEN pc' = "outer" /\ restoring' = Affected /\ UNCHANGED mem
  ELSE GiveUp /\ restoring' = {}

DuplicateIds ==
  /\ pc = "check"
  /\ ~DistinctTargets(obs, target)
  /\ Propagate
  /\ UNCHANGED <<files, runFiles, exec, obs, target, todo, gone, backup, faults, before>>

\* A file of the batch is torn already (only without Complete), or the write
\* raises.
SaveRecordFails(u) ==
  /\ pc = "save"
  /\ u \in todo
  /\ \/ /\ files[target[u]] = Torn
        /\ UNCHANGED <<files, faults>>
     \/ /\ Raise
        /\ files' \in TornOrNot(files, target[u])
  /\ EnterInner
  /\ UNCHANGED <<runFiles, exec, obs, target, todo, gone, backup, before>>

SaveSuccessFails ==
  /\ pc = "success"
  /\ Raise
  /\ runFiles' \in TornOrNot(runFiles, exec)
  /\ EnterInner
  /\ UNCHANGED <<files, exec, obs, target, todo, gone, backup, before>>

MarkFails(i) ==
  /\ pc = "mark"
  /\ i \in gone
  /\ Raise
  /\ files' \in TornOrNot(files, i)
  /\ Propagate
  /\ UNCHANGED <<runFiles, exec, obs, target, todo, gone, backup, before>>

Restore(i) ==
  /\ pc \in {"inner", "outer"}
  /\ i \in restoring
  /\ files' = [files EXCEPT ![i] = backup[i]]
  /\ restoring' = restoring \ {i}
  /\ UNCHANGED <<runFiles, exec, pc, mem, obs, target, todo, gone, backup, faults, before>>

\* The run file comes last; then the exception is raised again.
RestoreRun ==
  /\ pc \in {"inner", "outer"}
  /\ restoring = {}
  /\ runFiles' = [runFiles EXCEPT ![exec] = NewRun("RUNNING")]
  /\ Propagate
  /\ UNCHANGED <<files, exec, obs, target, todo, gone, backup, faults, before>>

\* Writing a backup raises in turn: the remaining ones are skipped.
RestoreFails ==
  /\ pc \in {"inner", "outer"}
  /\ Raise
  /\ IF restoring # {}
     THEN /\ \E i \in restoring : files' \in TornOrNot(files, i)
          /\ UNCHANGED runFiles
     ELSE /\ runFiles' \in TornOrNot(runFiles, exec)
          /\ UNCHANGED files
  /\ Propagate
  /\ UNCHANGED <<exec, obs, target, todo, gone, backup, before>>

(***************************************************************************)
(* _save_failed_run, and the end of the process.                           *)
(***************************************************************************)
Report ==
  /\ pc = "reporting"
  /\ pc' = "done"
  /\ runFiles' \in {[runFiles EXCEPT ![exec] = mem]} \cup TornOrNot(runFiles, exec)
  /\ UNCHANGED <<files, exec, mem, batch>>

\* The record files a write may be under way to.
BeingWritten ==
  CASE pc = "save" -> {target[u] : u \in todo}
    [] pc = "mark" -> gone
    [] pc \in {"inner", "outer"} -> restoring
    [] OTHER -> {}

Kill ==
  /\ pc \notin Ended
  /\ pc' = "killed"
  /\ \/ UNCHANGED <<files, runFiles>>
     \/ \E i \in BeingWritten :
          files' = [files EXCEPT ![i] = Torn] /\ UNCHANGED runFiles
     \/ /\ pc \in {"success", "reporting"} \/ (pc \in {"inner", "outer"} /\ restoring = {})
        /\ runFiles' = [runFiles EXCEPT ![exec] = Torn]
        /\ UNCHANGED files
  /\ UNCHANGED <<exec, mem, batch>>

\* A developer removes a file that does not parse (external).
Remove(i) ==
  /\ pc \in Ended
  /\ files[i] = Torn
  /\ files' = [files EXCEPT ![i] = NoRow]
  /\ pc' = "idle"
  /\ UNCHANGED <<runFiles, exec, mem, batch>>

Next ==
  \/ \E r \in Run : Start(r)
  \/ Collected
  \/ CollectionFails
  \/ Plan
  \/ PlanRefused
  \/ OpenBatch
  \/ DuplicateIds
  \/ \E u \in Url : SaveRecord(u) \/ SaveRecordFails(u)
  \/ SaveSuccess
  \/ SaveSuccessFails
  \/ \E i \in RecordId : Mark(i) \/ MarkFails(i) \/ Restore(i) \/ Remove(i)
  \/ RestoreRun
  \/ RestoreFails
  \/ Report
  \/ Kill

Spec == Init /\ [][Next]_vars

(***************************************************************************)
(* Properties.                                                             *)
(***************************************************************************)

\* When a complete snapshot returns, every file parses, the files that are not
\* MISSING are one for each observed record, with the observed content, and
\* the run file says so - whatever torn, half-written or half-restored files
\* and legacy ids earlier executions left.
PublishedExact ==
  Complete /\ pc = "done" /\ mem.status = "SUCCESS" =>
    /\ TornFiles = {}
    /\ \A u, w \in Listed(obs) : target[u] = target[w] => u = w
    /\ {<<i, files[i].content>> :
          i \in {j \in Present(files) : files[j].status # "MISSING"}}
         = {<<target[u], obs[u]>> : u \in Listed(obs)}
    /\ runFiles[exec] = mem

\* A restore that completes puts back every record file as it was before the
\* execution and the run file as RUNNING, whichever writes raised before it:
\* a record, the run, a MISSING mark, or the inner restore.
RestoredExactly ==
  [][/\ pc \in {"inner", "outer"}
     /\ pc' = "reporting"
     /\ faults' = faults
     => files' = before /\ runFiles'[exec] = NewRun("RUNNING")]_vars

\* The first write of a batch that raises is always undone: the execution ends
\* with every record as before it and without a SUCCESS run ("all-or-nothing
\* behaviour when a write raises").  A batch refused for duplicate ids, or for
\* a listed file that a bounded batch cannot parse, is excepted: there the first
\* write that raises is itself part of the restore.
FirstFaultUndone ==
  /\ pc = "done" /\ mem.status # "SUCCESS"
  /\ faults <= 1
  /\ DistinctTargets(obs, target)
  /\ Complete \/ \A u \in Listed(obs) : before[target[u]] # Torn
  => /\ files = before
     /\ runFiles[exec] \notin {NoRow, Torn} => runFiles[exec].status # "SUCCESS"

\* The counts of a SUCCESS run are the difference between the files before and
\* after it, whichever files were missing, marked or reconciled.
LocalAudit ==
  pc = "done" /\ mem.status = "SUCCESS" =>
    LET old == {i \in RecordId : before[i] # NoRow}
        saved == {i \in Present(files) \ TornFiles : files[i].seen = exec}
    IN /\ mem.seen = Cardinality(saved)
       /\ mem.added = Cardinality(saved \ old)
       /\ mem.changed =
            Cardinality({i \in old \cap saved : files[i].content # before[i].content})
       /\ mem.unchanged =
            Cardinality({i \in old \cap saved : files[i].content = before[i].content})
       /\ mem.missing =
            Cardinality({i \in old \ saved : files[i] # before[i]})
=============================================================================

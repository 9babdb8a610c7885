--------------------------- MODULE LocalStoreProofs ---------------------------
(***************************************************************************)
(* Theorems about LocalStore, for any number of executions, URLs and ids,  *)
(* in both modes and with any number of writes that raise.                 *)
(***************************************************************************)
EXTENDS LocalStore, FiniteSetTheorems, TLAPS

Row == CommonRecord \cup {NoRow}

LEMMA SavedRow ==
  ASSUME NEW existing \in Row, NEW u \in Url, NEW c \in Content, NEW run \in Run
  PROVE  /\ Saved(existing, u, c, run) \in CommonRecord
         /\ Saved(existing, u, c, run).content = c
         /\ Saved(existing, u, c, run).seen = run
         /\ Saved(existing, u, c, run).status # "MISSING"
  BY DEF Row, Saved, Inserted, Touched, Replaced, CommonRecord, RecordStatus, IndexStatus

LEMMA MarkedRow ==
  ASSUME NEW row \in CommonRecord
  PROVE  /\ MarkedMissing(row) \in CommonRecord
         /\ MarkedMissing(row).seen = row.seen
         /\ MarkedMissing(row).status = "MISSING"
         /\ MarkedMissing(row) = row <=> row.status = "MISSING"
  BY DEF MarkedMissing, CommonRecord, RecordStatus

\* Neither a row nor a run is the absence of one, or a file that is torn.
LEMMA Kinds ==
  /\ NoRow \notin CommonRecord \cup IngestionRun
  /\ Torn \notin CommonRecord \cup IngestionRun /\ Torn # NoRow
  BY NoRowAssumption, TornAssumption

LEMMA SummaryTypes ==
  /\ \A status \in IngestionRunStatus :
       NewRun(status) \in IngestionRun /\ NewRun(status).status = status
  /\ \A summary \in IngestionRun :
       /\ Failed(summary) \in IngestionRun /\ Failed(summary).status = "FAILED"
       /\ \A status \in IngestionRunStatus :
            LET ended == [summary EXCEPT !.status = status]
            IN /\ ended \in IngestionRun /\ ended.status = status
               /\ ended.added = summary.added /\ ended.changed = summary.changed
               /\ ended.unchanged = summary.unchanged
       /\ \A action :
            /\ Counted(summary, action) \in IngestionRun
            /\ Counted(summary, action).status = summary.status
            /\ Counted(summary, action).seen = summary.seen
            /\ Counted(summary, action).missing = summary.missing
       /\ \A n \in Nat : /\ [summary EXCEPT !.seen = n] \in IngestionRun
                         /\ [summary EXCEPT !.missing = n] \in IngestionRun
                         /\ [summary EXCEPT !.seen = n].status = summary.status
                         /\ [summary EXCEPT !.missing = n].status = summary.status
  <1>1. ASSUME NEW status \in IngestionRunStatus
        PROVE  NewRun(status) \in IngestionRun /\ NewRun(status).status = status
    BY DEF NewRun, IngestionRun
  <1>2. ASSUME NEW summary \in IngestionRun
        PROVE  Failed(summary) \in IngestionRun /\ Failed(summary).status = "FAILED"
    BY DEF Failed, IngestionRun, IngestionRunStatus
  <1>3. ASSUME NEW summary \in IngestionRun, NEW status \in IngestionRunStatus
        PROVE  LET ended == [summary EXCEPT !.status = status]
               IN /\ ended \in IngestionRun /\ ended.status = status
                  /\ ended.added = summary.added /\ ended.changed = summary.changed
                  /\ ended.unchanged = summary.unchanged
    BY DEF IngestionRun
  <1>4. ASSUME NEW summary \in IngestionRun, NEW action
        PROVE  /\ Counted(summary, action) \in IngestionRun
               /\ Counted(summary, action).status = summary.status
               /\ Counted(summary, action).seen = summary.seen
               /\ Counted(summary, action).missing = summary.missing
    BY DEF Counted, IngestionRun
  <1>5. ASSUME NEW summary \in IngestionRun, NEW n \in Nat
        PROVE  /\ [summary EXCEPT !.seen = n] \in IngestionRun
               /\ [summary EXCEPT !.missing = n] \in IngestionRun
               /\ [summary EXCEPT !.seen = n].status = summary.status
               /\ [summary EXCEPT !.missing = n].status = summary.status
    BY DEF IngestionRun
  <1> QED BY <1>1, <1>2, <1>3, <1>4, <1>5

LEMMA SizeTypes ==
  /\ \A o : Cardinality(Listed(o)) \in Nat /\ IsFiniteSet(Listed(o))
  /\ \A S \in SUBSET RecordId : Cardinality(S) \in Nat /\ IsFiniteSet(S)
  <1>1. ASSUME NEW o PROVE Cardinality(Listed(o)) \in Nat /\ IsFiniteSet(Listed(o))
    <2>1. Listed(o) \subseteq Url
      BY DEF Listed
    <2> QED BY <2>1, FiniteUrlAssumption, FS_Subset, FS_CardinalityType
  <1>2. ASSUME NEW S \in SUBSET RecordId PROVE Cardinality(S) \in Nat /\ IsFiniteSet(S)
    BY FiniteIdAssumption, FS_Subset, FS_CardinalityType
  <1> QED BY <1>1, <1>2

(***************************************************************************)
(* Types, and where a batch is.  The observation "before" is the backup.   *)
(***************************************************************************)
Planned == IF Complete THEN Unobserved(before, obs) ELSE {}

Targets == IF Complete THEN [u \in Url |-> Reconciled(before, u)] ELSE IdOf

Preparing == {"collecting", "plan", "check"}

BatchTypes ==
  /\ todo \subseteq Listed(obs)
  /\ backup = before
  /\ \A i \in gone : before[i] \in CommonRecord
  /\ pc # "idle" => exec \in Run
  /\ pc \in Preparing => todo = {} /\ files = before
  /\ pc \in {"collecting", "plan"} =>
       gone = {} /\ mem.added = 0 /\ mem.changed = 0 /\ mem.unchanged = 0
  /\ pc = "reporting" => mem.status # "SUCCESS"
  /\ pc \in {"plan", "check", "save", "success", "mark"} => mem.status = "SUCCESS"
  /\ pc \in Preparing \cup {"save", "success"} => runFiles[exec] = NewRun("RUNNING")

TypeInv == TypeOK /\ BatchTypes

LEMMA TypeInit == Init => TypeInv
  <1> SUFFICES ASSUME Init PROVE TypeInv
    OBVIOUS
  <1>1. files \in [RecordId -> File]
    <2>1. SeedRecords \subseteq CommonRecord
      BY DEF SeedRecords, CommonRecord, RecordStatus, IndexStatus
    <2> QED BY <2>1 DEF Init, SeedTables, File
  <1>2. NewRun("RUNNING") \in IngestionRun
    BY SummaryTypes DEF IngestionRunStatus
  <1>3. TypeOK
    BY <1>1, <1>2, IdOfAssumption, FaultAssumption
    DEF Init, TypeOK, PC, Ended, Listing
  <1>4. BatchTypes
    BY DEF Init, BatchTypes, Preparing
  <1> QED BY <1>3, <1>4 DEF TypeInv

\* A file that a write leaves is the old one or torn.
LEMMA TearsOne ==
  ASSUME NEW S, NEW T, NEW dir \in [S -> T], Torn \in T, NEW path, NEW left,
         left \in TornOrNot(dir, path)
  PROVE  /\ left \in [S -> T]
         /\ \A p \in S : left[p] = dir[p] \/ (p = path /\ left[p] = Torn)
  BY DEF TornOrNot

LEMMA TypeStep == TypeInv /\ [Next]_vars => TypeInv'
  <1> SUFFICES ASSUME TypeInv, [Next]_vars PROVE TypeInv'
    OBVIOUS
  <1> USE DEF TypeInv
  <1> DEFINE RunFile == IngestionRun \cup {NoRow, Torn}
  <1>1. /\ Torn \in File /\ NoRow \in File /\ Torn \in RunFile
        /\ files \in [RecordId -> File] /\ runFiles \in [Run -> RunFile]
        /\ backup \in [RecordId -> File] /\ before \in [RecordId -> File]
        /\ mem \in IngestionRun /\ mem \in RunFile /\ NewRun("RUNNING") \in RunFile
        /\ obs \in Listing /\ target \in [Url -> RecordId]
    BY SummaryTypes DEF File, TypeOK, IngestionRunStatus
  <1>2. ASSUME NEW r \in Run, Start(r) PROVE TypeInv'
    <2>1. /\ exec' = r /\ before' = files /\ backup' = files /\ UNCHANGED files
          /\ obs' = [u \in Url |-> None] /\ faults' = 0 /\ target' = IdOf
          /\ todo' = {} /\ gone' = {} /\ restoring' = {}
      BY <1>2 DEF Start
    <2>2. CASE /\ pc' = "collecting" /\ mem' = NewRun("RUNNING")
               /\ runFiles' = [runFiles EXCEPT ![r] = NewRun("RUNNING")]
      <3>1. mem' \in IngestionRun /\ mem'.added = 0 /\ mem'.changed = 0 /\ mem'.unchanged = 0
        BY <2>2, SummaryTypes DEF IngestionRunStatus, NewRun
      <3>2. runFiles' \in [Run -> RunFile] /\ runFiles'[r] = NewRun("RUNNING")
        BY <1>1, <1>2, <2>2
      <3>3. TypeOK'
        BY <1>1, <1>2, <2>1, <2>2, <3>1, <3>2, IdOfAssumption, FaultAssumption
        DEF TypeOK, PC, Listing
      <3>4. BatchTypes'
        BY <1>2, <2>1, <2>2, <3>1, <3>2 DEF BatchTypes, Preparing
      <3> QED BY <3>3, <3>4
    <2>3. CASE /\ pc' = "reporting" /\ mem' = NewRun("FAILED")
               /\ runFiles' \in TornOrNot(runFiles, r)
      <3>1. mem' \in IngestionRun /\ mem'.status # "SUCCESS"
        BY <2>3, SummaryTypes DEF IngestionRunStatus
      <3>2. runFiles' \in [Run -> RunFile]
        BY <1>1, <2>3, TearsOne
      <3>3. TypeOK'
        BY <1>1, <1>2, <2>1, <2>3, <3>1, <3>2, IdOfAssumption, FaultAssumption
        DEF TypeOK, PC, Listing
      <3>4. BatchTypes'
        BY <1>2, <2>1, <2>3, <3>1 DEF BatchTypes, Preparing
      <3> QED BY <3>3, <3>4
    <2> QED BY <1>2, <2>2, <2>3 DEF Start
  <1>3. CASE Collected
    <2>1. mem' \in IngestionRun /\ mem'.added = mem.added /\ mem'.changed = mem.changed
          /\ mem'.unchanged = mem.unchanged /\ mem'.status = "SUCCESS"
      BY <1>1, <1>3, SummaryTypes DEF Collected, IngestionRunStatus
    <2>2. obs' \in Listing
      BY <1>3 DEF Collected
    <2>3. TypeOK'
      BY <1>3, <2>1, <2>2 DEF Collected, TypeOK, PC
    <2>4. BatchTypes'
      BY <1>3, <2>1 DEF Collected, BatchTypes, Preparing
    <2> QED BY <2>3, <2>4
  <1>4. CASE CollectionFails
    <2>1. mem' \in IngestionRun /\ mem'.status # "SUCCESS"
      <3>1. PICK status \in {"FAILED", "SUSPICIOUS_ZERO"} : mem' = [mem EXCEPT !.status = status]
        BY <1>4 DEF CollectionFails
      <3> QED BY <1>1, <3>1, SummaryTypes DEF IngestionRunStatus
    <2>2. TypeOK'
      BY <1>4, <2>1 DEF CollectionFails, TypeOK, PC, batch
    <2>3. BatchTypes'
      BY <1>4, <2>1 DEF CollectionFails, batch, BatchTypes, Preparing
    <2> QED BY <2>2, <2>3
  <1>5. CASE PlanRefused
    <2>1. mem' \in IngestionRun /\ mem'.status # "SUCCESS" /\ pc' = "reporting"
      BY <1>1, <1>5, SummaryTypes DEF PlanRefused, GiveUp
    <2> QED
      BY <1>5, <2>1 DEF PlanRefused, TypeOK, PC, batch, BatchTypes, Preparing
  <1>6. CASE Plan
    <2>1. Unobserved(files, obs) \subseteq Present(files)
          /\ Present(files) \subseteq RecordId
      BY DEF Unobserved, Present
    <2>2. gone' \subseteq RecordId /\ \A i \in gone' : files[i] \in CommonRecord
      BY <1>1, <1>6, <2>1 DEF Plan, Plannable, TornFiles, Present, File
    <2>3. mem' \in IngestionRun /\ mem'.status = mem.status
          /\ UNCHANGED <<exec, files, before, runFiles>>
      BY <1>1, <1>6, <2>2, SummaryTypes, SizeTypes DEF Plan
    <2>4. target' \in [Url -> RecordId]
      <3>1. ASSUME NEW u \in Url PROVE Reconciled(files, u) \in RecordId
        BY IdOfAssumption DEF Reconciled, Present
      <3> QED BY <1>6, <3>1, IdOfAssumption DEF Plan
    <2>5. TypeOK'
      BY <1>1, <1>6, <2>2, <2>3, <2>4 DEF Plan, TypeOK, PC
    <2>6. BatchTypes'
      BY <1>6, <2>2, <2>3 DEF Plan, BatchTypes, Preparing
    <2> QED BY <2>5, <2>6
  <1>7. CASE OpenBatch
    <2>1. mem' \in IngestionRun /\ mem'.status = mem.status
      BY <1>1, <1>7, SummaryTypes, SizeTypes DEF OpenBatch
    <2>2. Listed(obs) \subseteq Url
      BY DEF Listed
    <2> QED
      BY <1>7, <2>1, <2>2 DEF OpenBatch, TypeOK, PC, BatchTypes, Preparing, Listed
  <1>8. ASSUME NEW u \in Url, SaveRecord(u) PROVE TypeInv'
    <2> DEFINE i == target[u]
    <2>1. i \in RecordId /\ u \in Listed(obs) /\ obs[u] \in Content /\ exec \in Run
      BY <1>1, <1>8 DEF SaveRecord, BatchTypes, Listed, Listing
    <2>2. files[i] \in Row
      BY <1>1, <1>8, <2>1 DEF SaveRecord, File, Row
    <2>3. Saved(files[i], u, obs[u], exec) \in CommonRecord
      BY <2>1, <2>2, SavedRow
    <2>4. files' = [files EXCEPT ![i] = Saved(files[i], u, obs[u], exec)]
      BY <1>8 DEF SaveRecord
    <2> HIDE DEF i
    <2>5. files' \in [RecordId -> File]
      BY <1>1, <2>1, <2>3, <2>4 DEF File
    <2>6. mem' \in IngestionRun /\ mem'.status = mem.status
      BY <1>1, <1>8, SummaryTypes DEF SaveRecord
    <2>7. TypeOK' /\ BatchTypes'
      BY <1>8, <2>5, <2>6 DEF SaveRecord, TypeOK, PC, BatchTypes, Preparing
    <2> QED BY <2>7
  <1>9. CASE SaveSuccess
    <2>1. exec \in Run
      BY <1>9 DEF SaveSuccess, BatchTypes
    <2>2. runFiles' \in [Run -> RunFile]
      BY <1>1, <1>9, <2>1 DEF SaveSuccess
    <2> QED
      BY <1>9, <2>2 DEF SaveSuccess, TypeOK, PC, Ended, batch, BatchTypes, Preparing
  <1>10. ASSUME NEW i \in RecordId, Mark(i) PROVE TypeInv'
    <2>1. MarkedMissing(backup[i]) \in CommonRecord
      BY <1>10, MarkedRow DEF Mark, BatchTypes
    <2>2. files' \in [RecordId -> File]
      BY <1>1, <1>10, <2>1 DEF Mark, File
    <2> QED
      BY <1>10, <2>2 DEF Mark, TypeOK, PC, Ended, BatchTypes, Preparing
  <1> DEFINE Leaves ==
        /\ pc # "idle" /\ pc' \in {"inner", "outer", "reporting"}
        /\ UNCHANGED <<exec, obs, target, todo, gone, backup, before>>
        /\ files' \in [RecordId -> File] /\ runFiles' \in [Run -> RunFile]
        /\ faults' \in 0..MaxFaults
        /\ \/ UNCHANGED mem /\ pc' # "reporting"
           \/ mem' = Failed(mem)
        /\ restoring' \subseteq RecordId
  <1>11. ASSUME Leaves PROVE TypeInv'
    <2>1. mem' \in IngestionRun /\ (pc' = "reporting" => mem'.status # "SUCCESS")
      BY <1>1, <1>11, SummaryTypes
    <2>2. TypeOK'
      BY <1>11, <2>1 DEF TypeOK, PC
    <2>3. BatchTypes'
      BY <1>11, <2>1 DEF BatchTypes, Preparing
    <2> QED BY <2>2, <2>3
  <1>12. ASSUME Propagate PROVE /\ pc' \in {"outer", "reporting"} /\ restoring' \subseteq RecordId
                               /\ \/ UNCHANGED mem /\ pc' # "reporting"
                                  \/ mem' = Failed(mem)
    <2>1. Affected \subseteq RecordId
      BY <1>1 DEF Affected, ListedFiles, Listed, Unobserved, Present
    <2> QED BY <1>12, <2>1 DEF Propagate, GiveUp
  <1>13. ASSUME EnterInner PROVE pc' = "inner" /\ restoring' \subseteq RecordId /\ UNCHANGED mem
    BY <1>1, <1>13 DEF EnterInner, ListedFiles, Listed
  <1>14. ASSUME Raise PROVE faults' \in 0..MaxFaults
    BY <1>14, FaultAssumption DEF Raise, TypeOK
  <1>15. faults \in 0..MaxFaults
    BY DEF TypeOK
  <1>16. CASE DuplicateIds
    BY <1>1, <1>11, <1>12, <1>15, <1>16 DEF DuplicateIds
  <1>17. ASSUME NEW u \in Url, SaveRecordFails(u) PROVE TypeInv'
    <2>1. files' \in [RecordId -> File] /\ faults' \in 0..MaxFaults
      BY <1>1, <1>14, <1>15, <1>17, TearsOne DEF SaveRecordFails
    <2> QED BY <1>1, <1>11, <1>13, <1>17, <2>1 DEF SaveRecordFails
  <1>18. CASE SaveSuccessFails
    <2>1. runFiles' \in [Run -> RunFile]
      BY <1>1, <1>18, TearsOne DEF SaveSuccessFails
    <2> QED BY <1>1, <1>11, <1>13, <1>14, <1>18, <2>1 DEF SaveSuccessFails
  <1>19. ASSUME NEW i \in RecordId, MarkFails(i) PROVE TypeInv'
    <2>1. files' \in [RecordId -> File]
      BY <1>1, <1>19, TearsOne DEF MarkFails
    <2> QED BY <1>1, <1>11, <1>12, <1>14, <1>19, <2>1 DEF MarkFails
  <1>20. ASSUME NEW i \in RecordId, Restore(i) PROVE TypeInv'
    <2>1. files' \in [RecordId -> File] /\ restoring' \subseteq RecordId
      BY <1>1, <1>20 DEF Restore, TypeOK
    <2> QED BY <1>1, <1>11, <1>15, <1>20, <2>1 DEF Restore
  <1>21. CASE RestoreRun
    <2>1. runFiles' \in [Run -> RunFile]
      BY <1>1, <1>21 DEF RestoreRun
    <2> QED BY <1>1, <1>11, <1>12, <1>15, <1>21, <2>1 DEF RestoreRun
  <1>22. CASE RestoreFails
    <2>1. files' \in [RecordId -> File] /\ runFiles' \in [Run -> RunFile]
      BY <1>1, <1>22, TearsOne DEF RestoreFails
    <2> QED BY <1>1, <1>11, <1>12, <1>14, <1>22, <2>1 DEF RestoreFails
  <1>23. CASE Report
    <2>1. exec \in Run /\ pc = "reporting" /\ pc' = "done"
          /\ UNCHANGED <<files, exec, mem, batch>>
      BY <1>23 DEF Report, BatchTypes
    <2>2. runFiles' \in [Run -> RunFile]
      <3>1. CASE runFiles' = [runFiles EXCEPT ![exec] = mem]
        BY <1>1, <2>1, <3>1
      <3>2. CASE runFiles' \in TornOrNot(runFiles, exec)
        BY <1>1, <3>2, TearsOne
      <3> QED BY <1>23, <3>1, <3>2 DEF Report
    <2> QED BY <2>1, <2>2 DEF batch, TypeOK, PC, Ended, BatchTypes, Preparing
  <1>24. CASE Kill
    <2>1. /\ pc \notin Ended /\ pc' = "killed" /\ UNCHANGED <<exec, mem, batch>>
      BY <1>24 DEF Kill
    <2>2. files' \in [RecordId -> File] /\ runFiles' \in [Run -> RunFile]
      BY <1>1, <1>24 DEF Kill
    <2>3. TypeOK'
      BY <2>1, <2>2 DEF TypeOK, PC, Ended, batch
    <2> QED BY <2>1, <2>3 DEF batch, Ended, BatchTypes, Preparing
  <1>25. ASSUME NEW i \in RecordId, Remove(i) PROVE TypeInv'
    <2>1. files' \in [RecordId -> File]
      BY <1>1, <1>25 DEF Remove
    <2>2. TypeOK'
      BY <1>25, <2>1 DEF Remove, TypeOK, PC, Ended, batch
    <2> QED BY <1>25, <2>2 DEF Remove, batch, BatchTypes, Preparing
  <1>26. CASE UNCHANGED vars
    BY <1>26 DEF vars, TypeOK, BatchTypes
  <1> QED
    BY <1>2, <1>3, <1>4, <1>5, <1>6, <1>7, <1>8, <1>9, <1>10, <1>16, <1>17, <1>18,
       <1>19, <1>20, <1>21, <1>22, <1>23, <1>24, <1>25, <1>26
    DEF Next

LEMMA TypeInvariant == Spec => []TypeInv
  BY TypeInit, TypeStep, PTL DEF Spec

\* Every variable keeps its type, and a backup is only ever a file as it was
\* before the execution.
THEOREM TypeCorrect == Spec => []TypeOK
  BY TypeInvariant, PTL DEF TypeInv

(***************************************************************************)
(* The batch.  From the plan on, every file is as the plan has it: saved,  *)
(* marked, or as it was before; the counters count the files saved so far. *)
(***************************************************************************)
Saving == pc \in {"save", "success", "mark"} \/ (pc = "done" /\ mem.status = "SUCCESS")

Written == {target[u] : u \in Listed(obs) \ todo}

Marked == Planned \ gone

New == {i \in Written : before[i] = NoRow}
Changed == {i \in Written : before[i] # NoRow /\ files[i].content # before[i].content}
Unchanged == {i \in Written : before[i] # NoRow /\ files[i].content = before[i].content}

PlanMade ==
  /\ target = Targets
  /\ gone \subseteq Planned
  /\ pc \in {"check", "save", "success"} => gone = Planned
  /\ \A i \in Planned : before[i] \in CommonRecord
  /\ Complete => \A i \in RecordId : before[i] # Torn
  /\ mem.missing = Cardinality(Planned)

FilesExact ==
  /\ \A u \in Listed(obs) \ todo :
       /\ before[target[u]] # Torn
       /\ files[target[u]] = Saved(before[target[u]], u, obs[u], exec)
  /\ \A i \in Marked : files[i] = MarkedMissing(before[i])
  /\ \A i \in RecordId \ (Written \cup Marked) : files[i] = before[i]

CountsExact ==
  /\ mem.added = Cardinality(New)
  /\ mem.changed = Cardinality(Changed)
  /\ mem.unchanged = Cardinality(Unchanged)

Progress ==
  /\ pc = "check" =>
       PlanMade /\ mem.added = 0 /\ mem.changed = 0 /\ mem.unchanged = 0
  /\ Saving =>
       /\ PlanMade /\ FilesExact /\ CountsExact
       /\ DistinctTargets(obs, target)
       /\ mem.seen = Cardinality(Listed(obs))
       /\ pc # "save" => todo = {}
       /\ pc = "done" => gone = {}
       /\ pc \in {"mark", "done"} => runFiles[exec] = mem

\* A file that is to be marked is not that of a listed URL.
LEMMA PlannedApart ==
  ASSUME TypeInv, PlanMade, NEW u \in Listed(obs)
  PROVE  target[u] \in RecordId /\ target[u] \notin Planned
  <1>1. target[u] \in RecordId
    BY DEF TypeInv, TypeOK, Listed
  <1>2. CASE Complete
    BY <1>1, <1>2 DEF Planned, Targets, Unobserved, PlanMade, Listed
  <1>3. CASE ~Complete
    BY <1>1, <1>3 DEF Planned
  <1> QED BY <1>2, <1>3, <1>1

LEMMA PlanProgress ==
  ASSUME TypeInv, Plan
  PROVE  Progress'
  <1>1. /\ files = before /\ pc' = "check" /\ ~Saving'
        /\ UNCHANGED <<files, obs, before, exec>>
        /\ mem.added = 0 /\ mem.changed = 0 /\ mem.unchanged = 0
        /\ mem \in IngestionRun
    BY DEF TypeInv, TypeOK, BatchTypes, Preparing, Plan, Saving
  <1>2. target' = Targets' /\ gone' = Planned'
    BY <1>1 DEF Plan, Targets, Planned
  <1>3. mem'.missing = Cardinality(gone') /\ mem'.added = 0 /\ mem'.changed = 0
        /\ mem'.unchanged = 0
    BY <1>1 DEF Plan, IngestionRun
  <1>4. Complete => \A i \in RecordId : before[i] # Torn
    BY <1>1 DEF Plan, Plannable, TornFiles
  <1>5. \A i \in Planned' : before[i] \in CommonRecord
    BY <1>1, <1>4 DEF Planned, Unobserved, Present, TypeInv, TypeOK, File
  <1>6. PlanMade'
    BY <1>1, <1>2, <1>3, <1>4, <1>5 DEF PlanMade
  <1> QED BY <1>1, <1>3, <1>6 DEF Progress

LEMMA OpenProgress ==
  ASSUME TypeInv, Progress, OpenBatch
  PROVE  Progress'
  <1>1. /\ pc = "check" /\ pc' = "save" /\ files = before /\ gone = Planned
        /\ todo' = Listed(obs) /\ DistinctTargets(obs, target)
        /\ UNCHANGED <<files, obs, target, gone, before, exec>>
        /\ mem \in IngestionRun /\ mem' = [mem EXCEPT !.seen = Cardinality(Listed(obs))]
    BY DEF TypeInv, TypeOK, BatchTypes, Preparing, OpenBatch, Progress, PlanMade
  <1>2. /\ mem'.added = 0 /\ mem'.changed = 0 /\ mem'.unchanged = 0
        /\ mem'.seen = Cardinality(Listed(obs)) /\ mem'.missing = mem.missing
    BY <1>1 DEF Progress, IngestionRun
  <1>3. Written' = {} /\ Marked' = {} /\ Planned' = Planned /\ Targets' = Targets
    BY <1>1 DEF Written, Marked, Planned, Targets
  <1>4. New' = {} /\ Changed' = {} /\ Unchanged' = {}
    BY <1>3 DEF New, Changed, Unchanged
  <1>5. PlanMade'
    BY <1>1, <1>2, <1>3 DEF Progress, PlanMade
  <1>6. FilesExact'
    BY <1>1, <1>3 DEF FilesExact
  <1>7. CountsExact'
    BY <1>2, <1>4, FS_EmptySet DEF CountsExact
  <1>8. DistinctTargets(obs, target)'
    BY <1>1 DEF DistinctTargets
  <1> QED BY <1>1, <1>2, <1>5, <1>6, <1>7, <1>8 DEF Progress

LEMMA SaveProgress ==
  ASSUME TypeInv, Progress, NEW u \in Url, SaveRecord(u)
  PROVE  Progress'
  <1> DEFINE i == target[u]
             final == Saved(before[i], u, obs[u], exec)
  <1>1. /\ pc = "save" /\ u \in todo /\ files[i] # Torn
        /\ todo' = todo \ {u} /\ mem' = Counted(mem, Action(files[i], obs[u]))
        /\ pc' \in {"save", "success"} /\ (pc' = "success" => todo' = {})
        /\ UNCHANGED <<runFiles, exec, obs, target, gone, before>>
    BY DEF SaveRecord
  <1>2. /\ PlanMade /\ FilesExact /\ CountsExact /\ DistinctTargets(obs, target)
        /\ mem.seen = Cardinality(Listed(obs)) /\ gone = Planned
    BY <1>1 DEF Progress, Saving, PlanMade
  <1>3. /\ u \in Listed(obs) /\ todo \subseteq Listed(obs) /\ obs[u] \in Content
        /\ i \in RecordId /\ exec \in Run /\ mem \in IngestionRun
        /\ files \in [RecordId -> File] /\ before \in [RecordId -> File]
    BY <1>1 DEF TypeInv, TypeOK, BatchTypes, Listed, Listing
  <1>4. i \notin Written /\ i \notin Marked
    BY <1>1, <1>2, <1>3 DEF Written, Marked, DistinctTargets
  <1>5. files[i] = before[i] /\ before[i] \in Row
    BY <1>1, <1>2, <1>3, <1>4 DEF FilesExact, File, Row
  <1>6. files' = [files EXCEPT ![i] = final]
    BY <1>5 DEF SaveRecord
  <1>7. final \in CommonRecord /\ final.content = obs[u]
    BY <1>3, <1>5, SavedRow
  <1>8. Written' = Written \cup {i}
    BY <1>1, <1>3 DEF Written
  <1>9. Planned' = Planned /\ Targets' = Targets /\ Marked' = Marked
    BY <1>1 DEF Planned, Targets, Marked
  <1> HIDE DEF i, final
  <1>10. files'[i] = final /\ \A k \in RecordId : k # i => files'[k] = files[k]
    BY <1>3, <1>6
  <1>11. PlanMade'
    <2>1. mem'.missing = mem.missing
      BY <1>1, <1>3, SummaryTypes
    <2> QED BY <1>1, <1>2, <1>9, <2>1 DEF PlanMade
  <1>12. Written \subseteq RecordId /\ Marked \subseteq RecordId
    BY <1>3 DEF Written, Marked, Planned, Unobserved, Present, TypeInv, TypeOK, Listed
  <1>13. FilesExact'
    <2>1. ASSUME NEW w \in Listed(obs) \ todo'
          PROVE  /\ before[target[w]] # Torn
                 /\ files'[target[w]] = Saved(before[target[w]], w, obs[w], exec)
      <3>1. CASE w = u
        BY <1>5, <1>10, <3>1, Kinds DEF i, final, Row
      <3>2. CASE w # u
        <4>1. w \in Listed(obs) \ todo /\ target[w] \in Written
          BY <1>1, <2>1, <3>2 DEF Written
        <4> QED BY <1>2, <1>4, <1>10, <1>12, <4>1 DEF FilesExact
      <3> QED BY <3>1, <3>2
    <2>2. \A k \in Marked : files'[k] = MarkedMissing(before[k])
      BY <1>2, <1>4, <1>10, <1>12 DEF FilesExact
    <2>3. \A k \in RecordId \ (Written' \cup Marked) : files'[k] = before[k]
      BY <1>2, <1>8, <1>10 DEF FilesExact
    <2>4. Listed(obs)' = Listed(obs)
      BY <1>1 DEF Listed
    <2> QED BY <1>1, <1>9, <2>1, <2>2, <2>3, <2>4 DEF FilesExact
  <1>14. CountsExact'
    <2>1. IsFiniteSet(New) /\ IsFiniteSet(Changed) /\ IsFiniteSet(Unchanged)
      <3>1. New \subseteq RecordId /\ Changed \subseteq RecordId /\ Unchanged \subseteq RecordId
        BY <1>12 DEF New, Changed, Unchanged
      <3> QED BY <3>1, SizeTypes
    <2>2. i \notin New /\ i \notin Changed /\ i \notin Unchanged
      BY <1>4 DEF New, Changed, Unchanged
    <2>3. /\ mem.added = Cardinality(New) /\ mem.changed = Cardinality(Changed)
          /\ mem.unchanged = Cardinality(Unchanged)
      BY <1>2 DEF CountsExact
    <2>4. \A k \in Written : files'[k] = files[k]
      BY <1>4, <1>10, <1>12
    <2>5. mem' = Counted(mem, Action(before[i], obs[u]))
      BY <1>1, <1>5 DEF i
    <2>6. /\ Cardinality(New \cup {i}) = Cardinality(New) + 1
          /\ Cardinality(Changed \cup {i}) = Cardinality(Changed) + 1
          /\ Cardinality(Unchanged \cup {i}) = Cardinality(Unchanged) + 1
      BY <2>1, <2>2, FS_AddElement
    <2>7. CASE before[i] = NoRow
      <3>1. New' = New \cup {i} /\ Changed' = Changed /\ Unchanged' = Unchanged
        BY <1>1, <1>8, <2>4, <2>7 DEF New, Changed, Unchanged
      <3>2. /\ mem'.added = mem.added + 1 /\ mem'.changed = mem.changed
            /\ mem'.unchanged = mem.unchanged
        BY <1>3, <2>5, <2>7 DEF Action, Counted, IngestionRun
      <3> QED BY <2>3, <2>6, <3>1, <3>2 DEF CountsExact
    <2>8. CASE before[i] # NoRow /\ before[i].content # obs[u]
      <3>1. New' = New /\ Changed' = Changed \cup {i} /\ Unchanged' = Unchanged
        BY <1>1, <1>7, <1>8, <1>10, <2>4, <2>8 DEF New, Changed, Unchanged
      <3>2. /\ mem'.added = mem.added /\ mem'.changed = mem.changed + 1
            /\ mem'.unchanged = mem.unchanged
        BY <1>3, <2>5, <2>8 DEF Action, Counted, IngestionRun
      <3> QED BY <2>3, <2>6, <3>1, <3>2 DEF CountsExact
    <2>9. CASE before[i] # NoRow /\ before[i].content = obs[u]
      <3>1. New' = New /\ Changed' = Changed /\ Unchanged' = Unchanged \cup {i}
        BY <1>1, <1>7, <1>8, <1>10, <2>4, <2>9 DEF New, Changed, Unchanged
      <3>2. /\ mem'.added = mem.added /\ mem'.changed = mem.changed
            /\ mem'.unchanged = mem.unchanged + 1
        BY <1>3, <2>5, <2>9 DEF Action, Counted, IngestionRun
      <3> QED BY <2>3, <2>6, <3>1, <3>2 DEF CountsExact
    <2> QED BY <2>7, <2>8, <2>9
  <1>15. /\ mem'.seen = Cardinality(Listed(obs)) /\ DistinctTargets(obs, target)'
         /\ Listed(obs)' = Listed(obs)
    BY <1>1, <1>2, <1>3, SummaryTypes DEF DistinctTargets, Listed
  <1> QED BY <1>1, <1>11, <1>13, <1>14, <1>15 DEF Progress

LEMMA SuccessProgress ==
  ASSUME TypeInv, Progress, SaveSuccess
  PROVE  Progress'
  <1>1. /\ pc = "success" /\ Saving /\ todo = {} /\ gone = Planned
        /\ (pc' = "mark" \/ (pc' = "done" /\ gone = {}))
        /\ UNCHANGED <<files, exec, mem, obs, target, todo, gone, before>>
        /\ runFiles' = [runFiles EXCEPT ![exec] = mem]
    BY DEF SaveSuccess, Progress, PlanMade, Saving, batch
  <1>2. runFiles'[exec] = mem
    BY <1>1 DEF TypeInv, TypeOK, BatchTypes
  <1>3. /\ Planned' = Planned /\ Targets' = Targets /\ Written' = Written /\ Marked' = Marked
        /\ Listed(obs)' = Listed(obs)
    BY <1>1 DEF Planned, Targets, Written, Marked, Listed
  <1>4. New' = New /\ Changed' = Changed /\ Unchanged' = Unchanged
    BY <1>1, <1>3 DEF New, Changed, Unchanged
  <1>5. PlanMade' /\ FilesExact' /\ CountsExact'
    BY <1>1, <1>3, <1>4 DEF Progress, PlanMade, FilesExact, CountsExact
  <1>6. mem'.seen = Cardinality(Listed(obs)') /\ DistinctTargets(obs, target)'
    BY <1>1, <1>3 DEF Progress, DistinctTargets
  <1> QED BY <1>1, <1>2, <1>3, <1>5, <1>6 DEF Progress

LEMMA MarkProgress ==
  ASSUME TypeInv, Progress, NEW i \in RecordId, Mark(i)
  PROVE  Progress'
  <1>1. /\ pc = "mark" /\ Saving /\ todo = {} /\ i \in gone
        /\ gone' = gone \ {i}
        /\ (pc' = "mark" \/ (pc' = "done" /\ gone' = {}))
        /\ UNCHANGED <<runFiles, exec, mem, obs, target, todo, before>>
        /\ files' = [files EXCEPT ![i] = MarkedMissing(before[i])]
        /\ files \in [RecordId -> File]
    BY DEF Mark, Progress, Saving, TypeInv, TypeOK, BatchTypes
  <1>2. PlanMade /\ FilesExact /\ CountsExact /\ gone \subseteq Planned
    BY <1>1 DEF Progress, PlanMade
  <1>3. /\ Planned' = Planned /\ Targets' = Targets /\ Written' = Written
        /\ Listed(obs)' = Listed(obs)
        /\ Marked' = Marked \cup {i}
    BY <1>1, <1>2 DEF Planned, Targets, Written, Marked, Listed
  <1>4. /\ files'[i] = MarkedMissing(before[i])
        /\ \A k \in RecordId : k # i => files'[k] = files[k]
    BY <1>1
  <1>5. i \notin Written /\ Written \subseteq RecordId
    BY <1>1, <1>2, PlannedApart DEF Written
  <1>6. New' = New /\ Changed' = Changed /\ Unchanged' = Unchanged
    BY <1>1, <1>3, <1>4, <1>5 DEF New, Changed, Unchanged
  <1>7. PlanMade' /\ CountsExact'
    BY <1>1, <1>2, <1>3, <1>6 DEF PlanMade, CountsExact
  <1>8. FilesExact'
    <2>1. ASSUME NEW u \in Listed(obs) \ todo
          PROVE  /\ before[target[u]] # Torn
                 /\ files'[target[u]] = Saved(before[target[u]], u, obs[u], exec)
      <3>1. target[u] \in Written
        BY DEF Written
      <3> QED BY <1>2, <1>4, <1>5, <3>1 DEF FilesExact
    <2>2. \A k \in Marked \cup {i} : files'[k] = MarkedMissing(before[k])
      <3>1. Marked \subseteq RecordId
        BY DEF Marked, Planned, Unobserved, Present
      <3> QED BY <1>2, <1>4, <3>1 DEF FilesExact
    <2>3. \A k \in RecordId \ (Written \cup Marked \cup {i}) : files'[k] = before[k]
      BY <1>2, <1>4 DEF FilesExact
    <2> QED BY <1>1, <1>3, <2>1, <2>2, <2>3 DEF FilesExact
  <1>9. mem'.seen = Cardinality(Listed(obs)') /\ DistinctTargets(obs, target)'
    BY <1>1, <1>3 DEF Progress, DistinctTargets
  <1> QED BY <1>1, <1>3, <1>7, <1>8, <1>9 DEF Progress

LEMMA ProgressStep == TypeInv /\ Progress /\ [Next]_vars => Progress'
  <1> SUFFICES ASSUME TypeInv, Progress, [Next]_vars PROVE Progress'
    OBVIOUS
  <1>1. ASSUME pc' # "check", ~Saving' PROVE Progress'
    BY <1>1 DEF Progress
  <1>2. ASSUME NEW r \in Run, Start(r) PROVE Progress'
    BY <1>1, <1>2 DEF Start, Saving
  <1>3. CASE Collected \/ CollectionFails \/ PlanRefused \/ DuplicateIds
    BY <1>1, <1>3
    DEF Collected, CollectionFails, PlanRefused, DuplicateIds, GiveUp, Propagate, Saving
  <1>4. ASSUME NEW u \in Url, SaveRecordFails(u) PROVE Progress'
    BY <1>1, <1>4 DEF SaveRecordFails, EnterInner, Saving
  <1>5. CASE SaveSuccessFails
    BY <1>1, <1>5 DEF SaveSuccessFails, EnterInner, Saving
  <1>6. ASSUME NEW i \in RecordId, MarkFails(i) \/ Restore(i) \/ Remove(i) PROVE Progress'
    BY <1>1, <1>6 DEF MarkFails, Propagate, GiveUp, Restore, Remove, Saving
  <1>7. CASE RestoreRun \/ RestoreFails
    BY <1>1, <1>7 DEF RestoreRun, RestoreFails, Propagate, GiveUp, Saving
  <1>8. CASE Report
    BY <1>1, <1>8 DEF Report, Saving, TypeInv, BatchTypes
  <1>9. CASE Kill
    BY <1>1, <1>9 DEF Kill, Saving
  <1>10. CASE UNCHANGED vars
    <2>1. UNCHANGED <<files, runFiles, exec, pc, mem, obs, target, todo, gone, before>>
      BY <1>10 DEF vars
    <2>2. /\ Planned' = Planned /\ Targets' = Targets /\ Written' = Written
          /\ Listed(obs)' = Listed(obs)
      BY <2>1 DEF Planned, Targets, Written, Listed
    <2>3. Marked' = Marked /\ New' = New /\ Changed' = Changed /\ Unchanged' = Unchanged
      BY <2>1, <2>2 DEF Marked, New, Changed, Unchanged
    <2>4. PlanMade' = PlanMade /\ FilesExact' = FilesExact /\ CountsExact' = CountsExact
      BY <2>1, <2>2, <2>3 DEF PlanMade, FilesExact, CountsExact
    <2>5. Saving' = Saving /\ DistinctTargets(obs, target)' = DistinctTargets(obs, target)
      BY <2>1, <2>2 DEF Saving, DistinctTargets
    <2> QED BY <2>1, <2>2, <2>4, <2>5 DEF Progress
  <1> QED
    BY <1>2, <1>3, <1>4, <1>5, <1>6, <1>7, <1>8, <1>9, <1>10,
       PlanProgress, OpenProgress, SaveProgress, SuccessProgress, MarkProgress
    DEF Next

LEMMA ProgressInvariant == Spec => [](TypeInv /\ Progress)
  <1>1. Init => Progress
    BY DEF Init, Progress, Saving
  <1> QED BY <1>1, TypeInit, TypeStep, ProgressStep, PTL DEF Spec

\* What a complete snapshot leaves when it returns: no torn file, one file for
\* each listed record with the listed content, every other file MISSING, and
\* the run file with the counts - in whatever order the files were written,
\* and whatever earlier executions left.
THEOREM PublishesExactly == Spec => []PublishedExact
  <1>1. TypeInv /\ Progress => PublishedExact
    <2> SUFFICES ASSUME TypeInv, Progress, Complete, pc = "done", mem.status = "SUCCESS"
                 PROVE  /\ TornFiles = {}
                        /\ DistinctTargets(obs, target)
                        /\ {<<i, files[i].content>> :
                              i \in {j \in Present(files) : files[j].status # "MISSING"}}
                             = {<<target[u], obs[u]>> : u \in Listed(obs)}
                        /\ runFiles[exec] = mem
      BY DEF PublishedExact, DistinctTargets
    <2>1. /\ PlanMade /\ FilesExact /\ todo = {} /\ gone = {}
          /\ DistinctTargets(obs, target) /\ runFiles[exec] = mem
      BY DEF Progress, Saving
    <2>2. /\ Marked = Planned /\ Planned = Unobserved(before, obs)
          /\ \A u \in Listed(obs) : target[u] \in Written /\ target[u] = Reconciled(before, u)
          /\ \A i \in Written : \E u \in Listed(obs) : i = target[u]
      BY <2>1 DEF Marked, Planned, Written, PlanMade, Targets, Listed
    <2>3. ASSUME NEW u \in Listed(obs)
          PROVE  /\ target[u] \in RecordId
                 /\ files[target[u]] \in CommonRecord
                 /\ files[target[u]].content = obs[u]
                 /\ files[target[u]].status # "MISSING"
      <3>1. u \in Url /\ obs[u] \in Content /\ target[u] \in RecordId /\ exec \in Run
        BY DEF TypeInv, TypeOK, BatchTypes, Listed, Listing
      <3>2. before[target[u]] \in Row
        BY <2>1, <3>1 DEF FilesExact, TypeInv, TypeOK, File, Row
      <3>3. files[target[u]] = Saved(before[target[u]], u, obs[u], exec)
        BY <2>1 DEF FilesExact
      <3> QED BY <3>1, <3>2, <3>3, SavedRow
    <2>4. ASSUME NEW i \in Marked
          PROVE  files[i] \in CommonRecord /\ files[i].status = "MISSING"
      BY <2>1, <2>2, MarkedRow DEF FilesExact, PlanMade
    <2>5. ASSUME NEW i \in RecordId, i \notin Written, i \notin Marked
          PROVE  /\ files[i] = before[i] /\ before[i] \in Row
                 /\ files[i] # NoRow => files[i].status = "MISSING"
      <3>1. files[i] = before[i] /\ before[i] \in Row
        BY <2>1, <2>5 DEF FilesExact, PlanMade, TypeInv, TypeOK, File, Row
      <3>2. ASSUME before[i] # NoRow, before[i].status # "MISSING" PROVE FALSE
        <4>1. i \in Present(before)
          BY <3>2 DEF Present
        <4>2. \A u \in Listed(obs) : Reconciled(before, u) # i
          BY <2>2, <2>5
        <4> QED BY <2>2, <2>5, <3>2, <4>1, <4>2 DEF Unobserved
      <3> QED BY <3>1, <3>2
    <2>6. TornFiles = {}
      BY <2>2, <2>3, <2>4, <2>5, Kinds DEF TornFiles, Row
    <2>7. ASSUME NEW i \in Present(files), files[i].status # "MISSING"
          PROVE  <<i, files[i].content>> \in {<<target[u], obs[u]>> : u \in Listed(obs)}
      <3>1. i \in RecordId /\ files[i] # NoRow
        BY DEF Present
      <3>2. i \in Written
        BY <2>4, <2>5, <2>7, <3>1
      <3> QED BY <2>2, <2>3, <3>2
    <2>8. ASSUME NEW u \in Listed(obs)
          PROVE  <<target[u], obs[u]>> \in
                   {<<i, files[i].content>> :
                      i \in {j \in Present(files) : files[j].status # "MISSING"}}
      <3>1. target[u] \in Present(files)
        BY <2>3, Kinds DEF Present
      <3> QED BY <2>3, <3>1
    <2>9. {<<i, files[i].content>> :
              i \in {j \in Present(files) : files[j].status # "MISSING"}}
            = {<<target[u], obs[u]>> : u \in Listed(obs)}
      BY <2>7, <2>8
    <2> QED BY <2>1, <2>6, <2>9
  <1> QED BY <1>1, ProgressInvariant, PTL

(***************************************************************************)
(* The restore.  What is not as before is still to be written back: by the *)
(* handler that runs now, or by the one after it.                          *)
(***************************************************************************)
Altered == {i \in RecordId : files[i] # before[i]}

Readable == Complete \/ \A u \in Listed(obs) : before[target[u]] # Torn

Restoring ==
  /\ pc \in {"inner", "outer"} =>
       /\ Altered \subseteq restoring
       /\ DistinctTargets(obs, target) /\ Readable => faults >= 1
  /\ pc = "inner" => restoring \subseteq ListedFiles

\* Executions that end without a batch, and those whose batch was undone.
Undone ==
  /\ pc = "reporting" \/ (pc = "done" /\ mem.status # "SUCCESS")
  /\ faults <= 1
  /\ DistinctTargets(obs, target)
  /\ Readable
  => /\ files = before
     /\ runFiles[exec] \in {NoRow, Torn} \/ runFiles[exec].status # "SUCCESS"

RestoreInv == Restoring /\ Undone

\* While a batch is written, what differs is a file it writes.
LEMMA AlteredByBatch ==
  ASSUME TypeInv, Progress, Saving
  PROVE  /\ Altered \subseteq Affected
         /\ pc \in {"save", "success"} => Altered \subseteq ListedFiles
  <1>1. PlanMade /\ FilesExact /\ backup = before
    BY DEF Progress, TypeInv, BatchTypes
  <1>2. Altered \subseteq Written \cup Marked
    BY <1>1 DEF Altered, FilesExact
  <1>3. Written \subseteq ListedFiles
    BY DEF Written, ListedFiles
  <1>4. Marked \subseteq Planned /\ Planned \subseteq Unobserved(backup, obs)
    BY <1>1 DEF Marked, Planned
  <1>5. pc \in {"save", "success"} => Marked = {}
    BY <1>1 DEF Marked, PlanMade
  <1> QED BY <1>2, <1>3, <1>4, <1>5 DEF Affected

LEMMA AsBefore ==
  ASSUME TypeInv, Altered = {}
  PROVE  files = before
  BY DEF Altered, TypeInv, TypeOK

\* The exception leaves a handler whose restore is complete, or one of whose
\* own writes raised, the first having raised before it.
LEMMA PropagateRestores ==
  ASSUME TypeInv, Propagate,
         UNCHANGED <<exec, obs, target, before, backup>>,
         files' \in [RecordId -> File],
         Altered' \subseteq Affected,
         (DistinctTargets(obs, target) /\ Readable) => faults' >= 1,
         pc' = "reporting" /\ DistinctTargets(obs, target) /\ Readable =>
           \/ ~(faults' <= 1)
           \/ /\ files' = before
              /\ runFiles'[exec] \in {NoRow, Torn} \/ runFiles'[exec].status # "SUCCESS"
  PROVE  RestoreInv'
  <1>1. Readable' = Readable /\ DistinctTargets(obs, target)' = DistinctTargets(obs, target)
        /\ ListedFiles' = ListedFiles
    BY DEF Readable, DistinctTargets, ListedFiles, Listed
  <1>2. CASE pc' = "outer" /\ restoring' = Affected
    BY <1>1, <1>2 DEF RestoreInv, Restoring, Undone
  <1>3. CASE pc' = "reporting"
    BY <1>1, <1>3 DEF RestoreInv, Restoring, Undone
  <1> QED BY <1>2, <1>3 DEF Propagate, GiveUp

LEMMA RestoreStep ==
  TypeInv /\ Progress /\ RestoreInv /\ [Next]_vars => RestoreInv'
  <1> SUFFICES ASSUME TypeInv, Progress, RestoreInv, [Next]_vars PROVE RestoreInv'
    OBVIOUS
  <1>1. TypeInv' /\ files' \in [RecordId -> File] /\ backup = before
    BY TypeStep DEF TypeInv, TypeOK, BatchTypes
  <1>2. /\ faults \in Nat /\ files \in [RecordId -> File] /\ target \in [Url -> RecordId]
        /\ runFiles \in [Run -> IngestionRun \cup {NoRow, Torn}] /\ mem \in IngestionRun
        /\ pc # "idle" => exec \in Run
    BY FaultAssumption DEF TypeInv, TypeOK, BatchTypes
  <1>3. NewRun("RUNNING").status # "SUCCESS" /\ NewRun("FAILED").status # "SUCCESS"
    BY DEF NewRun
  \* Steps after which neither handler runs and nothing was undone.
  <1>4. ASSUME pc' \notin {"inner", "outer", "reporting"},
               pc' = "done" => mem'.status = "SUCCESS"
        PROVE  RestoreInv'
    BY <1>4 DEF RestoreInv, Restoring, Undone
  \* Executions that end before they write a record.
  <1>5. ASSUME pc' = "reporting", files' = before',
               runFiles'[exec'] \in {NoRow, Torn} \/ runFiles'[exec'].status # "SUCCESS"
        PROVE  RestoreInv'
    BY <1>5 DEF RestoreInv, Restoring, Undone
  <1>6. ASSUME NEW r \in Run, Start(r) PROVE RestoreInv'
    <2>1. CASE pc' = "collecting"
      BY <1>4, <2>1
    <2>2. CASE pc' = "reporting" /\ runFiles' \in TornOrNot(runFiles, r)
      <3>1. files' = before' /\ exec' = r /\ runFiles[r] = NoRow
        BY <1>6 DEF Start
      <3>2. runFiles'[r] \in {NoRow, Torn}
        BY <1>2, <2>2, <3>1 DEF TornOrNot
      <3> QED BY <1>5, <2>2, <3>1, <3>2
    <2> QED BY <1>6, <2>1, <2>2 DEF Start
  <1>7. CASE Collected \/ Plan \/ OpenBatch
    BY <1>4, <1>7 DEF Collected, Plan, OpenBatch
  <1>8. CASE CollectionFails \/ PlanRefused
    <2>1. /\ pc' = "reporting" /\ UNCHANGED <<files, before, runFiles, exec>>
          /\ pc \in Preparing
      BY <1>8 DEF CollectionFails, PlanRefused, GiveUp, batch, Preparing
    <2>2. files = before /\ runFiles[exec] = NewRun("RUNNING")
      BY <2>1 DEF TypeInv, BatchTypes
    <2> QED BY <1>3, <1>5, <2>1, <2>2
  <1>9. CASE DuplicateIds
    <2>1. files = before /\ runFiles[exec] = NewRun("RUNNING") /\ Propagate
          /\ ~DistinctTargets(obs, target)
          /\ UNCHANGED <<files, runFiles, exec, obs, target, before, backup>>
      BY <1>9 DEF DuplicateIds, TypeInv, BatchTypes, Preparing
    <2>2. Altered' = {}
      BY <2>1 DEF Altered
    <2> QED BY <1>1, <2>1, <2>2, PropagateRestores
  <1>10. ASSUME NEW u \in Url, SaveRecord(u) PROVE RestoreInv'
    BY <1>4, <1>10 DEF SaveRecord
  <1>11. CASE SaveSuccess
    BY <1>4, <1>11 DEF SaveSuccess, TypeInv, BatchTypes
  <1>12. ASSUME NEW i \in RecordId, Mark(i) PROVE RestoreInv'
    BY <1>4, <1>12 DEF Mark, TypeInv, BatchTypes
  <1>13. ASSUME NEW u \in Url, SaveRecordFails(u) PROVE RestoreInv'
    <2>1. /\ pc = "save" /\ Saving /\ u \in todo
          /\ EnterInner /\ UNCHANGED <<runFiles, exec, obs, target, todo, gone, backup, before>>
          /\ \/ files[target[u]] = Torn /\ UNCHANGED <<files, faults>>
             \/ Raise /\ files' \in TornOrNot(files, target[u])
      BY <1>13 DEF SaveRecordFails, Saving
    <2>2. Altered \subseteq ListedFiles /\ u \in Listed(obs) /\ target[u] \in ListedFiles
      BY <2>1, AlteredByBatch DEF TypeInv, BatchTypes, ListedFiles
    <2>3. \A i \in RecordId : files'[i] = files[i] \/ i = target[u]
      BY <1>2, <2>1, TearsOne DEF TornOrNot
    <2>4. Altered' \subseteq ListedFiles
      BY <2>1, <2>2, <2>3 DEF Altered
    <2>5. ASSUME files[target[u]] = Torn, DistinctTargets(obs, target), Readable
          PROVE  FALSE
      <3>1. PlanMade /\ FilesExact /\ gone = Planned
        BY <2>1 DEF Progress, PlanMade
      <3>2. target[u] \in RecordId /\ target[u] \notin Written \cup Marked
        BY <1>2, <2>1, <2>2, <2>5, <3>1 DEF Written, Marked, DistinctTargets, Listed
      <3>3. before[target[u]] = Torn
        BY <2>5, <3>1, <3>2 DEF FilesExact
      <3> QED BY <2>2, <2>5, <3>1, <3>2, <3>3 DEF Readable, PlanMade
    <2>6. DistinctTargets(obs, target) /\ Readable => faults' >= 1
      BY <1>2, <2>1, <2>5 DEF Raise
    <2>7. /\ Readable' = Readable /\ DistinctTargets(obs, target)' = DistinctTargets(obs, target)
          /\ ListedFiles' = ListedFiles
      BY <2>1 DEF Readable, DistinctTargets, ListedFiles, Listed
    <2> QED BY <2>1, <2>4, <2>6, <2>7 DEF EnterInner, RestoreInv, Restoring, Undone
  <1>14. CASE SaveSuccessFails
    <2>1. /\ pc = "success" /\ Saving /\ Raise /\ EnterInner
          /\ UNCHANGED <<files, exec, obs, target, todo, gone, backup, before>>
      BY <1>14 DEF SaveSuccessFails, Saving
    <2>2. Altered \subseteq ListedFiles /\ Altered' = Altered
      BY <2>1, AlteredByBatch DEF Altered
    <2>3. /\ Readable' = Readable /\ DistinctTargets(obs, target)' = DistinctTargets(obs, target)
          /\ ListedFiles' = ListedFiles
      BY <2>1 DEF Readable, DistinctTargets, ListedFiles, Listed
    <2>4. faults' >= 1
      BY <1>2, <2>1 DEF Raise
    <2> QED BY <2>1, <2>2, <2>3, <2>4 DEF EnterInner, RestoreInv, Restoring, Undone
  <1>15. ASSUME NEW i \in RecordId, MarkFails(i) PROVE RestoreInv'
    <2>1. /\ pc = "mark" /\ Saving /\ i \in gone /\ Raise /\ Propagate
          /\ UNCHANGED <<runFiles, exec, obs, target, todo, gone, backup, before>>
          /\ files' \in TornOrNot(files, i)
      BY <1>15 DEF MarkFails, Saving
    <2>2. Complete /\ i \in Affected
      BY <1>1, <2>1 DEF Progress, PlanMade, Planned, Affected
    <2>3. \A k \in RecordId : files'[k] = files[k] \/ k = i
      BY <1>2, <2>1 DEF TornOrNot
    <2>4. Altered' \subseteq Affected
      BY <2>1, <2>2, <2>3, AlteredByBatch DEF Altered
    <2>5. faults' >= 1 /\ pc' = "outer"
      BY <1>2, <2>1, <2>2 DEF Raise, Propagate
    <2> QED BY <1>1, <2>1, <2>4, <2>5, PropagateRestores
  <1>16. ASSUME NEW i \in RecordId, Restore(i) PROVE RestoreInv'
    <2>1. /\ pc \in {"inner", "outer"} /\ files' = [files EXCEPT ![i] = before[i]]
          /\ restoring' = restoring \ {i}
          /\ UNCHANGED <<pc, exec, obs, target, faults, before>>
      BY <1>1, <1>16 DEF Restore
    <2>2. Altered' \subseteq restoring'
      BY <1>2, <2>1 DEF RestoreInv, Restoring, Altered
    <2>3. /\ Readable' = Readable /\ DistinctTargets(obs, target)' = DistinctTargets(obs, target)
          /\ ListedFiles' = ListedFiles
      BY <2>1 DEF Readable, DistinctTargets, ListedFiles, Listed
    <2> QED BY <2>1, <2>2, <2>3 DEF RestoreInv, Restoring, Undone
  <1>17. CASE RestoreRun
    <2>1. /\ pc \in {"inner", "outer"} /\ restoring = {} /\ Propagate
          /\ runFiles' = [runFiles EXCEPT ![exec] = NewRun("RUNNING")]
          /\ UNCHANGED <<files, exec, obs, target, faults, before, backup>>
      BY <1>17 DEF RestoreRun
    <2>2. Altered = {} /\ Altered' = {} /\ files = before
      BY <2>1, AsBefore DEF RestoreInv, Restoring, Altered
    <2>3. runFiles'[exec] = NewRun("RUNNING")
      BY <1>2, <2>1
    <2>4. DistinctTargets(obs, target) /\ Readable => faults' >= 1
      BY <2>1 DEF RestoreInv, Restoring
    <2> QED BY <1>1, <1>3, <2>1, <2>2, <2>3, <2>4, PropagateRestores
  <1>18. CASE RestoreFails
    <2>1. /\ pc \in {"inner", "outer"} /\ Raise /\ Propagate
          /\ UNCHANGED <<exec, obs, target, before, backup>>
          /\ \/ UNCHANGED files
             \/ \E i \in restoring : files' \in TornOrNot(files, i)
      BY <1>18 DEF RestoreFails
    <2>2. \A k \in RecordId : files'[k] = files[k] \/ k \in restoring
      BY <1>2, <2>1 DEF TornOrNot
    <2>3. Altered' \subseteq restoring
      BY <2>1, <2>2 DEF Altered, RestoreInv, Restoring
    <2>4. pc = "inner" => restoring \subseteq Affected
      BY DEF RestoreInv, Restoring, Affected
    <2>5. /\ faults' >= 1
          /\ DistinctTargets(obs, target) /\ Readable => ~(faults' <= 1)
      BY <1>2, <2>1 DEF RestoreInv, Restoring, Raise
    <2>6. CASE pc = "inner"
      BY <1>1, <2>1, <2>3, <2>4, <2>5, <2>6, PropagateRestores
    <2>7. CASE pc = "outer"
      <3>1. pc' = "reporting"
        BY <2>1, <2>7 DEF Propagate, GiveUp
      <3>2. Readable' = Readable /\ DistinctTargets(obs, target)' = DistinctTargets(obs, target)
        BY <2>1 DEF Readable, DistinctTargets, Listed
      <3> QED BY <2>5, <3>1, <3>2 DEF RestoreInv, Restoring, Undone
    <2> QED BY <2>1, <2>6, <2>7
  <1>19. CASE Report
    <2>1. /\ pc = "reporting" /\ pc' = "done" /\ UNCHANGED <<files, exec, mem, obs, target>>
          /\ UNCHANGED <<faults, before>> /\ mem.status # "SUCCESS" /\ exec \in Run
      BY <1>2, <1>19 DEF Report, batch, TypeInv, BatchTypes
    <2>2. runFiles'[exec] \in {mem, Torn, runFiles[exec]}
      BY <1>2, <1>19, <2>1 DEF Report, TornOrNot
    <2>3. Readable' = Readable /\ DistinctTargets(obs, target)' = DistinctTargets(obs, target)
      BY <2>1 DEF Readable, DistinctTargets, Listed
    <2> QED BY <2>1, <2>2, <2>3 DEF RestoreInv, Restoring, Undone
  <1>20. CASE Kill
    BY <1>4, <1>20 DEF Kill
  <1>21. ASSUME NEW i \in RecordId, Remove(i) PROVE RestoreInv'
    BY <1>4, <1>21 DEF Remove
  <1>22. CASE UNCHANGED vars
    <2>1. UNCHANGED <<files, runFiles, exec, pc, mem, obs, target, restoring, faults, before>>
      BY <1>22 DEF vars
    <2>2. /\ Readable' = Readable /\ DistinctTargets(obs, target)' = DistinctTargets(obs, target)
          /\ ListedFiles' = ListedFiles /\ Altered' = Altered
      BY <2>1 DEF Readable, DistinctTargets, ListedFiles, Listed, Altered
    <2> QED BY <2>1, <2>2 DEF RestoreInv, Restoring, Undone
  <1> QED
    BY <1>6, <1>7, <1>8, <1>9, <1>10, <1>11, <1>12, <1>13, <1>14, <1>15, <1>16, <1>17,
       <1>18, <1>19, <1>20, <1>21, <1>22
    DEF Next

LEMMA RestoreInvariant == Spec => [](TypeInv /\ Progress /\ RestoreInv)
  <1>1. Init => Progress /\ RestoreInv
    BY DEF Init, Progress, Saving, RestoreInv, Restoring, Undone
  <1> QED BY <1>1, TypeInit, TypeStep, ProgressStep, RestoreStep, PTL DEF Spec

\* The first write that raises is undone, whichever it was: all-or-nothing in
\* both modes, with the two exceptions that the property names.
THEOREM FirstFaultIsUndone == Spec => []FirstFaultUndone
  <1>1. TypeInv /\ RestoreInv => FirstFaultUndone
    BY DEF RestoreInv, Undone, Readable, FirstFaultUndone, TypeInv
  <1> QED BY <1>1, RestoreInvariant, PTL

\* A restore whose own writes do not raise puts back every record file and the
\* run file, in whatever order and however many writes raised before it.
THEOREM RestoresExactly == Spec => RestoredExactly
  <1>1. ASSUME TypeInv, RestoreInv, [Next]_vars,
               pc \in {"inner", "outer"}, pc' = "reporting", faults' = faults
        PROVE  files' = before /\ runFiles'[exec] = NewRun("RUNNING")
    <2>1. RestoreRun
      <3>1. faults \in Nat
        BY <1>1, FaultAssumption DEF TypeInv, TypeOK
      <3>2. ~Raise
        BY <1>1, <3>1 DEF Raise
      <3> QED
        BY <1>1, <3>2
        DEF Next, vars, Start, Collected, CollectionFails, Plan, PlanRefused, OpenBatch,
            DuplicateIds, SaveRecord, SaveRecordFails, SaveSuccess, SaveSuccessFails, Mark,
            MarkFails, Restore, RestoreFails, Report, Kill, Remove, Ended
    <2>2. files = before
      BY <1>1, <2>1, AsBefore DEF RestoreRun, RestoreInv, Restoring
    <2>3. exec \in Run /\ runFiles \in [Run -> IngestionRun \cup {NoRow, Torn}]
      BY <1>1 DEF TypeInv, TypeOK, BatchTypes
    <2> QED BY <2>1, <2>2, <2>3 DEF RestoreRun
  <1>2. TypeInv /\ RestoreInv /\ [Next]_vars =>
          [/\ pc \in {"inner", "outer"}
           /\ pc' = "reporting"
           /\ faults' = faults
           => files' = before /\ runFiles'[exec] = NewRun("RUNNING")]_vars
    BY <1>1
  <1> QED BY <1>2, RestoreInvariant, PTL DEF Spec, RestoredExactly

(***************************************************************************)
(* The counts.  A file carries the execution that saved it, and no file    *)
(* was saved by an execution that had not started.                         *)
(***************************************************************************)
Known(row) ==
  row \in CommonRecord =>
    row.seen = None \/ (row.seen \in Run /\ runFiles[row.seen] # NoRow)

Stamped ==
  /\ \A i \in RecordId : Known(files[i]) /\ Known(before[i])
  /\ exec # None => \A i \in RecordId : before[i] \in CommonRecord => before[i].seen # exec

\* A run file that was written is never removed again.
LEMMA RunFilesStay ==
  ASSUME TypeInv, [Next]_vars, NEW r \in Run, runFiles[r] # NoRow
  PROVE  runFiles'[r] # NoRow
  <1>1. /\ mem \in IngestionRun /\ NewRun("RUNNING") \in IngestionRun
        /\ runFiles \in [Run -> IngestionRun \cup {NoRow, Torn}]
    BY SummaryTypes DEF TypeInv, TypeOK, IngestionRunStatus
  <1>2. \/ UNCHANGED runFiles
        \/ \E x \in Run \cup {None}, file \in IngestionRun \cup {Torn} :
             runFiles' = [runFiles EXCEPT ![x] = file]
    <2>1. ASSUME NEW x \in Run, Start(x)
          PROVE  \/ UNCHANGED runFiles
                 \/ runFiles' = [runFiles EXCEPT ![x] = NewRun("RUNNING")]
                 \/ runFiles' = [runFiles EXCEPT ![x] = Torn]
      BY <2>1 DEF Start, TornOrNot
    <2>2. ASSUME ~ \E x \in Run : Start(x)
          PROVE  \/ UNCHANGED runFiles
                 \/ runFiles' = [runFiles EXCEPT ![exec] = NewRun("RUNNING")]
                 \/ runFiles' = [runFiles EXCEPT ![exec] = mem]
                 \/ runFiles' = [runFiles EXCEPT ![exec] = Torn]
      BY <2>2
      DEF Next, vars, Collected, CollectionFails, Plan, PlanRefused, OpenBatch,
          DuplicateIds, SaveRecord, SaveRecordFails, SaveSuccess, SaveSuccessFails, Mark,
          MarkFails, Restore, RestoreRun, RestoreFails, Report, Kill, Remove, TornOrNot
    <2>3. exec \in Run \cup {None}
      BY DEF TypeInv, TypeOK
    <2> QED BY <1>1, <2>1, <2>2, <2>3
  <1> QED BY <1>1, <1>2, Kinds

\* What a step leaves of a file.
LEMMA FileSteps ==
  ASSUME TypeInv, Progress, [Next]_vars, NEW i \in RecordId
  PROVE  \/ files'[i] \in {files[i], before[i], NoRow, Torn}
         \/ before[i] \in CommonRecord /\ files'[i] = MarkedMissing(before[i])
         \/ files'[i].seen = exec /\ exec \in Run /\ runFiles[exec] = NewRun("RUNNING")
  <1> DEFINE Old == files'[i] \in {files[i], before[i], NoRow, Torn}
  <1>1. /\ files \in [RecordId -> File] /\ backup = before
    BY DEF TypeInv, TypeOK, BatchTypes
  <1>2. ASSUME NEW k, files' \in TornOrNot(files, k) PROVE Old
    BY <1>1, <1>2 DEF TornOrNot
  <1>3. ASSUME NEW u \in Url, SaveRecord(u)
        PROVE  Old \/ (files'[i].seen = exec /\ exec \in Run /\ runFiles[exec] = NewRun("RUNNING"))
    <2> DEFINE k == target[u]
    <2>1. /\ u \in Listed(obs) /\ obs[u] \in Content /\ k \in RecordId /\ exec \in Run
          /\ runFiles[exec] = NewRun("RUNNING")
      BY <1>3 DEF SaveRecord, TypeInv, TypeOK, BatchTypes, Listed, Listing
    <2>2. files[k] \in Row
      BY <1>1, <1>3, <2>1 DEF SaveRecord, File, Row
    <2>3. Saved(files[k], u, obs[u], exec).seen = exec
      BY <2>1, <2>2, SavedRow
    <2>4. files' = [files EXCEPT ![k] = Saved(files[k], u, obs[u], exec)]
      BY <1>3 DEF SaveRecord
    <2> HIDE DEF k
    <2> QED BY <1>1, <2>1, <2>3, <2>4
  <1>4. ASSUME NEW u \in Url, SaveRecordFails(u) PROVE Old
    BY <1>2, <1>4 DEF SaveRecordFails
  <1>5. ASSUME NEW k \in RecordId, Mark(k)
        PROVE  Old \/ (before[i] \in CommonRecord /\ files'[i] = MarkedMissing(before[i]))
    BY <1>1, <1>5 DEF Mark, TypeInv, BatchTypes
  <1>6. ASSUME NEW k \in RecordId, MarkFails(k) \/ Restore(k) \/ Remove(k) PROVE Old
    <2>1. CASE MarkFails(k)
      BY <1>2, <2>1 DEF MarkFails
    <2>2. CASE Restore(k) \/ Remove(k)
      BY <1>1, <2>2 DEF Restore, Remove
    <2> QED BY <1>6, <2>1, <2>2
  <1>7. CASE RestoreFails
    BY <1>2, <1>7 DEF RestoreFails
  <1>8. CASE Kill
    BY <1>1, <1>8 DEF Kill
  <1>9. ASSUME \/ \E r \in Run : Start(r)
               \/ Collected \/ CollectionFails \/ Plan \/ PlanRefused \/ OpenBatch
               \/ DuplicateIds \/ SaveSuccess \/ SaveSuccessFails \/ RestoreRun
               \/ Report \/ UNCHANGED vars
        PROVE  Old
    BY <1>9
    DEF Start, Collected, CollectionFails, Plan, PlanRefused, OpenBatch, DuplicateIds,
        SaveSuccess, SaveSuccessFails, RestoreRun, Report, vars
  <1> QED BY <1>3, <1>4, <1>5, <1>6, <1>7, <1>8, <1>9 DEF Next

LEMMA StampStep == TypeInv /\ Progress /\ Stamped /\ [Next]_vars => Stamped'
  <1> SUFFICES ASSUME TypeInv, Progress, Stamped, [Next]_vars PROVE Stamped'
    OBVIOUS
  <1>1. ASSUME NEW row, Known(row) PROVE Known(row)'
    BY <1>1, RunFilesStay DEF Known
  <1>2. ASSUME NEW i \in RecordId PROVE Known(files[i])'
    <2>1. CASE files'[i] \in {files[i], before[i], NoRow, Torn}
      <3>1. CASE files'[i] \in {files[i], before[i]}
        BY <1>1, <3>1 DEF Stamped, Known
      <3>2. CASE files'[i] \in {NoRow, Torn}
        BY <3>2, Kinds DEF Known
      <3> QED BY <2>1, <3>1, <3>2
    <2>2. CASE before[i] \in CommonRecord /\ files'[i] = MarkedMissing(before[i])
      <3>1. files'[i].seen = before[i].seen
        BY <2>2, MarkedRow
      <3> QED BY <2>2, <3>1, RunFilesStay DEF Known, Stamped
    <2>3. CASE files'[i].seen = exec /\ exec \in Run /\ runFiles[exec] = NewRun("RUNNING")
      <3>1. runFiles[exec] # NoRow
        BY <2>3, SummaryTypes, Kinds DEF IngestionRunStatus
      <3> QED BY <2>3, <3>1, RunFilesStay DEF Known
    <2> QED BY <2>1, <2>2, <2>3, FileSteps
  <1>3. CASE \E r \in Run : Start(r)
    <2>1. PICK r \in Run : before' = files /\ exec' = r /\ runFiles[r] = NoRow
      BY <1>3 DEF Start
    <2>2. ASSUME NEW i \in RecordId
          PROVE  /\ Known(before[i])'
                 /\ before'[i] \in CommonRecord => before'[i].seen # r
      BY <1>1, <2>1, NoneAssumption DEF Stamped, Known
    <2> QED BY <1>2, <2>1, <2>2 DEF Stamped
  <1>4. CASE ~ \E r \in Run : Start(r)
    <2>1. UNCHANGED <<before, exec>>
      BY <1>4
      DEF Next, vars, Collected, CollectionFails, Plan, PlanRefused, OpenBatch,
          DuplicateIds, SaveRecord, SaveRecordFails, SaveSuccess, SaveSuccessFails, Mark,
          MarkFails, Restore, RestoreRun, RestoreFails, Report, Kill, Remove, batch
    <2>2. ASSUME NEW i \in RecordId PROVE Known(before[i])'
      BY <1>1, <2>1 DEF Stamped, Known
    <2> QED BY <1>2, <2>1, <2>2 DEF Stamped
  <1> QED BY <1>3, <1>4

LEMMA StampInvariant == Spec => [](TypeInv /\ Progress /\ Stamped)
  <1>1. Init => Progress /\ Stamped
    <2>1. ASSUME Init, NEW i \in RecordId
          PROVE  files[i] = NoRow \/ files[i].seen = None
      BY <2>1 DEF Init, SeedTables, SeedRecords
    <2> QED BY <2>1, Kinds DEF Init, Progress, Saving, Stamped, Known
  <1> QED BY <1>1, TypeInit, TypeStep, ProgressStep, StampStep, PTL DEF Spec

\* Listed URLs with targets of their own: as many files as URLs.
LEMMA AsManyTargets ==
  ASSUME TypeInv, DistinctTargets(obs, target)
  PROVE  Cardinality({target[u] : u \in Listed(obs)}) = Cardinality(Listed(obs))
  <1> DEFINE S == Listed(obs)
             T == {target[u] : u \in S}
             f == [u \in S |-> target[u]]
  <1>1. IsFiniteSet(S)
    BY SizeTypes
  <1>2. f \in Surjection(S, T)
    BY DEF Surjection
  <1>3. f \in Injection(S, T)
    BY DEF Injection, IsInjective, DistinctTargets
  <1> HIDE DEF S, T, f
  <1>4. Cardinality(T) = Cardinality(S)
    BY <1>1, <1>2, <1>3, FS_Surjection
  <1> QED BY <1>4 DEF S, T

\* The counts of a SUCCESS run are what a comparison of the files before and
\* after it finds, in both modes: a torn file that a bounded batch did not
\* touch is in neither.
THEOREM LocalAuditsMatch == Spec => []LocalAudit
  <1>1. TypeInv /\ Progress /\ Stamped => LocalAudit
    <2> DEFINE old == {i \in RecordId : before[i] # NoRow}
               saved == {i \in Present(files) \ TornFiles : files[i].seen = exec}
    <2> SUFFICES ASSUME TypeInv, Progress, Stamped, pc = "done", mem.status = "SUCCESS"
                 PROVE  /\ mem.seen = Cardinality(saved)
                        /\ mem.added = Cardinality(saved \ old)
                        /\ mem.changed =
                             Cardinality({i \in old \cap saved :
                                            files[i].content # before[i].content})
                        /\ mem.unchanged =
                             Cardinality({i \in old \cap saved :
                                            files[i].content = before[i].content})
                        /\ mem.missing =
                             Cardinality({i \in old \ saved : files[i] # before[i]})
      BY DEF LocalAudit
    <2>1. /\ PlanMade /\ FilesExact /\ CountsExact /\ todo = {} /\ gone = {}
          /\ DistinctTargets(obs, target) /\ mem.seen = Cardinality(Listed(obs))
      BY DEF Progress, Saving
    <2>2. Marked = Planned /\ Written = {target[u] : u \in Listed(obs)}
      BY <2>1 DEF Marked, Written
    <2>3. exec \in Run /\ exec # None /\ before \in [RecordId -> File]
      BY NoneAssumption DEF TypeInv, TypeOK, BatchTypes
    <2>4. Written \subseteq RecordId /\ Planned \subseteq RecordId /\ Written \cap Planned = {}
      BY <2>1, <2>2, PlannedApart DEF Planned, Unobserved, Present
    <2>5. ASSUME NEW i \in Written PROVE i \in saved
      <3>1. PICK u \in Listed(obs) : i = target[u]
        BY <2>2
      <3>2. u \in Url /\ obs[u] \in Content /\ i \in RecordId
        BY <3>1 DEF TypeInv, TypeOK, Listed, Listing
      <3>3. before[i] \in Row /\ files[i] = Saved(before[i], u, obs[u], exec)
        BY <2>1, <2>3, <3>1, <3>2 DEF FilesExact, File, Row
      <3>4. files[i] \in CommonRecord /\ files[i].seen = exec
        BY <2>3, <3>2, <3>3, SavedRow
      <3> QED BY <3>2, <3>4, Kinds DEF Present, TornFiles
    <2>6. ASSUME NEW i \in Planned
          PROVE  i \notin saved /\ i \in old /\ files[i] # before[i]
      <3>1. files[i] = MarkedMissing(before[i]) /\ before[i] \in CommonRecord /\ i \in RecordId
        BY <2>1, <2>2, <2>4 DEF FilesExact, PlanMade
      <3>2. before[i].seen # exec /\ before[i].status # "MISSING" /\ before[i] # NoRow
        BY <2>3, <3>1, Kinds DEF Stamped, Planned, Unobserved
      <3> QED BY <3>1, <3>2, MarkedRow
    <2>7. ASSUME NEW i \in RecordId, i \notin Written, i \notin Planned
          PROVE  i \notin saved /\ files[i] = before[i]
      <3>1. files[i] = before[i]
        BY <2>1, <2>2, <2>7 DEF FilesExact
      <3>2. ASSUME i \in saved PROVE FALSE
        <4>1. files[i] # NoRow /\ files[i] # Torn /\ files[i].seen = exec
          BY <3>2 DEF Present, TornFiles
        <4>2. before[i] \in CommonRecord
          BY <2>3, <3>1, <4>1 DEF File
        <4> QED BY <2>3, <3>1, <4>1, <4>2 DEF Stamped
      <3> QED BY <3>1, <3>2
    <2>8. saved = Written
      <3>1. saved \subseteq RecordId
        BY DEF Present
      <3> HIDE DEF saved
      <3> QED BY <2>5, <2>6, <2>7, <3>1
    <2>9. {i \in old \ saved : files[i] # before[i]} = Planned
      <3> HIDE DEF saved
      <3> QED BY <2>4, <2>6, <2>7, <2>8
    <2>10. /\ saved \ old = New
           /\ {i \in old \cap saved : files[i].content # before[i].content} = Changed
           /\ {i \in old \cap saved : files[i].content = before[i].content} = Unchanged
      <3> HIDE DEF saved
      <3> QED BY <2>4, <2>8 DEF New, Changed, Unchanged
    <2>11. mem.seen = Cardinality(Written)
      BY <2>1, <2>2, AsManyTargets
    <2> HIDE DEF saved
    <2> QED BY <2>1, <2>8, <2>9, <2>10, <2>11 DEF CountsExact, PlanMade
  <1> QED BY <1>1, StampInvariant, PTL
===============================================================================

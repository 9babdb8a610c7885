------------------------- MODULE PostgresStoreProofs -------------------------
(***************************************************************************)
(* Theorems about PostgresStore, for any number of executions, URLs and    *)
(* ids, in both modes and with every fault the module has.                 *)
(***************************************************************************)
EXTENDS PostgresStore, FiniteSetTheorems, TLAPS

(***************************************************************************)
(* What the pure functions of Records return.                              *)
(***************************************************************************)

\* save_record stores a well-formed row whatever was stored before.
LEMMA SavedType ==
  ASSUME NEW existing \in CommonRecord \cup {NoRow},
         NEW u \in Url, NEW c \in Content, NEW run \in Run
  PROVE  Saved(existing, u, c, run) \in CommonRecord
  BY DEF Saved, Inserted, Touched, Replaced, CommonRecord, RecordStatus, IndexStatus

\* Marking a row MISSING keeps it well-formed.
LEMMA MarkedMissingType ==
  ASSUME NEW row \in CommonRecord
  PROVE  MarkedMissing(row) \in CommonRecord
  BY DEF MarkedMissing, CommonRecord, RecordStatus

\* Counting one record keeps the run object well-formed.
LEMMA CountedType ==
  ASSUME NEW summary \in IngestionRun, NEW action
  PROVE  /\ Counted(summary, action) \in IngestionRun
         /\ Counted(summary, action).status = summary.status
  BY DEF Counted, IngestionRun

\* The statuses run_listing assigns keep it well-formed, and so does its
\* failure handler.
LEMMA EndingType ==
  ASSUME NEW summary \in IngestionRun, NEW status \in IngestionRunStatus
  PROVE  /\ Ending(summary, status) \in IngestionRun
         /\ Ending(summary, status).status = status
  BY DEF Ending, IngestionRun

LEMMA FailedType ==
  ASSUME NEW summary \in IngestionRun
  PROVE  /\ Failed(summary) \in IngestionRun
         /\ Failed(summary).status = "FAILED"
  BY DEF Failed, IngestionRun, IngestionRunStatus

LEMMA NewRunType ==
  ASSUME NEW status \in IngestionRunStatus
  PROVE  NewRun(status) \in IngestionRun /\ NewRun(status).status = status
  BY DEF NewRun, IngestionRun

LEMMA IndexedType ==
  ASSUME NEW row \in CommonRecord, NEW verdict \in Verdict
  PROVE  Indexed(row, verdict) \in CommonRecord
  BY VerdictAssumption DEF Indexed, CommonRecord, IndexStatus

\* plan_snapshot maps a listed URL to a record id.
LEMMA ReconciledType ==
  ASSUME NEW table \in Table, NEW u \in Url
  PROVE  Reconciled(table, u) \in RecordId
  BY IdOfAssumption DEF Reconciled, Present, Table

\* plan_snapshot marks stored rows only.
LEMMA UnobservedPresent ==
  ASSUME NEW table, NEW o
  PROVE  Unobserved(table, o) \subseteq Present(table)
  BY DEF Unobserved

\* The counts a run reports are numbers.
LEMMA CountsAreNumbers ==
  ASSUME NEW o, NEW table
  PROVE  /\ Cardinality(Listed(o)) \in Nat
         /\ Cardinality(Unobserved(table, o)) \in Nat
<1>1. IsFiniteSet(Listed(o))
  BY FiniteUrlAssumption, FS_Subset, Listed(o) \subseteq Url DEF Listed
<1>2. IsFiniteSet(Unobserved(table, o))
  BY FiniteIdAssumption, FS_Subset, Unobserved(table, o) \subseteq RecordId
  DEF Unobserved, Present
<1> QED BY <1>1, <1>2, FS_CardinalityType

(***************************************************************************)
(* Type correctness.  TypeOK is not inductive: a record is written under   *)
(* an observed content only because todo and cur hold listed URLs, and a   *)
(* row is marked MISSING only because gone holds stored rows.              *)
(***************************************************************************)
BatchWellFormed ==
  \A r \in Run :
    /\ todo[r] \subseteq Listed(obs[r])
    /\ pc[r] = "write" => cur[r] \in Listed(obs[r])
    /\ gone[r] \subseteq Present(rows)
    /\ pc[r] \in {"idle", "collecting", "open"} => todo[r] = {}

TypeInv == TypeOK /\ BatchWellFormed

LEMMA TypeInit == Init => TypeInv
<1> SUFFICES ASSUME Init PROVE TypeInv OBVIOUS
<1>1. rows \in Table
  <2>1. SeedRecords \subseteq CommonRecord
    BY DEF SeedRecords, CommonRecord, RecordStatus, IndexStatus
  <2> QED BY <2>1 DEF Init, SeedTables, Table
<1>2. NewRun("RUNNING") \in IngestionRun
  BY NewRunType DEF IngestionRunStatus
<1>3. TypeOK
  BY <1>1, <1>2, IdOfAssumption
  DEF Init, TypeOK, PC, NoDraft, NothingListed, Table, Listing
<1>4. BatchWellFormed
  BY DEF Init, BatchWellFormed
<1> QED BY <1>3, <1>4 DEF TypeInv

\* The end of a transaction: its drafts, if any, become the table.
LEMMA VisibleType ==
  ASSUME TypeOK, NEW r \in Run, NEW i \in RecordId
  PROVE  /\ Visible(r, i) \in CommonRecord \cup {NoRow}
         /\ rows[i] # NoRow => Visible(r, i) # NoRow
  BY DEF TypeOK, Visible, Table

LEMMA ReleaseType ==
  ASSUME TypeOK, NEW r \in Run, Release(r)
  PROVE  /\ rowLock' \in [RecordId -> Run \cup {None}]
         /\ advisory' \in Run \cup {None}
         /\ draft' \in [Run -> Table]
  BY DEF TypeOK, Release, NoDraft, Table

LEMMA PublishType ==
  ASSUME TypeOK, NEW r \in Run, Publish(r)
  PROVE  /\ rows' \in Table
         /\ Present(rows) \subseteq Present(rows)'
         /\ runs' \in [Run -> IngestionRun \cup {NoRow}]
<1>1. rows' \in Table
  BY VisibleType DEF Publish, Table
<1>2. Present(rows) \subseteq Present(rows)'
  BY VisibleType DEF Publish, Present
<1> QED BY <1>1, <1>2 DEF Publish, TypeOK

LEMMA ReturnType ==
  ASSUME TypeInv, NEW r \in Run, Return(r), UNCHANGED obs \/ Discard(r),
         NEW pc2, pc' = [pc EXCEPT ![r] = pc2], pc2 # "write",
         Present(rows) \subseteq Present(rows)'
  PROVE  /\ target' \in [Run -> [Url -> RecordId]]
         /\ todo' \in [Run -> SUBSET Url]
         /\ cur' \in [Run -> Url \cup {None}]
         /\ found' \in [Run -> CommonRecord \cup {NoRow}]
         /\ gone' \in [Run -> SUBSET RecordId]
         /\ obs' \in [Run -> Listing]
         /\ BatchWellFormed'
<1>1. obs' \in [Run -> Listing]
  <2>1. NothingListed \in Listing
    BY DEF NothingListed, Listing
  <2> QED BY <2>1 DEF Discard, TypeInv, TypeOK
<1>2. BatchWellFormed'
  BY DEF BatchWellFormed, TypeInv, TypeOK, Return, Discard
<1> QED BY <1>1, <1>2, IdOfAssumption DEF Return, TypeInv, TypeOK

LEMMA TypeStep == TypeInv /\ [Next]_vars => TypeInv'
<1> SUFFICES ASSUME TypeInv, [Next]_vars PROVE TypeInv' OBVIOUS
<1> USE DEF TypeInv
<1>1. ASSUME NEW r \in Run, SaveRunning(r) PROVE TypeInv'
  <2>1. TypeOK'
    BY <1>1 DEF SaveRunning, Goto, batch, history, TypeOK, PC
  <2>2. BatchWellFormed'
    BY <1>1 DEF SaveRunning, Goto, batch, TypeOK, BatchWellFormed, Present
  <2> QED BY <2>1, <2>2
<1>2. ASSUME NEW r \in Run, RunningRefused(r) PROVE TypeInv'
  <2>1. mem' \in [Run -> IngestionRun]
    BY <1>2, EndingType DEF RunningRefused, TypeOK, IngestionRunStatus
  <2>2. TypeOK'
    BY <1>2, <2>1 DEF RunningRefused, Goto, batch, history, TypeOK, PC
  <2>3. BatchWellFormed'
    BY <1>2 DEF RunningRefused, Goto, batch, TypeOK, BatchWellFormed, Present
  <2> QED BY <2>2, <2>3
<1>3. ASSUME NEW r \in Run, Collected(r) PROVE TypeInv'
  <2>1. mem' \in [Run -> IngestionRun]
    BY <1>3, EndingType DEF Collected, TypeOK, IngestionRunStatus
  <2>2. TypeOK'
    BY <1>3, <2>1 DEF Collected, Goto, database, TypeOK, PC, InBatch
  <2>3. BatchWellFormed'
    BY <1>3 DEF Collected, Goto, database, TypeOK, BatchWellFormed, Present
  <2> QED BY <2>2, <2>3
<1>4. ASSUME NEW r \in Run, CollectionFails(r) PROVE TypeInv'
  <2>1. mem' \in [Run -> IngestionRun]
    BY <1>4, EndingType DEF CollectionFails, TypeOK, IngestionRunStatus
  <2>2. TypeOK'
    BY <1>4, <2>1 DEF CollectionFails, Goto, database, batch, history, TypeOK, PC
  <2>3. BatchWellFormed'
    BY <1>4 DEF CollectionFails, Goto, database, batch, TypeOK, BatchWellFormed, Present
  <2> QED BY <2>2, <2>3
<1>5. ASSUME NEW r \in Run, OpenBatch(r) PROVE TypeInv'
  <2>1. mem' \in [Run -> IngestionRun]
    BY <1>5, CountsAreNumbers DEF OpenBatch, FirstStep, TypeOK, IngestionRun
  <2>2. BatchWellFormed'
    BY <1>5 DEF OpenBatch, FirstStep, Goto, database, TypeOK, BatchWellFormed, Present, Listed
  <2>3. todo' \in [Run -> SUBSET Url]
    BY <1>5 DEF OpenBatch, FirstStep, TypeOK, Listed
  <2> QED BY <1>5, <2>1, <2>2, <2>3, IdOfAssumption
          DEF OpenBatch, FirstStep, Goto, database, history, TypeOK, PC, InBatch
<1>6. ASSUME NEW r \in Run, AcquireAdvisory(r) PROVE TypeInv'
  BY <1>6 DEF AcquireAdvisory, Goto, batch, history, TypeOK, PC, InBatch,
              BatchWellFormed, Present
<1>7. ASSUME NEW r \in Run, PlanSnapshot(r) PROVE TypeInv'
  <2>1. mem' \in [Run -> IngestionRun]
    BY <1>7, CountsAreNumbers DEF PlanSnapshot, TypeOK, IngestionRun
  <2>2. target' \in [Run -> [Url -> RecordId]]
    <3>1. [u \in Url |-> Reconciled(rows, u)] \in [Url -> RecordId]
      BY ReconciledType DEF TypeOK
    <3> QED BY <1>7, <3>1 DEF PlanSnapshot, TypeOK
  <2>3. Unobserved(rows, obs[r]) \subseteq Present(rows)
    BY UnobservedPresent
  <2>4. gone' \in [Run -> SUBSET RecordId]
    BY <1>7, <2>3 DEF PlanSnapshot, TypeOK, Present
  <2>5. BatchWellFormed'
    BY <1>7, <2>3 DEF PlanSnapshot, Goto, TypeOK, BatchWellFormed, Present
  <2> QED BY <1>7, <2>1, <2>2, <2>4, <2>5
          DEF PlanSnapshot, Goto, history, TypeOK, PC, InBatch
<1>8. ASSUME NEW r \in Run, NEW u \in Url, SelectRecord(r, u) PROVE TypeInv'
  <2>1. found' \in [Run -> CommonRecord \cup {NoRow}]
    BY <1>8, VisibleType DEF SelectRecord, TypeOK
  <2>2. BatchWellFormed'
    BY <1>8 DEF SelectRecord, TypeOK, BatchWellFormed, Present
  <2> QED BY <1>8, <2>1, <2>2 DEF SelectRecord, history, TypeOK, PC, InBatch
<1>9. ASSUME NEW r \in Run, WriteRecord(r) PROVE TypeInv'
  <2> DEFINE u == cur[r]
             final == Saved(found[r], u, obs[r][u], r)
  <2>1. u \in Url /\ obs[r][u] \in Content
    BY <1>9 DEF WriteRecord, Goto, BatchWellFormed, Listed, TypeOK, Listing
  <2>2. final \in CommonRecord
    BY <2>1, SavedType DEF TypeOK
  <2>3. mem' \in [Run -> IngestionRun]
    BY <1>9, CountedType DEF WriteRecord, TypeOK
  <2>4. draft' \in [Run -> Table]
    BY <1>9, <2>1, <2>2 DEF WriteRecord, TypeOK, Table
  <2>5. BatchWellFormed'
    BY <1>9 DEF WriteRecord, Goto, batch, TypeOK, BatchWellFormed, Present
  <2> QED BY <1>9, <2>1, <2>3, <2>4, <2>5
          DEF WriteRecord, Goto, batch, history, TypeOK, PC, InBatch
<1>10. ASSUME NEW r \in Run, MarkMissing(r) PROVE TypeInv'
  <2>1. draft' \in [Run -> Table]
    <3>1. \A i \in gone[r] : Visible(r, i) \in CommonRecord
      BY VisibleType DEF BatchWellFormed, Present
    <3>2. \A i \in gone[r] : MarkedMissing(Visible(r, i)) \in CommonRecord
      BY <3>1, MarkedMissingType
    <3> QED BY <1>10, <3>2 DEF MarkMissing, TypeOK, Table
  <2>2. BatchWellFormed'
    BY <1>10 DEF MarkMissing, Goto, batch, TypeOK, BatchWellFormed, Present
  <2> QED BY <1>10, <2>1, <2>2
          DEF MarkMissing, Goto, batch, history, TypeOK, PC, InBatch
<1>11. ASSUME NEW r \in Run, Commit(r) PROVE TypeInv'
  BY <1>11, PublishType, ReleaseType, ReturnType
  DEF Commit, Goto, Publish, TypeOK, PC, Ended
<1>12. ASSUME NEW r \in Run, GiveUp(r), Discard(r), Rollback(r), UNCHANGED history
       PROVE  TypeInv'
  <2>1. mem' \in [Run -> IngestionRun]
    BY <1>12, FailedType DEF GiveUp, TypeOK
  <2> QED BY <1>12, <2>1, ReleaseType, ReturnType
          DEF GiveUp, Discard, Rollback, history, TypeOK, PC, Present
<1>13. ASSUME NEW r \in Run, CommitAnswerLost(r) PROVE TypeInv'
  <2>1. mem' \in [Run -> IngestionRun]
    BY <1>13, FailedType DEF CommitAnswerLost, GiveUp, TypeOK
  <2> QED BY <1>13, <2>1, PublishType, ReleaseType, ReturnType
          DEF CommitAnswerLost, GiveUp, Publish, TypeOK, PC
<1>14. ASSUME NEW r \in Run, SaveFailedRun(r) \/ FailedRunLost(r) PROVE TypeInv'
  BY <1>14 DEF SaveFailedRun, FailedRunLost, Goto, database, batch, history, TypeOK,
               PC, Ended, BatchWellFormed, Present
<1>15. ASSUME NEW r \in Run, Crash(r) PROVE TypeInv'
  <2>1. mem' \in [Run -> IngestionRun]
    BY <1>15, NewRunType DEF Crash, TypeOK, IngestionRunStatus
  <2>2. Return(r) /\ (UNCHANGED obs \/ Discard(r))
    BY <1>15 DEF Crash, Discard
  <2> QED BY <1>15, <2>1, <2>2, ReleaseType, ReturnType
          DEF Crash, Rollback, history, TypeOK, PC, Ended, Present
<1>16. ASSUME NEW i \in RecordId, Index(i) PROVE TypeInv'
  <2>1. \A verdict \in Verdict : Indexed(rows[i], verdict) \in CommonRecord
    BY <1>16, IndexedType DEF Index, TypeOK, Table
  <2>2. /\ rows' \in Table
        /\ Present(rows) \subseteq Present(rows)'
    BY <1>16, <2>1, NoRowAssumption DEF Index, TypeOK, Table, Present
  <2>3. BatchWellFormed'
    BY <1>16, <2>2 DEF Index, batch, BatchWellFormed
  <2> QED BY <1>16, <2>2, <2>3 DEF Index, batch, history, TypeOK
<1>17. CASE UNCHANGED vars
  <2>1. TypeOK'
    BY <1>17 DEF vars, database, batch, history, TypeOK
  <2>2. BatchWellFormed'
    BY <1>17 DEF vars, database, batch, BatchWellFormed, Present
  <2> QED BY <2>1, <2>2
<1>18. ASSUME NEW r \in Run,
              PlanRefused(r) \/ UniqueViolation(r) \/ DeadlockVictim(r) \/ StatementFails(r)
       PROVE  TypeInv'
  BY <1>12, <1>18 DEF PlanRefused, UniqueViolation, DeadlockVictim, StatementFails
<1> QED
  BY <1>1, <1>2, <1>3, <1>4, <1>5, <1>6, <1>7, <1>8, <1>9, <1>10, <1>11,
     <1>13, <1>14, <1>15, <1>16, <1>17, <1>18
  DEF Next, Progress, Fault

\* In every reachable state every variable has its type: in particular every
\* committed and every uncommitted row is a well-formed record.
THEOREM TypeCorrect == Spec => []TypeOK
<1>1. TypeInv => TypeOK BY DEF TypeInv
<1> QED BY <1>1, TypeInit, TypeStep, PTL DEF Spec

(***************************************************************************)
(* IndexFresh.  A row reaches the table by way of a SELECT (found) and an  *)
(* uncommitted version (draft), so both must be fresh too.                 *)
(***************************************************************************)
Fresh(row) ==
  row # NoRow /\ row.embedding # None =>
    row.embedding = row.content /\ row.index = "INDEXED"

FreshInv ==
  /\ \A i \in RecordId : Fresh(rows[i])
  /\ \A r \in Run : Fresh(found[r])
  /\ \A r \in Run, i \in RecordId : Fresh(draft[r][i])

\* save_record, the MISSING mark and the indexer never leave a stale
\* embedding behind.
LEMMA SavedFresh ==
  ASSUME NEW existing \in CommonRecord \cup {NoRow}, Fresh(existing),
         NEW u \in Url, NEW c \in Content, NEW run \in Run
  PROVE  Fresh(Saved(existing, u, c, run))
  BY DEF Saved, Inserted, Touched, Replaced, Fresh, CommonRecord

LEMMA MarkedMissingFresh ==
  ASSUME NEW row \in CommonRecord, Fresh(row)
  PROVE  Fresh(MarkedMissing(row))
  BY NoRowAssumption DEF MarkedMissing, Fresh, CommonRecord

LEMMA IndexedFresh ==
  ASSUME NEW row \in CommonRecord, NEW verdict \in Verdict
  PROVE  Fresh(Indexed(row, verdict))
  BY VerdictAssumption DEF Indexed, Fresh, CommonRecord

\* What WriteRecord writes, for any state it can be taken in.
LEMMA WriteRecordFacts ==
  ASSUME TypeInv, NEW r \in Run, WriteRecord(r)
  PROVE  /\ cur[r] \in Listed(obs[r])
         /\ cur[r] \in Url
         /\ obs[r][cur[r]] \in Content
         /\ target[r][cur[r]] \in RecordId
         /\ found[r] \in CommonRecord \cup {NoRow}
  BY DEF TypeInv, TypeOK, WriteRecord, Goto, BatchWellFormed, Listed, Listing

LEMMA FreshStep == TypeInv /\ FreshInv /\ [Next]_vars => FreshInv'
<1> SUFFICES ASSUME TypeInv, FreshInv, [Next]_vars PROVE FreshInv' OBVIOUS
<1> USE DEF FreshInv
<1>1. ASSUME UNCHANGED <<rows, found, draft>> PROVE FreshInv'
  BY <1>1
<1>2. ASSUME NEW r \in Run, NEW u \in Url, SelectRecord(r, u) PROVE FreshInv'
  BY <1>2 DEF SelectRecord, Visible, TypeInv, TypeOK
<1>3. ASSUME NEW r \in Run, WriteRecord(r) PROVE FreshInv'
  <2>1. Fresh(Saved(found[r], cur[r], obs[r][cur[r]], r))
    BY <1>3, WriteRecordFacts, SavedFresh
  <2> QED BY <1>3, <2>1, WriteRecordFacts DEF WriteRecord, batch, TypeInv, TypeOK, Table
<1>4. ASSUME NEW r \in Run, MarkMissing(r) PROVE FreshInv'
  <2>1. \A i \in gone[r] : i \in RecordId /\ Visible(r, i) \in CommonRecord /\ Fresh(Visible(r, i))
    BY VisibleType DEF TypeInv, BatchWellFormed, Present, Visible
  <2>2. \A i \in gone[r] : Fresh(MarkedMissing(Visible(r, i)))
    BY <2>1, MarkedMissingFresh
  <2> QED BY <1>4, <2>2 DEF MarkMissing, batch, TypeInv, TypeOK
<1>5. ASSUME NEW r \in Run, Release(r), Return(r),
             UNCHANGED rows \/ rows' = [i \in RecordId |-> Visible(r, i)]
      PROVE  FreshInv'
  <2>1. Fresh(NoRow)
    BY DEF Fresh
  <2> QED BY <1>5, <2>1 DEF Release, Return, NoDraft, Visible, TypeInv, TypeOK
<1>6. ASSUME NEW i \in RecordId, Index(i) PROVE FreshInv'
  <2>1. \A verdict \in Verdict : Fresh(Indexed(rows[i], verdict))
    BY <1>6, IndexedFresh DEF Index, TypeInv, TypeOK, Table
  <2> QED BY <1>6, <2>1 DEF Index, batch, TypeInv, TypeOK, Table
<1>7. ASSUME NEW r \in Run, Progress(r) \/ Fault(r) PROVE FreshInv'
  <2>1. CASE \/ SaveRunning(r) \/ Collected(r) \/ OpenBatch(r) \/ AcquireAdvisory(r)
             \/ PlanSnapshot(r) \/ SaveFailedRun(r) \/ RunningRefused(r)
             \/ CollectionFails(r) \/ FailedRunLost(r)
    BY <2>1, <1>1 DEF SaveRunning, Collected, OpenBatch, FirstStep, AcquireAdvisory, PlanSnapshot,
       SaveFailedRun, RunningRefused, CollectionFails, FailedRunLost, database, batch
  <2>2. CASE \E u \in Url : SelectRecord(r, u)
    BY <2>2, <1>2
  <2>3. CASE WriteRecord(r) \/ MarkMissing(r)
    BY <2>3, <1>3, <1>4
  <2>4. CASE \/ PlanRefused(r) \/ UniqueViolation(r) \/ DeadlockVictim(r)
             \/ StatementFails(r) \/ Crash(r)
    BY <2>4, <1>5 DEF PlanRefused, UniqueViolation, DeadlockVictim, StatementFails,
       Crash, Rollback, Discard
  <2>5. CASE Commit(r) \/ CommitAnswerLost(r)
    BY <2>5, <1>5 DEF Commit, CommitAnswerLost, Publish
  <2> QED BY <1>7, <2>1, <2>2, <2>3, <2>4, <2>5 DEF Progress, Fault
<1> QED BY <1>1, <1>6, <1>7 DEF Next, vars, database, batch

\* A stored embedding is always that of the stored content.
THEOREM EmbeddingsFresh == Spec => []IndexFresh
<1>1. Init => FreshInv
  BY DEF Init, SeedTables, SeedRecords, Present, FreshInv, Fresh, NoDraft
<1>2. FreshInv => IndexFresh
  BY DEF FreshInv, IndexFresh, Present, Fresh
<1> QED BY <1>1, <1>2, TypeInit, TypeStep, FreshStep, PTL DEF Spec

(***************************************************************************)
(* LastKnownGood and ExitAgrees.  Both rest on one account of the run      *)
(* object: SUCCESS is assigned after the preflight, before the batch, and  *)
(* taken back by the failure handler; as long as no answer is lost, the    *)
(* database learns it only from a commit, which is also the execution's    *)
(* last step.                                                              *)
(***************************************************************************)
Succeeded(r) == runs[r] # NoRow /\ runs[r].status = "SUCCESS"

OutcomeInv ==
  \A r \in Run :
    /\ pc[r] \in {"idle", "collecting"} => mem[r].status = "RUNNING"
    /\ pc[r] \in InBatch => mem[r].status = "SUCCESS"
    /\ pc[r] = "reporting" => mem[r].status # "SUCCESS"
    /\ pc[r] = "done" /\ mem[r].status = "SUCCESS" => Succeeded(r)
    /\ ~AckLoss /\ Succeeded(r) => pc[r] = "done" /\ mem[r].status = "SUCCESS"

LEMMA OutcomeStep == TypeInv /\ OutcomeInv /\ [Next]_vars => OutcomeInv'
<1> SUFFICES ASSUME TypeInv, OutcomeInv, [Next]_vars PROVE OutcomeInv' OBVIOUS
<1> USE DEF OutcomeInv, Succeeded, InBatch, TypeInv, TypeOK
<1>1. ASSUME UNCHANGED <<runs, pc, mem>> PROVE OutcomeInv'
  BY <1>1
<1>2. ASSUME NEW r \in Run, SaveRunning(r) PROVE OutcomeInv'
  BY <1>2 DEF SaveRunning, Goto
<1>3. ASSUME NEW r \in Run, RunningRefused(r) PROVE OutcomeInv'
  BY <1>3, EndingType, ModeAssumption DEF RunningRefused, Goto, IngestionRunStatus
<1>4. ASSUME NEW r \in Run, Collected(r) PROVE OutcomeInv'
  BY <1>4, EndingType DEF Collected, Goto, database, IngestionRunStatus
<1>5. ASSUME NEW r \in Run, CollectionFails(r) PROVE OutcomeInv'
  BY <1>5, EndingType DEF CollectionFails, Goto, database, IngestionRunStatus
<1>6. ASSUME NEW r \in Run,
             OpenBatch(r) \/ AcquireAdvisory(r) \/ PlanSnapshot(r) \/ MarkMissing(r)
      PROVE  OutcomeInv'
  <2>1. mem'[r].status = mem[r].status /\ \A q \in Run \ {r} : mem'[q] = mem[q]
    BY <1>6 DEF OpenBatch, FirstStep, AcquireAdvisory, PlanSnapshot, MarkMissing, IngestionRun
  <2> QED BY <1>6, <2>1
          DEF OpenBatch, FirstStep, AcquireAdvisory, PlanSnapshot, MarkMissing, Goto, database
<1>7. ASSUME NEW r \in Run, NEW u \in Url, SelectRecord(r, u) PROVE OutcomeInv'
  BY <1>7 DEF SelectRecord
<1>8. ASSUME NEW r \in Run, WriteRecord(r) PROVE OutcomeInv'
  <2>1. mem'[r].status = mem[r].status /\ \A q \in Run \ {r} : mem'[q] = mem[q]
    BY <1>8, CountedType DEF WriteRecord
  <2> QED BY <1>8, <2>1 DEF WriteRecord, Goto
<1>9. ASSUME NEW r \in Run, Commit(r) PROVE OutcomeInv'
  BY <1>9, NoRowAssumption DEF Commit, Publish, Goto
<1>10. ASSUME NEW r \in Run, GiveUp(r), UNCHANGED runs, pc[r] \in InBatch
       PROVE  OutcomeInv'
  BY <1>10, FailedType DEF GiveUp
<1>11. ASSUME NEW r \in Run, CommitAnswerLost(r) PROVE OutcomeInv'
  BY <1>11, FailedType DEF CommitAnswerLost, GiveUp, Publish
<1>12. ASSUME NEW r \in Run, SaveFailedRun(r) \/ FailedRunLost(r) PROVE OutcomeInv'
  BY <1>12 DEF SaveFailedRun, FailedRunLost, Goto, database
<1>13. ASSUME NEW r \in Run, Crash(r) PROVE OutcomeInv'
  BY <1>13, NewRunType DEF Crash, Rollback, Ended, IngestionRunStatus
<1>14. ASSUME NEW r \in Run, Progress(r) \/ Fault(r) PROVE OutcomeInv'
  <2>1. CASE \/ PlanRefused(r) \/ UniqueViolation(r) \/ DeadlockVictim(r)
             \/ StatementFails(r)
    <3>1. pc[r] \in InBatch
      BY <2>1 DEF PlanRefused, UniqueViolation, DeadlockVictim, StatementFails, WaitsFor
    <3> QED BY <2>1, <3>1, <1>10
            DEF PlanRefused, UniqueViolation, DeadlockVictim, StatementFails, Rollback
  <2> QED BY <1>14, <2>1, <1>2, <1>3, <1>4, <1>5, <1>6, <1>7, <1>8, <1>9, <1>11,
             <1>12, <1>13 DEF Progress, Fault
<1> QED BY <1>1, <1>14 DEF Next, Index, vars, database

LEMMA OutcomeInit == Init => OutcomeInv
  BY NewRunType DEF Init, OutcomeInv, Succeeded, InBatch, IngestionRunStatus

\* Exit code 0 means the batch and its SUCCESS row are durable; without a lost
\* answer, any other end means they are not.
THEOREM ExitCodeAgrees == Spec => []ExitAgrees
<1>1. OutcomeInv => ExitAgrees
  BY DEF OutcomeInv, ExitAgrees, Succeeded
<1> QED BY <1>1, TypeInit, TypeStep, OutcomeInit, OutcomeStep, PTL DEF Spec

\* The executions a row carries the timestamps of.
Stamps(row) == IF row = NoRow THEN {} ELSE {row.seen, row.collected} \ {None}

StampInv ==
  /\ \A i \in RecordId : \A q \in Stamps(rows[i]) : Succeeded(q)
  /\ \A r \in Run : \A q \in Stamps(found[r]) : q = r \/ Succeeded(q)
  /\ \A r \in Run, i \in RecordId : \A q \in Stamps(draft[r][i]) : q = r \/ Succeeded(q)

\* An execution adds no timestamp but its own.
LEMMA SavedStamps ==
  ASSUME NEW existing \in CommonRecord \cup {NoRow},
         NEW u \in Url, NEW c \in Content, NEW run \in Run
  PROVE  Stamps(Saved(existing, u, c, run)) \subseteq Stamps(existing) \cup {run}
<1>1. Saved(existing, u, c, run) # NoRow
  BY SavedType, NoRowAssumption
<1> QED BY <1>1 DEF Saved, Inserted, Touched, Replaced, Stamps, CommonRecord

LEMMA MarkedMissingStamps ==
  ASSUME NEW row \in CommonRecord
  PROVE  Stamps(MarkedMissing(row)) = Stamps(row)
<1>1. row # NoRow /\ MarkedMissing(row) # NoRow
  BY MarkedMissingType, NoRowAssumption
<1> QED BY <1>1 DEF MarkedMissing, Stamps, CommonRecord

LEMMA IndexedStamps ==
  ASSUME NEW row \in CommonRecord, NEW verdict \in Verdict
  PROVE  Stamps(Indexed(row, verdict)) = Stamps(row)
<1>1. row # NoRow /\ Indexed(row, verdict) # NoRow
  BY IndexedType, NoRowAssumption
<1> QED BY <1>1 DEF Indexed, Stamps, CommonRecord

\* A SUCCESS row is never taken back.
LEMMA SuccessIsFinal ==
  ASSUME TypeInv, OutcomeInv, [Next]_vars, ~AckLoss, NEW q, Succeeded(q), q \in Run
  PROVE  Succeeded(q)'
<1>1. pc[q] = "done"
  BY DEF OutcomeInv
<1>2. runs'[q] = runs[q]
  <2>1. ASSUME NEW r \in Run, Progress(r) \/ Fault(r) PROVE runs'[q] = runs[q]
    BY <1>1, <2>1
    DEF Progress, Fault, SaveRunning, Collected, OpenBatch, FirstStep, AcquireAdvisory, PlanSnapshot,
        PlanRefused, SelectRecord, WriteRecord, UniqueViolation, DeadlockVictim, MarkMissing,
        Commit, SaveFailedRun, RunningRefused, CollectionFails, StatementFails,
        CommitAnswerLost, FailedRunLost, Crash, Publish, Rollback, Goto, database,
        TypeInv, TypeOK
  <2> QED BY <2>1 DEF Next, Index, vars, database
<1> QED BY <1>2 DEF Succeeded

LEMMA StampStep ==
  ~AckLoss /\ TypeInv /\ OutcomeInv /\ OutcomeInv' /\ StampInv /\ [Next]_vars => StampInv'
<1> SUFFICES ASSUME ~AckLoss, TypeInv, OutcomeInv, OutcomeInv', StampInv, [Next]_vars
             PROVE  StampInv'
  OBVIOUS
<1>0. \A q \in Run : Succeeded(q) => Succeeded(q)'
  BY SuccessIsFinal
<1>s. /\ \A i \in RecordId : Stamps(rows[i]) \subseteq Run
      /\ \A r \in Run : Stamps(found[r]) \subseteq Run
      /\ \A r \in Run, i \in RecordId : Stamps(draft[r][i]) \subseteq Run
  BY DEF Stamps, TypeInv, TypeOK, Table, CommonRecord
<1>1. ASSUME UNCHANGED <<rows, found, draft>> PROVE StampInv'
  BY <1>0, <1>s, <1>1 DEF StampInv
<1>2. ASSUME NEW r \in Run, NEW u \in Url, SelectRecord(r, u) PROVE StampInv'
  <2>1. target[r][u] \in RecordId /\ found' = [found EXCEPT ![r] = Visible(r, target[r][u])]
    BY <1>2 DEF SelectRecord, TypeInv, TypeOK
  <2>2. \A q \in Stamps(Visible(r, target[r][u])) : q \in Run /\ (q = r \/ Succeeded(q))
    BY <1>s, <2>1 DEF StampInv, Visible
  <2> QED BY <1>0, <1>s, <1>2, <2>1, <2>2 DEF StampInv, SelectRecord, TypeInv, TypeOK
<1>3. ASSUME NEW r \in Run, WriteRecord(r) PROVE StampInv'
  <2>1. Stamps(Saved(found[r], cur[r], obs[r][cur[r]], r)) \subseteq Stamps(found[r]) \cup {r}
    BY <1>3, WriteRecordFacts, SavedStamps
  <2> QED BY <1>0, <1>s, <1>3, <2>1, WriteRecordFacts
          DEF StampInv, WriteRecord, batch, TypeInv, TypeOK, Table
<1>4. ASSUME NEW r \in Run, MarkMissing(r) PROVE StampInv'
  <2>1. \A i \in gone[r] : i \in RecordId /\ Visible(r, i) \in CommonRecord
    BY VisibleType DEF TypeInv, BatchWellFormed, Present
  <2>2. \A i \in gone[r] : Stamps(MarkedMissing(Visible(r, i))) = Stamps(Visible(r, i))
    BY <2>1, MarkedMissingStamps
  <2>3. \A i \in gone[r] : \A q \in Stamps(Visible(r, i)) : q = r \/ Succeeded(q)
    BY <2>1 DEF StampInv, Visible
  <2> QED BY <1>0, <1>s, <1>4, <2>1, <2>2, <2>3
          DEF StampInv, MarkMissing, batch, TypeInv, TypeOK, Visible
<1>5. ASSUME NEW r \in Run, Release(r), Return(r),
             \/ rows' = rows
             \/ rows' = [i \in RecordId |-> Visible(r, i)] /\ Succeeded(r)'
      PROVE  StampInv'
  <2>1. Stamps(NoRow) = {}
    BY DEF Stamps
  <2> QED BY <1>0, <1>s, <1>5, <2>1
          DEF StampInv, Release, Return, NoDraft, Visible, TypeInv, TypeOK
<1>6. ASSUME NEW i \in RecordId, Index(i) PROVE StampInv'
  <2>1. \A verdict \in Verdict : Stamps(Indexed(rows[i], verdict)) = Stamps(rows[i])
    BY <1>6, IndexedStamps DEF Index, TypeInv, TypeOK, Table
  <2> QED BY <1>0, <1>s, <1>6, <2>1 DEF StampInv, Index, batch, TypeInv, TypeOK, Table
<1>7. ASSUME NEW r \in Run, Progress(r) \/ Fault(r) PROVE StampInv'
  <2>1. CASE \/ SaveRunning(r) \/ Collected(r) \/ OpenBatch(r) \/ AcquireAdvisory(r)
             \/ PlanSnapshot(r) \/ SaveFailedRun(r) \/ RunningRefused(r)
             \/ CollectionFails(r) \/ FailedRunLost(r)
    BY <2>1, <1>1 DEF SaveRunning, Collected, OpenBatch, FirstStep, AcquireAdvisory, PlanSnapshot,
       SaveFailedRun, RunningRefused, CollectionFails, FailedRunLost, database, batch
  <2>2. CASE \E u \in Url : SelectRecord(r, u)
    BY <2>2, <1>2
  <2>3. CASE WriteRecord(r) \/ MarkMissing(r)
    BY <2>3, <1>3, <1>4
  <2>4. CASE \/ PlanRefused(r) \/ UniqueViolation(r) \/ DeadlockVictim(r)
             \/ StatementFails(r) \/ Crash(r)
    <3>1. Release(r) /\ Return(r) /\ rows' = rows
      BY <2>4 DEF PlanRefused, UniqueViolation, DeadlockVictim, StatementFails, Crash,
         Discard, Rollback
    <3> QED BY <3>1, <1>5
  <2>5. CASE Commit(r)
    <3>1. mem[r].status = "SUCCESS"
      BY <2>5 DEF Commit, Goto, OutcomeInv, InBatch
    <3>2. Succeeded(r)'
      BY <2>5, <3>1, NoRowAssumption DEF Commit, Publish, Succeeded, TypeInv, TypeOK
    <3> QED BY <2>5, <3>2, <1>5 DEF Commit, Publish
  <2> QED BY <1>7, <2>1, <2>2, <2>3, <2>4, <2>5 DEF Progress, Fault, CommitAnswerLost
<1> QED BY <1>1, <1>6, <1>7 DEF Next, vars, database, batch

\* As long as no answer of the database is lost, a row that carries an
\* execution's timestamp was committed together with its SUCCESS row.
THEOREM LastKnownGoodPreserved == ~AckLoss => (Spec => []LastKnownGood)
<1> SUFFICES ASSUME ~AckLoss PROVE Spec => []LastKnownGood
  OBVIOUS
<1>1. Init => StampInv
  BY DEF Init, SeedTables, SeedRecords, Present, StampInv, Stamps, NoDraft
<1>2. StampInv => LastKnownGood
  BY DEF StampInv, LastKnownGood, Present, Stamps, Succeeded
<1>3. TypeInv /\ OutcomeInv /\ OutcomeInv' /\ StampInv /\ [Next]_vars => StampInv'
  BY StampStep
<1> QED BY <1>1, <1>2, <1>3, TypeInit, TypeStep, OutcomeInit, OutcomeStep, PTL DEF Spec

(***************************************************************************)
(* SnapshotExact.  Two assumptions on identity: the id a listing derives   *)
(* determines the URL (it is the URL's path, sources/population.py), and   *)
(* no URL derives an id that a legacy row carries (run legacy_id_reused    *)
(* shows what happens otherwise).                                          *)
(*                                                                         *)
(* The invariant describes an execution between its plan and its commit:   *)
(* it holds the advisory lock and every stored row, so its plan still fits *)
(* the table, and its uncommitted versions are what save_record makes of   *)
(* the records saved so far.                                               *)
(***************************************************************************)
CleanIdentity ==
  /\ \A u, w \in Url : IdOf[u] = IdOf[w] => u = w
  /\ \A u \in Url : IdOf[u] \notin LegacyId

RowsIdentified(table) ==
  \A i \in Present(table) : IdOf[table[i].url] = i \/ i \in LegacyId

Planned == {"select", "write", "finish", "commit"}

SavedSoFar(r) ==
  Listed(obs[r]) \ (todo[r] \cup (IF pc[r] = "write" THEN {cur[r]} ELSE {}))

DraftsExact(r) ==
  \A i \in RecordId :
    /\ \A u \in SavedSoFar(r) : target[r][u] = i =>
         draft[r][i] = Saved(rows[i], u, obs[r][u], r)
    /\ (\A u \in SavedSoFar(r) : target[r][u] # i) =>
         draft[r][i] = IF pc[r] = "commit" /\ i \in gone[r]
                       THEN MarkedMissing(rows[i]) ELSE NoRow

PlanCurrent(r) ==
  /\ UniqueUrls(rows)
  /\ \A i \in Present(rows) : rowLock[i] = r
  /\ \A u \in Url : target[r][u] = Reconciled(rows, u)
  /\ gone[r] = Unobserved(rows, obs[r])

InProgress(r) ==
  /\ pc[r] = "write" => cur[r] \notin todo[r] /\ found[r] = rows[target[r][cur[r]]]
  /\ pc[r] \in {"finish", "commit"} => todo[r] = {}
  /\ DraftsExact(r)

PlanInv ==
  /\ RowsIdentified(rows)
  /\ \A r \in Run :
       /\ pc[r] \in Planned \cup {"plan"} => advisory = r
       /\ pc[r] \in Planned => PlanCurrent(r) /\ InProgress(r)
       /\ pc[r] \in {"lock", "plan"} => todo[r] = Listed(obs[r])
       /\ pc[r] \notin Planned => draft[r] = NoDraft
       /\ published = r => pc[r] \in {"reporting"} \cup Ended

\* plan_snapshot under clean identities: a listed URL maps to the row that has
\* that URL or, if none has, to an id that no row has ...
LEMMA ReconciledRow ==
  ASSUME CleanIdentity, NEW table \in Table, RowsIdentified(table), NEW u \in Url
  PROVE  LET i == Reconciled(table, u) IN
           /\ i \in RecordId
           /\ table[i] # NoRow => table[i].url = u
           /\ table[i] = NoRow => i = IdOf[u]
<1>1. CASE \E i \in Present(table) : table[i].url = u
  BY <1>1 DEF Reconciled, Present
<1>2. CASE ~ \E i \in Present(table) : table[i].url = u
  <2>1. Reconciled(table, u) = IdOf[u] /\ IdOf[u] \in RecordId
    BY <1>2, IdOfAssumption DEF Reconciled
  <2>2. ASSUME table[IdOf[u]] # NoRow PROVE FALSE
    <3>1. IdOf[u] \in Present(table)
      BY <2>1, <2>2 DEF Present
    <3>2. table[IdOf[u]].url \in Url
      BY <2>1, <2>2 DEF Table, CommonRecord
    <3> QED BY <1>2, <3>1, <3>2 DEF CleanIdentity, RowsIdentified
  <2> QED BY <2>1, <2>2
<1> QED BY <1>1, <1>2

\* ... and two URLs never map to the same id.
LEMMA ReconciledInjective ==
  ASSUME CleanIdentity, NEW table \in Table, RowsIdentified(table),
         NEW u \in Url, NEW w \in Url, Reconciled(table, u) = Reconciled(table, w)
  PROVE  u = w
  BY ReconciledRow DEF CleanIdentity

\* Under such a mapping what save_record stores is the observed record.
LEMMA SavedExact ==
  ASSUME NEW existing \in CommonRecord \cup {NoRow},
         NEW u \in Url, NEW c \in Content, NEW run \in Run,
         existing # NoRow => existing.url = u
  PROVE  /\ Saved(existing, u, c, run).url = u
         /\ Saved(existing, u, c, run).content = c
         /\ Saved(existing, u, c, run).status # "MISSING"
  BY DEF Saved, Inserted, Touched, Replaced, CommonRecord

\* What the planned execution's transaction leaves behind.
LEMMA CommitExact ==
  ASSUME CleanIdentity, TypeInv, PlanInv, NEW r \in Run, pc[r] = "commit",
         NEW t, t = [i \in RecordId |-> Visible(r, i)]
  PROVE  Active(t) = AsPairs(obs[r]) /\ RowsIdentified(t)
<1>1. PlanCurrent(r) /\ InProgress(r) /\ RowsIdentified(rows)
  BY DEF PlanInv, Planned
<1>2. rows \in Table /\ obs[r] \in Listing /\ t \in Table
  BY VisibleType DEF TypeInv, TypeOK, Table
<1>3. ASSUME NEW u \in Listed(obs[r])
      PROVE  LET i == target[r][u] IN
               /\ i \in RecordId
               /\ t[i] # NoRow /\ t[i].status # "MISSING"
               /\ t[i].url = u /\ t[i].content = obs[r][u]
               /\ rows[i] = NoRow => i = IdOf[u]
               /\ rows[i] # NoRow => rows[i].url = u
  <2> DEFINE i == target[r][u]
  <2>1. u \in Url /\ obs[r][u] \in Content
    BY <1>2 DEF Listed, Listing
  <2>2. i = Reconciled(rows, u)
    BY <1>1, <2>1 DEF PlanCurrent
  <2>3. /\ i \in RecordId
        /\ rows[i] # NoRow => rows[i].url = u
        /\ rows[i] = NoRow => i = IdOf[u]
    BY <1>1, <1>2, <2>1, <2>2, ReconciledRow
  <2>4. draft[r][i] = Saved(rows[i], u, obs[r][u], r)
    BY <1>1, <2>3 DEF InProgress, DraftsExact, SavedSoFar
  <2>5. rows[i] \in CommonRecord \cup {NoRow}
    BY <1>2, <2>3 DEF Table
  <2>6. draft[r][i] \in CommonRecord
    BY <2>1, <2>4, <2>5, SavedType
  <2>7. t[i] = Saved(rows[i], u, obs[r][u], r)
    BY <2>3, <2>4, <2>6, NoRowAssumption DEF Visible
  <2> QED BY <2>1, <2>3, <2>5, <2>6, <2>7, <2>4, SavedExact, NoRowAssumption
<1>4. ASSUME NEW i \in RecordId, \A u \in Listed(obs[r]) : target[r][u] # i, t[i] # NoRow
      PROVE  /\ t[i].status = "MISSING"
             /\ rows[i] # NoRow /\ t[i].url = rows[i].url
  <2>1. draft[r][i] = IF i \in gone[r] THEN MarkedMissing(rows[i]) ELSE NoRow
    BY <1>1, <1>4 DEF InProgress, DraftsExact, SavedSoFar
  <2>2. CASE i \in gone[r]
    <3>1. rows[i] \in CommonRecord /\ rows[i] # NoRow
      BY <1>2, <2>2 DEF TypeInv, BatchWellFormed, Present, Table
    <3>2. t[i] = MarkedMissing(rows[i])
      BY <1>4, <2>1, <2>2, <3>1, MarkedMissingType, NoRowAssumption DEF Visible
    <3> QED BY <3>1, <3>2 DEF MarkedMissing, CommonRecord
  <2>3. CASE i \notin gone[r]
    <3>1. t[i] = rows[i]
      BY <1>4, <2>1, <2>3 DEF Visible
    <3>2. \A u \in Listed(obs[r]) : Reconciled(rows, u) # i
      BY <1>1, <1>4 DEF PlanCurrent, Listed
    <3> QED BY <1>1, <1>4, <2>3, <3>1, <3>2 DEF PlanCurrent, Unobserved, Present
  <2> QED BY <2>2, <2>3
<1>5. ASSUME NEW u \in Listed(obs[r]) PROVE <<u, obs[r][u]>> \in Active(t)
  <2> DEFINE i == target[r][u]
  <2>1. i \in {j \in Present(t) : t[j].status # "MISSING"}
    BY <1>3 DEF Present
  <2>2. <<u, obs[r][u]>> = <<t[i].url, t[i].content>>
    BY <1>3
  <2> QED BY <2>1, <2>2 DEF Active
<1>6. Active(t) \subseteq AsPairs(obs[r])
  BY <1>3, <1>4 DEF AsPairs, Active, Present
<1>7. RowsIdentified(t)
  BY <1>1, <1>3, <1>4 DEF RowsIdentified, Present
<1> QED BY <1>5, <1>6, <1>7 DEF AsPairs

\* An execution touches its own local state only ...
LEMMA OthersLocals ==
  ASSUME TypeInv, NEW q \in Run, Progress(q) \/ Fault(q), NEW r \in Run, r # q
  PROVE  /\ pc'[r] = pc[r] /\ draft'[r] = draft[r] /\ obs'[r] = obs[r]
         /\ target'[r] = target[r] /\ todo'[r] = todo[r] /\ cur'[r] = cur[r]
         /\ found'[r] = found[r] /\ gone'[r] = gone[r]
<1> USE DEF TypeInv, TypeOK, Goto, database, batch, history
<1>1. CASE \/ SaveRunning(q) \/ RunningRefused(q) \/ Collected(q) \/ CollectionFails(q)
           \/ OpenBatch(q) \/ AcquireAdvisory(q) \/ SaveFailedRun(q) \/ FailedRunLost(q)
  BY <1>1 DEF SaveRunning, RunningRefused, Collected, CollectionFails, OpenBatch, FirstStep,
     AcquireAdvisory, SaveFailedRun, FailedRunLost
<1>2. CASE PlanSnapshot(q) \/ WriteRecord(q) \/ MarkMissing(q)
  BY <1>2 DEF PlanSnapshot, WriteRecord, MarkMissing
<1>3. CASE \E u \in Url : SelectRecord(q, u)
  BY <1>3 DEF SelectRecord
<1>4. CASE Commit(q) \/ CommitAnswerLost(q)
  BY <1>4 DEF Commit, CommitAnswerLost, GiveUp, Publish, Release, Return
<1>5. CASE \/ PlanRefused(q) \/ UniqueViolation(q) \/ DeadlockVictim(q)
           \/ StatementFails(q)
  BY <1>5 DEF PlanRefused, UniqueViolation, DeadlockVictim, StatementFails, GiveUp,
     Discard, Rollback, Release, Return
<1>6. CASE Crash(q)
  BY <1>6 DEF Crash, Discard, Rollback, Release, Return
<1> QED BY <1>1, <1>2, <1>3, <1>4, <1>5, <1>6 DEF Progress, Fault

\* ... and, while another execution has a plan, nothing of the table either:
\* it cannot be past the advisory lock itself.
LEMMA OthersWait ==
  ASSUME Complete, TypeInv, PlanInv, NEW q \in Run, Progress(q) \/ Fault(q),
         NEW r \in Run, r # q, pc[r] \in Planned \cup {"plan"}
  PROVE  /\ rows' = rows
         /\ \A i \in RecordId : rowLock[i] = r => rowLock'[i] = r
         /\ advisory' = advisory
<1>1. advisory = r /\ pc[q] \notin Planned \cup {"plan"}
  BY DEF PlanInv
<1>2. r # None
  BY NoneAssumption
<1> USE DEF TypeInv, TypeOK, Goto, database, Planned
<1>3. CASE \/ SaveRunning(q) \/ RunningRefused(q) \/ Collected(q) \/ CollectionFails(q)
           \/ OpenBatch(q) \/ AcquireAdvisory(q) \/ SaveFailedRun(q) \/ FailedRunLost(q)
  BY <1>1, <1>2, <1>3 DEF SaveRunning, RunningRefused, Collected, CollectionFails, OpenBatch, FirstStep,
     AcquireAdvisory, SaveFailedRun, FailedRunLost
<1>4. CASE \/ PlanSnapshot(q) \/ WriteRecord(q) \/ MarkMissing(q)
           \/ \E u \in Url : SelectRecord(q, u)
           \/ Commit(q) \/ CommitAnswerLost(q) \/ PlanRefused(q) \/ UniqueViolation(q)
  BY <1>1, <1>4 DEF PlanSnapshot, WriteRecord, MarkMissing, SelectRecord, Commit,
     CommitAnswerLost, PlanRefused, UniqueViolation
<1>5. CASE DeadlockVictim(q) \/ StatementFails(q) \/ Crash(q)
  BY <1>1, <1>5 DEF DeadlockVictim, StatementFails, Crash, Rollback, Release
<1> QED BY <1>3, <1>4, <1>5 DEF Progress, Fault

\* A plan stays current while the table, the locks it holds and the
\* execution's own variables do.
LEMMA PlanKept ==
  ASSUME NEW r \in Run, PlanCurrent(r), rows' = rows,
         target'[r] = target[r], gone'[r] = gone[r], obs'[r] = obs[r],
         \A i \in RecordId : rowLock[i] = r => rowLock'[i] = r
  PROVE  PlanCurrent(r)'
<1>1. UniqueUrls(rows)' /\ \A i \in Present(rows)' : rowLock'[i] = r
  BY DEF PlanCurrent, UniqueUrls, Present
<1>2. \A u \in Url : target'[r][u] = Reconciled(rows, u)'
  BY DEF PlanCurrent, Reconciled, Present
<1>3. gone'[r] = Unobserved(rows, obs[r])'
  BY DEF PlanCurrent, Unobserved, Reconciled, Present, Listed
<1> QED BY <1>1, <1>2, <1>3 DEF PlanCurrent

\* So a plan survives every step of another execution.
LEMMA OthersKeepPlan ==
  ASSUME Complete, TypeInv, PlanInv, NEW q \in Run, Progress(q) \/ Fault(q),
         NEW r \in Run, r # q, pc[r] \in Planned
  PROVE  PlanCurrent(r)' /\ InProgress(r)'
<1>1. PlanCurrent(r) /\ InProgress(r)
  BY DEF PlanInv
<1>2. /\ pc'[r] = pc[r] /\ draft'[r] = draft[r] /\ obs'[r] = obs[r]
      /\ target'[r] = target[r] /\ todo'[r] = todo[r] /\ cur'[r] = cur[r]
      /\ found'[r] = found[r] /\ gone'[r] = gone[r]
  BY OthersLocals
<1>3. rows' = rows /\ \A i \in RecordId : rowLock[i] = r => rowLock'[i] = r
  BY OthersWait
<1>4. PlanCurrent(r)'
  BY <1>1, <1>2, <1>3, PlanKept
<1>5. InProgress(r)'
  <2>1. SavedSoFar(r)' = SavedSoFar(r)
    BY <1>2 DEF SavedSoFar, Listed
  <2> QED BY <1>1, <1>2, <1>3, <2>1 DEF InProgress, DraftsExact
<1> QED BY <1>4, <1>5

\* The plan is current when it is made, and each statement of the batch keeps
\* the account of what has been saved so far.
LEMMA PlanMade ==
  ASSUME TypeInv, PlanInv, NEW r \in Run, PlanSnapshot(r)
  PROVE  PlanCurrent(r)' /\ InProgress(r)'
<1> USE DEF TypeInv, TypeOK, Goto, history
<1>1. PlanCurrent(r)'
  <2>1. \A i \in Present(rows) : rowLock'[i] = r
    BY DEF PlanSnapshot, Present
  <2> QED BY <2>1 DEF PlanSnapshot, PlanCurrent, UniqueUrls, Present, Reconciled, Unobserved, Listed
<1>2. InProgress(r)'
  <2>1. SavedSoFar(r)' = {}
    BY DEF PlanSnapshot, PlanInv, SavedSoFar, Listed
  <2>2. draft'[r] = NoDraft
    BY DEF PlanSnapshot, PlanInv, Planned
  <2> QED BY <2>1, <2>2 DEF PlanSnapshot, InProgress, DraftsExact, NoDraft
<1> QED BY <1>1, <1>2

\* No record saved so far has the id of one still to save.
LEMMA TargetUntouched ==
  ASSUME CleanIdentity, TypeInv, PlanInv, NEW r \in Run,
         pc[r] \in {"select", "write", "finish"},
         NEW u \in Url, u \notin SavedSoFar(r)
  PROVE  draft[r][target[r][u]] = NoRow
<1>1. PlanCurrent(r) /\ InProgress(r) /\ RowsIdentified(rows)
  BY DEF PlanInv, Planned
<1>2. \A w \in SavedSoFar(r) : w \in Url /\ target[r][w] # target[r][u]
  BY <1>1, ReconciledInjective DEF PlanCurrent, SavedSoFar, Listed, TypeInv, TypeOK
<1>3. target[r][u] \in RecordId
  BY DEF TypeInv, TypeOK
<1> QED BY <1>1, <1>2, <1>3 DEF InProgress, DraftsExact

LEMMA SelectKeepsPlan ==
  ASSUME CleanIdentity, TypeInv, PlanInv, NEW r \in Run, NEW u \in Url, SelectRecord(r, u)
  PROVE  PlanCurrent(r)' /\ InProgress(r)'
<1> USE DEF TypeInv, TypeOK, history
<1>1. PlanCurrent(r) /\ InProgress(r) /\ pc[r] = "select"
  BY DEF PlanInv, Planned, SelectRecord
<1>2. PlanCurrent(r)'
  BY <1>1, PlanKept DEF SelectRecord
<1>3. SavedSoFar(r)' = SavedSoFar(r)
  BY <1>1 DEF SelectRecord, SavedSoFar, Listed, BatchWellFormed
<1>4. Visible(r, target[r][u]) = rows[target[r][u]]
  <2>1. u \notin SavedSoFar(r)
    BY DEF SelectRecord, SavedSoFar
  <2> QED BY <1>1, <2>1, TargetUntouched DEF Visible
<1> QED BY <1>1, <1>2, <1>3, <1>4 DEF SelectRecord, InProgress, DraftsExact

LEMMA WriteKeepsPlan ==
  ASSUME CleanIdentity, TypeInv, PlanInv, NEW r \in Run, WriteRecord(r)
  PROVE  PlanCurrent(r)' /\ InProgress(r)'
<1> USE DEF TypeInv, TypeOK, Goto, batch, history
<1>1. PlanCurrent(r) /\ InProgress(r) /\ pc[r] = "write"
  BY DEF PlanInv, Planned, WriteRecord
<1>2. PlanCurrent(r)'
  BY <1>1, WriteRecordFacts, PlanKept DEF WriteRecord
<1>3. /\ SavedSoFar(r)' = SavedSoFar(r) \cup {cur[r]}
      /\ cur[r] \notin SavedSoFar(r)
  BY <1>1, WriteRecordFacts DEF WriteRecord, SavedSoFar, Listed, InProgress
<1>4. \A w \in SavedSoFar(r) : target[r][w] # target[r][cur[r]]
  BY <1>1, <1>3, WriteRecordFacts, ReconciledInjective
  DEF PlanCurrent, SavedSoFar, Listed, PlanInv
<1>5. draft'[r] = [draft[r] EXCEPT ![target[r][cur[r]]] =
                     Saved(rows[target[r][cur[r]]], cur[r], obs[r][cur[r]], r)]
  BY <1>1 DEF WriteRecord, InProgress
<1>6. DraftsExact(r)'
  BY <1>1, <1>3, <1>4, <1>5, WriteRecordFacts DEF WriteRecord, InProgress, DraftsExact, Table
<1> QED BY <1>1, <1>2, <1>6 DEF WriteRecord, InProgress

LEMMA MarkKeepsPlan ==
  ASSUME TypeInv, PlanInv, NEW r \in Run, MarkMissing(r)
  PROVE  PlanCurrent(r)' /\ InProgress(r)'
<1> USE DEF TypeInv, TypeOK, Goto, batch, history
<1>1. PlanCurrent(r) /\ InProgress(r) /\ pc[r] = "finish" /\ todo[r] = {}
  BY DEF PlanInv, Planned, MarkMissing, InProgress
<1>2. PlanCurrent(r)'
  BY <1>1, PlanKept DEF MarkMissing
<1>3. SavedSoFar(r)' = SavedSoFar(r)
  BY <1>1 DEF MarkMissing, SavedSoFar, Listed
<1>4. \A i \in gone[r] : i \in RecordId /\ \A u \in SavedSoFar(r) : target[r][u] # i
  BY <1>1 DEF PlanCurrent, Unobserved, SavedSoFar, Listed, Present
<1>5. \A i \in gone[r] : Visible(r, i) = rows[i]
  BY <1>1, <1>4 DEF InProgress, DraftsExact, Visible
<1>6. DraftsExact(r)'
  BY <1>1, <1>3, <1>4, <1>5 DEF MarkMissing, InProgress, DraftsExact
<1> QED BY <1>1, <1>2, <1>6 DEF MarkMissing, InProgress

\* One execution's part of PlanInv.
PlanOf(r) ==
  /\ pc[r] \in Planned \cup {"plan"} => advisory = r
  /\ pc[r] \in Planned => PlanCurrent(r) /\ InProgress(r)
  /\ pc[r] \in {"lock", "plan"} => todo[r] = Listed(obs[r])
  /\ pc[r] \notin Planned => draft[r] = NoDraft
  /\ published = r => pc[r] \in {"reporting"} \cup Ended

LEMMA OwnPlan ==
  ASSUME Complete, CleanIdentity, TypeInv, PlanInv, NEW r \in Run, Progress(r) \/ Fault(r)
  PROVE  PlanOf(r)'
<1> USE DEF Goto, Planned, Ended
<1>0. PlanOf(r)
  BY DEF PlanInv, PlanOf
<1>t. TypeOK
  BY DEF TypeInv
<1>1. CASE \/ SaveRunning(r) \/ RunningRefused(r) \/ Collected(r) \/ CollectionFails(r)
           \/ OpenBatch(r) \/ AcquireAdvisory(r) \/ SaveFailedRun(r) \/ FailedRunLost(r)
  BY <1>0, <1>t, <1>1
  DEF SaveRunning, RunningRefused, Collected, CollectionFails, OpenBatch, FirstStep, AcquireAdvisory,
      SaveFailedRun, FailedRunLost, PlanOf, TypeOK, database, batch, history
<1>2. CASE PlanSnapshot(r)
  BY <1>0, <1>t, <1>2, PlanMade DEF PlanSnapshot, PlanOf, TypeOK, history
<1>3. CASE \E u \in Url : SelectRecord(r, u)
  BY <1>0, <1>t, <1>3, SelectKeepsPlan DEF SelectRecord, PlanOf, TypeOK, history
<1>4. CASE WriteRecord(r)
  BY <1>0, <1>t, <1>4, WriteKeepsPlan DEF WriteRecord, PlanOf, TypeOK, history
<1>5. CASE MarkMissing(r)
  BY <1>0, <1>t, <1>5, MarkKeepsPlan DEF MarkMissing, PlanOf, TypeOK, history
<1>6. CASE Commit(r) \/ CommitAnswerLost(r)
  BY <1>t, <1>6 DEF Commit, CommitAnswerLost, GiveUp, Publish, Release, PlanOf, TypeOK
<1>7. CASE PlanRefused(r) \/ UniqueViolation(r) \/ DeadlockVictim(r) \/ StatementFails(r)
  BY <1>t, <1>7
  DEF PlanRefused, UniqueViolation, DeadlockVictim, StatementFails, GiveUp, Rollback, Release,
      PlanOf, TypeOK
<1>8. CASE Crash(r)
  BY <1>t, <1>8 DEF Crash, Rollback, Release, PlanOf, TypeOK
<1> QED BY <1>1, <1>2, <1>3, <1>4, <1>5, <1>6, <1>7, <1>8 DEF Progress, Fault

LEMMA PlanStep ==
  ASSUME Complete, CleanIdentity, TypeInv, PlanInv, [Next]_vars
  PROVE  PlanInv'
<1>1. ASSUME UNCHANGED vars PROVE PlanInv'
  BY <1>1 DEF vars, database, batch, history, PlanInv, RowsIdentified, Present, PlanCurrent,
     InProgress, UniqueUrls, Reconciled, Unobserved, Listed, DraftsExact, SavedSoFar
<1>2. ASSUME NEW q \in Run, Progress(q) \/ Fault(q) PROVE PlanInv'
  <2>1. ASSUME NEW r \in Run PROVE PlanOf(r)'
    <3>1. CASE r = q
      BY <1>2, <3>1, OwnPlan
    <3>2. CASE r # q
      <4>1. PlanOf(r)
        BY DEF PlanInv, PlanOf
      <4>2. /\ pc'[r] = pc[r] /\ draft'[r] = draft[r] /\ obs'[r] = obs[r]
            /\ todo'[r] = todo[r]
        BY <1>2, <3>2, OthersLocals
      <4>3. pc[r] \in Planned \cup {"plan"} => advisory' = advisory
        BY <1>2, <3>2, OthersWait
      <4>4. pc[r] \in Planned => PlanCurrent(r)' /\ InProgress(r)'
        BY <1>2, <3>2, OthersKeepPlan
      <4>5. published' \in {published, q}
        BY <1>2
        DEF Progress, Fault, SaveRunning, RunningRefused, Collected, CollectionFails, OpenBatch, FirstStep,
            AcquireAdvisory, PlanSnapshot, PlanRefused, SelectRecord, WriteRecord,
            UniqueViolation, DeadlockVictim, MarkMissing, Commit, CommitAnswerLost,
            SaveFailedRun, FailedRunLost, StatementFails, Crash, Publish, history
      <4> QED BY <3>2, <4>1, <4>2, <4>3, <4>4, <4>5 DEF PlanOf, Listed
    <3> QED BY <3>1, <3>2
  <2>2. RowsIdentified(rows')
    <3>1. CASE Commit(q) \/ CommitAnswerLost(q)
      <4>1. pc[q] = "commit" /\ rows' = [i \in RecordId |-> Visible(q, i)]
        BY <3>1 DEF Commit, CommitAnswerLost, Goto, Publish
      <4> QED BY <4>1, CommitExact
    <3>2. CASE ~(Commit(q) \/ CommitAnswerLost(q))
      <4>1. rows' = rows
        BY <1>2, <3>2
        DEF Progress, Fault, SaveRunning, RunningRefused, Collected, CollectionFails, OpenBatch, FirstStep,
            AcquireAdvisory, PlanSnapshot, PlanRefused, SelectRecord, WriteRecord,
            UniqueViolation, DeadlockVictim, MarkMissing, SaveFailedRun, FailedRunLost,
            StatementFails, Crash, Rollback, database
      <4> QED BY <4>1 DEF PlanInv
    <3> QED BY <3>1, <3>2
  <2> QED BY <2>1, <2>2 DEF PlanInv, PlanOf
<1>3. ASSUME NEW i \in RecordId, Index(i) PROVE PlanInv'
  <2>1. \A r \in Run : pc[r] \notin Planned
    BY <1>3, NoneAssumption DEF Index, PlanInv, PlanCurrent, Present
  <2>2. RowsIdentified(rows')
    <3>1. \A verdict \in Verdict : /\ Indexed(rows[i], verdict).url = rows[i].url
                                  /\ Indexed(rows[i], verdict) # NoRow
      <4>1. rows[i] \in CommonRecord
        BY <1>3 DEF Index, TypeInv, TypeOK, Table
      <4>2. \A verdict \in Verdict : Indexed(rows[i], verdict) # NoRow
        BY <4>1, IndexedType, NoRowAssumption
      <4> QED BY <4>1, <4>2 DEF Indexed, CommonRecord
    <3> QED BY <1>3, <3>1 DEF Index, PlanInv, RowsIdentified, Present, TypeInv, TypeOK, Table
  <2> QED BY <1>3, <2>1, <2>2 DEF Index, PlanInv, batch, history, Listed
<1> QED BY <1>1, <1>2, <1>3 DEF Next

LEMMA PlanInit == Init => PlanInv
<1> SUFFICES ASSUME Init PROVE PlanInv OBVIOUS
<1>1. RowsIdentified(rows)
  BY DEF Init, SeedTables, RowsIdentified
<1> QED BY <1>1, NoneAssumption DEF Init, PlanInv, Planned

\* The indexer changes nothing that a reader of the table sees.
LEMMA IndexKeepsActive ==
  ASSUME TypeInv, NEW i \in RecordId, Index(i)
  PROVE  Active(rows') = Active(rows)
<1>1. \A j \in RecordId : rows[j] # NoRow =>
        /\ rows'[j] # NoRow
        /\ rows'[j].status = rows[j].status
        /\ rows'[j].url = rows[j].url /\ rows'[j].content = rows[j].content
  <2>1. rows[i] \in CommonRecord
    BY DEF Index, TypeInv, TypeOK, Table
  <2>2. \A verdict \in Verdict : Indexed(rows[i], verdict) # NoRow
    BY <2>1, IndexedType, NoRowAssumption
  <2>3. \A verdict \in Verdict :
          /\ Indexed(rows[i], verdict).status = rows[i].status
          /\ Indexed(rows[i], verdict).url = rows[i].url
          /\ Indexed(rows[i], verdict).content = rows[i].content
    BY <2>1 DEF Indexed, CommonRecord
  <2> QED BY <2>2, <2>3 DEF Index, TypeInv, TypeOK, Table
<1>2. \A j \in RecordId : rows[j] = NoRow => rows'[j] = NoRow
  BY DEF Index, TypeInv, TypeOK, Table
<1> QED BY <1>1, <1>2 DEF Active, Present

ExactInv == published # None => Active(rows) = AsPairs(obs[published])

\* A step either publishes exactly what one execution observed, or leaves what
\* readers see as it is.
LEMMA ExactStep ==
  ASSUME Complete, CleanIdentity, TypeInv, PlanInv, [Next]_vars
  PROVE  \/ /\ UNCHANGED published
            /\ Active(rows') = Active(rows)
         \/ \E r \in Run : /\ Commit(r) \/ CommitAnswerLost(r)
                           /\ published' = r
                           /\ Active(rows') = AsPairs(obs[r])
                           /\ obs' = obs
<1>1. CASE UNCHANGED vars
  BY <1>1 DEF vars, database, history
<1>2. ASSUME NEW r \in Run, Commit(r) \/ CommitAnswerLost(r)
      PROVE  published' = r /\ Active(rows') = AsPairs(obs[r]) /\ obs' = obs
  <2>1. pc[r] = "commit" /\ rows' = [i \in RecordId |-> Visible(r, i)]
    BY <1>2 DEF Commit, CommitAnswerLost, Goto, Publish
  <2> QED BY <1>2, <2>1, CommitExact DEF Commit, CommitAnswerLost, Publish
<1>3. ASSUME NEW r \in Run, Progress(r) \/ Fault(r), ~(Commit(r) \/ CommitAnswerLost(r))
      PROVE  published' = published /\ rows' = rows
  BY <1>3
  DEF Progress, Fault, SaveRunning, RunningRefused, Collected, CollectionFails, OpenBatch, FirstStep,
      AcquireAdvisory, PlanSnapshot, PlanRefused, SelectRecord, WriteRecord, UniqueViolation,
      DeadlockVictim, MarkMissing, SaveFailedRun, FailedRunLost, StatementFails, Crash,
      Rollback, database, history
<1>4. ASSUME NEW i \in RecordId, Index(i)
      PROVE  published' = published /\ Active(rows') = Active(rows)
  BY <1>4, IndexKeepsActive DEF Index, history
<1> QED BY <1>1, <1>2, <1>3, <1>4 DEF Next

\* What the last committed execution observed is remembered.
LEMMA PublishedObs ==
  ASSUME TypeInv, PlanInv, [Next]_vars, NEW p \in Run, published = p
  PROVE  obs'[p] = obs[p]
<1>1. pc[p] \in {"reporting"} \cup Ended
  BY DEF PlanInv
<1>2. ASSUME NEW q \in Run, Progress(q) \/ Fault(q) PROVE obs'[p] = obs[p]
  <2>1. CASE q # p
    BY <1>2, <2>1, OthersLocals
  <2>2. CASE q = p
    BY <1>1, <1>2, <2>2
    DEF Progress, Fault, SaveRunning, RunningRefused, Collected, CollectionFails, OpenBatch, FirstStep,
        AcquireAdvisory, PlanSnapshot, PlanRefused, SelectRecord, WriteRecord, UniqueViolation,
        DeadlockVictim, WaitsFor, MarkMissing, Commit, CommitAnswerLost, SaveFailedRun,
        FailedRunLost, StatementFails, Crash, Goto, InBatch, Ended, batch
  <2> QED BY <2>1, <2>2
<1> QED BY <1>2 DEF Next, Index, vars, batch

\* With complete snapshots and clean identities, the rows readers see are
\* exactly what the last committed execution observed.
THEOREM SnapshotsExact == Complete /\ CleanIdentity => (Spec => []SnapshotExact)
<1> SUFFICES ASSUME Complete, CleanIdentity PROVE Spec => []SnapshotExact
  OBVIOUS
<1>1. Init => ExactInv
  BY DEF Init, ExactInv
<1>2. TypeInv /\ PlanInv /\ ExactInv /\ [Next]_vars => ExactInv'
  <2> SUFFICES ASSUME TypeInv, PlanInv, ExactInv, [Next]_vars PROVE ExactInv'
    OBVIOUS
  <2>1. CASE UNCHANGED published /\ Active(rows') = Active(rows)
    <3>1. published # None => published \in Run
      BY DEF TypeInv, TypeOK
    <3>2. published # None => obs'[published] = obs[published]
      BY <3>1, PublishedObs
    <3> QED BY <2>1, <3>2 DEF ExactInv, AsPairs, Listed
  <2>2. CASE \E r \in Run : /\ published' = r
                            /\ Active(rows') = AsPairs(obs[r])
                            /\ obs' = obs
    BY <2>2 DEF ExactInv, AsPairs, Listed
  <2> QED BY <2>1, <2>2, ExactStep
<1>3. TypeInv /\ PlanInv /\ [Next]_vars => PlanInv'
  BY PlanStep
<1>4. ExactInv => SnapshotExact
  BY DEF ExactInv, SnapshotExact
<1> QED BY <1>1, <1>2, <1>3, <1>4, TypeInit, TypeStep, PlanInit, PTL DEF Spec

(***************************************************************************)
(* PostgresStore implements AtomicListing.  An execution's RUNNING row and *)
(* its observation stand in the abstract states between Begin, Observe and *)
(* Publish; every other step is an Abandon, a Fail or a stutter.           *)
(***************************************************************************)
RunInv ==
  \A r \in Run :
    /\ pc[r] = "idle" => runs[r] = NoRow
    /\ pc[r] \in {"collecting"} \cup InBatch => runs[r] # NoRow /\ runs[r].status = "RUNNING"
    /\ pc[r] = "reporting" =>
         /\ runs[r] # NoRow => runs[r].status = "RUNNING"
         /\ mem[r].status \in {"FAILED", "SUSPICIOUS_ZERO"}
    /\ pc[r] \in {"idle", "collecting", "reporting"} => Listed(obs[r]) = {}
    /\ pc[r] \in InBatch => Listed(obs[r]) # {}

LEMMA RunInit == Init => RunInv
  BY DEF Init, RunInv, InBatch, Listed, NothingListed

\* What an execution's own step does to the run rows and the observations.
LEMMA RunStep ==
  ASSUME ~AckLoss, TypeInv, OutcomeInv, RunInv, [Next]_vars
  PROVE  RunInv'
<1> USE DEF RunInv, InBatch, Ended, Goto, database, batch, history
<1>t. TypeOK
  BY DEF TypeInv
<1>0. Listed(NothingListed) = {}
  BY DEF Listed, NothingListed
<1>1. ASSUME UNCHANGED <<runs, pc, mem, obs>> PROVE RunInv'
  BY <1>1 DEF Listed
<1>2. ASSUME NEW r \in Run, SaveRunning(r) PROVE RunInv'
  BY <1>t, <1>2, NoRowAssumption DEF SaveRunning, TypeOK, OutcomeInv, Listed
<1>3. ASSUME NEW r \in Run, RunningRefused(r) PROVE RunInv'
  BY <1>t, <1>3, EndingType, ModeAssumption
  DEF RunningRefused, TypeOK, IngestionRunStatus, Listed
<1>4. ASSUME NEW r \in Run, Collected(r) PROVE RunInv'
  <2>1. PICK o \in Listing : Listed(o) # {} /\ obs' = [obs EXCEPT ![r] = o]
    BY <1>4 DEF Collected
  <2> QED BY <1>t, <1>4, <2>1 DEF Collected, TypeOK, Listed
<1>5. ASSUME NEW r \in Run, CollectionFails(r) PROVE RunInv'
  BY <1>t, <1>5, EndingType DEF CollectionFails, TypeOK, IngestionRunStatus, Listed
<1>6. ASSUME NEW r \in Run,
             \/ OpenBatch(r) \/ AcquireAdvisory(r) \/ PlanSnapshot(r) \/ MarkMissing(r)
             \/ WriteRecord(r) \/ \E u \in Url : SelectRecord(r, u)
      PROVE  RunInv'
  <2>1. /\ pc[r] \in InBatch /\ pc' = [pc EXCEPT ![r] = pc'[r]] /\ pc'[r] \in InBatch
        /\ runs' = runs /\ obs' = obs /\ \A q \in Run \ {r} : mem'[q] = mem[q]
    BY <1>t, <1>6
    DEF OpenBatch, FirstStep, AcquireAdvisory, PlanSnapshot, MarkMissing, WriteRecord, SelectRecord, TypeOK
  <2> QED BY <1>t, <2>1 DEF TypeOK, Listed
<1>7. ASSUME NEW r \in Run, Commit(r) PROVE RunInv'
  BY <1>t, <1>7 DEF Commit, Publish, TypeOK, Listed
<1>8. ASSUME NEW r \in Run, GiveUp(r), Discard(r), Rollback(r), pc[r] \in InBatch
      PROVE  RunInv'
  BY <1>t, <1>0, <1>8, FailedType DEF GiveUp, Discard, Rollback, TypeOK, Listed
<1>9. ASSUME NEW r \in Run, SaveFailedRun(r) \/ FailedRunLost(r) PROVE RunInv'
  <2>1. /\ pc[r] = "reporting" /\ pc' = [pc EXCEPT ![r] = "done"]
        /\ obs' = obs /\ mem' = mem /\ \A q \in Run \ {r} : runs'[q] = runs[q]
    BY <1>t, <1>9 DEF SaveFailedRun, FailedRunLost, TypeOK
  <2> QED BY <1>t, <2>1 DEF TypeOK, Listed
<1>10. ASSUME NEW r \in Run, Crash(r) PROVE RunInv'
  BY <1>t, <1>10 DEF Crash, Discard, Rollback, TypeOK, Listed
<1>11. ASSUME NEW r \in Run, Progress(r) \/ Fault(r) PROVE RunInv'
  <2>1. CASE \/ PlanRefused(r) \/ UniqueViolation(r) \/ DeadlockVictim(r)
             \/ StatementFails(r)
    BY <2>1, <1>8
    DEF PlanRefused, UniqueViolation, DeadlockVictim, StatementFails, WaitsFor
  <2> QED BY <1>11, <2>1, <1>2, <1>3, <1>4, <1>5, <1>6, <1>7, <1>9, <1>10
          DEF Progress, Fault, CommitAnswerLost
<1> QED BY <1>1, <1>11 DEF Next, Index, vars

\* The refinement mapping.
Observed == [r \in Run |-> AsPairs(obs[r])]
Outcome  == [r \in Run |-> IF runs[r] = NoRow THEN None ELSE runs[r].status]

LEMMA PairsOfListing ==
  ASSUME NEW o \in Listing
  PROVE  /\ AsPairs(o) \in SUBSET (Url \X Content)
         /\ \A p, q \in AsPairs(o) : p[1] = q[1] => p = q
         /\ AsPairs(o) = {} <=> Listed(o) = {}
<1>1. \A u \in Listed(o) : u \in Url /\ o[u] \in Content
  BY DEF Listed, Listing
<1>2. \A p \in AsPairs(o) : \E u \in Listed(o) : p = <<u, o[u]>>
  BY DEF AsPairs
<1>3. \A u \in Listed(o) : <<u, o[u]>> \in AsPairs(o)
  BY DEF AsPairs
<1>4. AsPairs(o) \in SUBSET (Url \X Content)
  BY <1>1, <1>2
<1>5. \A p, q \in AsPairs(o) : p[1] = q[1] => p = q
  BY <1>2
<1>6. AsPairs(o) = {} <=> Listed(o) = {}
  BY <1>2, <1>3
<1> QED BY <1>4, <1>5, <1>6

\* Saving the run object makes its status the outcome.
LEMMA OutcomeSaved ==
  ASSUME TypeOK, NEW r \in Run, runs' = [runs EXCEPT ![r] = mem[r]]
  PROVE  Outcome' = [Outcome EXCEPT ![r] = mem[r].status]
<1>1. mem[r] # NoRow
  BY NoRowAssumption DEF TypeOK
<1>2. runs'[r] = mem[r] /\ \A q \in Run \ {r} : runs'[q] = runs[q]
  BY DEF TypeOK
<1> DEFINE status(q) == IF runs'[q] = NoRow THEN None ELSE runs'[q].status
<1>3. \A q \in Run : status(q) = IF q = r THEN mem[r].status ELSE Outcome[q]
  BY <1>1, <1>2 DEF Outcome
<1>4. Outcome' = [q \in Run |-> status(q)]
  BY DEF Outcome
<1>5. Outcome = [q \in Run |-> Outcome[q]]
  BY DEF Outcome
<1> HIDE DEF status
<1> QED BY <1>3, <1>4, <1>5

LEMMA RefinesInit == Init => Atomic!Init
<1> SUFFICES ASSUME Init PROVE Atomic!Init OBVIOUS
<1>1. Active(rows) \in SUBSET (Url \X Content)
  BY TypeInit DEF TypeInv, TypeOK, Active, Present, Table, CommonRecord
<1>2. AsPairs(NothingListed) = {}
  BY DEF AsPairs, Listed, NothingListed
<1>3. [r \in Run |-> AsPairs(obs[r])] = [r \in Run |-> {}]
  BY <1>2 DEF Init
<1>4. [r \in Run |-> IF runs[r] = NoRow THEN None ELSE runs[r].status] = [r \in Run |-> None]
  BY DEF Init
<1> QED BY <1>1, <1>3, <1>4 DEF Atomic!Init, Atomic!Pairs

LEMMA RefinesStep ==
  ASSUME Complete, CleanIdentity, ~AckLoss, TypeInv, OutcomeInv, RunInv, PlanInv, [Next]_vars
  PROVE  [Atomic!Next]_Atomic!vars
<1> USE DEF InBatch, Goto, database, batch, history, Atomic!vars
<1>t. TypeOK
  BY DEF TypeInv
<1>0. \A r \in Run : obs[r] \in Listing
  BY <1>t DEF TypeOK
<1>1. ASSUME Active(rows') = Active(rows), Observed' = Observed, Outcome' = Outcome
      PROVE  UNCHANGED Atomic!vars
  BY <1>1 DEF Observed, Outcome
<1>2. ASSUME NEW r \in Run, SaveRunning(r) PROVE Atomic!Next
  <2>1. Outcome[r] = None /\ Outcome' = [Outcome EXCEPT ![r] = "RUNNING"]
    <3>1. mem[r].status = "RUNNING" /\ runs[r] = NoRow
      BY <1>2 DEF SaveRunning, RunInv, OutcomeInv
    <3> QED BY <1>t, <1>2, <3>1, OutcomeSaved DEF SaveRunning, Outcome
  <2>2. rows' = rows /\ obs' = obs
    BY <1>2 DEF SaveRunning
  <2>3. Atomic!Begin(r)
    BY <2>1, <2>2 DEF Atomic!Begin, Outcome
  <2> QED BY <2>3 DEF Atomic!Next
<1>3. ASSUME NEW r \in Run, Collected(r) PROVE Atomic!Next
  <2>1. PICK o \in Listing : Listed(o) # {} /\ obs' = [obs EXCEPT ![r] = o]
    BY <1>3 DEF Collected
  <2>2. Observed[r] = {} /\ Observed' = [Observed EXCEPT ![r] = AsPairs(o)]
    BY <1>t, <1>0, <1>3, <2>1, PairsOfListing DEF Collected, RunInv, Observed, TypeOK
  <2>3. Outcome[r] = "RUNNING"
    BY <1>3 DEF Collected, RunInv, Outcome
  <2>4. rows' = rows /\ runs' = runs
    BY <1>3 DEF Collected
  <2>5. Atomic!CompleteListing(AsPairs(o)) /\ AsPairs(o) \in SUBSET Atomic!Pairs
    BY <2>1, PairsOfListing DEF Atomic!CompleteListing, Atomic!Pairs
  <2>6. Atomic!Observe(r)
    BY <2>2, <2>3, <2>4, <2>5 DEF Atomic!Observe, Observed, Outcome
  <2> QED BY <2>6 DEF Atomic!Next
<1>4. ASSUME NEW r \in Run, Commit(r) PROVE Atomic!Next
  <2>1. Active(rows') = Observed[r] /\ obs' = obs
    <3>1. pc[r] = "commit" /\ rows' = [i \in RecordId |-> Visible(r, i)]
      BY <1>4 DEF Commit, Publish
    <3> QED BY <1>4, <3>1, CommitExact DEF Commit, Observed
  <2>2. Observed[r] # {}
    BY <1>0, <1>4, PairsOfListing DEF Commit, RunInv, Observed
  <2>3. Outcome[r] = "RUNNING" /\ Outcome' = [Outcome EXCEPT ![r] = "SUCCESS"]
    <3>1. mem[r].status = "SUCCESS" /\ runs[r] # NoRow /\ runs[r].status = "RUNNING"
      BY <1>4 DEF Commit, RunInv, OutcomeInv
    <3> QED BY <1>t, <1>4, <3>1, OutcomeSaved DEF Commit, Publish, Outcome
  <2>4. Atomic!Publish(r)
    BY <2>1, <2>2, <2>3 DEF Atomic!Publish, Observed, Outcome
  <2> QED BY <2>4 DEF Atomic!Next
<1>5. ASSUME NEW r \in Run, pc[r] \in {"collecting"} \cup InBatch, Discard(r), Rollback(r)
      PROVE  Atomic!Next
  <2>1. Outcome[r] = "RUNNING"
    BY <1>5 DEF RunInv, Outcome
  <2>2. Observed' = [Observed EXCEPT ![r] = {}]
    <3>1. AsPairs(NothingListed) = {}
      BY DEF AsPairs, Listed, NothingListed
    <3> QED BY <1>t, <1>5, <3>1 DEF Discard, Observed, TypeOK
  <2>3. rows' = rows /\ runs' = runs
    BY <1>5 DEF Rollback
  <2>4. Atomic!Abandon(r)
    BY <2>1, <2>2, <2>3 DEF Atomic!Abandon, Observed, Outcome
  <2> QED BY <2>4 DEF Atomic!Next
<1>6. ASSUME NEW r \in Run, SaveFailedRun(r) PROVE Atomic!Next
  <2>1. Outcome[r] \in {None, "RUNNING"}
    BY <1>6 DEF SaveFailedRun, RunInv, Outcome
  <2>2. PICK status \in {"FAILED", "SUSPICIOUS_ZERO"} :
          Outcome' = [Outcome EXCEPT ![r] = status]
    BY <1>t, <1>6, OutcomeSaved DEF SaveFailedRun, RunInv
  <2>3. rows' = rows /\ obs' = obs
    BY <1>6 DEF SaveFailedRun
  <2>4. Atomic!Fail(r)
    BY <2>1, <2>2, <2>3 DEF Atomic!Fail, Outcome
  <2> QED BY <2>4 DEF Atomic!Next
<1>7. ASSUME NEW r \in Run, Crash(r) PROVE Atomic!Next \/ UNCHANGED Atomic!vars
  <2>1. published # r \/ pc[r] = "reporting"
    BY <1>7 DEF Crash, PlanInv, Ended
  <2>2. CASE published # r /\ pc[r] \in {"collecting"} \cup InBatch
    BY <1>5, <1>7, <2>2 DEF Crash
  <2>3. CASE pc[r] = "reporting"
    <3>1. obs'[r] = obs[r] \/ obs'[r] = NothingListed
      BY <1>t, <1>7 DEF Crash, Discard, TypeOK
    <3>2. AsPairs(obs'[r]) = AsPairs(obs[r])
      <4>1. AsPairs(NothingListed) = {}
        BY DEF AsPairs, Listed, NothingListed
      <4> QED BY <1>0, <2>3, <3>1, <4>1, PairsOfListing DEF RunInv
    <3>3. \A q \in Run \ {r} : obs'[q] = obs[q]
      BY <1>t, <1>7 DEF Crash, Discard, TypeOK
    <3>4. rows' = rows /\ runs' = runs
      BY <1>7 DEF Crash, Rollback
    <3> QED BY <1>1, <3>2, <3>3, <3>4 DEF Observed, Outcome
  <2>4. pc[r] \in {"collecting", "reporting"} \cup InBatch
    BY <1>t, <1>7 DEF Crash, TypeOK, PC, Ended
  <2> QED BY <2>1, <2>2, <2>3, <2>4
<1>8. ASSUME NEW r \in Run, Progress(r) \/ Fault(r)
      PROVE  Atomic!Next \/ UNCHANGED Atomic!vars
  <2>1. CASE \/ PlanRefused(r) \/ UniqueViolation(r) \/ DeadlockVictim(r)
             \/ StatementFails(r)
    BY <2>1, <1>5
    DEF PlanRefused, UniqueViolation, DeadlockVictim, StatementFails, WaitsFor
  <2>2. CASE \/ RunningRefused(r) \/ CollectionFails(r) \/ OpenBatch(r) \/ AcquireAdvisory(r)
             \/ PlanSnapshot(r) \/ MarkMissing(r) \/ WriteRecord(r) \/ FailedRunLost(r)
             \/ \E u \in Url : SelectRecord(r, u)
    <3>1. rows' = rows /\ runs' = runs /\ obs' = obs
      BY <2>2
      DEF RunningRefused, CollectionFails, OpenBatch, FirstStep, AcquireAdvisory, PlanSnapshot,
          MarkMissing, WriteRecord, FailedRunLost, SelectRecord
    <3> QED BY <1>1, <3>1 DEF Observed, Outcome
  <2> QED BY <1>8, <2>1, <2>2, <1>2, <1>3, <1>4, <1>6, <1>7
          DEF Progress, Fault, CommitAnswerLost
<1>9. ASSUME NEW i \in RecordId, Index(i) PROVE UNCHANGED Atomic!vars
  <2>1. runs' = runs /\ obs' = obs
    BY <1>9 DEF Index
  <2> QED BY <1>1, <1>9, <2>1, IndexKeepsActive DEF Observed, Outcome
<1>10. CASE UNCHANGED vars
  <2>1. rows' = rows /\ runs' = runs /\ obs' = obs
    BY <1>10 DEF vars
  <2> QED BY <1>1, <2>1 DEF Observed, Outcome
<1> QED BY <1>8, <1>9, <1>10 DEF Next

\* With complete snapshots, clean identities and no lost answers, every
\* behaviour of the store is one of AtomicListing: readers see whole listings
\* replaced in the step in which a run becomes SUCCESS, and nothing else.
THEOREM ImplementsAtomic ==
  Complete /\ CleanIdentity /\ ~AckLoss => (Spec => ImplementsAtomicListing)
<1> SUFFICES ASSUME Complete, CleanIdentity, ~AckLoss PROVE Spec => Atomic!Spec
  BY DEF ImplementsAtomicListing
<1>1. TypeInv /\ PlanInv /\ [Next]_vars => PlanInv'
  BY PlanStep
<1>2. TypeInv /\ OutcomeInv /\ RunInv /\ [Next]_vars => RunInv'
  BY RunStep
<1>3. TypeInv /\ OutcomeInv /\ RunInv /\ PlanInv /\ [Next]_vars => [Atomic!Next]_Atomic!vars
  BY RefinesStep
<1> QED BY <1>1, <1>2, <1>3, TypeInit, TypeStep, OutcomeInit, OutcomeStep, PlanInit, RunInit,
           RefinesInit, PTL DEF Spec, Atomic!Spec
=============================================================================

-------------------------- MODULE PostgresStoreSteps --------------------------
(***************************************************************************)
(* What a step of PostgresStore may never do: theorems about its action    *)
(* properties, for any number of executions, URLs and ids.                 *)
(*                                                                         *)
(* Both modes come down to one account of a commit (CommittedRows): under  *)
(* the id of each record is what save_record makes of the row the table    *)
(* has there now, and other rows are marked MISSING if planned, or left    *)
(* alone.  With complete snapshots it follows from PlanInv: the execution  *)
(* holds the whole source.  In bounded batches it follows from BatchInv:   *)
(* an execution holds the rows it has saved, one by one.  The last part    *)
(* compares the counters of a SUCCESS row with the difference its commit   *)
(* makes, and shows that committing again what is published makes none.    *)
(***************************************************************************)
EXTENDS PostgresStoreProofs

(***************************************************************************)
(* Bounded batches.                                                        *)
(***************************************************************************)
BatchOf(r) ==
  /\ pc[r] \in Planned =>
       /\ target[r] = IdOf
       /\ DistinctIds(obs[r])
       /\ \A u \in SavedSoFar(r) : rowLock[IdOf[u]] = r
       /\ pc[r] = "write" =>
            /\ cur[r] \notin todo[r]
            /\ found[r] # NoRow =>
                 /\ found[r] = rows[IdOf[cur[r]]]
                 /\ rowLock[IdOf[cur[r]]] = r
       /\ pc[r] \in {"finish", "commit"} => todo[r] = {}
       /\ DraftsExact(r)
  /\ pc[r] \notin Planned => draft[r] = NoDraft
  /\ pc[r] = "open" => DistinctIds(obs[r])
  /\ pc[r] \notin {"lock", "plan"}
  /\ gone[r] = {}

BatchInv == \A r \in Run : BatchOf(r)

LEMMA BatchInit == ~Complete /\ Init => BatchInv
  BY DEF Init, BatchInv, BatchOf, Planned

\* A transaction has drafts of the rows it has locked only ...
LEMMA DraftsLocked ==
  ASSUME TypeInv, BatchInv, NEW q \in Run, NEW i \in RecordId, rowLock[i] # q
  PROVE  draft[q][i] = NoRow
<1>1. BatchOf(q)
  BY DEF BatchInv
<1>2. CASE pc[q] \notin Planned
  BY <1>1, <1>2 DEF BatchOf, NoDraft
<1>3. CASE pc[q] \in Planned
  <2>1. \A u \in SavedSoFar(q) : target[q][u] # i
    BY <1>1, <1>3 DEF BatchOf
  <2> QED BY <1>1, <1>3, <2>1 DEF BatchOf, DraftsExact
<1> QED BY <1>2, <1>3

\* ... so no other execution changes a locked row or takes its lock.
LEMMA OthersRespectLocks ==
  ASSUME ~Complete, TypeInv, BatchInv, NEW q \in Run, Progress(q) \/ Fault(q),
         NEW r \in Run, r # q, NEW i \in RecordId, rowLock[i] = r
  PROVE  rowLock'[i] = r /\ rows'[i] = rows[i]
<1> USE NoneAssumption DEF TypeInv, TypeOK, Goto, database
<1>1. BatchOf(q)
  BY DEF BatchInv
<1>2. CASE \/ SaveRunning(q) \/ RunningRefused(q) \/ Collected(q) \/ CollectionFails(q)
           \/ OpenBatch(q) \/ MarkMissing(q) \/ SaveFailedRun(q) \/ FailedRunLost(q)
  BY <1>2 DEF SaveRunning, RunningRefused, Collected, CollectionFails, OpenBatch, MarkMissing,
     SaveFailedRun, FailedRunLost
<1>3. CASE AcquireAdvisory(q) \/ PlanSnapshot(q) \/ PlanRefused(q)
  BY <1>1, <1>3 DEF AcquireAdvisory, PlanSnapshot, PlanRefused, BatchOf
<1>4. CASE \E u \in Url : SelectRecord(q, u)
  BY <1>4 DEF SelectRecord, FreeFor
<1>5. CASE WriteRecord(q)
  <2>1. target[q] = IdOf /\ cur[q] \in Url
    BY <1>1, <1>5, WriteRecordFacts DEF WriteRecord, BatchOf, Planned
  <2>2. rowLock[IdOf[cur[q]]] \in {q, None}
    BY <1>1, <1>5, <2>1 DEF WriteRecord, BatchOf, Planned, FreeFor
  <2> QED BY <1>5, <2>1, <2>2 DEF WriteRecord
<1>6. CASE Commit(q) \/ CommitAnswerLost(q)
  <2>1. draft[q][i] = NoRow
    BY DraftsLocked
  <2> QED BY <1>6, <2>1 DEF Commit, CommitAnswerLost, Publish, Release, Visible
<1>7. CASE UniqueViolation(q) \/ DeadlockVictim(q) \/ StatementFails(q) \/ Crash(q)
  BY <1>7 DEF UniqueViolation, DeadlockVictim, StatementFails, Crash, Rollback, Release
<1> QED BY <1>2, <1>3, <1>4, <1>5, <1>6, <1>7 DEF Progress, Fault

\* What an execution knows of its batch survives every step that respects its
\* locks and its own variables.
LEMMA BatchKept ==
  ASSUME TypeInv, NEW r \in Run, BatchOf(r),
         pc'[r] = pc[r], draft'[r] = draft[r], obs'[r] = obs[r],
         target'[r] = target[r], todo'[r] = todo[r], cur'[r] = cur[r],
         found'[r] = found[r], gone'[r] = gone[r],
         \A i \in RecordId : rowLock[i] = r => rowLock'[i] = r /\ rows'[i] = rows[i]
  PROVE  BatchOf(r)'
<1>1. SavedSoFar(r)' = SavedSoFar(r) /\ (DistinctIds(obs[r]) => DistinctIds(obs[r])')
  BY DEF SavedSoFar, Listed, DistinctIds
<1>2. \A u \in SavedSoFar(r) : u \in Url
  BY DEF SavedSoFar, Listed
<1>3. pc[r] \in Planned => DraftsExact(r)'
  BY <1>1, <1>2, IdOfAssumption DEF BatchOf, DraftsExact
<1>4. pc[r] = "write" => IdOf[cur[r]] \in RecordId
  BY IdOfAssumption DEF TypeInv, BatchWellFormed, Listed
<1> QED BY <1>1, <1>2, <1>3, <1>4, IdOfAssumption DEF BatchOf

\* No record of the batch saved so far has the id of one still to save.
LEMMA BatchTargetUntouched ==
  ASSUME TypeInv, NEW r \in Run, BatchOf(r), pc[r] \in {"select", "write"},
         NEW u \in Listed(obs[r]), u \notin SavedSoFar(r)
  PROVE  /\ draft[r][IdOf[u]] = NoRow
         /\ \A w \in SavedSoFar(r) : IdOf[w] # IdOf[u]
<1>1. \A w \in SavedSoFar(r) : IdOf[w] # IdOf[u]
  BY DEF BatchOf, Planned, DistinctIds, SavedSoFar
<1>2. IdOf[u] \in RecordId
  BY IdOfAssumption DEF Listed
<1> QED BY <1>1, <1>2 DEF BatchOf, Planned, DraftsExact

LEMMA SelectKeepsBatch ==
  ASSUME TypeInv, NEW r \in Run, BatchOf(r), NEW u \in Url, SelectRecord(r, u)
  PROVE  BatchOf(r)'
<1> USE DEF TypeInv, TypeOK, history
<1>1. /\ pc[r] = "select" /\ pc'[r] = "write" /\ cur'[r] = u /\ u \in todo[r]
      /\ todo'[r] = todo[r] \ {u} /\ target'[r] = IdOf /\ target[r] = IdOf
      /\ obs' = obs /\ draft' = draft /\ rows' = rows /\ gone' = gone
      /\ found'[r] = Visible(r, IdOf[u])
      /\ Visible(r, IdOf[u]) # NoRow => rowLock' = [rowLock EXCEPT ![IdOf[u]] = r]
      /\ Visible(r, IdOf[u]) = NoRow => rowLock' = rowLock
  BY DEF SelectRecord, BatchOf, Planned
<1>2. SavedSoFar(r)' = SavedSoFar(r) /\ u \in Listed(obs[r]) /\ u \notin SavedSoFar(r)
  BY <1>1 DEF SavedSoFar, Listed, BatchWellFormed
<1>3. draft[r][IdOf[u]] = NoRow
  BY <1>1, <1>2, BatchTargetUntouched
<1>4. IdOf[u] \in RecordId
  BY IdOfAssumption
<1>5. DistinctIds(obs[r])'
  BY <1>1 DEF BatchOf, Planned, DistinctIds, Listed
<1>6. \A w \in SavedSoFar(r) : rowLock'[IdOf[w]] = r
  BY <1>1, <1>4, IdOfAssumption DEF BatchOf, Planned, SavedSoFar, Listed
<1>7. found'[r] # NoRow => found'[r] = rows'[IdOf[u]] /\ rowLock'[IdOf[u]] = r
  BY <1>1, <1>3, <1>4 DEF Visible
<1>8. DraftsExact(r)'
  BY <1>1, <1>2 DEF BatchOf, Planned, DraftsExact
<1> QED BY <1>1, <1>2, <1>5, <1>6, <1>7, <1>8 DEF BatchOf, Planned

LEMMA WriteKeepsBatch ==
  ASSUME TypeInv, NEW r \in Run, BatchOf(r), WriteRecord(r)
  PROVE  BatchOf(r)'
<1> USE DEF TypeInv, TypeOK, Goto, batch, history
<1> DEFINE u == cur[r]
           i == IdOf[cur[r]]
<1>1. /\ pc[r] = "write" /\ pc'[r] \in {"select", "finish"}
      /\ pc'[r] = "finish" => todo[r] = {}
      /\ todo' = todo /\ target'[r] = IdOf /\ target[r] = IdOf
      /\ obs' = obs /\ rows' = rows /\ gone' = gone
      /\ rowLock' = [rowLock EXCEPT ![i] = r]
  BY DEF WriteRecord, BatchOf, Planned
<1>2. /\ SavedSoFar(r)' = SavedSoFar(r) \cup {u}
      /\ u \in Listed(obs[r]) /\ u \notin SavedSoFar(r) /\ i \in RecordId
  BY <1>1, WriteRecordFacts, IdOfAssumption DEF SavedSoFar, Listed, BatchOf, Planned
<1>3. found[r] = rows[i]
  BY <1>1 DEF WriteRecord, BatchOf, Planned
<1>4. draft'[r] = [draft[r] EXCEPT ![i] = Saved(rows[i], u, obs[r][u], r)]
  BY <1>1, <1>3 DEF WriteRecord
<1>5. \A w \in SavedSoFar(r) : IdOf[w] # i
  BY <1>1, <1>2, BatchTargetUntouched
<1>6. DraftsExact(r)'
  BY <1>1, <1>2, <1>4, <1>5 DEF BatchOf, Planned, DraftsExact, Table
<1>7. \A w \in SavedSoFar(r)' : rowLock'[IdOf[w]] = r
  BY <1>1, <1>2, IdOfAssumption DEF BatchOf, Planned, SavedSoFar, Listed
<1>8. DistinctIds(obs[r])'
  BY <1>1 DEF BatchOf, Planned, DistinctIds, Listed
<1> QED BY <1>1, <1>6, <1>7, <1>8 DEF BatchOf, Planned

LEMMA OwnBatch ==
  ASSUME ~Complete, TypeInv, BatchInv, NEW r \in Run, Progress(r) \/ Fault(r)
  PROVE  BatchOf(r)'
<1> USE DEF Goto, Planned
<1>0. BatchOf(r)
  BY DEF BatchInv
<1>t. TypeOK
  BY DEF TypeInv
<1>1. CASE \/ SaveRunning(r) \/ RunningRefused(r) \/ CollectionFails(r)
           \/ SaveFailedRun(r) \/ FailedRunLost(r)
  BY <1>0, <1>t, <1>1
  DEF SaveRunning, RunningRefused, CollectionFails, SaveFailedRun, FailedRunLost, BatchOf,
      TypeOK, database, batch
<1>2. CASE Collected(r)
  <2>1. PICK o \in Listing : DistinctIds(o) /\ obs' = [obs EXCEPT ![r] = o]
    BY <1>2 DEF Collected
  <2>2. DistinctIds(obs'[r])
    BY <1>t, <2>1 DEF TypeOK
  <2>3. DistinctIds(obs[r])'
    BY <2>2 DEF DistinctIds, Listed
  <2> QED BY <1>0, <1>t, <1>2, <2>3 DEF Collected, BatchOf, TypeOK, database
<1>3. CASE OpenBatch(r)
  <2>1. /\ pc'[r] = "select" /\ todo'[r] = Listed(obs[r]) /\ target'[r] = IdOf
        /\ obs' = obs /\ draft'[r] = NoDraft /\ gone'[r] = {} /\ DistinctIds(obs[r])
    BY <1>0, <1>t, <1>3 DEF OpenBatch, FirstStep, BatchOf, TypeOK, database
  <2>2. SavedSoFar(r)' = {}
    BY <2>1 DEF SavedSoFar, Listed
  <2>3. DraftsExact(r)'
    BY <2>1, <2>2 DEF DraftsExact, NoDraft
  <2>4. DistinctIds(obs[r])'
    BY <2>1 DEF DistinctIds, Listed
  <2> QED BY <2>1, <2>2, <2>3, <2>4 DEF BatchOf
<1>4. CASE AcquireAdvisory(r) \/ PlanSnapshot(r) \/ PlanRefused(r)
  BY <1>0, <1>4 DEF AcquireAdvisory, PlanSnapshot, PlanRefused, BatchOf
<1>5. CASE \E u \in Url : SelectRecord(r, u)
  BY <1>0, <1>5, SelectKeepsBatch
<1>6. CASE WriteRecord(r)
  BY <1>0, <1>6, WriteKeepsBatch
<1>7. CASE MarkMissing(r)
  <2>1. /\ pc[r] = "finish" /\ pc'[r] = "commit" /\ draft'[r] = draft[r] /\ gone'[r] = {}
        /\ rows' = rows /\ rowLock' = rowLock /\ obs' = obs /\ target' = target
        /\ todo' = todo
    BY <1>0, <1>t, <1>7 DEF MarkMissing, BatchOf, TypeOK, Table, batch
  <2>2. SavedSoFar(r)' = SavedSoFar(r)
    BY <2>1 DEF SavedSoFar, Listed
  <2>3. DraftsExact(r)'
    BY <1>0, <2>1, <2>2 DEF DraftsExact, BatchOf
  <2>4. DistinctIds(obs[r])'
    BY <1>0, <2>1 DEF BatchOf, DistinctIds, Listed
  <2> QED BY <1>0, <2>1, <2>2, <2>3, <2>4 DEF BatchOf
<1>8. CASE Commit(r) \/ CommitAnswerLost(r)
  BY <1>t, <1>8 DEF Commit, CommitAnswerLost, GiveUp, Publish, Release, Return, BatchOf, TypeOK
<1>9. CASE UniqueViolation(r) \/ DeadlockVictim(r) \/ StatementFails(r) \/ Crash(r)
  BY <1>t, <1>9
  DEF UniqueViolation, DeadlockVictim, StatementFails, Crash, GiveUp, Discard, Return,
      Rollback, Release, BatchOf, TypeOK
<1> QED BY <1>1, <1>2, <1>3, <1>4, <1>5, <1>6, <1>7, <1>8, <1>9 DEF Progress, Fault

LEMMA BatchStep ==
  ASSUME ~Complete, TypeInv, BatchInv, [Next]_vars
  PROVE  BatchInv'
<1>1. ASSUME UNCHANGED vars PROVE BatchInv'
  <2>1. ASSUME NEW r \in Run PROVE BatchOf(r)'
    BY <1>1, BatchKept DEF vars, database, batch, BatchInv
  <2> QED BY <2>1 DEF BatchInv
<1>2. ASSUME NEW q \in Run, Progress(q) \/ Fault(q) PROVE BatchInv'
  <2>1. ASSUME NEW r \in Run PROVE BatchOf(r)'
    <3>1. CASE r = q
      BY <1>2, <3>1, OwnBatch
    <3>2. CASE r # q
      <4>1. /\ pc'[r] = pc[r] /\ draft'[r] = draft[r] /\ obs'[r] = obs[r]
            /\ target'[r] = target[r] /\ todo'[r] = todo[r] /\ cur'[r] = cur[r]
            /\ found'[r] = found[r] /\ gone'[r] = gone[r]
        BY <1>2, <3>2, OthersLocals
      <4>2. \A i \in RecordId : rowLock[i] = r => rowLock'[i] = r /\ rows'[i] = rows[i]
        BY <1>2, <3>2, OthersRespectLocks
      <4>3. BatchOf(r)
        BY DEF BatchInv
      <4> QED BY <4>1, <4>2, <4>3, BatchKept
    <3> QED BY <3>1, <3>2
  <2> QED BY <2>1 DEF BatchInv
<1>3. ASSUME NEW i \in RecordId, Index(i) PROVE BatchInv'
  <2>1. ASSUME NEW r \in Run PROVE BatchOf(r)'
    <3>1. \A j \in RecordId : rowLock[j] = r => rowLock'[j] = r /\ rows'[j] = rows[j]
      BY <1>3, NoneAssumption DEF Index, TypeInv, TypeOK
    <3>2. BatchOf(r)
      BY DEF BatchInv
    <3> QED BY <1>3, <3>1, <3>2, BatchKept DEF Index, batch
  <2> QED BY <2>1 DEF BatchInv
<1> QED BY <1>1, <1>2, <1>3 DEF Next

(***************************************************************************)
(* What a commit does to the table, in either mode.                        *)
(***************************************************************************)
CommittedRows(r) ==
  /\ \A u \in Listed(obs[r]) :
       Visible(r, target[r][u]) = Saved(rows[target[r][u]], u, obs[r][u], r)
  /\ \A i \in RecordId : (\A u \in Listed(obs[r]) : target[r][u] # i) =>
       Visible(r, i) = IF i \in gone[r] THEN MarkedMissing(rows[i]) ELSE rows[i]
  /\ \A u, w \in Listed(obs[r]) : target[r][u] = target[r][w] => u = w
  /\ \A i \in gone[r] : /\ i \in RecordId /\ rows[i] # NoRow
                        /\ rows[i].status # "MISSING"
                        /\ \A u \in Listed(obs[r]) : target[r][u] # i
  /\ CleanIdentity => \A u \in Listed(obs[r]) :
       LET row == rows[target[r][u]] IN row # NoRow => row.url = u

\* The assumptions under which it is so: complete snapshots need clean
\* identities.
ModeInv ==
  IF Complete THEN CleanIdentity /\ PlanInv
  ELSE BatchInv /\ (CleanIdentity => RowsIdentified(rows))

\* A row found under the id that a URL derives today has that URL.
LEMMA IdentifiedRow ==
  ASSUME CleanIdentity, NEW table \in Table, RowsIdentified(table),
         NEW u \in Url, table[IdOf[u]] # NoRow
  PROVE  table[IdOf[u]].url = u
<1>1. IdOf[u] \in Present(table) /\ table[IdOf[u]].url \in Url
  BY IdOfAssumption DEF Present, Table, CommonRecord
<1> QED BY <1>1 DEF CleanIdentity, RowsIdentified

\* What save_record and the MISSING mark keep of a row.
LEMMA SavedRow ==
  ASSUME NEW existing \in CommonRecord \cup {NoRow},
         NEW u \in Url, NEW c \in Content, NEW run \in Run
  PROVE  LET row == Saved(existing, u, c, run) IN
           /\ row \in CommonRecord /\ row # NoRow
           /\ row.content = c /\ row.seen = run /\ row.status # "MISSING"
           /\ row.url = (IF existing = NoRow \/ existing.content # c THEN u ELSE existing.url)
           /\ existing # NoRow =>
                /\ row.collected = existing.collected
                /\ existing.content = c =>
                     row.index = existing.index /\ row.embedding = existing.embedding
<1>1. Saved(existing, u, c, run) \in CommonRecord
  BY SavedType
<1>2. Saved(existing, u, c, run) # NoRow
  BY <1>1, NoRowAssumption
<1> QED BY <1>1, <1>2 DEF Saved, Inserted, Touched, Replaced, CommonRecord

LEMMA MarkedMissingRow ==
  ASSUME NEW row \in CommonRecord
  PROVE  LET marked == MarkedMissing(row) IN
           /\ marked \in CommonRecord /\ marked # NoRow
           /\ marked.status = "MISSING"
           /\ \A f \in {"url", "content", "index", "embedding", "collected", "seen"} :
                marked[f] = row[f]
<1>1. MarkedMissing(row) \in CommonRecord
  BY MarkedMissingType
<1> QED BY <1>1, NoRowAssumption DEF MarkedMissing, CommonRecord

LEMMA IndexedRow ==
  ASSUME NEW row \in CommonRecord, NEW verdict \in Verdict
  PROVE  LET new == Indexed(row, verdict) IN
           /\ new \in CommonRecord /\ new # NoRow
           /\ \A f \in {"url", "content", "status", "collected", "seen"} : new[f] = row[f]
<1>1. Indexed(row, verdict) \in CommonRecord
  BY IndexedType
<1> QED BY <1>1, NoRowAssumption DEF Indexed, CommonRecord

\* Complete snapshots: the plan is current, and every draft is what
\* DraftsExact says.
LEMMA SnapshotRows ==
  ASSUME CleanIdentity, TypeInv, PlanInv, NEW r \in Run, pc[r] = "commit"
  PROVE  CommittedRows(r)
<1>1. PlanCurrent(r) /\ InProgress(r) /\ RowsIdentified(rows)
  BY DEF PlanInv, Planned
<1>2. rows \in Table /\ obs[r] \in Listing /\ SavedSoFar(r) = Listed(obs[r])
  BY <1>1 DEF TypeInv, TypeOK, InProgress, SavedSoFar
<1>3. ASSUME NEW u \in Listed(obs[r])
      PROVE  /\ target[r][u] \in RecordId /\ u \in Url
             /\ target[r][u] = Reconciled(rows, u)
             /\ rows[target[r][u]] # NoRow => rows[target[r][u]].url = u
             /\ Visible(r, target[r][u]) = Saved(rows[target[r][u]], u, obs[r][u], r)
  <2>1. u \in Url /\ obs[r][u] \in Content
    BY <1>2 DEF Listed, Listing
  <2>2. target[r][u] = Reconciled(rows, u)
    BY <1>1, <2>1 DEF PlanCurrent
  <2>3. /\ target[r][u] \in RecordId
        /\ rows[target[r][u]] # NoRow => rows[target[r][u]].url = u
    BY <1>1, <1>2, <2>1, <2>2, ReconciledRow
  <2>4. draft[r][target[r][u]] = Saved(rows[target[r][u]], u, obs[r][u], r)
    BY <1>1, <1>2, <2>3 DEF InProgress, DraftsExact
  <2>5. Saved(rows[target[r][u]], u, obs[r][u], r) # NoRow
    <3>1. rows[target[r][u]] \in CommonRecord \cup {NoRow}
      BY <1>2, <2>3 DEF Table
    <3> QED BY <2>1, <3>1, SavedRow
  <2>6. Visible(r, target[r][u]) = draft[r][target[r][u]]
    BY <2>4, <2>5 DEF Visible
  <2> QED BY <2>1, <2>2, <2>3, <2>4, <2>6
<1>4. ASSUME NEW i \in RecordId, \A u \in Listed(obs[r]) : target[r][u] # i
      PROVE  Visible(r, i) = IF i \in gone[r] THEN MarkedMissing(rows[i]) ELSE rows[i]
  <2>1. draft[r][i] = IF i \in gone[r] THEN MarkedMissing(rows[i]) ELSE NoRow
    BY <1>1, <1>2, <1>4 DEF InProgress, DraftsExact
  <2>2. i \in gone[r] => MarkedMissing(rows[i]) # NoRow
    BY <1>2, MarkedMissingRow DEF TypeInv, BatchWellFormed, Present, Table
  <2> QED BY <2>1, <2>2 DEF Visible
<1>5. \A u, w \in Listed(obs[r]) : target[r][u] = target[r][w] => u = w
  BY <1>1, <1>2, <1>3, ReconciledInjective
<1>6. \A i \in gone[r] : /\ i \in RecordId /\ rows[i] # NoRow
                         /\ rows[i].status # "MISSING"
                         /\ \A u \in Listed(obs[r]) : target[r][u] # i
  BY <1>1, <1>3 DEF PlanCurrent, Unobserved, Present
<1>7. \A u \in Listed(obs[r]) :
        /\ rows[target[r][u]] # NoRow => rows[target[r][u]].url = u
        /\ Visible(r, target[r][u]) = Saved(rows[target[r][u]], u, obs[r][u], r)
  BY <1>3
<1> QED BY <1>4, <1>5, <1>6, <1>7 DEF CommittedRows

\* Bounded batches: the same, from the rows it holds.
LEMMA BatchRows ==
  ASSUME TypeInv, BatchInv, CleanIdentity => RowsIdentified(rows),
         NEW r \in Run, pc[r] = "commit"
  PROVE  CommittedRows(r) /\ target[r] = IdOf /\ gone[r] = {}
<1>1. BatchOf(r) /\ target[r] = IdOf /\ gone[r] = {}
  BY DEF BatchInv, BatchOf, Planned
<1>2. rows \in Table /\ obs[r] \in Listing /\ SavedSoFar(r) = Listed(obs[r])
  BY <1>1 DEF TypeInv, TypeOK, BatchOf, Planned, SavedSoFar
<1>3. ASSUME NEW u \in Listed(obs[r])
      PROVE  /\ u \in Url /\ IdOf[u] \in RecordId
             /\ Visible(r, IdOf[u]) = Saved(rows[IdOf[u]], u, obs[r][u], r)
  <2>1. u \in Url /\ obs[r][u] \in Content /\ IdOf[u] \in RecordId
    BY <1>2, IdOfAssumption DEF Listed, Listing
  <2>2. draft[r][IdOf[u]] = Saved(rows[IdOf[u]], u, obs[r][u], r)
    BY <1>1, <1>2, <2>1 DEF BatchOf, Planned, DraftsExact
  <2>3. Saved(rows[IdOf[u]], u, obs[r][u], r) # NoRow
    BY <1>2, <2>1, SavedRow DEF Table
  <2> QED BY <2>1, <2>2, <2>3 DEF Visible
<1>4. ASSUME NEW i \in RecordId, \A u \in Listed(obs[r]) : target[r][u] # i
      PROVE  Visible(r, i) = rows[i]
  BY <1>1, <1>2, <1>4 DEF BatchOf, Planned, DraftsExact, Visible
<1>5. \A u, w \in Listed(obs[r]) : target[r][u] = target[r][w] => u = w
  BY <1>1 DEF BatchOf, Planned, DistinctIds
<1>6. ASSUME CleanIdentity, NEW u \in Listed(obs[r]), rows[target[r][u]] # NoRow
      PROVE  rows[target[r][u]].url = u
  BY <1>1, <1>2, <1>3, <1>6, IdentifiedRow
<1> QED BY <1>1, <1>3, <1>4, <1>5, <1>6 DEF CommittedRows

\* Every row after a commit is one that the batch saved, one that the plan
\* marked, or as it was.
LEMMA CommittedRow ==
  ASSUME TypeInv, NEW r \in Run, CommittedRows(r), NEW i \in RecordId
  PROVE  \/ \E u \in Listed(obs[r]) :
              /\ u \in Url /\ obs[r][u] \in Content /\ target[r][u] = i
              /\ Visible(r, i) = Saved(rows[i], u, obs[r][u], r)
              /\ CleanIdentity /\ rows[i] # NoRow => rows[i].url = u
         \/ /\ i \in gone[r] /\ rows[i] \in CommonRecord
            /\ Visible(r, i) = MarkedMissing(rows[i])
         \/ /\ \A u \in Listed(obs[r]) : target[r][u] # i
            /\ Visible(r, i) = rows[i]
<1>1. ASSUME NEW u \in Listed(obs[r]) PROVE u \in Url /\ obs[r][u] \in Content
  BY DEF TypeInv, TypeOK, Listed, Listing
<1>2. CASE \E u \in Listed(obs[r]) : target[r][u] = i
  BY <1>1, <1>2 DEF CommittedRows
<1>3. CASE \A u \in Listed(obs[r]) : target[r][u] # i
  <2>1. rows[i] \in CommonRecord \cup {NoRow}
    BY DEF TypeInv, TypeOK, Table
  <2> QED BY <1>3, <2>1 DEF CommittedRows
<1> QED BY <1>2, <1>3

\* The three kinds of steps, seen from the table.
RowsCommitted(r) ==
  /\ pc[r] = "commit" /\ CommittedRows(r)
  /\ rows' = [i \in RecordId |-> Visible(r, i)]
  /\ runs' = [runs EXCEPT ![r] = mem[r]]
  /\ published' = r

RowIndexed(i) ==
  /\ rows[i] # NoRow /\ rows[i].index = "PENDING"
  /\ \E verdict \in Verdict : rows' = [rows EXCEPT ![i] = Indexed(@, verdict)]
  /\ UNCHANGED <<runs, published>>

LEMMA RowsStep ==
  ASSUME TypeInv, ModeInv, [Next]_vars
  PROVE  \/ rows' = rows /\ published' = published
         \/ \E r \in Run : RowsCommitted(r)
         \/ \E i \in RecordId : RowIndexed(i)
<1>1. CASE UNCHANGED vars
  BY <1>1 DEF vars, database, history
<1>2. ASSUME NEW r \in Run, Commit(r) \/ CommitAnswerLost(r) PROVE RowsCommitted(r)
  <2>1. pc[r] = "commit"
    BY <1>2 DEF Commit, CommitAnswerLost, Goto
  <2>2. CommittedRows(r)
    BY <2>1, SnapshotRows, BatchRows DEF ModeInv
  <2> QED BY <1>2, <2>1, <2>2 DEF Commit, CommitAnswerLost, Publish, RowsCommitted
<1>3. ASSUME NEW r \in Run, Progress(r) \/ Fault(r), ~(Commit(r) \/ CommitAnswerLost(r))
      PROVE  published' = published /\ rows' = rows
  BY <1>3
  DEF Progress, Fault, SaveRunning, RunningRefused, Collected, CollectionFails, OpenBatch, FirstStep,
      AcquireAdvisory, PlanSnapshot, PlanRefused, SelectRecord, WriteRecord, UniqueViolation,
      DeadlockVictim, MarkMissing, SaveFailedRun, FailedRunLost, StatementFails, Crash,
      Rollback, database, history
<1>4. ASSUME NEW i \in RecordId, Index(i) PROVE RowIndexed(i)
  BY <1>4 DEF Index, RowIndexed, history
<1> QED BY <1>1, <1>2, <1>3, <1>4 DEF Next

\* Under clean identities no step changes the URL or the first observation of a
\* stored row, or deletes one, and each row keeps the id that identifies it.
LEMMA RowsKeepIdentity ==
  ASSUME CleanIdentity, TypeInv, ModeInv, [Next]_vars, NEW i \in RecordId
  PROVE  /\ rows[i] # NoRow => /\ rows'[i] # NoRow
                               /\ rows'[i].url = rows[i].url
                               /\ rows'[i].collected = rows[i].collected
         /\ rows[i] = NoRow /\ rows'[i] # NoRow =>
              \E r \in Run : \E u \in Listed(obs[r]) :
                RowsCommitted(r) /\ target[r][u] = i /\ rows'[i].url = u
<1>1. rows \in Table /\ rows[i] \in CommonRecord \cup {NoRow}
  BY DEF TypeInv, TypeOK, Table
<1>2. ASSUME NEW r \in Run, RowsCommitted(r)
      PROVE  /\ rows[i] # NoRow => /\ rows'[i] # NoRow
                                   /\ rows'[i].url = rows[i].url
                                   /\ rows'[i].collected = rows[i].collected
             /\ rows[i] = NoRow /\ rows'[i] # NoRow =>
                  \E u \in Listed(obs[r]) : target[r][u] = i /\ rows'[i].url = u
  <2>1. rows'[i] = Visible(r, i) /\ CommittedRows(r)
    BY <1>2 DEF RowsCommitted
  <2>2. CASE \E u \in Listed(obs[r]) :
               /\ u \in Url /\ obs[r][u] \in Content /\ target[r][u] = i
               /\ Visible(r, i) = Saved(rows[i], u, obs[r][u], r)
               /\ CleanIdentity /\ rows[i] # NoRow => rows[i].url = u
    <3>1. PICK u \in Listed(obs[r]) :
               /\ u \in Url /\ obs[r][u] \in Content /\ target[r][u] = i
               /\ Visible(r, i) = Saved(rows[i], u, obs[r][u], r)
               /\ rows[i] # NoRow => rows[i].url = u
      BY <2>2
    <3> QED BY <1>1, <2>1, <3>1, SavedRow
  <2>3. CASE rows[i] \in CommonRecord /\ Visible(r, i) = MarkedMissing(rows[i])
    BY <2>1, <2>3, MarkedMissingRow, NoRowAssumption
  <2>4. CASE Visible(r, i) = rows[i]
    BY <2>1, <2>4
  <2> QED BY <2>1, <2>2, <2>3, <2>4, CommittedRow
<1>3. ASSUME NEW j \in RecordId, RowIndexed(j)
      PROVE  /\ rows[i] # NoRow => /\ rows'[i] # NoRow
                                   /\ rows'[i].url = rows[i].url
                                   /\ rows'[i].collected = rows[i].collected
             /\ rows[i] = NoRow => rows'[i] = NoRow
  <2>1. PICK verdict \in Verdict : rows' = [rows EXCEPT ![j] = Indexed(@, verdict)]
    BY <1>3 DEF RowIndexed
  <2>2. i = j => rows[i] \in CommonRecord /\ rows'[i] = Indexed(rows[i], verdict)
    BY <1>1, <1>3, <2>1 DEF RowIndexed, Table
  <2>3. i # j => rows'[i] = rows[i]
    BY <1>1, <2>1 DEF Table
  <2> QED BY <1>3, <2>2, <2>3, IndexedRow DEF RowIndexed
<1> QED BY <1>2, <1>3, RowsStep

LEMMA ModeStep ==
  ASSUME Complete => CleanIdentity, TypeInv, ModeInv, [Next]_vars
  PROVE  ModeInv'
<1>1. CASE Complete
  BY <1>1, PlanStep DEF ModeInv
<1>2. CASE ~Complete
  <2>1. BatchInv'
    BY <1>2, BatchStep DEF ModeInv
  <2>2. ASSUME CleanIdentity PROVE RowsIdentified(rows')
    <3>1. RowsIdentified(rows) /\ BatchInv
      BY <1>2, <2>2 DEF ModeInv
    <3>2. ASSUME NEW i \in RecordId, rows'[i] # NoRow
          PROVE  IdOf[rows'[i].url] = i \/ i \in LegacyId
      <4>1. CASE rows[i] # NoRow
        BY <2>2, <3>1, <4>1, RowsKeepIdentity DEF RowsIdentified, Present
      <4>2. CASE rows[i] = NoRow
        <5>1. PICK r \in Run : \E u \in Listed(obs[r]) :
                RowsCommitted(r) /\ target[r][u] = i /\ rows'[i].url = u
          BY <2>2, <3>2, <4>2, RowsKeepIdentity
        <5>2. target[r] = IdOf
          BY <3>1, <5>1 DEF RowsCommitted, BatchInv, BatchOf, Planned
        <5> QED BY <5>1, <5>2
      <4> QED BY <4>1, <4>2
    <3> QED BY <3>2 DEF RowsIdentified, Present
  <2> QED BY <1>2, <2>1, <2>2 DEF ModeInv
<1> QED BY <1>1, <1>2

LEMMA ModeInit ==
  ASSUME Complete => CleanIdentity, Init
  PROVE  ModeInv
<1>1. RowsIdentified(rows)
  BY DEF Init, SeedTables, RowsIdentified
<1> QED BY <1>1, PlanInit, BatchInit DEF ModeInv

(***************************************************************************)
(* The theorems.                                                           *)
(***************************************************************************)
\* With clean identities a stored record keeps its id, its canonical URL and
\* its collected_at for ever, in either mode and whatever fails: the
\* reconciliation of plan_snapshot and the CHANGED branch never rename a row.
THEOREM IdentitiesStable == CleanIdentity => (Spec => IdentityStable)
<1> SUFFICES ASSUME CleanIdentity PROVE Spec => IdentityStable
  OBVIOUS
<1>1. Init => ModeInv
  BY ModeInit
<1>2. TypeInv /\ ModeInv /\ [Next]_vars => ModeInv'
  BY ModeStep
<1> DEFINE Stable == \A i \in Present(rows) :
                       /\ rows'[i] # NoRow
                       /\ rows'[i].url = rows[i].url
                       /\ rows'[i].collected = rows[i].collected
<1>3. TypeInv /\ ModeInv /\ [Next]_vars => [Stable]_vars
  BY RowsKeepIdentity DEF Present
<1> QED BY <1>1, <1>2, <1>3, TypeInit, TypeStep, PTL DEF Spec, IdentityStable

\* Only a change of content sends an indexed row back to the indexer, in either
\* mode: the UNCHANGED branch and the MISSING mark leave the index columns
\* alone, and the indexer takes PENDING rows only.
LEMMA IndexKept ==
  ASSUME TypeInv, ModeInv, [Next]_vars, NEW i \in Present(rows),
         rows[i].index = "INDEXED", rows'[i].content = rows[i].content
  PROVE  rows'[i].index = "INDEXED" /\ rows'[i].embedding = rows[i].embedding
<1>1. i \in RecordId /\ rows[i] # NoRow /\ rows[i] \in CommonRecord
  BY DEF Present, TypeInv, TypeOK, Table
<1>2. ASSUME NEW r \in Run, RowsCommitted(r)
      PROVE  rows'[i].index = "INDEXED" /\ rows'[i].embedding = rows[i].embedding
  <2>1. rows'[i] = Visible(r, i) /\ CommittedRows(r)
    BY <1>1, <1>2 DEF RowsCommitted
  <2>2. CASE \E u \in Listed(obs[r]) :
               /\ u \in Url /\ obs[r][u] \in Content
               /\ Visible(r, i) = Saved(rows[i], u, obs[r][u], r)
    BY <1>1, <2>1, <2>2, SavedRow
  <2>3. CASE Visible(r, i) = MarkedMissing(rows[i])
    BY <1>1, <2>1, <2>3, MarkedMissingRow
  <2>4. CASE Visible(r, i) = rows[i]
    BY <2>1, <2>4
  <2> QED BY <1>1, <2>1, <2>2, <2>3, <2>4, CommittedRow
<1>3. ASSUME NEW j \in RecordId, RowIndexed(j) PROVE rows'[i] = rows[i]
  BY <1>1, <1>3 DEF RowIndexed, TypeInv, TypeOK, Table
<1> QED BY <1>2, <1>3, RowsStep

\* A record whose text did not change keeps its embedding and its place in the
\* index, whatever else a commit writes (the UNCHANGED branch of save_record).
THEOREM EmbeddingsKept == (Complete => CleanIdentity) => (Spec => NoReembedding)
<1> SUFFICES ASSUME Complete => CleanIdentity PROVE Spec => NoReembedding
  OBVIOUS
<1>1. Init => ModeInv
  BY ModeInit
<1>2. TypeInv /\ ModeInv /\ [Next]_vars => ModeInv'
  BY ModeStep
<1> DEFINE Kept ==
      \A i \in Present(rows) :
        rows[i].index = "INDEXED" /\ rows'[i].content = rows[i].content =>
          rows'[i].index = "INDEXED" /\ rows'[i].embedding = rows[i].embedding
<1>3. TypeInv /\ ModeInv /\ [Next]_vars => [Kept]_vars
  BY IndexKept
<1> QED BY <1>1, <1>2, <1>3, TypeInit, TypeStep, PTL DEF Spec, NoReembedding

\* A committed bounded batch stores each record it was given as given, and
\* leaves every other row of the source as it was, whatever the identities.
LEMMA BatchAppliedStep ==
  ASSUME ~Complete, TypeInv, ModeInv, [Next]_vars,
         NEW r \in Run, published' = r, published # r
  PROVE  /\ \A u \in Listed(obs[r]) :
              /\ rows'[IdOf[u]].content = obs[r][u]
              /\ rows'[IdOf[u]].seen = r
              /\ rows'[IdOf[u]].status # "MISSING"
         /\ \A i \in RecordId \ {IdOf[u] : u \in Listed(obs[r])} : rows'[i] = rows[i]
<1>1. RowsCommitted(r)
  BY RowsStep DEF RowsCommitted, RowIndexed
<1>2. CommittedRows(r) /\ target[r] = IdOf /\ gone[r] = {}
  BY <1>1, BatchRows DEF RowsCommitted, ModeInv
<1>3. ASSUME NEW u \in Listed(obs[r])
      PROVE  /\ rows'[IdOf[u]].content = obs[r][u]
             /\ rows'[IdOf[u]].seen = r
             /\ rows'[IdOf[u]].status # "MISSING"
  <2>1. /\ u \in Url /\ obs[r][u] \in Content /\ IdOf[u] \in RecordId
        /\ rows[IdOf[u]] \in CommonRecord \cup {NoRow}
    BY IdOfAssumption DEF TypeInv, TypeOK, Listed, Listing, Table
  <2>2. rows'[IdOf[u]] = Saved(rows[IdOf[u]], u, obs[r][u], r)
    BY <1>1, <1>2, <2>1 DEF RowsCommitted, CommittedRows
  <2> QED BY <2>1, <2>2, SavedRow
<1>4. ASSUME NEW i \in RecordId \ {IdOf[u] : u \in Listed(obs[r])}
      PROVE  rows'[i] = rows[i]
  BY <1>1, <1>2, <1>4 DEF RowsCommitted, CommittedRows
<1> QED BY <1>3, <1>4

\* Without complete snapshots a commit changes the rows of its own batch and no
\* other, each to what save_record makes of the row that is there now.
THEOREM BatchesApplied == ~Complete => (Spec => BatchApplied)
<1> SUFFICES ASSUME ~Complete PROVE Spec => BatchApplied
  OBVIOUS
<1>1. Init => ModeInv
  BY ModeInit
<1>2. TypeInv /\ ModeInv /\ [Next]_vars => ModeInv'
  BY ModeStep
<1> DEFINE Applied ==
      \A r \in Run : published' = r /\ published # r =>
        LET written == {IdOf[u] : u \in Listed(obs[r])}
        IN /\ \A u \in Listed(obs[r]) :
                /\ rows'[IdOf[u]].content = obs[r][u]
                /\ rows'[IdOf[u]].seen = r
                /\ rows'[IdOf[u]].status # "MISSING"
           /\ \A i \in RecordId \ written : rows'[i] = rows[i]
<1>3. TypeInv /\ ModeInv /\ [Next]_vars => [Applied]_vars
  BY BatchAppliedStep
<1> QED BY <1>1, <1>2, <1>3, TypeInit, TypeStep, PTL DEF Spec, BatchApplied

\* No complete snapshot makes two rows share a canonical URL.
LEMMA UniqueUrlsKept ==
  ASSUME Complete, TypeInv, ModeInv, [Next]_vars, UniqueUrls(rows)
  PROVE  UniqueUrls(rows')
<1>1. CleanIdentity /\ PlanInv /\ RowsIdentified(rows) /\ rows \in Table
  BY DEF ModeInv, PlanInv, TypeInv, TypeOK
<1>2. ASSUME NEW r \in Run, RowsCommitted(r),
             NEW i \in RecordId, rows[i] = NoRow, rows'[i] # NoRow,
             NEW j \in RecordId, rows[j] # NoRow
      PROVE  rows'[i].url # rows'[j].url
  <2>1. PICK u \in Listed(obs[r]) :
          /\ u \in Url /\ target[r][u] = i
          /\ Visible(r, i) = Saved(rows[i], u, obs[r][u], r) /\ obs[r][u] \in Content
    <3>1. CommittedRows(r) /\ Visible(r, i) # rows[i] /\ rows[i] \notin CommonRecord
      BY <1>2, NoRowAssumption DEF RowsCommitted
    <3> QED BY <3>1, CommittedRow
  <2>2. rows'[i].url = u
    BY <1>2, <2>1, SavedRow DEF RowsCommitted
  <2>3. i = Reconciled(rows, u)
    BY <1>1, <1>2, <2>1 DEF RowsCommitted, PlanInv, Planned, PlanCurrent
  <2>4. ASSUME rows[j].url = u PROVE FALSE
    <3>1. j \in Present(rows)
      BY <1>2 DEF Present
    <3>2. Reconciled(rows, u) \in Present(rows)
      BY <2>4, <3>1 DEF Reconciled
    <3> QED BY <1>2, <2>3, <3>2 DEF Present
  <2>5. rows'[j].url = rows[j].url
    BY <1>1, <1>2, RowsKeepIdentity
  <2> QED BY <2>2, <2>4, <2>5
<1>3. ASSUME NEW i \in Present(rows'), NEW j \in Present(rows'), rows'[i].url = rows'[j].url
      PROVE  i = j
  <2>1. i \in RecordId /\ j \in RecordId /\ rows'[i] # NoRow /\ rows'[j] # NoRow
    BY <1>3 DEF Present
  <2>2. CASE rows[i] # NoRow /\ rows[j] # NoRow
    <3>1. rows[i].url = rows[j].url
      BY <1>1, <1>3, <2>1, <2>2, RowsKeepIdentity
    <3> QED BY <2>1, <2>2, <3>1 DEF UniqueUrls, Present
  <2>3. CASE rows[i] = NoRow /\ rows[j] # NoRow
    BY <1>1, <1>2, <1>3, <2>1, <2>3, RowsKeepIdentity
  <2>4. CASE rows[i] # NoRow /\ rows[j] = NoRow
    BY <1>1, <1>2, <1>3, <2>1, <2>4, RowsKeepIdentity
  <2>5. CASE rows[i] = NoRow /\ rows[j] = NoRow
    <3>1. PICK r \in Run : \E u \in Listed(obs[r]) :
            RowsCommitted(r) /\ target[r][u] = i /\ rows'[i].url = u
      BY <1>1, <2>1, <2>5, RowsKeepIdentity
    <3>2. PICK q \in Run : \E u \in Listed(obs[q]) :
            RowsCommitted(q) /\ target[q][u] = j /\ rows'[j].url = u
      BY <1>1, <2>1, <2>5, RowsKeepIdentity
    <3>3. q = r
      BY <3>1, <3>2 DEF RowsCommitted
    <3> QED BY <1>3, <3>1, <3>2, <3>3
  <2> QED BY <2>2, <2>3, <2>4, <2>5
<1> QED BY <1>3 DEF UniqueUrls

\* With clean identities and complete snapshots no commit puts one URL under two
\* ids (plan_snapshot reconciles before anything is saved).
THEOREM UniqueUrlsPreserved == Complete /\ CleanIdentity => (Spec => UniqueUrlsStable)
<1> SUFFICES ASSUME Complete, CleanIdentity PROVE Spec => UniqueUrlsStable
  OBVIOUS
<1>1. Init => ModeInv
  BY ModeInit
<1>2. TypeInv /\ ModeInv /\ [Next]_vars => ModeInv'
  BY ModeStep
<1>3. TypeInv /\ ModeInv /\ [Next]_vars => [UniqueUrls(rows) => UniqueUrls(rows')]_vars
  BY UniqueUrlsKept
<1> QED BY <1>1, <1>2, <1>3, TypeInit, TypeStep, PTL DEF Spec, UniqueUrlsStable

(***************************************************************************)
(* Until its commit an execution has left no timestamp of its own anywhere *)
(* but in its drafts.                                                      *)
(***************************************************************************)
Unended == {"idle", "collecting"} \cup InBatch

UnstampedInv ==
  \A r \in Run : pc[r] \in Unended =>
    /\ \A i \in RecordId : r \notin Stamps(rows[i])
    /\ \A q \in Run \ {r} :
         /\ r \notin Stamps(found[q])
         /\ \A i \in RecordId : r \notin Stamps(draft[q][i])

LEMMA UnstampedInit == Init => UnstampedInv
  BY DEF Init, UnstampedInv, SeedTables, SeedRecords, Present, Stamps, NoDraft

LEMMA UnstampedStep ==
  ASSUME TypeInv, UnstampedInv, [Next]_vars
  PROVE  UnstampedInv'
<1>t. TypeOK
  BY DEF TypeInv
<1>1. ASSUME UNCHANGED <<pc, rows, found, draft>> PROVE UnstampedInv'
  BY <1>1 DEF UnstampedInv
<1>2. ASSUME NEW i \in RecordId, Index(i) PROVE UnstampedInv'
  <2>1. \A verdict \in Verdict : Stamps(Indexed(rows[i], verdict)) = Stamps(rows[i])
    BY <1>2, IndexedStamps DEF Index, TypeInv, TypeOK, Table
  <2> QED BY <1>t, <1>2, <2>1 DEF UnstampedInv, Index, batch, TypeOK, Table
<1>3. ASSUME NEW q \in Run, Progress(q) \/ Fault(q) PROVE UnstampedInv'
  <2> SUFFICES ASSUME NEW r \in Run, pc'[r] \in Unended
               PROVE  /\ \A i \in RecordId : r \notin Stamps(rows'[i])
                      /\ \A p \in Run \ {r} :
                           /\ r \notin Stamps(found'[p])
                           /\ \A i \in RecordId : r \notin Stamps(draft'[p][i])
    BY DEF UnstampedInv
  <2>0. Stamps(NoRow) = {}
    BY DEF Stamps
  <2>1. pc[r] \in Unended
    <3>1. CASE r # q
      BY <1>3, <3>1, OthersLocals
    <3>2. CASE r = q
      BY <1>t, <1>3, <3>2
      DEF Progress, Fault, SaveRunning, RunningRefused, Collected, CollectionFails, OpenBatch,
          FirstStep, AcquireAdvisory, PlanSnapshot, PlanRefused, SelectRecord, WriteRecord,
          UniqueViolation, DeadlockVictim, MarkMissing, Commit, CommitAnswerLost, SaveFailedRun,
          FailedRunLost, StatementFails, Crash, GiveUp, Goto, TypeOK, Unended, InBatch, Ended
    <3> QED BY <3>1, <3>2
  <2>2. /\ \A i \in RecordId : r \notin Stamps(rows[i])
        /\ \A p \in Run \ {r} : /\ r \notin Stamps(found[p])
                                /\ \A i \in RecordId : r \notin Stamps(draft[p][i])
    BY <2>1 DEF UnstampedInv
  <2>3. CASE rows' = rows /\ found' = found /\ draft' = draft
    BY <2>2, <2>3
  <2>4. CASE \E u \in Url : SelectRecord(q, u)
    <3>1. PICK u \in Url : SelectRecord(q, u)
      BY <2>4
    <3>2. target[q][u] \in RecordId /\ found' = [found EXCEPT ![q] = Visible(q, target[q][u])]
      BY <1>t, <3>1 DEF SelectRecord, TypeOK
    <3> QED BY <1>t, <2>2, <3>1, <3>2 DEF SelectRecord, Visible, TypeOK
  <2>5. CASE WriteRecord(q)
    <3>1. Stamps(Saved(found[q], cur[q], obs[q][cur[q]], q)) \subseteq Stamps(found[q]) \cup {q}
      BY <2>5, WriteRecordFacts, SavedStamps
    <3> QED BY <1>t, <2>2, <2>5, <3>1, WriteRecordFacts DEF WriteRecord, batch, TypeOK, Table
  <2>6. CASE MarkMissing(q)
    <3>1. \A i \in gone[q] : i \in RecordId /\ Visible(q, i) \in CommonRecord
      BY VisibleType DEF TypeInv, BatchWellFormed, Present
    <3>2. \A i \in gone[q] : Stamps(MarkedMissing(Visible(q, i))) = Stamps(Visible(q, i))
      BY <3>1, MarkedMissingStamps
    <3>3. \A i \in gone[q] : q # r => r \notin Stamps(Visible(q, i))
      BY <2>2, <3>1 DEF Visible
    <3>4. rows' = rows /\ found' = found
      BY <2>6 DEF MarkMissing, batch
    <3>5. \A p \in Run \ {r} : \A i \in RecordId : r \notin Stamps(draft'[p][i])
      <4> TAKE p \in Run \ {r}
      <4> TAKE i \in RecordId
      <4>1. CASE p = q /\ i \in gone[q]
        <5>1. draft'[p][i] = MarkedMissing(Visible(q, i))
          BY <1>t, <2>6, <4>1 DEF MarkMissing, TypeOK
        <5> QED BY <3>2, <3>3, <4>1, <5>1
      <4>2. CASE ~(p = q /\ i \in gone[q])
        <5>1. draft'[p][i] = draft[p][i]
          BY <1>t, <2>6, <4>2 DEF MarkMissing, TypeOK
        <5> QED BY <2>2, <5>1
      <4> QED BY <4>1, <4>2
    <3> QED BY <2>2, <3>4, <3>5
  <2>7. CASE Release(q) /\ Return(q) /\ rows' = rows
    BY <1>t, <2>0, <2>2, <2>7 DEF Release, Return, NoDraft, TypeOK
  <2>8. CASE Commit(q) \/ CommitAnswerLost(q)
    <3>1. r # q
      BY <1>t, <2>8 DEF Commit, CommitAnswerLost, GiveUp, Goto, TypeOK, Unended, InBatch
    <3>2. /\ rows' = [i \in RecordId |-> Visible(q, i)]
          /\ found' = [found EXCEPT ![q] = NoRow]
          /\ draft' = [draft EXCEPT ![q] = NoDraft]
      BY <2>8 DEF Commit, CommitAnswerLost, Publish, Release, Return
    <3>3. \A i \in RecordId : r \notin Stamps(rows'[i])
      BY <2>2, <3>1, <3>2 DEF Visible
    <3>4. ASSUME NEW p \in Run \ {r}
          PROVE  /\ r \notin Stamps(found'[p])
                 /\ \A i \in RecordId : r \notin Stamps(draft'[p][i])
      <4>1. CASE p = q
        BY <1>t, <2>0, <3>2, <4>1 DEF NoDraft, TypeOK
      <4>2. CASE p # q
        BY <1>t, <2>2, <3>2, <4>2 DEF TypeOK
      <4> QED BY <4>1, <4>2
    <3> QED BY <3>3, <3>4
  <2>9. CASE \/ SaveRunning(q) \/ Collected(q) \/ OpenBatch(q) \/ AcquireAdvisory(q)
             \/ PlanSnapshot(q) \/ SaveFailedRun(q) \/ RunningRefused(q)
             \/ CollectionFails(q) \/ FailedRunLost(q)
    BY <2>3, <2>9 DEF SaveRunning, Collected, OpenBatch, FirstStep, AcquireAdvisory, PlanSnapshot,
       SaveFailedRun, RunningRefused, CollectionFails, FailedRunLost, database, batch
  <2>10. CASE \/ PlanRefused(q) \/ UniqueViolation(q) \/ DeadlockVictim(q)
              \/ StatementFails(q) \/ Crash(q)
    BY <2>7, <2>10 DEF PlanRefused, UniqueViolation, DeadlockVictim, StatementFails, Crash,
       Discard, Rollback
  <2> QED BY <1>3, <2>4, <2>5, <2>6, <2>8, <2>9, <2>10 DEF Progress, Fault
<1> QED BY <1>1, <1>2, <1>3 DEF Next, vars, database, batch

(***************************************************************************)
(* The counters.  They are the numbers of the records saved so far, by     *)
(* what save_record did with each: the rows it compared them with stay as  *)
(* they are while the execution holds them.                                *)
(***************************************************************************)
Counting == {"lock", "plan"} \cup Planned

SavedAs(r, action) ==
  {u \in SavedSoFar(r) : Action(rows[target[r][u]], obs[r][u]) = action}

CountsOf(r) ==
  /\ pc[r] \in {"idle", "collecting", "open"} =>
       /\ mem[r].added = 0 /\ mem[r].changed = 0
       /\ mem[r].unchanged = 0 /\ mem[r].missing = 0
  /\ pc[r] \in Counting =>
       /\ mem[r].seen = Cardinality(Listed(obs[r]))
       /\ mem[r].added = Cardinality(SavedAs(r, "NEW"))
       /\ mem[r].changed = Cardinality(SavedAs(r, "CHANGED"))
       /\ mem[r].unchanged = Cardinality(SavedAs(r, "UNCHANGED"))
       /\ mem[r].missing = Cardinality(gone[r])
  /\ pc[r] \in {"idle", "collecting", "open", "lock", "plan"} => gone[r] = {}

CountsInv == \A r \in Run : CountsOf(r)

LEMMA CountsInit == Init => CountsInv
  BY DEF Init, CountsInv, CountsOf, NewRun, Counting, Planned

\* A run object changes by the steps of its own execution only.
LEMMA OthersMem ==
  ASSUME TypeInv, NEW q \in Run, Progress(q) \/ Fault(q), NEW r \in Run, r # q
  PROVE  mem'[r] = mem[r]
  BY DEF TypeInv, TypeOK, Progress, Fault, SaveRunning, RunningRefused, Collected,
     CollectionFails, OpenBatch, AcquireAdvisory, PlanSnapshot, PlanRefused, SelectRecord,
     WriteRecord, UniqueViolation, DeadlockVictim, MarkMissing, Commit, CommitAnswerLost,
     SaveFailedRun, FailedRunLost, StatementFails, Crash, GiveUp

\* The rows behind the records saved so far are held: no other execution and
\* no indexer changes them.
LEMMA SavedRowsHeld ==
  ASSUME TypeInv, ModeInv, NEW r \in Run, pc[r] \in Counting,
         \/ \E q \in Run : q # r /\ (Progress(q) \/ Fault(q))
         \/ \E i \in RecordId : Index(i)
         \/ UNCHANGED vars
  PROVE  \A u \in SavedSoFar(r) : rows'[target[r][u]] = rows[target[r][u]]
<1>t. TypeOK
  BY DEF TypeInv
<1>1. \A u \in SavedSoFar(r) : u \in Url /\ target[r][u] \in RecordId
  BY <1>t DEF SavedSoFar, Listed, TypeOK
<1>2. CASE UNCHANGED vars
  BY <1>2 DEF vars, database
<1>3. CASE Complete /\ pc[r] \in {"lock", "plan"}
  BY <1>3 DEF ModeInv, PlanInv, SavedSoFar
<1>4. CASE Complete /\ pc[r] \in Planned
  <2>1. \A i \in Present(rows) : rowLock[i] = r
    BY <1>4 DEF ModeInv, PlanInv, PlanCurrent
  <2>2. ASSUME NEW i \in RecordId, Index(i) PROVE FALSE
    BY <2>1, <2>2, NoneAssumption DEF Index, Present
  <2>3. ASSUME NEW q \in Run, q # r, Progress(q) \/ Fault(q) PROVE rows' = rows
    BY <1>4, <2>3, OthersWait DEF ModeInv
  <2> QED BY <1>2, <2>2, <2>3
<1>5. CASE ~Complete
  <2>1. BatchOf(r) /\ BatchInv
    BY <1>5 DEF ModeInv, BatchInv
  <2>2. ASSUME NEW u \in SavedSoFar(r)
        PROVE  target[r][u] = IdOf[u] /\ rowLock[target[r][u]] = r
    BY <1>1, <2>1 DEF BatchOf, Counting
  <2>3. ASSUME NEW i \in RecordId, Index(i), NEW u \in SavedSoFar(r)
        PROVE  rows'[target[r][u]] = rows[target[r][u]]
    BY <1>1, <1>t, <2>2, <2>3, NoneAssumption DEF Index, TypeOK, Table
  <2>4. ASSUME NEW q \in Run, q # r, Progress(q) \/ Fault(q), NEW u \in SavedSoFar(r)
        PROVE  rows'[target[r][u]] = rows[target[r][u]]
    BY <1>1, <1>5, <2>1, <2>2, <2>4, OthersRespectLocks
  <2> QED BY <1>2, <2>3, <2>4
<1> QED BY <1>3, <1>4, <1>5 DEF Counting

\* Then the counters keep their meaning.
LEMMA CountsKept ==
  ASSUME NEW r \in Run, CountsOf(r),
         pc'[r] = pc[r], obs'[r] = obs[r], target'[r] = target[r], todo'[r] = todo[r],
         cur'[r] = cur[r], gone'[r] = gone[r], mem'[r] = mem[r],
         pc[r] \in Counting =>
           \A u \in SavedSoFar(r) : rows'[target[r][u]] = rows[target[r][u]]
  PROVE  CountsOf(r)'
<1>1. SavedSoFar(r)' = SavedSoFar(r) /\ Listed(obs[r])' = Listed(obs[r])
  BY DEF SavedSoFar, Listed
<1>2. ASSUME pc[r] \in Counting
      PROVE  \A action : SavedAs(r, action)' = SavedAs(r, action)
  BY <1>1, <1>2 DEF SavedAs
<1> QED BY <1>1, <1>2 DEF CountsOf

\* What is known when a record is written: the row that its SELECT returned is
\* still the table's.
LEMMA WrittenRow ==
  ASSUME TypeInv, ModeInv, NEW r \in Run, WriteRecord(r)
  PROVE  /\ found[r] = rows[target[r][cur[r]]]
         /\ SavedSoFar(r)' = SavedSoFar(r) \cup {cur[r]}
         /\ cur[r] \notin SavedSoFar(r)
<1>1. pc[r] = "write" /\ pc[r] \in Planned
  BY DEF WriteRecord, Goto, Planned
<1>2. cur[r] \notin todo[r] /\ found[r] = rows[target[r][cur[r]]]
  <2>1. CASE Complete
    BY <1>1, <2>1 DEF ModeInv, PlanInv, InProgress
  <2>2. CASE ~Complete
    BY <1>1, <2>2 DEF ModeInv, BatchInv, BatchOf, WriteRecord
  <2> QED BY <2>1, <2>2
<1>3. SavedSoFar(r)' = Listed(obs[r]) \ todo[r]
  BY <1>1 DEF WriteRecord, Goto, batch, SavedSoFar, Listed, TypeInv, TypeOK
<1> QED BY <1>1, <1>2, <1>3, WriteRecordFacts DEF SavedSoFar

\* save_record counts the record it has just written under what it did.
LEMMA WriteCounts ==
  ASSUME TypeInv, ModeInv, NEW r \in Run, CountsOf(r), WriteRecord(r)
  PROVE  CountsOf(r)'
<1>t. TypeOK
  BY DEF TypeInv
<1>3. PICK done \in {"NEW", "CHANGED", "UNCHANGED"} :
             done = Action(rows[target[r][cur[r]]], obs[r][cur[r]])
  BY DEF Action
<1>1. /\ pc[r] \in Counting /\ pc'[r] \in {"select", "finish"}
      /\ mem'[r] = Counted(mem[r], done)
      /\ rows' = rows /\ target' = target /\ obs' = obs /\ gone' = gone
  BY <1>t, <1>3, WrittenRow DEF WriteRecord, Goto, batch, TypeOK, Counting, Planned
<1>2. /\ SavedSoFar(r)' = SavedSoFar(r) \cup {cur[r]}
      /\ cur[r] \notin SavedSoFar(r)
  BY WrittenRow
<1>4. SavedAs(r, done)' = SavedAs(r, done) \cup {cur[r]}
  BY <1>1, <1>2, <1>3 DEF SavedAs
<1>5. \A action : action # done => SavedAs(r, action)' = SavedAs(r, action)
  BY <1>1, <1>2, <1>3 DEF SavedAs
<1>6. \A action : IsFiniteSet(SavedAs(r, action)) /\ cur[r] \notin SavedAs(r, action)
  <2>1. \A action : SavedAs(r, action) \in SUBSET Url
    BY DEF SavedAs, SavedSoFar, Listed
  <2> QED BY <1>2, <2>1, FiniteUrlAssumption, FS_Subset DEF SavedAs
<1>7. Cardinality(SavedAs(r, done)') = Cardinality(SavedAs(r, done)) + 1
  BY <1>4, <1>6, FS_AddElement
<1>8. mem[r] \in IngestionRun
  BY <1>t DEF TypeOK
<1>9. /\ mem'[r].seen = mem[r].seen /\ mem'[r].missing = mem[r].missing
      /\ mem'[r].added = mem[r].added + (IF done = "NEW" THEN 1 ELSE 0)
      /\ mem'[r].changed = mem[r].changed + (IF done = "CHANGED" THEN 1 ELSE 0)
      /\ mem'[r].unchanged = mem[r].unchanged + (IF done = "UNCHANGED" THEN 1 ELSE 0)
  BY <1>1, <1>3, <1>8 DEF Counted, IngestionRun
<1>10. /\ mem'[r].added = Cardinality(SavedAs(r, "NEW")')
       /\ mem'[r].changed = Cardinality(SavedAs(r, "CHANGED")')
       /\ mem'[r].unchanged = Cardinality(SavedAs(r, "UNCHANGED")')
  <2>1. /\ mem[r].added \in Nat /\ mem[r].changed \in Nat /\ mem[r].unchanged \in Nat
    BY <1>8 DEF IngestionRun
  <2>2. /\ mem[r].added = Cardinality(SavedAs(r, "NEW"))
        /\ mem[r].changed = Cardinality(SavedAs(r, "CHANGED"))
        /\ mem[r].unchanged = Cardinality(SavedAs(r, "UNCHANGED"))
    BY <1>1 DEF CountsOf
  <2>3. CASE done = "NEW"
    BY <1>5, <1>7, <1>9, <2>1, <2>2, <2>3
  <2>4. CASE done = "CHANGED"
    BY <1>5, <1>7, <1>9, <2>1, <2>2, <2>4
  <2>5. CASE done = "UNCHANGED"
    BY <1>5, <1>7, <1>9, <2>1, <2>2, <2>5
  <2> QED BY <1>3, <2>3, <2>4, <2>5
<1>11. Listed(obs[r])' = Listed(obs[r])
  BY <1>1 DEF Listed
<1> QED BY <1>1, <1>9, <1>10, <1>11 DEF CountsOf

LEMMA OwnCounts ==
  ASSUME TypeInv, ModeInv, NEW r \in Run, CountsOf(r), Progress(r) \/ Fault(r)
  PROVE  CountsOf(r)'
<1>t. TypeOK
  BY DEF TypeInv
<1> USE DEF Goto
<1>1. CASE SaveRunning(r) \/ Collected(r)
  BY <1>t, <1>1 DEF SaveRunning, Collected, Ending, CountsOf, Counting, Planned, TypeOK,
     IngestionRun, batch
<1>2. CASE OpenBatch(r)
  <2>1. /\ pc'[r] \in {"lock", "select"} /\ todo'[r] = Listed(obs[r]) /\ obs' = obs
        /\ gone' = gone /\ gone[r] = {}
        /\ mem'[r].seen = Cardinality(Listed(obs[r]))
        /\ mem'[r].added = 0 /\ mem'[r].changed = 0
        /\ mem'[r].unchanged = 0 /\ mem'[r].missing = 0
    BY <1>t, <1>2 DEF OpenBatch, FirstStep, CountsOf, TypeOK, IngestionRun
  <2>2. SavedSoFar(r)' = {} /\ Listed(obs[r])' = Listed(obs[r])
    BY <2>1 DEF SavedSoFar, Listed
  <2>3. \A action : SavedAs(r, action)' = {}
    BY <2>2 DEF SavedAs
  <2> QED BY <2>1, <2>2, <2>3, FS_EmptySet DEF CountsOf
<1>3. CASE AcquireAdvisory(r)
  <2>1. /\ pc[r] = "lock" /\ pc'[r] = "plan" /\ mem' = mem /\ gone' = gone
        /\ rows' = rows /\ obs' = obs /\ todo' = todo /\ target' = target
    BY <1>t, <1>3 DEF AcquireAdvisory, TypeOK, batch
  <2>2. SavedSoFar(r)' = SavedSoFar(r) /\ Listed(obs[r])' = Listed(obs[r])
    BY <2>1 DEF SavedSoFar, Listed
  <2>3. \A action : SavedAs(r, action)' = SavedAs(r, action)
    BY <2>1, <2>2 DEF SavedAs
  <2> QED BY <2>1, <2>2, <2>3 DEF CountsOf, Counting, Planned
<1>4. CASE PlanSnapshot(r)
  <2>1. Complete
    BY <1>4 DEF PlanSnapshot, ModeInv, BatchInv, BatchOf
  <2>2. /\ pc[r] = "plan" /\ pc'[r] = "select" /\ obs' = obs /\ todo' = todo
        /\ todo[r] = Listed(obs[r])
        /\ mem'[r].missing = Cardinality(gone'[r])
        /\ mem'[r].seen = mem[r].seen /\ mem'[r].added = mem[r].added
        /\ mem'[r].changed = mem[r].changed /\ mem'[r].unchanged = mem[r].unchanged
    BY <1>t, <1>4, <2>1 DEF PlanSnapshot, ModeInv, PlanInv, TypeOK, IngestionRun
  <2>3. /\ SavedSoFar(r) = {} /\ SavedSoFar(r)' = {}
        /\ Listed(obs[r])' = Listed(obs[r])
    BY <2>2 DEF SavedSoFar, Listed
  <2>4. \A action : SavedAs(r, action) = {} /\ SavedAs(r, action)' = {}
    BY <2>3 DEF SavedAs
  <2> QED BY <2>2, <2>3, <2>4 DEF CountsOf, Counting
<1>5. CASE \E u \in Url : SelectRecord(r, u)
  <2>1. PICK u \in Url : SelectRecord(r, u)
    BY <1>5
  <2>2. /\ pc[r] = "select" /\ pc'[r] = "write" /\ mem' = mem /\ gone' = gone
        /\ rows' = rows /\ obs' = obs /\ target' = target
        /\ todo'[r] = todo[r] \ {u} /\ cur'[r] = u /\ u \in todo[r]
    BY <1>t, <2>1 DEF SelectRecord, TypeOK
  <2>3. SavedSoFar(r)' = SavedSoFar(r) /\ Listed(obs[r])' = Listed(obs[r])
    BY <2>2 DEF SavedSoFar, Listed
  <2>4. \A action : SavedAs(r, action)' = SavedAs(r, action)
    BY <2>2, <2>3 DEF SavedAs
  <2> QED BY <2>2, <2>3, <2>4 DEF CountsOf, Counting, Planned
<1>6. CASE WriteRecord(r)
  BY <1>6, WriteCounts
<1>7. CASE MarkMissing(r)
  <2>1. /\ pc[r] = "finish" /\ pc'[r] = "commit" /\ mem' = mem /\ gone' = gone
        /\ rows' = rows /\ obs' = obs /\ todo' = todo /\ target' = target
    BY <1>t, <1>7 DEF MarkMissing, TypeOK, batch
  <2>2. SavedSoFar(r)' = SavedSoFar(r) /\ Listed(obs[r])' = Listed(obs[r])
    BY <2>1 DEF SavedSoFar, Listed
  <2>3. \A action : SavedAs(r, action)' = SavedAs(r, action)
    BY <2>1, <2>2 DEF SavedAs
  <2> QED BY <2>1, <2>2, <2>3 DEF CountsOf, Counting, Planned
<1>8. CASE pc'[r] \in {"reporting", "done", "crashed"}
  BY <1>8 DEF CountsOf, Counting, Planned
<1>9. CASE \/ RunningRefused(r) \/ CollectionFails(r) \/ PlanRefused(r) \/ UniqueViolation(r)
           \/ DeadlockVictim(r) \/ StatementFails(r) \/ Commit(r) \/ CommitAnswerLost(r)
           \/ SaveFailedRun(r) \/ FailedRunLost(r) \/ Crash(r)
  BY <1>t, <1>8, <1>9 DEF RunningRefused, CollectionFails, PlanRefused, UniqueViolation,
     DeadlockVictim, StatementFails, Commit, CommitAnswerLost, SaveFailedRun, FailedRunLost,
     Crash, GiveUp, TypeOK
<1> QED BY <1>1, <1>2, <1>3, <1>4, <1>5, <1>6, <1>7, <1>9 DEF Progress, Fault

LEMMA CountsStep ==
  ASSUME TypeInv, ModeInv, CountsInv, [Next]_vars
  PROVE  CountsInv'
<1> SUFFICES ASSUME NEW r \in Run PROVE CountsOf(r)'
  BY DEF CountsInv
<1>0. CountsOf(r)
  BY DEF CountsInv
<1>1. CASE UNCHANGED vars
  BY <1>0, <1>1, SavedRowsHeld, CountsKept DEF vars, batch
<1>2. ASSUME NEW q \in Run, Progress(q) \/ Fault(q) PROVE CountsOf(r)'
  <2>1. CASE q = r
    BY <1>0, <1>2, <2>1, OwnCounts
  <2>2. CASE q # r
    <3>1. /\ pc'[r] = pc[r] /\ obs'[r] = obs[r] /\ target'[r] = target[r]
          /\ todo'[r] = todo[r] /\ cur'[r] = cur[r] /\ gone'[r] = gone[r]
      BY <1>2, <2>2, OthersLocals
    <3>2. mem'[r] = mem[r]
      BY <1>2, <2>2, OthersMem
    <3>3. pc[r] \in Counting =>
            \A u \in SavedSoFar(r) : rows'[target[r][u]] = rows[target[r][u]]
      BY <1>2, <2>2, SavedRowsHeld
    <3> QED BY <1>0, <3>1, <3>2, <3>3, CountsKept
  <2> QED BY <2>1, <2>2
<1>3. ASSUME NEW i \in RecordId, Index(i) PROVE CountsOf(r)'
  <2>1. pc[r] \in Counting =>
          \A u \in SavedSoFar(r) : rows'[target[r][u]] = rows[target[r][u]]
    BY <1>3, SavedRowsHeld
  <2> QED BY <1>0, <1>3, <2>1, CountsKept DEF Index, batch
<1> QED BY <1>1, <1>2, <1>3 DEF Next

(***************************************************************************)
(* What a commit changes, counted.                                         *)
(***************************************************************************)

\* A one-to-one mapping of URLs to ids keeps the number of them.
LEMMA ImageSize ==
  ASSUME NEW S \in SUBSET Url, NEW f \in [Url -> RecordId],
         \A u, w \in S : f[u] = f[w] => u = w
  PROVE  Cardinality({f[u] : u \in S}) = Cardinality(S)
<1> DEFINE T == {f[u] : u \in S}
           g == [u \in S |-> f[u]]
<1>1. IsFiniteSet(S)
  BY FiniteUrlAssumption, FS_Subset
<1>2. g \in Bijection(S, T)
  BY DEF Bijection, Injection, IsInjective, Surjection
<1>3. ExistsBijection(S, T)
  BY <1>2 DEF ExistsBijection
<1> QED BY <1>1, <1>3, FS_Bijection

\* The differences that AuditMatchesEffect counts.
Old == Present(rows)
Now == {i \in RecordId : rows'[i] # NoRow}
SeenBy(r) == {i \in Now : rows'[i].seen = r}

TargetsAs(r, action) ==
  {target[r][u] : u \in {w \in Listed(obs[r]) :
                            Action(rows[target[r][w]], obs[r][w]) = action}}

\* Each row after the commit, by what happened to it.
LEMMA CommitOfRow ==
  ASSUME TypeInv, NEW r \in Run, RowsCommitted(r), NEW i \in RecordId,
         rows[i] # NoRow => rows[i].seen # r
  PROVE  \/ /\ \E u \in Listed(obs[r]) : target[r][u] = i
            /\ rows'[i] # NoRow /\ rows'[i].seen = r /\ rows'[i].status # "MISSING"
            /\ i \notin gone[r]
            /\ \A u \in Listed(obs[r]) : target[r][u] = i => rows'[i].content = obs[r][u]
         \/ /\ i \in gone[r] /\ \A u \in Listed(obs[r]) : target[r][u] # i
            /\ rows[i] # NoRow /\ rows[i].status # "MISSING"
            /\ rows'[i] # NoRow /\ rows'[i].status = "MISSING"
            /\ rows'[i].content = rows[i].content /\ rows'[i].seen # r
         \/ /\ i \notin gone[r] /\ \A u \in Listed(obs[r]) : target[r][u] # i
            /\ rows'[i] = rows[i]
<1>1. /\ CommittedRows(r) /\ rows'[i] = Visible(r, i)
      /\ rows[i] \in CommonRecord \cup {NoRow}
  BY DEF RowsCommitted, TypeInv, TypeOK, Table
<1>2. ASSUME NEW u \in Listed(obs[r]), target[r][u] = i
      PROVE  /\ rows'[i] # NoRow /\ rows'[i].seen = r /\ rows'[i].status # "MISSING"
             /\ rows'[i].content = obs[r][u] /\ i \notin gone[r]
  <2>1. u \in Url /\ obs[r][u] \in Content
    BY DEF TypeInv, TypeOK, Listed, Listing
  <2>2. rows'[i] = Saved(rows[i], u, obs[r][u], r) /\ i \notin gone[r]
    BY <1>1, <1>2 DEF CommittedRows
  <2> QED BY <1>1, <2>1, <2>2, SavedRow
<1>3. ASSUME i \in gone[r]
      PROVE  /\ \A u \in Listed(obs[r]) : target[r][u] # i
             /\ rows[i] # NoRow /\ rows[i].status # "MISSING"
             /\ rows'[i] # NoRow /\ rows'[i].status = "MISSING"
             /\ rows'[i].content = rows[i].content /\ rows'[i].seen # r
  <2>1. /\ \A u \in Listed(obs[r]) : target[r][u] # i
        /\ rows[i] # NoRow /\ rows[i].status # "MISSING"
        /\ rows'[i] = MarkedMissing(rows[i])
    BY <1>1, <1>3 DEF CommittedRows
  <2> QED BY <1>1, <2>1, MarkedMissingRow
<1>4. ASSUME i \notin gone[r], \A u \in Listed(obs[r]) : target[r][u] # i
      PROVE  rows'[i] = rows[i]
  BY <1>1, <1>4 DEF CommittedRows
<1>5. CASE \E u \in Listed(obs[r]) : target[r][u] = i
  BY <1>2, <1>5
<1>6. CASE \A u \in Listed(obs[r]) : target[r][u] # i
  BY <1>3, <1>4, <1>6
<1> QED BY <1>5, <1>6

\* So the sets of rows that were added, changed, seen and lost are the sets of
\* ids the counters are the sizes of.
LEMMA CommitSets ==
  ASSUME TypeInv, NEW r \in Run, RowsCommitted(r),
         \A i \in RecordId : r \notin Stamps(rows[i])
  PROVE  /\ SeenBy(r) = {target[r][u] : u \in Listed(obs[r])}
         /\ Now \ Old = TargetsAs(r, "NEW")
         /\ {i \in Old : rows'[i].content # rows[i].content} = TargetsAs(r, "CHANGED")
         /\ {i \in Old \cap SeenBy(r) : rows'[i].content = rows[i].content}
              = TargetsAs(r, "UNCHANGED")
         /\ {i \in Old : rows'[i].status = "MISSING" /\ rows[i].status # "MISSING"}
              = gone[r]
<1>1. ASSUME NEW i \in RecordId, rows[i] # NoRow PROVE rows[i].seen # r
  BY <1>1, NoneAssumption DEF Stamps
<1>2. ASSUME NEW u \in Listed(obs[r]) PROVE target[r][u] \in RecordId
  BY DEF TypeInv, TypeOK, Listed
<1>3. gone[r] \subseteq RecordId
  BY DEF TypeInv, TypeOK
<1> DEFINE Hit(i) == \E u \in Listed(obs[r]) : target[r][u] = i
<1>4. ASSUME NEW i \in RecordId
      PROVE  /\ i \in SeenBy(r) <=> Hit(i)
             /\ Hit(i) => i \in Now
             /\ i \in Now \ Old => Hit(i)
             /\ i \in Old => i \in Now
             /\ i \in Old /\ rows'[i].content # rows[i].content => Hit(i)
             /\ i \in Old => (rows'[i].status = "MISSING" /\ rows[i].status # "MISSING"
                              <=> i \in gone[r])
             /\ i \in gone[r] => i \in Old
             /\ \A u \in Listed(obs[r]) : target[r][u] = i => rows'[i].content = obs[r][u]
  BY <1>1, CommitOfRow DEF SeenBy, Now, Old, Present
<1>5. ASSUME NEW u \in Listed(obs[r])
      PROVE  LET i == target[r][u]
                 action == Action(rows[i], obs[r][u])
             IN  /\ action = "NEW" <=> i \notin Old
                 /\ action = "CHANGED" <=> i \in Old /\ rows[i].content # obs[r][u]
                 /\ action = "UNCHANGED" <=> i \in Old /\ rows[i].content = obs[r][u]
  BY <1>2 DEF Action, Old, Present
<1>6. SeenBy(r) = {target[r][u] : u \in Listed(obs[r])}
  BY <1>2, <1>4 DEF SeenBy, Now
<1>7. Now \ Old = TargetsAs(r, "NEW")
  BY <1>2, <1>4, <1>5 DEF TargetsAs, Now
<1>8. {i \in Old : rows'[i].content # rows[i].content} = TargetsAs(r, "CHANGED")
  BY <1>2, <1>4, <1>5 DEF TargetsAs, Old, Present
<1>9. {i \in Old \cap SeenBy(r) : rows'[i].content = rows[i].content}
        = TargetsAs(r, "UNCHANGED")
  BY <1>2, <1>4, <1>5 DEF TargetsAs, Old, Present
<1>10. {i \in Old : rows'[i].status = "MISSING" /\ rows[i].status # "MISSING"} = gone[r]
  BY <1>3, <1>4 DEF Old, Present
<1> QED BY <1>6, <1>7, <1>8, <1>9, <1>10

\* The counters that a committing execution holds are their sizes.
LEMMA CommitCounts ==
  ASSUME TypeInv, ModeInv, CountsInv, NEW r \in Run, RowsCommitted(r)
  PROVE  /\ mem[r].seen = Cardinality({target[r][u] : u \in Listed(obs[r])})
         /\ mem[r].added = Cardinality(TargetsAs(r, "NEW"))
         /\ mem[r].changed = Cardinality(TargetsAs(r, "CHANGED"))
         /\ mem[r].unchanged = Cardinality(TargetsAs(r, "UNCHANGED"))
         /\ mem[r].missing = Cardinality(gone[r])
<1>1. pc[r] = "commit" /\ pc[r] \in Counting /\ todo[r] = {}
  BY DEF RowsCommitted, Counting, Planned, ModeInv, PlanInv, InProgress, BatchInv, BatchOf
<1>2. SavedSoFar(r) = Listed(obs[r])
  BY <1>1 DEF SavedSoFar
<1>3. target[r] \in [Url -> RecordId] /\ Listed(obs[r]) \in SUBSET Url
  BY DEF TypeInv, TypeOK, Listed
<1>4. \A u, w \in Listed(obs[r]) : target[r][u] = target[r][w] => u = w
  BY DEF RowsCommitted, CommittedRows
<1>5. Cardinality({target[r][u] : u \in Listed(obs[r])}) = Cardinality(Listed(obs[r]))
  BY <1>3, <1>4, ImageSize
<1>6. ASSUME NEW action PROVE Cardinality(TargetsAs(r, action)) = Cardinality(SavedAs(r, action))
  <2>1. TargetsAs(r, action) = {target[r][u] : u \in SavedAs(r, action)}
    BY <1>2 DEF TargetsAs, SavedAs
  <2>2. SavedAs(r, action) \in SUBSET Url /\ SavedAs(r, action) \subseteq Listed(obs[r])
    BY <1>2, <1>3 DEF SavedAs
  <2>3. \A u, w \in SavedAs(r, action) : target[r][u] = target[r][w] => u = w
    BY <1>4, <2>2
  <2> QED BY <1>3, <2>1, <2>2, <2>3, ImageSize
<1> QED BY <1>1, <1>5, <1>6 DEF CountsInv, CountsOf

\* A SUCCESS row is written by a commit only.
LEMMA SuccessIsCommitted ==
  ASSUME TypeInv, OutcomeInv, ModeInv, [Next]_vars,
         NEW r \in Run, runs'[r] # runs[r], runs'[r].status = "SUCCESS"
  PROVE  RowsCommitted(r) /\ runs'[r] = mem[r]
<1>t. TypeOK
  BY DEF TypeInv
<1>1. PICK q \in Run : Progress(q) \/ Fault(q)
  BY DEF Next, Index, vars, database
<1>2. CASE Commit(q) \/ CommitAnswerLost(q)
  <2>1. q = r /\ runs' = [runs EXCEPT ![q] = mem[q]] /\ pc[q] = "commit"
        /\ rows' = [i \in RecordId |-> Visible(q, i)] /\ published' = q
    BY <1>t, <1>2 DEF Commit, CommitAnswerLost, Publish, Goto, TypeOK
  <2>2. CommittedRows(r)
    BY <2>1, SnapshotRows, BatchRows DEF ModeInv
  <2> QED BY <1>t, <2>1, <2>2 DEF RowsCommitted, TypeOK
<1>3. CASE SaveRunning(q) \/ RunningRefused(q) \/ SaveFailedRun(q)
  <2>1. runs' = runs \/ runs' = [runs EXCEPT ![q] = mem[q]]
    BY <1>3 DEF SaveRunning, RunningRefused, SaveFailedRun
  <2>2. q = r /\ runs'[r] = mem[r]
    BY <1>t, <2>1 DEF TypeOK
  <2>3. mem[q].status # "SUCCESS"
    BY <1>3 DEF SaveRunning, RunningRefused, SaveFailedRun, Goto, OutcomeInv
  <2> QED BY <2>2, <2>3
<1>4. CASE runs' = runs
  BY <1>4
<1> QED BY <1>1, <1>2, <1>3, <1>4
        DEF Progress, Fault, Collected, CollectionFails, OpenBatch, AcquireAdvisory,
            PlanSnapshot, PlanRefused, SelectRecord, WriteRecord, UniqueViolation,
            DeadlockVictim, MarkMissing, FailedRunLost, StatementFails, Crash, Rollback,
            database

LEMMA AuditStep ==
  ASSUME TypeInv, OutcomeInv, ModeInv, CountsInv, UnstampedInv, [Next]_vars,
         NEW r \in Run, runs'[r] # runs[r], runs'[r].status = "SUCCESS"
  PROVE  LET old == Present(rows)
             now == {i \in RecordId : rows'[i] # NoRow}
             seen == {i \in now : rows'[i].seen = r}
         IN /\ runs'[r].seen = Cardinality(seen)
            /\ runs'[r].added = Cardinality(now \ old)
            /\ runs'[r].changed =
                 Cardinality({i \in old : rows'[i].content # rows[i].content})
            /\ runs'[r].unchanged =
                 Cardinality({i \in old \cap seen : rows'[i].content = rows[i].content})
            /\ runs'[r].missing =
                 Cardinality({i \in old : /\ rows'[i].status = "MISSING"
                                         /\ rows[i].status # "MISSING"})
<1>1. RowsCommitted(r) /\ runs'[r] = mem[r]
  BY SuccessIsCommitted
<1>2. \A i \in RecordId : r \notin Stamps(rows[i])
  BY <1>1 DEF RowsCommitted, UnstampedInv, Unended, InBatch
<1> QED BY <1>1, <1>2, CommitSets, CommitCounts DEF Old, Now, SeenBy

\* In either mode, the counters of a committed SUCCESS row are the difference
\* between the table before and after the commit, whatever other executions and
\* the indexer did to the table since the records were counted.
THEOREM AuditsMatch == (Complete => CleanIdentity) => (Spec => AuditMatchesEffect)
<1> SUFFICES ASSUME Complete => CleanIdentity PROVE Spec => AuditMatchesEffect
  OBVIOUS
<1>1. Init => ModeInv
  BY ModeInit
<1>2. TypeInv /\ ModeInv /\ [Next]_vars => ModeInv'
  BY ModeStep
<1>3. TypeInv /\ ModeInv /\ CountsInv /\ [Next]_vars => CountsInv'
  BY CountsStep
<1>4. TypeInv /\ UnstampedInv /\ [Next]_vars => UnstampedInv'
  BY UnstampedStep
<1> DEFINE Matches ==
      \A r \in Run :
        runs'[r] # runs[r] /\ runs'[r].status = "SUCCESS" =>
          LET old == Present(rows)
              now == {i \in RecordId : rows'[i] # NoRow}
              seen == {i \in now : rows'[i].seen = r}
          IN /\ runs'[r].seen = Cardinality(seen)
             /\ runs'[r].added = Cardinality(now \ old)
             /\ runs'[r].changed =
                  Cardinality({i \in old : rows'[i].content # rows[i].content})
             /\ runs'[r].unchanged =
                  Cardinality({i \in old \cap seen : rows'[i].content = rows[i].content})
             /\ runs'[r].missing =
                  Cardinality({i \in old : /\ rows'[i].status = "MISSING"
                                          /\ rows[i].status # "MISSING"})
<1>5. TypeInv /\ OutcomeInv /\ ModeInv /\ CountsInv /\ UnstampedInv /\ [Next]_vars
        => [Matches]_vars
  BY AuditStep
<1> QED BY <1>1, <1>2, <1>3, <1>4, <1>5, TypeInit, TypeStep, OutcomeInit, OutcomeStep,
           CountsInit, UnstampedInit, PTL DEF Spec, AuditMatchesEffect

(***************************************************************************)
(* Committing again what is published.                                     *)
(***************************************************************************)

\* While the table holds exactly what an execution observed, its plan maps each
\* listed URL to the row that already has that content, and marks nothing.
LEMMA NothingToDo ==
  ASSUME Complete, CleanIdentity, TypeInv, ModeInv, NEW r \in Run, pc[r] = "commit",
         Active(rows) = AsPairs(obs[r])
  PROVE  /\ \A u \in Listed(obs[r]) : /\ target[r][u] \in RecordId
                                      /\ rows[target[r][u]] # NoRow
                                      /\ rows[target[r][u]].content = obs[r][u]
         /\ gone[r] = {}
<1>1. PlanCurrent(r) /\ rows \in Table
  BY DEF ModeInv, PlanInv, Planned, TypeInv, TypeOK
<1>2. ASSUME NEW u \in Url, NEW i \in RecordId, rows[i] # NoRow, rows[i].url = u
      PROVE  target[r][u] = i
  <2>1. i \in Present(rows)
    BY <1>2 DEF Present
  <2>2. Reconciled(rows, u) \in Present(rows) /\ rows[Reconciled(rows, u)].url = u
    BY <1>2, <2>1 DEF Reconciled
  <2>3. Reconciled(rows, u) = i
    BY <1>1, <1>2, <2>1, <2>2 DEF PlanCurrent, UniqueUrls
  <2> QED BY <1>1, <2>3 DEF PlanCurrent
<1>3. ASSUME NEW u \in Listed(obs[r])
      PROVE  /\ target[r][u] \in RecordId
             /\ rows[target[r][u]] # NoRow
             /\ rows[target[r][u]].content = obs[r][u]
  <2>1. <<u, obs[r][u]>> \in Active(rows)
    BY DEF AsPairs
  <2>2. PICK i \in Present(rows) : <<rows[i].url, rows[i].content>> = <<u, obs[r][u]>>
    BY <2>1 DEF Active
  <2>3. i \in RecordId /\ rows[i] # NoRow /\ u \in Url
    BY DEF Present, Listed
  <2> QED BY <1>2, <2>2, <2>3
<1>4. ASSUME NEW i \in gone[r] PROVE FALSE
  <2>1. /\ i \in Present(rows) /\ rows[i].status # "MISSING"
        /\ \A u \in Listed(obs[r]) : Reconciled(rows, u) # i
    BY <1>1 DEF PlanCurrent, Unobserved
  <2>2. <<rows[i].url, rows[i].content>> \in AsPairs(obs[r])
    BY <2>1 DEF Active
  <2>3. rows[i].url \in Listed(obs[r])
    BY <2>2 DEF AsPairs
  <2>4. target[r][rows[i].url] = i
    BY <1>2, <2>1, <2>3 DEF Present, Listed
  <2> QED BY <1>1, <2>1, <2>3, <2>4 DEF PlanCurrent, Listed
<1> QED BY <1>3, <1>4

LEMMA RerunStep ==
  ASSUME Complete, CleanIdentity, TypeInv, OutcomeInv, ModeInv, CountsInv, ExactInv,
         [Next]_vars, NEW r \in Run, published # None, published' = r, published # r,
         obs[r] = obs[published]
  PROVE  /\ runs'[r].unchanged = runs'[r].seen
         /\ runs'[r].missing = 0
         /\ \A i \in RecordId :
              IF rows[i] = NoRow THEN rows'[i] = NoRow
              ELSE \A f \in {"content", "index", "embedding"} :
                     rows'[i][f] = rows[i][f]
<1>1. RowsCommitted(r)
  BY RowsStep DEF RowsCommitted, RowIndexed
<1>2. pc[r] = "commit" /\ CommittedRows(r) /\ runs'[r] = mem[r]
  BY <1>1 DEF RowsCommitted, TypeInv, TypeOK
<1>3. Active(rows) = AsPairs(obs[r])
  BY DEF ExactInv, AsPairs
<1>4. /\ \A u \in Listed(obs[r]) : /\ target[r][u] \in RecordId
                                   /\ rows[target[r][u]] # NoRow
                                   /\ rows[target[r][u]].content = obs[r][u]
      /\ gone[r] = {}
  BY <1>2, <1>3, NothingToDo
<1>5. TargetsAs(r, "UNCHANGED") = {target[r][u] : u \in Listed(obs[r])}
  BY <1>4 DEF TargetsAs, Action
<1>6. mem[r].unchanged = mem[r].seen /\ mem[r].missing = 0
  <2>1. /\ mem[r].seen = Cardinality({target[r][u] : u \in Listed(obs[r])})
        /\ mem[r].unchanged = Cardinality(TargetsAs(r, "UNCHANGED"))
        /\ mem[r].missing = Cardinality(gone[r])
    BY <1>1, CommitCounts
  <2>2. mem[r].unchanged = mem[r].seen
    BY <1>5, <2>1
  <2>3. mem[r].missing = 0
    BY <1>4, <2>1, FS_EmptySet
  <2> QED BY <2>2, <2>3
<1>7. ASSUME NEW i \in RecordId
      PROVE  IF rows[i] = NoRow THEN rows'[i] = NoRow
             ELSE \A f \in {"content", "index", "embedding"} : rows'[i][f] = rows[i][f]
  <2>1. rows'[i] = Visible(r, i) /\ rows[i] \in CommonRecord \cup {NoRow}
    BY <1>1 DEF RowsCommitted, TypeInv, TypeOK, Table
  <2>2. CASE \A u \in Listed(obs[r]) : target[r][u] # i
    BY <1>2, <1>4, <2>1, <2>2 DEF CommittedRows
  <2>3. CASE \E u \in Listed(obs[r]) : target[r][u] = i
    <3>1. PICK u \in Listed(obs[r]) : target[r][u] = i
      BY <2>3
    <3>2. u \in Url /\ obs[r][u] \in Content
      BY DEF TypeInv, TypeOK, Listed, Listing
    <3>3. rows'[i] = Saved(rows[i], u, obs[r][u], r)
      BY <1>2, <2>1, <3>1 DEF CommittedRows
    <3> QED BY <1>4, <2>1, <3>1, <3>2, <3>3, SavedRow
  <2> QED BY <2>2, <2>3
<1> QED BY <1>2, <1>6, <1>7

\* What ExactInv says stays true, a step at a time.
LEMMA ExactKept ==
  ASSUME Complete, CleanIdentity, TypeInv, PlanInv, ExactInv, [Next]_vars
  PROVE  ExactInv'
<1>1. CASE UNCHANGED published /\ Active(rows') = Active(rows)
  <2>1. published # None => published \in Run
    BY DEF TypeInv, TypeOK
  <2>2. published # None => obs'[published] = obs[published]
    BY <2>1, PublishedObs
  <2> QED BY <1>1, <2>2 DEF ExactInv, AsPairs, Listed
<1>2. CASE \E r \in Run : /\ published' = r
                         /\ Active(rows') = AsPairs(obs[r])
                         /\ obs' = obs
  BY <1>2 DEF ExactInv, AsPairs, Listed
<1> QED BY <1>1, <1>2, ExactStep

\* A retry of an execution whose batch is already published reports UNCHANGED
\* for every record it saw, marks nothing, and leaves every column that a
\* reader or the indexer looks at as it was.
THEOREM RerunsAreIdempotent ==
  CleanIdentity => (Spec => RerunIdempotent)
<1> SUFFICES ASSUME CleanIdentity PROVE Spec => RerunIdempotent
  OBVIOUS
<1>1. Init => ModeInv /\ ExactInv
  BY ModeInit DEF Init, ExactInv
<1>2. TypeInv /\ ModeInv /\ [Next]_vars => ModeInv'
  BY ModeStep
<1>3. TypeInv /\ ModeInv /\ CountsInv /\ [Next]_vars => CountsInv'
  BY CountsStep
<1>4. TypeInv /\ ModeInv /\ (Complete => ExactInv) /\ [Next]_vars => (Complete => ExactInv')
  BY ExactKept DEF ModeInv
<1> DEFINE Exact == Complete => ExactInv
           Idempotent ==
      \A r \in Run :
        /\ Complete /\ published # None
        /\ published' = r /\ published # r
        /\ obs[r] = obs[published]
        => /\ runs'[r].unchanged = runs'[r].seen
           /\ runs'[r].missing = 0
           /\ \A i \in RecordId :
                IF rows[i] = NoRow THEN rows'[i] = NoRow
                ELSE \A f \in {"content", "index", "embedding"} :
                       rows'[i][f] = rows[i][f]
<1>5. Init => Exact
  BY <1>1
<1>6. TypeInv /\ ModeInv /\ Exact /\ [Next]_vars => Exact'
  BY <1>4
<1>7. TypeInv /\ OutcomeInv /\ ModeInv /\ CountsInv /\ Exact /\ [Next]_vars
        => [Idempotent]_vars
  BY RerunStep
<1> HIDE DEF Exact
<1> QED BY <1>1, <1>2, <1>3, <1>5, <1>6, <1>7, TypeInit, TypeStep, OutcomeInit, OutcomeStep,
           CountsInit, PTL DEF Spec, RerunIdempotent
==============================================================================

----------------------------- MODULE SupportListing -----------------------------
(***************************************************************************)
(* The support collector (sources/support): one registry page that must    *)
(* show exactly the frozen number of service categories, then one batch of *)
(* the first max_details of them.  Unlike the residences, the registry     *)
(* advertises no total.                                                    *)
(***************************************************************************)
EXTENDS Collection

\* run_listing; a refused RUNNING row is not tried again.
Start == SaveRunning("first") \/ RunningRefused("returned")

Categories == Filtered(site, Approved)

FetchRegistry ==
  /\ pc = "first"
  /\ Answers
  /\ pc' = "judging"
  /\ cards' = Len(Categories)
  /\ found' = IF cards' <= Limit THEN Categories ELSE SubSeq(Categories, 1, Limit)
  /\ requests' = 1
  /\ UNCHANGED <<config, run, audit, exit, stored, page, advertised, shown, details,
                 fetching, world, earlier, faulty>>

RegistryFails ==
  /\ pc = "first"
  /\ Fail("FAILED")
  /\ UNCHANGED <<config, audit, exit, stored, work, earlier, faulty>>

FrozenRegistry == cards = Frozen[config.source]

Verdict ==
  IF cards = 0 THEN "SUSPICIOUS_ZERO" ELSE IF ~FrozenRegistry THEN "FAILED" ELSE "RUNNING"

Judge ==
  /\ pc = "judging"
  /\ IF Verdict = "RUNNING"
     THEN pc' = "building" /\ UNCHANGED run
     ELSE Fail(Verdict)
  /\ UNCHANGED <<config, audit, exit, stored, work, earlier, faulty>>

ReadDetail ==
  /\ pc = "building"
  /\ Len(built) < Len(found)
  /\ built' = Append(built, "detail")
  /\ requests' = requests + 1
  /\ UNCHANGED <<config, pc, run, audit, exit, stored, traversal, eligible, fetching,
                 world, earlier, faulty>>

\* Any exception, a record of another category, or two of the same.
DetailFails ==
  /\ pc = "building"
  /\ Fail("FAILED")
  /\ UNCHANGED <<config, audit, exit, stored, work, earlier, faulty>>

Commit ==
  /\ pc = "building"
  /\ Len(built) = Len(found)
  /\ pc' = "committing"
  /\ UNCHANGED <<config, run, audit, exit, stored, work, earlier, faulty>>

Raises == pc = "first"

Extend == Persist(FALSE)

Next ==
  \/ Start
  \/ FetchRegistry \/ RegistryFails
  \/ Judge
  \/ ReadDetail \/ DetailFails
  \/ Commit \/ Extend \/ PersistFails
=================================================================================

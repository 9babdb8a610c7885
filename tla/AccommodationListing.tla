-------------------------- MODULE AccommodationListing --------------------------
(***************************************************************************)
(* The accommodation collector (sources/accommodation): one registry page  *)
(* that must show exactly the frozen number of residences, then one batch  *)
(* of the first max_details of them, all read or none.                     *)
(***************************************************************************)
EXTENDS Collection

\* run_listing; a refused RUNNING row is not tried again.
Start == SaveRunning("first") \/ RunningRefused("returned")

Residences == Filtered(site, Approved)

\* discover: the cards of residences, repeated ones once, those beyond
\* max_details counted but not read.
FetchRegistry ==
  /\ pc = "first"
  /\ Answers
  /\ pc' = "judging"
  /\ advertised' \in {Len(site), None}     \* None: no "n results found"
  /\ cards' = Len(Residences)
  /\ found' = IF cards' <= Limit THEN Residences ELSE SubSeq(Residences, 1, Limit)
  /\ requests' = 1
  /\ UNCHANGED <<config, run, audit, exit, stored, page, shown, details, fetching,
                 world, earlier, faulty>>

RegistryFails ==
  /\ pc = "first"
  /\ Fail("FAILED")
  /\ UNCHANGED <<config, audit, exit, stored, work, earlier, faulty>>

FrozenUniverse ==
  /\ advertised # None /\ cards = advertised
  /\ cards = Frozen[config.source]

Verdict ==
  IF cards = 0 THEN "SUSPICIOUS_ZERO" ELSE IF ~FrozenUniverse THEN "FAILED" ELSE "RUNNING"

Judge ==
  /\ pc = "judging"
  /\ IF Verdict = "RUNNING"
     THEN pc' = "building" /\ UNCHANGED run
     ELSE Fail(Verdict)
  /\ UNCHANGED <<config, audit, exit, stored, work, earlier, faulty>>

ReadDetail ==
  /\ pc = "building"
  /\ Len(built) < Len(found)
  /\ built' = Append(built, "detail")
  /\ requests' = requests + 1
  /\ UNCHANGED <<config, pc, run, audit, exit, stored, traversal, eligible, fetching,
                 world, earlier, faulty>>

\* Any exception, a record of another residence, or two of the same.
DetailFails ==
  /\ pc = "building"
  /\ Fail("FAILED")
  /\ UNCHANGED <<config, audit, exit, stored, work, earlier, faulty>>

\* Mutant: the residences read so far are kept when a detail fails.
CommitPart ==
  /\ pc = "building"
  /\ pc' = "committing"
  /\ UNCHANGED <<config, run, audit, exit, stored, work, earlier, faulty>>

Commit ==
  /\ pc = "building"
  /\ Len(built) = Len(found)
  /\ pc' = "committing"
  /\ UNCHANGED <<config, run, audit, exit, stored, work, earlier, faulty>>

Raises == pc = "first"

Extend == Persist(FALSE)

Next ==
  \/ Start
  \/ FetchRegistry \/ RegistryFails
  \/ Judge
  \/ ReadDetail \/ DetailFails
  \/ Commit \/ Extend \/ PersistFails
=================================================================================

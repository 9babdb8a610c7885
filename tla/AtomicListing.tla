---------------------------- MODULE AtomicListing ----------------------------
(***************************************************************************)
(* What complete-snapshot ingestion promises its readers, without a        *)
(* database: the records of a source that are not MISSING are replaced, in *)
(* one step, by exactly what one execution observed, and in the same step  *)
(* that execution's ingestion run becomes SUCCESS.  An execution with any  *)
(* other outcome leaves them alone, and a SUCCESS is never taken back.     *)
(* (docs/DAY_8_SCHEDULED_FRESHNESS.md, "Implemented safety boundary".)     *)
(***************************************************************************)
CONSTANTS Run, Url, Content, None

VARIABLES
  active,     \* the set of <<URL, content>> pairs readers see
  observed,   \* what each execution observed ({}: nothing complete yet)
  outcome     \* status of each ingestion run (None: no row)

vars == <<active, observed, outcome>>

Pairs == Url \X Content

\* A complete listing: nonempty, one content per URL.
CompleteListing(pairs) ==
  /\ pairs # {}
  /\ \A p, q \in pairs : p[1] = q[1] => p = q

Init ==
  /\ active \in SUBSET Pairs
  /\ observed = [r \in Run |-> {}]
  /\ outcome = [r \in Run |-> None]

Begin(r) ==
  /\ outcome[r] = None
  /\ outcome' = [outcome EXCEPT ![r] = "RUNNING"]
  /\ UNCHANGED <<active, observed>>

Observe(r) ==
  /\ outcome[r] = "RUNNING"
  /\ observed[r] = {}
  /\ \E pairs \in SUBSET Pairs :
       /\ CompleteListing(pairs)
       /\ observed' = [observed EXCEPT ![r] = pairs]
  /\ UNCHANGED <<active, outcome>>

\* An execution that will not publish drops what it observed.
Abandon(r) ==
  /\ outcome[r] = "RUNNING"
  /\ observed' = [observed EXCEPT ![r] = {}]
  /\ UNCHANGED <<active, outcome>>

Publish(r) ==
  /\ outcome[r] = "RUNNING"
  /\ observed[r] # {}
  /\ active' = observed[r]
  /\ outcome' = [outcome EXCEPT ![r] = "SUCCESS"]
  /\ UNCHANGED observed

Fail(r) ==
  /\ outcome[r] \in {None, "RUNNING"}
  /\ \E status \in {"FAILED", "SUSPICIOUS_ZERO"} :
       outcome' = [outcome EXCEPT ![r] = status]
  /\ UNCHANGED <<active, observed>>

Next ==
  \E r \in Run :
    Begin(r) \/ Observe(r) \/ Abandon(r) \/ Publish(r) \/ Fail(r)

Spec == Init /\ [][Next]_vars
=============================================================================

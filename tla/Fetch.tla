---------------------------------- MODULE Fetch ----------------------------------
(***************************************************************************)
(* HttpFetcher.fetch with a redirect check (common/fetcher.py), as the     *)
(* scholarships collector calls it for a detail: at most three attempts,   *)
(* each from the candidate's own address, each following redirects one by  *)
(* one after the collector has seen where they lead.                       *)
(***************************************************************************)
EXTENDS Collection

MaxAttempts == 3

outside == <<config, run, audit, exit, stored, traversal, details, world, earlier, faulty>>

\* _fetch: the interval has passed, the first request goes to the candidate.
Call ==
  /\ pc = "building"
  /\ Len(built) < Len(found)
  /\ pc' = "getting"
  /\ attempt' = 1 /\ hop' = 0 /\ target' = Candidate
  /\ requests' = requests + 1
  /\ UNCHANGED outside

Body ==
  /\ pc = "getting"
  /\ pc' = "parsing"
  /\ UNCHANGED <<outside, fetching, requests>>

\* Mutant: a retry goes on from where the last redirect led.
Resumed == target

FirstTarget == Candidate

\* A FetchError or RequestException: a new session after a pause, or the end.
TryAgain ==
  IF attempt < MaxAttempts
  THEN attempt' = attempt + 1 /\ hop' = 0 /\ target' = FirstTarget /\ UNCHANGED pc
  ELSE pc' = "failing" /\ UNCHANGED fetching

\* A timeout, an error status, an empty body, or a redirect to a page of this
\* host that is no detail (_validate_detail_redirect).
GetFails ==
  /\ pc = "getting"
  /\ TryAgain
  /\ UNCHANGED <<outside, requests>>

\* Mutant: redirects are followed for ever.
NoRedirectLimit(to) == target' = to /\ UNCHANGED <<pc, attempt, hop>>

\* before_redirect, then the next hop; TooManyRedirects when there is none.
Follow(to) ==
  IF hop = MaxRedirects THEN TryAgain
  ELSE hop' = hop + 1 /\ target' = to /\ UNCHANGED <<pc, attempt>>

\* A redirect to a detail is followed; one to another host ends the fetch.
GetRedirect ==
  /\ pc = "getting"
  /\ \/ \E to \in Approved : Follow(to)
     \/ External # {} /\ pc' = "external" /\ UNCHANGED fetching
  /\ UNCHANGED <<outside, requests>>
=================================================================================

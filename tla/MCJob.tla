---------------------------------- MODULE MCJob ----------------------------------
(***************************************************************************)
(* Small instances of Job: what is typed on the command line, and symmetry *)
(* between approved items.                                                 *)
(***************************************************************************)
EXTENDS Job, TLC

MCFrozen == [s \in {"accommodation", "support"} |-> 2]

Typed(source, p, d) ==
  [source |-> source, domain |-> DomainOf(source), year |-> None, code |-> None,
   courses |-> 1, programs |-> 1,
   pages |-> [s \in DOMAIN MaxOfPages |-> p],
   details |-> [s \in DOMAIN MaxOfDetails |-> d],
   window |-> 43, expected |-> None, timeout |-> 30, interval |-> 1,
   backend |-> "postgres", approved |-> {source}, endpoint |-> None,
   dry |-> FALSE, simulate |-> FALSE]

\* Three pages or one, one or two details; the events with and without a known
\* count.
CompleteInputs ==
  {Typed("jobs", 3, 1),
   Typed("events", 3, 1),
   [Typed("events", 1, 2) EXCEPT !.expected = 2]}

FailingDetail == {Typed("jobs", 2, 2)}

RubricTyped == [Typed("rubric", 3, 2) EXCEPT !.endpoint = "reviewed"]

CoursesTyped == [Typed("courses", 1, 1) EXCEPT !.year = "valid", !.approved = {}]

\* Every bounded source, dry and drilled executions, and command lines that
\* one of the gates refuses.
BoundedInputs ==
  {RubricTyped,
   [RubricTyped EXCEPT !.expected = 2, !.pages["rubric"] = 1],
   [RubricTyped EXCEPT !.simulate = TRUE],
   [RubricTyped EXCEPT !.endpoint = "other"],
   [RubricTyped EXCEPT !.endpoint = None],
   [RubricTyped EXCEPT !.approved = {"events"}],
   Typed("scholarships", 1, 2),
   Typed("scholarships", 2, 2),
   [Typed("scholarships", 2, 2) EXCEPT !.simulate = TRUE],
   [Typed("scholarships", 2, 2) EXCEPT !.pages["jobs"] = 101],
   Typed("accommodation", 1, 1),
   [Typed("accommodation", 1, 2) EXCEPT !.approved = {"support"}],
   [Typed("accommodation", 1, 2) EXCEPT !.dry = TRUE],
   Typed("support", 1, 2),
   [Typed("support", 1, 2) EXCEPT !.domain = "courses"],
   [Typed("support", 1, 7) EXCEPT !.backend = "local"],
   CoursesTyped,
   [CoursesTyped EXCEPT !.code = "valid"],
   [CoursesTyped EXCEPT !.year = "unclear"],
   [CoursesTyped EXCEPT !.courses = 2, !.programs = 3],
   [Typed("jobs", 1, 1) EXCEPT !.code = "valid"]}

RubricDrill == {[RubricTyped EXCEPT !.simulate = TRUE]}

AnyBefore == SUBSET Approved

Symmetry == Permutations(Approved)
=================================================================================

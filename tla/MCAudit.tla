--------------------------------- MODULE MCAudit ---------------------------------
(***************************************************************************)
(* A small catalogue and its companions: two feeds of programs that        *)
(* overlap, a feed of majors, and at most four details of one class.       *)
(***************************************************************************)
EXTENDS CoverageAudit

MCClass == {"program", "major", "scholarship", "job", "residence", "support_service", "event"}

MCClassOf ==
  [p1 |-> "program", p2 |-> "program", p3 |-> "program", m1 |-> "major",
   s1 |-> "scholarship", s2 |-> "scholarship", s3 |-> "scholarship", s4 |-> "scholarship",
   s5 |-> "scholarship",
   j1 |-> "job", r1 |-> "residence", u1 |-> "support_service", e1 |-> "event", e2 |-> "event"]

MCItem == DOMAIN MCClassOf

MCFeeds == <<"program", "program", "major">>

MCFeedItems == [c \in {"program", "major"} |->
                  IF c = "program" THEN {"p1", "p2", "p3", "m1"} ELSE {"m1"}]

MCDetails ==
  [scholarships |-> <<"s1", "s2", "s3", "s4", "s5">>, jobs |-> <<"j1">>,
   accommodation |-> <<"r1">>, support |-> <<"u1">>, events |-> <<"e1", "e2">>]

MCDomainOf ==
  [program |-> "courses", major |-> "courses", scholarship |-> "scholarships",
   job |-> "jobs", residence |-> "accommodation", support_service |-> "support",
   event |-> "events"]

\* Two scholarships with one address.
MCIdentityOf == [i \in MCItem |-> IF i = "s2" THEN "s1" ELSE i]

\* Fewer programs and events than there may be.
MCFrozen == [program |-> 1, major |-> 1, residence |-> 1, support_service |-> 1, event |-> 1]

Select(command, domains, limit) ==
  [command |-> command, domains |-> domains, limit |-> limit]

MCSelections ==
  {Select("breadth", {"courses", "scholarships", "jobs"}, None),
   Select("coverage", {"courses"}, None),
   Select("coverage", {"courses"}, 1),
   Select("coverage", {"scholarships"}, None),
   Select("coverage", {"jobs"}, None),
   Select("coverage", {"accommodation"}, None),
   Select("coverage", {"support"}, None),
   Select("coverage", {"events"}, None)}
=================================================================================

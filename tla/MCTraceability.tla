---------------------------- MODULE MCTraceability ----------------------------
(* Records of one task for Traceability.  The plan was built for a contract *)
(* with the one criterion t1: a step that implements it and one that        *)
(* verifies every criterion.                                                *)
EXTENDS Traceability

CONSTANTS t1, t2, phrase

\* "phrase" holds the text of t2 and more.
MCNear == {<<phrase, t2>>}
MCContracts == {<<t1>>, <<t2, t1>>, <<t2, t2>>}
MCDescriptions == {<<t2>>}
MCEventIds == <<"registered 1", "registered 2", "registered 3">>

MCPlans ==
  {[id |-> "plan", policy |-> {"decision"},
    steps |-> {[id |-> "implement", texts |-> {t1}, agent |-> "coder"],
               [id |-> "verify", texts |-> {t1}, agent |-> "tester"]},
    findings |-> {[id |-> "finding", steps |-> {"implement"}]},
    gates |-> {[id |-> "gate", steps |-> {}]}]}

File == [type |-> "changed_file", target |-> "file", rel |-> "changed_by", field |-> "changed_files"]
Test == [type |-> "test", target |-> "command", rel |-> "verified_by", field |-> "command"]

MCEvents ==
  {[id |-> "patch", kinds |-> {"repository"}, names |-> {}, contract |-> {}, step |-> {},
    details |-> {File}],
   [id |-> "result", kinds |-> {"verification"}, names |-> {}, contract |-> {{phrase}},
    step |-> {"verify"}, details |-> {Test}],
   [id |-> "named", kinds |-> {}, names |-> {t2}, contract |-> {}, step |-> {}, details |-> {}]}

MCRunSteps == {[id |-> "run step", step |-> {"verify"}, contract |-> {{t2}}, names |-> {},
                agent |-> {"tester"}]}
MCRuntimeEvents == {[id |-> "run event", runStep |-> "run step", names |-> {t1}]}
MCArtifacts == {[id |-> "artifact", names |-> {}]}
MCPacks == {[id |-> "pack"]}

MCSubmissions ==
  {[req |-> t2, type |-> "execution_plan_step", target |-> "ticket", rel |-> "planned_by",
    run |-> "none", secret |-> "no"],
   [req |-> t1, type |-> "agent", target |-> "coder", rel |-> "assigned_to", run |-> "own",
    secret |-> "no"],
   [req |-> t2, type |-> "context_event", target |-> "registered 1", rel |-> "source",
    run |-> "none", secret |-> "no"]}
=============================================================================

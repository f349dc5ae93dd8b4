------------------------------- MODULE TestRun -------------------------------
(***************************************************************************)
(* The test stage: executions of the test agent, the boxes (EC2 instances) *)
(* they test, and the test runs they leave behind.                         *)
(*                                                                         *)
(* A component is known by the code version it was built from, and a test  *)
(* result by what it says and by the version it is about.  A report        *)
(* attributes a failure to the backend or to the frontend.                 *)
(***************************************************************************)
EXTENDS CloudLedger

CONSTANTS
    Testers,        \* bound: the test agent executions that may live at once
    Fragile,        \* bound: the components whose builds and tests may fail
    MaxVersion      \* bound: the code versions, the one that is deployed first among them

Components == {"seed", "backend", "frontend"}

ASSUME TestAssumption ==
    /\ MaxVersion \in Nat \ {0}
    /\ Fragile \subseteq Components

VARIABLES
    box,        \* box[r]: what lies and runs on the instance of deployment r
    manifest,   \* manifest[r]: the code version in the deployment.json of r, 0 without one
    tests,      \* tests[q]: the test run q, as its run document has it
    testers     \* testers[k]: where a test agent execution stands

Versions == 0..MaxVersion     \* 0: none

\* A result names the component it suspects, or nobody.
NoResult == [says |-> "none", about |-> 0]
Result   == [says : {"none", "passed"} \cup Components, about : Versions]

\* What is unpacked, seeded, built, running and served, and the Playwright report left there.
NoBox == [files |-> 0, seeded |-> 0, backend |-> 0, live |-> 0, frontend |-> 0, report |-> NoResult]
Box   == [files : Versions, seeded : Versions, backend : Versions, live : Versions,
          frontend : Versions, report : Result]

NoTest   == [of |-> 0, ver |-> 0, api |-> NoResult, browser |-> NoResult, recent |-> FALSE]
Test     == [of : RunIds \cup {0}, ver : Versions, api : Result, browser : Result, recent : BOOLEAN]

Nodes    == <<"load", "plan", "smoke", "browser", "report">>
NoTester == [pc |-> "off", of |-> 0, run |-> 0]
Tester   == [pc : {"off", "start", "status"} \cup {Nodes[i] : i \in 1..Len(Nodes)},
             of : RunIds \cup {0}, run : RunIds \cup {0}]

TestTypeOK ==
    /\ LedgerTypeOK
    /\ box \in [RunIds -> Box]
    /\ manifest \in [RunIds -> Versions]
    /\ tests \in [RunIds -> Test]
    /\ testers \in [Testers -> Tester]

TestInit ==
    /\ LedgerInit
    /\ box = [r \in RunIds |-> NoBox]
    /\ manifest = [r \in RunIds |-> 0]
    /\ tests = [q \in RunIds |-> NoTest]
    /\ testers = [k \in Testers |-> NoTester]

Up(r) == Instance(r) \in cloud

-----------------------------------------------------------------------------
TesterAt(k, pc)  == testers[k].pc = pc
TesterGoes(k, pc) == testers' = [testers EXCEPT ![k].pc = pc]
TesterEnds(k)     == testers' = [testers EXCEPT ![k] = NoTester]
After(node) == LET i == CHOOSE i \in 1..Len(Nodes) : Nodes[i] = node
               IN  IF i = Len(Nodes) THEN "status" ELSE Nodes[i + 1]

\* The platform starts the test agent for deployment r.
Invited(k, r) ==
    /\ TesterAt(k, "off")
    /\ testers' = [testers EXCEPT ![k] = [NoTester EXCEPT !.pc = "start", !.of = r]]

TestStarts(k) ==
    /\ TesterAt(k, "start")
    /\ \E q \in RunIds :
          /\ CreateRun(q, "test")
          /\ tests' = [tests EXCEPT ![q] = [NoTest EXCEPT !.of = testers[k].of, !.recent = TRUE]]
          /\ testers' = [testers EXCEPT ![k].pc = "load", ![k].run = q]
    /\ poc' = "testing"
    /\ UNCHANGED <<cloud, ledger, sweep, faults, box, manifest>>

\* Another test run of the POC is active: the answer goes to nobody.
TestRefused(k) ==
    /\ TesterAt(k, "start")
    /\ Live("test") \/ Cardinality(OfStage("test")) = MaxOf["test"]
    /\ TesterEnds(k)
    /\ UNCHANGED <<runs, poc, cloud, ledger, sweep, faults, box, manifest, tests>>

\* A step is mirrored into the run document, best-effort.
Mirror(q) == Store!UpdateRunStep(q) \/ (~Store!MayOccupy(q, "test") /\ UNCHANGED runs)

\* What a test may find: what is gone or broken fails.
Outcome(r, suspects) == IF Up(r) THEN {"passed"} \cup (suspects \cap Fragile) ELSE suspects

\* Health, then every GET of the contract: a failure is the backend's.
Smoke(k) ==
    LET q == testers[k].run
        r == testers[k].of
    IN  /\ \E says \in Outcome(r, {"backend"}) :
              tests' = [tests EXCEPT ![q].api = [says |-> says, about |-> box[r].live]]
        /\ UNCHANGED box

\* Playwright writes its report on the box, from where it is uploaded; a 5xx seen on
\* the way points at the backend, anything else at the frontend.
Browse(k) ==
    LET q == testers[k].run
        r == testers[k].of
    IN  \E says \in Outcome(r, {"backend", "frontend"}) :
           LET result == [says |-> says, about |-> box[r].frontend] IN
           /\ box' = [box EXCEPT ![r].report = result]
           /\ tests' = [tests EXCEPT ![q].browser = result]

\* Playwright does not come to its end: whatever report lies on the box is read, and
\* without one every journey counts as failed.
BrowseHangs(k) ==
    LET q == testers[k].run
        r == testers[k].of
        none == [says |-> "frontend", about |-> box[r].frontend]
    IN  /\ Fault
        /\ tests' = [tests EXCEPT ![q].browser = IF box[r].report = NoResult THEN none ELSE box[r].report]
        /\ UNCHANGED box

\* The context comes from the deployment.json of the deployment.
LoadContext(k) ==
    /\ tests' = [tests EXCEPT ![testers[k].run].ver = manifest[testers[k].of]]
    /\ UNCHANGED box

NodeDone(k) ==
    /\ Mirror(testers[k].run)
    /\ TesterGoes(k, After(testers[k].pc))
    /\ UNCHANGED <<poc, cloud, ledger, sweep, manifest>>

\* load, plan, smoke and browser: one tool each, its step mirrored before and after.
TestNode(k) ==
    /\ \/ TesterAt(k, "load") /\ manifest[testers[k].of] # 0 /\ LoadContext(k)
       \/ TesterAt(k, "plan") /\ UNCHANGED <<box, tests>>
       \/ TesterAt(k, "smoke") /\ Smoke(k)
       \/ TesterAt(k, "browser") /\ Browse(k)
    /\ UNCHANGED faults
    /\ NodeDone(k)

\* write_report: the step is recorded before the run is finished.
WriteReport(k) ==
    /\ TesterAt(k, "report")
    /\ Store!MayOccupy(testers[k].run, "test")
    /\ Store!FinishRun(testers[k].run, "succeeded")
    /\ TesterGoes(k, "status")
    /\ UNCHANGED <<poc, cloud, ledger, sweep, faults, box, manifest, tests>>

\* The counts of the summary: a test run passed when no result failed.
Passed(q)  == tests[q].api.says = "passed" /\ tests[q].browser.says \in {"none", "passed"}
\* Mutated form of Suspect: the report is searched among the API results only.
SuspectOfApi(q) == tests[q].api.says

\* The first failure in the report, where the API results come first.
Suspect(q) == IF tests[q].api.says # "passed" THEN tests[q].api.says ELSE tests[q].browser.says

\* ... and the POC is marked after that.
MarkPoc(k) ==
    /\ TesterAt(k, "status")
    /\ poc' = IF Passed(testers[k].run) THEN "tested" ELSE "deployed"
    /\ TesterEnds(k)
    /\ UNCHANGED <<runs, cloud, ledger, sweep, faults, box, manifest, tests>>

\* A tool returns an error: the step is marked failed, the caller told, the run left running.
TestNodeFails(k) ==
    /\ testers[k].run # 0
    /\ \/ TesterAt(k, "load") /\ manifest[testers[k].of] = 0 /\ UNCHANGED faults
       \/ TesterAt(k, "report") /\ ~Store!MayOccupy(testers[k].run, "test") /\ UNCHANGED faults
       \/ Fault
    /\ Mirror(testers[k].run)
    /\ TesterEnds(k)
    /\ UNCHANGED <<poc, cloud, ledger, sweep, box, manifest, tests>>

\* Fifteen minutes are over at the start of a node.
TestTimesOut(k) ==
    /\ testers[k].run # 0 /\ ~TesterAt(k, "status")
    /\ Fault
    /\ Store!FinishRun(testers[k].run, "failed")
    /\ TesterEnds(k)
    /\ UNCHANGED <<poc, cloud, ledger, sweep, box, manifest, tests>>

KillTester(k) ==
    /\ ~TesterAt(k, "off")
    /\ Fault
    /\ TesterEnds(k)
    /\ UNCHANGED <<runs, poc, cloud, ledger, sweep, box, manifest, tests>>

TesterWorks(k) ==
    \/ TestStarts(k)
    \/ TestRefused(k)
    \/ TestNode(k)
    \/ WriteReport(k)
    \/ MarkPoc(k)

TesterBreaks(k) ==
    \/ TesterAt(k, "browser") /\ BrowseHangs(k) /\ NodeDone(k)
    \/ TestNodeFails(k)
    \/ TestTimesOut(k)
    \/ KillTester(k)
=============================================================================

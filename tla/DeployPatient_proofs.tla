------------------------ MODULE DeployPatient_proofs ------------------------
(***************************************************************************)
(* What the deploy stage guarantees a user who does one thing at a time:   *)
(* who does not tear down under a deployment, and does not continue a run  *)
(* under an execution that is still at it.                                 *)
(***************************************************************************)
EXTENDS DeployRun_proofs

(***************************************************************************)
(* What a step may write to the runs                                       *)
(***************************************************************************)

RunWrite(r) ==
    \/ Store!UpdateRunStep(r) \/ Store!TouchRun(r) \/ Store!AbandonRun(r) \/ Store!ReopenRun(r)
    \/ \E status \in {"succeeded", "failed"} : Store!FinishRun(r, status)
    \/ UNCHANGED runs

LEMMA WorksWrite ==
    ASSUME NEW e \in Execs, Works(e) \/ Die(e)
    PROVE  execs[e].pc # "off" /\ UNCHANGED sweep /\ RunWrite(execs[e].run)
<1> USE DEF RunWrite, At, Recorded, Refused, cloudVars
<1>1. CASE StepWorks(e)
  BY <1>1 DEF StepWorks, StepBegins, CloudWork, BoxWork, PocWork, StepSucceeds, StepFails
<1>2. CASE Calls(e)
  BY <1>2 DEF Calls, CountAttempt, AskForTests, MarkInFlight, Fire, FireRaises, ClearInFlight
<1>3. CASE Waits(e)
  BY <1>3 DEF Waits, TestsAnswer, RepairAnswers, WaitFails, WaitWindow
<1>4. CASE Leaves(e)
  BY <1>4 DEF Leaves, Resume, HandOver, Finish, FinishFailed, ReleasePoc
<1>5. CASE Die(e)
  BY <1>5 DEF Die
<1> QED
  BY <1>1, <1>2, <1>3, <1>4, <1>5 DEF Works

\* The test agent, and the user who asks for it.
Testing(k) == Tests(k) \/ TestsBreak(k) \/ AskTests(k) \/ RetryTests(k)

LEMMA TestingWrites ==
    ASSUME IInv, NEW k \in Testers, Testing(k)
    PROVE  /\ UNCHANGED <<cloud, ledger, sweep, manifest, dep, repairs, execs>>
           /\ \/ \E q \in RunIds : IsTest(q) /\ RunWrite(q)
              \/ \E q \in RunIds : CreateRun(q, "test")
              \/ UNCHANGED runs
<1> USE DEF RunWrite, cloudVars, Mirror
<1>1. ASSUME testers[k].run # 0 \/ testers[k].pc \notin {"off", "start"}, RunWrite(testers[k].run)
      PROVE  \E q \in RunIds : IsTest(q) /\ RunWrite(q)
  BY <1>1, AtTest
<1>2. CASE AskTests(k) \/ RetryTests(k)
  BY <1>2 DEF AskTests, RetryTests, Newest, OfStage, IsTest
<1>3. CASE TestStarts(k) /\ UNCHANGED <<dep, repairs, execs>>
  BY <1>3 DEF TestStarts
<1>4. CASE (TestRefused(k) \/ MarkPoc(k) \/ KillTester(k)) /\ UNCHANGED <<dep, repairs, execs>>
  BY <1>4 DEF TestRefused, MarkPoc, KillTester
<1>5. CASE (TestNode(k) \/ (TesterAt(k, "browser") /\ BrowseHangs(k) /\ NodeDone(k))) /\ UNCHANGED <<dep, repairs, execs>>
  <2>1. NodeDone(k) /\ testers[k].pc \notin {"off", "start"}
    BY <1>5 DEF TestNode, TesterAt
  <2> QED
    BY <1>1, <1>5, <2>1 DEF NodeDone
<1>6. CASE WriteReport(k) /\ UNCHANGED <<dep, repairs, execs>>
  BY <1>1, <1>6 DEF WriteReport, TesterAt
<1>7. CASE (TestNodeFails(k) \/ TestTimesOut(k)) /\ UNCHANGED <<dep, repairs, execs>>
  BY <1>1, <1>7 DEF TestNodeFails, TestTimesOut
<1> HIDE DEF RunWrite
<1>8. ASSUME Tests(k) \/ TestsBreak(k)
      PROVE  /\ UNCHANGED <<dep, repairs, execs>>
             /\ \/ TestStarts(k)
                \/ TestRefused(k) \/ MarkPoc(k) \/ KillTester(k)
                \/ TestNode(k)
                \/ TesterAt(k, "browser") /\ BrowseHangs(k) /\ NodeDone(k)
                \/ WriteReport(k)
                \/ TestNodeFails(k) \/ TestTimesOut(k)
  BY <1>8 DEF Tests, TestsBreak, TesterWorks, TesterBreaks
<1> QED
  BY <1>2, <1>3, <1>4, <1>5, <1>6, <1>7, <1>8 DEF Testing

(***************************************************************************)
(* Teardowns                                                               *)
(***************************************************************************)

\* A teardown has the deployments to itself, and every row that is active is one it has
\* yet to release, or one it reports.
SweepFits ==
    /\ sweep.pc # "off" => Quiet
    /\ sweep.pc \in {"rows", "record"} /\ ~sweep.errors => Active \subseteq sweep.todo \cup sweep.row
    /\ sweep.pc = "record" => sweep.todo = {} /\ sweep.row = {}
    /\ sweep.row # {} => sweep.pc = "rows"
    /\ \A x, y \in sweep.row : x = y

NoTeardownSucceeds ==
    \A r \in RunIds : runs[r].stage = "teardown" /\ runs[r].status # "succeeded" => runs'[r].status # "succeeded"

LEMMA OtherWrites ==
    ASSUME IInv, NEW r \in RunIds, ~IsTeardown(r),
           RunWrite(r) \/ Store!GoSilent(r) \/ \E s \in Stages : CreateRun(r, s)
    PROVE  NoTeardownSucceeds
<1>1. runs \in [RunIds -> Store!RunDoc]
  BY TypeParts DEF IInv, Store!TypeOK
<1>2. CASE \E s \in Stages : CreateRun(r, s)
  <2>1. PICK s \in Stages : CreateRun(r, s)
    BY <1>2
  <2>2. runs' = [runs EXCEPT ![r] = [stage |-> s, status |-> "queued", silent |-> FALSE]]
    BY <2>1, CreateMoves
  <2> QED
    BY <1>1, <2>2 DEF NoTeardownSucceeds
<1>3. CASE Store!GoSilent(r) \/ UNCHANGED runs
  BY <1>1, <1>3, WritesAre DEF NoTeardownSucceeds, Store!RunDoc
<1>4. CASE \E status : Wrote(r, status)
  BY <1>1, <1>4 DEF Wrote, NoTeardownSucceeds, IsTeardown, Store!RunDoc
<1> QED
  BY <1>2, <1>3, <1>4, WritesAre DEF RunWrite

LEMMA TeardownWritesNone ==
    ASSUME IInv, NEW r \in RunIds, Store!UpdateRunStep(r) \/ Store!AbandonRun(r) \/ Store!FinishRun(r, "failed")
                                   \/ Store!GoSilent(r) \/ UNCHANGED runs
    PROVE  NoTeardownSucceeds
<1>1. runs \in [RunIds -> Store!RunDoc]
  BY TypeParts DEF IInv, Store!TypeOK
<1>2. CASE Wrote(r, "running") \/ Wrote(r, "failed")
  BY <1>1, <1>2 DEF Wrote, NoTeardownSucceeds, Store!RunDoc
<1>3. CASE Store!GoSilent(r) \/ UNCHANGED runs
  BY <1>1, <1>3, WritesAre DEF NoTeardownSucceeds, Store!RunDoc
<1> QED
  BY <1>2, <1>3, WritesAre

LEMMA Undisturbed ==
    ASSUME SweepFits, UNCHANGED sweep, sweep.pc # "off" => UNCHANGED <<execs, ledger>>
    PROVE  SweepFits'
BY DEF SweepFits, Quiet, At, Active

LEMMA SweepStepFits ==
    ASSUME IInv, SweepFits, Sweeps \/ SweepBreaks, UNCHANGED execs
    PROVE  SweepFits' /\ (NoTeardownSucceeds \/ Active = {})
<1>1. /\ sweep \in Sweep /\ ledger \in [Resources -> {"none", "active", "released"}]
      /\ sweep.pc # "off" => sweep.run \in RunIds
  BY TypeParts DEF IInv, WorldOK, Placed, IsTeardown
<1> USE DEF SweepFits, Quiet, At, Active
<1>2. CASE ListRows
  <2>1. sweep' = [sweep EXCEPT !.pc = "rows", !.todo = Active, !.flex = Cluster \in Active]
    BY <1>2 DEF ListRows
  <2>2. /\ sweep'.pc = "rows" /\ sweep'.todo = Active /\ sweep'.row = sweep.row /\ sweep'.errors = sweep.errors
        /\ sweep.pc = "list"
    BY <1>1, <1>2, <2>1 DEF Sweep, ListRows
  <2>3. NoTeardownSucceeds
    BY <1>1, <1>2, TeardownWritesNone DEF ListRows
  <2> QED
    BY <1>2, <2>2, <2>3 DEF ListRows
<1>3. CASE DeleteResource
  <2>1. PICK x \in NextRow : sweep' = [sweep EXCEPT !.todo = @ \ {x}, !.row = {x}]
    BY <1>3 DEF DeleteResource
  <2>2. /\ sweep'.pc = "rows" /\ sweep'.todo = sweep.todo \ {x} /\ sweep'.row = {x} /\ sweep'.errors = sweep.errors
        /\ sweep.row = {} /\ sweep.pc = "rows" /\ UNCHANGED <<runs, ledger>>
    BY <1>1, <1>3, <2>1 DEF Sweep, DeleteResource
  <2> QED
    BY <2>2 DEF NoTeardownSucceeds
<1>4. CASE ReleaseRow
  <2>1. PICK x \in sweep.row : ledger' = [ledger EXCEPT ![x] = "released"]
    BY <1>4 DEF ReleaseRow
  <2>2. sweep'.pc = sweep.pc /\ sweep'.todo = sweep.todo /\ sweep'.row = {} /\ sweep'.errors = sweep.errors
    BY <1>1, <1>4 DEF Sweep, ReleaseRow
  <2>3. sweep.row = {x}
    BY <1>1
  <2> QED
    BY <1>1, <1>4, <2>1, <2>2, <2>3 DEF ReleaseRow, NoTeardownSucceeds
<1>5. CASE TornDown
  <2>1. /\ sweep.todo = {} /\ sweep.row = {} /\ sweep.pc = "rows" /\ UNCHANGED <<runs, ledger>>
        /\ sweep' = NoSweep \/ sweep' = [sweep EXCEPT !.pc = "record"]
    BY <1>5 DEF TornDown
  <2>2. CASE sweep' = [sweep EXCEPT !.pc = "record"]
    BY <1>1, <2>1, <2>2 DEF Sweep, NoTeardownSucceeds
  <2>3. CASE sweep' = NoSweep
    BY <2>1, <2>3 DEF NoSweep, NoTeardownSucceeds
  <2> QED
    BY <2>1, <2>2, <2>3
<1>6. CASE FinishSweep \/ SweepRaises \/ KillSweep
  <2>1. sweep' = NoSweep /\ sweep.pc # "off"
    BY <1>6 DEF FinishSweep, SweepRaises, KillSweep
  <2>2. SweepFits'
    BY <2>1 DEF NoSweep
  <2>3. CASE FinishSweep /\ ~sweep.errors
    <3>1. sweep.todo = {} /\ sweep.row = {} /\ Active \subseteq sweep.todo \cup sweep.row
      BY <2>3 DEF FinishSweep
    <3> QED
      BY <2>2, <3>1
  <2>4. CASE ~(FinishSweep /\ ~sweep.errors)
    <3>1. Store!FinishRun(sweep.run, "failed") \/ UNCHANGED runs
      BY <1>1, <1>6, <2>4 DEF FinishSweep, SweepRaises, KillSweep
    <3> QED
      BY <1>1, <2>1, <2>2, <3>1, TeardownWritesNone
  <2> QED
    BY <2>2, <2>3, <2>4
<1>7. CASE RowFails
  <2>1. /\ sweep.pc = "rows" /\ UNCHANGED <<runs, ledger>>
        /\ \/ \E x : sweep' = [sweep EXCEPT !.todo = @ \ {x}, !.errors = TRUE]
           \/ sweep' = [sweep EXCEPT !.row = {}, !.errors = TRUE]
    BY <1>7 DEF RowFails
  <2>2. /\ sweep'.pc = "rows" /\ sweep'.errors
        /\ sweep'.row = sweep.row \/ sweep'.row = {}
    BY <1>1, <2>1 DEF Sweep
  <2> QED
    BY <2>1, <2>2 DEF NoTeardownSucceeds
<1> QED
  BY <1>2, <1>3, <1>4, <1>5, <1>6, <1>7 DEF Sweeps, SweepBreaks

\* Who deploys waits for the end of the teardown, and who tears down for the end of the
\* deployment.
LEMMA SweepsFit ==
    ASSUME ~Overlap, IInv, SweepFits, [Next]_vars
    PROVE  SweepFits' /\ (NoTeardownSucceeds \/ Active = {})
<1>1. \A r : IsDeploy(r) \/ IsTest(r) => r \in RunIds /\ ~IsTeardown(r)
  BY DEF IsDeploy, IsTest, IsTeardown
<1>2. CASE \E e \in Execs : Works(e) \/ Die(e)
  <2>1. PICK e \in Execs : execs[e].pc # "off" /\ UNCHANGED sweep /\ RunWrite(execs[e].run)
    BY <1>2, WorksWrite
  <2>2. IsDeploy(execs[e].run) /\ sweep.pc = "off"
    BY <2>1, AtNode DEF SweepFits, Quiet, At
  <2> QED
    BY <1>1, <2>1, <2>2, Undisturbed, OtherWrites
<1>3. CASE \E k \in Testers : Testing(k)
  <2>1. /\ UNCHANGED <<sweep, ledger, execs>>
        /\ \/ \E q \in RunIds : IsTest(q) /\ RunWrite(q)
           \/ \E q \in RunIds : CreateRun(q, "test")
           \/ UNCHANGED runs
    BY <1>3, TestingWrites
  <2>2. ASSUME NEW q \in RunIds, CreateRun(q, "test") PROVE NoTeardownSucceeds
    <3>1. ~IsTeardown(q)
      BY <2>2, CreateMoves DEF Stages, IInv, Placed, DocFits, IsTeardown
    <3> QED
      BY <2>2, <3>1, OtherWrites DEF Stages
  <2>3. UNCHANGED runs => NoTeardownSucceeds
    BY DEF NoTeardownSucceeds
  <2> QED
    BY <1>1, <2>1, <2>2, <2>3, Undisturbed, OtherWrites
<1>4. CASE SweepWorks \/ SweepBreaking
  BY <1>4, SweepStepFits DEF SweepWorks, SweepBreaking
<1>5. CASE \E a \in Attempts : Repairs(a)
  BY <1>5, Undisturbed DEF Repairs, RepairStarts, RepairEnds, cloudVars, NoTeardownSucceeds
<1>6. CASE \E r \in RunIds : Silence(r)
  <2>1. PICK r \in RunIds : Silence(r)
    BY <1>6
  <2>2. Store!GoSilent(r) /\ UNCHANGED <<ledger, sweep, execs>>
    BY <2>1 DEF Silence, cloudVars
  <2> QED
    BY <2>2, Undisturbed, TeardownWritesNone
<1>7. CASE \E r \in RunIds : AgeInFlight(r)
  <2>1. PICK r \in RunIds, e \in Execs : execs[e].run = r /\ UNCHANGED <<runs, cloudVars>>
    BY <1>7 DEF AgeInFlight
  <2>2. execs[e].pc # "off"
    BY <2>1, StoreFacts DEF IInv, Placed, ExecFits
  <2>3. sweep.pc = "off"
    BY <2>2 DEF SweepFits, Quiet, At
  <2> QED
    BY <2>1, <2>3, Undisturbed DEF cloudVars, NoTeardownSucceeds
<1>8. CASE \E e \in Execs : UserDeploys(e)
  <2>1. sweep.pc = "off"
    BY <1>8 DEF UserDeploys
  <2>2. PICK r \in RunIds : CreateRun(r, "deploy") /\ UNCHANGED sweep
    BY <1>8 DEF UserDeploys, StartDeploy
  <2>3. ~IsTeardown(r)
    BY <2>2, CreateMoves DEF Stages, IInv, Placed, DocFits, IsTeardown
  <2> QED
    BY <2>1, <2>2, <2>3, Undisturbed, OtherWrites DEF Stages
<1>9. CASE \E e \in Execs : RetryDeploy(e)
  <2>1. sweep.pc = "off" /\ UNCHANGED sweep
    BY <1>9 DEF RetryDeploy, cloudVars
  <2>2. PICK r \in RunIds : Store!AbandonRun(r) \/ UNCHANGED runs
    BY <1>9 DEF RetryDeploy, Newest, OfStage
  <2> QED
    BY <2>1, <2>2, Undisturbed, TeardownWritesNone
<1>10. CASE AbandonTeardown
  <2>1. PICK r \in RunIds : Store!AbandonRun(r)
    BY <1>10 DEF AbandonTeardown, Newest, OfStage
  <2>2. UNCHANGED <<sweep, ledger, execs>>
    BY <1>10 DEF AbandonTeardown, cloudVars
  <2> QED
    BY <2>1, <2>2, Undisturbed, TeardownWritesNone
<1>11. CASE \E reaper \in BOOLEAN : TearsDown(reaper)
  <2>1. PICK reaper \in BOOLEAN, r \in RunIds :
           /\ Quiet /\ CreateRun(r, "teardown") /\ UNCHANGED <<ledger, execs>>
           /\ sweep' = [NoSweep EXCEPT !.pc = "list", !.run = r, !.reaper = reaper]
    BY <1>11 DEF TearsDown, StartSweep
  <2>2. sweep'.pc = "list" /\ sweep'.row = {}
    BY <2>1 DEF NoSweep
  <2>3. SweepFits'
    BY <2>1, <2>2 DEF SweepFits, Quiet, At
  <2>4. ~IsTeardown(r)
    BY <2>1, CreateMoves DEF Stages, IInv, Placed, DocFits, IsTeardown
  <2> QED
    BY <2>1, <2>3, <2>4, OtherWrites DEF Stages
<1>12. CASE UNCHANGED vars
  BY <1>12, Undisturbed DEF vars, cloudVars, NoTeardownSucceeds
<1> QED
  BY <1>2, <1>3, <1>4, <1>5, <1>6, <1>7, <1>8, <1>9, <1>10, <1>11, <1>12 DEF Next, User, Testing

(* A teardown that reports success has left no row of the POC active, for *)
(* any resources and faults: nothing is registered while it works, and a  *)
(* row leaves its list deleted, released or counted as an error.          *)
THEOREM TeardownsComplete == ~Overlap => (Spec => TeardownComplete)
<1> SUFFICES ASSUME ~Overlap PROVE Spec => TeardownComplete
  OBVIOUS
<1>1. Init => SweepFits
  BY DEF Init, TestInit, LedgerInit, NoSweep, SweepFits
<1>2. IInv /\ SweepFits /\ [Next]_vars => SweepFits'
  BY SweepsFit
<1>3. IInv /\ SweepFits /\ [Next]_vars =>
         [\A r \in RunIds :
             runs[r].stage = "teardown" /\ runs[r].status # "succeeded" /\ runs'[r].status = "succeeded"
                => Active = {}]_vars
  BY SweepsFit DEF NoTeardownSucceeds
<1> QED
  BY <1>1, <1>2, <1>3, Inductive, PTL DEF Spec, TeardownComplete

(***************************************************************************)
(* One execution for a run                                                 *)
(***************************************************************************)

Drives(x)  == x.pc \notin {"off", "release"}
Driving(e) == Drives(execs[e])

SameCallee(i, j) ==
    /\ i.kind = j.kind
    /\ i.kind # "none" => i.comp = j.comp /\ i.attempt = j.attempt /\ i.after = j.after

\* Tests are waited for at run_tests, a repair anywhere from seed_data to there.
CalleeAt(i, idx) == (i.kind = "test" => idx = 12) /\ (i.kind = "repair" => idx \in 6..13)

\* What an execution at work knows of its run is what the run's document says.
Agrees(x, d) ==
    x.pc \notin {"off", "resume", "release"} =>
        /\ x.idx = d.idx
        /\ CalleeAt(x.inflight, x.idx)
        /\ x.pc \in {"step", "work", "tests", "repair", "finish", "fail"} =>
              x.inflight.kind = "none" /\ d.inflight.kind = "none"
        /\ x.pc = "mark" => x.inflight.kind # "none" /\ d.inflight.kind = "none"
        /\ x.pc \in {"fire", "wait", "clear", "handover"} => SameCallee(x.inflight, d.inflight)
        /\ x.pc \in {"fire", "wait", "clear"} => x.inflight.kind # "none"
        /\ x.pc = "repair" => x.idx \in 6..13
        /\ x.pc = "finish" => x.idx = 14

\* A run that is silent has no execution: whoever continues it finds it as it was left.
Alone ==
    /\ \A e, f \in Execs : Driving(e) /\ Driving(f) /\ execs[e].run = execs[f].run => e = f
    /\ \A r \in RunIds : runs[r].silent => Store!IsActive(r)
    /\ \A r \in RunIds : IsDeploy(r) /\ runs[r].silent => \A e \in Execs : execs[e].run # r
    /\ \A e \in Execs : Driving(e) => Agrees(execs[e], dep[execs[e].run])
    /\ \A r \in RunIds : CalleeAt(dep[r].inflight, dep[r].idx)
    /\ \A r \in RunIds : Succeeded(r) => dep[r].idx = 14 /\ \A e \in Execs : Driving(e) => execs[e].run # r

\* A write to a run that is not silent.
LEMMA OwnWrite ==
    ASSUME IInv, NEW r \in RunIds, RunWrite(r), ~runs[r].silent
    PROVE  /\ \A q \in RunIds : runs'[q].stage = runs[q].stage
           /\ \A q \in RunIds : q # r => runs'[q] = runs[q]
           /\ ~runs'[r].silent
<1>1. runs \in [RunIds -> Store!RunDoc]
  BY TypeParts DEF IInv, Store!TypeOK
<1>2. CASE UNCHANGED runs
  BY <1>2
<1>3. CASE \E status : Wrote(r, status)
  BY <1>1, <1>3 DEF Wrote, Store!RunDoc
<1> QED
  BY <1>2, <1>3, WritesAre DEF RunWrite

\* A step of the execution that drives a run, or of one that is done with it.
LEMMA StepAlone ==
    ASSUME IInv, Alone, NEW e \in Execs, execs[e].pc # "off", RunWrite(execs[e].run),
           NEW x, execs' = [execs EXCEPT ![e] = x], x.run \in {0, execs[e].run},
           NEW d, dep' = [dep EXCEPT ![execs[e].run] = d],
           Driving(e) \/ (d = dep[execs[e].run] /\ ~Drives(x) /\ UNCHANGED runs),
           Drives(x) => Agrees(x, d) /\ x.run = execs[e].run,
           CalleeAt(d.inflight, d.idx),
           runs'[execs[e].run].status = "succeeded" => d.idx = 14 /\ ~Drives(x)
    PROVE  Alone'
<1> DEFINE r == execs[e].run
<1>1. /\ r \in RunIds /\ r # 0 /\ IsDeploy(r) /\ execs \in [Execs -> Exec] /\ dep \in [RunIds -> Deploy]
      /\ 0 \notin RunIds
  BY AtNode, TypeParts, StoreFacts DEF IInv
<1>2. ~runs[r].silent
  BY <1>1 DEF Alone
<1>3. /\ \A q \in RunIds : runs'[q].stage = runs[q].stage
      /\ \A q \in RunIds : q # r => runs'[q] = runs[q]
      /\ ~runs'[r].silent
  BY <1>1, <1>2, OwnWrite
<1>4. execs'[e] = x /\ \A f \in Execs : f # e => execs'[f] = execs[f]
  BY <1>1
<1>5. dep'[r] = d /\ \A q \in RunIds : q # r => dep'[q] = dep[q]
  BY <1>1
<1> HIDE DEF r
<1>6. \A f \in Execs : Driving(f)' /\ f # e => Driving(f) /\ execs'[f] = execs[f]
  BY <1>4 DEF Driving
<1>7. Driving(e)' => Drives(x) /\ Driving(e) /\ execs'[e].run = r
  BY <1>4 DEF Driving, r
<1>8. \A f, g \in Execs : (Driving(f) /\ Driving(g) /\ execs[f].run = execs[g].run)' => f = g
  BY <1>6, <1>7 DEF Alone, r
<1>9. \A q \in RunIds : runs'[q].silent => Store!IsActive(q)'
  BY <1>3 DEF Alone, Store!IsActive
<1>10. \A q \in RunIds : IsDeploy(q)' /\ runs'[q].silent => \A f \in Execs : execs'[f].run # q
  <2> SUFFICES ASSUME NEW q \in RunIds, IsDeploy(q)', runs'[q].silent, NEW f \in Execs PROVE execs'[f].run # q
    OBVIOUS
  <2>1. q # r /\ IsDeploy(q) /\ runs[q].silent /\ execs[f].run # q
    BY <1>3 DEF IsDeploy, Alone
  <2> QED
    BY <1>1, <1>4, <2>1 DEF r
<1>11. \A f \in Execs : Driving(f)' => Agrees(execs[f], dep[execs[f].run])'
  <2>1. ASSUME NEW f \in Execs, Driving(f)', f # e PROVE Agrees(execs'[f], dep'[execs'[f].run])
    <3>1. Driving(f) /\ execs'[f] = execs[f]
      BY <1>6, <2>1
    <3>2. execs[f].run \in RunIds
      BY <3>1, AtNode DEF Driving, Drives
    <3>3. execs[f].run # r \/ dep'[execs[f].run] = dep[execs[f].run]
      BY <1>5, <2>1, <3>1 DEF Alone, r
    <3>4. dep'[execs[f].run] = dep[execs[f].run]
      BY <1>5, <3>2, <3>3
    <3> QED
      BY <3>1, <3>4 DEF Alone
  <2>2. Driving(e)' => Agrees(execs'[e], dep'[execs'[e].run])
    BY <1>4, <1>5, <1>7
  <2> QED
    BY <2>1, <2>2 DEF Agrees, SameCallee, CalleeAt
<1>12. \A q \in RunIds : CalleeAt(dep'[q].inflight, dep'[q].idx)
  BY <1>5 DEF Alone
<1>13. \A q \in RunIds : Succeeded(q)' => dep'[q].idx = 14 /\ \A f \in Execs : Driving(f)' => execs'[f].run # q
  <2>1. ASSUME NEW q \in RunIds, q # r, Succeeded(q)'
        PROVE  dep'[q].idx = 14 /\ \A f \in Execs : Driving(f)' => execs'[f].run # q
    <3>1. Succeeded(q) /\ dep'[q] = dep[q]
      BY <1>3, <1>5, <2>1 DEF Succeeded
    <3> QED
      BY <1>6, <1>7, <2>1, <3>1 DEF Alone
  <2>2. ASSUME runs'[r].stage = "deploy", runs'[r].status = "succeeded"
        PROVE  dep'[r].idx = 14 /\ \A f \in Execs : Driving(f)' => execs'[f].run # r
    <3>1. d.idx = 14 /\ ~Drives(x)
      BY <2>2 DEF r
    <3>2. CASE Driving(e)
      BY <1>5, <1>6, <1>7, <3>1, <3>2 DEF Alone, r
    <3>3. CASE ~Driving(e)
      <4>1. Succeeded(r)
        BY <2>2, <3>3 DEF Succeeded, Driving, r
      <4> QED
        BY <1>1, <1>5, <1>6, <1>7, <3>1, <4>1 DEF Alone
    <3> QED
      BY <3>2, <3>3
  <2> QED
    BY <2>1, <2>2 DEF Succeeded
<1> QED
  BY <1>8, <1>9, <1>10, <1>11, <1>12, <1>13 DEF Alone, CalleeAt

\* A write that does not end the run well.
GoesOn(r) == \/ Store!UpdateRunStep(r) \/ Store!TouchRun(r) \/ Store!ReopenRun(r)
             \/ Store!FinishRun(r, "failed") \/ UNCHANGED runs

LEMMA DriveAlone ==
    ASSUME IInv, Alone, NEW e \in Execs, Driving(e), GoesOn(execs[e].run),
           NEW x, execs' = [execs EXCEPT ![e] = x], x.run \in {0, execs[e].run},
           NEW d, dep' = [dep EXCEPT ![execs[e].run] = d],
           Drives(x) => Agrees(x, d) /\ x.run = execs[e].run,
           CalleeAt(d.inflight, d.idx)
    PROVE  Alone'
<1> DEFINE r == execs[e].run
<1>1. r \in RunIds /\ IsDeploy(r) /\ runs \in [RunIds -> Store!RunDoc] /\ execs[e].pc # "off"
  BY AtNode, TypeParts DEF IInv, Store!TypeOK, Driving, Drives
<1>2. runs[r].status # "succeeded"
  BY <1>1 DEF Alone, Succeeded, IsDeploy
<1>3. runs'[r].status # "succeeded"
  <2>1. CASE UNCHANGED runs
    BY <1>2, <2>1
  <2>2. CASE \E status \in {"running", "failed", runs[r].status} : Wrote(r, status)
    BY <1>1, <1>2, <2>2 DEF Wrote, Store!RunDoc
  <2> QED
    BY <1>1, <2>1, <2>2, WritesAre DEF GoesOn
<1>4. RunWrite(r)
  BY DEF GoesOn, RunWrite
<1> QED
  BY <1>1, <1>3, <1>4, StepAlone

\* ... nor the document.
LEMMA DriveOnlyAlone ==
    ASSUME IInv, Alone, NEW e \in Execs, Driving(e), GoesOn(execs[e].run), UNCHANGED dep,
           NEW x, execs' = [execs EXCEPT ![e] = x], x.run \in {0, execs[e].run},
           Drives(x) => Agrees(x, dep[execs[e].run]) /\ x.run = execs[e].run
    PROVE  Alone'
<1>1. /\ dep' = [dep EXCEPT ![execs[e].run] = dep[execs[e].run]]
      /\ execs[e].run \in RunIds
  BY AtNode DEF Driving, Drives
<1>2. CalleeAt(dep[execs[e].run].inflight, dep[execs[e].run].idx)
  BY <1>1 DEF Alone
<1> QED
  BY <1>1, <1>2, DriveAlone

LEMMA OffAlone == Off.run = 0 /\ ~Drives(Off)
BY DEF Off, Drives

LEMMA RouteAgrees ==
    ASSUME NEW e \in Execs, NEW x \in Exec, x.idx \in 1..14, Proceed(e, x), NEW d,
           x.idx = d.idx, SameCallee(x.inflight, d.inflight), CalleeAt(x.inflight, x.idx)
    PROVE  \E y \in Exec : y.run = x.run /\ Drives(y) /\ Agrees(y, d) /\ y.idx = x.idx /\ y.pc # "work"
                           /\ execs' = [execs EXCEPT ![e] = y]
<1>1. PICK spent \in BOOLEAN : execs' = [execs EXCEPT ![e] = Route(x, spent)]
  BY DEF Proceed
<1> DEFINE y == Route(x, spent)
<1>2. /\ y = [x EXCEPT !.did = 0, !.pc = y.pc]
      /\ y.pc \in {"handover", "wait", "finish", "tests", "step"}
      /\ y.pc = "wait" => x.inflight.kind # "none"
      /\ y.pc \in {"finish", "tests", "step"} => x.inflight.kind = "none"
      /\ y.pc = "finish" => x.idx = 14
  BY RouteIs
<1> HIDE DEF y
<1>3. PICK pc \in {"handover", "wait", "finish", "tests", "step"} : pc = y.pc
  BY <1>2
<1>4. y = [x EXCEPT !.did = 0, !.pc = pc]
  BY <1>2, <1>3
<1>5. y \in Exec
  BY <1>4 DEF Exec
<1>6. y.run = x.run /\ y.idx = x.idx /\ y.inflight = x.inflight
  BY <1>4 DEF Exec
<1>7. Drives(y) /\ y.pc # "work"
  BY <1>2 DEF Drives
<1>8. Agrees(y, d)
  BY <1>2, <1>6 DEF Agrees, SameCallee
<1> QED
  BY <1>1, <1>5, <1>6, <1>7, <1>8 DEF y

\* What an execution that drives a run knows.
LEMMA AtDriver ==
    ASSUME IInv, Alone, NEW e \in Execs, execs[e].pc \notin {"off", "resume", "release"}
    PROVE  LET x == execs[e]  d == dep[x.run] IN
           /\ Driving(e) /\ x \in Exec /\ d \in Deploy /\ x.run \in RunIds /\ x.idx \in 1..14 /\ x.idx = d.idx
           /\ Agrees(x, d) /\ CalleeAt(x.inflight, x.idx) /\ CalleeAt(d.inflight, d.idx)
           /\ dep = [dep EXCEPT ![x.run] = d]
BY AtNode, TypeParts DEF IInv, Alone, Driving, Drives, ExecFits, Agrees

LEMMA RefusedAlone ==
    ASSUME IInv, Alone, NEW e \in Execs, Driving(e), Refused(e),
           NEW d, dep' = [dep EXCEPT ![execs[e].run] = d], CalleeAt(d.inflight, d.idx)
    PROVE  Alone'
BY OffAlone, DriveAlone DEF Refused, Stop, GoesOn

LEMMA StepWorksAlone ==
    ASSUME IInv, Alone, NEW e \in Execs, StepWorks(e)
    PROVE  Alone'
<1> DEFINE o == execs[e]
           r == o.run
           d == dep[r]
<1>1. o.pc \in {"step", "work"}
  BY DEF StepWorks, StepBegins, CloudWork, BoxWork, PocWork, StepSucceeds, StepFails, At
<1>2. /\ Driving(e) /\ o \in Exec /\ d \in Deploy /\ r \in RunIds /\ o.idx \in 1..14 /\ o.idx = d.idx
      /\ Agrees(o, d) /\ CalleeAt(o.inflight, o.idx) /\ CalleeAt(d.inflight, d.idx)
      /\ dep = [dep EXCEPT ![r] = d]
  BY <1>1, AtDriver
<1>3. o.inflight.kind = "none" /\ d.inflight.kind = "none"
  BY <1>1, <1>2 DEF Agrees
<1>4. ASSUME UNCHANGED dep, GoesOn(r), NEW pc \in {"step", "work", "fail"}, NEW did, NEW comp,
             execs' = [execs EXCEPT ![e] = [o EXCEPT !.pc = pc, !.did = did, !.comp = comp]]
      PROVE  Alone'
  <2> DEFINE x == [o EXCEPT !.pc = pc, !.did = did, !.comp = comp]
  <2>1. x.pc = pc /\ x.run = r /\ x.idx = o.idx /\ x.inflight = o.inflight
    BY <1>2 DEF Exec
  <2> HIDE DEF x
  <2>2. Agrees(x, d)
    BY <1>2, <1>3, <2>1 DEF Agrees
  <2> QED
    BY <1>2, <1>4, <2>1, <2>2, DriveOnlyAlone DEF x
<1>5. CASE StepBegins(e)
  <2>1. CASE Refused(e)
    BY <1>2, <1>5, <2>1, RefusedAlone DEF StepBegins
  <2>2. CASE Recorded(e) /\ Goto(e, "work")
    <3>1. execs' = [execs EXCEPT ![e] = [o EXCEPT !.pc = "work", !.did = o.did, !.comp = o.comp]]
      BY <1>2, <2>2 DEF Goto, Exec
    <3> QED
      BY <1>4, <1>5, <2>2, <3>1 DEF StepBegins, Recorded, GoesOn
  <2> QED
    BY <1>5, <2>1, <2>2 DEF StepBegins
<1>6. CASE CloudWork(e) \/ BoxWork(e) \/ PocWork(e)
  <2>1. PICK did : execs' = [execs EXCEPT ![e].did = did]
    BY <1>6 DEF CloudWork, BoxWork, PocWork
  <2>2. UNCHANGED <<dep, runs>> /\ o.pc = "work"
    BY <1>6 DEF CloudWork, BoxWork, PocWork, At
  <2>3. execs' = [execs EXCEPT ![e] = [o EXCEPT !.pc = "work", !.did = did, !.comp = o.comp]]
    BY <1>2, <2>1, <2>2 DEF Exec
  <2> QED
    BY <1>4, <2>2, <2>3 DEF GoesOn
<1>7. CASE StepSucceeds(e)
  <2> DEFINE c == [d EXCEPT !.idx = o.idx + 1]
             x == [o EXCEPT !.idx = @ + 1]
  <2>1. /\ dep' = [dep EXCEPT ![r] = c]
        /\ (Recorded(e) /\ Proceed(e, x)) \/ Refused(e)
        /\ o.pc = "work"
    BY <1>7 DEF StepSucceeds, At
  <2>2. c.idx = o.idx + 1 /\ c.inflight = d.inflight
    BY <1>2 DEF Deploy
  <2>3. o.idx \in 1..13
    BY <2>1, AtNode DEF ExecFits
  <2>4. x \in Exec /\ x.idx = o.idx + 1 /\ x.inflight = o.inflight /\ x.run = r
    <3>1. o.idx + 1 \in 0..Len(Pipeline) + 1
      BY <2>3, PipelineIs
    <3> QED
      BY <1>2, <3>1 DEF Exec
  <2>5. CalleeAt(c.inflight, c.idx) /\ CalleeAt(x.inflight, x.idx)
    BY <1>3, <2>2, <2>4 DEF CalleeAt
  <2> HIDE DEF c, x
  <2>6. CASE Refused(e)
    BY <1>2, <2>1, <2>5, <2>6, RefusedAlone
  <2>7. CASE Recorded(e) /\ Proceed(e, x)
    <3>1. SameCallee(x.inflight, c.inflight)
      <4>1. Agrees(o, d) /\ o.pc = "work"
        BY <1>2, <2>1
      <4> QED
        BY <1>3, <2>2, <2>4 DEF SameCallee
    <3>2. PICK y \in Exec : y.run = r /\ Agrees(y, c) /\ execs' = [execs EXCEPT ![e] = y]
      BY <2>2, <2>3, <2>4, <2>5, <2>7, <3>1, RouteAgrees
    <3> QED
      BY <1>2, <2>1, <2>5, <2>7, <3>2, DriveAlone DEF GoesOn, Recorded
  <2> QED
    BY <2>1, <2>6, <2>7
<1>8. CASE StepFails(e)
  <2>1. /\ o.pc = "work" /\ UNCHANGED dep
        /\ \/ Refused(e)
           \/ /\ Recorded(e)
              /\ execs' = [execs EXCEPT ![e] =
                    IF StepOf(e) \in DOMAIN Repairable THEN [o EXCEPT !.did = 0, !.pc = "repair", !.comp = Repairable[StepOf(e)]]
                    ELSE [o EXCEPT !.did = 0, !.pc = "fail"]]
    BY <1>8 DEF StepFails, At
  <2>2. CASE Refused(e)
    BY <1>2, <2>1, <2>2, RefusedAlone
  <2>3. CASE StepOf(e) \notin DOMAIN Repairable /\ ~Refused(e)
    <3>1. execs' = [execs EXCEPT ![e] = [o EXCEPT !.pc = "fail", !.did = 0, !.comp = o.comp]]
      BY <1>2, <2>1, <2>3 DEF Exec
    <3> QED
      BY <1>4, <2>1, <2>3, <3>1 DEF Recorded, GoesOn
  <2>4. CASE StepOf(e) \in DOMAIN Repairable /\ ~Refused(e)
    <3> DEFINE x == [o EXCEPT !.did = 0, !.pc = "repair", !.comp = Repairable[StepOf(e)]]
    <3>1. execs' = [execs EXCEPT ![e] = x] /\ Recorded(e)
      BY <2>1, <2>4
    <3>2. x.pc = "repair" /\ x.run = r /\ x.idx = o.idx /\ x.inflight = o.inflight
      BY <1>2 DEF Exec
    <3> HIDE DEF x
    <3>3. Pipeline[o.idx] \in {"seed_data", "build_backend", "start_backend", "build_frontend"}
      BY <2>4 DEF Repairable, StepOf
    <3>4. o.idx \in 1..13
      BY <2>1, AtNode DEF ExecFits
    <3>5. o.idx \in 6..13
      BY <3>3, <3>4, PipelineIs
    <3>6. Agrees(x, d)
      BY <1>2, <1>3, <3>2, <3>5 DEF Agrees
    <3> QED
      BY <1>2, <2>1, <3>1, <3>2, <3>6, DriveOnlyAlone DEF Recorded, GoesOn
  <2> QED
    BY <2>2, <2>3, <2>4
<1> QED
  BY <1>5, <1>6, <1>7, <1>8 DEF StepWorks

LEMMA CallsAlone ==
    ASSUME IInv, Alone, NEW e \in Execs, Calls(e)
    PROVE  Alone'
<1> DEFINE o == execs[e]
           r == o.run
           d == dep[r]
<1>1. o.pc \in {"repair", "tests", "mark", "fire", "clear"}
  BY DEF Calls, CountAttempt, AskForTests, MarkInFlight, Fire, FireRaises, ClearInFlight, At
<1>2. /\ Driving(e) /\ o \in Exec /\ d \in Deploy /\ r \in RunIds /\ o.idx \in 1..14 /\ o.idx = d.idx
      /\ Agrees(o, d) /\ CalleeAt(o.inflight, o.idx) /\ CalleeAt(d.inflight, d.idx)
      /\ dep = [dep EXCEPT ![r] = d]
  BY <1>1, AtDriver
<1>3. CASE CountAttempt(e)
  <2> DEFINE n == Least(d.tries[o.comp] + 1, MaxRepairs + 1)
             i == [Nothing EXCEPT !.kind = "repair", !.comp = o.comp, !.attempt = n]
             c == [d EXCEPT !.tries[o.comp] = n]
             x == [o EXCEPT !.pc = "fail"]
             y == [o EXCEPT !.pc = "mark", !.inflight = i]
  <2>1. /\ dep' = [dep EXCEPT ![r].tries[o.comp] = n]
        /\ execs' = [execs EXCEPT ![e] = IF n > MaxRepairs THEN x ELSE y]
        /\ Store!TouchRun(r) /\ o.pc = "repair"
    BY <1>3 DEF CountAttempt, At
  <2>2. dep' = [dep EXCEPT ![r] = c]
    BY <1>2, <2>1
  <2>3. c.idx = d.idx /\ c.inflight = d.inflight
    BY <1>2 DEF Deploy
  <2>4. i.kind = "repair"
    BY DEF Nothing
  <2> HIDE DEF n, i, c
  <2>5. /\ x.pc = "fail" /\ x.run = r /\ x.idx = o.idx /\ x.inflight = o.inflight
        /\ y.pc = "mark" /\ y.run = r /\ y.idx = o.idx /\ y.inflight = i
    BY <1>2 DEF Exec
  <2> HIDE DEF x, y
  <2>6. o.inflight.kind = "none" /\ d.inflight.kind = "none" /\ o.idx \in 6..13
    BY <1>2, <2>1 DEF Agrees
  <2>7. Agrees(x, c)
    BY <1>2, <2>3, <2>5, <2>6 DEF Agrees
  <2>8. Agrees(y, c)
    BY <1>2, <2>3, <2>4, <2>5, <2>6 DEF Agrees, CalleeAt
  <2>9. CalleeAt(c.inflight, c.idx)
    BY <1>2, <2>3
  <2>10. execs' = [execs EXCEPT ![e] = x] \/ execs' = [execs EXCEPT ![e] = y]
    BY <2>1
  <2> QED
    BY <1>2, <2>1, <2>2, <2>5, <2>7, <2>8, <2>9, <2>10, DriveAlone DEF GoesOn
<1>4. CASE AskForTests(e)
  <2> DEFINE i == [Nothing EXCEPT !.kind = "test"]
             c == [d EXCEPT !.idx = o.idx + 1]
             x == [o EXCEPT !.idx = @ + 1]
             y == [o EXCEPT !.pc = "mark", !.inflight = i]
  <2>1. /\ o.pc = "tests" /\ o.idx = 12
    BY <1>4, AtNode DEF AskForTests, At, ExecFits
  <2>2. o.inflight.kind = "none" /\ d.inflight.kind = "none"
    BY <1>2, <2>1 DEF Agrees
  <2>3. CASE Refused(e) /\ UNCHANGED dep
    BY <1>2, <2>3, RefusedAlone
  <2>4. CASE Recorded(e) /\ UNCHANGED dep /\ execs' = [execs EXCEPT ![e] = y]
    <3>1. i.kind = "test"
      BY DEF Nothing
    <3> HIDE DEF i
    <3>2. y.pc = "mark" /\ y.run = r /\ y.idx = 12 /\ y.inflight = i
      BY <1>2, <2>1 DEF Exec
    <3> HIDE DEF y
    <3>3. Agrees(y, d)
      BY <1>2, <2>1, <2>2, <3>1, <3>2 DEF Agrees, CalleeAt
    <3> QED
      BY <1>2, <2>4, <3>2, <3>3, DriveOnlyAlone DEF GoesOn, Recorded
  <2>5. CASE Recorded(e) /\ dep' = [dep EXCEPT ![r].idx = o.idx + 1] /\ Proceed(e, x)
    <3>1. c.idx = 13 /\ c.inflight = d.inflight /\ dep' = [dep EXCEPT ![r] = c]
      BY <1>2, <2>1, <2>5 DEF Deploy
    <3>2. x \in Exec /\ x.idx = 13 /\ x.inflight = o.inflight /\ x.run = r
      BY <1>2, <2>1, PipelineIs DEF Exec
    <3> HIDE DEF c, x
    <3>3. /\ CalleeAt(c.inflight, c.idx) /\ CalleeAt(x.inflight, x.idx) /\ SameCallee(x.inflight, c.inflight)
      BY <2>2, <3>1, <3>2 DEF CalleeAt, SameCallee
    <3>4. PICK z \in Exec : z.run = r /\ Agrees(z, c) /\ execs' = [execs EXCEPT ![e] = z]
      BY <2>5, <3>1, <3>2, <3>3, RouteAgrees
    <3> QED
      BY <1>2, <2>5, <3>1, <3>3, <3>4, DriveAlone DEF GoesOn, Recorded
  <2>6. \/ Refused(e) /\ UNCHANGED dep
        \/ Recorded(e) /\ UNCHANGED dep /\ execs' = [execs EXCEPT ![e] = y]
        \/ Recorded(e) /\ dep' = [dep EXCEPT ![r].idx = o.idx + 1] /\ Proceed(e, x)
    BY <1>4 DEF AskForTests
  <2> QED
    BY <2>3, <2>4, <2>5, <2>6
<1>5. CASE MarkInFlight(e)
  <2>1. PICK n : LET callee == [o.inflight EXCEPT !.after = IF o.inflight.kind = "test" THEN n ELSE 0]
                 IN  /\ dep' = [dep EXCEPT ![r].inflight = callee]
                     /\ execs' = [execs EXCEPT ![e].pc = "fire", ![e].inflight = callee]
    BY <1>5 DEF MarkInFlight
  <2>2. o.pc = "mark" /\ Store!TouchRun(r) /\ o.inflight \in InFlight
    BY <1>2, <1>5 DEF MarkInFlight, At, Exec
  <2>3. PICK i : /\ i.kind = o.inflight.kind
                 /\ dep' = [dep EXCEPT ![r].inflight = i]
                 /\ execs' = [execs EXCEPT ![e].pc = "fire", ![e].inflight = i]
    BY <2>1, <2>2 DEF InFlight
  <2> DEFINE c == [d EXCEPT !.inflight = i]
             x == [o EXCEPT !.pc = "fire", !.inflight = i]
  <2>4. c.idx = d.idx /\ c.inflight = i /\ dep' = [dep EXCEPT ![r] = c]
    BY <1>2, <2>3 DEF Deploy
  <2>5. x.pc = "fire" /\ x.run = r /\ x.idx = o.idx /\ x.inflight = i /\ execs' = [execs EXCEPT ![e] = x]
    BY <1>2, <2>3 DEF Exec
  <2> HIDE DEF c, x
  <2>6. o.inflight.kind # "none" /\ CalleeAt(i, d.idx)
    BY <1>2, <2>2, <2>3 DEF Agrees, CalleeAt
  <2>7. Agrees(x, c)
    BY <1>2, <2>3, <2>4, <2>5, <2>6 DEF Agrees, SameCallee
  <2> QED
    BY <1>2, <2>2, <2>4, <2>5, <2>6, <2>7, DriveAlone DEF GoesOn
<1>6. CASE Fire(e)
  <2>1. o.pc = "fire" /\ Proceed(e, o) /\ UNCHANGED <<runs, dep>>
    BY <1>6 DEF Fire, At
  <2>2. SameCallee(o.inflight, d.inflight)
    BY <1>2, <2>1 DEF Agrees
  <2>3. PICK z \in Exec : z.run = r /\ Agrees(z, d) /\ execs' = [execs EXCEPT ![e] = z]
    BY <1>2, <2>1, <2>2, RouteAgrees
  <2> QED
    BY <1>2, <2>1, <2>3, DriveOnlyAlone DEF GoesOn
<1>7. CASE FireRaises(e)
  <2> DEFINE x == [o EXCEPT !.pc = "clear"]
  <2>1. o.pc = "fire" /\ UNCHANGED <<runs, dep>> /\ execs' = [execs EXCEPT ![e] = x]
    BY <1>7 DEF FireRaises, At, Goto
  <2>2. x.pc = "clear" /\ x.run = r /\ x.idx = o.idx /\ x.inflight = o.inflight
    BY <1>2 DEF Exec
  <2> HIDE DEF x
  <2>3. Agrees(x, d)
    BY <1>2, <2>1, <2>2 DEF Agrees
  <2> QED
    BY <1>2, <2>1, <2>2, <2>3, DriveOnlyAlone DEF GoesOn
<1>8. CASE ClearInFlight(e)
  <2> DEFINE c == [d EXCEPT !.inflight = Nothing]
             x == [o EXCEPT !.pc = "fail", !.inflight = Nothing]
  <2>1. dep' = [dep EXCEPT ![r] = c] /\ execs' = [execs EXCEPT ![e] = x] /\ Store!TouchRun(r) /\ o.pc = "clear"
    BY <1>2, <1>8 DEF ClearInFlight, At
  <2>2. c.idx = d.idx /\ c.inflight = Nothing
    BY <1>2 DEF Deploy
  <2>3. x.pc = "fail" /\ x.run = r /\ x.idx = o.idx /\ x.inflight = Nothing
    BY <1>2 DEF Exec
  <2>4. Nothing.kind = "none"
    BY DEF Nothing
  <2> HIDE DEF c, x
  <2>5. CalleeAt(Nothing, d.idx)
    BY <2>4 DEF CalleeAt
  <2>6. Agrees(x, c)
    BY <1>2, <2>2, <2>3, <2>4, <2>5 DEF Agrees
  <2> QED
    BY <1>2, <2>1, <2>2, <2>3, <2>5, <2>6, DriveAlone DEF GoesOn
<1> QED
  BY <1>3, <1>4, <1>5, <1>6, <1>7, <1>8 DEF Calls

LEMMA WaitsAlone ==
    ASSUME IInv, Alone, NEW e \in Execs, Waits(e)
    PROVE  Alone'
<1> DEFINE o == execs[e]
           r == o.run
           d == dep[r]
           w == [o EXCEPT !.inflight = Nothing]
<1>1. o.pc = "wait" /\ Store!TouchRun(r)
  BY DEF Waits, TestsAnswer, RepairAnswers, WaitFails, WaitWindow, At
<1>2. /\ Driving(e) /\ o \in Exec /\ d \in Deploy /\ r \in RunIds /\ o.idx \in 1..14 /\ o.idx = d.idx
      /\ Agrees(o, d) /\ CalleeAt(o.inflight, o.idx) /\ CalleeAt(d.inflight, d.idx)
      /\ dep = [dep EXCEPT ![r] = d]
  BY <1>1, AtDriver
<1>3. GoesOn(r)
  BY <1>1 DEF GoesOn
<1>4. Nothing.kind = "none" /\ Nothing \in InFlight /\ \A idx : CalleeAt(Nothing, idx)
  BY OffTyped DEF Nothing, CalleeAt
<1>5. CASE WaitFails(e) \/ WaitWindow(e)
  <2>1. PICK pc \in {"clear", "handover"} : execs' = [execs EXCEPT ![e].pc = pc] /\ UNCHANGED dep
    BY <1>5 DEF WaitFails, WaitWindow, Goto
  <2> DEFINE x == [o EXCEPT !.pc = pc]
  <2>2. x.pc = pc /\ x.run = r /\ x.idx = o.idx /\ x.inflight = o.inflight /\ execs' = [execs EXCEPT ![e] = x]
    BY <1>2, <2>1 DEF Exec
  <2> HIDE DEF x
  <2>3. Agrees(x, d)
    BY <1>1, <1>2, <2>2 DEF Agrees
  <2> QED
    BY <1>2, <1>3, <2>1, <2>2, <2>3, DriveOnlyAlone
\* The wait is over and the run goes on at step n.
<1>6. ASSUME NEW n \in {5, 13}, NEW c, dep' = [dep EXCEPT ![r] = c], c.idx = n, c.inflight = Nothing,
             Proceed(e, [w EXCEPT !.idx = n])
      PROVE  Alone'
  <2> DEFINE x == [w EXCEPT !.idx = n]
  <2>1. x \in Exec /\ x.idx = n /\ x.inflight = Nothing /\ x.run = r /\ n \in 1..14
    <3>1. w \in Exec /\ w.inflight = Nothing /\ w.run = r /\ n \in 0..Len(Pipeline) + 1 /\ n \in 1..14
      BY <1>2, <1>4, PipelineIs DEF Exec
    <3> HIDE DEF w
    <3> QED
      BY <3>1 DEF Exec
  <2>4. Proceed(e, x)
    BY <1>6
  <2> HIDE DEF x
  <2>2. SameCallee(Nothing, Nothing)
    BY DEF SameCallee
  <2>3. PICK z \in Exec : z.run = r /\ Agrees(z, c) /\ execs' = [execs EXCEPT ![e] = z]
    BY <1>4, <1>6, <2>1, <2>2, <2>4, RouteAgrees
  <2> QED
    BY <1>2, <1>3, <1>4, <1>6, <2>3, DriveAlone
<1>7. CASE RepairAnswers(e)
  <2> DEFINE c == [d EXCEPT !.ver = repairs[AttemptOf(e)].ver, !.inflight = Nothing, !.idx = 5]
  <2>1. dep' = [dep EXCEPT ![r] = c] /\ Proceed(e, [o EXCEPT !.inflight = Nothing, !.idx = 5])
    BY <1>2, <1>7, PipelineFacts DEF RepairAnswers
  <2>2. c.idx = 5 /\ c.inflight = Nothing
    BY <1>2 DEF Deploy
  <2>3. [o EXCEPT !.inflight = Nothing, !.idx = 5] = [w EXCEPT !.idx = 5]
    BY <1>2 DEF Exec
  <2> HIDE DEF c
  <2> QED
    BY <1>6, <2>1, <2>2, <2>3
<1>8. CASE TestsAnswer(e)
  <2>1. PICK q \in Answering(e) :
           LET passed == runs[q].status = "succeeded" /\ Passed(q)
           IN  /\ dep' = [dep EXCEPT ![r].inflight = Nothing, ![r].verdict = q, ![r].passed = passed,
                                     ![r].idx = IF passed THEN Position("run_tests") + 1 ELSE @]
               /\ IF passed THEN Proceed(e, [w EXCEPT !.idx = Position("run_tests") + 1])
                  ELSE execs' = [execs EXCEPT ![e] =
                          IF runs[q].status = "succeeded" THEN [w EXCEPT !.pc = "repair", !.comp = Suspect(q)]
                          ELSE [w EXCEPT !.pc = "fail"]]
    BY <1>8 DEF TestsAnswer
  <2>2. Position("run_tests") + 1 = 13
    BY PipelineFacts
  <2>3. o.inflight.kind = "test"
    BY <1>8 DEF TestsAnswer
  <2>4. o.idx = 12
    BY <1>2, <2>3 DEF CalleeAt
  <2> DEFINE passed == runs[q].status = "succeeded" /\ Passed(q)
             c == [d EXCEPT !.inflight = Nothing, !.verdict = q, !.passed = passed, !.idx = IF passed THEN 13 ELSE @]
  <2>5. dep' = [dep EXCEPT ![r] = c]
    BY <1>2, <2>1, <2>2
  <2>6. c.inflight = Nothing /\ c.idx = IF passed THEN 13 ELSE 12
    BY <1>2, <2>4 DEF Deploy
  <2>7. CASE passed
    <3>1. Proceed(e, [w EXCEPT !.idx = 13])
      BY <2>1, <2>2, <2>7
    <3>2. c.idx = 13
      BY <2>6, <2>7
    <3> HIDE DEF c, w
    <3> QED
      BY <1>6, <2>5, <2>6, <3>1, <3>2
  <2>8. CASE ~passed
    <3>1. c.idx = 12 /\ c.inflight = Nothing
      BY <2>6, <2>8
    <3> DEFINE x == [w EXCEPT !.pc = "repair", !.comp = Suspect(q)]
               y == [w EXCEPT !.pc = "fail"]
    <3>2. /\ x.pc = "repair" /\ x.run = r /\ x.idx = 12 /\ x.inflight = Nothing
          /\ y.pc = "fail" /\ y.run = r /\ y.idx = 12 /\ y.inflight = Nothing
      BY <1>2, <1>4, <2>4 DEF Exec
    <3>3. execs' = [execs EXCEPT ![e] = x] \/ execs' = [execs EXCEPT ![e] = y]
      BY <2>1, <2>8
    <3> HIDE DEF c, w, x, y
    <3>4. Agrees(x, c) /\ Agrees(y, c)
      BY <1>4, <3>1, <3>2 DEF Agrees
    <3>5. ASSUME NEW z, z \in {x, y}, execs' = [execs EXCEPT ![e] = z] PROVE Alone'
      <4>1. Agrees(z, c) /\ z.run = r
        BY <3>2, <3>4, <3>5
      <4> QED
        BY <1>2, <1>3, <1>4, <2>5, <3>1, <3>5, <4>1, DriveAlone
    <3> QED
      BY <3>3, <3>5
  <2> QED
    BY <2>7, <2>8
<1> QED
  BY <1>5, <1>7, <1>8 DEF Waits

LEMMA LeavesAlone ==
    ASSUME IInv, Alone, NEW e \in Execs, Leaves(e) \/ Die(e)
    PROVE  Alone'
<1> DEFINE o == execs[e]
           r == o.run
           d == dep[r]
<1>1. /\ o.pc # "off" /\ o \in Exec /\ d \in Deploy /\ r \in RunIds /\ d.idx \in 1..14
      /\ dep = [dep EXCEPT ![r] = d] /\ CalleeAt(d.inflight, d.idx)
  <2>1. o.pc # "off"
    BY DEF Leaves, Resume, HandOver, Finish, FinishFailed, ReleasePoc, Die, At
  <2> QED
    BY <2>1, AtNode DEF Alone
<1>2. UNCHANGED dep
  BY DEF Leaves, Resume, HandOver, Finish, FinishFailed, ReleasePoc, Die
\* An execution ends: killed, at the end of its work, or with nothing left to do.
<1>3. ASSUME UNCHANGED runs, Stop(e) PROVE Alone'
  <2>1. Succeeded(r) => d.idx = 14
    BY <1>1 DEF Alone
  <2>2. runs'[r].status = "succeeded" => d.idx = 14
    BY <1>1, <1>3, <2>1, AtNode DEF Succeeded, IsDeploy
  <2>3. execs' = [execs EXCEPT ![e] = Off] /\ RunWrite(r) /\ dep' = [dep EXCEPT ![r] = d]
    BY <1>1, <1>2, <1>3 DEF Stop, RunWrite
  <2>4. Driving(e) \/ (d = dep[r] /\ ~Drives(Off) /\ UNCHANGED runs)
    BY <1>3, OffAlone
  <2>5. runs'[r].status = "succeeded" => d.idx = 14 /\ ~Drives(Off)
    BY <2>2, OffAlone
  <2> HIDE DEF d
  <2> QED
    BY <1>1, <2>3, <2>4, <2>5, OffAlone, StepAlone
<1>4. CASE Die(e) \/ ReleasePoc(e)
  BY <1>3, <1>4 DEF Die, ReleasePoc
<1>5. CASE Resume(e)
  <2> DEFINE x == [o EXCEPT !.idx = d.idx, !.inflight = d.inflight]
  <2>1. CASE Store!ReopenRun(r) /\ execs' = [execs EXCEPT ![e] = Route(x, FALSE)]
    <3>1. x \in Exec /\ x.idx = d.idx /\ x.inflight = d.inflight /\ x.run = r
      BY <1>1 DEF Exec, Deploy
    <3>2. Driving(e)
      BY <1>5 DEF Resume, At, Driving, Drives
    <3> HIDE DEF x
    <3>3. Proceed(e, x) /\ SameCallee(d.inflight, d.inflight)
      BY <2>1 DEF Proceed, SameCallee
    <3>4. PICK z \in Exec : z.run = r /\ Agrees(z, d) /\ execs' = [execs EXCEPT ![e] = z]
      BY <1>1, <3>1, <3>3, RouteAgrees
    <3> QED
      BY <1>2, <2>1, <3>2, <3>4, DriveOnlyAlone DEF GoesOn
  <2>2. CASE Stop(e) /\ UNCHANGED runs
    BY <1>3, <2>2
  <2> QED
    BY <1>5, <2>1, <2>2 DEF Resume
<1>6. CASE HandOver(e)
  <2>1. /\ Driving(e) /\ o.idx \in 1..14 /\ o.idx = d.idx /\ Agrees(o, d) /\ CalleeAt(o.inflight, o.idx)
        /\ GoesOn(r) /\ o.pc = "handover"
    BY <1>6, AtDriver DEF HandOver, At, GoesOn
  <2>2. CASE execs' = [execs EXCEPT ![e] = [Off EXCEPT !.pc = "resume", !.run = execs[e].run]]
    <3> DEFINE x == [Off EXCEPT !.pc = "resume", !.run = execs[e].run]
    <3>1. x.pc = "resume" /\ x.run = r
      BY DEF Off
    <3> HIDE DEF x
    <3>2. Agrees(x, d)
      BY <3>1 DEF Agrees
    <3> QED
      BY <1>2, <2>1, <2>2, <3>1, <3>2, DriveOnlyAlone DEF x
  <2>3. CASE Stop(e)
    BY <1>2, <2>1, <2>3, OffAlone, DriveOnlyAlone DEF Stop
  <2>4. CASE execs' = [execs EXCEPT ![e] = Route(o, FALSE)]
    <3>1. SameCallee(o.inflight, d.inflight) /\ Proceed(e, o)
      BY <2>1, <2>4 DEF Agrees, Proceed
    <3>2. PICK z \in Exec : z.run = r /\ Agrees(z, d) /\ execs' = [execs EXCEPT ![e] = z]
      BY <1>1, <2>1, <3>1, RouteAgrees
    <3> QED
      BY <1>2, <2>1, <3>2, DriveOnlyAlone
  <2> QED
    BY <1>6, <2>2, <2>3, <2>4 DEF HandOver
<1>7. CASE Finish(e)
  <2>1. Driving(e) /\ Agrees(o, d) /\ o.idx = d.idx /\ o.pc = "finish"
    BY <1>7, AtDriver DEF Finish, At
  <2>2. d.idx = 14
    BY <2>1 DEF Agrees
  <2>3. RunWrite(r) /\ execs' = [execs EXCEPT ![e] = Off] /\ dep' = [dep EXCEPT ![r] = d]
    BY <1>1, <1>2, <1>7 DEF Finish, RunWrite, Stop
  <2> QED
    BY <1>1, <2>1, <2>2, <2>3, OffAlone, StepAlone
<1>8. CASE FinishFailed(e)
  <2> DEFINE x == [o EXCEPT !.pc = "release"]
  <2>1. execs' = [execs EXCEPT ![e] = x] /\ GoesOn(r) /\ Driving(e)
    BY <1>8 DEF FinishFailed, Goto, GoesOn, At, Driving, Drives
  <2>2. x.pc = "release" /\ x.run = r
    BY <1>1 DEF Exec
  <2> HIDE DEF x
  <2> QED
    BY <1>2, <2>1, <2>2, DriveOnlyAlone DEF Drives
<1> QED
  BY <1>4, <1>5, <1>6, <1>7, <1>8 DEF Leaves

\* What the others do to the runs: a test run or a teardown is written.
LEMMA OutsideAlone ==
    ASSUME Alone, UNCHANGED <<dep, execs>>,
           \A r \in RunIds : runs'[r].stage = "deploy" => runs'[r] = runs[r],
           \A r \in RunIds : runs'[r].silent => Store!IsActive(r)'
    PROVE  Alone'
BY DEF Alone, IsDeploy, Succeeded, Driving, Agrees, SameCallee, CalleeAt

LEMMA NonDeployWrite ==
    ASSUME IInv, Alone, UNCHANGED <<dep, execs>>, NEW q \in RunIds, ~IsDeploy(q),
           RunWrite(q) \/ (Store!GoSilent(q) /\ Store!IsActive(q))
    PROVE  Alone'
<1>1. runs \in [RunIds -> Store!RunDoc] /\ runs[q].stage # "deploy"
  BY TypeParts DEF IInv, Store!TypeOK, IsDeploy
<1>2. CASE UNCHANGED runs
  BY <1>2, OutsideAlone DEF Alone, Store!IsActive
<1>3. CASE \E status : Wrote(q, status)
  <2>1. /\ runs'[q].stage = runs[q].stage /\ ~runs'[q].silent
        /\ \A r \in RunIds : r # q => runs'[r] = runs[r]
    BY <1>1, <1>3 DEF Wrote, Store!RunDoc
  <2> QED
    BY <1>1, <2>1, OutsideAlone DEF Alone, Store!IsActive
<1>4. CASE Store!GoSilent(q) /\ Store!IsActive(q)
  <2>1. /\ runs'[q].stage = runs[q].stage /\ runs'[q].status = runs[q].status
        /\ \A r \in RunIds : r # q => runs'[r] = runs[r]
    BY <1>1, <1>4 DEF Store!GoSilent, Store!RunDoc
  <2> QED
    BY <1>1, <1>4, <2>1, OutsideAlone DEF Alone, Store!IsActive
<1> QED
  BY <1>2, <1>3, <1>4, WritesAre DEF RunWrite

LEMMA NonDeployCreate ==
    ASSUME IInv, Alone, UNCHANGED <<dep, execs>>, NEW q \in RunIds, NEW s \in {"test", "teardown"}, CreateRun(q, s)
    PROVE  Alone'
<1>1. /\ Absent(q) /\ runs \in [RunIds -> Store!RunDoc]
      /\ runs' = [runs EXCEPT ![q] = [stage |-> s, status |-> "queued", silent |-> FALSE]]
  BY CreateMoves, TypeParts DEF Stages, IInv, Store!TypeOK
<1>2. runs'[q].stage = s /\ ~runs'[q].silent /\ \A r \in RunIds : r # q => runs'[r] = runs[r]
  BY <1>1
<1> QED
  BY <1>2, OutsideAlone DEF Alone, Store!IsActive

LEMMA TestingAlone ==
    ASSUME IInv, Alone, NEW k \in Testers, Testing(k)
    PROVE  Alone'
<1>1. /\ UNCHANGED <<dep, execs>>
      /\ \/ \E q \in RunIds : IsTest(q) /\ RunWrite(q)
         \/ \E q \in RunIds : CreateRun(q, "test")
         \/ UNCHANGED runs
  BY TestingWrites
<1>2. CASE UNCHANGED runs
  BY <1>1, <1>2, OutsideAlone DEF Alone, Store!IsActive
<1> QED
  BY <1>1, <1>2, NonDeployWrite, NonDeployCreate DEF IsTest, IsDeploy

LEMMA SweepsWrite ==
    ASSUME IInv, SweepWorks \/ SweepBreaking \/ AbandonTeardown \/ \E reaper \in BOOLEAN : TearsDown(reaper)
    PROVE  /\ UNCHANGED <<testVars, dep, repairs, execs>>
           /\ \/ \E q \in RunIds : IsTeardown(q) /\ RunWrite(q)
              \/ \E q \in RunIds : CreateRun(q, "teardown")
              \/ UNCHANGED runs
<1>1. UNCHANGED <<testVars, dep, repairs, execs>>
  BY DEF SweepWorks, SweepBreaking, AbandonTeardown, TearsDown
<1>2. \/ \E q \in RunIds : IsTeardown(q) /\ RunWrite(q)
      \/ \E q \in RunIds : CreateRun(q, "teardown")
      \/ UNCHANGED runs
  <2>1. sweep.pc # "off" => sweep.run \in RunIds /\ IsTeardown(sweep.run)
    BY DEF IInv, Placed, IsTeardown
  <2>2. CASE AbandonTeardown
    BY <2>2 DEF AbandonTeardown, Newest, OfStage, IsTeardown, RunWrite
  <2>3. CASE \E reaper \in BOOLEAN : TearsDown(reaper)
    BY <2>3 DEF TearsDown, StartSweep
  <2>4. CASE Sweeps
    BY <2>1, <2>4 DEF Sweeps, ListRows, DeleteResource, ReleaseRow, TornDown, FinishSweep, RunWrite
  <2>5. CASE SweepBreaks
    BY <2>1, <2>5 DEF SweepBreaks, RowFails, SweepRaises, KillSweep, RunWrite
  <2> QED
    BY <2>2, <2>3, <2>4, <2>5 DEF SweepWorks, SweepBreaking
<1> QED
  BY <1>1, <1>2

LEMMA SweepsAlone ==
    ASSUME IInv, Alone, SweepWorks \/ SweepBreaking \/ AbandonTeardown \/ \E reaper \in BOOLEAN : TearsDown(reaper)
    PROVE  Alone'
<1>1. /\ UNCHANGED <<dep, execs>>
      /\ \/ \E q \in RunIds : IsTeardown(q) /\ RunWrite(q)
         \/ \E q \in RunIds : CreateRun(q, "teardown")
         \/ UNCHANGED runs
  BY SweepsWrite
<1>2. CASE UNCHANGED runs
  BY <1>1, <1>2, OutsideAlone DEF Alone, Store!IsActive
<1> QED
  BY <1>1, <1>2, NonDeployWrite, NonDeployCreate DEF IsTeardown, IsDeploy

LEMMA SilenceAlone ==
    ASSUME IInv, Alone, NEW r \in RunIds, Silence(r)
    PROVE  Alone'
<1>1. /\ Store!GoSilent(r) /\ Store!IsActive(r) /\ UNCHANGED <<dep, execs>>
      /\ \A e \in Execs : execs[e].run # r
  BY DEF Silence, Heartbeats
<1>2. runs \in [RunIds -> Store!RunDoc]
  BY TypeParts DEF IInv, Store!TypeOK
<1>3. \A q \in RunIds : runs'[q].stage = runs[q].stage /\ runs'[q].status = runs[q].status
                        /\ (q # r => runs'[q] = runs[q])
  BY <1>1, <1>2 DEF Store!GoSilent, Store!RunDoc
<1> QED
  BY <1>1, <1>3 DEF Alone, IsDeploy, Succeeded, Driving, Agrees, SameCallee, CalleeAt, Store!IsActive

LEMMA AgeAlone ==
    ASSUME IInv, Alone, NEW r \in RunIds, AgeInFlight(r)
    PROVE  Alone'
<1>1. /\ dep' = [dep EXCEPT ![r].inflight = Older(@)] /\ UNCHANGED runs
      /\ execs' = [e \in Execs |-> IF execs[e].run = r THEN [execs[e] EXCEPT !.inflight = Older(@)] ELSE execs[e]]
  BY DEF AgeInFlight
<1>2. dep \in [RunIds -> Deploy] /\ execs \in [Execs -> Exec]
  BY TypeParts DEF IInv
<1>3. ASSUME NEW q \in RunIds
      PROVE  /\ dep'[q].idx = dep[q].idx /\ dep'[q].inflight.kind = dep[q].inflight.kind
             /\ dep'[q].inflight.comp = dep[q].inflight.comp
             /\ dep'[q].inflight.attempt = dep[q].inflight.attempt
             /\ dep'[q].inflight.after = dep[q].inflight.after
  <2>1. dep[q] \in Deploy /\ dep[q].inflight \in InFlight
    BY <1>2 DEF Deploy
  <2>2. dep'[q] = dep[q] \/ dep'[q] = [dep[q] EXCEPT !.inflight = Older(dep[q].inflight)]
    BY <1>1, <1>2
  <2>3. dep'[q].idx = dep[q].idx /\ (dep'[q].inflight = dep[q].inflight \/ dep'[q].inflight = Older(dep[q].inflight))
    BY <2>1, <2>2 DEF Deploy
  <2> QED
    BY <2>1, <2>3, OlderTyped
<1>4. ASSUME NEW e \in Execs
      PROVE  /\ execs'[e].pc = execs[e].pc /\ execs'[e].run = execs[e].run /\ execs'[e].idx = execs[e].idx
             /\ execs'[e].inflight.kind = execs[e].inflight.kind
             /\ execs'[e].inflight.comp = execs[e].inflight.comp
             /\ execs'[e].inflight.attempt = execs[e].inflight.attempt
             /\ execs'[e].inflight.after = execs[e].inflight.after
  <2>1. execs[e] \in Exec /\ execs[e].inflight \in InFlight
    BY <1>2 DEF Exec
  <2>2. execs'[e] = execs[e] \/ execs'[e] = [execs[e] EXCEPT !.inflight = Older(execs[e].inflight)]
    BY <1>1
  <2>3. /\ execs'[e].pc = execs[e].pc /\ execs'[e].run = execs[e].run /\ execs'[e].idx = execs[e].idx
        /\ execs'[e].inflight = execs[e].inflight \/ execs'[e].inflight = Older(execs[e].inflight)
    BY <2>1, <2>2 DEF Exec
  <2> QED
    BY <2>1, <2>3, OlderTyped
<1>5. ASSUME NEW e \in Execs, Driving(e)' PROVE Agrees(execs'[e], dep'[execs'[e].run])
  <2>1. Driving(e) /\ execs[e].run \in RunIds
    BY <1>4, <1>5, AtNode DEF Driving, Drives
  <2>2. Agrees(execs[e], dep[execs[e].run])
    BY <2>1 DEF Alone
  <2>3. CalleeAt(execs[e].inflight, execs[e].idx) => CalleeAt(execs'[e].inflight, execs'[e].idx)
    BY <1>4 DEF CalleeAt
  <2>4. SameCallee(execs[e].inflight, dep[execs[e].run].inflight) =>
           SameCallee(execs'[e].inflight, dep'[execs'[e].run].inflight)
    BY <1>3, <1>4, <2>1 DEF SameCallee
  <2> QED
    BY <1>3, <1>4, <2>1, <2>2, <2>3, <2>4 DEF Agrees
<1>6. \A q \in RunIds : CalleeAt(dep'[q].inflight, dep'[q].idx)
  BY <1>3 DEF Alone, CalleeAt
<1>7. \A e \in Execs : Driving(e)' => Driving(e)
  BY <1>4 DEF Driving, Drives
<1>8. \A e, f \in Execs : (Driving(e) /\ Driving(f) /\ execs[e].run = execs[f].run)' => e = f
  BY <1>4, <1>7 DEF Alone
<1>9. \A q \in RunIds : Succeeded(q)' => dep'[q].idx = 14 /\ \A e \in Execs : Driving(e)' => execs'[e].run # q
  BY <1>1, <1>3, <1>4, <1>7 DEF Alone, Succeeded
<1>10. \A q \in RunIds : runs'[q].silent => Store!IsActive(q)'
  BY <1>1 DEF Alone, Store!IsActive
<1>11. \A q \in RunIds : IsDeploy(q)' /\ runs'[q].silent => \A e \in Execs : execs'[e].run # q
  BY <1>1, <1>4 DEF Alone, IsDeploy
<1>12. \A e \in Execs : Driving(e)' => Agrees(execs[e], dep[execs[e].run])'
  BY <1>5 DEF Agrees, SameCallee, CalleeAt
<1> QED
  BY <1>6, <1>8, <1>9, <1>10, <1>11, <1>12 DEF Alone, CalleeAt

\* A deployment that begins: a new run, which nobody had to do with before.
LEMMA StartIs ==
    ASSUME IInv, NEW e \in Execs, NEW mode \in Modes, NEW tested \in BOOLEAN, StartDeploy(e, mode, tested)
    PROVE  \E r \in RunIds, d \in Deploy, x \in Exec :
              /\ Absent(r) /\ (\A f \in Execs : execs[f].run # r) /\ execs[e].pc = "off"
              /\ runs' = [runs EXCEPT ![r] = [stage |-> "deploy", status |-> "queued", silent |-> FALSE]]
              /\ dep' = [dep EXCEPT ![r] = d] /\ execs' = [execs EXCEPT ![e] = x]
              /\ d.ver = 1 /\ d.mode = mode /\ d.tests = tested /\ d.idx = 1 /\ d.inflight.kind = "none"
              /\ x.pc = "step" /\ x.run = r /\ x.idx = 1 /\ x.did = 0 /\ x.inflight.kind = "none"
              /\ UNCHANGED <<cloud, ledger, sweep, testVars, repairs>>
<1> DEFINE d == [NoDeploy EXCEPT !.ver = 1, !.mode = mode, !.tests = tested, !.idx = 1]
           x(r) == [Off EXCEPT !.pc = "step", !.run = r, !.idx = 1]
<1>1. PICK r \in RunIds :
         /\ CreateRun(r, "deploy")
         /\ dep' = [dep EXCEPT ![r] = d]
         /\ execs' = [execs EXCEPT ![e] = x(r)]
  BY DEF StartDeploy
<1>2. /\ Absent(r)
      /\ runs' = [runs EXCEPT ![r] = [stage |-> "deploy", status |-> "queued", silent |-> FALSE]]
  BY <1>1, CreateMoves DEF Stages
<1>3. UNCHANGED <<cloud, ledger, sweep, testVars, repairs>> /\ execs[e].pc = "off"
  BY DEF StartDeploy, At
<1>4. \A f \in Execs : execs[f].run # r
  <2> SUFFICES ASSUME NEW f \in Execs, execs[f].run = r PROVE FALSE
    OBVIOUS
  <2>1. execs[f].pc # "off"
    BY StoreFacts DEF IInv, Placed, ExecFits
  <2> QED
    BY <1>2, <2>1, AtNode DEF IsDeploy, DocFits
<1>5. 1 \in Versions /\ 1 \in 0..Len(Pipeline) + 1
  BY PipelineIs, TestAssumption DEF Versions
<1>6. d \in Deploy /\ d.ver = 1 /\ d.mode = mode /\ d.tests = tested /\ d.idx = 1 /\ d.inflight.kind = "none"
  <2>1. NoDeploy \in Deploy /\ NoDeploy.inflight.kind = "none"
    BY OffTyped DEF NoDeploy, Nothing
  <2> QED
    BY <1>5, <2>1 DEF Deploy
<1>7. x(r) \in Exec /\ x(r).pc = "step" /\ x(r).run = r /\ x(r).idx = 1 /\ x(r).did = 0 /\ x(r).inflight.kind = "none"
  <2>1. Off \in Exec /\ Off.did = 0 /\ Off.inflight.kind = "none"
    BY OffTyped DEF Off, Nothing
  <2> QED
    BY <1>5, <2>1 DEF Exec
<1> HIDE DEF d, x
<1> QED
  BY <1>1, <1>2, <1>3, <1>4, <1>6, <1>7

LEMMA StartAlone ==
    ASSUME IInv, Alone, NEW e \in Execs, NEW mode \in Modes, NEW tested \in BOOLEAN, StartDeploy(e, mode, tested)
    PROVE  Alone'
<1>1. PICK r \in RunIds, d \in Deploy, x \in Exec :
         /\ Absent(r) /\ (\A f \in Execs : execs[f].run # r)
         /\ runs' = [runs EXCEPT ![r] = [stage |-> "deploy", status |-> "queued", silent |-> FALSE]]
         /\ dep' = [dep EXCEPT ![r] = d] /\ execs' = [execs EXCEPT ![e] = x]
         /\ d.idx = 1 /\ d.inflight.kind = "none"
         /\ x.pc = "step" /\ x.run = r /\ x.idx = 1 /\ x.inflight.kind = "none"
  BY StartIs
<1>2. /\ runs \in [RunIds -> Store!RunDoc] /\ dep \in [RunIds -> Deploy] /\ execs \in [Execs -> Exec]
  BY TypeParts DEF IInv, Store!TypeOK
<1>3. /\ runs'[r].status = "queued" /\ ~runs'[r].silent /\ \A q \in RunIds : q # r => runs'[q] = runs[q]
      /\ dep'[r] = d /\ \A q \in RunIds : q # r => dep'[q] = dep[q]
      /\ execs'[e] = x /\ \A f \in Execs : f # e => execs'[f] = execs[f]
  BY <1>1, <1>2
<1>4. \A f \in Execs : Driving(f)' => f = e \/ (Driving(f) /\ execs[f].run \in RunIds \ {r})
  BY <1>1, <1>3, AtNode DEF Driving, Drives
<1>5. \A f, g \in Execs : (Driving(f) /\ Driving(g) /\ execs[f].run = execs[g].run)' => f = g
  BY <1>1, <1>3, <1>4 DEF Alone
<1>6. \A q \in RunIds : runs'[q].silent => Store!IsActive(q)'
  BY <1>3 DEF Alone, Store!IsActive
<1>7. \A q \in RunIds : IsDeploy(q)' /\ runs'[q].silent => \A f \in Execs : execs'[f].run # q
  BY <1>1, <1>3 DEF Alone, IsDeploy
<1>8. Agrees(x, d) /\ CalleeAt(d.inflight, d.idx)
  BY <1>1 DEF Agrees, CalleeAt
<1>9. \A f \in Execs : Driving(f)' => Agrees(execs'[f], dep'[execs'[f].run])
  BY <1>1, <1>3, <1>4, <1>8 DEF Alone
<1>10. \A q \in RunIds : CalleeAt(dep'[q].inflight, dep'[q].idx)
  BY <1>3, <1>8 DEF Alone
<1>11. \A q \in RunIds : Succeeded(q)' => dep'[q].idx = 14 /\ \A f \in Execs : Driving(f)' => execs'[f].run # q
  BY <1>1, <1>3, <1>4 DEF Alone, Succeeded
<1>12. \A f \in Execs : Driving(f)' => Agrees(execs[f], dep[execs[f].run])'
  BY <1>9 DEF Agrees, SameCallee, CalleeAt
<1> QED
  BY <1>5, <1>6, <1>7, <1>10, <1>11, <1>12 DEF Alone, CalleeAt

\* The one step that may bring a second execution to a run, were it not for MayContinue.
LEMMA RetryAlone ==
    ASSUME IInv, Alone, ~Impatient, NEW e \in Execs, RetryDeploy(e)
    PROVE  Alone'
<1>1. PICK r \in Newest("deploy") :
         /\ \/ Store!AbandonRun(r)
            \/ runs[r].status = "failed" /\ UNCHANGED runs
         /\ execs' = IF Resumable(r) THEN [execs EXCEPT ![e] = [Off EXCEPT !.pc = "resume", !.run = r]] ELSE execs
         /\ MayContinue(r)
  BY DEF RetryDeploy
<1>2. UNCHANGED dep /\ execs[e].pc = "off"
  BY DEF RetryDeploy, At
<1>3. \A f \in Execs : execs[f].run = r => ~Driving(f)
  BY <1>1 DEF MayContinue, At, Driving, Drives
<1>4. /\ r \in RunIds /\ runs[r].stage = "deploy" /\ runs \in [RunIds -> Store!RunDoc] /\ execs \in [Execs -> Exec]
  BY <1>1, TypeParts DEF Newest, OfStage, IInv, Store!TypeOK
<1>5. /\ runs'[r].status = "failed" /\ ~runs'[r].silent
      /\ \A q \in RunIds : runs'[q].stage = runs[q].stage /\ (q # r => runs'[q] = runs[q])
  <2>1. CASE runs[r].status = "failed" /\ UNCHANGED runs
    BY <1>4, <2>1 DEF Alone, Store!IsActive, Store!ActiveStatuses
  <2>2. CASE Wrote(r, "failed")
    BY <1>4, <2>2 DEF Wrote, Store!RunDoc
  <2> QED
    BY <1>1, <1>4, <2>1, <2>2, WritesAre
<1> DEFINE x == [Off EXCEPT !.pc = "resume", !.run = r]
<1>6. x.pc = "resume" /\ x.run = r
  BY DEF Off
<1>7. execs' = [execs EXCEPT ![e] = x] \/ execs' = execs
  BY <1>1
<1> HIDE DEF x
<1>8. \A f \in Execs : execs'[f] = execs[f] \/ (f = e /\ execs'[f] = x)
  BY <1>4, <1>7
<1>9. \A f, g \in Execs : (Driving(f) /\ Driving(g) /\ execs[f].run = execs[g].run)' => f = g
  BY <1>3, <1>6, <1>8 DEF Alone, Driving
<1>10. \A q \in RunIds : runs'[q].silent => Store!IsActive(q)'
  BY <1>5 DEF Alone, Store!IsActive
<1>11. \A q \in RunIds : IsDeploy(q)' /\ runs'[q].silent => \A f \in Execs : execs'[f].run # q
  BY <1>4, <1>5, <1>6, <1>8 DEF Alone, IsDeploy
<1>12. \A f \in Execs : Driving(f)' => Agrees(execs'[f], dep'[execs'[f].run])
  <2>1. Agrees(x, dep[r])
    BY <1>6 DEF Agrees
  <2> QED
    BY <1>2, <1>6, <1>8, <2>1 DEF Alone, Driving
<1>13. \A q \in RunIds : Succeeded(q)' => dep'[q].idx = 14 /\ \A f \in Execs : Driving(f)' => execs'[f].run # q
  BY <1>2, <1>5, <1>6, <1>8 DEF Alone, Succeeded, Driving
<1>14. \A f \in Execs : Driving(f)' => Agrees(execs[f], dep[execs[f].run])'
  BY <1>12 DEF Agrees, SameCallee, CalleeAt
<1> QED
  BY <1>2, <1>9, <1>10, <1>11, <1>13, <1>14 DEF Alone, CalleeAt

LEMMA NextAlone ==
    ASSUME IInv, Alone, ~Impatient, [Next]_vars
    PROVE  Alone'
<1>1. CASE \E e \in Execs : Works(e) \/ Die(e)
  BY <1>1, StepWorksAlone, CallsAlone, WaitsAlone, LeavesAlone DEF Works
<1>2. CASE \E k \in Testers : Testing(k)
  BY <1>2, TestingAlone
<1>3. CASE SweepWorks \/ SweepBreaking \/ AbandonTeardown \/ \E reaper \in BOOLEAN : TearsDown(reaper)
  BY <1>3, SweepsAlone
<1>4. CASE (\E a \in Attempts : Repairs(a)) \/ UNCHANGED vars
  <2>1. UNCHANGED <<runs, dep, execs>>
    BY <1>4 DEF Repairs, RepairStarts, RepairEnds, vars
  <2> QED
    BY <2>1, OutsideAlone DEF Alone, Store!IsActive
<1>5. CASE \E r \in RunIds : AgeInFlight(r) \/ Silence(r)
  BY <1>5, AgeAlone, SilenceAlone
<1>6. CASE \E e \in Execs : UserDeploys(e)
  <2>1. PICK e \in Execs, mode \in Modes, tested \in BOOLEAN : StartDeploy(e, mode, tested)
    BY <1>6, DeployAssumption DEF UserDeploys
  <2> QED
    BY <2>1, StartAlone
<1>7. CASE \E e \in Execs : RetryDeploy(e)
  BY <1>7, RetryAlone
<1> QED
  BY <1>1, <1>2, <1>3, <1>4, <1>5, <1>6, <1>7 DEF Next, User, Testing

LEMMA InitAlone == Init => Alone
<1> SUFFICES ASSUME Init PROVE Alone
  OBVIOUS
<1>1. \A e \in Execs : ~Driving(e)
  BY DEF Init, Off, Driving, Drives
<1>2. \A r \in RunIds : runs[r].stage = "none" /\ ~runs[r].silent
  BY DEF Init, TestInit, LedgerInit, Store!Init, Store!NoDoc
<1>3. \A r \in RunIds : dep[r].inflight.kind = "none"
  BY DEF Init, NoDeploy, Nothing
<1> QED
  BY <1>1, <1>2, <1>3 DEF Alone, Succeeded, CalleeAt

LEMMA PatientInductive == ~Impatient => (Spec => [](IInv /\ Alone))
<1> SUFFICES ASSUME ~Impatient PROVE Spec => [](IInv /\ Alone)
  OBVIOUS
<1>1. IInv /\ Alone /\ [Next]_vars => IInv' /\ Alone'
  BY NextKeeps, NextAlone
<1> QED
  BY <1>1, InitFits, InitAlone, PTL DEF Spec

(***************************************************************************)
(* What is served                                                          *)
(***************************************************************************)

\* What box b and manifest m of a run of version v hold once the steps before idx are done ...
Serves(b, m, v, idx) ==
    /\ idx > 5 => b.files = v
    /\ idx > 6 => b.seeded = v
    /\ idx > 7 => b.backend = v
    /\ idx > 8 => b.live = v
    /\ idx > 9 => b.frontend = v
    /\ idx > 11 => m = v

\* ... and once the work of step idx is.
Done(b, m, v, idx) ==
    /\ idx = 5 => b.files = v
    /\ idx = 6 => b.seeded = v
    /\ idx = 7 => b.backend = v
    /\ idx = 8 => b.live = v
    /\ idx = 9 => b.frontend = v
    /\ idx = 11 => m = v

BoxFits(r)  == Serves(box[r], manifest[r], dep[r].ver, dep[r].idx)
WorkFits(e) ==
    LET x == execs[e] IN
    x.pc = "work" /\ x.did # 0 => Done(box[x.run], manifest[x.run], dep[x.run].ver, x.idx)
Served      == (\A r \in RunIds : IsDeploy(r) => BoxFits(r)) /\ (\A e \in Execs : WorkFits(e))

\* The box but for the report that lies there.
BoxSame(b, c) == b.files = c.files /\ b.seeded = c.seeded /\ b.backend = c.backend /\ b.live = c.live
                 /\ b.frontend = c.frontend

LEMMA ServedStays ==
    ASSUME IInv, Served, UNCHANGED manifest,
           \A r \in RunIds : IsDeploy(r)' => IsDeploy(r),
           \A r \in RunIds : BoxSame(box[r], box'[r]),
           \A r \in RunIds : dep'[r].ver = dep[r].ver /\ dep'[r].idx = dep[r].idx,
           \A e \in Execs : execs'[e].pc = "work" /\ execs'[e].did # 0 =>
               \/ execs'[e].idx \notin {5, 6, 7, 8, 9, 11}
               \/ /\ execs[e].pc = "work" /\ execs[e].did # 0
                  /\ execs'[e].idx = execs[e].idx /\ execs'[e].run = execs[e].run
    PROVE  Served'
<1>1. ASSUME NEW r \in RunIds, IsDeploy(r)' PROVE BoxFits(r)'
  BY <1>1 DEF Served, BoxFits, Serves, BoxSame
<1>2. ASSUME NEW e \in Execs PROVE WorkFits(e)'
  <2> SUFFICES ASSUME execs'[e].pc = "work", execs'[e].did # 0, execs'[e].idx \in {5, 6, 7, 8, 9, 11}
               PROVE  Done(box'[execs'[e].run], manifest'[execs'[e].run], dep'[execs'[e].run].ver, execs'[e].idx)
    BY DEF WorkFits, Done
  <2>1. /\ execs[e].pc = "work" /\ execs[e].did # 0
        /\ execs'[e].idx = execs[e].idx /\ execs'[e].run = execs[e].run
    OBVIOUS
  <2>2. execs[e].run \in RunIds
    BY <2>1, AtNode
  <2> QED
    BY <2>1, <2>2 DEF Served, WorkFits, Done, BoxSame
<1> QED
  BY <1>1, <1>2 DEF Served

\* A step of the execution that drives a run.
LEMMA DriveServed ==
    ASSUME IInv, Alone, Served, NEW e \in Execs, Driving(e), NoNewRun,
           NEW x, execs' = [execs EXCEPT ![e] = x], NEW d, dep' = [dep EXCEPT ![execs[e].run] = d],
           NEW b, box' = [box EXCEPT ![execs[e].run] = b],
           NEW m, manifest' = [manifest EXCEPT ![execs[e].run] = m],
           Serves(b, m, d.ver, d.idx),
           x.pc = "work" /\ x.did # 0 => x.run = execs[e].run /\ Done(b, m, d.ver, x.idx)
    PROVE  Served'
<1>1. PICK r \in RunIds : r = execs[e].run
  BY AtNode DEF Driving, Drives
<1>2. /\ dep'[r] = d /\ box'[r] = b /\ manifest'[r] = m /\ execs'[e] = x
      /\ \A q \in RunIds : q # r => dep'[q] = dep[q] /\ box'[q] = box[q] /\ manifest'[q] = manifest[q]
      /\ \A f \in Execs : f # e => execs'[f] = execs[f]
  BY <1>1, TypeParts DEF IInv, WorldOK
<1>3. ASSUME NEW q \in RunIds, IsDeploy(q)' PROVE BoxFits(q)'
  <2>1. IsDeploy(q)
    BY <1>3 DEF IsDeploy, NoNewRun
  <2> QED
    BY <1>2, <2>1 DEF Served, BoxFits
<1>4. ASSUME NEW f \in Execs PROVE WorkFits(f)'
  <2>1. CASE f = e
    BY <1>1, <1>2, <2>1 DEF WorkFits
  <2>2. CASE f # e /\ execs[f].pc = "work"
    <3>1. execs[f].run # r /\ execs[f].run \in RunIds
      BY <1>1, <2>2, AtNode DEF Alone, Driving, Drives
    <3> QED
      BY <1>2, <2>2, <3>1 DEF Served, WorkFits
  <2>3. CASE f # e /\ execs[f].pc # "work"
    BY <1>2, <2>3 DEF WorkFits
  <2> QED
    BY <2>1, <2>2, <2>3
<1> QED
  BY <1>3, <1>4 DEF Served

\* One that leaves box and manifest alone.
LEMMA DriveOnServed ==
    ASSUME IInv, Alone, Served, NEW e \in Execs, Driving(e), NoNewRun, UNCHANGED <<box, manifest>>,
           NEW x, execs' = [execs EXCEPT ![e] = x], NEW d, dep' = [dep EXCEPT ![execs[e].run] = d],
           Serves(box[execs[e].run], manifest[execs[e].run], d.ver, d.idx), x.pc # "work"
    PROVE  Served'
<1>1. /\ box' = [box EXCEPT ![execs[e].run] = box[execs[e].run]]
      /\ manifest' = [manifest EXCEPT ![execs[e].run] = manifest[execs[e].run]]
  BY TypeParts, AtNode DEF Driving, Drives, IInv, WorldOK
<1> QED
  BY <1>1, DriveServed

\* One that leaves the version and the step as they were.
LEMMA QuietServed ==
    ASSUME IInv, Served, UNCHANGED <<box, manifest>>, NoNewRun,
           NEW e \in Execs, NEW x, execs' = [execs EXCEPT ![e] = x], x.pc # "work" \/ x.did = 0,
           \A r \in RunIds : dep'[r].ver = dep[r].ver /\ dep'[r].idx = dep[r].idx
    PROVE  Served'
<1>1. \A r \in RunIds : BoxSame(box[r], box'[r])
  BY DEF BoxSame
<1>2. \A f \in Execs : execs'[f] = execs[f] \/ execs'[f] = x
  BY TypeParts DEF IInv
<1>3. \A r \in RunIds : IsDeploy(r)' => IsDeploy(r)
  BY DEF NoNewRun, IsDeploy
<1>4. \A f \in Execs : execs'[f].pc = "work" /\ execs'[f].did # 0 =>
         /\ execs[f].pc = "work" /\ execs[f].did # 0
         /\ execs'[f].idx = execs[f].idx /\ execs'[f].run = execs[f].run
  BY <1>2
<1> QED
  BY <1>1, <1>3, <1>4, ServedStays

LEMMA WorksNoNew ==
    ASSUME IInv, NEW e \in Execs, Works(e) \/ Die(e)
    PROVE  NoNewRun
<1>1. execs[e].pc # "off" /\ RunWrite(execs[e].run)
  BY WorksWrite
<1> QED
  BY <1>1, AtNode, DeployWrites, StayNoNew DEF RunWrite

LEMMA ProceedIs ==
    ASSUME NEW e \in Execs, NEW x \in Exec, x.idx \in 1..14, Proceed(e, x)
    PROVE  \E y : execs' = [execs EXCEPT ![e] = y] /\ y.pc # "work"
<1>1. PICK spent \in BOOLEAN : execs' = [execs EXCEPT ![e] = Route(x, spent)]
  BY DEF Proceed
<1>2. PICK y : y = Route(x, spent)
  OBVIOUS
<1>3. y.pc # "work"
  BY <1>2, RouteIs
<1> QED
  BY <1>1, <1>2, <1>3

LEMMA StopIs ==
    ASSUME NEW e \in Execs, Stop(e)
    PROVE  \E y : execs' = [execs EXCEPT ![e] = y] /\ y.pc # "work"
<1>1. Off.pc # "work"
  BY DEF Off
<1> QED
  BY <1>1 DEF Stop

LEMMA BoxDone ==
    ASSUME NEW b \in Box, NEW m, NEW v, NEW idx \in 5..10, Serves(b, m, v, idx)
    PROVE  LET c == BoxAfter(Pipeline[idx], b, v) IN Serves(c, m, v, idx) /\ Done(c, m, v, idx)
<1> DEFINE c == BoxAfter(Pipeline[idx], b, v)
<1> SUFFICES Serves(c, m, v, idx) /\ Done(c, m, v, idx)
  OBVIOUS
<1>1. CASE idx = 5
  <2>1. c = [b EXCEPT !.files = v, !.backend = 0, !.frontend = 0]
    BY <1>1, PipelineIs DEF BoxAfter
  <2>2. c.files = v
    BY <2>1 DEF Box
  <2> HIDE DEF c
  <2> QED
    BY <1>1, <2>2 DEF Serves, Done
<1>2. CASE idx = 6
  <2>1. c = [b EXCEPT !.seeded = b.files]
    BY <1>2, PipelineIs DEF BoxAfter
  <2>2. c.seeded = b.files /\ c.files = b.files
    BY <2>1 DEF Box
  <2> HIDE DEF c
  <2> QED
    BY <1>2, <2>2 DEF Serves, Done
<1>3. CASE idx = 7
  <2>1. c = [b EXCEPT !.backend = b.files]
    BY <1>3, PipelineIs DEF BoxAfter
  <2>2. c.seeded = b.seeded /\ c.files = b.files /\ c.backend = b.files
    BY <2>1 DEF Box
  <2> HIDE DEF c
  <2> QED
    BY <1>3, <2>2 DEF Serves, Done
<1>4. CASE idx = 8
  <2>1. c = [b EXCEPT !.live = b.backend]
    BY <1>4, PipelineIs DEF BoxAfter
  <2>2. c.seeded = b.seeded /\ c.files = b.files /\ c.backend = b.backend /\ c.live = b.backend
    BY <2>1 DEF Box
  <2> HIDE DEF c
  <2> QED
    BY <1>4, <2>2 DEF Serves, Done
<1>5. CASE idx = 9
  <2>1. c = [b EXCEPT !.frontend = b.files]
    BY <1>5, PipelineIs DEF BoxAfter
  <2>2. c.seeded = b.seeded /\ c.files = b.files /\ c.backend = b.backend /\ c.live = b.live /\ c.frontend = b.files
    BY <2>1 DEF Box
  <2> HIDE DEF c
  <2> QED
    BY <1>5, <2>2 DEF Serves, Done
<1>6. CASE idx = 10
  <2>1. c = b
    BY <1>6, PipelineIs DEF BoxAfter
  <2> HIDE DEF c
  <2> QED
    BY <1>6, <2>1 DEF Serves, Done
<1> QED
  BY <1>1, <1>2, <1>3, <1>4, <1>5, <1>6

LEMMA StepWorksServed ==
    ASSUME IInv, Alone, Served, NEW e \in Execs, StepWorks(e)
    PROVE  Served'
<1> DEFINE o == execs[e]
           r == o.run
           d == dep[r]
<1>1. o.pc \in {"step", "work"} /\ NoNewRun
  BY WorksNoNew DEF Works, StepWorks, StepBegins, CloudWork, BoxWork, PocWork, StepSucceeds, StepFails, At
<1>2. /\ Driving(e) /\ o \in Exec /\ d \in Deploy /\ r \in RunIds /\ o.idx \in 1..14 /\ o.idx = d.idx
      /\ dep = [dep EXCEPT ![r] = d]
  BY <1>1, AtDriver
<1>3. /\ o.idx \in 1..13 /\ o.idx # 12 /\ (o.pc = "step" => o.did = 0)
      /\ box[r] \in Box /\ IsDeploy(r) /\ BoxFits(r) /\ WorkFits(e)
      /\ execs \in [Execs -> Exec]
  BY <1>1, <1>2, AtNode, TypeParts DEF ExecFits, IInv, WorldOK, Served
<1>4. ASSUME Stop(e), UNCHANGED <<box, manifest, dep>> PROVE Served'
  BY <1>1, <1>4, QuietServed DEF Stop, Off
<1>5. CASE StepBegins(e)
  <2>1. UNCHANGED <<box, manifest, dep>>
    BY <1>5 DEF StepBegins, testVars
  <2>2. CASE Refused(e)
    BY <1>4, <2>1, <2>2 DEF Refused
  <2>3. CASE Goto(e, "work")
    <3>1. o.did = 0
      BY <1>3, <1>5 DEF StepBegins, At
    <3>2. [o EXCEPT !.pc = "work"].did = 0
      BY <1>2, <3>1 DEF Exec
    <3>3. execs' = [execs EXCEPT ![e] = [o EXCEPT !.pc = "work"]]
      BY <2>3 DEF Goto
    <3> QED
      BY <1>1, <2>1, <3>2, <3>3, QuietServed
  <2> QED
    BY <1>5, <2>2, <2>3 DEF StepBegins
<1>6. CASE CloudWork(e)
  <2>1. /\ UNCHANGED <<box, manifest, dep>> /\ o.did < Len(Operations(StepOf(e), r, d.mode))
        /\ execs' = [execs EXCEPT ![e].did = @ + 1] /\ o.pc = "work"
    BY <1>6 DEF CloudWork, testVars, At
  <2>2. StepOf(e) \in {"provision_db", "store_secret", "launch_instance"}
    <3>1. CASE Operations(StepOf(e), r, d.mode) = <<>>
      <4>1. Len(<<>>) = 0 /\ o.did \in Nat
        BY <1>2 DEF Exec
      <4> QED
        BY <2>1, <3>1, <4>1
    <3> QED
      BY <3>1, OperationsAre
  <2>3. o.idx \in {2, 3, 4}
    BY <1>3, <2>2, PipelineIs DEF StepOf
  <2>4. \A f \in Execs : f # e => execs'[f] = execs[f]
    BY <2>1
  <2>5. execs'[e].idx = o.idx
    BY <1>2, <1>3, <2>1 DEF Exec
  <2>6. \A q \in RunIds : (IsDeploy(q)' => IsDeploy(q)) /\ BoxSame(box[q], box'[q])
    BY <1>1, <2>1 DEF NoNewRun, IsDeploy, BoxSame
  <2>7. \A f \in Execs : \/ execs'[f].idx \notin {5, 6, 7, 8, 9, 11}
                         \/ execs'[f] = execs[f]
    BY <2>3, <2>4, <2>5
  <2> QED
    BY <2>1, <2>6, <2>7, ServedStays
<1>7. CASE BoxWork(e)
  <2> DEFINE b == BoxAfter(StepOf(e), box[r], d.ver)
             x == [o EXCEPT !.did = 1]
  <2>1. /\ box' = [box EXCEPT ![r] = b] /\ UNCHANGED <<manifest, dep>> /\ execs' = [execs EXCEPT ![e] = x]
        /\ StepOf(e) \in OnBox
    BY <1>7 DEF BoxWork, testVars
  <2>2. x.run = r /\ x.idx = o.idx
    BY <1>2 DEF Exec
  <2>3. o.idx \in 5..10
    BY <1>3, <2>1, PipelineIs DEF StepOf, OnBox
  <2>4. Serves(b, manifest[r], d.ver, d.idx) /\ Done(b, manifest[r], d.ver, o.idx)
    <3>1. Serves(box[r], manifest[r], d.ver, o.idx) /\ o.idx = d.idx /\ box[r] \in Box
      BY <1>2, <1>3 DEF BoxFits
    <3>2. StepOf(e) = Pipeline[o.idx]
      BY DEF StepOf
    <3> QED
      BY <2>3, <3>1, <3>2, BoxDone
  <2>5. manifest' = [manifest EXCEPT ![r] = manifest[r]] /\ dep' = [dep EXCEPT ![r] = d]
    BY <1>2, <2>1, TypeParts DEF IInv, WorldOK
  <2> HIDE DEF b, x
  <2> QED
    BY <1>1, <1>2, <2>1, <2>2, <2>4, <2>5, DriveServed
<1>8. CASE PocWork(e)
  <2> DEFINE x == [o EXCEPT !.did = 1]
  <2>1. PICK m : /\ manifest' = [manifest EXCEPT ![r] = m]
                 /\ \/ o.idx = 11 /\ m = d.ver
                    \/ o.idx = 13 /\ m = manifest[r]
    <3>1. CASE StepOf(e) = "write_deployment" /\ manifest' = [manifest EXCEPT ![r] = dep[r].ver]
      <4>1. o.idx = 11
        BY <1>3, <3>1, PipelineIs DEF StepOf
      <4> QED
        BY <3>1, <4>1
    <3>2. CASE StepOf(e) = "finalize" /\ UNCHANGED manifest
      <4>1. o.idx = 13 /\ manifest' = [manifest EXCEPT ![r] = manifest[r]]
        BY <1>2, <1>3, <3>2, PipelineIs, TypeParts DEF StepOf, IInv, WorldOK
      <4> QED
        BY <4>1
    <3> QED
      BY <1>8, <3>1, <3>2 DEF PocWork
  <2>2. UNCHANGED <<box, dep>> /\ execs' = [execs EXCEPT ![e] = x]
    BY <1>8 DEF PocWork
  <2>3. x.run = r /\ x.idx = o.idx
    BY <1>2 DEF Exec
  <2>4. box' = [box EXCEPT ![r] = box[r]] /\ dep' = [dep EXCEPT ![r] = d]
    BY <1>2, <2>2, TypeParts DEF IInv, WorldOK
  <2>5. Serves(box[r], m, d.ver, d.idx) /\ Done(box[r], m, d.ver, o.idx)
    BY <1>2, <1>3, <2>1 DEF BoxFits, Serves, Done
  <2> HIDE DEF x
  <2> QED
    BY <1>1, <1>2, <2>1, <2>2, <2>3, <2>4, <2>5, DriveServed
<1>9. CASE StepSucceeds(e)
  <2> DEFINE c == [d EXCEPT !.idx = o.idx + 1]
             x == [o EXCEPT !.idx = @ + 1]
  <2>1. /\ dep' = [dep EXCEPT ![r] = c] /\ (Proceed(e, x) \/ Stop(e))
        /\ o.pc = "work" /\ o.did = WorkOf(e) /\ UNCHANGED <<box, manifest>>
    BY <1>9 DEF StepSucceeds, At, testVars, Refused
  <2>2. c.idx = o.idx + 1 /\ c.ver = d.ver
    BY <1>2 DEF Deploy
  <2>3. x \in Exec /\ x.idx \in 1..14
    <3>1. o.idx + 1 \in 0..Len(Pipeline) + 1 /\ o.idx + 1 \in 1..14
      BY <1>3, PipelineIs
    <3>2. x = [o EXCEPT !.idx = o.idx + 1]
      BY <1>2 DEF Exec
    <3>3. x \in Exec
      BY <1>2, <3>1, <3>2 DEF Exec
    <3>4. x.idx = o.idx + 1
      BY <1>2, <3>2 DEF Exec
    <3> QED
      BY <3>1, <3>3, <3>4
  <2>4. o.idx \in {5, 6, 7, 8, 9, 11} => o.did # 0
    <3>1. o.idx \in {5, 6, 7, 8, 9, 11} => StepOf(e) \in OnBox \cup {"write_deployment", "finalize"}
      BY PipelineIs DEF StepOf, OnBox
    <3> QED
      BY <2>1, <3>1 DEF WorkOf
  <2>5. Serves(box[r], manifest[r], c.ver, c.idx)
    <3>1. Serves(box[r], manifest[r], d.ver, o.idx)
      BY <1>2, <1>3 DEF BoxFits
    <3>2. o.idx \in {5, 6, 7, 8, 9, 11} => Done(box[r], manifest[r], d.ver, o.idx)
      BY <1>3, <2>1, <2>4 DEF WorkFits
    <3> HIDE DEF c, d, o, r
    <3> QED
      BY <1>3, <2>2, <3>1, <3>2 DEF Serves, Done
  <2>6. PICK y : execs' = [execs EXCEPT ![e] = y] /\ y.pc # "work"
    <3> HIDE DEF x
    <3>1. CASE Proceed(e, x)
      BY <2>3, <3>1, ProceedIs
    <3>2. CASE Stop(e)
      BY <3>2, StopIs
    <3> QED
      BY <2>1, <3>1, <3>2
  <2> HIDE DEF c
  <2> QED
    BY <1>1, <1>2, <2>1, <2>5, <2>6, DriveOnServed
<1>10. CASE StepFails(e)
  <2>1. UNCHANGED <<box, manifest, dep>>
    BY <1>10 DEF StepFails, testVars
  <2>2. CASE Refused(e)
    BY <1>4, <2>1, <2>2 DEF Refused
  <2>3. CASE ~Refused(e)
    <3>1. PICK pc \in {"repair", "fail"}, comp \in Components \cup {Repairable[StepOf(e)]} :
             \/ execs' = [execs EXCEPT ![e] = [o EXCEPT !.did = 0, !.pc = pc, !.comp = comp]]
             \/ execs' = [execs EXCEPT ![e] = [o EXCEPT !.did = 0, !.pc = pc]]
      BY <1>10, <2>3 DEF StepFails
    <3>2. /\ [o EXCEPT !.did = 0, !.pc = pc, !.comp = comp].pc = pc
          /\ [o EXCEPT !.did = 0, !.pc = pc].pc = pc
      BY <1>2 DEF Exec
    <3> QED
      BY <1>1, <2>1, <3>1, <3>2, QuietServed
  <2> QED
    BY <2>2, <2>3
<1> QED
  BY <1>5, <1>6, <1>7, <1>8, <1>9, <1>10 DEF StepWorks

(***************************************************************************)
(* Calls, waits, and the ends of executions: where they leave the run      *)
(***************************************************************************)

\* The run stays at its step, or the tests are done with, or a repair takes it back.
Moves(d, c) ==
    /\ c.mode = d.mode /\ c.tests = d.tests
    /\ \/ c.ver = d.ver /\ c.idx = d.idx
       \/ c.ver = d.ver /\ d.idx = 12 /\ c.idx = 13
       \/ d.idx \in 6..13 /\ c.idx = 5

Moved(e) ==
    \E x, c : /\ execs' = [execs EXCEPT ![e] = x] /\ dep' = [dep EXCEPT ![execs[e].run] = c]
              /\ x.pc # "work" /\ Moves(dep[execs[e].run], c)
              /\ Driving(e) \/ c = dep[execs[e].run]

LEMMA StaysAre ==
    ASSUME IInv, NEW e \in Execs, execs[e].pc # "off", UNCHANGED dep,
           NEW x, execs' = [execs EXCEPT ![e] = x], x.pc # "work"
    PROVE  Moved(e)
<1>1. dep' = [dep EXCEPT ![execs[e].run] = dep[execs[e].run]] /\ Moves(dep[execs[e].run], dep[execs[e].run])
  BY AtNode DEF Moves
<1> QED
  BY <1>1 DEF Moved

LEMMA CallsMove ==
    ASSUME IInv, Alone, NEW e \in Execs, Calls(e)
    PROVE  Moved(e)
<1> DEFINE o == execs[e]
           r == o.run
           d == dep[r]
<1>1. o.pc \in {"repair", "tests", "mark", "fire", "clear"}
  BY DEF Calls, CountAttempt, AskForTests, MarkInFlight, Fire, FireRaises, ClearInFlight, At
<1>2. /\ Driving(e) /\ o \in Exec /\ d \in Deploy /\ r \in RunIds /\ o.idx \in 1..14 /\ o.idx = d.idx /\ o.pc # "off"
      /\ dep = [dep EXCEPT ![r] = d]
  BY <1>1, AtDriver
\* The document keeps its step.
<1>3. ASSUME NEW c, dep' = [dep EXCEPT ![r] = c], c.mode = d.mode, c.tests = d.tests, c.ver = d.ver, c.idx = d.idx,
             NEW x, execs' = [execs EXCEPT ![e] = x], x.pc # "work"
      PROVE  Moved(e)
  BY <1>2, <1>3 DEF Moved, Moves
<1>4. ASSUME UNCHANGED dep, Proceed(e, o) \/ Stop(e) PROVE Moved(e)
  BY <1>2, <1>4, ProceedIs, StopIs, StaysAre
<1>5. CASE CountAttempt(e)
  <2> DEFINE n == Least(d.tries[o.comp] + 1, MaxRepairs + 1)
             i == [Nothing EXCEPT !.kind = "repair", !.comp = o.comp, !.attempt = n]
             c == [d EXCEPT !.tries[o.comp] = n]
             x == [o EXCEPT !.pc = "fail"]
             y == [o EXCEPT !.pc = "mark", !.inflight = i]
  <2>1. /\ dep' = [dep EXCEPT ![r].tries[o.comp] = n]
        /\ execs' = [execs EXCEPT ![e] = IF n > MaxRepairs THEN x ELSE y]
    BY <1>5 DEF CountAttempt
  <2>2. dep' = [dep EXCEPT ![r] = c]
    BY <1>2, <2>1
  <2>3. c.idx = d.idx /\ c.ver = d.ver /\ c.mode = d.mode /\ c.tests = d.tests
    BY <1>2 DEF Deploy
  <2>4. x.pc # "work" /\ y.pc # "work"
    BY <1>2 DEF Exec
  <2>5. execs' = [execs EXCEPT ![e] = x] \/ execs' = [execs EXCEPT ![e] = y]
    BY <2>1
  <2> HIDE DEF n, i, c, x, y
  <2> QED
    BY <1>3, <2>2, <2>3, <2>4, <2>5
<1>6. CASE AskForTests(e)
  <2> DEFINE i == [Nothing EXCEPT !.kind = "test"]
             c == [d EXCEPT !.idx = o.idx + 1]
             x == [o EXCEPT !.idx = @ + 1]
             y == [o EXCEPT !.pc = "mark", !.inflight = i]
  <2>1. /\ o.pc = "tests" /\ o.idx = 12
    BY <1>6, AtNode DEF AskForTests, At, ExecFits
  <2>2. CASE Refused(e) /\ UNCHANGED dep
    BY <1>4, <2>2 DEF Refused
  <2>3. CASE UNCHANGED dep /\ execs' = [execs EXCEPT ![e] = y]
    <3>1. y.pc # "work"
      BY <1>2 DEF Exec
    <3> HIDE DEF y
    <3> QED
      BY <1>2, <2>3, <3>1, StaysAre
  <2>4. CASE dep' = [dep EXCEPT ![r].idx = o.idx + 1] /\ Proceed(e, x)
    <3>1. c.idx = 13 /\ c.ver = d.ver /\ c.mode = d.mode /\ c.tests = d.tests /\ dep' = [dep EXCEPT ![r] = c]
      BY <1>2, <2>1, <2>4 DEF Deploy
    <3>2. x \in Exec /\ x.idx \in 1..14
      BY <1>2, <2>1, PipelineIs DEF Exec
    <3> HIDE DEF c, x
    <3>3. Moves(d, c)
      BY <1>2, <2>1, <3>1 DEF Moves
    <3>4. PICK z : execs' = [execs EXCEPT ![e] = z] /\ z.pc # "work"
      BY <2>4, <3>2, ProceedIs
    <3> QED
      BY <1>2, <3>1, <3>3, <3>4 DEF Moved
  <2>5. \/ Refused(e) /\ UNCHANGED dep
        \/ UNCHANGED dep /\ execs' = [execs EXCEPT ![e] = y]
        \/ dep' = [dep EXCEPT ![r].idx = o.idx + 1] /\ Proceed(e, x)
    BY <1>6 DEF AskForTests
  <2> QED
    BY <2>2, <2>3, <2>4, <2>5
<1>7. CASE MarkInFlight(e)
  <2>1. PICK i : /\ dep' = [dep EXCEPT ![r].inflight = i]
                 /\ execs' = [execs EXCEPT ![e].pc = "fire", ![e].inflight = i]
    BY <1>7 DEF MarkInFlight
  <2> DEFINE c == [d EXCEPT !.inflight = i]
             x == [o EXCEPT !.pc = "fire", !.inflight = i]
  <2>2. /\ c.idx = d.idx /\ c.ver = d.ver /\ c.mode = d.mode /\ c.tests = d.tests
        /\ dep' = [dep EXCEPT ![r] = c]
    BY <1>2, <2>1 DEF Deploy
  <2>3. x.pc # "work" /\ execs' = [execs EXCEPT ![e] = x]
    BY <1>2, <2>1 DEF Exec
  <2> HIDE DEF c, x
  <2> QED
    BY <1>3, <2>2, <2>3
<1>8. CASE Fire(e)
  BY <1>4, <1>8 DEF Fire
<1>9. CASE FireRaises(e)
  <2> DEFINE x == [o EXCEPT !.pc = "clear"]
  <2>1. UNCHANGED dep /\ execs' = [execs EXCEPT ![e] = x]
    BY <1>9 DEF FireRaises, Goto
  <2>2. x.pc # "work"
    BY <1>2 DEF Exec
  <2> HIDE DEF x
  <2> QED
    BY <1>2, <2>1, <2>2, StaysAre
<1>10. CASE ClearInFlight(e)
  <2> DEFINE c == [d EXCEPT !.inflight = Nothing]
             x == [o EXCEPT !.pc = "fail", !.inflight = Nothing]
  <2>1. dep' = [dep EXCEPT ![r] = c] /\ execs' = [execs EXCEPT ![e] = x]
    BY <1>2, <1>10 DEF ClearInFlight
  <2>2. c.idx = d.idx /\ c.ver = d.ver /\ c.mode = d.mode /\ c.tests = d.tests
    BY <1>2 DEF Deploy
  <2>3. x.pc # "work"
    BY <1>2 DEF Exec
  <2> HIDE DEF c, x
  <2> QED
    BY <1>3, <2>1, <2>2, <2>3
<1> QED
  BY <1>5, <1>6, <1>7, <1>8, <1>9, <1>10 DEF Calls

LEMMA WaitsMove ==
    ASSUME IInv, Alone, NEW e \in Execs, Waits(e)
    PROVE  Moved(e)
<1> DEFINE o == execs[e]
           r == o.run
           d == dep[r]
           w == [o EXCEPT !.inflight = Nothing]
<1>1. o.pc = "wait" /\ o.pc # "off"
  BY DEF Waits, TestsAnswer, RepairAnswers, WaitFails, WaitWindow, At
<1>2. /\ Driving(e) /\ o \in Exec /\ d \in Deploy /\ r \in RunIds /\ o.idx \in 1..14 /\ o.idx = d.idx
      /\ CalleeAt(o.inflight, o.idx) /\ dep = [dep EXCEPT ![r] = d]
  BY <1>1, AtDriver
<1>3. CASE WaitFails(e) \/ WaitWindow(e)
  <2>1. PICK pc \in {"clear", "handover"} : execs' = [execs EXCEPT ![e].pc = pc] /\ UNCHANGED dep
    BY <1>3 DEF WaitFails, WaitWindow, Goto
  <2> DEFINE x == [o EXCEPT !.pc = pc]
  <2>2. x.pc # "work" /\ execs' = [execs EXCEPT ![e] = x]
    BY <1>2, <2>1 DEF Exec
  <2> HIDE DEF x
  <2> QED
    BY <1>1, <2>1, <2>2, StaysAre
\* The wait is over and the run goes on at step n.
<1>4. ASSUME NEW n \in {5, 13}, NEW c, dep' = [dep EXCEPT ![r] = c], Moves(d, c), Proceed(e, [w EXCEPT !.idx = n])
      PROVE  Moved(e)
  <2> DEFINE x == [w EXCEPT !.idx = n]
  <2>1. x \in Exec /\ x.idx \in 1..14
    <3>1. w \in Exec /\ n \in 0..Len(Pipeline) + 1 /\ n \in 1..14
      BY <1>2, OffTyped, PipelineIs DEF Exec
    <3> HIDE DEF w
    <3> QED
      BY <3>1 DEF Exec
  <2>2. Proceed(e, x)
    BY <1>4
  <2> HIDE DEF x
  <2>3. PICK z : execs' = [execs EXCEPT ![e] = z] /\ z.pc # "work"
    BY <2>1, <2>2, ProceedIs
  <2> QED
    BY <1>2, <1>4, <2>3 DEF Moved
<1>5. CASE RepairAnswers(e)
  <2> DEFINE c == [d EXCEPT !.ver = repairs[AttemptOf(e)].ver, !.inflight = Nothing, !.idx = 5]
  <2>1. dep' = [dep EXCEPT ![r] = c] /\ Proceed(e, [o EXCEPT !.inflight = Nothing, !.idx = 5])
    BY <1>2, <1>5, PipelineFacts DEF RepairAnswers
  <2>2. c.idx = 5 /\ c.mode = d.mode /\ c.tests = d.tests
    BY <1>2 DEF Deploy
  <2>3. [o EXCEPT !.inflight = Nothing, !.idx = 5] = [w EXCEPT !.idx = 5]
    BY <1>2 DEF Exec
  <2>4. d.idx \in 6..13
    BY <1>2, <1>5 DEF RepairAnswers, CalleeAt
  <2> HIDE DEF c
  <2>5. Moves(d, c)
    BY <2>2, <2>4 DEF Moves
  <2> QED
    BY <1>4, <2>1, <2>3, <2>5
<1>6. CASE TestsAnswer(e)
  <2>1. PICK q \in Answering(e) :
           LET passed == runs[q].status = "succeeded" /\ Passed(q)
           IN  /\ dep' = [dep EXCEPT ![r].inflight = Nothing, ![r].verdict = q, ![r].passed = passed,
                                     ![r].idx = IF passed THEN Position("run_tests") + 1 ELSE @]
               /\ IF passed THEN Proceed(e, [w EXCEPT !.idx = Position("run_tests") + 1])
                  ELSE execs' = [execs EXCEPT ![e] =
                          IF runs[q].status = "succeeded" THEN [w EXCEPT !.pc = "repair", !.comp = Suspect(q)]
                          ELSE [w EXCEPT !.pc = "fail"]]
    BY <1>6 DEF TestsAnswer
  <2>2. Position("run_tests") + 1 = 13
    BY PipelineFacts
  <2>3. d.idx = 12
    BY <1>2, <1>6 DEF TestsAnswer, CalleeAt
  <2> DEFINE passed == runs[q].status = "succeeded" /\ Passed(q)
             c == [d EXCEPT !.inflight = Nothing, !.verdict = q, !.passed = passed, !.idx = IF passed THEN 13 ELSE @]
  <2>4. dep' = [dep EXCEPT ![r] = c]
    BY <1>2, <2>1, <2>2
  <2>5. c.idx = (IF passed THEN 13 ELSE d.idx) /\ c.ver = d.ver /\ c.mode = d.mode /\ c.tests = d.tests
    BY <1>2 DEF Deploy
  <2>6. Moves(d, c)
    BY <2>3, <2>5 DEF Moves
  <2>7. CASE passed
    <3>1. Proceed(e, [w EXCEPT !.idx = 13])
      BY <2>1, <2>2, <2>7
    <3> HIDE DEF c, w
    <3> QED
      BY <1>4, <2>4, <2>6, <3>1
  <2>8. CASE ~passed
    <3> DEFINE x == [w EXCEPT !.pc = "repair", !.comp = Suspect(q)]
               y == [w EXCEPT !.pc = "fail"]
    <3>1. x.pc # "work" /\ y.pc # "work"
      BY <1>2 DEF Exec
    <3>2. execs' = [execs EXCEPT ![e] = x] \/ execs' = [execs EXCEPT ![e] = y]
      BY <2>1, <2>8
    <3> HIDE DEF c, w, x, y
    <3> QED
      BY <1>2, <2>4, <2>6, <3>1, <3>2 DEF Moved
  <2> QED
    BY <2>7, <2>8
<1> QED
  BY <1>3, <1>5, <1>6 DEF Waits

LEMMA LeavesMove ==
    ASSUME IInv, Alone, NEW e \in Execs, Leaves(e) \/ Die(e)
    PROVE  Moved(e)
<1> DEFINE o == execs[e]
           r == o.run
           d == dep[r]
<1>1. /\ o.pc # "off" /\ o \in Exec /\ d \in Deploy /\ d.idx \in 1..14
  <2>1. o.pc # "off"
    BY DEF Leaves, Resume, HandOver, Finish, FinishFailed, ReleasePoc, Die, At
  <2> QED
    BY <2>1, AtNode
<1>2. UNCHANGED dep
  BY DEF Leaves, Resume, HandOver, Finish, FinishFailed, ReleasePoc, Die
<1>3. ASSUME Stop(e) PROVE Moved(e)
  BY <1>1, <1>2, <1>3, StopIs, StaysAre
<1>4. ASSUME NEW x \in Exec, x.idx \in 1..14, Proceed(e, x) PROVE Moved(e)
  BY <1>1, <1>2, <1>4, ProceedIs, StaysAre
<1>5. CASE Die(e) \/ ReleasePoc(e) \/ Finish(e)
  BY <1>3, <1>5 DEF Die, ReleasePoc, Finish
<1>6. CASE Resume(e)
  <2> DEFINE x == [o EXCEPT !.idx = d.idx, !.inflight = d.inflight]
  <2>1. CASE execs' = [execs EXCEPT ![e] = Route(x, FALSE)]
    <3>1. x \in Exec /\ x.idx = d.idx
      BY <1>1 DEF Exec, Deploy
    <3> HIDE DEF x
    <3>2. Proceed(e, x)
      BY <2>1 DEF Proceed
    <3> QED
      BY <1>1, <1>4, <3>1, <3>2
  <2> QED
    BY <1>3, <1>6, <2>1 DEF Resume
<1>7. CASE HandOver(e)
  <2>1. CASE execs' = [execs EXCEPT ![e] = [Off EXCEPT !.pc = "resume", !.run = execs[e].run]]
    <3> DEFINE x == [Off EXCEPT !.pc = "resume", !.run = execs[e].run]
    <3>1. x.pc # "work"
      BY DEF Off
    <3>2. execs' = [execs EXCEPT ![e] = x]
      BY <2>1
    <3> HIDE DEF x
    <3> QED
      BY <1>1, <1>2, <3>1, <3>2, StaysAre
  <2>2. CASE execs' = [execs EXCEPT ![e] = Route(o, FALSE)]
    <3>1. o.idx \in 1..14 /\ Proceed(e, o)
      BY <1>7, <2>2, AtDriver DEF HandOver, At, Proceed
    <3> QED
      BY <1>1, <1>4, <3>1
  <2> QED
    BY <1>3, <1>7, <2>1, <2>2 DEF HandOver
<1>8. CASE FinishFailed(e)
  <2> DEFINE x == [o EXCEPT !.pc = "release"]
  <2>1. execs' = [execs EXCEPT ![e] = x]
    BY <1>8 DEF FinishFailed, Goto
  <2>2. x.pc # "work"
    BY <1>1 DEF Exec
  <2> HIDE DEF x
  <2> QED
    BY <1>1, <1>2, <2>1, <2>2, StaysAre
<1> QED
  BY <1>5, <1>6, <1>7, <1>8 DEF Leaves

LEMMA MovedServed ==
    ASSUME IInv, Alone, Served, NEW e \in Execs, Calls(e) \/ Waits(e) \/ Leaves(e) \/ Die(e)
    PROVE  Served'
<1> DEFINE r == execs[e].run
           d == dep[r]
<1>1. Moved(e) /\ NoNewRun /\ execs[e].pc # "off"
  BY CallsMove, WaitsMove, LeavesMove, WorksNoNew, WorksWrite DEF Works
<1>2. UNCHANGED <<box, manifest>>
  <2>1. CASE Calls(e)
    BY <2>1 DEF Calls, CountAttempt, AskForTests, MarkInFlight, Fire, FireRaises, ClearInFlight, testVars
  <2>2. CASE Waits(e)
    BY <2>2 DEF Waits, TestsAnswer, RepairAnswers, WaitFails, WaitWindow, testVars
  <2>3. CASE Leaves(e)
    BY <2>3 DEF Leaves, Resume, HandOver, Finish, FinishFailed, ReleasePoc, testVars
  <2>4. CASE Die(e)
    BY <2>4 DEF Die, testVars
  <2> QED
    BY <2>1, <2>2, <2>3, <2>4
<1>3. PICK x, c : /\ execs' = [execs EXCEPT ![e] = x] /\ dep' = [dep EXCEPT ![r] = c]
                  /\ x.pc # "work" /\ Moves(d, c) /\ (Driving(e) \/ c = d)
  BY <1>1 DEF Moved
<1>4. r \in RunIds /\ IsDeploy(r) /\ d.idx \in 1..14 /\ Serves(box[r], manifest[r], d.ver, d.idx)
  BY <1>1, AtNode DEF Served, BoxFits
<1>5. Serves(box[r], manifest[r], c.ver, c.idx)
  <2> HIDE DEF r, d
  <2> QED
    BY <1>3, <1>4 DEF Moves, Serves
<1>6. CASE Driving(e)
  <2> HIDE DEF d
  <2> QED
    BY <1>1, <1>2, <1>3, <1>5, <1>6, DriveOnServed
<1>7. CASE c = d
  <2>1. \A q \in RunIds : dep'[q] = dep[q]
    BY <1>3, <1>4, <1>7, TypeParts DEF IInv
  <2> QED
    BY <1>1, <1>2, <1>3, <2>1, QuietServed
<1> QED
  BY <1>3, <1>6, <1>7

\* What is not done for a deployment begins none.
LEMMA NoNewDeploy ==
    ASSUME IInv, NEW q \in RunIds, RunWrite(q) \/ \E s \in {"test", "teardown"} : CreateRun(q, s)
    PROVE  \A r \in RunIds : IsDeploy(r)' => IsDeploy(r)
<1>1. runs \in [RunIds -> Store!RunDoc]
  BY TypeParts DEF IInv, Store!TypeOK
<1>2. CASE \E status : Wrote(q, status)
  BY <1>1, <1>2 DEF Wrote, Store!RunDoc, IsDeploy
<1>3. CASE \E s \in {"test", "teardown"} : CreateRun(q, s)
  <2>1. PICK s \in {"test", "teardown"} : CreateRun(q, s)
    BY <1>3
  <2>2. runs' = [runs EXCEPT ![q] = [stage |-> s, status |-> "queued", silent |-> FALSE]]
    BY <2>1, CreateMoves DEF Stages
  <2> QED
    BY <1>1, <2>2 DEF IsDeploy
<1>4. CASE UNCHANGED runs
  BY <1>4 DEF IsDeploy
<1> QED
  BY <1>2, <1>3, <1>4, WritesAre DEF RunWrite

LEMMA TestingServed ==
    ASSUME IInv, Served, NEW k \in Testers, Testing(k)
    PROVE  Served'
<1>1. /\ UNCHANGED <<manifest, dep, execs>>
      /\ \/ \E q \in RunIds : IsTest(q) /\ RunWrite(q)
         \/ \E q \in RunIds : CreateRun(q, "test")
         \/ UNCHANGED runs
  BY TestingWrites
<1>2. \A r \in RunIds : IsDeploy(r)' => IsDeploy(r)
  BY <1>1, NoNewDeploy DEF RunWrite
<1>3. \A r \in RunIds : BoxSame(box[r], box'[r])
  <2>1. CASE UNCHANGED box
    BY <2>1 DEF BoxSame
  <2>2. CASE Browse(k)
    <3>1. PICK r, result : box' = [box EXCEPT ![r].report = result]
      BY <2>2 DEF Browse
    <3> QED
      BY <3>1, TypeParts DEF IInv, WorldOK, Box, BoxSame
  <2>3. UNCHANGED box \/ Browse(k)
    BY DEF Testing, Tests, TestsBreak, AskTests, RetryTests, TesterWorks, TesterBreaks, TestStarts, TestRefused,
           TestNode, LoadContext, Smoke, WriteReport, MarkPoc, BrowseHangs, TestNodeFails, TestTimesOut, KillTester
  <2> QED
    BY <2>1, <2>2, <2>3
<1> QED
  BY <1>1, <1>2, <1>3, ServedStays

\* What the others do: nothing to a deployment, its instance or its deployment.json.
LEMMA OutsideServed ==
    ASSUME IInv, Served, UNCHANGED <<box, manifest, dep, execs>>, \A r \in RunIds : IsDeploy(r)' => IsDeploy(r)
    PROVE  Served'
<1>1. \A r \in RunIds : BoxSame(box[r], box'[r])
  BY DEF BoxSame
<1> QED
  BY <1>1, ServedStays

LEMMA SweepsServed ==
    ASSUME IInv, Served, SweepWorks \/ SweepBreaking \/ AbandonTeardown \/ \E reaper \in BOOLEAN : TearsDown(reaper)
    PROVE  Served'
<1>1. UNCHANGED <<box, manifest, dep, execs>>
  BY DEF SweepWorks, SweepBreaking, AbandonTeardown, TearsDown, testVars
<1>2. \A r \in RunIds : IsDeploy(r)' => IsDeploy(r)
  BY SweepsWrite, NoNewDeploy DEF RunWrite
<1> QED
  BY <1>1, <1>2, OutsideServed

LEMMA AgeServed ==
    ASSUME IInv, Served, NEW r \in RunIds, AgeInFlight(r)
    PROVE  Served'
<1>1. /\ dep' = [dep EXCEPT ![r].inflight = Older(@)]
      /\ execs' = [e \in Execs |-> IF execs[e].run = r THEN [execs[e] EXCEPT !.inflight = Older(@)] ELSE execs[e]]
      /\ UNCHANGED <<runs, box, manifest>>
  BY DEF AgeInFlight
<1>2. \A q \in RunIds : dep'[q].ver = dep[q].ver /\ dep'[q].idx = dep[q].idx
  BY <1>1, TypeParts DEF IInv, Deploy
<1>3. ASSUME NEW e \in Execs
      PROVE  execs'[e].pc = execs[e].pc /\ execs'[e].did = execs[e].did /\ execs'[e].idx = execs[e].idx
             /\ execs'[e].run = execs[e].run
  BY <1>1, TypeParts DEF IInv, Exec
<1>4. \A q \in RunIds : (IsDeploy(q)' => IsDeploy(q)) /\ BoxSame(box[q], box'[q])
  BY <1>1 DEF IsDeploy, BoxSame
<1> QED
  BY <1>1, <1>2, <1>3, <1>4, ServedStays

LEMMA StartServed ==
    ASSUME IInv, Served, NEW e \in Execs, NEW mode \in Modes, NEW tested \in BOOLEAN, StartDeploy(e, mode, tested)
    PROVE  Served'
<1>1. PICK r \in RunIds, d \in Deploy, x \in Exec :
         /\ \A f \in Execs : execs[f].run # r
         /\ runs' = [runs EXCEPT ![r] = [stage |-> "deploy", status |-> "queued", silent |-> FALSE]]
         /\ dep' = [dep EXCEPT ![r] = d] /\ execs' = [execs EXCEPT ![e] = x]
         /\ d.idx = 1 /\ x.pc = "step"
         /\ UNCHANGED testVars
  BY StartIs
<1>2. /\ dep'[r] = d /\ \A q \in RunIds : q # r => dep'[q] = dep[q] /\ runs'[q] = runs[q]
      /\ execs'[e] = x /\ \A f \in Execs : f # e => execs'[f] = execs[f]
  BY <1>1, TypeParts DEF IInv, Store!TypeOK
<1>3. ASSUME NEW q \in RunIds, IsDeploy(q)' PROVE BoxFits(q)'
  <2>1. CASE q = r
    BY <1>1, <1>2, <2>1 DEF BoxFits, Serves
  <2>2. CASE q # r
    BY <1>1, <1>2, <1>3, <2>2 DEF BoxFits, Served, IsDeploy, testVars
  <2> QED
    BY <2>1, <2>2
<1>4. ASSUME NEW f \in Execs PROVE WorkFits(f)'
  <2>1. CASE f = e
    BY <1>1, <1>2, <2>1 DEF WorkFits
  <2>2. CASE f # e
    BY <1>1, <1>2, <2>2 DEF WorkFits, Served, testVars
  <2> QED
    BY <2>1, <2>2
<1> QED
  BY <1>3, <1>4 DEF Served

LEMMA RetryServed ==
    ASSUME IInv, Served, NEW e \in Execs, RetryDeploy(e)
    PROVE  Served'
<1>1. PICK r \in RunIds :
         /\ Store!AbandonRun(r) \/ UNCHANGED runs
         /\ IsDeploy(r)
         /\ execs' = IF Resumable(r) THEN [execs EXCEPT ![e] = [Off EXCEPT !.pc = "resume", !.run = r]] ELSE execs
  BY DEF RetryDeploy, Newest, OfStage, IsDeploy
<1>2. UNCHANGED <<box, manifest, dep>>
  BY DEF RetryDeploy, testVars
<1>3. NoNewRun
  BY <1>1, DeployWrites, StayNoNew
<1> DEFINE x == [Off EXCEPT !.pc = "resume", !.run = r]
<1>4. x.pc # "work"
  BY DEF Off
<1>5. CASE UNCHANGED execs
  BY <1>2, <1>3, <1>5, OutsideServed DEF NoNewRun, IsDeploy
<1>6. CASE execs' = [execs EXCEPT ![e] = x]
  <2> HIDE DEF x
  <2> QED
    BY <1>2, <1>3, <1>4, <1>6, QuietServed
<1> QED
  BY <1>1, <1>5, <1>6

LEMMA NextServed ==
    ASSUME IInv, Alone, Served, [Next]_vars
    PROVE  Served'
<1>1. CASE \E e \in Execs : Works(e) \/ Die(e)
  BY <1>1, StepWorksServed, MovedServed DEF Works
<1>2. CASE \E k \in Testers : Testing(k)
  BY <1>2, TestingServed
<1>3. CASE SweepWorks \/ SweepBreaking \/ AbandonTeardown \/ \E reaper \in BOOLEAN : TearsDown(reaper)
  BY <1>3, SweepsServed
<1>4. CASE (\E a \in Attempts : Repairs(a)) \/ UNCHANGED vars
  <2>1. UNCHANGED <<runs, box, manifest, dep, execs>>
    BY <1>4 DEF Repairs, RepairStarts, RepairEnds, vars, testVars
  <2> QED
    BY <2>1, OutsideServed DEF IsDeploy
<1>5. CASE \E r \in RunIds : AgeInFlight(r)
  BY <1>5, AgeServed
<1>6. CASE \E r \in RunIds : Silence(r)
  <2>1. PICK r \in RunIds : Silence(r)
    BY <1>6
  <2>2. UNCHANGED <<box, manifest, dep, execs>> /\ Store!GoSilent(r)
    BY <2>1 DEF Silence, testVars
  <2> QED
    BY <2>2, SilenceNoNew, OutsideServed DEF NoNewRun, IsDeploy
<1>7. CASE \E e \in Execs : UserDeploys(e)
  <2>1. PICK e \in Execs, mode \in Modes, tested \in BOOLEAN : StartDeploy(e, mode, tested)
    BY <1>7, DeployAssumption DEF UserDeploys
  <2> QED
    BY <2>1, StartServed
<1>8. CASE \E e \in Execs : RetryDeploy(e)
  BY <1>8, RetryServed
<1> QED
  BY <1>1, <1>2, <1>3, <1>4, <1>5, <1>6, <1>7, <1>8 DEF Next, User, Testing

LEMMA InitServed == Init => Served
<1> SUFFICES ASSUME Init PROVE Served
  OBVIOUS
<1>1. \A e \in Execs : execs[e].pc # "work"
  BY DEF Init, Off
<1>2. \A r \in RunIds : ~IsDeploy(r)
  BY DEF Init, TestInit, LedgerInit, Store!Init, Store!NoDoc, IsDeploy
<1> QED
  BY <1>1, <1>2 DEF Served, WorkFits

LEMMA ServedInductive == ~Impatient => (Spec => [](IInv /\ Alone /\ Served))
<1> SUFFICES ASSUME ~Impatient PROVE Spec => [](IInv /\ Alone /\ Served)
  OBVIOUS
<1>1. IInv /\ Alone /\ Served /\ [Next]_vars => IInv' /\ Alone' /\ Served'
  BY NextKeeps, NextAlone, NextServed
<1> QED
  BY <1>1, InitFits, InitAlone, InitServed, PTL DEF Spec

(* A deployment that succeeded and whose instance still stands serves one  *)
(* code version: the data, the running backend, the pages and the          *)
(* deployment.json are all of the version the run ended with.              *)
THEOREM ServesOneVersion == ~Impatient => (Spec => []ServedCoherent)
<1>1. ASSUME IInv, Alone, Served PROVE ServedCoherent
  <2> SUFFICES ASSUME NEW r \in RunIds, Succeeded(r)
               PROVE  {box[r].seeded, box[r].live, box[r].frontend, manifest[r]} = {dep[r].ver}
    BY DEF ServedCoherent
  <2>1. dep[r].idx = 14 /\ IsDeploy(r)
    BY <1>1 DEF Alone, Succeeded, IsDeploy
  <2>2. box[r].seeded = dep[r].ver /\ box[r].live = dep[r].ver /\ box[r].frontend = dep[r].ver /\ manifest[r] = dep[r].ver
    BY <1>1, <2>1 DEF Served, BoxFits, Serves
  <2> QED
    BY <2>2
<1> QED
  BY <1>1, ServedInductive, PTL

(***************************************************************************)
(* What is in the cloud                                                    *)
(***************************************************************************)

\* What deployment r has once it is done, the step that makes it and the one that registers it.
Owned(r, mode) == DbOf(mode) \cup {Secret, Instance(r)} \cup {Address(r) : x \in DbOf(mode)}
Due(x)         == CASE x.kind = "secret" -> 3
                    [] x.kind \in {"ec2_instance", "atlas_access_list_entry"} -> 4
                    [] OTHER -> 2
Made(x)        == IF x.kind = "secret" THEN 2 ELSE Due(x)

Flex          == \E r \in RunIds : IsDeploy(r) /\ dep[r].mode = "flex_cluster"
Unfinished(x) == \E r \in RunIds : IsDeploy(r) /\ x \in Owned(r, dep[r].mode) /\ dep[r].idx \in Made(x)..Due(x)

\* What is left of a row is not in the cloud, nor is an instance whose row is released; what
\* a step has registered so far is active; everything in the cloud is active, or a deployment
\* stands where it is made or registered, or it is the user of a cluster.
OpsOf(e) == Operations(StepOf(e), execs[e].run, dep[execs[e].run].mode)
Registered(e) ==
    At(e, "work") => \A j \in 1..Len(OpsOf(e)) :
        j <= execs[e].did /\ OpsOf(e)[j].do = "register" => ledger[OpsOf(e)[j].what] = "active"
Gone(x)      == x \notin cloud \/ (x = DbUser /\ sweep.flex)
Accounted(x) == ledger[x] = "active" \/ Unfinished(x) \/ (x = DbUser /\ ledger[x] = "released" /\ Flex)
InstancesEnd == \A r \in RunIds : ledger[Instance(r)] = "released" => Instance(r) \notin cloud
CloudFits ==
    /\ \A x \in sweep.row : Gone(x)
    /\ ledger[Cluster] = "active" \/ sweep.flex => Flex
    /\ \A e \in Execs : Registered(e)
    /\ \A x \in cloud : Accounted(x)
    /\ InstancesEnd

LEMMA OwnedAre ==
    ASSUME NEW r \in RunIds, NEW mode
    PROVE  /\ mode = "shared_db" => Owned(r, mode) = {DbUser, Secret, Instance(r), Address(r)} /\ DbOf(mode) = {DbUser}
           /\ mode = "flex_cluster" =>
                 /\ Owned(r, mode) = {Cluster, DbUser, Secret, Instance(r), Address(r)}
                 /\ DbOf(mode) = {Cluster, DbUser}
           /\ mode \notin {"shared_db", "flex_cluster"} => Owned(r, mode) = {Secret, Instance(r)} /\ DbOf(mode) = {}
BY DbResourcesAre DEF Owned

LEMMA DueIs ==
    /\ Due(DbUser) = 2 /\ Due(Cluster) = 2 /\ Due(Secret) = 3
    /\ \A r : Due(Instance(r)) = 4 /\ Due(Address(r)) = 4
    /\ Made(DbUser) = 2 /\ Made(Cluster) = 2 /\ Made(Secret) = 2
    /\ \A r : Made(Instance(r)) = 4 /\ Made(Address(r)) = 4
<1>1. DbUser.kind = "atlas_db_user" /\ Cluster.kind = "atlas_flex_cluster" /\ Secret.kind = "secret"
  BY DEF DbUser, Cluster, Secret, Resource
<1>2. \A r : Instance(r).kind = "ec2_instance" /\ Address(r).kind = "atlas_access_list_entry"
  BY DEF Instance, Address, Resource
<1>3. Due(DbUser) = 2 /\ Due(Cluster) = 2 /\ Due(Secret) = 3
  BY <1>1 DEF Due
<1>4. \A r : Due(Instance(r)) = 4 /\ Due(Address(r)) = 4
  BY <1>2 DEF Due
<1> QED
  BY <1>1, <1>2, <1>3, <1>4 DEF Made

LEMMA Kinds ==
    /\ DbUser # Cluster /\ Secret # Cluster
    /\ \A r : Instance(r) # Cluster /\ Address(r) # Cluster
BY DEF DbUser, Cluster, Secret, Instance, Address, Resource

\* What a step creates is registered by it or by a later one ...
LEMMA CreatesOwned ==
    ASSUME NEW r \in RunIds, NEW mode, NEW i \in 1..13, NEW x \in Creates(Pipeline[i], r, mode)
    PROVE  x \in Owned(r, mode) /\ i \in Made(x)..Due(x)
<1>1. CASE i = 2
  BY <1>1, PipelineIs, OwnedAre, DueIs DEF Creates
<1>2. CASE i = 4
  BY <1>2, PipelineIs, OwnedAre, DueIs DEF Creates
<1>3. CASE i \notin {2, 4}
  BY <1>3, PipelineIs DEF Creates
<1> QED
  BY <1>1, <1>2, <1>3

\* ... and what a step is to register it does.
LEMMA OwnedRegistered ==
    ASSUME NEW r \in RunIds, NEW mode, NEW x \in Owned(r, mode)
    PROVE  /\ Due(x) \in 2..4 /\ Made(x) \in 2..4
           /\ x \in Registers(Pipeline[Due(x)], r, mode)
<1>1. CASE mode = "shared_db"
  BY <1>1, PipelineIs, OwnedAre, DueIs DEF Registers
<1>2. CASE mode = "flex_cluster"
  BY <1>2, PipelineIs, OwnedAre, DueIs DEF Registers
<1>3. CASE mode \notin {"shared_db", "flex_cluster"}
  BY <1>3, PipelineIs, OwnedAre, DueIs DEF Registers
<1> QED
  BY <1>1, <1>2, <1>3

LEMMA RegistersCluster ==
    ASSUME NEW r \in RunIds, NEW mode, NEW step, Cluster \in Registers(step, r, mode)
    PROVE  mode = "flex_cluster"
<1>1. Cluster \in DbOf(mode)
  BY Kinds DEF Registers
<1> QED
  BY <1>1, OwnedAre, Kinds

\* The deployments keep their modes, and stay at a step that makes or registers something.
Onward == \A r \in RunIds : IsDeploy(r) =>
             /\ IsDeploy(r)' /\ dep'[r].mode = dep[r].mode
             /\ dep[r].idx \in 2..4 => dep'[r].idx = dep[r].idx

LEMMA OnwardKeeps ==
    ASSUME Onward
    PROVE  /\ Flex => Flex'
           /\ \A x : Unfinished(x) => Unfinished(x)'
<1>1. Flex => Flex'
  BY DEF Onward, Flex
<1>2. ASSUME NEW x, Unfinished(x) PROVE Unfinished(x)'
  <2>1. PICK r \in RunIds : IsDeploy(r) /\ x \in Owned(r, dep[r].mode) /\ dep[r].idx \in Made(x)..Due(x)
    BY <1>2 DEF Unfinished
  <2>2. Due(x) \in 2..4 /\ Made(x) \in 2..4
    BY <2>1, OwnedRegistered
  <2>3. dep[r].idx \in 2..4
    BY <2>1, <2>2
  <2>4. IsDeploy(r)' /\ x \in Owned(r, dep'[r].mode) /\ dep'[r].idx \in Made(x)..Due(x)
    BY <2>1, <2>3 DEF Onward
  <2> QED
    BY <2>4 DEF Unfinished, Owned, Due, Made
<1> QED
  BY <1>1, <1>2

LEMMA CloudStays ==
    ASSUME IInv, CloudFits, Onward, UNCHANGED <<cloud, ledger, sweep>>,
           \A e \in Execs : execs'[e].pc = "work" => Registered(e)'
    PROVE  CloudFits'
<1>1. \A e \in Execs : Registered(e)'
  BY DEF Registered, At
<1>2. \A x \in cloud' : Accounted(x)'
  BY OnwardKeeps DEF CloudFits, Accounted
<1>3. \A x \in sweep'.row : Gone(x)'
  BY DEF CloudFits, Gone
<1>4. (ledger[Cluster] = "active" \/ sweep.flex => Flex)'
  BY OnwardKeeps DEF CloudFits
<1>5. InstancesEnd'
  BY DEF CloudFits, InstancesEnd
<1> QED
  BY <1>1, <1>2, <1>3, <1>4, <1>5 DEF CloudFits

\* An execution that is not at it, or whose step registers nothing, has nothing to account for.
LEMMA RegisteredStays ==
    ASSUME IInv, CloudFits, NEW f \in Execs, execs'[f].pc = execs[f].pc, execs'[f].run = execs[f].run,
           execs'[f].idx = execs[f].idx, execs'[f].did = execs[f].did,
           \A r \in RunIds : IsDeploy(r) => dep'[r].mode = dep[r].mode,
           \A x \in Resources : ledger[x] = "active" => ledger'[x] = "active"
    PROVE  Registered(f)'
<1> SUFFICES ASSUME execs[f].pc = "work" PROVE Registered(f)'
  BY DEF Registered, At
<1>1. execs[f].run \in RunIds /\ IsDeploy(execs[f].run)
  BY AtNode
<1>2. OpsOf(f)' = OpsOf(f)
  BY <1>1 DEF OpsOf, StepOf
<1>3. Registered(f)
  BY DEF CloudFits
<1>4. \A j \in 1..Len(OpsOf(f)) : OpsOf(f)[j].what \in Resources
  <2>1. OpsOf(f) \in Seq(OpRecords)
    BY <1>1, OperationsCarry DEF OpsOf, Carries
  <2> HIDE DEF OpsOf
  <2>2. \A j \in 1..Len(OpsOf(f)) : OpsOf(f)[j] \in OpRecords
    BY <2>1
  <2> QED
    BY <2>2 DEF OpRecords
<1> HIDE DEF OpsOf
<1> QED
  BY <1>2, <1>3, <1>4 DEF Registered, At

Registering == {"provision_db", "store_secret", "launch_instance"}

LEMMA NothingRegistered ==
    ASSUME NEW e \in Execs, execs'[e].pc = "work" => execs'[e].did = 0 \/ Pipeline[execs'[e].idx] \notin Registering
    PROVE  Registered(e)'
<1> SUFFICES ASSUME execs'[e].pc = "work" PROVE Registered(e)'
  BY DEF Registered, At
<1>1. CASE execs'[e].did = 0
  BY <1>1 DEF Registered
<1>2. CASE Pipeline[execs'[e].idx] \notin Registering
  <2>1. OpsOf(e)' = <<>>
    BY <1>2, OperationsAre DEF OpsOf, StepOf, Registering
  <2>2. Len(OpsOf(e)') = 0
    BY <2>1
  <2> QED
    BY <2>2 DEF Registered
<1> QED
  BY <1>1, <1>2

\* A step of one execution that leaves the cloud and the ledger alone.
LEMMA DriveCloud ==
    ASSUME IInv, CloudFits, Onward, UNCHANGED <<cloud, ledger, sweep>>,
           NEW e \in Execs, NEW x, execs' = [execs EXCEPT ![e] = x],
           x.pc = "work" => x.did = 0 \/ Pipeline[x.idx] \notin Registering
    PROVE  CloudFits'
<1>1. ASSUME NEW f \in Execs PROVE Registered(f)'
  <2>1. CASE f = e
    <3>1. execs'[e] = x
      BY TypeParts DEF IInv
    <3> QED
      BY <2>1, <3>1, NothingRegistered
  <2>2. CASE f # e
    BY <2>2, TypeParts, RegisteredStays DEF IInv, Onward
  <2> QED
    BY <2>1, <2>2
<1> QED
  BY <1>1, CloudStays

LEMMA SameOnward ==
    ASSUME NoNewRun, UNCHANGED dep
    PROVE  Onward
BY DEF NoNewRun, Onward, IsDeploy

LEMMA CloudWorkCloud ==
    ASSUME IInv, Alone, SweepFits, CloudFits, NEW e \in Execs, CloudWork(e)
    PROVE  CloudFits'
<1> DEFINE o == execs[e]
           r == o.run
           d == dep[r]
           ops == Operations(StepOf(e), r, d.mode)
           n == o.did + 1
           op == ops[n]
<1>1. /\ o.pc = "work" /\ o.did < Len(ops) /\ Possible(op) /\ Perform(op) /\ UNCHANGED <<runs, sweep, dep>>
      /\ execs' = [execs EXCEPT ![e].did = n]
  BY DEF CloudWork, At
<1>2. /\ o \in Exec /\ o.did \in Nat /\ r \in RunIds /\ o.idx = d.idx
      /\ o.idx \in 1..13 /\ IsDeploy(r)
  BY <1>1, AtDriver, AtNode DEF ExecFits, Exec
<1>3. sweep.row = {}
  BY <1>1 DEF SweepFits, Quiet, At
<1>4. Carries(ops, Creates(StepOf(e), r, d.mode), Registers(StepOf(e), r, d.mode))
  BY <1>2, OperationsCarry
<1>5. n \in 1..Len(ops) /\ op \in OpRecords
  <2>1. ops \in Seq(OpRecords) /\ Len(ops) \in Nat
    BY <1>4 DEF Carries
  <2>2. n \in 1..Len(ops)
    BY <1>1, <1>2, <2>1
  <2> QED
    BY <2>1, <2>2
<1>6. op.what \in Resources /\ op.do \in {"create", "register"}
  BY <1>5 DEF OpRecords
<1>7. /\ op.do = "create" => op.what \in Creates(StepOf(e), r, d.mode)
      /\ op.do = "register" => op.what \in Registers(StepOf(e), r, d.mode)
  BY <1>4, <1>5 DEF Carries
<1>8. /\ op.do = "create" => cloud' = cloud \cup {op.what} /\ UNCHANGED ledger
      /\ op.do # "create" => ledger' = [ledger EXCEPT ![op.what] = "active"] /\ UNCHANGED cloud
  BY <1>1 DEF Perform
<1>9. Onward
  BY <1>1, SameOnward DEF NoNewRun
<1>10. /\ \A x \in Resources : ledger[x] = "active" => ledger'[x] = "active"
       /\ op.do = "register" => ledger'[op.what] = "active"
  BY <1>6, <1>8, TypeParts DEF IInv, WorldOK
<1>11. ASSUME op.do = "create" PROVE Unfinished(op.what)
  BY <1>2, <1>7, <1>11, CreatesOwned DEF Unfinished, StepOf
<1>12. ASSUME op.do = "register", op.what = Cluster PROVE Flex
  BY <1>2, <1>7, <1>12, RegistersCluster DEF Flex
<1>13. Registered(e)'
  <2>1. execs'[e] = [o EXCEPT !.did = n]
    BY <1>1, TypeParts DEF IInv
  <2>2. execs'[e].did = n /\ execs'[e].run = r /\ execs'[e].idx = o.idx
    BY <1>2, <2>1 DEF Exec
  <2>3. OpsOf(e)' = ops /\ OpsOf(e) = ops
    BY <1>1, <2>2 DEF OpsOf, StepOf
  <2>4. Registered(e)
    BY DEF CloudFits
  <2>5. \A j \in 1..Len(ops) : j <= o.did /\ ops[j].do = "register" => ledger[ops[j].what] = "active"
    BY <1>1, <2>3, <2>4 DEF Registered, At
  <2> HIDE DEF ops
  <2>6. ASSUME NEW j \in 1..Len(ops), j <= n, ops[j].do = "register" PROVE ledger'[ops[j].what] = "active"
    <3>1. j <= o.did \/ j = n
      BY <1>2, <2>6
    <3>2. ops[j] \in OpRecords
      BY <1>4 DEF Carries
    <3>3. ops[j].what \in Resources
      BY <3>2 DEF OpRecords
    <3> QED
      BY <1>10, <2>5, <2>6, <3>1, <3>3
  <2> QED
    BY <2>2, <2>3, <2>6 DEF Registered
<1> HIDE DEF op, ops, n
<1>14. ASSUME NEW f \in Execs, f # e PROVE Registered(f)'
  BY <1>1, <1>10, <1>14, RegisteredStays
<1>15. ASSUME NEW x \in cloud' PROVE Accounted(x)'
  <2>1. (x \in cloud \/ Unfinished(x)) /\ x \in Resources
    BY <1>6, <1>8, <1>11, <1>15, TypeParts DEF IInv, WorldOK
  <2>2. ledger'[x] = ledger[x] \/ ledger'[x] = "active"
    BY <1>6, <1>8, <1>10, <2>1, TypeParts DEF IInv, WorldOK
  <2> QED
    BY <1>9, <2>1, <2>2, OnwardKeeps DEF CloudFits, Accounted
<1>16. (ledger[Cluster] = "active" \/ sweep.flex => Flex)'
  <2>1. ledger'[Cluster] = "active" => ledger[Cluster] = "active" \/ (op.do = "register" /\ op.what = Cluster)
    <3>1. CASE op.do = "create"
      BY <1>8, <3>1
    <3>2. CASE op.do = "register"
      <4>1. Cluster \in Resources /\ ledger' = [ledger EXCEPT ![op.what] = "active"]
        BY <1>2, <1>8, <3>2, OpTyped
      <4> QED
        BY <1>6, <3>2, <4>1, TypeParts DEF IInv, WorldOK
    <3> QED
      BY <1>6, <3>1, <3>2
  <2> QED
    BY <1>1, <1>9, <1>12, <2>1, OnwardKeeps DEF CloudFits
<1>17. InstancesEnd'
  <2> SUFFICES ASSUME NEW q \in RunIds, ledger'[Instance(q)] = "released" PROVE Instance(q) \notin cloud'
    BY DEF InstancesEnd
  <2>1. Instance(q) \in Resources /\ Instance(q).kind = "ec2_instance"
    BY OpTyped DEF Instance, Resource
  <2>2. ledger[Instance(q)] = "released" /\ Instance(q) \notin cloud
    <3>1. ledger'[Instance(q)] = ledger[Instance(q)] \/ ledger'[Instance(q)] = "active"
      BY <1>6, <1>8, <1>10, <2>1, TypeParts DEF IInv, WorldOK
    <3> QED
      BY <3>1 DEF CloudFits, InstancesEnd
  <2>3. ~(op.do = "create" /\ op.what = Instance(q))
    BY <1>1, <2>1, <2>2 DEF Possible
  <2> QED
    BY <1>6, <1>8, <2>2, <2>3
<1> QED
  BY <1>1, <1>3, <1>13, <1>14, <1>15, <1>16, <1>17 DEF CloudFits

LEMMA StepSucceedsCloud ==
    ASSUME IInv, Alone, CloudFits, NEW e \in Execs, StepSucceeds(e)
    PROVE  CloudFits'
<1> DEFINE o == execs[e]
           r == o.run
           d == dep[r]
           c == [d EXCEPT !.idx = o.idx + 1]
           ops == Operations(StepOf(e), r, d.mode)
           x == [o EXCEPT !.idx = @ + 1]
<1>1. /\ dep' = [dep EXCEPT ![r] = c] /\ (Proceed(e, x) \/ Stop(e))
      /\ o.pc = "work" /\ o.did = WorkOf(e) /\ UNCHANGED <<cloud, ledger, sweep>>
  BY DEF StepSucceeds, At, cloudVars, Refused
<1>2. /\ o \in Exec /\ d \in Deploy /\ r \in RunIds /\ o.idx = d.idx /\ o.idx \in 1..13 /\ IsDeploy(r)
  BY <1>1, AtDriver, AtNode DEF ExecFits
<1>3. NoNewRun
  BY WorksNoNew DEF Works, StepWorks
<1>4. c.idx = o.idx + 1 /\ c.mode = d.mode
  BY <1>2 DEF Deploy
<1>5. dep'[r] = c /\ \A q \in RunIds : q # r => dep'[q] = dep[q]
  BY <1>1, <1>2, TypeParts DEF IInv
<1> HIDE DEF c
<1>6. \A q \in RunIds : IsDeploy(q) => IsDeploy(q)' /\ dep'[q].mode = dep[q].mode
  BY <1>3, <1>4, <1>5 DEF NoNewRun, IsDeploy
\* All that this step is to register is.
<1>7. ASSUME NEW y \in Owned(r, d.mode), Due(y) = o.idx PROVE ledger[y] = "active"
  <2>1. StepOf(e) \in Registering /\ y \in Registers(StepOf(e), r, d.mode)
    BY <1>2, <1>7, OwnedRegistered, PipelineIs DEF StepOf, Registering
  <2>2. o.did = Len(ops)
    BY <1>1, <2>1 DEF WorkOf, OnBox, Registering
  <2>3. Carries(ops, Creates(StepOf(e), r, d.mode), Registers(StepOf(e), r, d.mode))
    BY <1>2, OperationsCarry
  <2>4. Registered(e) /\ OpsOf(e) = ops
    BY DEF CloudFits, OpsOf
  <2>5. \A j \in 1..Len(ops) : j <= o.did /\ ops[j].do = "register" => ledger[ops[j].what] = "active"
    BY <1>1, <2>4 DEF Registered, At
  <2> HIDE DEF ops
  <2>6. PICK j \in 1..Len(ops) : ops[j] = Op("register", y)
    BY <2>1, <2>3 DEF Carries
  <2>7. ops[j].do = "register" /\ ops[j].what = y /\ j <= o.did
    BY <2>2, <2>3, <2>6 DEF Op, Carries
  <2> QED
    BY <2>5, <2>7
<1>8. ASSUME NEW y, Unfinished(y) PROVE Unfinished(y)' \/ ledger[y] = "active"
  <2>1. PICK q \in RunIds : IsDeploy(q) /\ y \in Owned(q, dep[q].mode) /\ dep[q].idx \in Made(y)..Due(y)
    BY <1>8 DEF Unfinished
  <2>2. Due(y) \in 2..4 /\ Made(y) \in 2..4
    BY <2>1, OwnedRegistered
  <2>3. (q # r \/ Due(y) # o.idx) => dep'[q].idx \in Made(y)..Due(y)
    BY <1>2, <1>4, <1>5, <2>1, <2>2
  <2>4. ASSUME dep'[q].idx \in Made(y)..Due(y) PROVE Unfinished(y)'
    <3>1. IsDeploy(q)' /\ y \in Owned(q, dep'[q].mode)
      BY <1>6, <2>1
    <3> QED
      BY <2>4, <3>1 DEF Unfinished, Owned, Due, Made
  <2> QED
    BY <1>7, <2>1, <2>3, <2>4
<1>9. Flex => Flex'
  BY <1>6 DEF Flex
<1>10. PICK z : execs' = [execs EXCEPT ![e] = z] /\ z.pc # "work"
  <2>1. x \in Exec /\ x.idx \in 1..14
    <3>1. o.idx + 1 \in 0..Len(Pipeline) + 1 /\ o.idx + 1 \in 1..14
      BY <1>2, PipelineIs
    <3>2. x = [o EXCEPT !.idx = o.idx + 1]
      BY <1>2 DEF Exec
    <3>3. x \in Exec
      BY <1>2, <3>1, <3>2 DEF Exec
    <3>4. x.idx = o.idx + 1
      BY <1>2, <3>2 DEF Exec
    <3> QED
      BY <3>1, <3>3, <3>4
  <2> HIDE DEF x
  <2>2. CASE Proceed(e, x)
    BY <2>1, <2>2, ProceedIs
  <2>3. CASE Stop(e)
    BY <2>3, StopIs
  <2> QED
    BY <1>1, <2>2, <2>3
<1>11. ASSUME NEW f \in Execs PROVE Registered(f)'
  <2>1. CASE f = e
    <3>1. execs'[e].pc # "work"
      BY <1>10, TypeParts DEF IInv
    <3> QED
      BY <2>1, <3>1, NothingRegistered
  <2>2. CASE f # e
    <3>1. execs'[f] = execs[f]
      BY <1>10, <2>2, TypeParts DEF IInv
    <3> QED
      BY <1>1, <1>6, <3>1, RegisteredStays
  <2> QED
    BY <2>1, <2>2
<1>12. \A y \in cloud' : Accounted(y)'
  BY <1>1, <1>8, <1>9 DEF CloudFits, Accounted
<1>13. (\A y \in sweep.row : Gone(y))' /\ (ledger[Cluster] = "active" \/ sweep.flex => Flex)' /\ InstancesEnd'
  BY <1>1, <1>9 DEF CloudFits, Gone, InstancesEnd
<1> QED
  BY <1>11, <1>12, <1>13 DEF CloudFits

LEMMA StepWorksCloud ==
    ASSUME IInv, Alone, SweepFits, CloudFits, NEW e \in Execs, StepWorks(e)
    PROVE  CloudFits'
<1> DEFINE o == execs[e]
<1>1. CASE CloudWork(e) \/ StepSucceeds(e)
  BY <1>1, CloudWorkCloud, StepSucceedsCloud
<1>2. ASSUME ~CloudWork(e), ~StepSucceeds(e) PROVE CloudFits'
  <2>1. /\ o.pc \in {"step", "work"} /\ UNCHANGED <<cloud, ledger, sweep, dep>>
    BY <1>2 DEF StepWorks, StepBegins, BoxWork, PocWork, StepFails, At, cloudVars
  <2>2. o \in Exec /\ o.idx \in 1..13 /\ (o.pc = "step" => o.did = 0)
    BY <2>1, AtNode DEF ExecFits
  <2>3. Onward
    BY <2>1, WorksNoNew, SameOnward DEF Works
  <2>4. ASSUME NEW x, execs' = [execs EXCEPT ![e] = x], x.pc = "work" => x.did = 0 \/ Pipeline[x.idx] \notin Registering
        PROVE  CloudFits'
    BY <2>1, <2>3, <2>4, DriveCloud
  <2>5. CASE Stop(e)
    BY <2>4, <2>5, StopIs
  <2>6. CASE StepBegins(e) /\ Goto(e, "work")
    <3>1. o.did = 0
      BY <2>2, <2>6 DEF StepBegins, At
    <3>2. [o EXCEPT !.pc = "work"].did = 0
      BY <2>2, <3>1 DEF Exec
    <3>3. execs' = [execs EXCEPT ![e] = [o EXCEPT !.pc = "work"]]
      BY <2>6 DEF Goto
    <3> QED
      BY <2>4, <3>2, <3>3
  <2>7. CASE BoxWork(e) \/ PocWork(e)
    <3>1. StepOf(e) \in OnBox \cup {"write_deployment", "finalize"} /\ execs' = [execs EXCEPT ![e].did = 1]
      BY <2>7 DEF BoxWork, PocWork
    <3> DEFINE x == [o EXCEPT !.did = 1]
    <3>2. x.idx = o.idx /\ execs' = [execs EXCEPT ![e] = x]
      BY <2>2, <3>1 DEF Exec
    <3> HIDE DEF x
    <3>3. Pipeline[x.idx] \notin Registering
      BY <3>1, <3>2 DEF StepOf, OnBox, Registering
    <3> QED
      BY <2>4, <3>2, <3>3
  <2>8. CASE StepFails(e) /\ ~Refused(e)
    <3>1. PICK pc \in {"repair", "fail"}, comp \in Components \cup {Repairable[StepOf(e)]} :
             \/ execs' = [execs EXCEPT ![e] = [o EXCEPT !.did = 0, !.pc = pc, !.comp = comp]]
             \/ execs' = [execs EXCEPT ![e] = [o EXCEPT !.did = 0, !.pc = pc]]
      BY <2>8 DEF StepFails
    <3>2. /\ [o EXCEPT !.did = 0, !.pc = pc, !.comp = comp].did = 0
          /\ [o EXCEPT !.did = 0, !.pc = pc].did = 0
      BY <2>2 DEF Exec
    <3> QED
      BY <2>4, <3>1, <3>2
  <2> QED
    BY <1>2, <2>5, <2>6, <2>7, <2>8 DEF StepWorks, StepBegins, StepFails, Refused
<1> QED
  BY <1>1, <1>2

LEMMA MovedCloud ==
    ASSUME IInv, Alone, CloudFits, NEW e \in Execs, Calls(e) \/ Waits(e) \/ Leaves(e) \/ Die(e)
    PROVE  CloudFits'
<1> DEFINE r == execs[e].run
           d == dep[r]
<1>1. Moved(e) /\ NoNewRun /\ execs[e].pc # "off"
  BY CallsMove, WaitsMove, LeavesMove, WorksNoNew, WorksWrite DEF Works
<1>2. UNCHANGED <<cloud, ledger, sweep>>
  <2>1. CASE Calls(e)
    BY <2>1 DEF Calls, CountAttempt, AskForTests, MarkInFlight, Fire, FireRaises, ClearInFlight, cloudVars
  <2>2. CASE Waits(e)
    BY <2>2 DEF Waits, TestsAnswer, RepairAnswers, WaitFails, WaitWindow, cloudVars
  <2>3. CASE Leaves(e)
    BY <2>3 DEF Leaves, Resume, HandOver, Finish, FinishFailed, ReleasePoc, cloudVars
  <2>4. CASE Die(e)
    BY <2>4 DEF Die, cloudVars
  <2> QED
    BY <2>1, <2>2, <2>3, <2>4
<1>3. PICK x, c : /\ execs' = [execs EXCEPT ![e] = x] /\ dep' = [dep EXCEPT ![r] = c]
                  /\ x.pc # "work" /\ Moves(d, c)
  BY <1>1 DEF Moved
<1>4. r \in RunIds /\ d.idx \in 1..14
  BY <1>1, AtNode
<1>5. dep'[r] = c /\ \A q \in RunIds : q # r => dep'[q] = dep[q]
  BY <1>3, <1>4, TypeParts DEF IInv
<1>6. c.mode = d.mode /\ (d.idx \in 2..4 => c.idx = d.idx)
  <2> HIDE DEF d, r
  <2> QED
    BY <1>3, <1>4 DEF Moves
<1>7. Onward
  BY <1>1, <1>5, <1>6 DEF NoNewRun, IsDeploy, Onward
<1> QED
  BY <1>2, <1>3, <1>7, DriveCloud

\* What the others do: nothing to a deployment, the cloud or the ledger.
LEMMA OutsideCloud ==
    ASSUME IInv, CloudFits, UNCHANGED <<cloud, ledger, sweep, dep, execs>>, \A r \in RunIds : IsDeploy(r) => IsDeploy(r)'
    PROVE  CloudFits'
<1>1. Onward
  BY DEF Onward
<1>2. \A e \in Execs : Registered(e)'
  BY RegisteredStays
<1> QED
  BY <1>1, <1>2, CloudStays

LEMMA DeploysStay ==
    ASSUME IInv, NEW q \in RunIds, RunWrite(q) \/ \E s \in Stages : CreateRun(q, s)
    PROVE  \A r \in RunIds : IsDeploy(r) => IsDeploy(r)'
<1>1. runs \in [RunIds -> Store!RunDoc]
  BY TypeParts DEF IInv, Store!TypeOK
<1>2. CASE \E status : Wrote(q, status)
  BY <1>1, <1>2 DEF Wrote, Store!RunDoc, IsDeploy
<1>3. CASE \E s \in Stages : CreateRun(q, s)
  <2>1. PICK s \in Stages : CreateRun(q, s)
    BY <1>3
  <2>2. Absent(q) /\ runs' = [runs EXCEPT ![q] = [stage |-> s, status |-> "queued", silent |-> FALSE]]
    BY <2>1, CreateMoves
  <2>3. ~IsDeploy(q)
    BY <2>2 DEF IInv, Placed, DocFits, IsDeploy
  <2> QED
    BY <1>1, <2>2, <2>3 DEF IsDeploy
<1>4. CASE UNCHANGED runs
  BY <1>4 DEF IsDeploy
<1> QED
  BY <1>2, <1>3, <1>4, WritesAre DEF RunWrite

LEMMA TestingCloud ==
    ASSUME IInv, CloudFits, NEW k \in Testers, Testing(k)
    PROVE  CloudFits'
<1>1. /\ UNCHANGED <<cloud, ledger, sweep, dep, execs>>
      /\ \/ \E q \in RunIds : IsTest(q) /\ RunWrite(q)
         \/ \E q \in RunIds : CreateRun(q, "test")
         \/ UNCHANGED runs
  BY TestingWrites
<1>2. \A r \in RunIds : IsDeploy(r) => IsDeploy(r)'
  BY <1>1, DeploysStay DEF Stages, IsDeploy
<1> QED
  BY <1>1, <1>2, OutsideCloud

\* A row is taken up, let go or given up while nobody deploys.
LEMMA SweepingCloud ==
    ASSUME IInv, SweepFits, CloudFits, Onward, sweep.pc # "off", UNCHANGED <<dep, execs>>,
           \A x \in cloud' : x \in cloud,
           \A x \in Resources : ledger'[x] # ledger[x] => x \in sweep.row /\ ledger'[x] = "released",
           sweep'.flex => sweep.flex \/ ledger[Cluster] = "active",
           \A x \in sweep'.row : (x \in sweep.row /\ sweep'.flex = sweep.flex) \/ Gone(x)'
    PROVE  CloudFits'
<1>1. \A x \in cloud' : Accounted(x)'
  <2> SUFFICES ASSUME NEW x \in cloud' PROVE Accounted(x)'
    OBVIOUS
  <2>1. x \in cloud /\ x \in Resources
    BY TypeParts DEF IInv, WorldOK
  <2>2. CASE ledger'[x] = ledger[x]
    BY <2>1, <2>2, OnwardKeeps DEF CloudFits, Accounted
  <2>3. CASE x \in sweep.row /\ ledger'[x] = "released"
    BY <2>1, <2>3, OnwardKeeps DEF CloudFits, Accounted, Gone
  <2> QED
    BY <2>1, <2>2, <2>3
<1>2. \A x \in sweep'.row : Gone(x)'
  BY DEF CloudFits, Gone
<1>3. (ledger[Cluster] = "active" \/ sweep.flex => Flex)'
  <2>1. Cluster \in Resources
    BY DEF Resources
  <2>2. ledger'[Cluster] = "active" => ledger[Cluster] = "active"
    BY <2>1
  <2> QED
    BY <2>2, OnwardKeeps DEF CloudFits
<1>4. \A e \in Execs : Registered(e)'
  BY DEF SweepFits, Quiet, Registered, At
<1>5. InstancesEnd'
  <2> SUFFICES ASSUME NEW r \in RunIds, ledger'[Instance(r)] = "released" PROVE Instance(r) \notin cloud'
    BY DEF InstancesEnd
  <2>1. Instance(r) \in Resources /\ Instance(r) # DbUser
    BY OpTyped DEF Instance, DbUser, Resource
  <2> QED
    BY <2>1 DEF CloudFits, InstancesEnd, Gone
<1> QED
  BY <1>1, <1>2, <1>3, <1>4, <1>5 DEF CloudFits

LEMMA SweepStepCloud ==
    ASSUME IInv, SweepFits, CloudFits, Sweeps \/ SweepBreaks, UNCHANGED <<dep, execs>>, Onward
    PROVE  CloudFits'
<1>1. sweep \in Sweep /\ ledger \in [Resources -> {"none", "active", "released"}]
  BY TypeParts DEF IInv, WorldOK
<1>2. CASE ListRows
  <2>1. sweep' = [sweep EXCEPT !.pc = "rows", !.todo = Active, !.flex = Cluster \in Active]
    BY <1>2 DEF ListRows
  <2>2. sweep'.row = sweep.row /\ (sweep'.flex => ledger[Cluster] = "active") /\ sweep.pc = "list"
    BY <1>1, <1>2, <2>1 DEF Sweep, ListRows, Active
  <2>3. sweep.row = {}
    BY <2>2 DEF SweepFits
  <2> QED
    BY <1>2, <2>2, <2>3, SweepingCloud DEF ListRows
<1>3. CASE DeleteResource
  <2>1. PICK x \in NextRow : cloud' = cloud \ Deletes(x) /\ sweep' = [sweep EXCEPT !.todo = @ \ {x}, !.row = {x}]
    BY <1>3 DEF DeleteResource
  <2>2. sweep'.row = {x} /\ sweep'.flex = sweep.flex /\ sweep.pc = "rows" /\ UNCHANGED ledger
    BY <1>1, <1>3, <2>1 DEF Sweep, DeleteResource
  <2>3. Gone(x)'
    BY <2>1, <2>2 DEF Gone, Deletes
  <2> QED
    BY <2>1, <2>2, <2>3, SweepingCloud
<1>4. CASE ReleaseRow
  <2>1. PICK x \in sweep.row : ledger' = [ledger EXCEPT ![x] = "released"]
    BY <1>4 DEF ReleaseRow
  <2>2. sweep'.row = {} /\ sweep'.flex = sweep.flex /\ UNCHANGED cloud
    BY <1>1, <1>4 DEF Sweep, ReleaseRow
  <2>3. \A y \in Resources : ledger'[y] # ledger[y] => y \in sweep.row /\ ledger'[y] = "released"
    BY <1>1, <2>1
  <2>4. sweep.pc # "off"
    BY <2>1 DEF SweepFits
  <2> QED
    BY <2>2, <2>3, <2>4, SweepingCloud
<1>5. CASE TornDown
  <2>1. sweep.pc = "rows" /\ UNCHANGED <<cloud, ledger>> /\ sweep.row = {}
    BY <1>5 DEF TornDown
  <2>2. sweep'.row = {} /\ (sweep'.flex => sweep.flex)
    BY <1>1, <1>5, <2>1 DEF Sweep, TornDown, NoSweep
  <2> QED
    BY <2>1, <2>2, SweepingCloud
<1>6. CASE FinishSweep \/ SweepRaises \/ KillSweep
  <2>1. sweep' = NoSweep /\ sweep.pc # "off" /\ UNCHANGED <<cloud, ledger>>
    BY <1>6 DEF FinishSweep, SweepRaises, KillSweep
  <2>2. sweep'.row = {} /\ ~sweep'.flex
    BY <2>1 DEF NoSweep
  <2> QED
    BY <2>1, <2>2, SweepingCloud
<1>7. CASE RowFails
  <2>1. /\ sweep.pc = "rows" /\ UNCHANGED <<cloud, ledger>>
        /\ \/ \E x : sweep' = [sweep EXCEPT !.todo = @ \ {x}, !.errors = TRUE]
           \/ sweep' = [sweep EXCEPT !.row = {}, !.errors = TRUE]
    BY <1>7 DEF RowFails
  <2>2. sweep'.flex = sweep.flex /\ (sweep'.row = sweep.row \/ sweep'.row = {})
    BY <1>1, <2>1 DEF Sweep
  <2> QED
    BY <2>1, <2>2, SweepingCloud
<1> QED
  BY <1>2, <1>3, <1>4, <1>5, <1>6, <1>7 DEF Sweeps, SweepBreaks

LEMMA StartSweepCloud ==
    ASSUME IInv, CloudFits, UNCHANGED <<dep, execs, cloud, ledger>>, Onward, sweep'.row = {}, ~sweep'.flex
    PROVE  CloudFits'
<1>1. \A e \in Execs : Registered(e)'
  BY RegisteredStays
<1>2. \A x \in cloud' : Accounted(x)'
  BY OnwardKeeps DEF CloudFits, Accounted
<1>3. (ledger[Cluster] = "active" \/ sweep.flex => Flex)' /\ InstancesEnd'
  BY OnwardKeeps DEF CloudFits, InstancesEnd
<1> QED
  BY <1>1, <1>2, <1>3 DEF CloudFits

LEMMA SweepsCloud ==
    ASSUME IInv, SweepFits, CloudFits,
           SweepWorks \/ SweepBreaking \/ AbandonTeardown \/ \E reaper \in BOOLEAN : TearsDown(reaper)
    PROVE  CloudFits'
<1>1. /\ UNCHANGED <<dep, execs>>
      /\ \/ \E q \in RunIds : IsTeardown(q) /\ RunWrite(q)
         \/ \E q \in RunIds : CreateRun(q, "teardown")
         \/ UNCHANGED runs
  BY SweepsWrite
<1>2. \A r \in RunIds : IsDeploy(r) => IsDeploy(r)'
  BY <1>1, DeploysStay DEF Stages, IsDeploy
<1>3. Onward
  BY <1>1, <1>2 DEF Onward
<1>4. CASE SweepWorks \/ SweepBreaking
  BY <1>1, <1>3, <1>4, SweepStepCloud DEF SweepWorks, SweepBreaking
<1>5. CASE AbandonTeardown
  BY <1>1, <1>2, <1>5, OutsideCloud DEF AbandonTeardown, cloudVars
<1>6. CASE \E reaper \in BOOLEAN : TearsDown(reaper)
  <2>1. PICK reaper \in BOOLEAN, r \in RunIds :
           /\ UNCHANGED <<cloud, ledger>>
           /\ sweep' = [NoSweep EXCEPT !.pc = "list", !.run = r, !.reaper = reaper]
    BY <1>6 DEF TearsDown, StartSweep
  <2>2. sweep'.row = {} /\ ~sweep'.flex
    BY <2>1 DEF NoSweep
  <2> QED
    BY <1>1, <1>3, <2>1, <2>2, StartSweepCloud
<1> QED
  BY <1>4, <1>5, <1>6

LEMMA AgeCloud ==
    ASSUME IInv, CloudFits, NEW r \in RunIds, AgeInFlight(r)
    PROVE  CloudFits'
<1>1. /\ dep' = [dep EXCEPT ![r].inflight = Older(@)]
      /\ execs' = [e \in Execs |-> IF execs[e].run = r THEN [execs[e] EXCEPT !.inflight = Older(@)] ELSE execs[e]]
      /\ UNCHANGED <<runs, cloud, ledger, sweep>>
  BY DEF AgeInFlight, cloudVars
<1>2. \A q \in RunIds : dep'[q].mode = dep[q].mode /\ dep'[q].idx = dep[q].idx
  BY <1>1, TypeParts DEF IInv, Deploy
<1>3. ASSUME NEW e \in Execs
      PROVE  execs'[e].pc = execs[e].pc /\ execs'[e].did = execs[e].did /\ execs'[e].idx = execs[e].idx
             /\ execs'[e].run = execs[e].run
  BY <1>1, TypeParts DEF IInv, Exec
<1>4. Onward
  BY <1>1, <1>2 DEF IsDeploy, Onward
<1>5. \A e \in Execs : Registered(e)'
  BY <1>1, <1>2, <1>3, RegisteredStays
<1> QED
  BY <1>1, <1>4, <1>5, CloudStays

LEMMA StartCloud ==
    ASSUME IInv, CloudFits, NEW e \in Execs, NEW mode \in Modes, NEW tested \in BOOLEAN, StartDeploy(e, mode, tested)
    PROVE  CloudFits'
<1>1. PICK r \in RunIds, d \in Deploy, x \in Exec :
         /\ Absent(r)
         /\ runs' = [runs EXCEPT ![r] = [stage |-> "deploy", status |-> "queued", silent |-> FALSE]]
         /\ dep' = [dep EXCEPT ![r] = d] /\ execs' = [execs EXCEPT ![e] = x]
         /\ x.pc = "step"
         /\ UNCHANGED <<cloud, ledger, sweep>>
  BY StartIs
<1>2. \A q \in RunIds : q # r => dep'[q] = dep[q] /\ runs'[q] = runs[q]
  BY <1>1, TypeParts DEF IInv, Store!TypeOK
<1>3. ~IsDeploy(r)
  BY <1>1 DEF IInv, Placed, DocFits, IsDeploy
<1>4. Onward
  BY <1>2, <1>3 DEF Onward, IsDeploy
<1> QED
  BY <1>1, <1>4, DriveCloud

LEMMA RetryCloud ==
    ASSUME IInv, CloudFits, NEW e \in Execs, RetryDeploy(e)
    PROVE  CloudFits'
<1>1. PICK r \in RunIds :
         /\ Store!AbandonRun(r) \/ UNCHANGED runs
         /\ IsDeploy(r)
         /\ execs' = IF Resumable(r) THEN [execs EXCEPT ![e] = [Off EXCEPT !.pc = "resume", !.run = r]] ELSE execs
  BY DEF RetryDeploy, Newest, OfStage, IsDeploy
<1>2. UNCHANGED <<cloud, ledger, sweep, dep>>
  BY DEF RetryDeploy, cloudVars
<1>3. NoNewRun
  BY <1>1, DeployWrites, StayNoNew
<1>4. Onward
  BY <1>2, <1>3, SameOnward
<1> DEFINE x == [Off EXCEPT !.pc = "resume", !.run = r]
<1>5. x.pc # "work"
  BY DEF Off
<1>6. CASE UNCHANGED execs
  BY <1>2, <1>3, <1>6, OutsideCloud DEF NoNewRun, IsDeploy
<1>7. CASE execs' = [execs EXCEPT ![e] = x]
  <2> HIDE DEF x
  <2> QED
    BY <1>2, <1>4, <1>5, <1>7, DriveCloud
<1> QED
  BY <1>1, <1>6, <1>7

LEMMA NextCloud ==
    ASSUME IInv, Alone, SweepFits, CloudFits, [Next]_vars
    PROVE  CloudFits'
<1>1. CASE \E e \in Execs : Works(e) \/ Die(e)
  BY <1>1, StepWorksCloud, MovedCloud DEF Works
<1>2. CASE \E k \in Testers : Testing(k)
  BY <1>2, TestingCloud
<1>3. CASE SweepWorks \/ SweepBreaking \/ AbandonTeardown \/ \E reaper \in BOOLEAN : TearsDown(reaper)
  BY <1>3, SweepsCloud
<1>4. CASE (\E a \in Attempts : Repairs(a)) \/ UNCHANGED vars
  <2>1. UNCHANGED <<runs, cloud, ledger, sweep, dep, execs>>
    BY <1>4 DEF Repairs, RepairStarts, RepairEnds, vars, cloudVars
  <2> QED
    BY <2>1, OutsideCloud DEF IsDeploy
<1>5. CASE \E r \in RunIds : AgeInFlight(r)
  BY <1>5, AgeCloud
<1>6. CASE \E r \in RunIds : Silence(r)
  <2>1. PICK r \in RunIds : Silence(r)
    BY <1>6
  <2>2. UNCHANGED <<cloud, ledger, sweep, dep, execs>> /\ Store!GoSilent(r)
    BY <2>1 DEF Silence, cloudVars
  <2> QED
    BY <2>2, SilenceNoNew, OutsideCloud DEF NoNewRun, IsDeploy
<1>7. CASE \E e \in Execs : UserDeploys(e)
  <2>1. PICK e \in Execs, mode \in Modes, tested \in BOOLEAN : StartDeploy(e, mode, tested)
    BY <1>7, DeployAssumption DEF UserDeploys
  <2> QED
    BY <2>1, StartCloud
<1>8. CASE \E e \in Execs : RetryDeploy(e)
  BY <1>8, RetryCloud
<1> QED
  BY <1>1, <1>2, <1>3, <1>4, <1>5, <1>6, <1>7, <1>8 DEF Next, User, Testing

LEMMA InitCloud == Init => CloudFits
<1> SUFFICES ASSUME Init PROVE CloudFits
  OBVIOUS
<1>1. \A e \in Execs : execs[e].pc # "work"
  BY DEF Init, Off
<1>2. cloud = {} /\ sweep.row = {} /\ ~sweep.flex /\ ledger[Cluster] # "active"
  <2>1. Cluster \in Resources
    BY DEF Resources
  <2> QED
    BY <2>1 DEF Init, TestInit, LedgerInit, NoSweep
<1> QED
  BY <1>1, <1>2 DEF CloudFits, Registered, At, InstancesEnd

\* A step that makes or registers something of deployment r is concerned with it.
LEMMA SecretCreated ==
    ASSUME NEW r \in RunIds, NEW mode
    PROVE  LET ops == Operations("provision_db", r, mode)
           IN  \E j \in 1..Len(ops) : ops[j].what = Secret
<1> DEFINE dbs  == DbResources(mode)
           made == ForEach("create", dbs) \o ForEach("register", dbs)
           op   == Op("create", Secret)
           ops  == Operations("provision_db", r, mode)
<1>1. dbs = <<>> \/ dbs = <<DbUser>> \/ dbs = <<Cluster, DbUser>>
  BY DbResourcesAre
<1>2. \A do \in {"create", "register"} : ForEach(do, dbs) \in Seq(OpRecords)
  <2> SUFFICES ASSUME NEW do \in {"create", "register"} PROVE ForEach(do, dbs) \in Seq(OpRecords)
    OBVIOUS
  <2> HIDE DEF dbs
  <2>1. Op(do, DbUser) \in OpRecords /\ Op(do, Cluster) \in OpRecords
    BY OpTyped
  <2>2. CASE dbs = <<>>
    <3>1. ForEach(do, dbs) = <<>>
      BY <2>2, ForEachIs
    <3> QED
      BY <3>1
  <2>3. CASE dbs = <<DbUser>>
    <3>1. ForEach(do, dbs) = <<Op(do, DbUser)>>
      BY <2>3, ForEachIs
    <3> QED
      BY <2>1, <3>1
  <2>4. CASE dbs = <<Cluster, DbUser>>
    <3>1. ForEach(do, dbs) = <<Op(do, Cluster), Op(do, DbUser)>>
      BY <2>4, ForEachIs
    <3> QED
      BY <2>1, <3>1
  <2> QED
    BY <1>1, <2>2, <2>3, <2>4
<1>3. ops = made \o <<op>>
  BY OperationsAre
<1>4. made \in Seq(OpRecords) /\ op \in OpRecords /\ op.what = Secret
  BY <1>2, OpTyped DEF Op
<1> HIDE DEF made, op, ops
<1>5. Len(ops) \in 1..Len(ops) /\ ops[Len(ops)] = op
  BY <1>3, <1>4
<1> QED
  BY <1>4, <1>5 DEF ops

LEMMA StandsConcerned ==
    ASSUME IInv, NEW r \in RunIds, IsDeploy(r), NEW x \in Owned(r, dep[r].mode), dep[r].idx \in Made(x)..Due(x)
    PROVE  Concerns(r, x)
<1> DEFINE i   == dep[r].idx
           ops == Operations(Pipeline[i], r, dep[r].mode)
<1>1. Due(x) \in 2..4 /\ Made(x) \in 2..4 /\ x \in Registers(Pipeline[Due(x)], r, dep[r].mode)
  BY OwnedRegistered
<1>2. i \in 2..4
  BY <1>1
<1>3. StepOps(r) = ops
  BY <1>2, PipelineIs DEF StepOps, Pipeline
<1>4. Carries(ops, Creates(Pipeline[i], r, dep[r].mode), Registers(Pipeline[i], r, dep[r].mode))
  BY OperationsCarry
<1>5. \E j \in 1..Len(ops) : ops[j].what = x
  <2>1. CASE i = Due(x)
    <3>1. x \in Registers(Pipeline[i], r, dep[r].mode)
      BY <1>1, <2>1
    <3> HIDE DEF ops
    <3>2. PICK j \in 1..Len(ops) : ops[j] = Op("register", x)
      BY <1>4, <3>1 DEF Carries
    <3> QED
      BY <3>2 DEF Op
  <2>2. CASE i # Due(x)
    <3>1. Made(x) # Due(x) /\ x.kind = "secret"
      BY <1>1, <2>2 DEF Made
    <3>2. x = Secret
      BY <3>1, OwnedAre DEF DbUser, Cluster, Secret, Instance, Address, Resource
    <3>3. i = 2
      BY <1>2, <2>2, <3>2, DueIs
    <3> QED
      BY <3>2, <3>3, PipelineIs, SecretCreated
  <2> QED
    BY <2>1, <2>2
<1>6. DOMAIN ops = 1..Len(ops)
  BY <1>4 DEF Carries
<1> QED
  BY <1>3, <1>5, <1>6 DEF Concerns

\* A step is refused for what is there already, or for what is there no more.
LEMMA RefusedFor ==
    ASSUME IInv, NEW r \in RunIds, IsDeploy(r), ~Repeatable(r)
    PROVE  \/ Concerns(r, Cluster) /\ Cluster \in cloud
           \/ dep[r].idx = 4 /\ ledger[Instance(r)] = "released"
<1> DEFINE i   == dep[r].idx
           ops == StepOps(r)
<1>1. PICK j \in DOMAIN ops : ~Possible(ops[j])
  BY DEF Repeatable
<1>2. ops[j].do = "create"
  BY <1>1 DEF Possible
<1>3. CASE ops[j].what = Cluster /\ Cluster \in cloud
  BY <1>3 DEF Concerns
<1>4. CASE ops[j].what.kind = "ec2_instance" /\ ledger[ops[j].what] = "released"
  <2>1. i \in DOMAIN Pipeline /\ ops = Operations(Pipeline[i], r, dep[r].mode)
    BY <1>1 DEF StepOps
  <2>2. i \in 1..13
    BY <2>1 DEF Pipeline
  <2>3. Carries(ops, Creates(Pipeline[i], r, dep[r].mode), Registers(Pipeline[i], r, dep[r].mode))
    BY <2>1, OperationsCarry
  <2> HIDE DEF ops
  <2>4. ops[j].what \in Creates(Pipeline[i], r, dep[r].mode)
    BY <1>1, <1>2, <2>3 DEF Carries
  <2>5. i \in {2, 4}
    BY <2>2, <2>4, PipelineIs DEF Creates
  <2>6. DbUser.kind # "ec2_instance" /\ Cluster.kind # "ec2_instance" /\ Secret.kind # "ec2_instance"
        /\ Address(r).kind # "ec2_instance"
    BY DEF DbUser, Cluster, Secret, Address, Resource
  <2>7. DbOf(dep[r].mode) \subseteq {DbUser, Cluster}
    BY DEF DbOf
  <2>8. i = 4 /\ ops[j].what = Instance(r)
    BY <1>4, <2>4, <2>5, <2>6, <2>7, PipelineIs DEF Creates
  <2> QED
    BY <1>4, <2>8
<1> QED
  BY <1>1, <1>3, <1>4 DEF Possible

(* What exists in the cloud is active in the ledger, or the newest         *)
(* deployment stands at a step that registers it and can be carried out,   *)
(* or it was lost in one of the three ways EveryResourceAccounted names: a *)
(* superseded deployment, a step that is refused when it is carried out    *)
(* again, the database user of a cluster.                                  *)
THEOREM ResourcesAccounted == ~Overlap /\ ~Impatient => (Spec => []EveryResourceAccounted)
<1> SUFFICES ASSUME ~Overlap, ~Impatient PROVE Spec => []EveryResourceAccounted
  OBVIOUS
<1>1. Init => SweepFits
  BY DEF Init, TestInit, LedgerInit, NoSweep, SweepFits
<1>2. IInv /\ Alone /\ SweepFits /\ CloudFits /\ [Next]_vars => SweepFits' /\ CloudFits'
  BY SweepsFit, NextCloud
<1>3. ASSUME IInv, Alone, CloudFits PROVE EveryResourceAccounted
  <2> SUFFICES ASSUME NEW x \in cloud, ledger[x] # "active", ~LetGo(x)
               PROVE  CanRegister(x) \/ Superseded(x) \/ Blocked(x)
    BY DEF EveryResourceAccounted
  <2>1. PICK r \in RunIds : IsDeploy(r) /\ x \in Owned(r, dep[r].mode) /\ dep[r].idx \in Made(x)..Due(x)
    <3>1. ~(x = DbUser /\ ledger[x] = "released" /\ Flex)
      BY DEF LetGo, Flex, OfStage, IsDeploy
    <3> QED
      BY <1>3, <3>1 DEF CloudFits, Accounted, Unfinished
  <2>2. r \in OfStage("deploy") /\ Concerns(r, x)
    BY <1>3, <2>1, StandsConcerned DEF OfStage, IsDeploy
  <2>3. Due(x) \in 2..4 /\ Made(x) \in 2..4 /\ dep[r].idx \in 2..4
    BY <2>1, OwnedRegistered
  <2>4. runs[r].status # "succeeded"
    BY <1>3, <2>1, <2>3 DEF Alone, Succeeded, IsDeploy
  <2>5. CASE r \notin Newest("deploy")
    BY <2>2, <2>5 DEF Superseded
  <2>6. CASE r \in Newest("deploy") /\ Repeatable(r)
    BY <2>2, <2>4, <2>6 DEF CanRegister
  <2>7. CASE r \in Newest("deploy") /\ ~Repeatable(r)
    <3>1. CASE Concerns(r, Cluster) /\ Cluster \in cloud
      BY <2>2, <2>7, <3>1 DEF Blocked
    <3>2. CASE dep[r].idx = 4 /\ ledger[Instance(r)] = "released"
      <4>1. Instance(r) \notin cloud
        BY <1>3, <3>2 DEF CloudFits, InstancesEnd
      <4>2. x = Address(r)
        BY <2>1, <3>2, <4>1, OwnedAre, DueIs
      <4> QED
        BY <2>2, <2>7, <3>2, <4>2 DEF Blocked
    <3> QED
      BY <1>3, <2>1, <2>7, <3>1, <3>2, RefusedFor
  <2> QED
    BY <2>5, <2>6, <2>7
<1> QED
  BY <1>1, <1>2, <1>3, InitCloud, PatientInductive, PTL DEF Spec


(***************************************************************************)
(* What the verdict is about                                               *)
(***************************************************************************)

TestsOf(r) == {q \in RunIds : IsTest(q) /\ tests[q].of = r}

\* No test run of deployment r began lately, and none is about to begin.
NoFreshTest(r) ==
    /\ \A k \in Testers : testers[k].pc = "start" => testers[k].of # r
    /\ \A q \in TestsOf(r) : ~tests[q].recent

\* Test run q has read and seen version v or nothing.
Good(q, v) == /\ tests[q].ver \in {0, v}
              /\ Reported(q) => tests[q].api.about = v /\ tests[q].ver = v

\* Tester k may still write results; nobody writes results of test run q any more.
Open(k)   == testers[k].run # 0 /\ testers[k].pc # "status"
Closed(q) == \A k \in Testers : Open(k) => testers[k].run # q

VerdictFits(r, d) ==
    LET q == d.verdict IN
    q \in TestsOf(r) /\ Passed(q) /\ tests[q].ver = d.ver /\ tests[q].api.about = d.ver /\ Closed(q)

Repaired(r, i) == i.kind = "repair" /\ repairs[<<r, i.comp, i.attempt>>].state = "succeeded"

\* What the tests of deployment r are worth when its document is d.
Judges(r, d) ==
    /\ d.idx <= 11 \/ Repaired(r, d.inflight) => NoFreshTest(r)
    /\ d.idx >= 12 => \A q \in TestsOf(r) : tests[q].recent => Good(q, d.ver)
    /\ d.inflight.kind = "test" => \A q \in TestsOf(r) : q > d.inflight.after => Good(q, d.ver)
    /\ d.idx > 12 /\ d.tests => VerdictFits(r, d)

\* A test run has one execution, which has read the deployment.json when it tests.
TestersApart ==
    /\ \A j, k \in Testers : testers[j].run = testers[k].run /\ testers[j].run # 0 => j = k
    /\ \A k \in Testers : testers[k].pc \notin {"off", "start", "load"} => tests[testers[k].run].ver # 0
    /\ \A q \in RunIds : IsTest(q) /\ runs[q].status = "succeeded" => Closed(q)

Verdicts == TestersApart /\ \A r \in RunIds : IsDeploy(r) => Judges(r, dep[r])

\* Deployments and test runs are what they were.
TestsUndisturbed ==
    \A q \in RunIds : /\ IsTest(q)' <=> IsTest(q)
                      /\ IsTest(q) /\ runs'[q].status = "succeeded" => runs[q].status = "succeeded"

LEMMA JudgesStays ==
    ASSUME UNCHANGED <<tests, testers>>, TestsUndisturbed, NEW r, NEW d, Judges(r, d),
           Repaired(r, d.inflight)' => Repaired(r, d.inflight)
    PROVE  Judges(r, d)'
<1>1. TestsOf(r)' = TestsOf(r)
  BY DEF TestsOf, TestsUndisturbed
<1>2. NoFreshTest(r)' <=> NoFreshTest(r)
  BY <1>1 DEF NoFreshTest
<1>3. \A q : Good(q, d.ver)' <=> Good(q, d.ver)
  BY DEF Good, Reported
<1>4. VerdictFits(r, d)' <=> VerdictFits(r, d)
  BY <1>1 DEF VerdictFits, Passed, Closed, Open
<1> QED
  BY <1>1, <1>2, <1>3, <1>4 DEF Judges

LEMMA ApartStays ==
    ASSUME TestersApart, UNCHANGED <<tests, testers>>, TestsUndisturbed
    PROVE  TestersApart'
BY DEF TestersApart, TestsUndisturbed, Closed, Open

\* A step that changes no test and leaves deployment r with document c.
LEMMA DriveJudged ==
    ASSUME IInv, Verdicts, UNCHANGED <<tests, testers, repairs>>, TestsUndisturbed, NoNewRun,
           NEW r \in RunIds, NEW c, dep' = [dep EXCEPT ![r] = c], Judges(r, c)
    PROVE  Verdicts'
<1>1. dep'[r] = c /\ \A q \in RunIds : q # r => dep'[q] = dep[q]
  BY TypeParts DEF IInv
<1>2. ASSUME NEW q \in RunIds, IsDeploy(q)' PROVE Judges(q, dep[q])'
  <2>1. IsDeploy(q)
    BY <1>2 DEF IsDeploy, NoNewRun
  <2>2. PICK d : d = dep'[q]
    OBVIOUS
  <2>3. Judges(q, d)
    BY <1>1, <2>1, <2>2 DEF Verdicts
  <2>4. Repaired(q, d.inflight)' => Repaired(q, d.inflight)
    BY DEF Repaired
  <2>5. Judges(q, d)'
    BY <2>3, <2>4, JudgesStays
  <2> QED
    BY <2>2, <2>5 DEF Judges, VerdictFits
<1> QED
  BY <1>2, ApartStays DEF Verdicts

\* A step that changes neither a test nor a deployment.
LEMMA StayJudged ==
    ASSUME IInv, Verdicts, UNCHANGED <<tests, testers, repairs, dep>>, TestsUndisturbed,
           \A r \in RunIds : IsDeploy(r)' => IsDeploy(r)
    PROVE  Verdicts'
<1>1. ASSUME NEW r \in RunIds, IsDeploy(r)' PROVE Judges(r, dep[r])'
  <2>1. PICK d : d = dep[r] /\ d = dep'[r]
    OBVIOUS
  <2>2. Judges(r, d) /\ (Repaired(r, d.inflight)' => Repaired(r, d.inflight))
    BY <1>1, <2>1 DEF Verdicts, Repaired
  <2>3. Judges(r, d)'
    BY <2>2, JudgesStays
  <2> QED
    BY <2>1, <2>3 DEF Judges, VerdictFits
<1> QED
  BY <1>1, ApartStays DEF Verdicts

LEMMA WriteUndisturbed ==
    ASSUME IInv, NEW r \in RunIds, ~IsTest(r), RunWrite(r)
    PROVE  TestsUndisturbed
<1>1. runs \in [RunIds -> Store!RunDoc]
  BY TypeParts DEF IInv, Store!TypeOK
<1>2. CASE UNCHANGED runs
  BY <1>2 DEF TestsUndisturbed, IsTest
<1>3. CASE \E status : Wrote(r, status)
  BY <1>1, <1>3 DEF Wrote, Store!RunDoc, TestsUndisturbed, IsTest
<1> QED
  BY <1>2, <1>3, WritesAre DEF RunWrite

LEMMA CreateUndisturbed ==
    ASSUME IInv, NEW r \in RunIds, NEW s \in {"deploy", "teardown"}, CreateRun(r, s)
    PROVE  TestsUndisturbed
<1>1. /\ runs \in [RunIds -> Store!RunDoc] /\ Absent(r)
      /\ runs' = [runs EXCEPT ![r] = [stage |-> s, status |-> "queued", silent |-> FALSE]]
  BY TypeParts, CreateMoves DEF IInv, Store!TypeOK, Stages
<1>2. runs[r].stage = "none" /\ runs'[r].stage = s /\ \A q \in RunIds : q # r => runs'[q] = runs[q]
  BY <1>1 DEF IInv, Placed, DocFits
<1> QED
  BY <1>2 DEF TestsUndisturbed, IsTest

\* What an execution does disturbs no test.
LEMMA WorksUndisturbed ==
    ASSUME IInv, NEW e \in Execs, Works(e) \/ Die(e)
    PROVE  TestsUndisturbed /\ NoNewRun
BY WorksWrite, WorksNoNew, AtNode, WriteUndisturbed

LEMMA StepWorksJudged ==
    ASSUME IInv, Alone, Verdicts, NEW e \in Execs, StepWorks(e)
    PROVE  Verdicts'
<1> DEFINE r == execs[e].run
           d == dep[r]
<1>1. TestsUndisturbed /\ NoNewRun /\ UNCHANGED <<tests, testers, repairs>>
  BY WorksUndisturbed DEF Works, StepWorks, StepBegins, CloudWork, BoxWork, PocWork, StepSucceeds, StepFails, testVars
<1>2. CASE UNCHANGED dep
  BY <1>1, <1>2, StayJudged DEF NoNewRun, IsDeploy
<1>3. CASE StepSucceeds(e)
  <2>1. execs[e].pc = "work" /\ dep' = [dep EXCEPT ![r].idx = execs[e].idx + 1]
    BY <1>3 DEF StepSucceeds, At
  <2>2. /\ d \in Deploy /\ r \in RunIds /\ IsDeploy(r) /\ execs[e].idx = d.idx /\ d.idx \in 1..13 /\ d.idx # 12
        /\ d.inflight.kind = "none"
    BY <2>1, AtDriver, AtNode DEF Agrees, ExecFits
  <2> DEFINE c == [d EXCEPT !.idx = d.idx + 1]
  <2>3. /\ dep' = [dep EXCEPT ![r] = c] /\ c.idx = d.idx + 1 /\ c.ver = d.ver /\ c.inflight = d.inflight
        /\ c.tests = d.tests /\ c.verdict = d.verdict
    BY <2>1, <2>2, TypeParts DEF IInv, Deploy
  <2>4. Judges(r, d)
    BY <2>2 DEF Verdicts
  <2> HIDE DEF c, d, r
  <2>5. ~Repaired(r, c.inflight)
    BY <2>2, <2>3 DEF Repaired
  <2>6. d.idx <= 11 => NoFreshTest(r)
    BY <2>4 DEF Judges
  <2>7. c.idx >= 12 => \A q \in TestsOf(r) : tests[q].recent => Good(q, c.ver)
    BY <2>2, <2>3, <2>4, <2>6 DEF Judges, NoFreshTest
  <2>8. c.idx > 12 /\ c.tests => VerdictFits(r, c)
    BY <2>2, <2>3, <2>4 DEF Judges, VerdictFits
  <2>9. Judges(r, c)
    BY <2>2, <2>3, <2>5, <2>6, <2>7, <2>8 DEF Judges
  <2> QED
    BY <1>1, <2>2, <2>3, <2>9, DriveJudged
<1> QED
  BY <1>2, <1>3 DEF StepWorks, StepBegins, CloudWork, BoxWork, PocWork, StepFails

\* The document but for the attempts counted.
LEMMA JudgesSame ==
    ASSUME NEW r, NEW d, NEW c, Judges(r, d), c.idx = d.idx, c.ver = d.ver, c.tests = d.tests, c.verdict = d.verdict,
           c.inflight = d.inflight
    PROVE  Judges(r, c)
BY DEF Judges, VerdictFits

\* The tests that were asked for begin after the deployment.json was written.
LEMMA FireJudged ==
    ASSUME IInv, Alone, Verdicts, NEW e \in Execs, Fire(e) \/ FireRaises(e)
    PROVE  Verdicts'
<1> DEFINE r == execs[e].run
           d == dep[r]
<1>1. /\ execs[e].pc = "fire" /\ UNCHANGED <<runs, tests, dep>>
      /\ \E started \in BOOLEAN : Fires(e, started)
  BY DEF Fire, FireRaises, At
<1>2. /\ r \in RunIds /\ IsDeploy(r) /\ SameCallee(execs[e].inflight, d.inflight) /\ d.inflight.kind # "none"
      /\ execs[e].inflight \in InFlight /\ CalleeAt(d.inflight, d.idx) /\ Numbered(execs[e].inflight)
  BY <1>1, AtDriver, AtNode DEF Agrees, SameCallee, Exec, ExecFits
<1>3. TestsUndisturbed
  BY <1>1 DEF TestsUndisturbed, IsTest
<1>4. CASE UNCHANGED <<testers, repairs>>
  BY <1>1, <1>3, <1>4, StayJudged DEF IsDeploy
<1>5. CASE execs[e].inflight.kind = "repair" /\ UNCHANGED testers
           /\ repairs' = [repairs EXCEPT ![AttemptOf(e)].state = "fired", ![AttemptOf(e)].fired = Least(@ + 1, 2)]
  <2>1. \A a \in Attempts : repairs'[a].state = "succeeded" => repairs[a].state = "succeeded"
    BY <1>5, TypeParts DEF IInv, Repair
  <2>2. ASSUME NEW q \in RunIds, IsDeploy(q)' PROVE Judges(q, dep[q])'
    <3>1. PICK g : g = dep[q] /\ g = dep'[q]
      BY <1>1
    <3>2. Judges(q, g)
      BY <1>1, <2>2, <3>1 DEF Verdicts, IsDeploy
    <3>3. Numbered(g.inflight) /\ g.inflight \in InFlight
      BY <3>1, TypeParts DEF IInv, Placed, DocFits, Deploy
    <3>4. Repaired(q, g.inflight)' => Repaired(q, g.inflight)
      <4>1. g.inflight.kind = "repair" => <<q, g.inflight.comp, g.inflight.attempt>> \in Attempts
        BY <3>3 DEF Numbered, InFlight, Attempts
      <4> QED
        BY <2>1, <4>1 DEF Repaired
    <3>5. Judges(q, g)'
      BY <1>1, <1>3, <1>5, <3>2, <3>4, JudgesStays
    <3> QED
      BY <3>1, <3>5 DEF Judges, VerdictFits
  <2> QED
    BY <1>1, <1>3, <1>5, <2>2, ApartStays DEF Verdicts
<1>6. CASE execs[e].inflight.kind # "repair" /\ UNCHANGED repairs /\ \E k \in Testers : Invited(k, r)
  <2>1. PICK k \in Testers : Invited(k, r)
    BY <1>6
  <2> DEFINE t == [NoTester EXCEPT !.pc = "start", !.of = r]
  <2>2. t.pc = "start" /\ t.of = r /\ t.run = 0 /\ testers' = [testers EXCEPT ![k] = t] /\ testers[k].pc = "off"
    BY <2>1 DEF Invited, TesterAt, NoTester
  <2> HIDE DEF t
  <2>3. testers'[k] = t /\ \A j \in Testers : j # k => testers'[j] = testers[j]
    BY <2>2, TypeParts DEF IInv
  <2>4. \A j \in Testers : Open(j)' => Open(j) /\ testers'[j] = testers[j]
    BY <2>2, <2>3 DEF Open
  <2>5. \A q : Closed(q) => Closed(q)'
    BY <2>4 DEF Closed
  <2>6. TestersApart'
    <3>1. \A i, j \in Testers : testers'[i].run = testers'[j].run /\ testers'[i].run # 0 => i = j
      BY <2>2, <2>3 DEF Verdicts, TestersApart
    <3>2. \A j \in Testers : testers'[j].pc \notin {"off", "start", "load"} => tests'[testers'[j].run].ver # 0
      BY <1>1, <2>2, <2>3 DEF Verdicts, TestersApart
    <3>3. \A q \in RunIds : IsTest(q)' /\ runs'[q].status = "succeeded" => Closed(q)'
      BY <1>1, <2>5 DEF Verdicts, TestersApart, IsTest
    <3> QED
      BY <3>1, <3>2, <3>3 DEF TestersApart
  <2>7. ASSUME NEW q \in RunIds, IsDeploy(q)' PROVE Judges(q, dep[q])'
    <3>1. PICK g : g = dep[q] /\ g = dep'[q]
      BY <1>1
    <3>2. Judges(q, g)
      BY <1>1, <2>7, <3>1 DEF Verdicts, IsDeploy
    <3>3. TestsOf(q)' = TestsOf(q) /\ \A p, v : Good(p, v)' <=> Good(p, v)
      BY <1>1 DEF TestsOf, Good, Reported, IsTest
    <3>4. ASSUME NoFreshTest(q), q # r PROVE NoFreshTest(q)'
      <4>1. \A j \in Testers : testers'[j].pc = "start" => testers'[j].of # q
        BY <2>2, <2>3, <3>4 DEF NoFreshTest
      <4>2. \A p \in TestsOf(q)' : ~tests'[p].recent
        BY <1>1, <3>3, <3>4 DEF NoFreshTest
      <4> QED
        BY <4>1, <4>2 DEF NoFreshTest
    <3>5. q = r => ~(g.idx <= 11 \/ Repaired(q, g.inflight)')
      <4>1. d.inflight.kind = "test" /\ d.idx = 12
        BY <1>2, <1>6 DEF SameCallee, CalleeAt, InFlight
      <4>2. q = r => g.idx = 12 /\ g.inflight.kind = "test"
        BY <3>1, <4>1
      <4> QED
        BY <4>2 DEF Repaired
    <3>6. Repaired(q, g.inflight)' <=> Repaired(q, g.inflight)
      BY <1>6 DEF Repaired
    <3>7. VerdictFits(q, g) => VerdictFits(q, g)'
      BY <1>1, <2>5, <3>3 DEF VerdictFits, Passed
    <3>8. Judges(q, g)'
      BY <1>1, <3>2, <3>3, <3>4, <3>5, <3>6, <3>7 DEF Judges
    <3> QED
      BY <3>1, <3>8 DEF Judges, VerdictFits
  <2> QED
    BY <2>6, <2>7 DEF Verdicts
<1> QED
  BY <1>1, <1>4, <1>5, <1>6 DEF Fires

\* The document but for what is in flight, where no repair has succeeded and no test is asked for.
LEMMA JudgesNothing ==
    ASSUME NEW r, NEW d, NEW c, Judges(r, d), c.idx = d.idx, c.ver = d.ver, c.tests = d.tests, c.verdict = d.verdict,
           ~Repaired(r, c.inflight), c.inflight.kind # "test"
    PROVE  Judges(r, c)
BY DEF Judges, VerdictFits

LEMMA CallsJudged ==
    ASSUME IInv, Alone, Attempted, Verdicts, NEW e \in Execs, Calls(e)
    PROVE  Verdicts'
<1> DEFINE o == execs[e]
           r == o.run
           d == dep[r]
<1>1. o.pc \in {"repair", "tests", "mark", "fire", "clear"} /\ o.pc \notin {"off", "resume", "release"}
  BY DEF Calls, CountAttempt, AskForTests, MarkInFlight, Fire, FireRaises, ClearInFlight, At
<1>2. /\ o \in Exec /\ d \in Deploy /\ r \in RunIds /\ o.idx = d.idx /\ Agrees(o, d) /\ CalleeAt(o.inflight, o.idx)
      /\ dep = [dep EXCEPT ![r] = d]
  BY <1>1, AtDriver
<1>3. IsDeploy(r) /\ Judges(r, d)
  BY <1>1, AtNode DEF Verdicts
<1>4. TestsUndisturbed /\ NoNewRun
  BY WorksUndisturbed DEF Works
\* The document of the run is all that changes.
<1>5. ASSUME UNCHANGED <<tests, testers, repairs>>, NEW c, dep' = [dep EXCEPT ![r] = c], Judges(r, c)
      PROVE  Verdicts'
  BY <1>2, <1>4, <1>5, DriveJudged
<1>6. CASE CountAttempt(e)
  <2> DEFINE n == Least(d.tries[o.comp] + 1, MaxRepairs + 1)
             c == [d EXCEPT !.tries[o.comp] = n]
  <2>1. dep' = [dep EXCEPT ![r] = c] /\ UNCHANGED <<tests, testers, repairs>>
    BY <1>2, <1>6 DEF CountAttempt, testVars
  <2>2. c.idx = d.idx /\ c.ver = d.ver /\ c.tests = d.tests /\ c.verdict = d.verdict /\ c.inflight = d.inflight
    BY <1>2 DEF Deploy
  <2> HIDE DEF n, c
  <2>3. Judges(r, c)
    <3> HIDE DEF r, d
    <3> QED
      BY <1>3, <2>2, JudgesSame
  <2> QED
    BY <1>5, <2>1, <2>3
<1>7. CASE AskForTests(e)
  <2> DEFINE c == [d EXCEPT !.idx = o.idx + 1]
  <2>1. o.pc = "tests" /\ o.idx = 12 /\ UNCHANGED <<tests, testers, repairs>>
    BY <1>7, AtNode DEF AskForTests, At, ExecFits, testVars
  <2>2. CASE UNCHANGED dep
    BY <1>4, <2>1, <2>2, StayJudged DEF NoNewRun, IsDeploy
  <2>3. CASE dep' = [dep EXCEPT ![r].idx = o.idx + 1] /\ ~d.tests
    <3>1. /\ c.idx = 13 /\ c.ver = d.ver /\ c.tests = d.tests /\ c.inflight = d.inflight
          /\ dep' = [dep EXCEPT ![r] = c]
      BY <1>2, <2>1, <2>3 DEF Deploy
    <3> HIDE DEF c
    <3>2. d.inflight.kind = "none" /\ d.idx = 12
      BY <1>2, <2>1 DEF Agrees
    <3>3. Judges(r, c)
      <4> HIDE DEF r, d
      <4> QED
        BY <1>3, <2>3, <3>1, <3>2 DEF Judges, Repaired
    <3> QED
      BY <1>5, <2>1, <3>1, <3>3
  <2> QED
    BY <1>7, <2>2, <2>3 DEF AskForTests
<1>8. CASE MarkInFlight(e)
  <2>1. PICK n \in Since :
           dep' = [dep EXCEPT ![r].inflight = [o.inflight EXCEPT !.after = IF o.inflight.kind = "test" THEN n ELSE 0]]
    BY <1>8 DEF MarkInFlight
  <2>2. o.pc = "mark" /\ UNCHANGED <<tests, testers, repairs>>
    BY <1>8 DEF MarkInFlight, At, testVars
  <2> DEFINE i == [o.inflight EXCEPT !.after = IF o.inflight.kind = "test" THEN n ELSE 0]
             c == [d EXCEPT !.inflight = i]
  <2>3. /\ dep' = [dep EXCEPT ![r] = c]
        /\ c.idx = d.idx /\ c.ver = d.ver /\ c.tests = d.tests /\ c.verdict = d.verdict /\ c.inflight = i
    BY <1>2, <2>1 DEF Deploy
  <2>4. /\ i.kind = o.inflight.kind /\ i.comp = o.inflight.comp /\ i.attempt = o.inflight.attempt
        /\ i.kind = "test" => i.after = n
    BY <1>2 DEF Exec, InFlight
  <2> HIDE DEF i, c
  <2>5. CASE o.inflight.kind = "test"
    <3>1. d.idx = 12
      BY <1>2, <2>5 DEF CalleeAt
    <3>2. \A q \in TestsOf(r) : q > n => Good(q, d.ver)
      <4>1. \A q \in TestsOf(r) : q > n => tests[q].recent
        BY DEF Since, TestsOf, OfStage, IsTest
      <4> QED
        BY <1>3, <3>1, <4>1 DEF Judges
    <3>3. Judges(r, c)
      <4> HIDE DEF r, d
      <4> QED
        BY <1>3, <2>3, <2>4, <2>5, <3>1, <3>2 DEF Judges, Repaired
    <3> QED
      BY <1>5, <2>2, <2>3, <3>3
  <2>6. CASE o.inflight.kind = "repair"
    <3>1. Asks(e)
      BY <2>2, <2>6 DEF Asks
    <3>2. repairs[AttemptOf(e)].state = "none"
      BY <3>1, AskedTyped DEF Attempted
    <3>3. ~Repaired(r, c.inflight) /\ c.inflight.kind # "test"
      BY <2>3, <2>4, <2>6, <3>2 DEF Repaired, AttemptOf
    <3>4. Judges(r, c)
      <4> HIDE DEF r, d
      <4> QED
        BY <1>3, <2>3, <3>3, JudgesNothing
    <3> QED
      BY <1>5, <2>2, <2>3, <3>4
  <2> QED
    BY <1>2, <2>2, <2>5, <2>6 DEF Agrees, Exec, InFlight
<1>9. CASE Fire(e) \/ FireRaises(e)
  BY <1>9, FireJudged
<1>10. CASE ClearInFlight(e)
  <2> DEFINE c == [d EXCEPT !.inflight = Nothing]
  <2>1. dep' = [dep EXCEPT ![r] = c] /\ UNCHANGED <<tests, testers, repairs>>
    BY <1>2, <1>10 DEF ClearInFlight, testVars
  <2>2. /\ c.idx = d.idx /\ c.ver = d.ver /\ c.tests = d.tests /\ c.verdict = d.verdict
        /\ c.inflight.kind = "none"
    BY <1>2 DEF Deploy, Nothing
  <2> HIDE DEF c
  <2>3. Judges(r, c)
    <3> HIDE DEF r, d
    <3> QED
      BY <1>3, <2>2, JudgesNothing DEF Repaired
  <2> QED
    BY <1>5, <2>1, <2>3
<1> QED
  BY <1>6, <1>7, <1>8, <1>9, <1>10 DEF Calls

\* A test run that answered has seen what it was asked to see, and writes no more.
LEMMA AnswerFits ==
    ASSUME IInv, Alone, Verdicts, NEW e \in Execs, execs[e].pc = "wait", execs[e].inflight.kind = "test",
           NEW q \in Answering(e), runs[q].status = "succeeded", Passed(q)
    PROVE  LET r == execs[e].run IN
           q \in TestsOf(r) /\ tests[q].ver = dep[r].ver /\ tests[q].api.about = dep[r].ver /\ Closed(q)
<1> DEFINE r == execs[e].run
           d == dep[r]
<1>1. r \in RunIds /\ IsDeploy(r) /\ Agrees(execs[e], d) /\ Judges(r, d)
  BY AtDriver, AtNode DEF Verdicts
<1>2. q \in TestsOf(r) /\ q > execs[e].inflight.after /\ IsTest(q) /\ q \in RunIds
  BY DEF Answering, Candidates, OfStage, TestsOf, IsTest
<1>3. d.inflight.kind = "test" /\ d.inflight.after = execs[e].inflight.after
  BY <1>1 DEF Agrees, SameCallee
<1>4. Good(q, d.ver)
  BY <1>1, <1>2, <1>3 DEF Judges
<1>5. Reported(q) /\ Closed(q)
  BY <1>2 DEF IInv, Placed, DocFits, Verdicts, TestersApart
<1> QED
  BY <1>2, <1>4, <1>5 DEF Good

LEMMA WaitsJudged ==
    ASSUME IInv, Alone, Verdicts, NEW e \in Execs, Waits(e)
    PROVE  Verdicts'
<1> DEFINE o == execs[e]
           r == o.run
           d == dep[r]
<1>1. o.pc = "wait" /\ o.pc \notin {"off", "resume", "release"}
  BY DEF Waits, TestsAnswer, RepairAnswers, WaitFails, WaitWindow, At
<1>2. /\ o \in Exec /\ d \in Deploy /\ r \in RunIds /\ o.idx = d.idx /\ Agrees(o, d) /\ CalleeAt(o.inflight, o.idx)
      /\ dep = [dep EXCEPT ![r] = d]
  BY <1>1, AtDriver
<1>3. IsDeploy(r) /\ Judges(r, d)
  BY <1>1, AtNode DEF Verdicts
<1>4. TestsUndisturbed /\ NoNewRun
  BY WorksUndisturbed DEF Works
<1>5. UNCHANGED <<tests, testers, repairs>>
  BY DEF Waits, TestsAnswer, RepairAnswers, WaitFails, WaitWindow, testVars
<1>6. ASSUME NEW c, dep' = [dep EXCEPT ![r] = c], Judges(r, c)
      PROVE  Verdicts'
  BY <1>2, <1>4, <1>5, <1>6, DriveJudged
<1>7. CASE WaitFails(e) \/ WaitWindow(e)
  BY <1>4, <1>5, <1>7, StayJudged DEF WaitFails, WaitWindow, NoNewRun, IsDeploy
<1>8. CASE RepairAnswers(e)
  <2> DEFINE c == [d EXCEPT !.ver = repairs[AttemptOf(e)].ver, !.inflight = Nothing, !.idx = 5]
  <2>1. dep' = [dep EXCEPT ![r] = c]
    BY <1>2, <1>8, PipelineFacts DEF RepairAnswers
  <2>2. c.idx = 5 /\ c.inflight.kind = "none"
    BY <1>2 DEF Deploy, Nothing
  <2>3. NoFreshTest(r)
    <3>1. SameCallee(o.inflight, d.inflight) /\ o.inflight.kind = "repair" /\ repairs[AttemptOf(e)].state = "succeeded"
      BY <1>1, <1>2, <1>8 DEF RepairAnswers, Agrees
    <3>2. Repaired(r, d.inflight)
      BY <3>1 DEF Repaired, SameCallee, AttemptOf
    <3> QED
      BY <1>3, <3>2 DEF Judges
  <2> HIDE DEF c
  <2>4. Judges(r, c)
    <3> HIDE DEF r, d
    <3> QED
      BY <2>2, <2>3 DEF Judges
  <2> QED
    BY <1>6, <2>1, <2>4
<1>9. CASE TestsAnswer(e)
  <2>1. PICK q \in Answering(e) :
           LET passed == runs[q].status = "succeeded" /\ Passed(q)
           IN  dep' = [dep EXCEPT ![r].inflight = Nothing, ![r].verdict = q, ![r].passed = passed,
                                  ![r].idx = IF passed THEN Position("run_tests") + 1 ELSE @]
    BY <1>9 DEF TestsAnswer
  <2>2. Position("run_tests") + 1 = 13
    BY PipelineFacts
  <2>3. d.idx = 12 /\ o.inflight.kind = "test"
    BY <1>2, <1>9 DEF TestsAnswer, CalleeAt
  <2> DEFINE passed == runs[q].status = "succeeded" /\ Passed(q)
             c == [d EXCEPT !.inflight = Nothing, !.verdict = q, !.passed = passed, !.idx = IF passed THEN 13 ELSE @]
  <2>4. dep' = [dep EXCEPT ![r] = c]
    BY <1>2, <2>1, <2>2
  <2>5. /\ c.idx = (IF passed THEN 13 ELSE d.idx) /\ c.ver = d.ver /\ c.tests = d.tests /\ c.verdict = q
        /\ c.inflight.kind = "none"
    BY <1>2 DEF Deploy, Nothing
  <2> HIDE DEF c
  <2>6. passed => VerdictFits(r, c)
    BY <1>1, <2>3, <2>5, AnswerFits DEF VerdictFits
  <2>7. Judges(r, c)
    <3>1. c.idx = (IF passed THEN 13 ELSE 12)
      BY <2>3, <2>5
    <3> HIDE DEF r, d, passed
    <3> QED
      BY <1>3, <2>3, <2>5, <2>6, <3>1 DEF Judges, Repaired
  <2> QED
    BY <1>6, <2>4, <2>7
<1> QED
  BY <1>7, <1>8, <1>9 DEF Waits

\* Executions that end or die, the user who continues, sweeps, silence: nothing of this.
LEMMA LeavesJudged ==
    ASSUME IInv, Verdicts, NEW e \in Execs, Leaves(e) \/ Die(e)
    PROVE  Verdicts'
<1>1. TestsUndisturbed /\ NoNewRun
  BY WorksUndisturbed DEF Works
<1>2. UNCHANGED <<tests, testers, repairs, dep>>
  BY DEF Leaves, Resume, HandOver, Finish, FinishFailed, ReleasePoc, Die, testVars
<1> QED
  BY <1>1, <1>2, StayJudged DEF NoNewRun, IsDeploy

LEMMA RetryJudged ==
    ASSUME IInv, Verdicts, NEW e \in Execs, RetryDeploy(e)
    PROVE  Verdicts'
<1>1. PICK r \in RunIds : (Store!AbandonRun(r) \/ UNCHANGED runs) /\ IsDeploy(r)
  BY DEF RetryDeploy, Newest, OfStage, IsDeploy
<1>2. UNCHANGED <<tests, testers, repairs, dep>>
  BY DEF RetryDeploy, testVars
<1>3. NoNewRun
  BY <1>1, DeployWrites, StayNoNew
<1>4. TestsUndisturbed
  BY <1>1, WriteUndisturbed DEF RunWrite, IsTest, IsDeploy
<1> QED
  BY <1>2, <1>3, <1>4, StayJudged DEF NoNewRun, IsDeploy

LEMMA SweepsJudged ==
    ASSUME IInv, Verdicts, SweepWorks \/ SweepBreaking \/ AbandonTeardown \/ \E reaper \in BOOLEAN : TearsDown(reaper)
    PROVE  Verdicts'
<1>1. /\ UNCHANGED <<tests, testers, repairs, dep>>
      /\ \/ \E q \in RunIds : IsTeardown(q) /\ RunWrite(q)
         \/ \E q \in RunIds : CreateRun(q, "teardown")
         \/ UNCHANGED runs
  BY SweepsWrite DEF testVars
<1>2. \A r \in RunIds : IsDeploy(r)' => IsDeploy(r)
  BY SweepsWrite, NoNewDeploy DEF RunWrite
<1>3. TestsUndisturbed
  <2>1. CASE UNCHANGED runs
    BY <2>1 DEF TestsUndisturbed, IsTest
  <2> QED
    BY <1>1, <2>1, WriteUndisturbed, CreateUndisturbed DEF IsTest, IsTeardown
<1> QED
  BY <1>1, <1>2, <1>3, StayJudged

LEMMA SilenceJudged ==
    ASSUME IInv, Verdicts, NEW r \in RunIds, Silence(r)
    PROVE  Verdicts'
<1>1. Store!GoSilent(r) /\ UNCHANGED <<tests, testers, repairs, dep>>
  BY DEF Silence, testVars
<1>2. \A q \in RunIds : runs'[q].stage = runs[q].stage /\ runs'[q].status = runs[q].status
  BY <1>1, TypeParts DEF IInv, Store!TypeOK, Store!GoSilent, Store!RunDoc
<1>3. TestsUndisturbed
  BY <1>2 DEF TestsUndisturbed, IsTest
<1> QED
  BY <1>1, <1>2, <1>3, StayJudged DEF IsDeploy

\* A deployment that begins has not been tested.
LEMMA StartJudged ==
    ASSUME IInv, Verdicts, NEW e \in Execs, NEW mode \in Modes, NEW tested \in BOOLEAN, StartDeploy(e, mode, tested)
    PROVE  Verdicts'
<1>1. PICK r \in RunIds, d \in Deploy :
         /\ Absent(r)
         /\ runs' = [runs EXCEPT ![r] = [stage |-> "deploy", status |-> "queued", silent |-> FALSE]]
         /\ dep' = [dep EXCEPT ![r] = d] /\ d.idx = 1 /\ d.inflight.kind = "none"
         /\ UNCHANGED <<tests, testers, repairs>>
  BY StartIs DEF testVars
<1>2. /\ dep'[r] = d /\ runs'[r].stage = "deploy"
      /\ \A q \in RunIds : q # r => dep'[q] = dep[q] /\ runs'[q] = runs[q]
  BY <1>1, TypeParts DEF IInv, Store!TypeOK
<1>3. runs[r].stage = "none"
  BY <1>1 DEF IInv, Placed, DocFits
<1>4. TestsUndisturbed
  BY <1>2, <1>3 DEF TestsUndisturbed, IsTest
<1>5. NoFreshTest(r)
  <2>1. \A k \in Testers : testers[k].pc = "start" => testers[k].of # r
    BY <1>3 DEF IInv, Placed, TesterFits, IsDeploy
  <2>2. TestsOf(r) = {}
    BY <1>3 DEF TestsOf, IInv, Placed, DocFits, IsDeploy
  <2> QED
    BY <2>1, <2>2 DEF NoFreshTest
<1>6. Judges(r, d)
  BY <1>1, <1>5 DEF Judges
<1>7. ASSUME NEW q \in RunIds, IsDeploy(q)' PROVE Judges(q, dep[q])'
  <2>1. PICK c : c = dep'[q]
    OBVIOUS
  <2>2. Judges(q, c)
    BY <1>2, <1>6, <1>7, <2>1 DEF Verdicts, IsDeploy
  <2>3. Repaired(q, c.inflight)' => Repaired(q, c.inflight)
    BY <1>1 DEF Repaired
  <2>4. Judges(q, c)'
    BY <1>1, <1>4, <2>2, <2>3, JudgesStays
  <2> QED
    BY <2>1, <2>4 DEF Judges, VerdictFits
<1> QED
  BY <1>1, <1>4, <1>7, ApartStays DEF Verdicts

\* The test runs of a deployment go on: what is good stays good, what is closed stays as it is.
LEMMA Rejudged ==
    ASSUME NEW r, NEW d, NEW c, Judges(r, d),
           c.idx = d.idx, c.ver = d.ver, c.tests = d.tests, c.verdict = d.verdict,
           c.inflight.kind = d.inflight.kind, c.inflight.kind = "test" => c.inflight.after = d.inflight.after,
           CalleeAt(d.inflight, d.idx), TestsOf(r)' = TestsOf(r),
           c.idx <= 11 \/ Repaired(r, c.inflight)' => NoFreshTest(r)',
           \A q \in TestsOf(r) : tests'[q].recent => tests[q].recent,
           d.idx >= 12 => \A q \in TestsOf(r) : Good(q, d.ver) => Good(q, d.ver)',
           \A q \in TestsOf(r) : Closed(q) =>
               /\ Closed(q)'
               /\ tests'[q].ver = tests[q].ver /\ tests'[q].api = tests[q].api /\ tests'[q].browser = tests[q].browser
    PROVE  Judges(r, c)'
<1>1. c.idx >= 12 => \A q \in TestsOf(r)' : tests'[q].recent => Good(q, c.ver)'
  BY DEF Judges
<1>2. c.inflight.kind = "test" => \A q \in TestsOf(r)' : q > c.inflight.after => Good(q, c.ver)'
  BY DEF Judges, CalleeAt
<1>3. c.idx > 12 /\ c.tests => VerdictFits(r, c)'
  <2> SUFFICES ASSUME c.idx > 12 /\ c.tests PROVE VerdictFits(r, c)'
    OBVIOUS
  <2>1. VerdictFits(r, d)
    BY DEF Judges
  <2>2. c.verdict \in TestsOf(r) /\ Closed(c.verdict)
    BY <2>1 DEF VerdictFits
  <2>3. /\ Closed(c.verdict)' /\ tests'[c.verdict].ver = tests[c.verdict].ver
        /\ tests'[c.verdict].api = tests[c.verdict].api /\ tests'[c.verdict].browser = tests[c.verdict].browser
    BY <2>2
  <2> QED
    BY <2>1, <2>2, <2>3 DEF VerdictFits, Passed
<1> QED
  BY <1>1, <1>2, <1>3 DEF Judges

\* A step of a test agent execution that begins no test run.
LEMMA OngoingJudged ==
    ASSUME IInv, Alone, Verdicts, UNCHANGED <<dep, repairs>>,
           \A q \in RunIds : (IsTest(q)' <=> IsTest(q)) /\ (IsDeploy(q)' => IsDeploy(q)),
           \A j \in Testers : testers'[j].pc = "start" => testers[j].pc = "start" /\ testers'[j].of = testers[j].of,
           \A j \in Testers : Open(j)' => Open(j) /\ testers'[j].run = testers[j].run,
           \A q \in RunIds : tests'[q].of = tests[q].of /\ (tests'[q].recent => tests[q].recent),
           \A q \in RunIds : IsTest(q) /\ dep[tests[q].of].idx >= 12 /\ Good(q, dep[tests[q].of].ver) =>
               Good(q, dep[tests[q].of].ver)',
           \A q \in RunIds : Closed(q) =>
               tests'[q].ver = tests[q].ver /\ tests'[q].api = tests[q].api /\ tests'[q].browser = tests[q].browser,
           TestersApart'
    PROVE  Verdicts'
<1>1. ASSUME NEW r \in RunIds, IsDeploy(r)' PROVE Judges(r, dep[r])'
  <2>1. PICK d : d = dep[r] /\ d = dep'[r]
    OBVIOUS
  <2>2. Judges(r, d) /\ CalleeAt(d.inflight, d.idx)
    BY <1>1, <2>1 DEF Verdicts, Alone
  <2>3. TestsOf(r)' = TestsOf(r)
    BY DEF TestsOf
  <2>4. \A q \in TestsOf(r) : q \in RunIds /\ IsTest(q) /\ tests[q].of = r
    BY DEF TestsOf
  <2>5. NoFreshTest(r) => NoFreshTest(r)'
    <3>1. ASSUME NoFreshTest(r) PROVE \A j \in Testers : testers'[j].pc = "start" => testers'[j].of # r
      BY <3>1 DEF NoFreshTest
    <3>2. ASSUME NoFreshTest(r) PROVE \A q \in TestsOf(r)' : ~tests'[q].recent
      BY <2>3, <2>4, <3>2 DEF NoFreshTest
    <3> QED
      BY <3>1, <3>2 DEF NoFreshTest
  <2>6. d.idx <= 11 \/ Repaired(r, d.inflight)' => NoFreshTest(r)'
    BY <2>2, <2>5 DEF Judges, Repaired
  <2>7. d.idx >= 12 => \A q \in TestsOf(r) : Good(q, d.ver) => Good(q, d.ver)'
    <3> SUFFICES ASSUME d.idx >= 12, NEW q \in TestsOf(r), Good(q, d.ver) PROVE Good(q, d.ver)'
      OBVIOUS
    <3>1. dep[tests[q].of] = d /\ q \in RunIds /\ IsTest(q)
      BY <2>1, <2>4
    <3>2. Good(q, dep[tests[q].of].ver)'
      BY <3>1
    <3>3. tests'[q].of = r /\ dep'[r] = d
      BY <2>1, <2>4
    <3> QED
      BY <3>2, <3>3 DEF Good, Reported
  <2>8. \A q \in TestsOf(r) : Closed(q) =>
           /\ Closed(q)'
           /\ tests'[q].ver = tests[q].ver /\ tests'[q].api = tests[q].api /\ tests'[q].browser = tests[q].browser
    BY <2>4 DEF Closed
  <2>9. \A q \in TestsOf(r) : tests'[q].recent => tests[q].recent
    BY <2>4
  <2>10. Judges(r, d)'
    BY <2>2, <2>3, <2>6, <2>7, <2>8, <2>9, Rejudged
  <2> QED
    BY <2>1, <2>10 DEF Judges, VerdictFits
<1> QED
  BY <1>1 DEF Verdicts

LEMMA EndJudged ==
    ASSUME IInv, Alone, Verdicts, NEW k \in Testers, TesterEnds(k), UNCHANGED <<tests, dep, repairs>>, TestsUndisturbed,
           \A q \in RunIds : IsDeploy(q)' => IsDeploy(q)
    PROVE  Verdicts'
<1>1. /\ testers' = [testers EXCEPT ![k] = NoTester] /\ NoTester.run = 0 /\ NoTester.pc = "off"
  BY DEF TesterEnds, NoTester
<1> HIDE DEF NoTester
<1>2. testers'[k] = NoTester /\ \A j \in Testers : j # k => testers'[j] = testers[j]
  BY <1>1, TypeParts DEF IInv
<1>3. \A j \in Testers : Open(j)' => Open(j) /\ testers'[j].run = testers[j].run
  BY <1>1, <1>2 DEF Open
<1>4. \A j \in Testers : testers'[j].pc = "start" => testers[j].pc = "start" /\ testers'[j].of = testers[j].of
  BY <1>1, <1>2
<1>5. TestersApart'
  <2>1. \A i, j \in Testers : testers'[i].run = testers'[j].run /\ testers'[i].run # 0 => i = j
    BY <1>1, <1>2 DEF Verdicts, TestersApart
  <2>2. \A j \in Testers : testers'[j].pc \notin {"off", "start", "load"} => tests'[testers'[j].run].ver # 0
    BY <1>1, <1>2 DEF Verdicts, TestersApart
  <2>3. \A q \in RunIds : Closed(q) => Closed(q)'
    BY <1>3 DEF Closed
  <2>4. \A q \in RunIds : IsTest(q)' /\ runs'[q].status = "succeeded" => Closed(q)'
    BY <2>3 DEF Verdicts, TestersApart, TestsUndisturbed
  <2> QED
    BY <2>1, <2>2, <2>4 DEF TestersApart
<1>6. \A q : Good(q, dep[tests[q].of].ver) => Good(q, dep[tests[q].of].ver)'
  BY DEF Good, Reported
<1> QED
  BY <1>3, <1>4, <1>5, <1>6, OngoingJudged DEF TestsUndisturbed

\* A node of the graph: what its test run reads and sees is what is deployed.
LEMMA NodeJudged ==
    ASSUME IInv, Alone, Verdicts, NEW k \in Testers, Open(k), testers[k].pc # "start", UNCHANGED <<dep, repairs>>,
           NEW pc \in {"plan", "smoke", "browser", "report", "status"}, TesterGoes(k, pc),
           \A q \in RunIds : (IsTest(q)' <=> IsTest(q)) /\ (IsDeploy(q)' => IsDeploy(q)),
           \A q \in RunIds : IsTest(q) /\ runs'[q].status = "succeeded" =>
               runs[q].status = "succeeded" \/ (q = testers[k].run /\ pc = "status"),
           \A q \in RunIds : q # testers[k].run => tests'[q] = tests[q],
           NEW t, tests'[testers[k].run] = t, t.ver # 0,
           t.of = tests[testers[k].run].of, t.recent = tests[testers[k].run].recent,
           dep[testers[k].of].idx >= 12 /\ Good(testers[k].run, dep[testers[k].of].ver) =>
               /\ t.ver = dep[testers[k].of].ver
               /\ t.api.says # "none" => t.api.about = dep[testers[k].of].ver
    PROVE  Verdicts'
<1> DEFINE q == testers[k].run
           u == [testers[k] EXCEPT !.pc = pc]
<1>1. /\ testers[k] \in Tester /\ q \in RunIds /\ q # 0 /\ IsTest(q) /\ tests[q].of = testers[k].of
  BY AtTest DEF Open
<1>2. testers' = [testers EXCEPT ![k] = u]
  BY <1>1 DEF TesterGoes
<1>3. u.pc = pc /\ u.run = q
  BY <1>1 DEF Tester
<1> HIDE DEF u
<1>4. testers'[k] = u /\ \A j \in Testers : j # k => testers'[j] = testers[j]
  BY <1>2, TypeParts DEF IInv
<1>5. \A j \in Testers : testers'[j].run = testers[j].run
  BY <1>3, <1>4
<1>6. \A j \in Testers : Open(j)' => Open(j) /\ testers'[j].run = testers[j].run
  BY <1>3, <1>4, <1>5 DEF Open
<1>7. \A j \in Testers : testers'[j].pc = "start" => testers[j].pc = "start" /\ testers'[j].of = testers[j].of
  BY <1>3, <1>4
<1>8. ~Closed(q)
  BY DEF Closed
<1>9. TestersApart'
  <2>1. \A i, j \in Testers : testers'[i].run = testers'[j].run /\ testers'[i].run # 0 => i = j
    BY <1>5 DEF Verdicts, TestersApart
  <2>2. ASSUME NEW j \in Testers, testers'[j].pc \notin {"off", "start", "load"} PROVE tests'[testers'[j].run].ver # 0
    <3>1. CASE j = k
      BY <1>3, <1>4, <3>1
    <3>2. CASE j # k
      <4>1. testers[j].pc \notin {"off", "start", "load"} /\ testers'[j].run = testers[j].run
        BY <1>4, <2>2, <3>2
      <4>2. testers[j].run \in RunIds /\ testers[j].run # 0
        BY <4>1, AtTest
      <4>3. testers[j].run # q
        BY <3>2, <4>2 DEF Verdicts, TestersApart
      <4> QED
        BY <4>1, <4>2, <4>3 DEF Verdicts, TestersApart
    <3> QED
      BY <3>1, <3>2
  <2>3. ASSUME NEW p \in RunIds, IsTest(p)', runs'[p].status = "succeeded" PROVE Closed(p)'
    <3>1. CASE runs[p].status = "succeeded"
      <4>1. Closed(p)
        BY <2>3, <3>1 DEF Verdicts, TestersApart
      <4> QED
        BY <1>6, <4>1 DEF Closed
    <3>2. CASE p = q /\ pc = "status"
      <4>1. ~Open(k)'
        BY <1>3, <1>4, <3>2 DEF Open
      <4>2. \A j \in Testers : j # k => testers'[j].run # q
        BY <1>1, <1>5 DEF Verdicts, TestersApart
      <4> QED
        BY <3>2, <4>1, <4>2 DEF Closed
    <3> QED
      BY <2>3, <3>1, <3>2
  <2> QED
    BY <2>1, <2>2, <2>3 DEF TestersApart
<1>10. ASSUME NEW p \in RunIds, dep[tests[p].of].idx >= 12, Good(p, dep[tests[p].of].ver)
       PROVE  Good(p, dep[tests[p].of].ver)'
  <2>1. PICK v : v = dep[tests[p].of].ver
    OBVIOUS
  <2>2. v = dep'[tests'[p].of].ver
    BY <2>1, <1>1
  <2>3. tests'[p].ver \in {0, v} /\ (tests'[p].api.says # "none" => tests'[p].api.about = v /\ tests'[p].ver = v)
    <3>1. CASE p = q
      BY <1>1, <1>10, <2>1, <3>1
    <3>2. CASE p # q
      BY <1>10, <2>1, <3>2 DEF Good, Reported
    <3> QED
      BY <3>1, <3>2
  <2> QED
    BY <2>2, <2>3 DEF Good, Reported
<1>11. \A p \in RunIds : tests'[p].of = tests[p].of /\ (tests'[p].recent => tests[p].recent)
  BY <1>1
<1>12. \A p \in RunIds : Closed(p) => tests'[p] = tests[p]
  BY <1>8
<1> QED
  BY <1>6, <1>7, <1>9, <1>10, <1>11, <1>12, OngoingJudged

LEMMA TestWriteUndisturbed ==
    ASSUME IInv, NEW q \in RunIds, IsTest(q),
           Store!UpdateRunStep(q) \/ Store!FinishRun(q, "failed") \/ UNCHANGED runs
    PROVE  TestsUndisturbed /\ NoNewRun
<1>1. runs \in [RunIds -> Store!RunDoc]
  BY TypeParts DEF IInv, Store!TypeOK
<1>2. NoNewRun
  BY TestWrites
<1>3. CASE UNCHANGED runs
  BY <1>2, <1>3 DEF TestsUndisturbed, IsTest
<1>4. CASE \E status \in {"running", "failed"} : Wrote(q, status)
  BY <1>1, <1>2, <1>4 DEF Wrote, Store!RunDoc, TestsUndisturbed, IsTest
<1> QED
  BY <1>2, <1>3, <1>4, WritesAre

LEMMA TestNodeJudged ==
    ASSUME IInv, Alone, Served, Verdicts, UNCHANGED <<dep, repairs>>, NEW k \in Testers,
           TestNode(k) \/ (TesterAt(k, "browser") /\ BrowseHangs(k) /\ NodeDone(k))
    PROVE  Verdicts'
<1> DEFINE q == testers[k].run
           r == testers[k].of
<1>1. testers[k].pc \in {"load", "plan", "smoke", "browser"} /\ NodeDone(k)
  BY DEF TestNode, TesterAt
<1>2. /\ q \in RunIds /\ q # 0 /\ IsTest(q) /\ tests[q].of = r /\ r \in RunIds /\ IsDeploy(r)
      /\ tests \in [RunIds -> Test] /\ tests[q] \in Test
  BY <1>1, AtTest, TypeParts DEF IInv
<1>3. PICK pc \in {"plan", "smoke", "browser", "report"} : TesterGoes(k, pc)
  BY <1>1, AfterIs DEF NodeDone
<1>4. TestsUndisturbed /\ NoNewRun
  BY <1>1, <1>2, TestWriteUndisturbed DEF NodeDone, Mirror
<1>5. /\ dep[r].idx > 8 => box[r].live = dep[r].ver
      /\ dep[r].idx > 11 => manifest[r] = dep[r].ver
  BY <1>2 DEF Served, BoxFits, Serves
<1>6. testers[k].pc # "load" => tests[q].ver # 0
  BY <1>1 DEF Verdicts, TestersApart
\* The test run goes on with what it has read and seen.
<1>7. ASSUME NEW t, tests' = [tests EXCEPT ![q] = t], t.of = tests[q].of, t.recent = tests[q].recent,
             \/ t.ver = manifest[r] /\ t.ver # 0 /\ t.api = tests[q].api
             \/ /\ t.ver = tests[q].ver /\ t.ver # 0
                /\ t.api = tests[q].api \/ t.api.about = box[r].live
      PROVE  Verdicts'
  <2>1. tests'[q] = t /\ \A p \in RunIds : p # q => tests'[p] = tests[p]
    BY <1>2, <1>7
  <2>2. ASSUME dep[r].idx >= 12, Good(q, dep[r].ver)
        PROVE  t.ver = dep[r].ver /\ (t.api.says # "none" => t.api.about = dep[r].ver)
    <3>1. dep[r].idx \in 0..Len(Pipeline) + 1
      BY <1>2, TypeParts DEF IInv, Deploy
    <3>2. box[r].live = dep[r].ver /\ manifest[r] = dep[r].ver
      BY <1>5, <2>2, <3>1, PipelineIs
    <3>3. t.ver = dep[r].ver
      BY <1>7, <2>2, <3>2 DEF Good
    <3>4. t.api.says # "none" => t.api.about = dep[r].ver
      BY <1>7, <2>2, <3>2 DEF Good, Reported
    <3> QED
      BY <3>3, <3>4
  <2>3. \A p \in RunIds : (IsTest(p)' <=> IsTest(p)) /\ (IsDeploy(p)' => IsDeploy(p))
    BY <1>4 DEF TestsUndisturbed, NoNewRun, IsDeploy
  <2>4. \A p \in RunIds : IsTest(p) /\ runs'[p].status = "succeeded" => runs[p].status = "succeeded"
    BY <1>4 DEF TestsUndisturbed
  <2>5. Open(k) /\ testers[k].pc # "start" /\ t.ver # 0
    BY <1>1, <1>2, <1>7 DEF Open
  <2> QED
    BY <1>3, <1>7, <2>1, <2>2, <2>3, <2>4, <2>5, NodeJudged
<1>8. CASE TesterAt(k, "load") /\ manifest[r] # 0 /\ LoadContext(k)
  <2> DEFINE t == [tests[q] EXCEPT !.ver = manifest[r]]
  <2>1. tests' = [tests EXCEPT ![q] = t]
    BY <1>2, <1>8 DEF LoadContext
  <2>2. t.ver = manifest[r] /\ t.of = tests[q].of /\ t.recent = tests[q].recent /\ t.api = tests[q].api
    BY <1>2 DEF Test
  <2> HIDE DEF t
  <2> QED
    BY <1>7, <1>8, <2>1, <2>2
<1>9. CASE TesterAt(k, "plan") /\ UNCHANGED tests
  <2>1. tests' = [tests EXCEPT ![q] = tests[q]]
    BY <1>2, <1>9
  <2> QED
    BY <1>6, <1>7, <1>9, <2>1 DEF TesterAt
<1>10. CASE TesterAt(k, "smoke") /\ Smoke(k)
  <2>1. PICK says : tests' = [tests EXCEPT ![q].api = [says |-> says, about |-> box[r].live]]
    BY <1>10 DEF Smoke
  <2> DEFINE t == [tests[q] EXCEPT !.api = [says |-> says, about |-> box[r].live]]
  <2>2. tests' = [tests EXCEPT ![q] = t]
    BY <1>2, <2>1
  <2>3. t.ver = tests[q].ver /\ t.of = tests[q].of /\ t.recent = tests[q].recent /\ t.api.about = box[r].live
    BY <1>2 DEF Test
  <2> HIDE DEF t
  <2> QED
    BY <1>6, <1>7, <1>10, <2>2, <2>3 DEF TesterAt
<1>11. CASE TesterAt(k, "browser") /\ \E b : tests' = [tests EXCEPT ![q].browser = b]
  <2>1. PICK b : tests' = [tests EXCEPT ![q].browser = b]
    BY <1>11
  <2> DEFINE t == [tests[q] EXCEPT !.browser = b]
  <2>2. tests' = [tests EXCEPT ![q] = t]
    BY <1>2, <2>1
  <2>3. t.ver = tests[q].ver /\ t.of = tests[q].of /\ t.recent = tests[q].recent /\ t.api = tests[q].api
    BY <1>2 DEF Test
  <2> HIDE DEF t
  <2> QED
    BY <1>6, <1>7, <1>11, <2>2, <2>3 DEF TesterAt
<1> QED
  BY <1>8, <1>9, <1>10, <1>11 DEF TestNode, Browse, BrowseHangs

LEMMA WriteReportJudged ==
    ASSUME IInv, Alone, Verdicts, UNCHANGED <<dep, repairs>>, NEW k \in Testers, WriteReport(k)
    PROVE  Verdicts'
<1> DEFINE q == testers[k].run
           r == testers[k].of
<1>1. /\ testers[k].pc = "report" /\ Store!FinishRun(q, "succeeded") /\ TesterGoes(k, "status") /\ UNCHANGED tests
  BY DEF WriteReport, TesterAt
<1>2. q \in RunIds /\ q # 0 /\ IsTest(q) /\ r \in RunIds
  BY <1>1, AtTest
<1>3. Wrote(q, "succeeded") /\ runs \in [RunIds -> Store!RunDoc]
  BY <1>1, <1>2, WritesAre, TypeParts DEF IInv, Store!TypeOK
<1>4. \A p \in RunIds : runs'[p].stage = runs[p].stage /\ (p # q => runs'[p].status = runs[p].status)
  BY <1>3 DEF Wrote, Store!RunDoc
<1>5. \A p \in RunIds : (IsTest(p)' <=> IsTest(p)) /\ (IsDeploy(p)' => IsDeploy(p))
  BY <1>4 DEF IsTest, IsDeploy
<1>6. tests[q].ver # 0 /\ Open(k)
  BY <1>1, <1>2 DEF Verdicts, TestersApart, Open
<1>7. Good(q, dep[r].ver) => tests[q].ver = dep[r].ver /\ (tests[q].api.says # "none" => tests[q].api.about = dep[r].ver)
  BY <1>6 DEF Good, Reported
<1>8. PICK t : t = tests[q] /\ t = tests'[q]
  BY <1>1
<1> QED
  BY <1>1, <1>4, <1>5, <1>6, <1>7, <1>8, NodeJudged

\* A test run that begins has read and seen nothing, and nobody would have it succeed a repair.
LEMMA TestStartsJudged ==
    ASSUME IInv, Alone, Verdicts, UNCHANGED <<dep, repairs>>, NEW k \in Testers, TestStarts(k)
    PROVE  Verdicts'
<1>1. PICK q \in RunIds :
         /\ CreateRun(q, "test")
         /\ tests' = [tests EXCEPT ![q] = [NoTest EXCEPT !.of = testers[k].of, !.recent = TRUE]]
         /\ testers' = [testers EXCEPT ![k].pc = "load", ![k].run = q]
  BY DEF TestStarts
<1>2. testers[k].pc = "start" /\ testers[k] \in Tester
  BY TypeParts DEF TestStarts, TesterAt, IInv
<1>3. /\ Absent(q) /\ q # 0
      /\ runs' = [runs EXCEPT ![q] = [stage |-> "test", status |-> "queued", silent |-> FALSE]]
  BY <1>1, CreateMoves DEF Stages, IInv, RunIds
<1>4. runs[q].stage = "none" /\ ~IsTest(q) /\ ~IsDeploy(q)
  BY <1>3 DEF IInv, Placed, DocFits, IsTest, IsDeploy
<1>5. /\ runs'[q].stage = "test" /\ runs'[q].status = "queued" /\ \A p \in RunIds : p # q => runs'[p] = runs[p]
  BY <1>3, TypeParts DEF IInv, Store!TypeOK
<1> DEFINE n == [NoTest EXCEPT !.of = testers[k].of, !.recent = TRUE]
           u == [testers[k] EXCEPT !.pc = "load", !.run = q]
<1>6. n.of = testers[k].of /\ n.ver = 0 /\ n.api.says = "none"
  BY DEF NoTest, NoResult
<1>7. u.pc = "load" /\ u.run = q
  BY <1>2 DEF Tester
<1>8. tests' = [tests EXCEPT ![q] = n] /\ testers' = [testers EXCEPT ![k] = u]
  BY <1>1, <1>2
<1> HIDE DEF n, u
<1>9. /\ tests'[q] = n /\ \A p \in RunIds : p # q => tests'[p] = tests[p]
      /\ testers'[k] = u /\ \A j \in Testers : j # k => testers'[j] = testers[j]
  BY <1>8, TypeParts DEF IInv
<1>10. \A j \in Testers : testers[j].run # q
  BY <1>3, <1>4 DEF IInv, Placed, TesterFits
<1>11. \A p \in RunIds : p # q /\ Closed(p) => Closed(p)'
  BY <1>7, <1>9 DEF Closed, Open
<1>12. TestersApart'
  <2>1. \A i, j \in Testers : testers'[i].run = testers'[j].run /\ testers'[i].run # 0 => i = j
    BY <1>7, <1>9, <1>10 DEF Verdicts, TestersApart
  <2>2. ASSUME NEW j \in Testers, testers'[j].pc \notin {"off", "start", "load"} PROVE tests'[testers'[j].run].ver # 0
    <3>1. j # k /\ testers'[j] = testers[j]
      BY <1>7, <1>9, <2>2
    <3>2. testers[j].run \in RunIds /\ testers[j].run # q
      BY <1>10, <2>2, <3>1, AtTest
    <3> QED
      BY <1>9, <2>2, <3>1, <3>2 DEF Verdicts, TestersApart
  <2>3. \A p \in RunIds : IsTest(p)' /\ runs'[p].status = "succeeded" => Closed(p)'
    BY <1>5, <1>11 DEF Verdicts, TestersApart, IsTest
  <2> QED
    BY <2>1, <2>2, <2>3 DEF TestersApart
<1>13. ASSUME NEW r \in RunIds, IsDeploy(r)' PROVE Judges(r, dep[r])'
  <2>1. PICK d : d = dep[r] /\ d = dep'[r]
    OBVIOUS
  <2>2. IsDeploy(r) /\ Judges(r, d)
    BY <1>5, <1>13, <2>1 DEF IsDeploy, Verdicts
  <2>3. \A p \in TestsOf(r) : p \in TestsOf(r)' /\ p # q /\ p \in RunIds /\ tests'[p] = tests[p]
    BY <1>4, <1>5, <1>9 DEF TestsOf, IsTest
  <2>4. \A p \in TestsOf(r)' : p \in TestsOf(r) \/ (p = q /\ testers[k].of = r)
    BY <1>5, <1>6, <1>9 DEF TestsOf, IsTest
  <2>5. \A v : \A p \in TestsOf(r)' : p = q \/ Good(p, v) => Good(p, v)'
    <3>1. \A v : Good(q, v)'
      BY <1>6, <1>9 DEF Good, Reported
    <3>2. \A v : \A p \in TestsOf(r) : Good(p, v) => Good(p, v)'
      BY <2>3 DEF Good, Reported
    <3> QED
      BY <2>4, <3>1, <3>2
  <2>6. d.idx <= 11 \/ Repaired(r, d.inflight)' => NoFreshTest(r)'
    <3> SUFFICES ASSUME d.idx <= 11 \/ Repaired(r, d.inflight)' PROVE NoFreshTest(r)'
      OBVIOUS
    <3>1. NoFreshTest(r)
      BY <2>2 DEF Judges, Repaired
    <3>2. testers[k].of # r
      BY <1>2, <3>1 DEF NoFreshTest
    <3>3. \A j \in Testers : testers'[j].pc = "start" => testers'[j].of # r
      BY <1>7, <1>9, <3>1 DEF NoFreshTest
    <3>4. \A p \in TestsOf(r)' : ~tests'[p].recent
      BY <2>3, <2>4, <3>1, <3>2 DEF NoFreshTest
    <3> QED
      BY <3>3, <3>4 DEF NoFreshTest
  <2>7. d.idx >= 12 => \A p \in TestsOf(r)' : tests'[p].recent => Good(p, d.ver)'
    BY <2>2, <2>3, <2>4, <2>5 DEF Judges
  <2>8. d.inflight.kind = "test" => \A p \in TestsOf(r)' : p > d.inflight.after => Good(p, d.ver)'
    BY <2>2, <2>4, <2>5 DEF Judges
  <2>9. d.idx > 12 /\ d.tests => VerdictFits(r, d)'
    <3> SUFFICES ASSUME d.idx > 12 /\ d.tests PROVE VerdictFits(r, d)'
      OBVIOUS
    <3>1. VerdictFits(r, d)
      BY <2>2 DEF Judges
    <3>2. d.verdict \in TestsOf(r) /\ Closed(d.verdict)
      BY <3>1 DEF VerdictFits
    <3>3. d.verdict \in TestsOf(r)' /\ tests'[d.verdict] = tests[d.verdict] /\ Closed(d.verdict)'
      BY <1>11, <2>3, <3>2
    <3> QED
      BY <3>1, <3>3 DEF VerdictFits, Passed
  <2>10. Judges(r, d)'
    BY <2>6, <2>7, <2>8, <2>9 DEF Judges
  <2> QED
    BY <2>1, <2>10 DEF Judges, VerdictFits
<1> QED
  BY <1>12, <1>13 DEF Verdicts

LEMMA TestingJudged ==
    ASSUME IInv, Alone, Served, Verdicts, ~OnDemand, NEW k \in Testers, Testing(k)
    PROVE  Verdicts'
<1>1. /\ (TesterWorks(k) \/ TesterBreaks(k)) /\ UNCHANGED <<dep, repairs>>
  BY DEF Testing, Tests, TestsBreak, AskTests, RetryTests
<1>2. CASE TestNode(k) \/ (TesterAt(k, "browser") /\ BrowseHangs(k) /\ NodeDone(k))
  BY <1>1, <1>2, TestNodeJudged
<1>3. CASE TestStarts(k)
  BY <1>1, <1>3, TestStartsJudged
<1>4. CASE WriteReport(k)
  BY <1>1, <1>4, WriteReportJudged
<1>5. CASE TestRefused(k) \/ MarkPoc(k) \/ KillTester(k) \/ TestNodeFails(k) \/ TestTimesOut(k)
  <2>1. TesterEnds(k) /\ UNCHANGED tests
    BY <1>5 DEF TestRefused, MarkPoc, KillTester, TestNodeFails, TestTimesOut
  <2>2. CASE UNCHANGED runs
    BY <1>1, <2>1, <2>2, EndJudged DEF TestsUndisturbed, IsTest, IsDeploy
  <2>3. CASE TestNodeFails(k) \/ TestTimesOut(k)
    <3>1. testers[k].run # 0 /\ (Mirror(testers[k].run) \/ Store!FinishRun(testers[k].run, "failed"))
      BY <2>3 DEF TestNodeFails, TestTimesOut
    <3>2. TestsUndisturbed /\ NoNewRun
      BY <3>1, AtTest, TestWriteUndisturbed DEF Mirror
    <3> QED
      BY <1>1, <2>1, <3>2, EndJudged DEF NoNewRun, IsDeploy
  <2> QED
    BY <1>5, <2>2, <2>3 DEF TestRefused, MarkPoc, KillTester
<1> QED
  BY <1>1, <1>2, <1>3, <1>4, <1>5 DEF TesterWorks, TesterBreaks

\* Minutes pass: no test run is recent any more, and none is about to begin.
LEMMA MinutesJudged ==
    ASSUME IInv, Alone, Verdicts, MinutesPass, UNCHANGED <<runs, testers>>,
           \A r \in RunIds : /\ dep'[r].idx = dep[r].idx /\ dep'[r].ver = dep[r].ver /\ dep'[r].tests = dep[r].tests
                             /\ dep'[r].verdict = dep[r].verdict
                             /\ dep'[r].inflight.kind = dep[r].inflight.kind
                             /\ dep'[r].inflight.after = dep[r].inflight.after
    PROVE  Verdicts'
<1>1. \A q \in RunIds : /\ tests'[q].of = tests[q].of /\ tests'[q].ver = tests[q].ver /\ tests'[q].api = tests[q].api
                        /\ tests'[q].browser = tests[q].browser /\ ~tests'[q].recent
  <2>1. \A q \in RunIds : tests'[q] = [tests[q] EXCEPT !.recent = FALSE]
    BY DEF MinutesPass
  <2> QED
    BY <2>1, TypeParts DEF IInv, Test
<1>2. \A k \in Testers : testers[k].pc # "start"
  BY DEF MinutesPass, TesterAt
<1>3. \A q \in RunIds : Closed(q)' <=> Closed(q)
  BY DEF Closed, Open
<1>4. TestersApart'
  <2>1. \A j \in Testers : testers'[j].pc \notin {"off", "start", "load"} => tests'[testers'[j].run].ver # 0
    <3> SUFFICES ASSUME NEW j \in Testers, testers[j].pc \notin {"off", "start", "load"}
                 PROVE  tests'[testers[j].run].ver # 0
      OBVIOUS
    <3>1. testers[j].run \in RunIds
      BY AtTest
    <3> QED
      BY <1>1, <3>1 DEF Verdicts, TestersApart
  <2> QED
    BY <1>3, <2>1 DEF Verdicts, TestersApart, IsTest
<1>5. ASSUME NEW r \in RunIds, IsDeploy(r)' PROVE Judges(r, dep[r])'
  <2>1. PICK d, c : d = dep[r] /\ c = dep'[r]
    OBVIOUS
  <2>2. Judges(r, d) /\ CalleeAt(d.inflight, d.idx)
    BY <1>5, <2>1 DEF Verdicts, IsDeploy, Alone
  <2>3. TestsOf(r)' = TestsOf(r) /\ \A q \in TestsOf(r) : q \in RunIds
    BY <1>1 DEF TestsOf, IsTest
  <2>4. NoFreshTest(r)'
    BY <1>1, <1>2, <2>3 DEF NoFreshTest
  <2>5. \A q \in TestsOf(r) : Good(q, d.ver) => Good(q, d.ver)'
    BY <1>1, <2>3 DEF Good, Reported
  <2>6. \A q \in TestsOf(r) : Closed(q) =>
           /\ Closed(q)'
           /\ tests'[q].ver = tests[q].ver /\ tests'[q].api = tests[q].api /\ tests'[q].browser = tests[q].browser
    BY <1>1, <1>3, <2>3
  <2>7. /\ c.idx = d.idx /\ c.ver = d.ver /\ c.tests = d.tests /\ c.verdict = d.verdict
        /\ c.inflight.kind = d.inflight.kind /\ c.inflight.after = d.inflight.after
    BY <2>1
  <2>8. \A q \in TestsOf(r) : tests'[q].recent => tests[q].recent
    BY <1>1, <2>3
  <2>9. Judges(r, c)'
    BY <2>2, <2>3, <2>4, <2>5, <2>6, <2>7, <2>8, Rejudged
  <2> QED
    BY <2>1, <2>9 DEF Judges, VerdictFits
<1> QED
  BY <1>4, <1>5 DEF Verdicts

LEMMA RepairsJudged ==
    ASSUME IInv, Alone, Verdicts, NEW a \in Attempts, Repairs(a)
    PROVE  Verdicts'
<1>1. CASE RepairEnds(a)
  BY <1>1, MinutesJudged DEF RepairEnds
<1>2. CASE RepairStarts(a)
  <2>1. /\ UNCHANGED <<runs, tests, testers, dep>>
        /\ \E state \in {"none", "running"} : repairs' = [repairs EXCEPT ![a].state = state]
    BY <1>2 DEF RepairStarts, RepairGoes, testVars
  <2>2. \A b \in Attempts : repairs'[b].state = "succeeded" => repairs[b].state = "succeeded"
    BY <2>1, TypeParts DEF IInv, Repair
  <2>3. TestsUndisturbed
    BY <2>1 DEF TestsUndisturbed, IsTest
  <2>4. ASSUME NEW r \in RunIds, IsDeploy(r)' PROVE Judges(r, dep[r])'
    <3>1. PICK d : d = dep[r] /\ d = dep'[r]
      BY <2>1
    <3>2. Judges(r, d)
      BY <2>1, <2>4, <3>1 DEF Verdicts, IsDeploy
    <3>3. Numbered(d.inflight) /\ d.inflight \in InFlight
      BY <3>1, TypeParts DEF IInv, Placed, DocFits, Deploy
    <3>4. Repaired(r, d.inflight)' => Repaired(r, d.inflight)
      <4>1. d.inflight.kind = "repair" => <<r, d.inflight.comp, d.inflight.attempt>> \in Attempts
        BY <3>3 DEF Numbered, InFlight, Attempts
      <4> QED
        BY <2>2, <4>1 DEF Repaired
    <3>5. Judges(r, d)'
      BY <2>1, <2>3, <3>2, <3>4, JudgesStays
    <3> QED
      BY <3>1, <3>5 DEF Judges, VerdictFits
  <2> QED
    BY <2>1, <2>3, <2>4, ApartStays DEF Verdicts
<1> QED
  BY <1>1, <1>2 DEF Repairs

LEMMA AgeJudged ==
    ASSUME IInv, Alone, Verdicts, NEW r \in RunIds, AgeInFlight(r)
    PROVE  Verdicts'
<1>1. dep' = [dep EXCEPT ![r].inflight = Older(@)] /\ MinutesPass /\ UNCHANGED <<runs, testers>>
  BY DEF AgeInFlight
<1> DEFINE d == dep[r]
           i == Older(d.inflight)
           c == [d EXCEPT !.inflight = i]
<1>2. d \in Deploy /\ d.inflight \in InFlight
  BY TypeParts DEF IInv, Deploy
<1>3. i.kind = d.inflight.kind /\ i.after = d.inflight.after
  BY <1>2 DEF Older, InFlight
<1>4. dep' = [dep EXCEPT ![r] = c]
  BY <1>1, <1>2, TypeParts DEF IInv
<1> HIDE DEF i
<1>5. c.idx = d.idx /\ c.ver = d.ver /\ c.tests = d.tests /\ c.verdict = d.verdict /\ c.inflight = i
  BY <1>2 DEF Deploy
<1> HIDE DEF c, d
<1>6. dep'[r] = c /\ \A q \in RunIds : q # r => dep'[q] = dep[q]
  BY <1>4, TypeParts DEF IInv
<1>7. \A q \in RunIds : /\ dep'[q].idx = dep[q].idx /\ dep'[q].ver = dep[q].ver /\ dep'[q].tests = dep[q].tests
                        /\ dep'[q].verdict = dep[q].verdict
                        /\ dep'[q].inflight.kind = dep[q].inflight.kind
                        /\ dep'[q].inflight.after = dep[q].inflight.after
  BY <1>3, <1>5, <1>6 DEF d
<1> QED
  BY <1>1, <1>7, MinutesJudged

LEMMA NextVerdicts ==
    ASSUME IInv, Alone, Served, Attempted, Verdicts, ~OnDemand, [Next]_vars
    PROVE  Verdicts'
<1>1. CASE \E e \in Execs : Works(e) \/ Die(e)
  BY <1>1, StepWorksJudged, CallsJudged, WaitsJudged, LeavesJudged DEF Works
<1>2. CASE \E k \in Testers : Testing(k)
  BY <1>2, TestingJudged
<1>3. CASE SweepWorks \/ SweepBreaking \/ AbandonTeardown \/ \E reaper \in BOOLEAN : TearsDown(reaper)
  BY <1>3, SweepsJudged
<1>4. CASE \E a \in Attempts : Repairs(a)
  BY <1>4, RepairsJudged
<1>5. CASE \E r \in RunIds : AgeInFlight(r)
  BY <1>5, AgeJudged
<1>6. CASE \E r \in RunIds : Silence(r)
  BY <1>6, SilenceJudged
<1>7. CASE \E e \in Execs : UserDeploys(e)
  <2>1. PICK e \in Execs, mode \in Modes, tested \in BOOLEAN : StartDeploy(e, mode, tested)
    BY <1>7, DeployAssumption DEF UserDeploys
  <2> QED
    BY <2>1, StartJudged
<1>8. CASE \E e \in Execs : RetryDeploy(e)
  BY <1>8, RetryJudged
<1>9. CASE UNCHANGED vars
  BY <1>9, StayJudged DEF vars, testVars, TestsUndisturbed, IsTest, IsDeploy
<1> QED
  BY <1>1, <1>2, <1>3, <1>4, <1>5, <1>6, <1>7, <1>8, <1>9 DEF Next, User, Testing

LEMMA InitVerdicts == Init => Verdicts
<1> SUFFICES ASSUME Init PROVE Verdicts
  OBVIOUS
<1>1. \A r \in RunIds : ~IsDeploy(r) /\ ~IsTest(r)
  BY DEF Init, TestInit, LedgerInit, Store!Init, Store!NoDoc, IsDeploy, IsTest
<1>2. \A k \in Testers : testers[k].pc = "off" /\ testers[k].run = 0
  BY DEF Init, TestInit, NoTester
<1> QED
  BY <1>1, <1>2 DEF Verdicts, TestersApart

LEMMA VerdictsInductive ==
    ~Impatient /\ ~OnDemand => (Spec => [](IInv /\ Alone /\ Served /\ Attempted /\ Verdicts))
<1> SUFFICES ASSUME ~Impatient, ~OnDemand PROVE Spec => [](IInv /\ Alone /\ Served /\ Attempted /\ Verdicts)
  OBVIOUS
<1>1. IInv /\ Alone /\ Served /\ Attempted /\ Verdicts /\ [Next]_vars
         => IInv' /\ Alone' /\ Served' /\ Attempted' /\ Verdicts'
  BY NextKeeps, NextAlone, NextServed, NextAttempted, NextVerdicts
<1> QED
  BY <1>1, InitFits, InitAlone, InitServed, InitAttempted, InitVerdicts, PTL DEF Spec

(* A deployment that was asked for tests succeeds only on the verdict of a *)
(* test run of its own that passed, that read the deployment.json of the   *)
(* version the run ended with and that found this very version answering.  *)
(* Nobody asks for tests of it beside the run, and nobody continues it     *)
(* under an execution that is still at it.                                 *)
THEOREM JudgesDeployed == ~Impatient /\ ~OnDemand => (Spec => []VerdictOfDeployed)
<1>1. ASSUME IInv, Alone, Verdicts PROVE VerdictOfDeployed
  <2> SUFFICES ASSUME NEW r \in RunIds, Succeeded(r) /\ dep[r].tests
               PROVE  LET q == dep[r].verdict IN
                      /\ q # 0 /\ tests[q].of = r /\ Passed(q)
                      /\ tests[q].ver = dep[r].ver
                      /\ tests[q].api.about = dep[r].ver
    BY DEF VerdictOfDeployed
  <2>1. VerdictFits(r, dep[r])
    BY <1>1 DEF Alone, Verdicts, Judges, Succeeded, IsDeploy
  <2>2. dep[r].verdict # 0
    BY <2>1 DEF VerdictFits, TestsOf, RunIds
  <2> QED
    BY <2>1, <2>2 DEF VerdictFits, TestsOf
<1> QED
  BY <1>1, VerdictsInductive, PTL
=============================================================================

------------------------------ MODULE DeployRun ------------------------------
(***************************************************************************)
(* The deploy stage: executions of the deploy agent, the steps they carry  *)
(* out in the cloud and on the box, the repairs they ask the coding        *)
(* orchestrator for and the tests they ask the test agent for.             *)
(*                                                                         *)
(* As in CodeRun, an execution is capped at about ten minutes, and a run   *)
(* is carried by a chain of them.  What a run needs to go on is in its     *)
(* document: the first step not done (resume_step_index) and the callee it *)
(* waits for (inflight).  Each tool of the graph is one action; a step is  *)
(* one action for its begin, one for each thing it does, one for its end.  *)
(*                                                                         *)
(* The coding orchestrator is modelled by what a repair run may come to;   *)
(* CodeRun has it in full.                                                 *)
(***************************************************************************)
EXTENDS TestRun

CONSTANTS
    Execs,          \* bound: the deploy agent executions that may live at once
    MaxRepairs,     \* the attempts a component gets
    Modes,          \* the database modes a deployment may ask for
    TestChoices,    \* whether a deployment may ask for tests (run_tests)
    OnDemand,       \* whether the user may ask for tests at any time
    Overlap,        \* whether the user may deploy and tear down at the same time
    Impatient       \* whether the user may continue a deployment under an execution that is still at it

ASSUME DeployAssumption ==
    /\ MaxRepairs \in Nat
    /\ TestChoices \subseteq BOOLEAN /\ {OnDemand, Overlap, Impatient} \subseteq BOOLEAN

VARIABLES
    dep,        \* dep[r]: inputs and outputs of deployment r
    repairs,    \* repairs[r, c, n]: the repair of component c that is attempt n of deployment r
    execs       \* execs[e]: where an execution stands

cloudVars == <<poc, cloud, ledger, sweep>>
testVars  == <<box, manifest, tests, testers>>
vars      == <<runs, faults, cloudVars, testVars, dep, repairs, execs>>

Pipeline == <<"check_gate", "provision_db", "store_secret", "launch_instance", "fetch_bundle", "seed_data",
              "build_backend", "start_backend", "build_frontend", "publish_frontend", "write_deployment",
              "run_tests", "finalize">>
StepNames == {Pipeline[i] : i \in 1..Len(Pipeline)}
Position(step) == CHOOSE i \in 1..Len(Pipeline) : Pipeline[i] = step

\* The component that is repaired when a step fails; the other steps end the run.
Repairable == [step \in {"seed_data", "build_backend", "start_backend", "build_frontend"} |->
                  CASE step = "seed_data" -> "seed"
                    [] step = "build_frontend" -> "frontend"
                    [] OTHER -> "backend"]

Attempts == RunIds \X Components \X (1..MaxRepairs)

\* The age of what an execution waits for: past the five minutes within which a run
\* must appear, past the twenty minutes it may take.  `after`: test runs up to this
\* one began too early to be the one that was fired.
Nothing  == [kind |-> "none", comp |-> "seed", attempt |-> 0, age |-> "young", after |-> 0]
InFlight == [kind : {"none", "test", "repair"}, comp : Components, attempt : 0..MaxRepairs,
             age : {"young", "late", "over"}, after : RunIds \cup {0}]

NoDeploy == [ver |-> 0, mode |-> "shared_db", tests |-> FALSE, idx |-> 0, inflight |-> Nothing,
             tries |-> [c \in Components |-> 0], verdict |-> 0, passed |-> FALSE]
Deploy   == [ver : Versions, mode : Modes \cup {"shared_db"}, tests : BOOLEAN, idx : 0..Len(Pipeline) + 1,
             inflight : InFlight, tries : [Components -> 0..MaxRepairs + 1],
             verdict : RunIds \cup {0}, passed : BOOLEAN]

NoRepair == [state |-> "none", ver |-> 0, fired |-> 0]
Repair   == [state : {"none", "fired", "running", "succeeded", "failed"}, ver : Versions, fired : 0..2]

Off  == [pc |-> "off", run |-> 0, idx |-> 0, did |-> 0, inflight |-> Nothing, comp |-> "seed"]
Exec == [pc : {"off", "resume", "step", "work", "repair", "mark", "fire", "wait", "clear", "tests",
               "handover", "finish", "fail", "release"},
         run : RunIds \cup {0}, idx : 0..Len(Pipeline) + 1, did : Nat, inflight : InFlight, comp : Components]

TypeOK ==
    /\ TestTypeOK
    /\ dep \in [RunIds -> Deploy]
    /\ repairs \in [Attempts -> Repair]
    /\ execs \in [Execs -> Exec]

Init ==
    /\ TestInit
    /\ dep = [r \in RunIds |-> NoDeploy]
    /\ repairs = [a \in Attempts |-> NoRepair]
    /\ execs = [e \in Execs |-> Off]

-----------------------------------------------------------------------------
(* Executions                                                              *)

At(e, pc)   == execs[e].pc = pc
Goto(e, pc) == execs' = [execs EXCEPT ![e].pc = pc]
Stop(e)     == execs' = [execs EXCEPT ![e] = Off]
StepOf(e)   == Pipeline[execs[e].idx]

\* Where the graph goes when nothing failed; `spent`: the budget is used up.
Route(x, spent) ==
    [x EXCEPT !.did = 0,
              !.pc = CASE spent -> "handover"
                       [] ~spent /\ x.inflight.kind # "none" -> "wait"
                       [] ~spent /\ x.inflight.kind = "none" /\ x.idx > Len(Pipeline) -> "finish"
                       [] OTHER -> IF Pipeline[x.idx] = "run_tests" THEN "tests" ELSE "step"]
Proceed(e, x) == \E spent \in BOOLEAN : execs' = [execs EXCEPT ![e] = Route(x, spent)]

\* The index refuses the write, which nobody catches: the execution ends there.
Recorded(e) == Store!UpdateRunStep(execs[e].run)
Refused(e)  == ~Store!MayOccupy(execs[e].run, "deploy") /\ UNCHANGED runs /\ Stop(e)

StartDeploy(e, mode, tested) ==
    /\ At(e, "off")
    /\ \E r \in RunIds :
          /\ CreateRun(r, "deploy")
          /\ dep' = [dep EXCEPT ![r] = [NoDeploy EXCEPT !.ver = 1, !.mode = mode, !.tests = tested, !.idx = 1]]
          /\ execs' = [execs EXCEPT ![e] = [Off EXCEPT !.pc = "step", !.run = r, !.idx = 1]]
    /\ poc' = "deploying"
    /\ UNCHANGED <<faults, cloud, ledger, sweep, testVars, repairs>>

\* deploy_continue_run: a run that succeeded answers, one that cannot be reopened refuses.
Resume(e) ==
    LET r == execs[e].run IN
    /\ At(e, "resume")
    /\ \/ /\ Store!ReopenRun(r)
          /\ execs' = [execs EXCEPT ![e] = Route([@ EXCEPT !.idx = dep[r].idx, !.inflight = dep[r].inflight], FALSE)]
          /\ poc' = "deploying"
       \/ /\ runs[r].status \notin Store!ReopenableStates \/ ~Store!MayOccupy(r, "deploy")
          /\ Stop(e)
          /\ UNCHANGED <<runs, poc>>
    /\ UNCHANGED <<faults, cloud, ledger, sweep, testVars, dep, repairs>>

-----------------------------------------------------------------------------
(* Steps: begun, carried out, recorded                                     *)

StepBegins(e) ==
    /\ At(e, "step")
    /\ (Recorded(e) /\ Goto(e, "work")) \/ Refused(e)
    /\ UNCHANGED <<faults, cloudVars, testVars, dep, repairs>>

CloudWork(e) ==
    LET ops == Operations(StepOf(e), execs[e].run, dep[execs[e].run].mode) IN
    /\ At(e, "work")
    /\ execs[e].did < Len(ops)
    /\ Possible(ops[execs[e].did + 1])
    /\ Perform(ops[execs[e].did + 1])
    /\ execs' = [execs EXCEPT ![e].did = @ + 1]
    /\ UNCHANGED <<runs, faults, poc, sweep, testVars, dep, repairs>>

\* Mutated form of BoxAfter: the backend is started only if none is running.
BoxAfterNoRestart(step, b, v) ==
    CASE step = "fetch_bundle"   -> [b EXCEPT !.files = v, !.backend = 0, !.frontend = 0]
      [] step = "seed_data"      -> [b EXCEPT !.seeded = b.files]
      [] step = "build_backend"  -> [b EXCEPT !.backend = b.files]
      [] step = "start_backend"  -> IF b.live = 0 THEN [b EXCEPT !.live = b.backend] ELSE b
      [] step = "build_frontend" -> [b EXCEPT !.frontend = b.files]
      [] OTHER                   -> b

\* What a step leaves on the box.  A running backend outlives the files it came from.
BoxAfter(step, b, v) ==
    CASE step = "fetch_bundle"   -> [b EXCEPT !.files = v, !.backend = 0, !.frontend = 0]
      [] step = "seed_data"      -> [b EXCEPT !.seeded = b.files]
      [] step = "build_backend"  -> [b EXCEPT !.backend = b.files]
      [] step = "start_backend"  -> [b EXCEPT !.live = b.backend]
      [] step = "build_frontend" -> [b EXCEPT !.frontend = b.files]
      [] OTHER                   -> b

OnBox == {"fetch_bundle", "seed_data", "build_backend", "start_backend", "build_frontend", "publish_frontend"}

BoxWork(e) ==
    LET r == execs[e].run IN
    /\ At(e, "work")
    /\ StepOf(e) \in OnBox
    /\ execs[e].did = 0
    /\ Up(r)
    /\ box' = [box EXCEPT ![r] = BoxAfter(StepOf(e), @, dep[r].ver)]
    /\ execs' = [execs EXCEPT ![e].did = 1]
    /\ UNCHANGED <<runs, faults, cloudVars, manifest, tests, testers, dep, repairs>>

\* deployment.json and the status of the POC; without a test run it stays "deployed".
PocWork(e) ==
    LET r == execs[e].run IN
    /\ At(e, "work")
    /\ execs[e].did = 0
    /\ \/ /\ StepOf(e) = "write_deployment"
          /\ manifest' = [manifest EXCEPT ![r] = dep[r].ver]
          /\ poc' = "deployed"
       \/ /\ StepOf(e) = "finalize"
          /\ poc' = CASE dep[r].verdict = 0 -> "deployed"
                      [] dep[r].verdict # 0 /\ dep[r].passed -> "tested"
                      [] OTHER -> "failed"
          /\ UNCHANGED manifest
    /\ execs' = [execs EXCEPT ![e].did = 1]
    /\ UNCHANGED <<runs, faults, cloud, ledger, sweep, box, tests, testers, dep, repairs>>

WorkOf(e) == IF StepOf(e) \in OnBox \cup {"write_deployment", "finalize"} THEN 1
             ELSE Len(Operations(StepOf(e), execs[e].run, dep[execs[e].run].mode))

\* The outputs and the next index in one write, the end of the step in another.
StepSucceeds(e) ==
    /\ At(e, "work")
    /\ execs[e].did = WorkOf(e)
    /\ dep' = [dep EXCEPT ![execs[e].run].idx = execs[e].idx + 1]
    /\ \/ Recorded(e) /\ Proceed(e, [execs[e] EXCEPT !.idx = @ + 1])
       \/ Refused(e)
    /\ UNCHANGED <<faults, cloudVars, testVars, repairs>>

\* Generated code that does not build, start or load is repaired; anything else that
\* fails, and a box that is gone, ends the run unless the step is one of those.
StepFails(e) ==
    LET step == StepOf(e) IN
    /\ At(e, "work")
    /\ \/ step \in DOMAIN Repairable /\ Repairable[step] \in Fragile /\ UNCHANGED faults
       \/ step \in OnBox /\ ~Up(execs[e].run) /\ UNCHANGED faults
       \/ /\ execs[e].did < WorkOf(e) /\ step \notin OnBox \cup {"write_deployment", "finalize"}
          /\ ~Possible(Operations(step, execs[e].run, dep[execs[e].run].mode)[execs[e].did + 1])
          /\ UNCHANGED faults
       \/ Fault
    /\ \/ /\ Recorded(e)
          /\ execs' = [execs EXCEPT ![e] =
                IF step \in DOMAIN Repairable THEN [@ EXCEPT !.did = 0, !.pc = "repair", !.comp = Repairable[step]]
                ELSE [@ EXCEPT !.did = 0, !.pc = "fail"]]
       \/ Refused(e)
    /\ UNCHANGED <<cloudVars, testVars, dep, repairs>>

-----------------------------------------------------------------------------
(* Callees: what is fired is marked in flight first                        *)

Least(a, b) == IF a < b THEN a ELSE b

\* Mutated form of CountAttempt: the attempts are counted by the execution alone.
CountAttemptInMemory(e) ==
    /\ At(e, "repair")
    /\ execs' = [execs EXCEPT ![e] = [@ EXCEPT !.pc = "mark", !.inflight =
                    [Nothing EXCEPT !.kind = "repair", !.comp = execs[e].comp, !.attempt = 1]]]
    /\ Store!TouchRun(execs[e].run)
    /\ UNCHANGED <<faults, cloudVars, testVars, dep, repairs>>

\* The attempt is counted, then the failure report is written.
CountAttempt(e) ==
    LET r == execs[e].run
        c == execs[e].comp
        n == Least(dep[r].tries[c] + 1, MaxRepairs + 1)
    IN  /\ At(e, "repair")
        /\ dep' = [dep EXCEPT ![r].tries[c] = n]
        /\ execs' = [execs EXCEPT ![e] =
              IF n > MaxRepairs THEN [@ EXCEPT !.pc = "fail"]
              ELSE [@ EXCEPT !.pc = "mark", !.inflight = [Nothing EXCEPT !.kind = "repair", !.comp = c, !.attempt = n]]]
        /\ Store!TouchRun(r)
        /\ UNCHANGED <<faults, cloudVars, testVars, repairs>>

\* run_tests is recorded as done before the tests are; only their verdict moves the index.
AskForTests(e) ==
    LET r == execs[e].run IN
    /\ At(e, "tests")
    /\ \/ /\ Recorded(e)
          /\ IF dep[r].tests
             THEN /\ execs' = [execs EXCEPT ![e].pc = "mark", ![e].inflight = [Nothing EXCEPT !.kind = "test"]]
                  /\ UNCHANGED dep
             ELSE /\ dep' = [dep EXCEPT ![r].idx = execs[e].idx + 1]
                  /\ Proceed(e, [execs[e] EXCEPT !.idx = @ + 1])
       \/ Refused(e) /\ UNCHANGED dep
    /\ UNCHANGED <<faults, cloudVars, testVars, repairs>>

\* A test run counts when it began after the fire, or up to two minutes before.
Since == {n \in RunIds \cup {0} :
             /\ n <= Cardinality({r \in RunIds : Store!Exists(r)})
             /\ \A q \in OfStage("test") : q > n => tests[q].recent}

MarkInFlight(e) ==
    /\ At(e, "mark")
    /\ \E n \in Since :
          LET callee == [execs[e].inflight EXCEPT !.after = IF execs[e].inflight.kind = "test" THEN n ELSE 0] IN
          /\ dep' = [dep EXCEPT ![execs[e].run].inflight = callee]
          /\ execs' = [execs EXCEPT ![e].pc = "fire", ![e].inflight = callee]
    /\ Store!TouchRun(execs[e].run)
    /\ UNCHANGED <<faults, cloudVars, testVars, repairs>>

AttemptOf(e) == <<execs[e].run, execs[e].inflight.comp, execs[e].inflight.attempt>>

\* The callee is started, or the platform swallows the request.
Fires(e, started) ==
    IF execs[e].inflight.kind = "repair"
    THEN /\ repairs' = IF started THEN [repairs EXCEPT ![AttemptOf(e)].state = "fired",
                                                       ![AttemptOf(e)].fired = Least(@ + 1, 2)]
                       ELSE repairs
         /\ UNCHANGED testers
    ELSE /\ IF started THEN \E k \in Testers : Invited(k, execs[e].run) ELSE UNCHANGED testers
         /\ UNCHANGED repairs

Fire(e) ==
    /\ At(e, "fire")
    /\ \/ Fires(e, TRUE) /\ UNCHANGED faults
       \/ Fires(e, FALSE) /\ Fault
    /\ Proceed(e, execs[e])
    /\ UNCHANGED <<runs, cloudVars, box, manifest, tests, dep>>

\* The invoke raises, whether or not the callee was started.
FireRaises(e) ==
    /\ At(e, "fire")
    /\ Fault
    /\ \E started \in BOOLEAN : Fires(e, started)
    /\ Goto(e, "clear")
    /\ UNCHANGED <<runs, cloudVars, box, manifest, tests, dep>>

\* Nothing is in flight any more, and the run fails.
ClearInFlight(e) ==
    /\ At(e, "clear")
    /\ dep' = [dep EXCEPT ![execs[e].run].inflight = Nothing]
    /\ execs' = [execs EXCEPT ![e].pc = "fail", ![e].inflight = Nothing]
    /\ Store!TouchRun(execs[e].run)
    /\ UNCHANGED <<faults, cloudVars, testVars, repairs>>

-----------------------------------------------------------------------------
(* Waiting                                                                 *)

\* The newest test run for the deployment that began late enough.
Candidates(e) == {q \in OfStage("test") : tests[q].of = execs[e].run /\ q > execs[e].inflight.after}
Answering(e)  == {q \in Candidates(e) : \A p \in Candidates(e) : p <= q}

Age(e) == execs[e].inflight.age

\* The verdict and the end of the wait are one write.
TestsAnswer(e) ==
    LET r == execs[e].run IN
    /\ At(e, "wait") /\ execs[e].inflight.kind = "test"
    /\ \E q \in Answering(e) :
          LET passed == runs[q].status = "succeeded" /\ Passed(q)
              x == [execs[e] EXCEPT !.inflight = Nothing]
          IN  /\ runs[q].status \in Store!TerminalStatuses
              /\ dep' = [dep EXCEPT ![r].inflight = Nothing, ![r].verdict = q, ![r].passed = passed,
                                    ![r].idx = IF passed THEN Position("run_tests") + 1 ELSE @]
              /\ IF passed THEN Proceed(e, [x EXCEPT !.idx = Position("run_tests") + 1])
                 ELSE execs' = [execs EXCEPT ![e] =
                         IF runs[q].status = "succeeded" THEN [x EXCEPT !.pc = "repair", !.comp = Suspect(q)]
                         ELSE [x EXCEPT !.pc = "fail"]]
    /\ Store!TouchRun(r)
    /\ UNCHANGED <<faults, cloudVars, testVars, repairs>>

\* Mutated form of RepairAnswers: the run goes on at the step that was repaired.
RepairAnswersInPlace(e) ==
    LET r == execs[e].run IN
    /\ At(e, "wait") /\ execs[e].inflight.kind = "repair"
    /\ repairs[AttemptOf(e)].state = "succeeded"
    /\ dep' = [dep EXCEPT ![r].ver = repairs[AttemptOf(e)].ver, ![r].inflight = Nothing]
    /\ Proceed(e, [execs[e] EXCEPT !.inflight = Nothing])
    /\ Store!TouchRun(r)
    /\ UNCHANGED <<faults, cloudVars, testVars, repairs>>

\* The version, the end of the wait and the way back to fetch_bundle are one write.
RepairAnswers(e) ==
    LET r == execs[e].run IN
    /\ At(e, "wait") /\ execs[e].inflight.kind = "repair"
    /\ repairs[AttemptOf(e)].state = "succeeded"
    /\ dep' = [dep EXCEPT ![r].ver = repairs[AttemptOf(e)].ver, ![r].inflight = Nothing,
                          ![r].idx = Position("fetch_bundle")]
    /\ Proceed(e, [execs[e] EXCEPT !.inflight = Nothing, !.idx = Position("fetch_bundle")])
    /\ Store!TouchRun(r)
    /\ UNCHANGED <<faults, cloudVars, testVars, repairs>>

Appeared(e) == IF execs[e].inflight.kind = "test" THEN Answering(e) # {}
               ELSE repairs[AttemptOf(e)].state \notin {"none", "fired"}
Ended(e)    == IF execs[e].inflight.kind = "test"
               THEN \E q \in Answering(e) : runs[q].status \in Store!TerminalStatuses
               ELSE repairs[AttemptOf(e)].state \in {"succeeded", "failed"}

\* Mutated form of Hopeless: a callee that never appears is waited for.
HopelessPatient(e) ==
    \/ execs[e].inflight.kind = "repair" /\ repairs[AttemptOf(e)].state = "failed"
    \/ Appeared(e) /\ ~Ended(e) /\ Age(e) = "over"

\* The callee failed, never appeared, or takes too long.
Hopeless(e) ==
    \/ execs[e].inflight.kind = "repair" /\ repairs[AttemptOf(e)].state = "failed"
    \/ ~Appeared(e) /\ Age(e) # "young"
    \/ Appeared(e) /\ ~Ended(e) /\ Age(e) = "over"

WaitFails(e) ==
    /\ At(e, "wait")
    /\ Hopeless(e)
    /\ Store!TouchRun(execs[e].run)
    /\ Goto(e, "clear")
    /\ UNCHANGED <<faults, cloudVars, testVars, dep, repairs>>

\* The window closes and the budget is spent.
WaitWindow(e) ==
    /\ At(e, "wait")
    /\ ~Ended(e) /\ ~Hopeless(e)
    /\ Store!TouchRun(execs[e].run)
    /\ Goto(e, "handover")
    /\ UNCHANGED <<faults, cloudVars, testVars, dep, repairs>>

\* continue_run is fired as a new root session, which replaces this one, or is lost; or
\* that fails, and this one carries on with a new budget.  (CodeRun has the case that it
\* fails and the new one starts all the same.)
HandOver(e) ==
    /\ At(e, "handover")
    /\ Store!TouchRun(execs[e].run)
    /\ \/ execs' = [execs EXCEPT ![e] = [Off EXCEPT !.pc = "resume", !.run = execs[e].run]] /\ UNCHANGED faults
       \/ Stop(e) /\ Fault
       \/ execs' = [execs EXCEPT ![e] = Route(@, FALSE)] /\ Fault
    /\ UNCHANGED <<cloudVars, testVars, dep, repairs>>

Finish(e) ==
    /\ At(e, "finish")
    /\ Store!FinishRun(execs[e].run, "succeeded")
    /\ Stop(e)
    /\ UNCHANGED <<faults, cloudVars, testVars, dep, repairs>>

FinishFailed(e) ==
    /\ At(e, "fail")
    /\ Store!FinishRun(execs[e].run, "failed")
    /\ Goto(e, "release")
    /\ UNCHANGED <<faults, cloudVars, testVars, dep, repairs>>

\* The POC follows the run, in a second write.
ReleasePoc(e) ==
    /\ At(e, "release")
    /\ poc' = "code_ready"
    /\ Stop(e)
    /\ UNCHANGED <<runs, faults, cloud, ledger, sweep, testVars, dep, repairs>>

\* The platform kills an execution at its cap, or a pod is lost.
Die(e) ==
    /\ ~At(e, "off")
    /\ Fault
    /\ Stop(e)
    /\ UNCHANGED <<runs, cloudVars, testVars, dep, repairs>>

-----------------------------------------------------------------------------
(* The coding orchestrator, as far as a repair needs it                    *)

RepairGoes(a, state) == repairs' = [repairs EXCEPT ![a].state = state]
RepairRunning        == \E a \in Attempts : repairs[a].state = "running"

\* Another code run holds the slot: the answer goes to nobody.
RepairStarts(a) ==
    /\ repairs[a].state = "fired"
    /\ RepairGoes(a, IF RepairRunning THEN "none" ELSE "running")
    /\ UNCHANGED <<runs, faults, cloudVars, testVars, dep, execs>>

\* Minutes pass: no test run is recent any more, and what the platform was asked to
\* start has started.
MinutesPass ==
    /\ \A k \in Testers : ~TesterAt(k, "start")
    /\ tests' = [q \in RunIds |-> [tests[q] EXCEPT !.recent = FALSE]]
NewVersion    == 2 + Cardinality({a \in Attempts : repairs[a].state = "succeeded"})

RepairEnds(a) ==
    /\ repairs[a].state = "running"
    /\ \/ NewVersion <= MaxVersion /\ repairs' = [repairs EXCEPT ![a].state = "succeeded", ![a].ver = NewVersion]
       \/ RepairGoes(a, "failed")
    /\ MinutesPass
    /\ UNCHANGED <<runs, faults, cloudVars, box, manifest, testers, dep, execs>>

-----------------------------------------------------------------------------
(* Time                                                                    *)

Older(i) == IF i.kind = "none" THEN i ELSE [i EXCEPT !.age = IF @ = "young" THEN "late" ELSE "over"]

AgeInFlight(r) ==
    /\ \A k \in Testers : testers[k].pc \in {"off", "browser", "report", "status"}
    /\ \E e \in Execs :
          /\ execs[e].run = r /\ execs[e].pc \notin {"mark", "fire"}
          /\ \E i \in {execs[e].inflight, dep[r].inflight} : Older(i) # i
    /\ dep' = [dep EXCEPT ![r].inflight = Older(@)]
    /\ execs' = [e \in Execs |-> IF execs[e].run = r THEN [execs[e] EXCEPT !.inflight = Older(@)] ELSE execs[e]]
    /\ MinutesPass
    /\ UNCHANGED <<runs, faults, cloudVars, box, manifest, testers, repairs>>

\* The deploy agent heartbeats its run.  The test agent does not, and its plan and its
\* browser node take longer than a run may stay silent; nor does the reaper.
Heartbeats(r) ==
    \/ \E e \in Execs : execs[e].run = r
    \/ \E k \in Testers : testers[k].run = r /\ testers[k].pc \notin {"plan", "browser"}
    \/ sweep.run = r /\ ~sweep.reaper

Silence(r) ==
    /\ Store!IsActive(r)
    /\ runs[r].stage = "test" => OnDemand     \* nobody would look
    /\ ~Heartbeats(r)
    /\ Store!GoSilent(r)
    /\ UNCHANGED <<faults, cloudVars, testVars, dep, repairs, execs>>

-----------------------------------------------------------------------------
(* The user, through the chat agent, and the reaper                        *)

Quiet == \A e \in Execs : At(e, "off")

\* Someone who waits for the one before asking for the other, unless Overlap.
UserDeploys(e) ==
    /\ Overlap \/ sweep.pc = "off"
    /\ \E mode \in Modes, tested \in TestChoices : StartDeploy(e, mode, tested)

\* A run that got past its gate has a step that succeeded and is continued, after it was
\* abandoned if it is stale; any other one is abandoned and a fresh one may be started.  The
\* errors that rule a continuation out come from the gate, or before there is a run.
Resumable(r) == dep[r].idx > 1

\* A user with one tab waits for its answer: where a hand-over is lost or an execution is
\* killed there is none, and the run is continued.
MayContinue(r) == Impatient \/ \A e \in Execs : execs[e].run = r => At(e, "release")

RetryDeploy(e) ==
    /\ At(e, "off")
    /\ Overlap \/ sweep.pc = "off"
    /\ \E r \in Newest("deploy") :
          /\ MayContinue(r)
          /\ \/ Store!IsStale(r) /\ Store!AbandonRun(r)
             \/ runs[r].status = "failed" /\ Resumable(r) /\ UNCHANGED runs
          /\ execs' = IF Resumable(r) THEN [execs EXCEPT ![e] = [Off EXCEPT !.pc = "resume", !.run = r]] ELSE execs
    /\ UNCHANGED <<faults, cloudVars, testVars, dep, repairs>>

\* Tests of the deployment the POC points at.
AskTests(k) ==
    /\ OnDemand
    /\ \E r \in OfStage("deploy") : manifest[r] # 0 /\ Invited(k, r)
    /\ UNCHANGED <<runs, faults, cloudVars, box, manifest, tests, dep, repairs, execs>>

\* Tests and teardowns are not continued: a stale run is abandoned, and a fresh one starts.
RetryTests(k) ==
    /\ OnDemand
    /\ \E q \in Newest("test") :
          /\ Store!IsStale(q)
          /\ Store!AbandonRun(q)
          /\ Invited(k, tests[q].of)
    /\ UNCHANGED <<faults, cloudVars, box, manifest, tests, dep, repairs, execs>>

AbandonTeardown ==
    /\ \E r \in Newest("teardown") : Store!IsStale(r) /\ Store!AbandonRun(r)
    /\ UNCHANGED <<faults, cloudVars, testVars, dep, repairs, execs>>

TearsDown(reaper) ==
    /\ Overlap \/ Quiet
    /\ StartSweep(reaper)
    /\ UNCHANGED <<testVars, dep, repairs, execs>>

-----------------------------------------------------------------------------
StepWorks(e) ==
    \/ StepBegins(e)
    \/ CloudWork(e)
    \/ BoxWork(e)
    \/ PocWork(e)
    \/ StepSucceeds(e)
    \/ StepFails(e)

Calls(e) ==
    \/ CountAttempt(e)
    \/ AskForTests(e)
    \/ MarkInFlight(e)
    \/ Fire(e)
    \/ FireRaises(e)
    \/ ClearInFlight(e)

Waits(e) ==
    \/ TestsAnswer(e)
    \/ RepairAnswers(e)
    \/ WaitFails(e)
    \/ WaitWindow(e)

Leaves(e) ==
    \/ Resume(e)
    \/ HandOver(e)
    \/ Finish(e)
    \/ FinishFailed(e)
    \/ ReleasePoc(e)

Works(e) == StepWorks(e) \/ Calls(e) \/ Waits(e) \/ Leaves(e)

Tests(k)       == TesterWorks(k) /\ UNCHANGED <<dep, repairs, execs>>
TestsBreak(k)  == TesterBreaks(k) /\ UNCHANGED <<dep, repairs, execs>>
SweepWorks     == Sweeps /\ UNCHANGED <<testVars, dep, repairs, execs>>
SweepBreaking  == SweepBreaks /\ UNCHANGED <<testVars, dep, repairs, execs>>
Repairs(a)     == RepairStarts(a) \/ RepairEnds(a)

User ==
    \/ \E e \in Execs : UserDeploys(e) \/ RetryDeploy(e)
    \/ \E k \in Testers : AskTests(k) \/ RetryTests(k)
    \/ AbandonTeardown
    \/ \E reaper \in BOOLEAN : TearsDown(reaper)

Next ==
    \/ User
    \/ \E e \in Execs : Works(e) \/ Die(e)
    \/ \E k \in Testers : Tests(k) \/ TestsBreak(k)
    \/ SweepWorks
    \/ SweepBreaking
    \/ \E a \in Attempts : Repairs(a)
    \/ \E r \in RunIds : AgeInFlight(r) \/ Silence(r)

Spec == Init /\ [][Next]_vars

\* The platform runs what it has started, and time passes.
Fairness ==
    /\ \A e \in Execs : WF_vars(Works(e))
    /\ \A k \in Testers : WF_vars(Tests(k))
    /\ WF_vars(SweepWorks)
    /\ \A a \in Attempts : WF_vars(Repairs(a))
    /\ \A r \in RunIds : WF_vars(AgeInFlight(r))

FairSpec == Spec /\ Fairness

-----------------------------------------------------------------------------
(* Properties                                                              *)

Succeeded(r) == runs[r].stage = "deploy" /\ runs[r].status = "succeeded"

(* Everything the deploy and the test agent, the chat agent and the reaper *)
(* do to runs is an operation of the store.                                *)
ImplementsStore == Store!Spec

(* A deployment that succeeded and whose instance still stands serves one  *)
(* code version: the data, the backend that runs, the pages nginx serves   *)
(* and deployment.json are all of the version the run ended with.          *)
ServedCoherent ==
    \A r \in RunIds : Succeeded(r) /\ Up(r) =>
        {box[r].seeded, box[r].live, box[r].frontend, manifest[r]} = {dep[r].ver}

(* A deployment that was asked for tests succeeds only on the verdict of a *)
(* test run that passed, that read the deployment.json of the version the  *)
(* run ended with and that found this very version answering.              *)
VerdictOfDeployed ==
    \A r \in RunIds : Succeeded(r) /\ dep[r].tests =>
        LET q == dep[r].verdict IN
        /\ q # 0 /\ tests[q].of = r /\ Passed(q)
        /\ tests[q].ver = dep[r].ver
        /\ tests[q].api.about = dep[r].ver

(* No repair is asked for twice, whatever is killed and continued.         *)
NoAttemptTwice == \A a \in Attempts : repairs[a].fired <= 1

\* What the step at which deployment r stands does in the cloud, the resources it is
\* about, and whether it can be carried out from its start.
StepOps(r)      == IF dep[r].idx \in DOMAIN Pipeline
                   THEN Operations(Pipeline[dep[r].idx], r, dep[r].mode) ELSE <<>>
Concerns(r, x)  == \E i \in DOMAIN StepOps(r) : StepOps(r)[i].what = x
Repeatable(r)   == \A i \in DOMAIN StepOps(r) : Possible(StepOps(r)[i])

\* A deployment is to register x at the step it stands at or the next, and can: it is the
\* newest one, which is continued unless it succeeded.
CanRegister(x) ==
    \E r \in Newest("deploy") : runs[r].status # "succeeded" /\ Concerns(r, x) /\ Repeatable(r)

\* A deployment that was to register x failed before it did, and a newer one was begun.
Superseded(x) == \E r \in OfStage("deploy") \ Newest("deploy") : Concerns(r, x)

\* The newest deployment stands at a step that is refused when it is carried out again,
\* because its cluster is there already, or because its instance was torn down before the
\* address was registered: x is lost unless the execution that made it is still at it.
Blocked(x) ==
    \E r \in Newest("deploy") :
        /\ Concerns(r, x)
        /\ \/ Concerns(r, Cluster) /\ Cluster \in cloud
           \/ x = Address(r) /\ ledger[Instance(r)] = "released"

\* A database user that lived on a cluster is let go by the teardown, which releases its row.
LetGo(x) == x = DbUser /\ ledger[x] = "released" /\ \E r \in OfStage("deploy") : dep[r].mode = "flex_cluster"

(* What exists in the cloud is in the ledger, or the newest deployment can *)
(* still register it, or it is lost in one of three ways: it was left at   *)
(* a step that makes or registers it by a deployment that a newer one      *)
(* replaced, or by one whose step is refused when it is carried out again, *)
(* or it is the database user of a cluster.  No kill, failure, teardown or *)
(* continuation loses anything else.                                       *)
EveryResourceAccounted ==
    \A x \in cloud : ledger[x] = "active" \/ CanRegister(x) \/ Superseded(x) \/ Blocked(x) \/ LetGo(x)

(* A teardown that reports success has deleted the POC's cluster, also for *)
(* a run that failed before deployment.json existed (the docstring of      *)
(* teardown).  It does not hold: a cluster is registered only after        *)
(* provision_poc_database returns, and a run that stopped in between never *)
(* gets there again, for the second POST is refused.                       *)
ClusterTornDown ==
    [][\A r \in RunIds :
          runs[r].stage = "teardown" /\ runs[r].status # "succeeded" /\ runs'[r].status = "succeeded"
             => Cluster \notin cloud']_vars

(* A teardown that reports success has left no row of the POC active.      *)
TeardownComplete ==
    [][\A r \in RunIds : 
          runs[r].stage = "teardown" /\ runs[r].status # "succeeded" /\ runs'[r].status = "succeeded"
             => Active = {}]_vars

(* A deployment ends: no chain of executions goes on for ever.             *)
EveryExecutionEnds == \A e \in Execs : execs[e].pc # "off" ~> execs[e].pc = "off"
=============================================================================

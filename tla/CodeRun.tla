------------------------------- MODULE CodeRun -------------------------------
(***************************************************************************)
(* The code stage: executions of the coding orchestrator, the coders they  *)
(* fire, the task documents both write, and the code versions in S3.       *)
(*                                                                         *)
(* An execution is one root session of the orchestrator, capped at about   *)
(* ten minutes by the platform, so a run is carried by a chain of them:    *)
(* each persists what it did and fires the next one (Handover), and        *)
(* anybody may fire another for a run that failed (ContinueRun).  Each     *)
(* tool of the graph is one action; where a tool makes two writes that     *)
(* another actor can come between, it is two.                              *)
(*                                                                         *)
(* Alone, this module lets any client start, continue or abandon any run   *)
(* at any time, and an execution or a coder may die anywhere.  CodeSystem  *)
(* replaces the open clients by the chat and deploy agents.                *)
(***************************************************************************)
EXTENDS CodePlan, FiniteSets

CONSTANTS
    MaxRuns,        \* bound: the code runs the POC may get
    MaxTasks,       \* bound: the coder tasks of all its runs
    MaxVersions,    \* bound: the code versions
    Execs,          \* bound: the executions that may live at once
    Specs,          \* the spec versions
    MaxFaults       \* bound: how many times something outside the code's control fails

ASSUME CodeAssumption ==
    /\ {MaxRuns, MaxTasks, MaxVersions, MaxFaults} \subseteq Nat
    /\ Specs \subseteq Nat \ {0}

VARIABLES
    runs,       \* the runs collection
    job,        \* job[r]: inputs and outputs of run r, the part of its document the stage owns
    tasks,      \* tasks[t]: a task document and the coder that serves it
    code,       \* code[v]: the artefacts under code/vNNN
    bundle,     \* bundle[v]: the bundle and manifest under code/vNNN
    poc,        \* status, current versions and approvals of the POC
    execs,      \* execs[e]: where an execution stands
    faults      \* faults so far

codeVars == <<job, tasks, code, bundle, poc, execs, faults>>
vars == <<runs, codeVars>>

RunIds   == 1..MaxRuns
TaskIds  == 1..MaxTasks
Versions == 1..MaxVersions

Store == INSTANCE RunStore WITH Stages <- {"code"}

-----------------------------------------------------------------------------
(* Documents and objects                                                   *)

NoJob == [tool |-> "none", spec |-> 0, prev |-> 0, failure |-> "none",
          ver |-> 0, done |-> {}, bundled |-> FALSE]
Job   == [tool : {"none", "start", "repair"}, spec : Specs \cup {0}, prev : Versions \cup {0},
          failure : Components \cup {Mismatch, "none"},
          ver : Versions \cup {0}, done : SUBSET Artefacts, bundled : BOOLEAN]

\* Mutated form of Planned: a plan counts once a step of it is done.
PlannedOnceUsed(r) == job[r].done # {}

\* The plan and the version are stored together: ver = 0 is a run without a plan.
Planned(r) == job[r].ver # 0
Steps(r)   == PlanSteps(job[r].tool, job[r].failure)

\* A coder is fired, works from what it read, has written, or is gone.
NoTask == [run |-> 0, step |-> "none", ver |-> 0, status |-> "absent", old |-> FALSE,
           coder |-> "gone", read |-> 0]
Task   == [run : RunIds \cup {0}, step : Artefacts \cup {"none"}, ver : Versions \cup {0},
           status : {"absent", "running", "succeeded", "failed"},
           old : BOOLEAN,                   \* older than the per-coder ceiling
           coder : {"unfired", "fired", "working", "wrote", "gone"},
           read : TaskIds \cup {0}]         \* whose contract it works from

TasksOf(r, step) == {t \in TaskIds : tasks[t].run = r /\ tasks[t].step = step}
\* At most one task: the one of the step that was created last.
Newest(r, step)  == {t \in TasksOf(r, step) : \A u \in TasksOf(r, step) : u <= t}
Standing(t)      == IF tasks[t].status = "running" /\ tasks[t].old THEN "given up"
                    ELSE tasks[t].status

\* An artefact is known by the task that wrote it and the contract that task had read.
Missing  == [by |-> 0, con |-> 0]
Artefact == [by : TaskIds \cup {0}, con : TaskIds \cup {0}]
NoCode   == [a \in Artefacts |-> Missing]
NoBundle == [made |-> FALSE, files |-> NoCode]

\* A version exists once any object lies under it; nothing reserves it before.
Used(v) == code[v] # NoCode \/ bundle[v].made

\* One more than the last version in use.
IsNextVersion(v) ==
    /\ \A w \in Versions : Used(w) => w < v
    /\ v > 1 => Used(v - 1)

Off  == [pc |-> "off", run |-> 0, ver |-> 0, idx |-> 0, task |-> 0, spent |-> FALSE]
Exec == [pc : {"off", "load", "persist", "step", "begin", "fire", "wait", "endok", "endfail",
               "handover", "assemble", "record", "publish", "finish", "fail", "failpoc"},
         run : RunIds \cup {0}, ver : Versions \cup {0}, idx : Nat,
         task : TaskIds \cup {0}, spent : BOOLEAN]

TypeOK ==
    /\ Store!TypeOK
    /\ job \in [RunIds -> Job]
    /\ tasks \in [TaskIds -> Task]
    /\ code \in [Versions -> [Artefacts -> Artefact]]
    /\ bundle \in [Versions -> [made : BOOLEAN, files : [Artefacts -> Artefact]]]
    /\ poc \in [status : {"spec_ready", "coding", "code_ready", "code_failed"},
                code : Versions \cup {0}, approved : SUBSET Specs]
    /\ execs \in [Execs -> Exec]
    /\ faults \in 0..MaxFaults

Init ==
    /\ Store!Init
    /\ job = [r \in RunIds |-> NoJob]
    /\ tasks = [t \in TaskIds |-> NoTask]
    /\ code = [v \in Versions |-> NoCode]
    /\ bundle = [v \in Versions |-> NoBundle]
    /\ poc = [status |-> "spec_ready", code |-> 0, approved |-> {}]
    /\ execs = [e \in Execs |-> Off]
    /\ faults = 0

-----------------------------------------------------------------------------
(* Executions                                                              *)

At(e, pc)  == execs[e].pc = pc
StepOf(e)  == Steps(execs[e].run)[execs[e].idx]
Stop(e)    == execs' = [execs EXCEPT ![e] = Off]
Goto(e, pc) == execs' = [execs EXCEPT ![e].pc = pc]

\* Where the graph goes after load, a step, a wait or a failed hand-over.
Route(x) ==
    [x EXCEPT !.pc = CASE x.spent -> "handover"
                       [] ~x.spent /\ x.task # 0 -> "wait"
                       [] ~x.spent /\ x.task = 0 /\ x.idx > Len(Steps(x.run)) -> "assemble"
                       [] OTHER -> "step"]
Proceed(e, x) == execs' = [execs EXCEPT ![e] = Route(x)]

Fault == faults < MaxFaults /\ faults' = faults + 1

\* The index refuses the step of a run whose slot another run holds: the
\* DuplicateKeyError is caught nowhere and the execution ends there.
Refused(e) ==
    /\ ~Store!MayOccupy(execs[e].run, "code")
    /\ Stop(e)
    /\ UNCHANGED <<runs, job>>

\* The end of a step that failed replaces the one of a step that had succeeded.
RecordFailure(e) ==
    /\ Store!UpdateRunStep(execs[e].run)
    /\ job' = [job EXCEPT ![execs[e].run].done = @ \ {StepOf(e)}]
    /\ Goto(e, "fail")

Finish(t, status) == [tasks EXCEPT ![t].status = status]

Enter(e, r) == execs' = [execs EXCEPT ![e] = [Off EXCEPT !.pc = "load", !.run = r]]

NewRun(e, inputs) ==
    /\ At(e, "off")
    /\ \E r \in RunIds :
          /\ \A q \in RunIds : Store!Exists(q) <=> q < r
          /\ Store!CreateRun(r, "code")
          /\ job' = [job EXCEPT ![r] = inputs]
          /\ Enter(e, r)
    /\ poc' = [poc EXCEPT !.status = "coding"]
    /\ UNCHANGED <<tasks, code, bundle, faults>>

StartRun(e, spec) ==
    /\ spec \in poc.approved
    /\ NewRun(e, [NoJob EXCEPT !.tool = "start", !.spec = spec])

RepairRun(e, v, failure) ==
    NewRun(e, [NoJob EXCEPT !.tool = "repair", !.prev = v, !.failure = failure])

\* Mutated form of ContinueRun: the run is reopened although another holds the slot.
ContinueRunForced(e, r) ==
    /\ At(e, "off")
    /\ runs[r].status \in Store!ReopenableStates
    /\ Store!Write(r, "running")
    /\ Enter(e, r)
    /\ poc' = [poc EXCEPT !.status = "coding"]
    /\ UNCHANGED <<job, tasks, code, bundle, faults>>

\* A succeeded run answers at once; reopen_run refuses the others it must refuse.
ContinueRun(e, r) ==
    /\ At(e, "off")
    /\ Store!ReopenRun(r)
    /\ Enter(e, r)
    /\ poc' = [poc EXCEPT !.status = "coding"]
    /\ UNCHANGED <<job, tasks, code, bundle, faults>>

LoadStored(e) ==
    /\ At(e, "load")
    /\ Planned(execs[e].run)
    /\ Store!TouchRun(execs[e].run)
    /\ Proceed(e, [execs[e] EXCEPT !.ver = job[execs[e].run].ver, !.idx = 1])
    /\ UNCHANGED <<job, tasks, code, bundle, poc, faults>>

\* A new version: list the prefix, take the next number, copy what is carried over.
Allocate(e) ==
    LET j == job[execs[e].run]
        kept == CarriedOver(j.tool, j.failure)
    IN  /\ At(e, "load")
        /\ ~Planned(execs[e].run)
        /\ j.tool = "repair" => bundle[j.prev].made
        /\ \E v \in Versions :
              /\ IsNextVersion(v)
              /\ code' = [code EXCEPT ![v] = [a \in Artefacts |-> IF a \in kept THEN code[j.prev][a]
                                                                  ELSE Missing]]
              /\ execs' = [execs EXCEPT ![e].pc = "persist", ![e].ver = v]
        /\ UNCHANGED <<runs, job, tasks, bundle, poc, faults>>

Persist(e) ==
    LET r == execs[e].run IN
    /\ At(e, "persist")
    /\ Store!TouchRun(r)
    /\ job' = [job EXCEPT ![r].ver = execs[e].ver]
    /\ Proceed(e, [execs[e] EXCEPT !.idx = 1])
    /\ UNCHANGED <<tasks, code, bundle, poc, faults>>

LoadFails(e) ==
    LET j == job[execs[e].run] IN
    /\ At(e, "load") \/ At(e, "persist")
    /\ ~Planned(execs[e].run)
    /\ \/ j.tool = "repair" /\ ~bundle[j.prev].made /\ UNCHANGED faults
       \/ Fault
    /\ Goto(e, "fail")
    /\ UNCHANGED <<runs, job, tasks, code, bundle, poc>>

(* orch_step_state: where the step stands is read off its newest task.     *)

NewestOfStep(e) == Newest(execs[e].run, StepOf(e))

StepStart(e) ==
    /\ At(e, "step")
    /\ \A t \in NewestOfStep(e) : Standing(t) = "failed"
    /\ Store!TouchRun(execs[e].run)
    /\ Goto(e, "begin")
    /\ UNCHANGED <<job, tasks, code, bundle, poc, faults>>

\* Mutated form of StepDone: a finished step is only skipped when its end was recorded.
StepDoneRecorded(e) ==
    LET r == execs[e].run IN
        /\ At(e, "step")
        /\ \E t \in NewestOfStep(e) : Standing(t) = "succeeded"
        /\ IF StepOf(e) \in job[r].done THEN Proceed(e, [execs[e] EXCEPT !.idx = @ + 1])
           ELSE Goto(e, "begin")
        /\ Store!TouchRun(r)
        /\ UNCHANGED <<job, tasks, code, bundle, poc, faults>>

\* A step whose coder finished unseen is recorded now.
StepDone(e) ==
    LET r == execs[e].run
        onward == [execs[e] EXCEPT !.idx = @ + 1, !.task = 0]
    IN  /\ At(e, "step")
        /\ \E t \in NewestOfStep(e) : Standing(t) = "succeeded"
        /\ \/ /\ StepOf(e) \in job[r].done
              /\ Store!TouchRun(r)
              /\ Proceed(e, onward)
              /\ UNCHANGED job
           \/ /\ StepOf(e) \notin job[r].done
              /\ Store!UpdateRunStep(r)
              /\ job' = [job EXCEPT ![r].done = @ \cup {StepOf(e)}]
              /\ Proceed(e, onward)
           \/ StepOf(e) \notin job[r].done /\ Refused(e)
        /\ UNCHANGED <<tasks, code, bundle, poc, faults>>

\* Mutated form of StepAttach: an execution never adopts the coder of another.
StepAttachNever(e) ==
    /\ At(e, "step")
    /\ \E t \in NewestOfStep(e) : Standing(t) \in {"running", "given up"}
    /\ Store!TouchRun(execs[e].run)
    /\ Goto(e, "begin")
    /\ UNCHANGED <<job, tasks, code, bundle, poc, faults>>

\* An in-flight coder, fired by whichever execution, is waited for.
StepAttach(e) ==
    /\ At(e, "step")
    /\ \E t \in NewestOfStep(e) :
          /\ Standing(t) = "running"
          /\ Proceed(e, [execs[e] EXCEPT !.task = t])
    /\ Store!TouchRun(execs[e].run)
    /\ UNCHANGED <<job, tasks, code, bundle, poc, faults>>

\* A coder past its ceiling is given up and its step begun anew.
StepGiveUp(e) ==
    /\ At(e, "step")
    /\ \E t \in NewestOfStep(e) :
          /\ Standing(t) = "given up"
          /\ tasks' = Finish(t, "failed")
    /\ Store!TouchRun(execs[e].run)
    /\ Goto(e, "begin")
    /\ UNCHANGED <<job, code, bundle, poc, faults>>

BeginTask(e) ==
    LET r == execs[e].run IN
    /\ At(e, "begin")
    /\ \E t \in TaskIds :
          /\ \A u \in TaskIds : tasks[u].run # 0 <=> u < t
          /\ tasks' = [tasks EXCEPT ![t] = [NoTask EXCEPT !.run = r, !.step = StepOf(e),
                                              !.ver = execs[e].ver, !.status = "running",
                                              !.coder = "unfired"]]
          /\ \/ /\ Store!UpdateRunStep(r)
                /\ execs' = [execs EXCEPT ![e].pc = "fire", ![e].task = t]
                /\ UNCHANGED job
             \/ Refused(e)
    /\ UNCHANGED <<code, bundle, poc, faults>>

(* FIRE the coder and disconnect.  A timeout and a 504 both mean "started", *)
(* whether or not the coder runs; any other failure fails the step.        *)

FireCoder(e) ==
    /\ At(e, "fire")
    /\ \/ /\ tasks' = [tasks EXCEPT ![execs[e].task].coder = "fired"]
          /\ UNCHANGED faults
       \/ /\ tasks' = [tasks EXCEPT ![execs[e].task].coder = "gone"]     \* swallowed
          /\ Fault
    /\ Proceed(e, execs[e])
    /\ UNCHANGED <<runs, job, code, bundle, poc>>

\* The invoke raises; a 502 raises too and says nothing of the coder behind it.
FireRaises(e, started) ==
    LET t == execs[e].task IN
    /\ At(e, "fire")
    /\ Fault
    /\ tasks' = [Finish(t, "failed") EXCEPT ![t].coder = IF started THEN "fired" ELSE "gone"]
    /\ RecordFailure(e) \/ Refused(e)
    /\ UNCHANGED <<code, bundle, poc>>

(* orch_wait_task: one bounded, heartbeating wait on the task document.    *)

\* The window closes with the coder still at work; the budget may now be spent.
WaitWindow(e, spent) ==
    /\ At(e, "wait")
    /\ tasks[execs[e].task].status = "running"
    /\ ~tasks[execs[e].task].old
    /\ Store!TouchRun(execs[e].run)
    /\ Proceed(e, [execs[e] EXCEPT !.spent = spent])
    /\ UNCHANGED <<job, tasks, code, bundle, poc, faults>>

\* Mutated form of WaitEnds: a coder past its ceiling counts as done.
WaitEndsOptimistic(e) ==
    LET t == tasks[execs[e].task] IN
    /\ At(e, "wait")
    /\ \/ (t.status = "succeeded" \/ t.old) /\ Goto(e, "endok")
       \/ t.status = "failed" /\ Goto(e, "endfail")
    /\ Store!TouchRun(execs[e].run)
    /\ UNCHANGED <<job, tasks, code, bundle, poc, faults>>

\* It sees the outcome the coder marked, or the ceiling.
WaitEnds(e) ==
    LET t == tasks[execs[e].task] IN
    /\ At(e, "wait")
    /\ \/ t.status = "succeeded" /\ Goto(e, "endok")
       \/ (t.status = "failed" \/ (t.status = "running" /\ t.old)) /\ Goto(e, "endfail")
    /\ Store!TouchRun(execs[e].run)
    /\ UNCHANGED <<job, tasks, code, bundle, poc, faults>>

\* orch_end_task writes what the wait saw, whatever the task says by now.
EndTaskSucceeded(e, spent) ==
    LET r == execs[e].run IN
    /\ At(e, "endok")
    /\ tasks' = Finish(execs[e].task, "succeeded")
    /\ \/ /\ Store!UpdateRunStep(r)
          /\ job' = [job EXCEPT ![r].done = @ \cup {StepOf(e)}]
          /\ Proceed(e, [execs[e] EXCEPT !.idx = @ + 1, !.task = 0, !.spent = spent])
       \/ Refused(e)
    /\ UNCHANGED <<code, bundle, poc, faults>>

\* Mutated form of EndTaskFailed: the word the wait returned is stored as the status.
EndTaskFailedVerbatim(e) ==
    /\ At(e, "endfail")
    /\ tasks' = Finish(execs[e].task, "timeout")
    /\ RecordFailure(e) \/ Refused(e)
    /\ UNCHANGED <<code, bundle, poc, faults>>

EndTaskFailed(e) ==
    /\ At(e, "endfail")
    /\ tasks' = Finish(execs[e].task, "failed")
    /\ RecordFailure(e) \/ Refused(e)
    /\ UNCHANGED <<code, bundle, poc, faults>>

\* Mutated form of HandOver: the execution that handed over does not end.
HandOverGoesOn(e) ==
    /\ At(e, "handover")
    /\ Store!TouchRun(execs[e].run)
    /\ Proceed(e, [execs[e] EXCEPT !.spent = FALSE])
    /\ UNCHANGED <<job, tasks, code, bundle, poc, faults>>

\* Everything is persisted: fire continue_run as a new root session and end here.
HandOver(e) ==
    /\ At(e, "handover")
    /\ Store!TouchRun(execs[e].run)
    /\ Stop(e)
    /\ UNCHANGED <<job, tasks, code, bundle, poc, faults>>

\* The fire fails: carry on here, with a new budget.
HandOverFails(e) ==
    /\ At(e, "handover")
    /\ Fault
    /\ Store!TouchRun(execs[e].run)
    /\ Proceed(e, [execs[e] EXCEPT !.spent = FALSE])
    /\ UNCHANGED <<job, tasks, code, bundle, poc>>

(* orch_assemble bundles what lies under the stored version; a run that    *)
(* already recorded its bundle reuses it.                                  *)
Assemble(e) ==
    LET r == execs[e].run
        v == job[r].ver
    IN  /\ At(e, "assemble")
        /\ \/ /\ Store!UpdateRunStep(r)
              /\ ~job[r].bundled
              /\ bundle' = [bundle EXCEPT ![v] = [made |-> TRUE, files |-> code[v]]]
              /\ Goto(e, "record")
           \/ /\ Store!UpdateRunStep(r)
              /\ job[r].bundled
              /\ Goto(e, "publish")
              /\ UNCHANGED bundle
           \/ /\ ~Store!MayOccupy(r, "code")     \* caught here: ASSEMBLE_FAILED
              /\ Goto(e, "fail")
              /\ UNCHANGED <<runs, bundle>>
        /\ UNCHANGED <<job, tasks, code, poc, faults>>

\* A guardrail violation, an oversized bundle or a storage error.
AssembleFails(e) ==
    /\ \/ At(e, "assemble") /\ Store!UpdateRunStep(execs[e].run)
       \/ At(e, "assemble") /\ UNCHANGED runs
       \/ At(e, "record") /\ UNCHANGED runs
    /\ Fault
    /\ Goto(e, "fail")
    /\ UNCHANGED <<job, tasks, code, bundle, poc>>

RecordBundle(e) ==
    LET r == execs[e].run IN
    /\ At(e, "record")
    /\ job' = [job EXCEPT ![r].bundled = TRUE]
    /\ \/ Store!UpdateRunStep(r) /\ Goto(e, "publish")
       \/ ~Store!MayOccupy(r, "code") /\ Store!TouchRun(r) /\ Goto(e, "fail")
    /\ UNCHANGED <<tasks, code, bundle, poc, faults>>

(* orch_finalize: the POC first, the run after it; a failed run the other  *)
(* way round.                                                              *)
Publish(e) ==
    /\ At(e, "publish")
    /\ poc' = [poc EXCEPT !.code = job[execs[e].run].ver, !.status = "code_ready"]
    /\ Goto(e, "finish")
    /\ UNCHANGED <<runs, job, tasks, code, bundle, faults>>

FinishSucceeded(e) ==
    /\ At(e, "finish")
    /\ Store!FinishRun(execs[e].run, "succeeded")
    /\ Stop(e)
    /\ UNCHANGED <<job, tasks, code, bundle, poc, faults>>

FinishFailed(e) ==
    /\ At(e, "fail")
    /\ Store!FinishRun(execs[e].run, "failed")
    /\ Goto(e, "failpoc")
    /\ UNCHANGED <<job, tasks, code, bundle, poc, faults>>

FailPoc(e) ==
    /\ At(e, "failpoc")
    /\ poc' = [poc EXCEPT !.status = "code_failed"]
    /\ Stop(e)
    /\ UNCHANGED <<runs, job, tasks, code, bundle, faults>>

\* The platform kills an execution at its wall-clock cap, or a pod is lost.
Die(e) ==
    /\ ~At(e, "off")
    /\ Fault
    /\ Stop(e)
    /\ UNCHANGED <<runs, job, tasks, code, bundle, poc>>

-----------------------------------------------------------------------------
(* Coders, each in a root session of its own                               *)

HasInputs(t) == ReadsContract(tasks[t].step) => code[tasks[t].ver]["contract"] # Missing

CoderReads(t) ==
    /\ tasks[t].coder = "fired"
    /\ HasInputs(t)
    /\ tasks' = [tasks EXCEPT ![t].coder = "working",
                              ![t].read = IF ReadsContract(tasks[t].step)
                                          THEN code[tasks[t].ver]["contract"].by ELSE 0]
    /\ UNCHANGED <<runs, job, code, bundle, poc, execs, faults>>

CoderWrites(t) ==
    /\ tasks[t].coder = "working"
    /\ code' = [code EXCEPT ![tasks[t].ver][tasks[t].step] = [by |-> t, con |-> tasks[t].read]]
    /\ tasks' = [tasks EXCEPT ![t].coder = "wrote"]
    /\ UNCHANGED <<runs, job, bundle, poc, execs, faults>>

\* Mutated form of CoderMarks: the task is marked before the upload.
CoderMarksEarly(t) ==
    /\ tasks[t].coder = "working"
    /\ tasks' = [tasks EXCEPT ![t].status = "succeeded", ![t].coder = "gone"]
    /\ UNCHANGED <<runs, job, code, bundle, poc, execs, faults>>

CoderMarks(t) ==
    /\ tasks[t].coder = "wrote"
    /\ tasks' = [tasks EXCEPT ![t].status = "succeeded", ![t].coder = "gone"]
    /\ UNCHANGED <<runs, job, code, bundle, poc, execs, faults>>

\* An error, a missing input for one, is marked too.
CoderFails(t) ==
    /\ tasks[t].coder \in {"fired", "working"}
    /\ (tasks[t].coder = "fired" /\ ~HasInputs(t) /\ UNCHANGED faults) \/ Fault
    /\ tasks' = [tasks EXCEPT ![t].status = "failed", ![t].coder = "gone"]
    /\ UNCHANGED <<runs, job, code, bundle, poc, execs>>

\* It is killed, or its marking is lost: nobody hears of it again.
CoderVanishes(t) ==
    /\ tasks[t].coder \in {"fired", "working", "wrote"}
    /\ Fault
    /\ tasks' = [tasks EXCEPT ![t].coder = "gone"]
    /\ UNCHANGED <<runs, job, code, bundle, poc, execs>>

\* A task without an outcome passes the per-coder ceiling.
TaskAges(t) ==
    /\ tasks[t].status = "running" /\ ~tasks[t].old
    /\ tasks' = [tasks EXCEPT ![t].old = TRUE]
    /\ UNCHANGED <<runs, job, code, bundle, poc, execs, faults>>

-----------------------------------------------------------------------------
(* Clients                                                                 *)

Approve(spec) ==
    /\ spec \notin poc.approved
    /\ poc' = [poc EXCEPT !.approved = @ \cup {spec}]
    /\ UNCHANGED <<runs, job, tasks, code, bundle, execs, faults>>

Abandon(r) == Store!AbandonRun(r) /\ UNCHANGED codeVars

Client ==
    \/ \E e \in Execs :
          \/ \E spec \in Specs : StartRun(e, spec)
          \/ \E v \in Versions, failure \in Components \cup {Mismatch} : RepairRun(e, v, failure)
          \/ \E r \in RunIds : ContinueRun(e, r)
    \/ \E r \in RunIds : Abandon(r)
    \/ \E spec \in Specs : Approve(spec)

Load(e)     == LoadStored(e) \/ Allocate(e) \/ Persist(e)
StepNode(e) == StepStart(e) \/ StepDone(e) \/ StepAttach(e) \/ StepGiveUp(e) \/ BeginTask(e) \/ FireCoder(e)
WaitNode(e) == (\E spent \in BOOLEAN : WaitWindow(e, spent) \/ EndTaskSucceeded(e, spent))
               \/ WaitEnds(e) \/ EndTaskFailed(e)
EndNode(e)  == Assemble(e) \/ RecordBundle(e) \/ Publish(e) \/ FinishSucceeded(e) \/ FinishFailed(e) \/ FailPoc(e)

\* What an execution does by itself, and what can go wrong with it, but for the
\* invocations it sends to its own agent.
Works(e)  == Load(e) \/ StepNode(e) \/ WaitNode(e) \/ EndNode(e)
Breaks(e) == LoadFails(e) \/ FireRaises(e, FALSE) \/ AssembleFails(e) \/ Die(e)

Next ==
    \/ Client
    \/ \E e \in Execs :
          Works(e) \/ Breaks(e) \/ FireRaises(e, TRUE) \/ HandOver(e) \/ HandOverFails(e)
    \/ \E t \in TaskIds :
          CoderReads(t) \/ CoderWrites(t) \/ CoderMarks(t) \/ CoderFails(t) \/ CoderVanishes(t) \/ TaskAges(t)

Spec == Init /\ [][Next]_vars

-----------------------------------------------------------------------------
(* What holds for every client                                             *)

(* Every write the code stage makes to the runs collection is one the      *)
(* store allows, so the slot guarantee proved of the store holds here: a   *)
(* zombie execution of an abandoned run cannot take the slot back from the *)
(* run that holds it (metadata.update_run_step, reopen_run).               *)
ImplementsStore == Store!Spec

(* A task that says "succeeded" has its artefact in the version it was     *)
(* fired for: resuming execution may skip the step (orch_step_state), even *)
(* though finish_task overwrites any status with any other.                *)
DoneIsInPlace ==
    \A t \in TaskIds : tasks[t].status = "succeeded" =>
        code[tasks[t].ver][tasks[t].step] # Missing

(* A step recorded on a run was delivered: one of the run's own tasks was  *)
(* fired for a version that holds its artefact (orch_end_task and the      *)
(* re-recording in orch_step_state, by any number of executions).          *)
RecordedWasDone ==
    \A r \in RunIds : \A step \in job[r].done :
        \E t \in TasksOf(r, step) : code[tasks[t].ver][step] # Missing
=============================================================================

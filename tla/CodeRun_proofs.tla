--------------------------- MODULE CodeRun_proofs ---------------------------
(***************************************************************************)
(* The code stage keeps its documents typed and uses the runs collection   *)
(* only through the store's operations, for any number of runs, tasks,     *)
(* versions, executions and faults and for any plan.                       *)
(*                                                                         *)
(* TypeOK is not inductive.  The step a coder is fired for is read off the *)
(* plan at the execution's index, the version it writes to off the         *)
(* execution, what a repair carries over off the version it names: the     *)
(* invariant below says that an execution at a node has what that node     *)
(* reads.                                                                  *)
(***************************************************************************)
EXTENDS CodeRun, TLAPS

\* A run that exists has inputs that build_plan accepts.
Plannable(r) ==
    \/ job[r].tool = "start"
    \/ /\ job[r].tool = "repair"
       /\ job[r].prev \in Versions
       /\ job[r].failure \in Components \cup {Mismatch}

JobsPlannable == \A r \in RunIds : Store!Exists(r) => Plannable(r)

\* A coder that may still read or write knows its version.
CodersPlaced == \A t \in TaskIds : tasks[t].coder # "gone" => tasks[t].ver \in Versions

Loading  == {"load", "persist"}
AtAStep  == {"step", "begin", "fire", "wait", "endok", "endfail"}

\* An execution at a node has what the node reads: an existing run, a
\* version, a step of the plan, the task of the coder it fires.
Placed(e) ==
    /\ execs[e].run \in RunIds
    /\ Store!Exists(execs[e].run)
    /\ execs[e].pc \in Loading => execs[e].task = 0
    /\ execs[e].pc \in AtAStep \cup {"persist", "handover"} => execs[e].ver \in Versions
    /\ execs[e].pc \in AtAStep => execs[e].idx \in 1..Len(Steps(execs[e].run))
    /\ execs[e].pc = "handover" =>
          /\ execs[e].idx \in 1..(Len(Steps(execs[e].run)) + 1)
          /\ execs[e].task # 0 => execs[e].idx <= Len(Steps(execs[e].run))
    /\ execs[e].pc = "fire" =>
          execs[e].task \in TaskIds /\ tasks[execs[e].task].ver \in Versions

ExecsPlaced == \A e \in Execs : ~At(e, "off") => Placed(e)

IInv == TypeOK /\ JobsPlannable /\ CodersPlaced /\ ExecsPlaced

(***************************************************************************)
(* Plans and routes                                                        *)
(***************************************************************************)

LEMMA StepsTyped ==
    ASSUME NEW r \in RunIds, Plannable(r)
    PROVE  /\ Steps(r) \in Seq(Artefacts)
           /\ Len(Steps(r)) \in Nat
           /\ \A i \in 1..Len(Steps(r)) : Steps(r)[i] \in Artefacts
<1>1. Steps(r) \in Seq(Artefacts)
  <2>1. CASE job[r].tool = "start"
    BY <2>1, PlanAssumption DEF Steps, PlanSteps, Artefacts
  <2>2. CASE job[r].tool = "repair" /\ job[r].failure = Mismatch
    BY <2>2, PlanAssumption DEF Steps, PlanSteps, Regenerated, Artefacts
  <2>3. CASE job[r].tool = "repair" /\ job[r].failure # Mismatch
    BY <2>3 DEF Plannable, Steps, PlanSteps, Regenerated, Artefacts
  <2> QED
    BY <2>1, <2>2, <2>3 DEF Plannable
<1> QED
  BY <1>1

Routable(x) ==
    /\ x \in Exec
    /\ x.run \in RunIds
    /\ Store!Exists(x.run)
    /\ x.ver \in Versions
    /\ x.idx \in 1..(Len(Steps(x.run)) + 1)
    /\ x.task # 0 => x.idx <= Len(Steps(x.run))

LEMMA RouteFacts ==
    ASSUME NEW x, Routable(x), Len(Steps(x.run)) \in Nat
    PROVE  /\ Route(x) \in Exec
           /\ Route(x).run = x.run /\ Route(x).ver = x.ver
           /\ Route(x).idx = x.idx /\ Route(x).task = x.task
           /\ Route(x).pc \in {"handover", "wait", "assemble", "step"}
           /\ Route(x).pc \in {"wait", "step"} => x.idx \in 1..Len(Steps(x.run))
<1> DEFINE pc == CASE x.spent -> "handover"
                   [] ~x.spent /\ x.task # 0 -> "wait"
                   [] ~x.spent /\ x.task = 0 /\ x.idx > Len(Steps(x.run)) -> "assemble"
                   [] OTHER -> "step"
<1>1. Route(x) = [x EXCEPT !.pc = pc]
  BY DEF Route
<1>2. x \in Exec /\ x.spent \in BOOLEAN /\ x.task \in TaskIds \cup {0} /\ x.idx \in Nat
  BY DEF Routable, Exec
<1>3. pc \in {"handover", "wait", "assemble", "step"}
  BY <1>2
<1>4. pc \in {"wait", "step"} => x.idx \in 1..Len(Steps(x.run))
  BY <1>2 DEF Routable
<1> HIDE DEF pc
<1> QED
  BY <1>1, <1>2, <1>3, <1>4 DEF Exec

(***************************************************************************)
(* The runs                                                                *)
(***************************************************************************)

\* What a step does to the runs: nothing, or one operation of the store.
RunsMove ==
    /\ [Store!Next]_runs
    /\ Store!TypeOK'
    /\ \A q \in RunIds : Store!Exists(q) <=> Store!Exists(q)'

LEMMA RunsStay == ASSUME Store!TypeOK, UNCHANGED runs PROVE RunsMove
BY DEF RunsMove, Store!TypeOK, Store!Exists

LEMMA WriteMoves ==
    ASSUME NEW r \in RunIds, NEW status \in Store!Statuses,
           Store!TypeOK, Store!Exists(r), Store!Write(r, status)
    PROVE  Store!TypeOK' /\ \A q \in RunIds : Store!Exists(q) <=> Store!Exists(q)'
BY DEF Store!TypeOK, Store!RunDoc, Store!Write, Store!Exists, Store!Statuses,
       Store!ActiveStatuses, Store!TerminalStatuses

LEMMA OperationMoves ==
    ASSUME NEW r \in RunIds, Store!TypeOK,
           \/ Store!UpdateRunStep(r)
           \/ Store!TouchRun(r)
           \/ \E status \in Store!TerminalStatuses : Store!FinishRun(r, status)
           \/ Store!AbandonRun(r)
           \/ Store!ReopenRun(r)
    PROVE  RunsMove
<1>1. Store!Next
  BY DEF Store!Next, Store!RunOperation
<1>2. /\ Store!Exists(r)
      /\ \E status \in Store!Statuses : Store!Write(r, status)
  BY DEF Store!UpdateRunStep, Store!TouchRun, Store!FinishRun, Store!AbandonRun, Store!ReopenRun,
         Store!Exists, Store!Statuses, Store!ActiveStatuses, Store!TerminalStatuses,
         Store!ReopenableStates, Store!TypeOK, Store!RunDoc
<1> QED
  BY <1>1, <1>2, WriteMoves DEF RunsMove

LEMMA CreateMoves ==
    ASSUME NEW r \in RunIds, Store!TypeOK, Store!CreateRun(r, "code")
    PROVE  /\ Store!Next /\ Store!TypeOK'
           /\ \A q \in RunIds \ {r} : Store!Exists(q) <=> Store!Exists(q)'
           /\ Store!Exists(r)' /\ ~Store!Exists(r)
<1>1. Store!Next
  BY DEF Store!Next, Store!RunOperation
<1> QED
  BY <1>1 DEF Store!CreateRun, Store!TypeOK, Store!RunDoc, Store!Exists, Store!Statuses,
              Store!ActiveStatuses, Store!TerminalStatuses

(***************************************************************************)
(* What every step but a new run does                                      *)
(***************************************************************************)

\* It changes no run's inputs, so no run's plan.
JobsMove ==
    /\ job' \in [RunIds -> Job]
    /\ \A q \in RunIds : /\ job'[q].tool = job[q].tool
                         /\ job'[q].prev = job[q].prev
                         /\ job'[q].failure = job[q].failure

\* It takes no task's version away, and no coder is without one.
TasksMove ==
    /\ tasks' \in [TaskIds -> Task]
    /\ \A t \in TaskIds : tasks[t].ver \in Versions => tasks'[t].ver \in Versions
    /\ CodersPlaced'

ObjectsTyped ==
    /\ code \in [Versions -> [Artefacts -> Artefact]]
    /\ bundle \in [Versions -> [made : BOOLEAN, files : [Artefacts -> Artefact]]]
    /\ poc \in [status : {"spec_ready", "coding", "code_ready", "code_failed"},
                code : Versions \cup {0}, approved : SUBSET Specs]
    /\ faults \in 0..MaxFaults

Moves == RunsMove /\ JobsMove /\ TasksMove /\ ObjectsTyped'

LEMMA JobsStay == ASSUME TypeOK, UNCHANGED job PROVE JobsMove
BY DEF TypeOK, JobsMove

LEMMA TasksStay == ASSUME TypeOK, CodersPlaced, UNCHANGED tasks PROVE TasksMove
BY DEF TypeOK, TasksMove, CodersPlaced

LEMMA PlansStay ==
    ASSUME JobsMove, NEW r \in RunIds
    PROVE  Steps(r)' = Steps(r) /\ (Plannable(r) => Plannable(r)')
BY DEF JobsMove, Steps, PlanSteps, Regenerated, Plannable

\* An execution that takes no part in the step stays where it was.
LEMMA OthersStay ==
    ASSUME Moves, NEW e \in Execs, Placed(e), execs'[e] = execs[e]
    PROVE  Placed(e)'
<1> DEFINE r == execs[e].run
<1>1. r \in RunIds /\ Store!Exists(r)' /\ Steps(r)' = Steps(r)
  BY PlansStay DEF Placed, Moves, RunsMove
<1>2. execs'[e].run = r
  OBVIOUS
<1>3. Steps(execs[e].run)' = Steps(execs[e].run)
  BY <1>1, <1>2 DEF Steps
<1>4. execs[e].pc = "fire" => tasks'[execs[e].task].ver \in Versions
  BY DEF Placed, Moves, TasksMove
<1> QED
  BY <1>1, <1>2, <1>3, <1>4 DEF Placed, Store!Exists

\* The invariant after a step of execution e.
LEMMA ExecutionKeeps ==
    ASSUME IInv, Moves, NEW e \in Execs, NEW x \in Exec,
           execs' = [execs EXCEPT ![e] = x], x.pc # "off" => Placed(e)'
    PROVE  IInv'
<1>1. execs' \in [Execs -> Exec] /\ execs'[e] = x
  BY DEF IInv, TypeOK
<1>2. TypeOK'
  BY <1>1 DEF TypeOK, Moves, RunsMove, JobsMove, TasksMove, ObjectsTyped
<1>3. JobsPlannable'
  BY PlansStay DEF IInv, JobsPlannable, Moves, RunsMove
<1>4. ASSUME NEW d \in Execs, ~At(d, "off")' PROVE Placed(d)'
  <2>1. CASE d = e
    BY <1>1, <1>4, <2>1 DEF At
  <2>2. CASE d # e
    <3>1. execs'[d] = execs[d]
      BY <2>2 DEF IInv, TypeOK
    <3> QED
      BY <1>4, <3>1, OthersStay DEF IInv, ExecsPlaced, At
  <2> QED
    BY <2>1, <2>2
<1> QED
  BY <1>2, <1>3, <1>4 DEF IInv, ExecsPlaced, Moves, TasksMove

\* The invariant after a step of a coder, or of a client.
LEMMA OthersKeep ==
    ASSUME IInv, Moves, UNCHANGED execs
    PROVE  IInv'
<1>1. TypeOK'
  BY DEF IInv, TypeOK, Moves, RunsMove, JobsMove, TasksMove, ObjectsTyped
<1>2. JobsPlannable'
  BY PlansStay DEF IInv, JobsPlannable, Moves, RunsMove
<1>3. ASSUME NEW d \in Execs, ~At(d, "off")' PROVE Placed(d)'
  BY <1>3, OthersStay DEF IInv, ExecsPlaced, At
<1> QED
  BY <1>1, <1>2, <1>3 DEF IInv, ExecsPlaced, Moves, TasksMove

LEMMA StopKeeps ==
    ASSUME IInv, Moves, NEW e \in Execs, Stop(e)
    PROVE  IInv'
<1>1. Off \in Exec /\ Off.pc = "off"
  BY DEF Off, Exec
<1> QED
  BY <1>1, ExecutionKeeps DEF Stop

LEMMA GotoKeeps ==
    ASSUME IInv, Moves, NEW e \in Execs, ~At(e, "off"), NEW pc, Goto(e, pc),
           \/ pc \in {"record", "publish", "finish", "fail", "failpoc"}
           \/ pc \in {"begin", "endok", "endfail"} /\ execs[e].pc \in AtAStep
    PROVE  IInv'
<1> DEFINE x == [execs[e] EXCEPT !.pc = pc]
<1>1. Placed(e) /\ execs[e] \in Exec
  BY DEF IInv, TypeOK, ExecsPlaced
<1>2. PICK r \in RunIds : execs[e].run = r
  BY <1>1 DEF Placed
<1>3. /\ x \in Exec /\ x.pc = pc /\ x.run = r /\ x.ver = execs[e].ver
      /\ x.idx = execs[e].idx /\ x.task = execs[e].task
  BY <1>1, <1>2 DEF Exec
<1>4. execs' = [execs EXCEPT ![e] = x] /\ execs'[e] = x
  BY DEF Goto, IInv, TypeOK
<1> HIDE DEF x
<1>5. Store!Exists(r)' /\ Steps(r)' = Steps(r)
  BY <1>1, <1>2, PlansStay DEF Placed, Moves, RunsMove
<1>6. Placed(e)'
  BY <1>1, <1>2, <1>3, <1>4, <1>5 DEF Placed, AtAStep, Loading
<1> QED
  BY <1>3, <1>4, <1>6, ExecutionKeeps

LEMMA ProceedKeeps ==
    ASSUME IInv, Moves, NEW e \in Execs, NEW x, Routable(x), Proceed(e, x)
    PROVE  IInv'
<1>1. PICK r \in RunIds : x.run = r /\ Store!Exists(r)
  BY DEF Routable
<1>2. Plannable(r) /\ Len(Steps(r)) \in Nat
  BY <1>1, StepsTyped DEF IInv, JobsPlannable
<1>3. /\ Route(x) \in Exec
      /\ Route(x).run = r /\ Route(x).ver = x.ver
      /\ Route(x).idx = x.idx /\ Route(x).task = x.task
      /\ Route(x).pc \in {"handover", "wait", "assemble", "step"}
      /\ Route(x).pc \in {"wait", "step"} => x.idx \in 1..Len(Steps(r))
  BY <1>1, <1>2, RouteFacts
<1>4. execs' = [execs EXCEPT ![e] = Route(x)] /\ execs'[e] = Route(x)
  BY DEF Proceed, IInv, TypeOK
<1>5. Store!Exists(r)' /\ Steps(r)' = Steps(r)
  BY <1>1, PlansStay DEF Moves, RunsMove
<1>6. Placed(e)'
  BY <1>1, <1>3, <1>4, <1>5 DEF Placed, AtAStep, Loading, Routable
<1> QED
  BY <1>3, <1>4, <1>6, ExecutionKeeps

(***************************************************************************)
(* Executions                                                              *)
(***************************************************************************)

\* What an execution at a node can rely on.
LEMMA PlacedFacts ==
    ASSUME IInv, NEW e \in Execs, ~At(e, "off")
    PROVE  /\ Placed(e) /\ execs[e] \in Exec
           /\ execs[e].run \in RunIds /\ Store!Exists(execs[e].run)
           /\ Store!TypeOK
           /\ Plannable(execs[e].run)
           /\ Len(Steps(execs[e].run)) \in Nat
           /\ execs[e].pc \in AtAStep => StepOf(e) \in Artefacts
<1>1. Placed(e) /\ execs[e] \in Exec /\ execs[e].run \in RunIds /\ Store!Exists(execs[e].run)
  BY DEF IInv, TypeOK, ExecsPlaced, Placed
<1>2. Plannable(execs[e].run)
  BY <1>1 DEF IInv, JobsPlannable
<1> QED
  BY <1>1, <1>2, StepsTyped DEF IInv, TypeOK, Placed, StepOf

\* A refused write, or a fault that kills the execution.
LEMMA StoppedKeeps ==
    ASSUME IInv, NEW e \in Execs, UNCHANGED <<runs, job>>, TasksMove, ObjectsTyped', Stop(e)
    PROVE  IInv' /\ Moves
BY RunsStay, JobsStay, StopKeeps DEF Moves, IInv, TypeOK

LEMMA ObjectsStay ==
    ASSUME TypeOK, UNCHANGED <<code, bundle, poc, faults>>
    PROVE  ObjectsTyped'
BY DEF TypeOK, ObjectsTyped

LEMMA LoadStoredKeeps ==
    ASSUME IInv, NEW e \in Execs, LoadStored(e)
    PROVE  IInv' /\ Moves
<1> DEFINE x == [execs[e] EXCEPT !.ver = job[execs[e].run].ver, !.idx = 1]
<1>1. ~At(e, "off") /\ At(e, "load")
  BY DEF LoadStored, At
<1>2. RunsMove
  BY <1>1, PlacedFacts, OperationMoves DEF LoadStored
<1>3. Moves
  BY <1>2, JobsStay, TasksStay, ObjectsStay DEF LoadStored, Moves, IInv
<1>4. job[execs[e].run].ver \in Versions
  BY <1>1, PlacedFacts DEF LoadStored, Planned, IInv, TypeOK, Job
<1>5. Routable(x)
  <2>1. /\ x \in Exec /\ x.run = execs[e].run /\ x.task = execs[e].task /\ x.idx = 1
        /\ x.ver = job[execs[e].run].ver
    BY <1>1, <1>4, PlacedFacts DEF Exec
  <2> HIDE DEF x
  <2> QED
    BY <1>1, <1>4, <2>1, PlacedFacts DEF Routable, Placed, At, Loading
<1>6. Proceed(e, x)
  BY DEF LoadStored
<1> HIDE DEF x
<1> QED
  BY <1>2, <1>3, <1>5, <1>6, ProceedKeeps

LEMMA FaultCounted ==
    ASSUME TypeOK, Fault
    PROVE  faults' \in 0..MaxFaults
BY CodeAssumption DEF TypeOK, Fault

LEMMA ObjectsFault ==
    ASSUME TypeOK, Fault, UNCHANGED <<code, bundle, poc>>
    PROVE  ObjectsTyped'
BY FaultCounted DEF TypeOK, ObjectsTyped

\* Writes of one document that leave a run's inputs and a task's version alone.
LEMMA JobWrites ==
    ASSUME TypeOK, NEW r \in RunIds, NEW j \in Job, job' = [job EXCEPT ![r] = j],
           j.tool = job[r].tool, j.prev = job[r].prev, j.failure = job[r].failure
    PROVE  JobsMove
BY DEF TypeOK, JobsMove

LEMMA DoneMoves ==
    ASSUME TypeOK, NEW r \in RunIds, NEW done \in SUBSET Artefacts,
           job' = [job EXCEPT ![r].done = done]
    PROVE  JobsMove
<1> DEFINE j == [job[r] EXCEPT !.done = done]
<1>1. job[r] \in Job
  BY DEF TypeOK
<1>2. j \in Job /\ j.tool = job[r].tool /\ j.prev = job[r].prev /\ j.failure = job[r].failure
  BY <1>1 DEF Job
<1>3. job' = [job EXCEPT ![r] = j]
  OBVIOUS
<1> HIDE DEF j
<1> QED
  BY <1>2, <1>3, JobWrites

LEMMA TaskWrites ==
    ASSUME TypeOK, CodersPlaced, NEW t \in TaskIds, NEW u \in Task, tasks' = [tasks EXCEPT ![t] = u],
           tasks[t].ver \in Versions => u.ver \in Versions,
           u.coder # "gone" => u.ver \in Versions
    PROVE  TasksMove
BY DEF TypeOK, TasksMove, CodersPlaced

LEMMA FinishMoves ==
    ASSUME TypeOK, CodersPlaced, NEW t \in TaskIds \cup {0},
           NEW status \in {"succeeded", "failed"}, tasks' = Finish(t, status)
    PROVE  TasksMove
<1>1. CASE t = 0
  <2>1. tasks' = tasks
    BY <1>1 DEF TypeOK, Finish, TaskIds
  <2> QED
    BY <2>1, TasksStay
<1>2. CASE t \in TaskIds
  <2> DEFINE u == [tasks[t] EXCEPT !.status = status]
  <2>1. tasks[t] \in Task
    BY <1>2 DEF TypeOK
  <2>2. u \in Task /\ u.ver = tasks[t].ver /\ u.coder = tasks[t].coder
    BY <2>1 DEF Task
  <2>3. tasks' = [tasks EXCEPT ![t] = u]
    BY DEF Finish
  <2> HIDE DEF u
  <2> QED
    BY <1>2, <2>2, <2>3, TaskWrites DEF CodersPlaced
<1> QED
  BY <1>1, <1>2

LEMMA AllocateKeeps ==
    ASSUME IInv, NEW e \in Execs, Allocate(e)
    PROVE  IInv' /\ Moves
<1> DEFINE j == job[execs[e].run]
           kept == CarriedOver(j.tool, j.failure)
<1>1. ~At(e, "off") /\ At(e, "load")
  BY DEF Allocate, At
<1>2. PICK v \in Versions :
         /\ code' = [code EXCEPT ![v] = [a \in Artefacts |-> IF a \in kept THEN code[j.prev][a]
                                                             ELSE Missing]]
         /\ execs' = [execs EXCEPT ![e].pc = "persist", ![e].ver = v]
  BY DEF Allocate
<1>3. kept # {} => j.prev \in Versions
  BY <1>1, PlacedFacts DEF Plannable, CarriedOver
<1>4. code' \in [Versions -> [Artefacts -> Artefact]]
  <2>1. Missing \in Artefact
    BY DEF Missing, Artefact
  <2> HIDE DEF kept, j
  <2> QED
    BY <1>2, <1>3, <2>1 DEF IInv, TypeOK
<1>5. ObjectsTyped'
  BY <1>4 DEF ObjectsTyped, IInv, TypeOK, Allocate
<1>6. RunsMove /\ Moves
  BY <1>5, RunsStay, JobsStay, TasksStay DEF Allocate, Moves, IInv, TypeOK
<1> DEFINE x == [execs[e] EXCEPT !.pc = "persist", !.ver = v]
<1>7. /\ x \in Exec /\ x.pc = "persist" /\ x.ver = v
      /\ x.run = execs[e].run /\ x.task = execs[e].task
  BY <1>1, <1>2, PlacedFacts DEF Exec
<1>8. execs' = [execs EXCEPT ![e] = x] /\ execs'[e] = x
  BY <1>2 DEF IInv, TypeOK
<1>9. PICK r \in RunIds : execs[e].run = r
  BY <1>1, PlacedFacts
<1> HIDE DEF x
<1>10. Placed(e)'
  <2>1. Store!Exists(r)' /\ execs[e].task = 0
    BY <1>1, <1>6, <1>9, PlacedFacts DEF RunsMove, Placed, At, Loading
  <2> QED
    BY <1>2, <1>7, <1>8, <1>9, <2>1 DEF Placed, AtAStep, Loading
<1> QED
  BY <1>6, <1>7, <1>8, <1>10, ExecutionKeeps

LEMMA PersistKeeps ==
    ASSUME IInv, NEW e \in Execs, Persist(e)
    PROVE  IInv' /\ Moves
<1> DEFINE x == [execs[e] EXCEPT !.idx = 1]
<1>1. ~At(e, "off") /\ At(e, "persist")
  BY DEF Persist, At
<1>2. execs[e].ver \in Versions /\ execs[e].task = 0
  BY <1>1, PlacedFacts DEF Placed, At, Loading
<1>3. RunsMove
  BY <1>1, PlacedFacts, OperationMoves DEF Persist
<1>4. JobsMove
  <2> DEFINE r == execs[e].run
             j == [job[r] EXCEPT !.ver = execs[e].ver]
  <2>1. r \in RunIds /\ job[r] \in Job
    BY <1>1, PlacedFacts DEF IInv, TypeOK
  <2>2. j \in Job /\ j.tool = job[r].tool /\ j.prev = job[r].prev /\ j.failure = job[r].failure
    BY <1>2, <2>1 DEF Job
  <2>3. job' = [job EXCEPT ![r] = j]
    BY DEF Persist
  <2> HIDE DEF j
  <2> QED
    BY <2>1, <2>2, <2>3, JobWrites DEF IInv
<1>5. Moves
  BY <1>3, <1>4, TasksStay, ObjectsStay DEF Persist, Moves, IInv
<1>6. /\ x \in Exec /\ x.run = execs[e].run /\ x.task = 0 /\ x.idx = 1
      /\ x.ver = execs[e].ver
  BY <1>1, <1>2, PlacedFacts DEF Exec
<1>7. Proceed(e, x)
  BY DEF Persist
<1> HIDE DEF x
<1>8. Routable(x)
  BY <1>1, <1>2, <1>6, PlacedFacts DEF Routable
<1> QED
  BY <1>3, <1>5, <1>7, <1>8, ProceedKeeps

LEMMA LoadFailsKeeps ==
    ASSUME IInv, NEW e \in Execs, LoadFails(e)
    PROVE  IInv' /\ Moves
<1>1. ~At(e, "off") /\ Goto(e, "fail")
  BY DEF LoadFails, At
<1>2. RunsMove /\ JobsMove /\ TasksMove
  BY RunsStay, JobsStay, TasksStay DEF LoadFails, IInv, TypeOK
<1>3. ObjectsTyped'
  BY ObjectsStay, ObjectsFault DEF LoadFails, IInv
<1> QED
  BY <1>1, <1>2, <1>3, GotoKeeps DEF Moves

LEMMA StepStartKeeps ==
    ASSUME IInv, NEW e \in Execs, StepStart(e)
    PROVE  IInv' /\ Moves
<1>1. ~At(e, "off") /\ execs[e].pc \in AtAStep /\ Goto(e, "begin")
  BY DEF StepStart, At, AtAStep
<1>2. RunsMove
  BY <1>1, PlacedFacts, OperationMoves DEF StepStart
<1>3. Moves
  BY <1>2, JobsStay, TasksStay, ObjectsStay DEF StepStart, Moves, IInv
<1> QED
  BY <1>1, <1>2, <1>3, GotoKeeps

\* The next step of the plan, with no coder to wait for.
LEMMA OnwardKeeps ==
    ASSUME IInv, Moves, NEW e \in Execs, execs[e].pc \in AtAStep, NEW spent \in BOOLEAN,
           Proceed(e, [execs[e] EXCEPT !.idx = @ + 1, !.task = 0, !.spent = spent])
    PROVE  IInv'
<1> DEFINE x == [execs[e] EXCEPT !.idx = @ + 1, !.task = 0, !.spent = spent]
<1>1. ~At(e, "off")
  BY DEF At, AtAStep
<1>2. /\ execs[e].ver \in Versions
      /\ execs[e].idx \in 1..Len(Steps(execs[e].run))
  BY <1>1, PlacedFacts DEF Placed
<1>3. /\ x \in Exec /\ x.run = execs[e].run /\ x.task = 0 /\ x.idx = execs[e].idx + 1
      /\ x.ver = execs[e].ver
  <2>1. execs[e] \in Exec
    BY <1>1, PlacedFacts
  <2>2. execs[e].idx + 1 \in Nat
    BY <2>1 DEF Exec
  <2> QED
    BY <2>1, <2>2 DEF Exec
<1> HIDE DEF x
<1>4. Routable(x)
  BY <1>1, <1>2, <1>3, PlacedFacts DEF Routable
<1> QED
  BY <1>4, ProceedKeeps DEF x

LEMMA StepDoneKeeps ==
    ASSUME IInv, NEW e \in Execs, StepDone(e)
    PROVE  IInv' /\ Moves
<1> DEFINE r == execs[e].run
           onward == [execs[e] EXCEPT !.idx = @ + 1, !.task = 0]
<1>1. ~At(e, "off") /\ execs[e].pc \in AtAStep
  BY DEF StepDone, At, AtAStep
<1>2. TasksMove /\ ObjectsTyped'
  BY TasksStay, ObjectsStay DEF StepDone, IInv
<1>3. onward = [execs[e] EXCEPT !.idx = @ + 1, !.task = 0, !.spent = execs[e].spent]
  BY <1>1, PlacedFacts DEF Exec
<1>4. CASE Store!TouchRun(r) /\ Proceed(e, onward) /\ UNCHANGED job
  <2>1. RunsMove /\ Moves
    BY <1>1, <1>2, <1>4, PlacedFacts, OperationMoves, JobsStay DEF Moves, IInv
  <2> QED
    BY <1>1, <1>3, <1>4, <2>1, PlacedFacts, OnwardKeeps DEF Exec
<1>5. CASE /\ Store!UpdateRunStep(r)
           /\ job' = [job EXCEPT ![r].done = @ \cup {StepOf(e)}]
           /\ Proceed(e, onward)
  <2>1. RunsMove
    BY <1>1, <1>5, PlacedFacts, OperationMoves
  <2>2. job[r].done \cup {StepOf(e)} \in SUBSET Artefacts
    BY <1>1, PlacedFacts DEF IInv, TypeOK, Job
  <2>3. JobsMove
    BY <1>1, <1>5, <2>2, PlacedFacts, DoneMoves DEF IInv
  <2> QED
    BY <1>1, <1>2, <1>3, <1>5, <2>1, <2>3, PlacedFacts, OnwardKeeps DEF Moves, Exec
<1>6. CASE Refused(e)
  BY <1>2, <1>6, StoppedKeeps DEF Refused
<1> QED
  BY <1>4, <1>5, <1>6 DEF StepDone

LEMMA StepAttachKeeps ==
    ASSUME IInv, NEW e \in Execs, StepAttach(e)
    PROVE  IInv' /\ Moves
<1>1. ~At(e, "off") /\ execs[e].pc \in AtAStep
  BY DEF StepAttach, At, AtAStep
<1>2. RunsMove
  BY <1>1, PlacedFacts, OperationMoves DEF StepAttach
<1>3. Moves
  BY <1>2, JobsStay, TasksStay, ObjectsStay DEF StepAttach, Moves, IInv
<1>4. PICK t \in TaskIds : Proceed(e, [execs[e] EXCEPT !.task = t])
  BY DEF StepAttach, NewestOfStep, Newest, TasksOf
<1> DEFINE x == [execs[e] EXCEPT !.task = t]
<1>5. /\ x \in Exec /\ x.run = execs[e].run /\ x.task = t /\ x.idx = execs[e].idx
      /\ x.ver = execs[e].ver
  BY <1>1, PlacedFacts DEF Exec
<1>6. Proceed(e, x)
  BY <1>4
<1> HIDE DEF x
<1>7. Routable(x)
  BY <1>1, <1>5, PlacedFacts DEF Routable, Placed
<1> QED
  BY <1>2, <1>3, <1>6, <1>7, ProceedKeeps

LEMMA StepGiveUpKeeps ==
    ASSUME IInv, NEW e \in Execs, StepGiveUp(e)
    PROVE  IInv' /\ Moves
<1>1. ~At(e, "off") /\ execs[e].pc \in AtAStep /\ Goto(e, "begin")
  BY DEF StepGiveUp, At, AtAStep
<1>2. RunsMove
  BY <1>1, PlacedFacts, OperationMoves DEF StepGiveUp
<1>3. TasksMove
  <2>1. PICK t \in TaskIds : tasks' = Finish(t, "failed")
    BY DEF StepGiveUp, NewestOfStep, Newest, TasksOf
  <2> QED
    BY <2>1, FinishMoves DEF IInv
<1>4. Moves
  BY <1>2, <1>3, JobsStay, ObjectsStay DEF StepGiveUp, Moves, IInv
<1> QED
  BY <1>1, <1>2, <1>4, GotoKeeps

LEMMA BeginTaskKeeps ==
    ASSUME IInv, NEW e \in Execs, BeginTask(e)
    PROVE  IInv' /\ Moves
<1> DEFINE r == execs[e].run
           v == execs[e].ver
           s == StepOf(e)
<1>1. ~At(e, "off") /\ execs[e].pc \in AtAStep
  BY DEF BeginTask, At, AtAStep
<1>2. r \in RunIds /\ v \in Versions /\ s \in Artefacts
  BY <1>1, PlacedFacts DEF Placed
<1>3. PICK t \in TaskIds :
         /\ tasks' = [tasks EXCEPT ![t] = [NoTask EXCEPT !.run = r, !.step = s, !.ver = v,
                                             !.status = "running", !.coder = "unfired"]]
         /\ \/ /\ Store!UpdateRunStep(r)
               /\ execs' = [execs EXCEPT ![e].pc = "fire", ![e].task = t]
               /\ UNCHANGED job
            \/ Refused(e)
  BY DEF BeginTask
<1> DEFINE u == [NoTask EXCEPT !.run = r, !.step = s, !.ver = v, !.status = "running",
                               !.coder = "unfired"]
<1>4. u \in Task /\ u.ver = v
  <2> HIDE DEF r, v, s
  <2> QED
    BY <1>2 DEF NoTask, Task
<1>5. tasks' = [tasks EXCEPT ![t] = u]
  BY <1>3
<1>6. TasksMove /\ tasks'[t].ver = v
  <2> HIDE DEF u
  <2> QED
    BY <1>2, <1>4, <1>5, TaskWrites DEF IInv, TypeOK
<1>7. ObjectsTyped'
  BY ObjectsStay DEF BeginTask, IInv
<1>8. CASE /\ Store!UpdateRunStep(r)
           /\ execs' = [execs EXCEPT ![e].pc = "fire", ![e].task = t]
           /\ UNCHANGED job
  <2> DEFINE x == [execs[e] EXCEPT !.pc = "fire", !.task = t]
  <2>1. RunsMove
    BY <1>1, <1>8, PlacedFacts, OperationMoves
  <2>2. Moves
    BY <1>6, <1>7, <1>8, <2>1, JobsStay DEF Moves, IInv
  <2>3. /\ x \in Exec /\ x.pc = "fire" /\ x.task = t
        /\ x.run = r /\ x.ver = v /\ x.idx = execs[e].idx
    BY <1>1, PlacedFacts DEF Exec
  <2>4. execs' = [execs EXCEPT ![e] = x] /\ execs'[e] = x
    BY <1>8 DEF IInv, TypeOK
  <2>5. PICK q \in RunIds : r = q
    BY <1>2
  <2>6. Store!Exists(q)' /\ Steps(q)' = Steps(q) /\ execs[e].idx \in 1..Len(Steps(q))
    BY <1>1, <2>1, <2>2, <2>5, PlacedFacts, PlansStay DEF RunsMove, Moves, Placed
  <2> HIDE DEF x
  <2>7. Placed(e)'
    BY <1>2, <1>6, <2>3, <2>4, <2>5, <2>6 DEF Placed, AtAStep, Loading
  <2> QED
    BY <2>1, <2>2, <2>3, <2>4, <2>7, ExecutionKeeps
<1>9. CASE Refused(e)
  BY <1>6, <1>7, <1>9, StoppedKeeps DEF Refused
<1> QED
  BY <1>3, <1>8, <1>9

\* An execution that goes on where it is, with or without budget.
LEMMA GoesOnKeeps ==
    ASSUME IInv, Moves, NEW e \in Execs, execs[e].pc \in AtAStep \cup {"handover"},
           NEW spent \in BOOLEAN, Proceed(e, [execs[e] EXCEPT !.spent = spent])
    PROVE  IInv'
<1> DEFINE x == [execs[e] EXCEPT !.spent = spent]
<1>1. ~At(e, "off")
  BY DEF At, AtAStep
<1>2. /\ execs[e].ver \in Versions
      /\ execs[e].idx \in 1..(Len(Steps(execs[e].run)) + 1)
      /\ execs[e].task # 0 => execs[e].idx <= Len(Steps(execs[e].run))
  BY <1>1, PlacedFacts DEF Placed, AtAStep
<1>3. /\ x \in Exec /\ x.run = execs[e].run /\ x.task = execs[e].task
      /\ x.idx = execs[e].idx /\ x.ver = execs[e].ver
  BY <1>1, PlacedFacts DEF Exec
<1> HIDE DEF x
<1>4. Routable(x)
  BY <1>1, <1>2, <1>3, PlacedFacts DEF Routable
<1> QED
  BY <1>4, ProceedKeeps DEF x

LEMMA FireCoderKeeps ==
    ASSUME IInv, NEW e \in Execs, FireCoder(e)
    PROVE  IInv' /\ Moves
<1> DEFINE t == execs[e].task
<1>1. ~At(e, "off") /\ execs[e].pc \in AtAStep /\ execs[e].pc = "fire"
  BY DEF FireCoder, At, AtAStep
<1>2. t \in TaskIds /\ tasks[t] \in Task /\ tasks[t].ver \in Versions
  BY <1>1, PlacedFacts DEF Placed, IInv, TypeOK
<1>3. TasksMove
  <2>1. PICK c \in {"fired", "gone"} : tasks' = [tasks EXCEPT ![t].coder = c]
    BY DEF FireCoder
  <2> DEFINE u == [tasks[t] EXCEPT !.coder = c]
  <2>2. u \in Task /\ u.ver = tasks[t].ver
    BY <1>2 DEF Task
  <2>3. tasks' = [tasks EXCEPT ![t] = u]
    BY <2>1
  <2> HIDE DEF u
  <2> QED
    BY <1>2, <2>2, <2>3, TaskWrites DEF IInv
<1>4. RunsMove /\ Moves
  BY <1>3, RunsStay, JobsStay, ObjectsStay, ObjectsFault DEF FireCoder, Moves, IInv, TypeOK
<1>5. execs[e] = [execs[e] EXCEPT !.spent = execs[e].spent] /\ execs[e].spent \in BOOLEAN
  BY <1>1, PlacedFacts DEF Exec
<1> QED
  BY <1>1, <1>4, <1>5, GoesOnKeeps DEF FireCoder

\* A step that failed is recorded, or its execution is refused the record.
LEMMA RecordFailureKeeps ==
    ASSUME IInv, NEW e \in Execs, execs[e].pc \in AtAStep, TasksMove, ObjectsTyped',
           RecordFailure(e) \/ Refused(e)
    PROVE  IInv' /\ Moves
<1> DEFINE r == execs[e].run
<1>1. ~At(e, "off")
  BY DEF At, AtAStep
<1>2. CASE RecordFailure(e)
  <2>1. RunsMove
    BY <1>1, <1>2, PlacedFacts, OperationMoves DEF RecordFailure
  <2>2. job[r].done \ {StepOf(e)} \in SUBSET Artefacts
    BY <1>1, PlacedFacts DEF IInv, TypeOK, Job
  <2>3. JobsMove
    BY <1>1, <1>2, <2>2, PlacedFacts, DoneMoves DEF RecordFailure, IInv
  <2> QED
    BY <1>1, <1>2, <2>1, <2>3, GotoKeeps DEF RecordFailure, Moves
<1>3. CASE Refused(e)
  BY <1>3, StoppedKeeps DEF Refused
<1> QED
  BY <1>2, <1>3

LEMMA FireRaisesKeeps ==
    ASSUME IInv, NEW e \in Execs, NEW started \in BOOLEAN, FireRaises(e, started)
    PROVE  IInv' /\ Moves
<1> DEFINE t == execs[e].task
           u == [tasks[t] EXCEPT !.status = "failed", !.coder = IF started THEN "fired" ELSE "gone"]
<1>1. execs[e].pc \in AtAStep /\ ~At(e, "off") /\ execs[e].pc = "fire"
  BY DEF FireRaises, At, AtAStep
<1>2. t \in TaskIds /\ tasks[t] \in Task /\ tasks[t].ver \in Versions
  BY <1>1, PlacedFacts DEF Placed, IInv, TypeOK
<1>3. u \in Task /\ u.ver = tasks[t].ver
  BY <1>2 DEF Task
<1>4. tasks' = [tasks EXCEPT ![t] = u]
  BY <1>2 DEF FireRaises, Finish, IInv, TypeOK
<1>5. TasksMove
  <2> HIDE DEF u
  <2> QED
    BY <1>2, <1>3, <1>4, TaskWrites DEF IInv
<1>6. ObjectsTyped'
  BY ObjectsFault DEF FireRaises, IInv
<1> QED
  BY <1>1, <1>5, <1>6, RecordFailureKeeps DEF FireRaises

LEMMA WaitWindowKeeps ==
    ASSUME IInv, NEW e \in Execs, NEW spent \in BOOLEAN, WaitWindow(e, spent)
    PROVE  IInv' /\ Moves
<1>1. ~At(e, "off") /\ execs[e].pc \in AtAStep
  BY DEF WaitWindow, At, AtAStep
<1>2. RunsMove
  BY <1>1, PlacedFacts, OperationMoves DEF WaitWindow
<1>3. Moves
  BY <1>2, JobsStay, TasksStay, ObjectsStay DEF WaitWindow, Moves, IInv
<1> QED
  BY <1>1, <1>2, <1>3, GoesOnKeeps DEF WaitWindow

LEMMA WaitEndsKeeps ==
    ASSUME IInv, NEW e \in Execs, WaitEnds(e)
    PROVE  IInv' /\ Moves
<1>1. ~At(e, "off") /\ execs[e].pc \in AtAStep
  BY DEF WaitEnds, At, AtAStep
<1>2. RunsMove
  BY <1>1, PlacedFacts, OperationMoves DEF WaitEnds
<1>3. Moves
  BY <1>2, JobsStay, TasksStay, ObjectsStay DEF WaitEnds, Moves, IInv
<1> QED
  BY <1>1, <1>2, <1>3, GotoKeeps DEF WaitEnds

LEMMA EndTaskSucceededKeeps ==
    ASSUME IInv, NEW e \in Execs, NEW spent \in BOOLEAN, EndTaskSucceeded(e, spent)
    PROVE  IInv' /\ Moves
<1> DEFINE r == execs[e].run
<1>1. ~At(e, "off") /\ execs[e].pc \in AtAStep
  BY DEF EndTaskSucceeded, At, AtAStep
<1>2. TasksMove /\ ObjectsTyped'
  <2>1. execs[e].task \in TaskIds \cup {0}
    BY <1>1, PlacedFacts DEF Exec
  <2> QED
    BY <2>1, FinishMoves, ObjectsStay DEF EndTaskSucceeded, IInv
<1>3. CASE /\ Store!UpdateRunStep(r)
           /\ job' = [job EXCEPT ![r].done = @ \cup {StepOf(e)}]
           /\ Proceed(e, [execs[e] EXCEPT !.idx = @ + 1, !.task = 0, !.spent = spent])
  <2>1. RunsMove
    BY <1>1, <1>3, PlacedFacts, OperationMoves
  <2>2. job[r].done \cup {StepOf(e)} \in SUBSET Artefacts
    BY <1>1, PlacedFacts DEF IInv, TypeOK, Job
  <2>3. JobsMove
    BY <1>1, <1>3, <2>2, PlacedFacts, DoneMoves DEF IInv
  <2> QED
    BY <1>1, <1>2, <1>3, <2>1, <2>3, OnwardKeeps DEF Moves
<1>4. CASE Refused(e)
  BY <1>2, <1>4, StoppedKeeps DEF Refused
<1> QED
  BY <1>3, <1>4 DEF EndTaskSucceeded

LEMMA EndTaskFailedKeeps ==
    ASSUME IInv, NEW e \in Execs, EndTaskFailed(e)
    PROVE  IInv' /\ Moves
<1>1. ~At(e, "off") /\ execs[e].pc \in AtAStep
  BY DEF EndTaskFailed, At, AtAStep
<1>2. execs[e].task \in TaskIds \cup {0}
  BY <1>1, PlacedFacts DEF Exec
<1>3. TasksMove /\ ObjectsTyped'
  BY <1>2, FinishMoves, ObjectsStay DEF EndTaskFailed, IInv
<1> QED
  BY <1>1, <1>3, RecordFailureKeeps DEF EndTaskFailed

LEMMA HandOverKeeps ==
    ASSUME IInv, NEW e \in Execs, HandOver(e)
    PROVE  IInv' /\ Moves
<1>1. RunsMove
  BY PlacedFacts, OperationMoves DEF HandOver, At
<1>2. Moves
  BY <1>1, JobsStay, TasksStay, ObjectsStay DEF HandOver, Moves, IInv
<1> QED
  BY <1>1, <1>2, StopKeeps DEF HandOver

LEMMA HandOverFailsKeeps ==
    ASSUME IInv, NEW e \in Execs, HandOverFails(e)
    PROVE  IInv' /\ Moves
<1>1. RunsMove
  BY PlacedFacts, OperationMoves DEF HandOverFails, At
<1>2. Moves
  BY <1>1, JobsStay, TasksStay, ObjectsFault DEF HandOverFails, Moves, IInv
<1> QED
  BY <1>1, <1>2, GoesOnKeeps DEF HandOverFails, At

LEMMA AssembleKeeps ==
    ASSUME IInv, NEW e \in Execs, Assemble(e)
    PROVE  IInv' /\ Moves
<1> DEFINE r == execs[e].run
           v == job[r].ver
<1>1. ~At(e, "off")
  BY DEF Assemble, At
<1>2. RunsMove
  BY <1>1, PlacedFacts, OperationMoves, RunsStay DEF Assemble
<1>3. ObjectsTyped'
  <2>1. CASE bundle' = [bundle EXCEPT ![v] = [made |-> TRUE, files |-> code[v]]]
    <3>1. v \in Versions => code[v] \in [Artefacts -> Artefact]
      BY DEF IInv, TypeOK
    <3>2. bundle' \in [Versions -> [made : BOOLEAN, files : [Artefacts -> Artefact]]]
      <4> HIDE DEF v
      <4> QED
        BY <2>1, <3>1 DEF IInv, TypeOK
    <3> QED
      BY <3>2 DEF Assemble, ObjectsTyped, IInv, TypeOK
  <2>2. CASE UNCHANGED bundle
    BY <2>2, ObjectsStay DEF Assemble, IInv
  <2> QED
    BY <2>1, <2>2 DEF Assemble
<1>4. Moves
  BY <1>2, <1>3, JobsStay, TasksStay DEF Assemble, Moves, IInv
<1> QED
  BY <1>1, <1>2, <1>4, GotoKeeps DEF Assemble

LEMMA AssembleFailsKeeps ==
    ASSUME IInv, NEW e \in Execs, AssembleFails(e)
    PROVE  IInv' /\ Moves
<1>1. ~At(e, "off")
  BY DEF AssembleFails, At
<1>2. RunsMove
  BY <1>1, PlacedFacts, OperationMoves, RunsStay DEF AssembleFails
<1>3. Moves
  BY <1>2, JobsStay, TasksStay, ObjectsFault DEF AssembleFails, Moves, IInv
<1> QED
  BY <1>1, <1>2, <1>3, GotoKeeps DEF AssembleFails

LEMMA RecordBundleKeeps ==
    ASSUME IInv, NEW e \in Execs, RecordBundle(e)
    PROVE  IInv' /\ Moves
<1> DEFINE r == execs[e].run
           j == [job[r] EXCEPT !.bundled = TRUE]
<1>1. ~At(e, "off")
  BY DEF RecordBundle, At
<1>2. RunsMove
  BY <1>1, PlacedFacts, OperationMoves DEF RecordBundle
<1>3. JobsMove
  <2>1. r \in RunIds /\ job[r] \in Job
    BY <1>1, PlacedFacts DEF IInv, TypeOK
  <2>2. j \in Job /\ j.tool = job[r].tool /\ j.prev = job[r].prev /\ j.failure = job[r].failure
    BY <2>1 DEF Job
  <2>3. job' = [job EXCEPT ![r] = j]
    BY DEF RecordBundle
  <2> HIDE DEF j
  <2> QED
    BY <2>1, <2>2, <2>3, JobWrites DEF IInv
<1>4. Moves
  BY <1>2, <1>3, TasksStay, ObjectsStay DEF RecordBundle, Moves, IInv
<1> QED
  BY <1>1, <1>2, <1>4, GotoKeeps DEF RecordBundle

LEMMA PublishKeeps ==
    ASSUME IInv, NEW e \in Execs, Publish(e)
    PROVE  IInv' /\ Moves
<1>1. ~At(e, "off")
  BY DEF Publish, At
<1>2. RunsMove
  BY RunsStay DEF Publish, IInv, TypeOK
<1>3. job[execs[e].run].ver \in Versions \cup {0}
  BY <1>1, PlacedFacts DEF IInv, TypeOK, Job
<1>4. ObjectsTyped'
  BY <1>3 DEF Publish, ObjectsTyped, IInv, TypeOK
<1>5. Moves
  BY <1>2, <1>4, JobsStay, TasksStay DEF Publish, Moves, IInv
<1> QED
  BY <1>1, <1>2, <1>5, GotoKeeps DEF Publish

LEMMA FinishKeeps ==
    ASSUME IInv, NEW e \in Execs, FinishSucceeded(e) \/ FinishFailed(e)
    PROVE  IInv' /\ Moves
<1>1. ~At(e, "off")
  BY DEF FinishSucceeded, FinishFailed, At
<1>2. RunsMove
  <2>1. \E status \in {"succeeded", "failed"} : Store!FinishRun(execs[e].run, status)
    BY DEF FinishSucceeded, FinishFailed
  <2>2. {"succeeded", "failed"} \subseteq Store!TerminalStatuses
    BY DEF Store!TerminalStatuses
  <2> QED
    BY <1>1, <2>1, <2>2, PlacedFacts, OperationMoves
<1>3. Moves
  BY <1>2, JobsStay, TasksStay, ObjectsStay DEF FinishSucceeded, FinishFailed, Moves, IInv
<1> QED
  BY <1>1, <1>2, <1>3, StopKeeps, GotoKeeps DEF FinishSucceeded, FinishFailed

LEMMA FailPocKeeps ==
    ASSUME IInv, NEW e \in Execs, FailPoc(e)
    PROVE  IInv' /\ Moves
<1>1. TasksMove
  BY TasksStay DEF FailPoc, IInv
<1>2. ObjectsTyped'
  BY DEF FailPoc, ObjectsTyped, IInv, TypeOK
<1> QED
  BY <1>1, <1>2, StoppedKeeps DEF FailPoc

LEMMA DieKeeps ==
    ASSUME IInv, NEW e \in Execs, Die(e)
    PROVE  IInv' /\ Moves
BY TasksStay, ObjectsFault, StoppedKeeps DEF Die, IInv

LEMMA ExecutionStep ==
    ASSUME IInv, NEW e \in Execs,
           Works(e) \/ Breaks(e) \/ FireRaises(e, TRUE) \/ HandOver(e) \/ HandOverFails(e)
    PROVE  IInv' /\ Moves
<1>1. CASE Load(e)
  BY <1>1, LoadStoredKeeps, AllocateKeeps, PersistKeeps DEF Load
<1>2. CASE StepNode(e)
  BY <1>2, StepStartKeeps, StepDoneKeeps, StepAttachKeeps, StepGiveUpKeeps, BeginTaskKeeps,
     FireCoderKeeps DEF StepNode
<1>3. CASE WaitNode(e)
  BY <1>3, WaitWindowKeeps, WaitEndsKeeps, EndTaskSucceededKeeps, EndTaskFailedKeeps DEF WaitNode
<1>4. CASE EndNode(e)
  BY <1>4, AssembleKeeps, RecordBundleKeeps, PublishKeeps, FinishKeeps, FailPocKeeps DEF EndNode
<1>5. CASE Breaks(e)
  BY <1>5, LoadFailsKeeps, FireRaisesKeeps, AssembleFailsKeeps, DieKeeps DEF Breaks
<1>6. CASE FireRaises(e, TRUE)
  BY <1>6, FireRaisesKeeps
<1>7. CASE HandOver(e) \/ HandOverFails(e)
  BY <1>7, HandOverKeeps, HandOverFailsKeeps
<1> QED
  BY <1>1, <1>2, <1>3, <1>4, <1>5, <1>6, <1>7 DEF Works

(***************************************************************************)
(* Coders                                                                  *)
(***************************************************************************)

\* What a coder does to its task: never to the task's version.
LEMMA CoderTask ==
    ASSUME IInv, NEW t \in TaskIds, NEW u \in Task, tasks' = [tasks EXCEPT ![t] = u],
           u.ver = tasks[t].ver, u.coder # "gone" => tasks[t].coder # "gone",
           UNCHANGED <<runs, job, execs>>, ObjectsTyped'
    PROVE  IInv' /\ Moves
<1>1. TasksMove
  BY TaskWrites DEF IInv, CodersPlaced
<1>2. RunsMove /\ Moves
  BY <1>1, RunsStay, JobsStay DEF Moves, IInv, TypeOK
<1> QED
  BY <1>2, OthersKeep

LEMMA CoderReadsKeeps ==
    ASSUME IInv, NEW t \in TaskIds, CoderReads(t)
    PROVE  IInv' /\ Moves
<1> DEFINE by == IF ReadsContract(tasks[t].step) THEN code[tasks[t].ver]["contract"].by ELSE 0
           u  == [tasks[t] EXCEPT !.coder = "working", !.read = by]
<1>1. tasks[t] \in Task /\ tasks[t].ver \in Versions /\ tasks[t].coder # "gone"
  BY DEF IInv, TypeOK, CodersPlaced, CoderReads
<1>2. by \in TaskIds \cup {0}
  <2>1. code[tasks[t].ver]["contract"] \in Artefact
    BY <1>1 DEF IInv, TypeOK, Artefacts
  <2> QED
    BY <2>1 DEF Artefact
<1>3. tasks' = [tasks EXCEPT ![t] = u]
  BY DEF CoderReads
<1>4. u \in Task /\ u.ver = tasks[t].ver
  <2> HIDE DEF by
  <2> QED
    BY <1>1, <1>2 DEF Task
<1>5. ObjectsTyped' /\ UNCHANGED <<runs, job, execs>>
  BY ObjectsStay DEF CoderReads, IInv
<1> HIDE DEF u
<1> QED
  BY <1>1, <1>3, <1>4, <1>5, CoderTask

LEMMA CoderWritesKeeps ==
    ASSUME IInv, NEW t \in TaskIds, CoderWrites(t)
    PROVE  IInv' /\ Moves
<1> DEFINE u == [tasks[t] EXCEPT !.coder = "wrote"]
           a == [by |-> t, con |-> tasks[t].read]
<1>1. tasks[t] \in Task /\ tasks[t].coder # "gone"
  BY DEF IInv, TypeOK, CoderWrites
<1>2. u \in Task /\ u.ver = tasks[t].ver
  BY <1>1 DEF Task
<1>3. tasks' = [tasks EXCEPT ![t] = u]
  BY DEF CoderWrites
<1>4. a \in Artefact
  BY <1>1 DEF Artefact, Task
<1>5. code' = [code EXCEPT ![tasks[t].ver][tasks[t].step] = a]
  BY DEF CoderWrites
<1>6. code' \in [Versions -> [Artefacts -> Artefact]]
  <2> HIDE DEF a
  <2> QED
    BY <1>4, <1>5 DEF IInv, TypeOK
<1>7. ObjectsTyped' /\ UNCHANGED <<runs, job, execs>>
  BY <1>6 DEF CoderWrites, ObjectsTyped, IInv, TypeOK
<1> HIDE DEF u
<1> QED
  BY <1>1, <1>2, <1>3, <1>7, CoderTask

\* A coder ends, or its task grows old.
LEMMA CoderEnds ==
    ASSUME IInv, NEW t \in TaskIds,
           CoderMarks(t) \/ CoderFails(t) \/ CoderVanishes(t) \/ TaskAges(t)
    PROVE  IInv' /\ Moves
<1>1. tasks[t] \in Task
  BY DEF IInv, TypeOK
<1>2. ObjectsTyped' /\ UNCHANGED <<runs, job, execs>>
  BY ObjectsStay, ObjectsFault DEF CoderMarks, CoderFails, CoderVanishes, TaskAges, IInv
<1>3. CASE CoderMarks(t)
  <2> DEFINE u == [tasks[t] EXCEPT !.status = "succeeded", !.coder = "gone"]
  <2>1. u \in Task /\ u.ver = tasks[t].ver /\ u.coder = "gone"
    BY <1>1 DEF Task
  <2>2. tasks' = [tasks EXCEPT ![t] = u]
    BY <1>3 DEF CoderMarks
  <2> HIDE DEF u
  <2> QED
    BY <1>2, <2>1, <2>2, CoderTask
<1>4. CASE CoderFails(t)
  <2> DEFINE u == [tasks[t] EXCEPT !.status = "failed", !.coder = "gone"]
  <2>1. u \in Task /\ u.ver = tasks[t].ver /\ u.coder = "gone"
    BY <1>1 DEF Task
  <2>2. tasks' = [tasks EXCEPT ![t] = u]
    BY <1>4 DEF CoderFails
  <2> HIDE DEF u
  <2> QED
    BY <1>2, <2>1, <2>2, CoderTask
<1>5. CASE CoderVanishes(t)
  <2> DEFINE u == [tasks[t] EXCEPT !.coder = "gone"]
  <2>1. u \in Task /\ u.ver = tasks[t].ver /\ u.coder = "gone"
    BY <1>1 DEF Task
  <2>2. tasks' = [tasks EXCEPT ![t] = u]
    BY <1>5 DEF CoderVanishes
  <2> HIDE DEF u
  <2> QED
    BY <1>2, <2>1, <2>2, CoderTask
<1>6. CASE TaskAges(t)
  <2> DEFINE u == [tasks[t] EXCEPT !.old = TRUE]
  <2>1. u \in Task /\ u.ver = tasks[t].ver /\ u.coder = tasks[t].coder
    BY <1>1 DEF Task
  <2>2. tasks' = [tasks EXCEPT ![t] = u]
    BY <1>6 DEF TaskAges
  <2> HIDE DEF u
  <2> QED
    BY <1>2, <2>1, <2>2, CoderTask
<1> QED
  BY <1>3, <1>4, <1>5, <1>6

(***************************************************************************)
(* Clients                                                                 *)
(***************************************************************************)

\* An execution that has just entered run r.
LEMMA Entered ==
    ASSUME NEW r \in RunIds, NEW e \in Execs, TypeOK, Enter(e, r), Store!Exists(r)'
    PROVE  /\ \E x \in Exec : execs' = [execs EXCEPT ![e] = x]
           /\ Placed(e)'
<1> DEFINE x == [Off EXCEPT !.pc = "load", !.run = r]
<1>1. x \in Exec /\ x.pc = "load" /\ x.run = r /\ x.task = 0
  BY DEF Off, Exec
<1>2. execs' = [execs EXCEPT ![e] = x] /\ execs'[e] = x
  BY DEF Enter, TypeOK
<1> HIDE DEF x
<1> QED
  BY <1>1, <1>2 DEF Placed, AtAStep, Loading

\* A run that exists keeps its plan.
PlansKept == \A r \in RunIds : Store!Exists(r) => Steps(r)' = Steps(r)

LEMMA NewRunKeeps ==
    ASSUME IInv, NEW e \in Execs, NEW inputs \in Job, NewRun(e, inputs),
           \/ inputs.tool = "start"
           \/ /\ inputs.tool = "repair"
              /\ inputs.prev \in Versions
              /\ inputs.failure \in Components \cup {Mismatch}
    PROVE  IInv' /\ Store!Next /\ PlansKept
<1>1. PICK r \in RunIds : /\ Store!CreateRun(r, "code")
                          /\ job' = [job EXCEPT ![r] = inputs]
                          /\ Enter(e, r)
  BY DEF NewRun
<1>2. /\ Store!Next /\ Store!TypeOK' /\ Store!Exists(r)' /\ ~Store!Exists(r)
      /\ \A q \in RunIds \ {r} : Store!Exists(q) <=> Store!Exists(q)'
  BY <1>1, CreateMoves DEF IInv, TypeOK
<1>3. /\ job' \in [RunIds -> Job] /\ job'[r] = inputs
      /\ \A q \in RunIds \ {r} : job'[q] = job[q]
  BY <1>1 DEF IInv, TypeOK
<1>4. \E x \in Exec : execs' = [execs EXCEPT ![e] = x]
  BY <1>1, <1>2, Entered DEF IInv
<1>5. TypeOK'
  <2>1. execs' \in [Execs -> Exec]
    BY <1>4 DEF IInv, TypeOK
  <2> QED
    BY <1>2, <1>3, <2>1 DEF NewRun, IInv, TypeOK
<1>6. JobsPlannable'
  BY <1>2, <1>3 DEF IInv, JobsPlannable, Plannable
<1>7. ASSUME NEW d \in Execs, ~At(d, "off")' PROVE Placed(d)'
  <2>1. CASE d = e
    BY <1>1, <1>2, <2>1, Entered DEF IInv
  <2>2. CASE d # e
    <3>1. execs'[d] = execs[d] /\ tasks' = tasks
      BY <1>4, <2>2 DEF IInv, TypeOK, NewRun
    <3>2. Placed(d)
      BY <1>7, <3>1 DEF IInv, ExecsPlaced, At
    <3>3. PICK q \in RunIds \ {r} : execs[d].run = q /\ Store!Exists(q)
      BY <1>2, <3>2 DEF Placed
    <3>4. Store!Exists(q)' /\ Steps(q)' = Steps(q)
      BY <1>2, <1>3, <3>3 DEF Steps, PlanSteps, Regenerated
    <3> QED
      BY <3>1, <3>2, <3>3, <3>4 DEF Placed
  <2> QED
    BY <2>1, <2>2
<1>8. CodersPlaced'
  BY DEF IInv, CodersPlaced, NewRun
<1>9. PlansKept
  <2>1. \A q \in RunIds \ {r} : Steps(q)' = Steps(q)
    BY <1>3 DEF Steps, PlanSteps, Regenerated
  <2> QED
    BY <1>2, <2>1 DEF PlansKept
<1> QED
  BY <1>2, <1>5, <1>6, <1>7, <1>8, <1>9 DEF IInv, ExecsPlaced

LEMMA StartRunKeeps ==
    ASSUME IInv, NEW e \in Execs, NEW spec \in Specs, StartRun(e, spec)
    PROVE  IInv' /\ Store!Next /\ PlansKept
<1> DEFINE inputs == [NoJob EXCEPT !.tool = "start", !.spec = spec]
<1>1. inputs \in Job /\ inputs.tool = "start"
  BY DEF NoJob, Job
<1>2. NewRun(e, inputs)
  BY DEF StartRun
<1> HIDE DEF inputs
<1> QED
  BY <1>1, <1>2, NewRunKeeps

LEMMA RepairRunKeeps ==
    ASSUME IInv, NEW e \in Execs, NEW v \in Versions, NEW failure \in Components \cup {Mismatch},
           RepairRun(e, v, failure)
    PROVE  IInv' /\ Store!Next /\ PlansKept
<1> DEFINE inputs == [NoJob EXCEPT !.tool = "repair", !.prev = v, !.failure = failure]
<1>1. /\ inputs \in Job /\ inputs.tool = "repair" /\ inputs.prev = v
      /\ inputs.failure = failure
  BY DEF NoJob, Job
<1>2. NewRun(e, inputs)
  BY DEF RepairRun
<1> HIDE DEF inputs
<1> QED
  BY <1>1, <1>2, NewRunKeeps

LEMMA ContinueRunKeeps ==
    ASSUME IInv, NEW e \in Execs, NEW r \in RunIds, ContinueRun(e, r)
    PROVE  IInv' /\ Moves
<1>1. RunsMove
  BY OperationMoves DEF ContinueRun, IInv, TypeOK
<1>2. ObjectsTyped'
  BY DEF ContinueRun, ObjectsTyped, IInv, TypeOK
<1>3. Moves
  BY <1>1, <1>2, JobsStay, TasksStay DEF ContinueRun, Moves, IInv
<1>4. Store!Exists(r)
  BY DEF ContinueRun, Store!ReopenRun, Store!ReopenableStates, Store!Exists
<1>5. Store!Exists(r)'
  BY <1>1, <1>4 DEF RunsMove
<1> QED
  BY <1>1, <1>3, <1>5, Entered, ExecutionKeeps DEF ContinueRun, IInv

LEMMA AbandonKeeps ==
    ASSUME IInv, NEW r \in RunIds, Abandon(r)
    PROVE  IInv' /\ Moves
<1>1. RunsMove
  BY OperationMoves DEF Abandon, IInv, TypeOK
<1>2. Moves /\ UNCHANGED execs
  BY <1>1, JobsStay, TasksStay, ObjectsStay DEF Abandon, codeVars, Moves, IInv
<1> QED
  BY <1>1, <1>2, OthersKeep

LEMMA ApproveKeeps ==
    ASSUME IInv, NEW spec \in Specs, Approve(spec)
    PROVE  IInv' /\ Moves
<1>1. ObjectsTyped'
  BY DEF Approve, ObjectsTyped, IInv, TypeOK
<1>2. RunsMove /\ Moves /\ UNCHANGED execs
  BY <1>1, RunsStay, JobsStay, TasksStay DEF Approve, Moves, IInv, TypeOK
<1> QED
  BY <1>2, OthersKeep

(***************************************************************************)
(* The stage                                                               *)
(***************************************************************************)

LEMMA InitIInv ==
    ASSUME Init
    PROVE  IInv
<1>1. NoJob \in Job /\ NoTask \in Task /\ Off \in Exec /\ NoCode \in [Artefacts -> Artefact]
      /\ NoTask.coder = "gone" /\ Off.pc = "off"
  BY DEF NoJob, Job, NoTask, Task, Off, Exec, NoCode, Missing, Artefact
<1>2. NoBundle \in [made : BOOLEAN, files : [Artefacts -> Artefact]]
  BY <1>1 DEF NoBundle
<1>3. Store!TypeOK /\ \A r \in RunIds : ~Store!Exists(r)
  BY DEF Init, Store!Init, Store!TypeOK, Store!NoDoc, Store!RunDoc, Store!Exists
<1>4. poc \in [status : {"spec_ready", "coding", "code_ready", "code_failed"},
               code : Versions \cup {0}, approved : SUBSET Specs]
  BY DEF Init
<1>5. TypeOK
  BY <1>1, <1>2, <1>3, <1>4, CodeAssumption DEF Init, TypeOK
<1>6. JobsPlannable /\ CodersPlaced /\ ExecsPlaced
  BY <1>1, <1>3 DEF Init, JobsPlannable, CodersPlaced, ExecsPlaced, At
<1> QED
  BY <1>5, <1>6 DEF IInv

LEMMA MovesFacts == ASSUME Moves PROVE [Store!Next]_runs /\ PlansKept
<1>1. \A r \in RunIds : Steps(r)' = Steps(r)
  BY PlansStay DEF Moves
<1> QED
  BY <1>1 DEF Moves, RunsMove, PlansKept

\* Every step keeps the invariant and is, to the runs, one operation of the store.
LEMMA NextIInv ==
    ASSUME IInv, [Next]_vars
    PROVE  IInv' /\ [Store!Next]_runs /\ PlansKept
<1>1. ASSUME NEW e \in Execs,
             Works(e) \/ Breaks(e) \/ FireRaises(e, TRUE) \/ HandOver(e) \/ HandOverFails(e)
      PROVE  IInv' /\ Moves
  BY <1>1, ExecutionStep
<1>2. ASSUME NEW t \in TaskIds,
             CoderReads(t) \/ CoderWrites(t) \/ CoderMarks(t) \/ CoderFails(t)
               \/ CoderVanishes(t) \/ TaskAges(t)
      PROVE  IInv' /\ Moves
  BY <1>2, CoderReadsKeeps, CoderWritesKeeps, CoderEnds
<1>3. CASE Client
  BY <1>3, MovesFacts, StartRunKeeps, RepairRunKeeps, ContinueRunKeeps, AbandonKeeps, ApproveKeeps
     DEF Client
<1>4. CASE UNCHANGED vars
  <2>1. Moves /\ UNCHANGED execs
    BY <1>4, RunsStay, JobsStay, TasksStay, ObjectsStay DEF vars, codeVars, Moves, IInv, TypeOK
  <2> QED
    BY <2>1, OthersKeep, MovesFacts
<1> QED
  BY <1>1, <1>2, <1>3, <1>4, MovesFacts DEF Next

\* The inductive invariant: an execution at a node of the graph has what the node reads.
THEOREM Inductive == Spec => []IInv
BY InitIInv, NextIInv, PTL DEF Spec

(* The documents, objects and program counters of the code stage keep      *)
(* their types for any number of runs, tasks, versions, executions and     *)
(* faults, whatever the clients do and whatever dies.                      *)
THEOREM CodeTypeCorrect == Spec => []TypeOK
<1>1. IInv => TypeOK
  BY DEF IInv
<1> QED
  BY <1>1, Inductive, PTL

(* The code stage reaches the runs collection only through the store's     *)
(* operations and their conditions: what is proved of the store for every  *)
(* client holds here.                                                      *)
THEOREM CodeRefinesStore == Spec => ImplementsStore
<1>1. Init => Store!Init
  BY DEF Init
<1>2. IInv /\ [Next]_vars => [Store!Next]_runs
  BY NextIInv
<1> QED
  BY <1>1, <1>2, Inductive, PTL DEF Spec, ImplementsStore, Store!Spec

\* The theorems of the store, for the runs of the code stage.
Proved == INSTANCE RunStore_proofs WITH Stages <- {"code"}

(* At most one active code run, whatever zombie executions of abandoned    *)
(* runs still write.                                                       *)
THEOREM CodeSlotExclusive == Spec => []Store!OneActivePerStage
<1>0. RunIds \subseteq Nat \ {0} /\ "none" \notin {"code"}
  BY CodeAssumption DEF RunIds
<1>1. Proved!Spec => []Proved!OneActivePerStage
  BY <1>0, Proved!SlotExclusive
<1>2. Store!Init <=> Proved!Init
  BY DEF Store!Init, Proved!Init, Store!NoDoc, Proved!NoDoc
<1>3. Store!Next <=> Proved!Next
  BY DEF Store!Next, Proved!Next, Store!RunOperation, Proved!RunOperation,
         Store!CreateRun, Proved!CreateRun, Store!UpdateRunStep,
         Proved!UpdateRunStep, Store!SetRunRunning, Proved!SetRunRunning,
         Store!TouchRun, Proved!TouchRun, Store!FinishRun, Proved!FinishRun,
         Store!AbandonRun, Proved!AbandonRun, Store!ReopenRun, Proved!ReopenRun,
         Store!GoSilent, Proved!GoSilent, Store!CancelActiveRuns,
         Proved!CancelActiveRuns, Store!Write, Proved!Write, Store!Exists,
         Proved!Exists, Store!MayOccupy, Proved!MayOccupy, Store!IsActive,
         Proved!IsActive, Store!ActiveStatuses, Proved!ActiveStatuses,
         Store!ReopenableStates, Proved!ReopenableStates, Store!TerminalStatuses,
         Proved!TerminalStatuses
<1>4. Store!OneActivePerStage <=> Proved!OneActivePerStage
  BY DEF Store!OneActivePerStage, Proved!OneActivePerStage, Store!IsActive, Proved!IsActive,
     Store!ActiveStatuses, Proved!ActiveStatuses
<1> QED
  BY <1>1, <1>2, <1>3, <1>4, CodeRefinesStore, PTL DEF ImplementsStore, Store!Spec, Proved!Spec
-----------------------------------------------------------------------------
(***************************************************************************)
(* What the status of a task and the recorded steps of a run say is true   *)
(* of the objects under the version: nothing is marked or recorded before  *)
(* it was delivered, and nothing delivered is taken away.                  *)
(*                                                                         *)
(* Three facts carry it.  An artefact, once under its version, is only     *)
(* ever replaced, because a new version has nothing under it when the      *)
(* carried-over artefacts are copied there.  A task keeps its run, step    *)
(* and version.  And the task an execution waits for, adopted or fired,    *)
(* is a task of the step the execution is at, so that what it records is   *)
(* what was delivered.                                                     *)
(***************************************************************************)

InPlace(t) == code[tasks[t].ver][tasks[t].step] # Missing

\* A task that was created has a version and a step of the plan; one that was
\* not claims nothing.
TasksPlaced ==
    \A t \in TaskIds :
        /\ tasks[t].run = 0 => tasks[t].status = "absent" /\ tasks[t].coder = "gone"
        /\ tasks[t].run # 0 => tasks[t].ver \in Versions /\ tasks[t].step \in Artefacts

WritersDelivered == \A t \in TaskIds : tasks[t].coder = "wrote" => InPlace(t)

TasksTruthful == TasksPlaced /\ DoneIsInPlace /\ WritersDelivered

\* The task an execution is busy with is one of its step, delivered if the
\* execution is about to record it.
Busy(e) == \/ execs[e].pc \in {"fire", "wait", "endok", "endfail"}
           \/ execs[e].pc = "handover" /\ execs[e].task # 0

Follows(e) ==
    /\ Busy(e) => /\ execs[e].task \in TaskIds
                  /\ tasks[execs[e].task].run = execs[e].run
                  /\ tasks[execs[e].task].step = StepOf(e)
    /\ execs[e].pc = "endok" => InPlace(execs[e].task)

Delivery ==
    /\ TasksTruthful
    /\ RecordedWasDone
    /\ \A e \in Execs : Follows(e)

(***************************************************************************)
(* What every step does                                                    *)
(***************************************************************************)

CodeKept ==
    \A v \in Versions, a \in Artefacts : code[v][a] # Missing => code'[v][a] # Missing

TasksKept ==
    \A t \in TaskIds : tasks[t].run # 0 => /\ tasks'[t].run = tasks[t].run
                                           /\ tasks'[t].step = tasks[t].step
                                           /\ tasks'[t].ver = tasks[t].ver

DoneKept == \A r \in RunIds : job'[r].done \subseteq job[r].done

LEMMA Unchanged ==
    ASSUME TasksTruthful, UNCHANGED <<tasks, code>>
    PROVE  CodeKept /\ TasksKept /\ TasksTruthful'
BY DEF CodeKept, TasksKept, TasksTruthful, TasksPlaced, DoneIsInPlace, WritersDelivered, InPlace

\* A delivered task stays one.
LEMMA InPlaceKept ==
    ASSUME TasksTruthful, CodeKept, TasksKept, NEW t \in TaskIds, tasks[t].run # 0, InPlace(t)
    PROVE  InPlace(t)' /\ code'[tasks[t].ver][tasks[t].step] # Missing
BY DEF TasksTruthful, TasksPlaced, CodeKept, TasksKept, InPlace

\* A write to a task that exists, which claims nothing that was not delivered.
LEMMA TaskTouched ==
    ASSUME TypeOK, TasksTruthful, CodeKept, NEW t \in TaskIds, tasks[t].run # 0,
           NEW u, tasks' = [tasks EXCEPT ![t] = u],
           u.run = tasks[t].run, u.step = tasks[t].step, u.ver = tasks[t].ver,
           u.status = "succeeded" \/ u.coder = "wrote" =>
               InPlace(t) \/ code'[tasks[t].ver][tasks[t].step] # Missing
    PROVE  TasksKept /\ TasksTruthful'
<1>1. tasks'[t] = u /\ \A q \in TaskIds \ {t} : tasks'[q] = tasks[q]
  BY DEF TypeOK
<1>2. TasksKept
  BY <1>1 DEF TasksKept
<1>3. TasksPlaced'
  BY <1>1 DEF TasksTruthful, TasksPlaced
<1>4. ASSUME NEW q \in TaskIds, tasks'[q].status = "succeeded" \/ tasks'[q].coder = "wrote"
      PROVE  InPlace(q)'
  <2>1. CASE q = t
    BY <1>1, <1>2, <1>4, <2>1, InPlaceKept DEF InPlace
  <2>2. CASE q # t
    <3>1. tasks[q].run # 0 /\ InPlace(q)
      BY <1>1, <1>4, <2>2 DEF TasksTruthful, TasksPlaced, DoneIsInPlace, WritersDelivered, InPlace
    <3> QED
      BY <1>2, <3>1, InPlaceKept
  <2> QED
    BY <2>1, <2>2
<1> QED
  BY <1>2, <1>3, <1>4 DEF TasksTruthful, DoneIsInPlace, WritersDelivered, InPlace

LEMMA RecordedStays ==
    ASSUME TasksTruthful, RecordedWasDone, CodeKept, TasksKept, DoneKept
    PROVE  RecordedWasDone'
<1> SUFFICES ASSUME NEW r \in RunIds, NEW step \in job'[r].done
             PROVE  \E t \in TaskIds : /\ tasks'[t].run = r /\ tasks'[t].step = step
                                       /\ code'[tasks'[t].ver][step] # Missing
  BY DEF RecordedWasDone, TasksOf
<1>1. PICK t \in TaskIds : /\ tasks[t].run = r /\ tasks[t].step = step
                           /\ code[tasks[t].ver][step] # Missing
  BY DEF RecordedWasDone, TasksOf, DoneKept
<1>2. r # 0
  BY CodeAssumption DEF RunIds
<1> QED
  BY <1>1, <1>2, InPlaceKept DEF InPlace, TasksKept

\* A run records the step of a task that was delivered.
LEMMA RecordedGrows ==
    ASSUME TypeOK, TasksTruthful, RecordedWasDone, CodeKept, TasksKept,
           NEW t \in TaskIds, NEW r \in RunIds, tasks[t].run = r, InPlace(t),
           job' = [job EXCEPT ![r].done = @ \cup {tasks[t].step}]
    PROVE  RecordedWasDone'
<1> SUFFICES ASSUME NEW q \in RunIds, NEW step \in job'[q].done
             PROVE  \E u \in TaskIds : /\ tasks'[u].run = q /\ tasks'[u].step = step
                                       /\ code'[tasks'[u].ver][step] # Missing
  BY DEF RecordedWasDone, TasksOf
<1>1. 0 \notin RunIds
  BY CodeAssumption DEF RunIds
<1>2. CASE q = r /\ step = tasks[t].step
  BY <1>1, <1>2, InPlaceKept DEF InPlace, TasksKept
<1>3. CASE step \in job[q].done
  <2>1. PICK u \in TaskIds : /\ tasks[u].run = q /\ tasks[u].step = step
                             /\ code[tasks[u].ver][step] # Missing
    BY <1>3 DEF RecordedWasDone, TasksOf
  <2> QED
    BY <1>1, <2>1, InPlaceKept DEF InPlace, TasksKept
<1>4. step \in job[q].done \/ (q = r /\ step = tasks[t].step)
  <2>1. job' = [job EXCEPT ![r] = [job[r] EXCEPT !.done = @ \cup {tasks[t].step}]]
    OBVIOUS
  <2>2. job[r] \in Job
    BY DEF TypeOK
  <2>3. job'[r].done = job[r].done \cup {tasks[t].step}
    BY <2>1, <2>2 DEF TypeOK, Job
  <2>4. q # r => job'[q] = job[q]
    BY <2>1 DEF TypeOK
  <2> QED
    BY <2>3, <2>4
<1> QED
  BY <1>2, <1>3, <1>4

\* An execution that takes no part in the step.
LEMMA OthersFollow ==
    ASSUME IInv, Delivery, PlansKept, CodeKept, TasksKept,
           NEW e \in Execs, execs'[e] = execs[e]
    PROVE  Follows(e)'
<1>1. CASE At(e, "off")
  BY <1>1 DEF Follows, Busy, At
<1>2. CASE ~At(e, "off") /\ Busy(e)
  <2>1. PICK r \in RunIds, t \in TaskIds, i \in Nat :
           execs[e].run = r /\ execs[e].task = t /\ execs[e].idx = i
    BY <1>2, PlacedFacts DEF Delivery, Follows, Exec
  <2>2. tasks[t].run = r /\ tasks[t].step = Steps(r)[i] /\ r # 0
    BY <1>2, <2>1, CodeAssumption DEF Delivery, Follows, StepOf, RunIds
  <2>3. Steps(r)' = Steps(r)
    BY <1>2, <2>1, PlacedFacts DEF PlansKept
  <2>4. execs[e].pc = "endok" => InPlace(t)'
    BY <2>1, <2>2, InPlaceKept DEF Delivery, Follows
  <2> QED
    BY <2>1, <2>2, <2>3, <2>4 DEF Follows, Busy, StepOf, TasksKept, InPlace
<1>3. CASE ~Busy(e)
  BY <1>3 DEF Follows, Busy
<1> QED
  BY <1>1, <1>2, <1>3

LEMMA DeliveryKeeps ==
    ASSUME IInv, Delivery, PlansKept, CodeKept, TasksKept, TasksTruthful', RecordedWasDone',
           NEW e \in Execs, \A d \in Execs \ {e} : execs'[d] = execs[d], Follows(e)'
    PROVE  Delivery'
BY OthersFollow DEF Delivery

\* A step that writes no task, no artefact and no recorded step.
LEMMA QuietKeeps ==
    ASSUME IInv, Delivery, PlansKept, UNCHANGED <<tasks, code>>, DoneKept,
           NEW e \in Execs, \A d \in Execs \ {e} : execs'[d] = execs[d], Follows(e)'
    PROVE  Delivery'
BY Unchanged, RecordedStays, DeliveryKeeps DEF Delivery

(***************************************************************************)
(* Where executions go                                                     *)
(***************************************************************************)

Idle == {"off", "load", "persist", "step", "begin", "assemble", "record", "publish", "finish",
         "fail", "failpoc"}

\* An execution busy with no task follows trivially.
LEMMA IdleFollows ==
    ASSUME TypeOK, NEW e \in Execs, NEW x, execs' = [execs EXCEPT ![e] = x], x.pc \in Idle
    PROVE  Follows(e)' /\ \A d \in Execs \ {e} : execs'[d] = execs[d]
<1>1. execs'[e].pc \in Idle /\ \A d \in Execs \ {e} : execs'[d] = execs[d]
  BY DEF TypeOK
<1> QED
  BY <1>1 DEF Follows, Busy, Idle

LEMMA GotoFollows ==
    ASSUME TypeOK, NEW e \in Execs, NEW pc, Goto(e, pc), pc \in Idle
    PROVE  Follows(e)' /\ \A d \in Execs \ {e} : execs'[d] = execs[d]
<1> DEFINE x == [execs[e] EXCEPT !.pc = pc]
<1>1. execs' = [execs EXCEPT ![e] = x] /\ x.pc = pc
  BY DEF Goto, TypeOK, Exec
<1> HIDE DEF x
<1> QED
  BY <1>1, IdleFollows

LEMMA StopFollows ==
    ASSUME TypeOK, NEW e \in Execs, Stop(e)
    PROVE  Follows(e)' /\ \A d \in Execs \ {e} : execs'[d] = execs[d]
<1>1. Off.pc \in Idle
  BY DEF Off, Idle
<1> QED
  BY <1>1, IdleFollows DEF Stop

LEMMA EnterFollows ==
    ASSUME TypeOK, NEW e \in Execs, NEW r \in RunIds, Enter(e, r)
    PROVE  Follows(e)' /\ \A d \in Execs \ {e} : execs'[d] = execs[d]
<1> DEFINE x == [Off EXCEPT !.pc = "load", !.run = r]
<1>1. execs' = [execs EXCEPT ![e] = x] /\ x.pc = "load"
  BY DEF Enter, Off
<1> HIDE DEF x
<1> QED
  BY <1>1, IdleFollows DEF Idle

LEMMA RouteGoes ==
    ASSUME NEW x \in Exec
    PROVE  /\ Route(x).run = x.run /\ Route(x).idx = x.idx /\ Route(x).task = x.task
           /\ Route(x).pc \in Idle \/ Route(x).pc = "handover" \/ (Route(x).pc = "wait" /\ x.task # 0)
<1> DEFINE pc == CASE x.spent -> "handover"
                   [] ~x.spent /\ x.task # 0 -> "wait"
                   [] ~x.spent /\ x.task = 0 /\ x.idx > Len(Steps(x.run)) -> "assemble"
                   [] OTHER -> "step"
<1>1. Route(x) = [x EXCEPT !.pc = pc]
  BY DEF Route
<1>2. x.spent \in BOOLEAN /\ x.task \in TaskIds \cup {0}
  BY DEF Exec
<1>3. pc \in {"handover", "assemble", "step"} \/ (pc = "wait" /\ x.task # 0)
  BY <1>2
<1> HIDE DEF pc
<1> QED
  BY <1>1, <1>3 DEF Exec, Idle

\* An execution that goes on with no task, or with one of the step it is at.
LEMMA ProceedFollows ==
    ASSUME IInv, PlansKept, NEW e \in Execs, NEW x \in Exec, Proceed(e, x),
           NEW r \in RunIds, x.run = r, Store!Exists(r),
           x.task # 0 => tasks'[x.task].run = r /\ tasks'[x.task].step = Steps(r)[x.idx]
    PROVE  Follows(e)' /\ \A d \in Execs \ {e} : execs'[d] = execs[d]
<1>1. /\ execs'[e] = Route(x)
      /\ \A d \in Execs \ {e} : execs'[d] = execs[d]
  BY DEF Proceed, IInv, TypeOK
<1>2. x.task \in TaskIds \cup {0}
  BY DEF Exec
<1>3. Steps(r)' = Steps(r)
  BY DEF PlansKept
<1>4. PICK t, i : x.task = t /\ x.idx = i
  OBVIOUS
<1> QED
  BY <1>1, <1>2, <1>3, <1>4, RouteGoes DEF Follows, Busy, StepOf, Idle

\* Each of these is what most steps of an execution are.
LEMMA QuietGoto ==
    ASSUME IInv, Delivery, PlansKept, UNCHANGED <<tasks, code>>, DoneKept,
           NEW e \in Execs, NEW pc \in Idle, Goto(e, pc)
    PROVE  Delivery'
BY GotoFollows, QuietKeeps DEF IInv

LEMMA QuietStop ==
    ASSUME IInv, Delivery, PlansKept, UNCHANGED <<tasks, code>>, DoneKept,
           NEW e \in Execs, Stop(e)
    PROVE  Delivery'
BY StopFollows, QuietKeeps DEF IInv

LEMMA JobUnchanged == ASSUME UNCHANGED job PROVE DoneKept
BY DEF DoneKept

(***************************************************************************)
(* Executions                                                              *)
(***************************************************************************)

LEMMA LoadDelivers ==
    ASSUME IInv, Delivery, PlansKept, NEW e \in Execs, Load(e) \/ LoadFails(e)
    PROVE  Delivery'
<1>1. CASE LoadStored(e) \/ Persist(e)
  <2>1. ~At(e, "off") /\ execs[e].pc \in Loading
    BY <1>1 DEF LoadStored, Persist, At, Loading
  <2>2. execs[e] \in Exec /\ execs[e].task = 0
    BY <2>1, PlacedFacts DEF Placed
  <2>3. PICK x \in Exec : Proceed(e, x) /\ x.run = execs[e].run /\ x.task = 0
    <3>1. CASE LoadStored(e)
      <4>1. job[execs[e].run].ver \in Versions \cup {0}
        BY <2>1, PlacedFacts DEF IInv, TypeOK, Job
      <4> DEFINE x == [execs[e] EXCEPT !.ver = job[execs[e].run].ver, !.idx = 1]
      <4>2. x \in Exec /\ x.run = execs[e].run /\ x.task = 0
        BY <2>2, <4>1 DEF Exec
      <4>3. Proceed(e, x)
        BY <3>1 DEF LoadStored
      <4> HIDE DEF x
      <4> QED
        BY <4>2, <4>3
    <3>2. CASE Persist(e)
      <4> DEFINE x == [execs[e] EXCEPT !.idx = 1]
      <4>1. x \in Exec /\ x.run = execs[e].run /\ x.task = 0
        BY <2>2 DEF Exec
      <4>2. Proceed(e, x)
        BY <3>2 DEF Persist
      <4> HIDE DEF x
      <4> QED
        BY <4>1, <4>2
    <3> QED
      BY <1>1, <3>1, <3>2
  <2>4. DoneKept /\ UNCHANGED <<tasks, code>>
    <3>1. CASE LoadStored(e)
      BY <3>1, JobUnchanged DEF LoadStored
    <3>2. CASE Persist(e)
      BY <3>2 DEF Persist, DoneKept, IInv, TypeOK, Job
    <3> QED
      BY <1>1, <3>1, <3>2
  <2> QED
    BY <2>1, <2>3, <2>4, PlacedFacts, ProceedFollows, QuietKeeps
<1>2. CASE Allocate(e)
  <2> DEFINE j == job[execs[e].run]
             kept == CarriedOver(j.tool, j.failure)
  <2>1. PICK v \in Versions :
           /\ IsNextVersion(v)
           /\ code' = [code EXCEPT ![v] = [a \in Artefacts |-> IF a \in kept THEN code[j.prev][a]
                                                               ELSE Missing]]
           /\ execs' = [execs EXCEPT ![e].pc = "persist", ![e].ver = v]
    BY <1>2 DEF Allocate
  <2>2. ~Used(v)
    BY <2>1, CodeAssumption DEF IsNextVersion, Versions
  <2>3. \A a \in Artefacts : code[v][a] = Missing
    BY <2>2 DEF Used, NoCode
  <2>4. CodeKept
    <3> HIDE DEF kept, j
    <3> QED
      BY <2>1, <2>3 DEF CodeKept, IInv, TypeOK
  <2>5. tasks' = tasks /\ DoneKept
    BY <1>2, JobUnchanged DEF Allocate
  <2>6. TasksKept
    BY <2>5 DEF TasksKept
  <2>7. TasksTruthful'
    <3>1. ASSUME NEW t \in TaskIds, tasks[t].status = "succeeded" \/ tasks[t].coder = "wrote"
          PROVE  code'[tasks[t].ver][tasks[t].step] # Missing
      <4>1. tasks[t].run # 0 /\ InPlace(t)
        BY <3>1 DEF Delivery, TasksTruthful, TasksPlaced, DoneIsInPlace, WritersDelivered, InPlace
      <4> QED
        BY <2>4, <2>6, <4>1, InPlaceKept DEF Delivery
    <3> QED
      BY <2>5, <3>1 DEF Delivery, TasksTruthful, TasksPlaced, DoneIsInPlace, WritersDelivered, InPlace
  <2>8. RecordedWasDone'
    BY <2>4, <2>5, <2>6, RecordedStays DEF Delivery
  <2>9. Follows(e)' /\ \A d \in Execs \ {e} : execs'[d] = execs[d]
    <3> DEFINE x == [execs[e] EXCEPT !.pc = "persist", !.ver = v]
    <3>1. execs' = [execs EXCEPT ![e] = x] /\ x.pc = "persist"
      BY <2>1 DEF IInv, TypeOK, Exec
    <3> HIDE DEF x
    <3> QED
      BY <3>1, IdleFollows DEF IInv, Idle
  <2> QED
    BY <2>4, <2>6, <2>7, <2>8, <2>9, DeliveryKeeps
<1>3. CASE LoadFails(e)
  BY <1>3, QuietGoto, JobUnchanged DEF LoadFails, Idle
<1> QED
  BY <1>1, <1>2, <1>3 DEF Load

\* The next step of the plan, after a delivered one was recorded or not.
LEMMA OnwardDelivers ==
    ASSUME IInv, Delivery, PlansKept, CodeKept, TasksKept, TasksTruthful', RecordedWasDone',
           NEW e \in Execs, execs[e].pc \in AtAStep, NEW spent \in BOOLEAN,
           Proceed(e, [execs[e] EXCEPT !.idx = @ + 1, !.task = 0, !.spent = spent])
    PROVE  Delivery'
<1> DEFINE x == [execs[e] EXCEPT !.idx = @ + 1, !.task = 0, !.spent = spent]
<1>1. ~At(e, "off")
  BY DEF At, AtAStep
<1>2. x \in Exec /\ x.run = execs[e].run /\ x.task = 0
  <2>1. execs[e] \in Exec
    BY <1>1, PlacedFacts
  <2>2. execs[e].idx + 1 \in Nat
    BY <2>1 DEF Exec
  <2> QED
    BY <2>1, <2>2 DEF Exec
<1> HIDE DEF x
<1>3. Follows(e)' /\ \A d \in Execs \ {e} : execs'[d] = execs[d]
  BY <1>1, <1>2, PlacedFacts, ProceedFollows DEF x
<1> QED
  BY <1>3, DeliveryKeeps

LEMMA RefusedDelivers ==
    ASSUME IInv, Delivery, PlansKept, CodeKept, TasksKept, TasksTruthful',
           NEW e \in Execs, Refused(e)
    PROVE  Delivery'
<1>1. RecordedWasDone'
  BY JobUnchanged, RecordedStays DEF Refused, Delivery
<1>2. Follows(e)' /\ \A d \in Execs \ {e} : execs'[d] = execs[d]
  BY StopFollows DEF Refused, IInv
<1> QED
  BY <1>1, <1>2, DeliveryKeeps

LEMMA RecordFailureDelivers ==
    ASSUME IInv, Delivery, PlansKept, CodeKept, TasksKept, TasksTruthful',
           NEW e \in Execs, RecordFailure(e) \/ Refused(e)
    PROVE  Delivery'
<1>1. CASE RecordFailure(e)
  <2>1. DoneKept
    BY <1>1 DEF RecordFailure, DoneKept, IInv, TypeOK, Job
  <2>2. RecordedWasDone'
    BY <2>1, RecordedStays DEF Delivery
  <2>3. Follows(e)' /\ \A d \in Execs \ {e} : execs'[d] = execs[d]
    BY <1>1, GotoFollows DEF RecordFailure, IInv, Idle
  <2> QED
    BY <2>2, <2>3, DeliveryKeeps
<1>2. CASE Refused(e)
  BY <1>2, RefusedDelivers
<1> QED
  BY <1>1, <1>2

LEMMA StepDoneDelivers ==
    ASSUME IInv, Delivery, PlansKept, NEW e \in Execs, StepDone(e)
    PROVE  Delivery'
<1> DEFINE r == execs[e].run
           onward == [execs[e] EXCEPT !.idx = @ + 1, !.task = 0]
<1>1. ~At(e, "off") /\ execs[e].pc \in AtAStep
  BY DEF StepDone, At, AtAStep
<1>2. CodeKept /\ TasksKept /\ TasksTruthful'
  BY Unchanged DEF StepDone, Delivery
<1>3. /\ onward = [execs[e] EXCEPT !.idx = @ + 1, !.task = 0, !.spent = execs[e].spent]
      /\ execs[e].spent \in BOOLEAN
  BY <1>1, PlacedFacts DEF Exec
<1>4. CASE Proceed(e, onward) /\ UNCHANGED job
  <2>1. RecordedWasDone'
    BY <1>2, <1>4, JobUnchanged, RecordedStays DEF Delivery
  <2> QED
    BY <1>1, <1>2, <1>3, <1>4, <2>1, OnwardDelivers
<1>5. CASE Proceed(e, onward) /\ job' = [job EXCEPT ![r].done = @ \cup {StepOf(e)}]
  <2>1. PICK t \in TaskIds : tasks[t].run = r /\ tasks[t].step = StepOf(e) /\ Standing(t) = "succeeded"
    BY DEF StepDone, NewestOfStep, Newest, TasksOf
  <2>2. InPlace(t)
    BY <2>1 DEF Standing, Delivery, TasksTruthful, DoneIsInPlace, InPlace
  <2>3. RecordedWasDone'
    BY <1>1, <1>2, <1>5, <2>1, <2>2, PlacedFacts, RecordedGrows DEF Delivery, IInv
  <2> QED
    BY <1>1, <1>2, <1>3, <1>5, <2>3, OnwardDelivers
<1>6. CASE Refused(e)
  BY <1>2, <1>6, RefusedDelivers
<1> QED
  BY <1>4, <1>5, <1>6 DEF StepDone

LEMMA StepAttachDelivers ==
    ASSUME IInv, Delivery, PlansKept, NEW e \in Execs, StepAttach(e)
    PROVE  Delivery'
<1>1. ~At(e, "off") /\ execs[e].pc \in AtAStep
  BY DEF StepAttach, At, AtAStep
<1>2. PICK t \in TaskIds : /\ tasks[t].run = execs[e].run
                           /\ tasks[t].step = StepOf(e)
                           /\ Proceed(e, [execs[e] EXCEPT !.task = t])
  BY DEF StepAttach, NewestOfStep, Newest, TasksOf
<1> DEFINE x == [execs[e] EXCEPT !.task = t]
<1>3. x \in Exec /\ x.run = execs[e].run /\ x.task = t /\ x.idx = execs[e].idx
  BY <1>1, PlacedFacts DEF Exec
<1>4. Proceed(e, x)
  BY <1>2
<1>5. UNCHANGED <<tasks, code>> /\ DoneKept
  BY JobUnchanged DEF StepAttach
<1> HIDE DEF x
<1>6. Follows(e)' /\ \A d \in Execs \ {e} : execs'[d] = execs[d]
  BY <1>1, <1>2, <1>3, <1>4, <1>5, PlacedFacts, ProceedFollows DEF StepOf
<1> QED
  BY <1>5, <1>6, QuietKeeps

\* A task that fails claims nothing any more.
LEMMA FailedTruthful ==
    ASSUME IInv, Delivery, CodeKept, NEW t \in TaskIds, tasks[t].run # 0,
           tasks' = Finish(t, "failed")
    PROVE  TasksKept /\ TasksTruthful'
<1> DEFINE u == [tasks[t] EXCEPT !.status = "failed"]
<1>1. tasks[t] \in Task
  BY DEF IInv, TypeOK
<1>2. /\ u.run = tasks[t].run /\ u.step = tasks[t].step /\ u.ver = tasks[t].ver
      /\ u.status = "failed" /\ u.coder = tasks[t].coder
  BY <1>1 DEF Task
<1>3. tasks' = [tasks EXCEPT ![t] = u]
  BY DEF Finish
<1>4. u.coder = "wrote" => InPlace(t)
  BY <1>2 DEF Delivery, TasksTruthful, WritersDelivered
<1> HIDE DEF u
<1> QED
  BY <1>2, <1>3, <1>4, TaskTouched DEF IInv, Delivery

LEMMA StepGiveUpDelivers ==
    ASSUME IInv, Delivery, PlansKept, NEW e \in Execs, StepGiveUp(e)
    PROVE  Delivery'
<1>1. ~At(e, "off")
  BY DEF StepGiveUp, At
<1>2. CodeKept /\ DoneKept
  BY JobUnchanged DEF StepGiveUp, CodeKept
<1>3. PICK t \in TaskIds : tasks[t].run = execs[e].run /\ tasks' = Finish(t, "failed")
  BY DEF StepGiveUp, NewestOfStep, Newest, TasksOf
<1>4. tasks[t].run # 0
  BY <1>1, <1>3, PlacedFacts, CodeAssumption DEF RunIds
<1>5. TasksKept /\ TasksTruthful'
  BY <1>2, <1>3, <1>4, FailedTruthful
<1>6. RecordedWasDone'
  BY <1>2, <1>5, RecordedStays DEF Delivery
<1>7. Follows(e)' /\ \A d \in Execs \ {e} : execs'[d] = execs[d]
  BY GotoFollows DEF StepGiveUp, IInv, Idle
<1> QED
  BY <1>2, <1>5, <1>6, <1>7, DeliveryKeeps

LEMMA BeginTaskDelivers ==
    ASSUME IInv, Delivery, PlansKept, NEW e \in Execs, BeginTask(e)
    PROVE  Delivery'
<1>1. ~At(e, "off") /\ execs[e].pc \in AtAStep
  BY DEF BeginTask, At, AtAStep
<1>2. PICK r \in RunIds, v \in Versions, s \in Artefacts :
         /\ execs[e].run = r /\ execs[e].ver = v /\ StepOf(e) = s
         /\ Store!Exists(r) /\ r # 0
  BY <1>1, PlacedFacts, CodeAssumption DEF Placed, RunIds
<1> DEFINE u == [NoTask EXCEPT !.run = r, !.step = s, !.ver = v, !.status = "running",
                               !.coder = "unfired"]
<1>3. PICK t \in TaskIds :
         /\ tasks[t].run = 0
         /\ tasks' = [tasks EXCEPT ![t] = u]
         /\ \/ execs' = [execs EXCEPT ![e].pc = "fire", ![e].task = t] /\ UNCHANGED job
            \/ Refused(e)
  <2>1. PICK t \in TaskIds :
           /\ \A q \in TaskIds : tasks[q].run # 0 <=> q < t
           /\ tasks' = [tasks EXCEPT ![t] = u]
           /\ \/ execs' = [execs EXCEPT ![e].pc = "fire", ![e].task = t] /\ UNCHANGED job
              \/ Refused(e)
    BY <1>2 DEF BeginTask
  <2>2. tasks[t].run = 0
    BY <2>1, CodeAssumption DEF TaskIds
  <2> QED
    BY <2>1, <2>2
<1>4. u.run = r /\ u.step = s /\ u.ver = v /\ u.status = "running" /\ u.coder = "unfired"
  BY DEF NoTask
<1> HIDE DEF u
<1>5. /\ tasks'[t] = u
      /\ \A q \in TaskIds \ {t} : tasks'[q] = tasks[q]
      /\ code' = code
  BY <1>3 DEF IInv, TypeOK, BeginTask
<1>6. CodeKept /\ TasksKept
  BY <1>3, <1>5 DEF CodeKept, TasksKept
<1>7. TasksTruthful'
  BY <1>2, <1>4, <1>5 DEF Delivery, TasksTruthful, TasksPlaced, DoneIsInPlace, WritersDelivered,
                         InPlace
<1>8. CASE execs' = [execs EXCEPT ![e].pc = "fire", ![e].task = t] /\ UNCHANGED job
  <2> DEFINE x == [execs[e] EXCEPT !.pc = "fire", !.task = t]
  <2>1. x.pc = "fire" /\ x.task = t /\ x.run = r /\ x.idx = execs[e].idx
    BY <1>1, <1>2, PlacedFacts DEF Exec
  <2>2. execs'[e] = x /\ \A d \in Execs \ {e} : execs'[d] = execs[d]
    BY <1>8 DEF IInv, TypeOK
  <2>3. PICK i : execs[e].idx = i /\ s = Steps(r)[i]
    BY <1>2 DEF StepOf
  <2>4. Steps(r)' = Steps(r)
    BY <1>2 DEF PlansKept
  <2> HIDE DEF x
  <2>5. Follows(e)'
    BY <1>4, <1>5, <2>1, <2>2, <2>3, <2>4 DEF Follows, Busy, StepOf
  <2>6. RecordedWasDone'
    BY <1>6, <1>8, JobUnchanged, RecordedStays DEF Delivery
  <2> QED
    BY <1>6, <1>7, <2>2, <2>5, <2>6, DeliveryKeeps
<1>9. CASE Refused(e)
  BY <1>6, <1>7, <1>9, RefusedDelivers
<1> QED
  BY <1>3, <1>8, <1>9

\* The task of a busy execution.
LEMMA BusyFacts ==
    ASSUME IInv, Delivery, NEW e \in Execs, ~At(e, "off"), Busy(e)
    PROVE  /\ execs[e].task \in TaskIds
           /\ tasks[execs[e].task] \in Task
           /\ tasks[execs[e].task].run = execs[e].run
           /\ tasks[execs[e].task].run # 0
           /\ tasks[execs[e].task].step = StepOf(e)
           /\ execs[e].pc = "endok" => InPlace(execs[e].task)
BY PlacedFacts, CodeAssumption DEF Delivery, Follows, IInv, TypeOK, RunIds

\* An execution that goes on where it is, with the task it has.
LEMMA GoesOnDelivers ==
    ASSUME IInv, Delivery, PlansKept, CodeKept, TasksKept, TasksTruthful', DoneKept,
           NEW e \in Execs, ~At(e, "off"), Busy(e) \/ execs[e].task = 0,
           NEW spent \in BOOLEAN, Proceed(e, [execs[e] EXCEPT !.spent = spent])
    PROVE  Delivery'
<1> DEFINE x == [execs[e] EXCEPT !.spent = spent]
<1>1. x \in Exec /\ x.run = execs[e].run /\ x.task = execs[e].task /\ x.idx = execs[e].idx
  BY PlacedFacts DEF Exec
<1>2. PICK r \in RunIds : execs[e].run = r /\ Store!Exists(r)
  BY PlacedFacts
<1>3. x.task # 0 => tasks'[x.task].run = r /\ tasks'[x.task].step = Steps(r)[x.idx]
  BY <1>1, <1>2, BusyFacts DEF StepOf, TasksKept
<1> HIDE DEF x
<1>4. Follows(e)' /\ \A d \in Execs \ {e} : execs'[d] = execs[d]
  BY <1>1, <1>2, <1>3, ProceedFollows DEF x
<1>5. RecordedWasDone'
  BY RecordedStays DEF Delivery
<1> QED
  BY <1>4, <1>5, DeliveryKeeps

LEMMA FireDelivers ==
    ASSUME IInv, Delivery, PlansKept, NEW e \in Execs,
           FireCoder(e) \/ \E started \in BOOLEAN : FireRaises(e, started)
    PROVE  Delivery'
<1> DEFINE t == execs[e].task
<1>1. ~At(e, "off") /\ Busy(e)
  BY DEF FireCoder, FireRaises, At, Busy
<1>2. t \in TaskIds /\ tasks[t] \in Task /\ tasks[t].run # 0
  BY <1>1, BusyFacts
<1>3. code' = code
  BY DEF FireCoder, FireRaises
<1>4. PICK u : /\ tasks' = [tasks EXCEPT ![t] = u]
               /\ u.run = tasks[t].run /\ u.step = tasks[t].step /\ u.ver = tasks[t].ver
               /\ u.status \in {tasks[t].status, "failed"} /\ u.coder # "wrote"
  <2>1. CASE FireCoder(e)
    <3>1. PICK c \in {"fired", "gone"} : tasks' = [tasks EXCEPT ![t].coder = c]
      BY <2>1 DEF FireCoder
    <3> DEFINE u == [tasks[t] EXCEPT !.coder = c]
    <3>2. /\ u.run = tasks[t].run /\ u.step = tasks[t].step /\ u.ver = tasks[t].ver
          /\ u.status = tasks[t].status /\ u.coder = c
      BY <1>2 DEF Task
    <3>3. tasks' = [tasks EXCEPT ![t] = u]
      BY <3>1
    <3> HIDE DEF u
    <3> QED
      BY <3>2, <3>3
  <2>2. ASSUME NEW started \in BOOLEAN, FireRaises(e, started)
        PROVE  \E u : /\ tasks' = [tasks EXCEPT ![t] = u]
                      /\ u.run = tasks[t].run /\ u.step = tasks[t].step /\ u.ver = tasks[t].ver
                      /\ u.status \in {tasks[t].status, "failed"} /\ u.coder # "wrote"
    <3> DEFINE u == [tasks[t] EXCEPT !.status = "failed",
                                     !.coder = IF started THEN "fired" ELSE "gone"]
    <3>1. /\ u.run = tasks[t].run /\ u.step = tasks[t].step /\ u.ver = tasks[t].ver
          /\ u.status = "failed" /\ u.coder \in {"fired", "gone"}
      BY <1>2 DEF Task
    <3>2. tasks' = [tasks EXCEPT ![t] = u]
      BY <1>2, <2>2 DEF FireRaises, Finish, IInv, TypeOK
    <3> HIDE DEF u
    <3> QED
      BY <3>1, <3>2
  <2> QED
    BY <2>1, <2>2
<1>5. CodeKept
  BY <1>3 DEF CodeKept
<1>6. u.status = "succeeded" => InPlace(t)
  BY <1>2, <1>4 DEF Delivery, TasksTruthful, DoneIsInPlace, InPlace
<1>7. TasksKept /\ TasksTruthful'
  BY <1>2, <1>4, <1>5, <1>6, TaskTouched DEF IInv, Delivery
<1>8. CASE FireCoder(e)
  <2>1. execs[e] = [execs[e] EXCEPT !.spent = execs[e].spent] /\ execs[e].spent \in BOOLEAN
    BY <1>1, PlacedFacts DEF Exec
  <2> QED
    BY <1>1, <1>5, <1>7, <1>8, <2>1, JobUnchanged, GoesOnDelivers DEF FireCoder
<1>9. ASSUME NEW started \in BOOLEAN, FireRaises(e, started) PROVE Delivery'
  BY <1>5, <1>7, <1>9, RecordFailureDelivers DEF FireRaises
<1> QED
  BY <1>8, <1>9

LEMMA WaitDelivers ==
    ASSUME IInv, Delivery, PlansKept, NEW e \in Execs,
           WaitEnds(e) \/ \E spent \in BOOLEAN : WaitWindow(e, spent)
    PROVE  Delivery'
<1>1. ~At(e, "off") /\ execs[e].pc = "wait" /\ Busy(e) /\ UNCHANGED <<tasks, code, job>>
  BY DEF WaitEnds, WaitWindow, At, Busy
<1>2. CodeKept /\ TasksKept /\ TasksTruthful' /\ DoneKept
  BY <1>1, Unchanged, JobUnchanged DEF Delivery
<1>3. ASSUME NEW spent \in BOOLEAN, WaitWindow(e, spent) PROVE Delivery'
  BY <1>1, <1>2, <1>3, GoesOnDelivers DEF WaitWindow
<1>4. CASE WaitEnds(e)
  <2>1. PICK r \in RunIds, t \in TaskIds, i \in Nat :
           /\ execs[e].run = r /\ execs[e].task = t
           /\ execs[e].idx = i /\ Store!Exists(r)
    BY <1>1, PlacedFacts, BusyFacts DEF Exec
  <2>2. PICK pc \in {"endok", "endfail"} :
           Goto(e, pc) /\ (pc = "endok" => tasks[t].status = "succeeded")
    BY <1>4, <2>1 DEF WaitEnds
  <2> DEFINE x == [execs[e] EXCEPT !.pc = pc]
  <2>3. x.pc = pc /\ x.run = r /\ x.task = t /\ x.idx = i
    BY <1>1, <2>1, PlacedFacts DEF Exec
  <2>4. execs'[e] = x /\ \A d \in Execs \ {e} : execs'[d] = execs[d]
    BY <2>2 DEF Goto, IInv, TypeOK
  <2>5. tasks[t].run = r /\ tasks[t].step = Steps(r)[i] /\ Steps(r)' = Steps(r)
    BY <1>1, <2>1, BusyFacts DEF StepOf, PlansKept
  <2>6. pc = "endok" => InPlace(t)
    BY <2>2 DEF Delivery, TasksTruthful, DoneIsInPlace, InPlace
  <2> HIDE DEF x
  <2>7. Follows(e)'
    BY <1>1, <2>2, <2>3, <2>4, <2>5, <2>6 DEF Follows, Busy, StepOf, InPlace
  <2> QED
    BY <1>1, <1>2, <2>4, <2>7, QuietKeeps
<1> QED
  BY <1>3, <1>4

LEMMA EndTaskDelivers ==
    ASSUME IInv, Delivery, PlansKept, NEW e \in Execs,
           EndTaskFailed(e) \/ \E spent \in BOOLEAN : EndTaskSucceeded(e, spent)
    PROVE  Delivery'
<1> DEFINE t == execs[e].task
           r == execs[e].run
<1>1. ~At(e, "off") /\ Busy(e) /\ execs[e].pc \in AtAStep
  BY DEF EndTaskFailed, EndTaskSucceeded, At, Busy, AtAStep
<1>2. /\ t \in TaskIds /\ tasks[t] \in Task /\ tasks[t].run # 0
      /\ tasks[t].run = r /\ tasks[t].step = StepOf(e)
  BY <1>1, BusyFacts
<1>3. CodeKept
  BY DEF EndTaskFailed, EndTaskSucceeded, CodeKept
<1>4. CASE EndTaskFailed(e)
  <2>1. TasksKept /\ TasksTruthful'
    BY <1>2, <1>3, <1>4, FailedTruthful DEF EndTaskFailed
  <2> QED
    BY <1>3, <1>4, <2>1, RecordFailureDelivers DEF EndTaskFailed
<1>5. ASSUME NEW spent \in BOOLEAN, EndTaskSucceeded(e, spent) PROVE Delivery'
  <2>1. InPlace(t)
    BY <1>1, <1>5, BusyFacts DEF EndTaskSucceeded, At
  <2> DEFINE u == [tasks[t] EXCEPT !.status = "succeeded"]
  <2>2. u.run = tasks[t].run /\ u.step = tasks[t].step /\ u.ver = tasks[t].ver
    BY <1>2 DEF Task
  <2>3. tasks' = [tasks EXCEPT ![t] = u]
    BY <1>5 DEF EndTaskSucceeded, Finish
  <2> HIDE DEF u
  <2>4. TasksKept /\ TasksTruthful'
    BY <1>2, <1>3, <2>1, <2>2, <2>3, TaskTouched DEF IInv, Delivery
  <2>5. CASE /\ job' = [job EXCEPT ![r].done = @ \cup {StepOf(e)}]
             /\ Proceed(e, [execs[e] EXCEPT !.idx = @ + 1, !.task = 0, !.spent = spent])
    <3>1. RecordedWasDone'
      BY <1>1, <1>2, <1>3, <2>1, <2>4, <2>5, PlacedFacts, RecordedGrows DEF IInv, Delivery
    <3> QED
      BY <1>1, <1>3, <2>4, <2>5, <3>1, OnwardDelivers
  <2>6. CASE Refused(e)
    BY <1>3, <2>4, <2>6, RefusedDelivers
  <2> QED
    BY <1>5, <2>5, <2>6 DEF EndTaskSucceeded
<1> QED
  BY <1>4, <1>5

LEMMA HandOverDelivers ==
    ASSUME IInv, Delivery, PlansKept, NEW e \in Execs, HandOver(e) \/ HandOverFails(e)
    PROVE  Delivery'
<1>1. CASE HandOver(e)
  BY <1>1, QuietStop, JobUnchanged DEF HandOver
<1>2. CASE HandOverFails(e)
  <2>1. ~At(e, "off") /\ (Busy(e) \/ execs[e].task = 0) /\ UNCHANGED <<tasks, code, job>>
    BY <1>2 DEF HandOverFails, At, Busy
  <2>2. CodeKept /\ TasksKept /\ TasksTruthful' /\ DoneKept
    BY <2>1, Unchanged, JobUnchanged DEF Delivery
  <2> QED
    BY <1>2, <2>1, <2>2, GoesOnDelivers DEF HandOverFails
<1> QED
  BY <1>1, <1>2

LEMMA EndDelivers ==
    ASSUME IInv, Delivery, PlansKept, NEW e \in Execs,
           EndNode(e) \/ AssembleFails(e) \/ Die(e) \/ StepStart(e)
    PROVE  Delivery'
<1>1. CASE Assemble(e)
  BY <1>1, QuietGoto, JobUnchanged DEF Assemble, Idle
<1>2. CASE RecordBundle(e)
  <2>1. DoneKept
    BY <1>2 DEF RecordBundle, DoneKept, IInv, TypeOK, Job
  <2> QED
    BY <1>2, <2>1, QuietGoto DEF RecordBundle, Idle
<1>3. CASE Publish(e) \/ FinishFailed(e) \/ AssembleFails(e)
  BY <1>3, QuietGoto, JobUnchanged DEF Publish, FinishFailed, AssembleFails, Idle
<1>4. CASE FinishSucceeded(e) \/ FailPoc(e) \/ Die(e)
  BY <1>4, QuietStop, JobUnchanged DEF FinishSucceeded, FailPoc, Die
<1>5. CASE StepStart(e)
  BY <1>5, QuietGoto, JobUnchanged DEF StepStart, Idle
<1> QED
  BY <1>1, <1>2, <1>3, <1>4, <1>5 DEF EndNode

LEMMA ExecutionDelivers ==
    ASSUME IInv, Delivery, PlansKept, NEW e \in Execs,
           Works(e) \/ Breaks(e) \/ FireRaises(e, TRUE) \/ HandOver(e) \/ HandOverFails(e)
    PROVE  Delivery'
<1>1. CASE Load(e) \/ LoadFails(e)
  BY <1>1, LoadDelivers
<1>2. CASE StepNode(e)
  BY <1>2, EndDelivers, StepDoneDelivers, StepAttachDelivers, StepGiveUpDelivers, BeginTaskDelivers,
     FireDelivers DEF StepNode
<1>3. CASE WaitNode(e)
  BY <1>3, WaitDelivers, EndTaskDelivers DEF WaitNode
<1>4. CASE EndNode(e) \/ AssembleFails(e) \/ Die(e)
  BY <1>4, EndDelivers
<1>5. CASE FireRaises(e, FALSE) \/ FireRaises(e, TRUE)
  BY <1>5, FireDelivers
<1>6. CASE HandOver(e) \/ HandOverFails(e)
  BY <1>6, HandOverDelivers
<1> QED
  BY <1>1, <1>2, <1>3, <1>4, <1>5, <1>6 DEF Works, Breaks

(***************************************************************************)
(* Coders and clients                                                      *)
(***************************************************************************)

\* A step of a coder moves no execution and records nothing.
LEMMA CoderWriteDelivers ==
    ASSUME IInv, Delivery, PlansKept, CodeKept, UNCHANGED <<job, execs>>,
           NEW t \in TaskIds, tasks[t].run # 0, NEW u, tasks' = [tasks EXCEPT ![t] = u],
           u.run = tasks[t].run, u.step = tasks[t].step, u.ver = tasks[t].ver,
           u.status = "succeeded" \/ u.coder = "wrote" =>
               InPlace(t) \/ code'[tasks[t].ver][tasks[t].step] # Missing
    PROVE  Delivery'
<1>1. TasksKept /\ TasksTruthful'
  BY TaskTouched DEF IInv, Delivery
<1>2. RecordedWasDone'
  BY <1>1, JobUnchanged, RecordedStays DEF Delivery
<1>3. \A e \in Execs : Follows(e)'
  BY <1>1, OthersFollow
<1> QED
  BY <1>1, <1>2, <1>3 DEF Delivery

LEMMA CoderStepDelivers ==
    ASSUME IInv, Delivery, PlansKept, NEW t \in TaskIds,
           CoderReads(t) \/ CoderWrites(t) \/ CoderMarks(t) \/ CoderFails(t)
             \/ CoderVanishes(t) \/ TaskAges(t)
    PROVE  Delivery'
<1>1. tasks[t] \in Task /\ UNCHANGED <<job, execs>>
  BY DEF IInv, TypeOK, CoderReads, CoderWrites, CoderMarks, CoderFails, CoderVanishes, TaskAges
<1>2. tasks[t].run # 0 /\ tasks[t].ver \in Versions /\ tasks[t].step \in Artefacts
  BY DEF Delivery, TasksTruthful, TasksPlaced, CoderReads, CoderWrites, CoderMarks, CoderFails,
         CoderVanishes, TaskAges
<1>3. tasks[t].status = "succeeded" \/ tasks[t].coder = "wrote" => InPlace(t)
  BY DEF Delivery, TasksTruthful, DoneIsInPlace, WritersDelivered, InPlace
<1>4. CASE CoderWrites(t)
  <2> DEFINE u == [tasks[t] EXCEPT !.coder = "wrote"]
  <2>1. u.run = tasks[t].run /\ u.step = tasks[t].step /\ u.ver = tasks[t].ver
    BY <1>1 DEF Task
  <2>2. tasks' = [tasks EXCEPT ![t] = u]
    BY <1>4 DEF CoderWrites
  <2>3. [by |-> t, con |-> tasks[t].read] # Missing
    BY CodeAssumption DEF Missing, TaskIds
  <2>4. CodeKept /\ code'[tasks[t].ver][tasks[t].step] # Missing
    BY <1>2, <1>4, <2>3 DEF CoderWrites, CodeKept, IInv, TypeOK
  <2> HIDE DEF u
  <2> QED
    BY <1>1, <1>2, <2>1, <2>2, <2>4, CoderWriteDelivers
<1>5. CASE CoderReads(t) \/ CoderMarks(t) \/ CoderFails(t) \/ CoderVanishes(t) \/ TaskAges(t)
  <2>1. CodeKept
    BY <1>5 DEF CoderReads, CoderMarks, CoderFails, CoderVanishes, TaskAges, CodeKept
  <2>2. PICK u : /\ tasks' = [tasks EXCEPT ![t] = u]
                 /\ u.run = tasks[t].run /\ u.step = tasks[t].step /\ u.ver = tasks[t].ver
                 /\ u.status = "succeeded" \/ u.coder = "wrote" => InPlace(t)
    <3>1. CASE CoderReads(t)
      <4> DEFINE u == [tasks[t] EXCEPT !.coder = "working",
                                       !.read = IF ReadsContract(tasks[t].step)
                                                THEN code[tasks[t].ver]["contract"].by ELSE 0]
      <4>1. /\ u.run = tasks[t].run /\ u.step = tasks[t].step /\ u.ver = tasks[t].ver
            /\ u.status = tasks[t].status /\ u.coder = "working"
        BY <1>1 DEF Task
      <4>2. tasks' = [tasks EXCEPT ![t] = u]
        BY <3>1 DEF CoderReads
      <4> HIDE DEF u
      <4> QED
        BY <1>3, <4>1, <4>2
    <3>2. CASE CoderMarks(t)
      <4> DEFINE u == [tasks[t] EXCEPT !.status = "succeeded", !.coder = "gone"]
      <4>1. u.run = tasks[t].run /\ u.step = tasks[t].step /\ u.ver = tasks[t].ver
        BY <1>1 DEF Task
      <4>2. tasks' = [tasks EXCEPT ![t] = u] /\ tasks[t].coder = "wrote"
        BY <3>2 DEF CoderMarks
      <4> HIDE DEF u
      <4> QED
        BY <1>3, <4>1, <4>2
    <3>3. CASE CoderFails(t)
      <4> DEFINE u == [tasks[t] EXCEPT !.status = "failed", !.coder = "gone"]
      <4>1. /\ u.run = tasks[t].run /\ u.step = tasks[t].step /\ u.ver = tasks[t].ver
            /\ u.status = "failed" /\ u.coder = "gone"
        BY <1>1 DEF Task
      <4>2. tasks' = [tasks EXCEPT ![t] = u]
        BY <3>3 DEF CoderFails
      <4> HIDE DEF u
      <4> QED
        BY <4>1, <4>2
    <3>4. CASE CoderVanishes(t)
      <4> DEFINE u == [tasks[t] EXCEPT !.coder = "gone"]
      <4>1. /\ u.run = tasks[t].run /\ u.step = tasks[t].step /\ u.ver = tasks[t].ver
            /\ u.status = tasks[t].status /\ u.coder = "gone"
        BY <1>1 DEF Task
      <4>2. tasks' = [tasks EXCEPT ![t] = u]
        BY <3>4 DEF CoderVanishes
      <4> HIDE DEF u
      <4> QED
        BY <1>3, <4>1, <4>2
    <3>5. CASE TaskAges(t)
      <4> DEFINE u == [tasks[t] EXCEPT !.old = TRUE]
      <4>1. /\ u.run = tasks[t].run /\ u.step = tasks[t].step /\ u.ver = tasks[t].ver
            /\ u.status = tasks[t].status /\ u.coder = tasks[t].coder
        BY <1>1 DEF Task
      <4>2. tasks' = [tasks EXCEPT ![t] = u]
        BY <3>5 DEF TaskAges
      <4> HIDE DEF u
      <4> QED
        BY <1>3, <4>1, <4>2
    <3> QED
      BY <1>5, <3>1, <3>2, <3>3, <3>4, <3>5
  <2> QED
    BY <1>1, <1>2, <2>1, <2>2, CoderWriteDelivers
<1> QED
  BY <1>4, <1>5

LEMMA NewRunDelivers ==
    ASSUME IInv, Delivery, PlansKept, NEW e \in Execs, NEW inputs, inputs.done = {},
           NewRun(e, inputs)
    PROVE  Delivery'
<1>1. PICK r \in RunIds : job' = [job EXCEPT ![r] = inputs] /\ Enter(e, r)
  BY DEF NewRun
<1>2. DoneKept
  BY <1>1 DEF DoneKept, IInv, TypeOK
<1>3. UNCHANGED <<tasks, code>>
  BY DEF NewRun
<1>4. Follows(e)' /\ \A d \in Execs \ {e} : execs'[d] = execs[d]
  BY <1>1, EnterFollows DEF IInv
<1> QED
  BY <1>2, <1>3, <1>4, QuietKeeps

LEMMA ClientDelivers ==
    ASSUME IInv, Delivery, PlansKept, Client
    PROVE  Delivery'
<1>1. ASSUME NEW e \in Execs, NEW spec \in Specs, StartRun(e, spec) PROVE Delivery'
  <2> DEFINE inputs == [NoJob EXCEPT !.tool = "start", !.spec = spec]
  <2>1. inputs.done = {} /\ NewRun(e, inputs)
    BY <1>1 DEF StartRun, NoJob
  <2> HIDE DEF inputs
  <2> QED
    BY <2>1, NewRunDelivers
<1>2. ASSUME NEW e \in Execs, NEW v \in Versions, NEW failure \in Components \cup {Mismatch},
             RepairRun(e, v, failure)
      PROVE  Delivery'
  <2> DEFINE inputs == [NoJob EXCEPT !.tool = "repair", !.prev = v, !.failure = failure]
  <2>1. inputs.done = {} /\ NewRun(e, inputs)
    BY <1>2 DEF RepairRun, NoJob
  <2> HIDE DEF inputs
  <2> QED
    BY <2>1, NewRunDelivers
<1>3. ASSUME NEW e \in Execs, NEW r \in RunIds, ContinueRun(e, r) PROVE Delivery'
  <2>1. DoneKept /\ UNCHANGED <<tasks, code>>
    BY <1>3, JobUnchanged DEF ContinueRun
  <2>2. Follows(e)' /\ \A d \in Execs \ {e} : execs'[d] = execs[d]
    BY <1>3, EnterFollows DEF ContinueRun, IInv
  <2> QED
    BY <2>1, <2>2, QuietKeeps
<1>4. CASE UNCHANGED <<job, tasks, code, execs>>
  <2>1. CodeKept /\ TasksKept /\ TasksTruthful' /\ DoneKept
    BY <1>4, Unchanged, JobUnchanged DEF Delivery
  <2>2. RecordedWasDone'
    BY <2>1, RecordedStays DEF Delivery
  <2>3. \A e \in Execs : Follows(e)'
    BY <1>4, <2>1, OthersFollow
  <2> QED
    BY <2>1, <2>2, <2>3 DEF Delivery
<1>5. (\E r \in RunIds : Abandon(r)) \/ (\E spec \in Specs : Approve(spec))
        => UNCHANGED <<job, tasks, code, execs>>
  BY DEF Abandon, Approve, codeVars
<1> QED
  BY <1>1, <1>2, <1>3, <1>4, <1>5 DEF Client

(***************************************************************************)
(* The stage                                                               *)
(***************************************************************************)

LEMMA InitDelivery ==
    ASSUME Init
    PROVE  Delivery
<1>1. /\ NoTask.run = 0 /\ NoTask.status = "absent" /\ NoTask.coder = "gone"
      /\ NoJob.done = {} /\ Off.pc = "off"
  BY DEF NoTask, NoJob, Off
<1>2. TasksTruthful
  BY <1>1 DEF Init, TasksTruthful, TasksPlaced, DoneIsInPlace, WritersDelivered
<1>3. RecordedWasDone
  BY <1>1 DEF Init, RecordedWasDone
<1>4. \A e \in Execs : Follows(e)
  BY <1>1 DEF Init, Follows, Busy
<1> QED
  BY <1>2, <1>3, <1>4 DEF Delivery

LEMMA NextDelivery ==
    ASSUME IInv, Delivery, [Next]_vars
    PROVE  Delivery'
<1>1. PlansKept
  BY NextIInv
<1>2. CASE Next
  BY <1>1, <1>2, ClientDelivers, ExecutionDelivers, CoderStepDelivers DEF Next
<1>3. CASE UNCHANGED vars
  <2>1. CodeKept /\ TasksKept /\ TasksTruthful' /\ DoneKept
    BY <1>3, Unchanged, JobUnchanged DEF vars, codeVars, Delivery
  <2>2. RecordedWasDone'
    BY <2>1, RecordedStays DEF Delivery
  <2>3. \A e \in Execs : Follows(e)'
    BY <1>1, <1>3, <2>1, OthersFollow DEF vars, codeVars
  <2> QED
    BY <2>1, <2>2, <2>3 DEF Delivery
<1> QED
  BY <1>2, <1>3

\* The inductive invariant of deliveries: whoever wrote, and whoever is about to be
\* recorded as done, has its artefact in place.
THEOREM Delivered == Spec => []Delivery
BY InitDelivery, NextDelivery, Inductive, PTL DEF Spec

(* A task that says "succeeded" has its artefact in the version it was     *)
(* fired for, for any plan and any number of executions, coders, retries   *)
(* and deaths: orch_step_state may skip its step.                          *)
THEOREM DoneIsTrue == Spec => []DoneIsInPlace
<1>1. Delivery => DoneIsInPlace
  BY DEF Delivery, TasksTruthful
<1> QED
  BY <1>1, Delivered, PTL

(* A step that a run records as done was delivered by a task of that run,  *)
(* whichever execution recorded it: orch_end_task and orch_step_state      *)
(* never take one step's coder for another's.                              *)
THEOREM RecordedIsTrue == Spec => []RecordedWasDone
<1>1. Delivery => RecordedWasDone
  BY DEF Delivery
<1> QED
  BY <1>1, Delivered, PTL
=============================================================================

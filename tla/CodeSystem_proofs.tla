------------------------- MODULE CodeSystem_proofs -------------------------
(***************************************************************************)
(* What the code stage guarantees under the agents that drive it, however  *)
(* slow anything is and however many tabs are open: a run keeps the        *)
(* version it planned with, and what is published is complete.             *)
(*                                                                         *)
(* Both rest on who may continue a run.  Every invocation that asks for a  *)
(* run to be continued names a planned run (MailSane), because the chat    *)
(* agent looks for a plan first and an execution hands over only once it   *)
(* has one.  So a run without a plan has the one execution that created it *)
(* (Pioneers), and nobody else can store a second plan over the first.     *)
(* From there an execution works on its run's version for as long as it    *)
(* lives (Fit), a task belongs to the version of its run (TasksVersioned), *)
(* and the bundle is made of a version in which every step is delivered    *)
(* and everything else was carried over (Built).                           *)
(***************************************************************************)
EXTENDS CodeSystem, CodeRun_proofs, FiniteSetTheorems

\* A message that asks to continue a run names one with a plan.
SaneMessage(m) ==
    /\ m \in Message
    /\ m.tool = "repair" => m.prev \in Versions /\ m.failure \in Components \cup {Mismatch}
    /\ m.tool = "continue" => m.run \in RunIds /\ Store!Exists(m.run) /\ Planned(m.run)

MailSane  == mail \in [Mailbox -> Message] /\ \A s \in Mailbox : SaneMessage(mail[s])
CallsSane == /\ chat \in [Users -> Call]
             /\ \A u \in Users : chat[u] # NoCall => chat[u].run \in RunIds

(***************************************************************************)
(* The steps of the code stage, with the clients the system gives it       *)
(***************************************************************************)

\* A step in which the code stage only loses a message or falls silent.
Passing ==
    /\ UNCHANGED <<job, tasks, code, bundle, poc, execs>>
    /\ faults' \in 0..MaxFaults
    /\ UNCHANGED runs \/ \E r \in RunIds : Store!GoSilent(r)

ExecutionSteps(e) ==
    Works(e) \/ Breaks(e) \/ FireRaises(e, TRUE) \/ HandOver(e) \/ HandOverFails(e)
CoderSteps(t) ==
    CoderReads(t) \/ CoderWrites(t) \/ CoderMarks(t) \/ CoderFails(t) \/ CoderVanishes(t) \/ TaskAges(t)
Creates(e) ==
    \/ \E spec \in Specs : StartRun(e, spec)
    \/ \E v \in Versions, failure \in Components \cup {Mismatch} : RepairRun(e, v, failure)

CodeStep ==
    \/ \E e \in Execs : Creates(e)
    \/ \E e \in Execs, r \in RunIds : Planned(r) /\ ContinueRun(e, r)
    \/ \E r \in RunIds : Abandon(r)
    \/ \E spec \in Specs : Approve(spec)
    \/ \E e \in Execs : ExecutionSteps(e)
    \/ \E t \in TaskIds : CoderSteps(t)
    \/ Passing

LEMMA UnchangedPasses ==
    ASSUME TypeOK, UNCHANGED vars
    PROVE  Passing
BY DEF TypeOK, vars, codeVars, Passing

LEMMA DeliverSteps ==
    ASSUME TypeOK, MailSane, NEW s \in Mailbox, NEW e \in Execs, Deliver(s, e)
    PROVE  CodeStep
<1>1. CASE mail[s].tool = "start" /\ StartRun(e, mail[s].spec)
  <2>1. mail[s].spec \in Specs
    BY <1>1 DEF StartRun, TypeOK
  <2> QED
    BY <1>1, <2>1 DEF CodeStep, Creates
<1>2. CASE mail[s].tool = "repair" /\ RepairRun(e, mail[s].prev, mail[s].failure)
  BY <1>2 DEF MailSane, SaneMessage, CodeStep, Creates
<1>3. CASE mail[s].tool = "continue" /\ ContinueRun(e, mail[s].run)
  BY <1>3 DEF MailSane, SaneMessage, CodeStep
<1> QED
  BY <1>1, <1>2, <1>3 DEF Deliver

LEMMA ChatSteps ==
    ASSUME TypeOK, CallsSane, NEW u \in Users, Chat(u)
    PROVE  CodeStep
<1>1. CASE AbandonAndGoOn(u)
  <2>1. PICK r \in RunIds : chat[u].run = r
    BY <1>1 DEF AbandonAndGoOn, CallsSane
  <2>2. CASE Store!AbandonRun(r)
    BY <1>1, <2>1, <2>2 DEF AbandonAndGoOn, CodeStep, Abandon
  <2>3. CASE UNCHANGED runs
    BY <1>1, <2>3, UnchangedPasses DEF AbandonAndGoOn, CodeStep, vars
  <2> QED
    BY <1>1, <2>1, <2>2, <2>3 DEF AbandonAndGoOn
<1>2. CASE ~AbandonAndGoOn(u)
  <2>1. UNCHANGED vars
    BY <1>2 DEF Chat, FindStale, ChatStart, ChatRetry
  <2> QED
    BY <2>1, UnchangedPasses DEF CodeStep
<1> QED
  BY <1>1, <1>2

LEMMA SystemSteps ==
    ASSUME TypeOK, MailSane, CallsSane, [SystemNext]_sysVars
    PROVE  CodeStep
<1>1. ASSUME NEW s \in Mailbox, DeliverRefused(s) \/ Lose(s) PROVE CodeStep
  <2>1. CASE DeliverRefused(s)
    BY <2>1, UnchangedPasses DEF DeliverRefused, CodeStep
  <2>2. CASE Lose(s)
    BY <2>2, FaultCounted DEF Lose, CodeStep, Passing
  <2> QED
    BY <1>1, <2>1, <2>2
<1>2. ASSUME NEW v \in Versions, NEW failure, AskRepair(v, failure) PROVE CodeStep
  BY <1>2, UnchangedPasses DEF AskRepair, CodeStep
<1>3. ASSUME NEW e \in Execs, Execution(e) PROVE CodeStep
  BY <1>3 DEF Execution, OnlyCode, HandOverSends, HandOverRaises, ExecutionSteps, CodeStep
<1>4. ASSUME NEW t \in TaskIds, Coder(t) \/ Age(t) PROVE CodeStep
  BY <1>4 DEF Coder, Age, OnlyCode, CoderSteps, CodeStep
<1>5. ASSUME NEW r \in RunIds, Silence(r) PROVE CodeStep
  BY <1>5 DEF Silence, codeVars, CodeStep, Passing, TypeOK
<1>6. CASE UNCHANGED sysVars
  BY <1>6, UnchangedPasses DEF sysVars, CodeStep
<1>7. ASSUME NEW spec \in Specs, OnlyCode(Approve(spec)) PROVE CodeStep
  BY <1>7 DEF OnlyCode, CodeStep
<1> QED
  BY <1>1, <1>2, <1>3, <1>4, <1>5, <1>6, <1>7, DeliverSteps, ChatSteps DEF SystemNext

\* What is proved of the stage for open clients holds under these.
LEMMA PassingKeeps ==
    ASSUME IInv, Passing
    PROVE  IInv' /\ Moves
<1>1. RunsMove
  <2>1. CASE UNCHANGED runs
    BY <2>1, RunsStay DEF IInv, TypeOK
  <2>2. ASSUME NEW r \in RunIds, Store!GoSilent(r) PROVE RunsMove
    BY <2>2 DEF IInv, TypeOK, RunsMove, Store!Next, Store!RunOperation, Store!GoSilent,
                Store!TypeOK, Store!RunDoc, Store!Exists
  <2> QED
    BY <2>1, <2>2 DEF Passing
<1>2. ObjectsTyped'
  BY DEF Passing, ObjectsTyped, IInv, TypeOK
<1> QED
  BY <1>1, <1>2, JobsStay, TasksStay, OthersKeep DEF Passing, Moves, IInv

LEMMA CodeStepIsNext ==
    ASSUME CodeStep
    PROVE  Next \/ Passing
BY DEF CodeStep, Creates, ExecutionSteps, CoderSteps, Next, Client

LEMMA StepIInv ==
    ASSUME IInv, CodeStep
    PROVE  IInv' /\ [Store!Next]_runs /\ PlansKept
BY CodeStepIsNext, NextIInv, PassingKeeps, MovesFacts

LEMMA StepDelivery ==
    ASSUME IInv, Delivery, CodeStep
    PROVE  Delivery'
<1>1. CASE Next
  BY <1>1, NextDelivery
<1>2. CASE Passing
  <2>1. PlansKept /\ UNCHANGED <<job, tasks, code, execs>>
    BY <1>2, PassingKeeps, MovesFacts DEF Passing
  <2>2. CodeKept /\ TasksKept /\ TasksTruthful' /\ DoneKept
    BY <2>1, Unchanged, JobUnchanged DEF Delivery
  <2>3. RecordedWasDone'
    BY <2>2, RecordedStays DEF Delivery
  <2>4. \A e \in Execs : Follows(e)'
    BY <2>1, <2>2, OthersFollow
  <2> QED
    BY <2>2, <2>3, <2>4 DEF Delivery
<1> QED
  BY <1>1, <1>2, CodeStepIsNext

(***************************************************************************)
(* What a step does to plans, versions and bundles                         *)
(***************************************************************************)

PlannedExist == \A r \in RunIds : Planned(r) => Store!Exists(r)

InputsKept ==
    \A r \in RunIds : Store!Exists(r) => /\ Store!Exists(r)'
                                         /\ job'[r].tool = job[r].tool
                                         /\ job'[r].prev = job[r].prev
                                         /\ job'[r].failure = job[r].failure
VersionsKept == \A r \in RunIds : job'[r].ver = job[r].ver
PlansFixed   == \A r \in RunIds : Planned(r) => job'[r].ver = job[r].ver
BundlesKept  == \A v \in Versions : bundle[v].made => bundle'[v].made

\* A new run takes an identifier that no run has, and has no plan.
LEMMA NewRunEffect ==
    ASSUME IInv, NEW e \in Execs, Creates(e)
    PROVE  \E r \in RunIds, inputs \in Job :
              /\ ~Store!Exists(r) /\ Store!Exists(r)'
              /\ \A q \in RunIds \ {r} : Store!Exists(q) <=> Store!Exists(q)'
              /\ inputs.ver = 0 /\ ~inputs.bundled
              /\ job' = [job EXCEPT ![r] = inputs]
              /\ At(e, "off") /\ Enter(e, r)
              /\ UNCHANGED <<tasks, code, bundle>> /\ poc'.code = poc.code
<1>1. ASSUME NEW inputs \in Job, NewRun(e, inputs), inputs.ver = 0, ~inputs.bundled
      PROVE  \E r \in RunIds :
              /\ ~Store!Exists(r) /\ Store!Exists(r)'
              /\ \A q \in RunIds \ {r} : Store!Exists(q) <=> Store!Exists(q)'
              /\ job' = [job EXCEPT ![r] = inputs]
              /\ At(e, "off") /\ Enter(e, r)
              /\ UNCHANGED <<tasks, code, bundle>> /\ poc'.code = poc.code
  <2>1. PICK r \in RunIds : /\ Store!CreateRun(r, "code")
                            /\ job' = [job EXCEPT ![r] = inputs]
                            /\ Enter(e, r)
    BY <1>1 DEF NewRun
  <2>2. /\ ~Store!Exists(r) /\ Store!Exists(r)'
        /\ \A q \in RunIds \ {r} : Store!Exists(q) <=> Store!Exists(q)'
    BY <2>1, CreateMoves DEF IInv, TypeOK
  <2>3. poc'.code = poc.code
    BY <1>1 DEF NewRun, IInv, TypeOK
  <2> QED
    BY <1>1, <2>1, <2>2, <2>3 DEF NewRun
<1>2. ASSUME NEW spec \in Specs, StartRun(e, spec)
      PROVE  \E inputs \in Job : NewRun(e, inputs) /\ inputs.ver = 0 /\ ~inputs.bundled
  <2> DEFINE inputs == [NoJob EXCEPT !.tool = "start", !.spec = spec]
  <2>1. inputs \in Job /\ inputs.ver = 0 /\ ~inputs.bundled /\ NewRun(e, inputs)
    BY <1>2 DEF NoJob, Job, StartRun
  <2> QED
    BY <2>1
<1>3. ASSUME NEW v \in Versions, NEW failure \in Components \cup {Mismatch}, RepairRun(e, v, failure)
      PROVE  \E inputs \in Job : NewRun(e, inputs) /\ inputs.ver = 0 /\ ~inputs.bundled
  <2> DEFINE inputs == [NoJob EXCEPT !.tool = "repair", !.prev = v, !.failure = failure]
  <2>1. inputs \in Job /\ inputs.ver = 0 /\ ~inputs.bundled /\ NewRun(e, inputs)
    BY <1>3 DEF NoJob, Job, RepairRun
  <2> QED
    BY <2>1
<1>4. PICK inputs \in Job : NewRun(e, inputs) /\ inputs.ver = 0 /\ ~inputs.bundled
  BY <1>2, <1>3 DEF Creates
<1> QED
  BY <1>1, <1>4

\* The fields a step of an execution may write.
LEMMA JobFields ==
    ASSUME IInv, NEW e \in Execs, ExecutionSteps(e)
    PROVE  \/ UNCHANGED job
           \/ At(e, "persist") /\ Persist(e)
           \/ ~At(e, "off") /\ \E done : job' = [job EXCEPT ![execs[e].run].done = done]
           \/ ~At(e, "off") /\ RecordBundle(e)
BY DEF ExecutionSteps, Works, Breaks, Load, StepNode, WaitNode, EndNode, LoadStored, Allocate,
       Persist, StepStart, StepDone, StepAttach, StepGiveUp, BeginTask, FireCoder, WaitWindow,
       EndTaskSucceeded, WaitEnds, EndTaskFailed, Assemble, RecordBundle, Publish,
       FinishSucceeded, FinishFailed, FailPoc, LoadFails, FireRaises, AssembleFails, Die,
       HandOver, HandOverFails, RecordFailure, Refused, At

LEMMA ExecutionVersions ==
    ASSUME IInv, NEW e \in Execs, ExecutionSteps(e)
    PROVE  VersionsKept \/ Persist(e)
<1>1. ASSUME ~At(e, "off"), NEW done, job' = [job EXCEPT ![execs[e].run].done = done]
      PROVE  VersionsKept
  <2>1. execs[e].run \in RunIds
    BY <1>1, PlacedFacts
  <2> QED
    BY <1>1, <2>1 DEF VersionsKept, IInv, TypeOK, Job
<1>2. ASSUME ~At(e, "off"), RecordBundle(e) PROVE VersionsKept
  <2>1. execs[e].run \in RunIds
    BY <1>2, PlacedFacts
  <2> QED
    BY <1>2, <2>1 DEF RecordBundle, VersionsKept, IInv, TypeOK, Job
<1>3. CASE ~At(e, "off") /\ \E done : job' = [job EXCEPT ![execs[e].run].done = done]
  BY <1>1, <1>3
<1>4. CASE ~At(e, "off") /\ RecordBundle(e)
  BY <1>2, <1>4
<1>5. CASE UNCHANGED job
  BY <1>5 DEF VersionsKept
<1>6. CASE Persist(e)
  BY <1>6
<1> QED
  BY <1>3, <1>4, <1>5, <1>6, JobFields

LEMMA VersionsEffect ==
    ASSUME IInv, PlannedExist, CodeStep
    PROVE  VersionsKept \/ \E e \in Execs : Persist(e)
<1>1. ASSUME UNCHANGED job PROVE VersionsKept
  BY <1>1 DEF VersionsKept
<1>2. ASSUME NEW e \in Execs, Creates(e) PROVE VersionsKept
  <2>1. PICK r \in RunIds, inputs \in Job :
           ~Store!Exists(r) /\ inputs.ver = 0 /\ job' = [job EXCEPT ![r] = inputs]
    BY <1>2, NewRunEffect
  <2> QED
    BY <2>1 DEF VersionsKept, PlannedExist, Planned, IInv, TypeOK
<1>3. ASSUME NEW e \in Execs, ExecutionSteps(e)
      PROVE  VersionsKept \/ Persist(e)
  BY <1>3, ExecutionVersions
<1>4. (\E t \in TaskIds : CoderSteps(t)) \/ Passing \/ (\E r \in RunIds : Abandon(r))
         \/ (\E spec \in Specs : Approve(spec)) \/ (\E e \in Execs, r \in RunIds : ContinueRun(e, r))
      => UNCHANGED job
  BY DEF CoderSteps, CoderReads, CoderWrites, CoderMarks, CoderFails, CoderVanishes, TaskAges, Passing,
         Abandon, Approve, ContinueRun, codeVars
<1> QED
  BY <1>1, <1>2, <1>3, <1>4 DEF CodeStep

LEMMA InputsEffect ==
    ASSUME IInv, CodeStep
    PROVE  InputsKept
<1>1. ASSUME Moves PROVE InputsKept
  BY <1>1 DEF Moves, RunsMove, JobsMove, InputsKept
<1>2. ASSUME NEW e \in Execs, Creates(e) PROVE InputsKept
  <2>1. PICK r \in RunIds, inputs \in Job :
           /\ ~Store!Exists(r)
           /\ \A q \in RunIds \ {r} : Store!Exists(q) <=> Store!Exists(q)'
           /\ job' = [job EXCEPT ![r] = inputs]
    BY <1>2, NewRunEffect
  <2> QED
    BY <2>1 DEF InputsKept, IInv, TypeOK
<1>3. ASSUME NEW t \in TaskIds, CoderSteps(t) PROVE Moves
  BY <1>3, CoderReadsKeeps, CoderWritesKeeps, CoderEnds DEF CoderSteps
<1> QED
  BY <1>1, <1>2, <1>3, ExecutionStep, ContinueRunKeeps, AbandonKeeps, ApproveKeeps, PassingKeeps
     DEF CodeStep, ExecutionSteps

LEMMA CodeEffect ==
    ASSUME IInv, CodeStep
    PROVE  \/ UNCHANGED code
           \/ \E e \in Execs : Allocate(e)
           \/ \E t \in TaskIds : CoderWrites(t)
<1>1. ASSUME NEW e \in Execs, ExecutionSteps(e)
      PROVE  UNCHANGED code \/ Allocate(e)
  BY <1>1
     DEF ExecutionSteps, Works, Breaks, Load, StepNode, WaitNode, EndNode, LoadStored,
         Persist, StepStart, StepDone, StepAttach, StepGiveUp, BeginTask, FireCoder, WaitWindow,
         EndTaskSucceeded, WaitEnds, EndTaskFailed, Assemble, RecordBundle, Publish,
         FinishSucceeded, FinishFailed, FailPoc, LoadFails, FireRaises, AssembleFails, Die,
         HandOver, HandOverFails
<1>2. ASSUME NEW t \in TaskIds, CoderSteps(t) PROVE UNCHANGED code \/ CoderWrites(t)
  BY <1>2 DEF CoderSteps, CoderReads, CoderMarks, CoderFails, CoderVanishes, TaskAges
<1>3. ASSUME NEW e \in Execs, Creates(e) PROVE UNCHANGED code
  BY <1>3, NewRunEffect
<1>4. Passing \/ (\E r \in RunIds : Abandon(r))
         \/ (\E spec \in Specs : Approve(spec)) \/ (\E e \in Execs, r \in RunIds : ContinueRun(e, r))
      => UNCHANGED code
  BY DEF Passing, Abandon, Approve, ContinueRun, codeVars
<1> QED
  BY <1>1, <1>2, <1>3, <1>4 DEF CodeStep

\* Nothing under a version is taken away: a new one has nothing under it yet.
LEMMA CodeKeptByAll ==
    ASSUME IInv, CodeStep
    PROVE  CodeKept
<1>1. CASE UNCHANGED code
  BY <1>1 DEF CodeKept
<1>2. ASSUME NEW e \in Execs, Allocate(e) PROVE CodeKept
  <2>1. PICK v \in Versions : /\ IsNextVersion(v)
                              /\ \E f : code' = [code EXCEPT ![v] = f]
    BY <1>2 DEF Allocate
  <2>2. code[v] = NoCode
    BY <2>1 DEF IsNextVersion, Used, Versions
  <2> QED
    BY <2>1, <2>2 DEF CodeKept, NoCode, IInv, TypeOK
<1>3. ASSUME NEW t \in TaskIds, CoderWrites(t) PROVE CodeKept
  <2>1. t # 0 /\ tasks[t] \in Task
    BY CodeAssumption DEF TaskIds, IInv, TypeOK
  <2> DEFINE a == [by |-> t, con |-> tasks[t].read]
  <2>2. a # Missing
    BY <2>1 DEF Missing
  <2>3. code' = [code EXCEPT ![tasks[t].ver][tasks[t].step] = a]
    BY <1>3 DEF CoderWrites
  <2> HIDE DEF a
  <2> QED
    BY <2>2, <2>3 DEF CodeKept, IInv, TypeOK
<1> QED
  BY <1>1, <1>2, <1>3, CodeEffect

LEMMA BundleEffect ==
    ASSUME IInv, CodeStep
    PROVE  UNCHANGED bundle \/ \E e \in Execs : Assemble(e)
<1>1. ASSUME NEW e \in Execs, ExecutionSteps(e)
      PROVE  UNCHANGED bundle \/ Assemble(e)
  BY <1>1
     DEF ExecutionSteps, Works, Breaks, Load, StepNode, WaitNode, EndNode, LoadStored, Allocate,
         Persist, StepStart, StepDone, StepAttach, StepGiveUp, BeginTask, FireCoder, WaitWindow,
         EndTaskSucceeded, WaitEnds, EndTaskFailed, RecordBundle, Publish,
         FinishSucceeded, FinishFailed, FailPoc, LoadFails, FireRaises, AssembleFails, Die,
         HandOver, HandOverFails
<1>2. ASSUME NEW t \in TaskIds, CoderSteps(t) PROVE UNCHANGED bundle
  BY <1>2 DEF CoderSteps, CoderReads, CoderWrites, CoderMarks, CoderFails, CoderVanishes, TaskAges
<1>3. ASSUME NEW e \in Execs, Creates(e) PROVE UNCHANGED bundle
  BY <1>3, NewRunEffect
<1>4. Passing \/ (\E r \in RunIds : Abandon(r))
         \/ (\E spec \in Specs : Approve(spec)) \/ (\E e \in Execs, r \in RunIds : ContinueRun(e, r))
      => UNCHANGED bundle
  BY DEF Passing, Abandon, Approve, ContinueRun, codeVars
<1> QED
  BY <1>1, <1>2, <1>3, <1>4 DEF CodeStep

LEMMA BundlesKeptByAll ==
    ASSUME IInv, CodeStep
    PROVE  BundlesKept
<1>1. ASSUME NEW e \in Execs, Assemble(e) PROVE BundlesKept
  BY <1>1 DEF Assemble, BundlesKept, IInv, TypeOK
<1> QED
  BY <1>1, BundleEffect DEF BundlesKept

(***************************************************************************)
(* An execution and the plan it works on                                   *)
(***************************************************************************)

Beyond   == AtAStep \cup {"handover", "assemble", "record", "publish", "finish"}
Building == AtAStep \cup {"handover", "assemble"}

Kept(r)   == CarriedOver(job[r].tool, job[r].failure)
Has(v, S) == \A a \in S : code[v][a] # Missing

\* Every step of the plan before the execution's index is delivered.
BuiltUpTo(x) == \A i \in 1..Len(Steps(x.run)) : i < x.idx => code[x.ver][Steps(x.run)[i]] # Missing

Fit(e) ==
    /\ execs[e].pc \in Beyond => /\ Planned(execs[e].run)
                                 /\ job[execs[e].run].ver = execs[e].ver
    /\ execs[e].pc = "persist" => /\ ~Planned(execs[e].run)
                                  /\ Has(execs[e].ver, Kept(execs[e].run))
    /\ execs[e].pc \in Building => BuiltUpTo(execs[e])
    /\ execs[e].pc = "assemble" => execs[e].idx > Len(Steps(execs[e].run))
    /\ execs[e].pc \in {"record", "publish", "finish"} => bundle[job[execs[e].run].ver].made

\* A run without a plan has one execution: the one that created it.
Pioneers ==
    \A e, f \in Execs :
        (/\ ~At(e, "off") /\ ~At(f, "off")
         /\ execs[e].run = execs[f].run /\ ~Planned(execs[e].run))
        => e = f

TasksVersioned ==
    \A t \in TaskIds : tasks[t].run # 0 =>
        Planned(tasks[t].run) /\ tasks[t].ver = job[tasks[t].run].ver

Built ==
    /\ \A v \in Versions : bundle[v].made =>
          Has(v, Artefacts) /\ \A a \in Artefacts : bundle[v].files[a] # Missing
    /\ \A r \in RunIds : Planned(r) => Has(job[r].ver, Kept(r))
    /\ \A r \in RunIds : job[r].bundled => Planned(r) /\ bundle[job[r].ver].made
    /\ poc.code # 0 => bundle[poc.code].made

Carried ==
    /\ IInv /\ Delivery
    /\ PlannedExist /\ Pioneers /\ TasksVersioned /\ Built
    /\ \A e \in Execs : Fit(e)

\* What every step leaves as it is.
StepKeeps == InputsKept /\ PlansFixed /\ PlansKept /\ CodeKept /\ BundlesKept

LEMMA KeptFacts == \A r \in RunIds : Kept(r) \subseteq Artefacts
BY DEF Kept, CarriedOver

LEMMA KeptStays ==
    ASSUME InputsKept, NEW r \in RunIds, Store!Exists(r)
    PROVE  Kept(r)' = Kept(r)
BY DEF InputsKept, Kept, CarriedOver, Regenerated

\* An execution that takes no part in the step.
LEMMA OthersFit ==
    ASSUME Carried, StepKeeps, NEW e \in Execs, execs'[e] = execs[e],
           execs[e].pc = "persist" => job'[execs[e].run].ver = job[execs[e].run].ver
    PROVE  Fit(e)'
<1>1. CASE At(e, "off")
  BY <1>1 DEF At, Fit, Beyond, Building, AtAStep
<1>2. CASE ~At(e, "off")
  <2>1. PICK r \in RunIds : execs[e].run = r /\ Store!Exists(r)
    BY <1>2, PlacedFacts DEF Carried
  <2>2. /\ Steps(r)' = Steps(r) /\ Kept(r)' = Kept(r)
        /\ Planned(r) => Planned(r)' /\ job'[r].ver = job[r].ver
    BY <2>1, KeptStays DEF StepKeeps, PlansKept, PlansFixed, Planned
  <2>3. PICK v, i : execs[e].ver = v /\ execs[e].idx = i
    OBVIOUS
  <2>4. /\ Len(Steps(r)) \in Nat /\ \A n \in 1..Len(Steps(r)) : Steps(r)[n] \in Artefacts
        /\ Kept(r) \subseteq Artefacts
    BY <1>2, <2>1, KeptFacts, StepsTyped DEF Carried, IInv, JobsPlannable
  <2>5. Planned(r) => job[r].ver \in Versions
    BY <2>1 DEF Carried, IInv, TypeOK, Job, Planned
  <2>6. execs[e].pc = "persist" => v \in Versions
    BY <1>2, <2>3, PlacedFacts DEF Carried, Placed
  <2>7. execs[e].pc \in Beyond => Planned(r) /\ job[r].ver = v
    BY <2>1, <2>3 DEF Carried, Fit
  <2>8. ASSUME execs[e].pc \in Building PROVE BuiltUpTo(execs[e])'
    <3>1. v \in Versions
      BY <2>5, <2>7, <2>8 DEF Beyond, Building
    <3>2. \A n \in 1..Len(Steps(r)) : n < i => code[v][Steps(r)[n]] # Missing
      BY <2>1, <2>3, <2>8 DEF Carried, Fit, BuiltUpTo
    <3>3. \A n \in 1..Len(Steps(r)) : n < i => code'[v][Steps(r)[n]] # Missing
      BY <2>4, <3>1, <3>2 DEF StepKeeps, CodeKept
    <3> QED
      BY <2>1, <2>2, <2>3, <3>3 DEF BuiltUpTo
  <2>9. ASSUME execs[e].pc = "persist" PROVE ~Planned(r)' /\ Has(v, Kept(r))'
    <3>1. ~Planned(r) /\ Has(v, Kept(r))
      BY <2>1, <2>3, <2>9 DEF Carried, Fit
    <3> QED
      BY <2>1, <2>2, <2>4, <2>6, <2>9, <3>1 DEF StepKeeps, CodeKept, Has, Planned
  <2>10. execs[e].pc = "assemble" => i > Len(Steps(r))
    BY <2>1, <2>3 DEF Carried, Fit
  <2>11. execs[e].pc \in {"record", "publish", "finish"} => bundle'[job'[r].ver].made
    BY <2>1, <2>2, <2>5, <2>7 DEF Carried, Fit, StepKeeps, BundlesKept, Beyond
  <2> QED
    BY <2>1, <2>2, <2>3, <2>7, <2>8, <2>9, <2>10, <2>11 DEF Fit, Planned, Has
<1> QED
  BY <1>1, <1>2

LEMMA StopFits ==
    ASSUME IInv, NEW e \in Execs, Stop(e)
    PROVE  Fit(e)'
BY DEF IInv, TypeOK, Stop, Off, Fit, Beyond, Building, AtAStep

LEMMA EnterFits ==
    ASSUME IInv, NEW e \in Execs, NEW r \in RunIds, Enter(e, r)
    PROVE  Fit(e)'
BY DEF IInv, TypeOK, Enter, Off, Fit, Beyond, Building, AtAStep

\* An execution that stays at its step, or gives up.
LEMMA GotoFits ==
    ASSUME Carried, StepKeeps, NEW e \in Execs, ~At(e, "off"), NEW pc, Goto(e, pc),
           \/ pc \in {"fail", "failpoc"}
           \/ pc \in {"begin", "endok", "endfail"} /\ execs[e].pc \in AtAStep
           \/ /\ pc \in {"record", "publish", "finish"} /\ execs[e].pc \in Beyond
              /\ bundle'[job[execs[e].run].ver].made
    PROVE  Fit(e)'
<1> DEFINE x == [execs[e] EXCEPT !.pc = pc]
<1>1. PICK r \in RunIds : execs[e].run = r /\ Store!Exists(r)
  BY PlacedFacts DEF Carried
<1>2. /\ execs'[e] = x /\ x.pc = pc /\ x.run = r /\ x.ver = execs[e].ver /\ x.idx = execs[e].idx
  BY <1>1 DEF Goto, Carried, IInv, TypeOK, Exec
<1> HIDE DEF x
<1>3. PICK v, i : execs[e].ver = v /\ execs[e].idx = i
  OBVIOUS
<1>4. CASE pc \in {"fail", "failpoc"}
  BY <1>2, <1>4 DEF Fit, Beyond, Building, AtAStep
<1>5. CASE pc \notin {"fail", "failpoc"}
  <2>1. Planned(r) /\ job[r].ver = v /\ job'[r].ver = v /\ Steps(r)' = Steps(r)
    BY <1>1, <1>3, <1>5 DEF Carried, Fit, Beyond, StepKeeps, PlansFixed, PlansKept
  <2>2. pc \in {"record", "publish", "finish"} => bundle'[v].made
    BY <1>1, <2>1, <1>5 DEF AtAStep
  <2>3. ASSUME pc \in {"begin", "endok", "endfail"}
        PROVE  \A n \in 1..Len(Steps(r)) : n < i => code'[v][Steps(r)[n]] # Missing
    <3>1. \A n \in 1..Len(Steps(r)) : n < i => code[v][Steps(r)[n]] # Missing
      BY <1>1, <1>3, <2>3 DEF Carried, Fit, BuiltUpTo, Building
    <3>2. v \in Versions /\ \A n \in 1..Len(Steps(r)) : Steps(r)[n] \in Artefacts
      BY <1>1, <2>1, StepsTyped DEF Carried, IInv, JobsPlannable, TypeOK, Job, Planned
    <3> QED
      BY <3>1, <3>2 DEF StepKeeps, CodeKept
  <2>4. pc \in {"begin", "endok", "endfail", "record", "publish", "finish"}
    BY <1>5
  <2> QED
    BY <1>2, <1>3, <2>1, <2>2, <2>3, <2>4 DEF Fit, BuiltUpTo, Planned, Beyond, Building, AtAStep
<1> QED
  BY <1>4, <1>5

\* An execution that goes on with its plan.
LEMMA ProceedFits ==
    ASSUME Carried, StepKeeps, NEW e \in Execs, NEW x \in Exec, Proceed(e, x),
           NEW r \in RunIds, x.run = r, Store!Exists(r),
           job'[r].ver = x.ver, x.ver \in Versions,
           \A n \in 1..Len(Steps(r)) : n < x.idx => code'[x.ver][Steps(r)[n]] # Missing
    PROVE  Fit(e)'
<1> DEFINE pc == CASE x.spent -> "handover"
                   [] ~x.spent /\ x.task # 0 -> "wait"
                   [] ~x.spent /\ x.task = 0 /\ x.idx > Len(Steps(x.run)) -> "assemble"
                   [] OTHER -> "step"
<1>1. Route(x) = [x EXCEPT !.pc = pc] /\ execs'[e] = Route(x)
  BY DEF Route, Proceed, Carried, IInv, TypeOK
<1>2. x.spent \in BOOLEAN /\ x.task \in TaskIds \cup {0}
  BY DEF Exec
<1>3. pc \in {"handover", "wait", "assemble", "step"} /\ (pc = "assemble" => x.idx > Len(Steps(r)))
  BY <1>2
<1> HIDE DEF pc
<1>4. PICK v, i : x.ver = v /\ x.idx = i
  OBVIOUS
<1>5. execs'[e].pc = pc /\ execs'[e].run = r /\ execs'[e].ver = v /\ execs'[e].idx = i
  BY <1>1, <1>4 DEF Exec
<1>6. Steps(r)' = Steps(r)
  BY DEF StepKeeps, PlansKept
<1>7. v # 0
  BY <1>4 DEF Versions
<1> QED
  BY <1>3, <1>4, <1>5, <1>6, <1>7 DEF Fit, BuiltUpTo, Planned, Beyond, Building, AtAStep

\* An execution at its step that goes on with the same plan, at the same step.
LEMMA SamePlaceFits ==
    ASSUME Carried, StepKeeps, NEW e \in Execs, execs[e].pc \in Building,
           NEW x \in Exec, Proceed(e, x),
           x.run = execs[e].run, x.ver = execs[e].ver, x.idx = execs[e].idx
    PROVE  Fit(e)'
<1>0. ~At(e, "off")
  BY DEF At, Building, AtAStep
<1>1. PICK r \in RunIds : execs[e].run = r /\ Store!Exists(r)
  BY <1>0, PlacedFacts DEF Carried
<1>2. PICK v, i : execs[e].ver = v /\ execs[e].idx = i
  OBVIOUS
<1>3. /\ Planned(r) /\ job[r].ver = v /\ job'[r].ver = v /\ v \in Versions
  BY <1>1, <1>2 DEF Carried, Fit, Beyond, Building, StepKeeps, PlansFixed, IInv, TypeOK, Job, Planned
<1>4. \A n \in 1..Len(Steps(r)) : n < i => code[v][Steps(r)[n]] # Missing
  BY <1>1, <1>2 DEF Carried, Fit, BuiltUpTo
<1>5. \A n \in 1..Len(Steps(r)) : Steps(r)[n] \in Artefacts
  BY <1>1, StepsTyped DEF Carried, IInv, JobsPlannable
<1>6. \A n \in 1..Len(Steps(r)) : n < i => code'[v][Steps(r)[n]] # Missing
  BY <1>3, <1>4, <1>5 DEF StepKeeps, CodeKept
<1> QED
  BY <1>1, <1>2, <1>3, <1>6, ProceedFits

\* An execution whose step is delivered goes on to the next one.
LEMMA NextStepFits ==
    ASSUME Carried, StepKeeps, NEW e \in Execs, execs[e].pc \in AtAStep,
           NEW t \in TaskIds, tasks[t].run = execs[e].run, tasks[t].step = StepOf(e), InPlace(t),
           NEW x \in Exec, Proceed(e, x),
           x.run = execs[e].run, x.ver = execs[e].ver, x.idx = execs[e].idx + 1
    PROVE  Fit(e)'
<1>0. ~At(e, "off")
  BY DEF At, AtAStep
<1>1. PICK r \in RunIds : execs[e].run = r /\ Store!Exists(r)
  BY <1>0, PlacedFacts DEF Carried
<1>2. PICK v, i : execs[e].ver = v /\ execs[e].idx = i
  OBVIOUS
<1>3. /\ Planned(r) /\ job[r].ver = v /\ job'[r].ver = v /\ v \in Versions
  BY <1>1, <1>2 DEF Carried, Fit, Beyond, StepKeeps, PlansFixed, IInv, TypeOK, Job, Planned
<1>4. \A n \in 1..Len(Steps(r)) : n < i => code[v][Steps(r)[n]] # Missing
  BY <1>1, <1>2 DEF Carried, Fit, BuiltUpTo, Building
<1>5. \A n \in 1..Len(Steps(r)) : Steps(r)[n] \in Artefacts
  BY <1>1, StepsTyped DEF Carried, IInv, JobsPlannable
<1>6. i \in Nat /\ Len(Steps(r)) \in Nat
  BY <1>0, <1>1, <1>2, PlacedFacts DEF Carried, Exec
<1>7. code[v][Steps(r)[i]] # Missing
  <2>1. tasks[t].ver = v /\ tasks[t].step = Steps(r)[i]
    BY <1>1, <1>2, <1>3, CodeAssumption DEF Carried, TasksVersioned, StepOf, RunIds
  <2> QED
    BY <2>1 DEF InPlace
<1>8. \A n \in 1..Len(Steps(r)) : n < i + 1 => code[v][Steps(r)[n]] # Missing
  BY <1>4, <1>6, <1>7
<1>9. \A n \in 1..Len(Steps(r)) : n < i + 1 => code'[v][Steps(r)[n]] # Missing
  BY <1>3, <1>5, <1>8 DEF StepKeeps, CodeKept
<1> QED
  BY <1>1, <1>2, <1>3, <1>9, ProceedFits

LEMMA LoadFits ==
    ASSUME Carried, StepKeeps, NEW e \in Execs, Load(e) \/ LoadFails(e)
    PROVE  Fit(e)'
<1>0. ~At(e, "off")
  BY DEF Load, LoadFails, LoadStored, Allocate, Persist, At
<1>1. PICK r \in RunIds : execs[e].run = r /\ Store!Exists(r)
  BY <1>0, PlacedFacts DEF Carried
<1>2. execs[e] \in Exec /\ job[r] \in Job
  BY DEF Carried, IInv, TypeOK
<1>3. CASE LoadStored(e)
  <2> DEFINE x == [execs[e] EXCEPT !.ver = job[r].ver, !.idx = 1]
  <2>1. Planned(r) /\ job[r].ver \in Versions /\ job'[r].ver = job[r].ver
    BY <1>1, <1>2, <1>3 DEF LoadStored, Planned, Job
  <2>2. x \in Exec /\ x.run = r /\ x.ver = job[r].ver /\ x.idx = 1
    BY <1>1, <1>2, <2>1 DEF Exec
  <2>3. Proceed(e, x)
    BY <1>1, <1>3 DEF LoadStored
  <2> HIDE DEF x
  <2> QED
    BY <1>1, <2>1, <2>2, <2>3, ProceedFits
<1>4. CASE Allocate(e)
  <2>1. PICK v \in Versions :
           /\ code' = [code EXCEPT ![v] = [a \in Artefacts |-> IF a \in Kept(r) THEN code[job[r].prev][a]
                                                               ELSE Missing]]
           /\ execs' = [execs EXCEPT ![e].pc = "persist", ![e].ver = v]
    BY <1>1, <1>4 DEF Allocate, Kept
  <2>2. execs'[e].pc = "persist" /\ execs'[e].run = r /\ execs'[e].ver = v
    BY <1>1, <1>2, <2>1 DEF Carried, IInv, TypeOK, Exec
  <2>3. ~Planned(r) /\ UNCHANGED job
    BY <1>1, <1>4 DEF Allocate
  <2>4. \A a \in Kept(r) : code[job[r].prev][a] # Missing
    <3>1. CASE job[r].tool = "start"
      BY <3>1 DEF Kept, CarriedOver
    <3>2. CASE job[r].tool # "start"
      <4>1. job[r].prev \in Versions /\ job[r].tool = "repair"
        BY <1>1, <3>2 DEF Carried, IInv, JobsPlannable, Plannable
      <4>2. bundle[job[r].prev].made
        BY <1>1, <1>4, <4>1 DEF Allocate
      <4> QED
        BY <4>1, <4>2, KeptFacts DEF Carried, Built, Has
    <3> QED
      BY <3>1, <3>2
  <2>5. \A a \in Kept(r) : code'[v][a] # Missing
    BY <2>1, <2>4, KeptFacts DEF Carried, IInv, TypeOK
  <2>6. Kept(r)' = Kept(r)
    BY <1>1, KeptStays DEF StepKeeps
  <2> QED
    BY <2>2, <2>3, <2>5, <2>6 DEF Fit, Has, Beyond, Building, AtAStep, Planned
<1>5. CASE Persist(e)
  <2> DEFINE x == [execs[e] EXCEPT !.idx = 1]
  <2>1. execs[e].ver \in Versions
    BY <1>0, <1>5, PlacedFacts DEF Carried, Placed, Persist, At
  <2>2. x \in Exec /\ x.run = r /\ x.ver = execs[e].ver /\ x.idx = 1
    BY <1>1, <1>2 DEF Exec
  <2>3. Proceed(e, x) /\ job'[r].ver = x.ver
    BY <1>1, <1>2, <1>5, <2>2 DEF Persist, Carried, IInv, TypeOK, Job
  <2> HIDE DEF x
  <2> QED
    BY <1>1, <2>1, <2>2, <2>3, ProceedFits
<1>6. CASE LoadFails(e)
  BY <1>0, <1>6, GotoFits DEF LoadFails
<1> QED
  BY <1>3, <1>4, <1>5, <1>6 DEF Load

LEMMA StepNodeFits ==
    ASSUME Carried, StepKeeps, NEW e \in Execs, StepNode(e)
    PROVE  Fit(e)'
<1>0. execs[e].pc \in AtAStep /\ execs[e].pc \in Building /\ ~At(e, "off")
  BY DEF StepNode, StepStart, StepDone, StepAttach, StepGiveUp, BeginTask, FireCoder, At, AtAStep,
         Building
<1>1. PICK r \in RunIds : execs[e].run = r /\ Store!Exists(r)
  BY <1>0, PlacedFacts DEF Carried
<1>2. execs[e] \in Exec
  BY DEF Carried, IInv, TypeOK
<1>3. CASE StepStart(e) \/ StepGiveUp(e)
  BY <1>0, <1>3, GotoFits DEF StepStart, StepGiveUp
<1>4. CASE StepDone(e)
  <2> DEFINE x == [execs[e] EXCEPT !.idx = @ + 1, !.task = 0]
  <2>0. execs[e].idx + 1 \in Nat
    BY <1>2 DEF Exec
  <2>1. x \in Exec /\ x.run = execs[e].run /\ x.ver = execs[e].ver /\ x.idx = execs[e].idx + 1
    BY <1>2, <2>0 DEF Exec
  <2>2. CASE Proceed(e, x)
    <3>1. PICK t \in TaskIds : /\ tasks[t].run = execs[e].run /\ tasks[t].step = StepOf(e)
                               /\ Standing(t) = "succeeded"
      BY <1>4 DEF StepDone, NewestOfStep, Newest, TasksOf
    <3>2. InPlace(t)
      BY <3>1 DEF Standing, Carried, Delivery, TasksTruthful, DoneIsInPlace, InPlace
    <3> HIDE DEF x
    <3> QED
      BY <1>0, <2>1, <2>2, <3>1, <3>2, NextStepFits
  <2>3. CASE Refused(e)
    BY <2>3, StopFits DEF Refused, Carried
  <2> QED
    BY <1>4, <2>2, <2>3 DEF StepDone
<1>5. CASE StepAttach(e)
  <2>1. PICK t \in TaskIds : Proceed(e, [execs[e] EXCEPT !.task = t])
    BY <1>5 DEF StepAttach, NewestOfStep, Newest, TasksOf
  <2> DEFINE x == [execs[e] EXCEPT !.task = t]
  <2>2. x \in Exec /\ x.run = execs[e].run /\ x.ver = execs[e].ver /\ x.idx = execs[e].idx
    BY <1>2 DEF Exec
  <2> HIDE DEF x
  <2> QED
    BY <1>0, <2>1, <2>2, SamePlaceFits DEF x
<1>6. CASE BeginTask(e)
  <2>1. CASE Refused(e)
    BY <2>1, StopFits DEF Refused, Carried
  <2>2. CASE \E t \in TaskIds : execs' = [execs EXCEPT ![e].pc = "fire", ![e].task = t]
    <3>1. /\ execs'[e].pc = "fire" /\ execs'[e].run = r /\ execs'[e].ver = execs[e].ver
          /\ execs'[e].idx = execs[e].idx
      BY <1>1, <1>2, <2>2 DEF Carried, IInv, TypeOK, Exec
    <3>2. PICK v, i : execs[e].ver = v /\ execs[e].idx = i
      OBVIOUS
    <3>3. Planned(r) /\ job[r].ver = v /\ UNCHANGED job /\ UNCHANGED code /\ Steps(r)' = Steps(r)
      BY <1>0, <1>1, <1>6, <2>2, <3>2
         DEF Carried, Fit, Beyond, StepKeeps, PlansKept, BeginTask, Refused
    <3>4. \A n \in 1..Len(Steps(r)) : n < i => code[v][Steps(r)[n]] # Missing
      BY <1>0, <1>1, <3>2 DEF Carried, Fit, BuiltUpTo
    <3> QED
      BY <3>1, <3>2, <3>3, <3>4 DEF Fit, BuiltUpTo, Planned, AtAStep
  <2> QED
    BY <1>6, <2>1, <2>2 DEF BeginTask
<1>7. CASE FireCoder(e)
  BY <1>0, <1>2, <1>7, SamePlaceFits DEF FireCoder
<1> QED
  BY <1>3, <1>4, <1>5, <1>6, <1>7 DEF StepNode

LEMMA WaitNodeFits ==
    ASSUME Carried, StepKeeps, NEW e \in Execs, WaitNode(e) \/ HandOver(e) \/ HandOverFails(e)
    PROVE  Fit(e)'
<1>0. execs[e].pc \in Building /\ ~At(e, "off") /\ execs[e] \in Exec
  BY DEF WaitNode, WaitWindow, EndTaskSucceeded, WaitEnds, EndTaskFailed, HandOver, HandOverFails, At,
         AtAStep, Building, Carried, IInv, TypeOK
<1>1. ASSUME NEW spent \in BOOLEAN, Proceed(e, [execs[e] EXCEPT !.spent = spent])
      PROVE  Fit(e)'
  <2> DEFINE x == [execs[e] EXCEPT !.spent = spent]
  <2>1. x \in Exec /\ x.run = execs[e].run /\ x.ver = execs[e].ver /\ x.idx = execs[e].idx
    BY <1>0 DEF Exec
  <2> HIDE DEF x
  <2> QED
    BY <1>0, <1>1, <2>1, SamePlaceFits DEF x
<1>2. ASSUME NEW spent \in BOOLEAN, EndTaskSucceeded(e, spent) PROVE Fit(e)'
  <2> DEFINE x == [execs[e] EXCEPT !.idx = @ + 1, !.task = 0, !.spent = spent]
  <2>0. execs[e].idx + 1 \in Nat
    BY <1>0 DEF Exec
  <2>1. x \in Exec /\ x.run = execs[e].run /\ x.ver = execs[e].ver /\ x.idx = execs[e].idx + 1
    BY <1>0, <2>0 DEF Exec
  <2>2. CASE Proceed(e, x)
    <3>1. At(e, "endok")
      BY <1>2 DEF EndTaskSucceeded
    <3>2. PICK t \in TaskIds : tasks[t].run = execs[e].run /\ tasks[t].step = StepOf(e) /\ InPlace(t)
      BY <3>1 DEF At, Carried, Delivery, Follows, Busy
    <3> HIDE DEF x
    <3> QED
      BY <2>1, <2>2, <3>1, <3>2, NextStepFits DEF At, AtAStep
  <2>3. CASE Refused(e)
    BY <2>3, StopFits DEF Refused, Carried
  <2> QED
    BY <1>2, <2>2, <2>3 DEF EndTaskSucceeded
<1>3. CASE WaitEnds(e)
  BY <1>0, <1>3, GotoFits DEF WaitEnds, At, AtAStep
<1>4. CASE EndTaskFailed(e)
  <2>1. CASE RecordFailure(e)
    BY <1>0, <2>1, GotoFits DEF RecordFailure
  <2>2. CASE Refused(e)
    BY <2>2, StopFits DEF Refused, Carried
  <2> QED
    BY <1>4, <2>1, <2>2 DEF EndTaskFailed
<1>5. CASE HandOver(e)
  BY <1>5, StopFits DEF HandOver, Carried
<1> QED
  BY <1>1, <1>2, <1>3, <1>4, <1>5 DEF WaitNode, WaitWindow, HandOverFails

LEMMA EndFits ==
    ASSUME Carried, StepKeeps, NEW e \in Execs, EndNode(e)
    PROVE  Fit(e)'
<1>0. ~At(e, "off")
  BY DEF EndNode, Assemble, RecordBundle, Publish, FinishSucceeded, FinishFailed, FailPoc, At
<1>1. PICK r \in RunIds : execs[e].run = r /\ Store!Exists(r)
  BY <1>0, PlacedFacts DEF Carried
<1>2. CASE Assemble(e)
  <2>1. Planned(r) /\ job[r].ver \in Versions /\ execs[e].pc \in Beyond
    BY <1>1, <1>2 DEF Assemble, At, Carried, Fit, Beyond, IInv, TypeOK, Job, Planned
  <2>2. CASE Goto(e, "fail")
    BY <1>0, <2>2, GotoFits
  <2>3. CASE bundle' = [bundle EXCEPT ![job[r].ver] = [made |-> TRUE, files |-> code[job[r].ver]]]
             /\ Goto(e, "record")
    <3>1. bundle'[job[r].ver].made
      BY <2>1, <2>3 DEF Carried, IInv, TypeOK
    <3> QED
      BY <1>0, <1>1, <2>1, <2>3, <3>1, GotoFits
  <2>4. CASE job[r].bundled /\ UNCHANGED bundle /\ Goto(e, "publish")
    <3>1. bundle'[job[r].ver].made
      BY <2>4 DEF Carried, Built
    <3> QED
      BY <1>0, <1>1, <2>1, <2>4, <3>1, GotoFits
  <2> QED
    BY <1>1, <1>2, <2>2, <2>3, <2>4 DEF Assemble
<1>3. CASE RecordBundle(e) \/ Publish(e)
  <2>1. bundle[job[r].ver].made /\ UNCHANGED bundle /\ execs[e].pc \in Beyond
    BY <1>1, <1>3 DEF RecordBundle, Publish, At, Carried, Fit, Beyond
  <2>2. \E pc \in {"publish", "finish", "fail"} : Goto(e, pc)
    BY <1>3 DEF RecordBundle, Publish
  <2> QED
    BY <1>0, <1>1, <2>1, <2>2, GotoFits
<1>4. CASE FinishSucceeded(e) \/ FailPoc(e)
  BY <1>4, StopFits DEF FinishSucceeded, FailPoc, Carried
<1>5. CASE FinishFailed(e)
  BY <1>0, <1>5, GotoFits DEF FinishFailed
<1> QED
  BY <1>2, <1>3, <1>4, <1>5 DEF EndNode

LEMMA ExecutionFits ==
    ASSUME Carried, StepKeeps, NEW e \in Execs, ExecutionSteps(e)
    PROVE  Fit(e)'
<1>1. ASSUME NEW started \in BOOLEAN, FireRaises(e, started) PROVE Fit(e)'
  <2>1. ~At(e, "off")
    BY <1>1 DEF FireRaises, At
  <2>2. CASE RecordFailure(e)
    BY <2>1, <2>2, GotoFits DEF RecordFailure
  <2>3. CASE Refused(e)
    BY <2>3, StopFits DEF Refused, Carried
  <2> QED
    BY <1>1, <2>2, <2>3 DEF FireRaises
<1>2. CASE AssembleFails(e)
  <2>1. ~At(e, "off")
    BY <1>2 DEF AssembleFails, At
  <2> QED
    BY <1>2, <2>1, GotoFits DEF AssembleFails
<1>3. CASE Die(e)
  BY <1>3, StopFits DEF Die, Carried
<1> QED
  BY <1>1, <1>2, <1>3, LoadFits, StepNodeFits, WaitNodeFits, EndFits
     DEF ExecutionSteps, Works, Breaks

(***************************************************************************)
(* Who is where                                                            *)
(***************************************************************************)

\* An execution stays with its run or is gone.
StaysOrStops(e) ==
    /\ \A d \in Execs \ {e} : execs'[d] = execs[d]
    /\ execs'[e].pc = "off" \/ execs'[e].run = execs[e].run

LEMMA GotoStays ==
    ASSUME IInv, NEW e \in Execs, NEW pc, Goto(e, pc) \/ Stop(e)
    PROVE  StaysOrStops(e)
BY DEF IInv, TypeOK, Exec, Goto, Stop, Off, StaysOrStops

LEMMA ProceedStays ==
    ASSUME IInv, NEW e \in Execs, NEW x, Proceed(e, x), x.run = execs[e].run
    PROVE  StaysOrStops(e)
<1>1. Route(x).run = x.run
  BY DEF Route
<1> QED
  BY <1>1 DEF IInv, TypeOK, Proceed, StaysOrStops

LEMMA OnlySpent ==
    ASSUME IInv, NEW e \in Execs, NEW spent, Proceed(e, [execs[e] EXCEPT !.spent = spent])
    PROVE  StaysOrStops(e)
<1> DEFINE x == [execs[e] EXCEPT !.spent = spent]
<1>1. x.run = execs[e].run
  BY DEF IInv, TypeOK, Exec
<1> HIDE DEF x
<1> QED
  BY <1>1, ProceedStays DEF x

LEMMA ExecsEffect ==
    ASSUME IInv, NEW e \in Execs, ExecutionSteps(e)
    PROVE  ~At(e, "off") /\ StaysOrStops(e)
<1>1. execs \in [Execs -> Exec] /\ execs[e] \in Exec
  BY DEF IInv, TypeOK
<1>2. ~At(e, "off")
  BY DEF ExecutionSteps, Works, Breaks, Load, StepNode, WaitNode, EndNode, LoadStored, Allocate,
       Persist, StepStart, StepDone, StepAttach, StepGiveUp, BeginTask, FireCoder, WaitWindow,
       EndTaskSucceeded, WaitEnds, EndTaskFailed, Assemble, RecordBundle, Publish,
       FinishSucceeded, FinishFailed, FailPoc, LoadFails, FireRaises, AssembleFails, Die,
       HandOver, HandOverFails, At
<1> SUFFICES StaysOrStops(e)
  BY <1>2
<1>3. CASE Load(e)
  <2>1. CASE LoadStored(e)
    <3> DEFINE x == [execs[e] EXCEPT !.ver = job[execs[e].run].ver, !.idx = 1]
    <3>1. Proceed(e, x) /\ x.run = execs[e].run
      BY <1>1, <2>1 DEF LoadStored, Exec
    <3> HIDE DEF x
    <3> QED
      BY <3>1, ProceedStays
  <2>2. CASE Allocate(e)
    <3>1. PICK v \in Versions : execs' = [execs EXCEPT ![e].pc = "persist", ![e].ver = v]
      BY <2>2 DEF Allocate
    <3> QED
      BY <1>1, <3>1 DEF StaysOrStops, Exec
  <2>3. CASE Persist(e)
    <3> DEFINE x == [execs[e] EXCEPT !.idx = 1]
    <3>1. Proceed(e, x) /\ x.run = execs[e].run
      BY <1>1, <2>3 DEF Persist, Exec
    <3> HIDE DEF x
    <3> QED
      BY <3>1, ProceedStays
  <2> QED
    BY <1>3, <2>1, <2>2, <2>3 DEF Load
<1>4. CASE StepNode(e)
  <2>1. CASE StepStart(e) \/ StepGiveUp(e)
    BY <2>1, GotoStays DEF StepStart, StepGiveUp
  <2>2. CASE StepDone(e)
    <3> DEFINE x == [execs[e] EXCEPT !.idx = @ + 1, !.task = 0]
    <3>1. x.run = execs[e].run
      BY <1>1 DEF Exec
    <3>2. Proceed(e, x) \/ Stop(e)
      BY <2>2 DEF StepDone, Refused
    <3> HIDE DEF x
    <3> QED
      BY <3>1, <3>2, ProceedStays, GotoStays
  <2>3. CASE StepAttach(e)
    <3>1. PICK t \in TaskIds : Proceed(e, [execs[e] EXCEPT !.task = t])
      BY <2>3 DEF StepAttach, NewestOfStep, Newest, TasksOf
    <3> DEFINE x == [execs[e] EXCEPT !.task = t]
    <3>2. x.run = execs[e].run
      BY <1>1 DEF Exec
    <3> HIDE DEF x
    <3> QED
      BY <3>1, <3>2, ProceedStays DEF x
  <2>4. CASE BeginTask(e)
    <3>1. Stop(e) \/ \E t \in TaskIds : execs' = [execs EXCEPT ![e].pc = "fire", ![e].task = t]
      BY <2>4 DEF BeginTask, Refused
    <3>2. ASSUME NEW t \in TaskIds, execs' = [execs EXCEPT ![e].pc = "fire", ![e].task = t]
          PROVE  StaysOrStops(e)
      BY <1>1, <3>2 DEF StaysOrStops, Exec
    <3> QED
      BY <3>1, <3>2, GotoStays
  <2>5. CASE FireCoder(e)
    BY <2>5, ProceedStays DEF FireCoder
  <2> QED
    BY <1>4, <2>1, <2>2, <2>3, <2>4, <2>5 DEF StepNode
<1>5. CASE WaitNode(e) \/ HandOver(e) \/ HandOverFails(e)
  <2>1. ASSUME NEW spent \in BOOLEAN, EndTaskSucceeded(e, spent) PROVE StaysOrStops(e)
    <3> DEFINE x == [execs[e] EXCEPT !.idx = @ + 1, !.task = 0, !.spent = spent]
    <3>1. x.run = execs[e].run
      BY <1>1 DEF Exec
    <3>2. Proceed(e, x) \/ Stop(e)
      BY <2>1 DEF EndTaskSucceeded, Refused
    <3> HIDE DEF x
    <3> QED
      BY <3>1, <3>2, ProceedStays, GotoStays
  <2>2. CASE WaitEnds(e) \/ EndTaskFailed(e) \/ HandOver(e)
    BY <2>2, GotoStays DEF WaitEnds, EndTaskFailed, RecordFailure, Refused, HandOver
  <2>3. CASE HandOverFails(e) \/ \E spent \in BOOLEAN : WaitWindow(e, spent)
    BY <2>3, OnlySpent DEF HandOverFails, WaitWindow
  <2> QED
    BY <1>5, <2>1, <2>2, <2>3 DEF WaitNode
<1>6. CASE EndNode(e) \/ Breaks(e) \/ FireRaises(e, TRUE)
  <2>1. Stop(e) \/ \E pc \in {"record", "publish", "finish", "fail", "failpoc"} : Goto(e, pc)
    BY <1>6 DEF EndNode, Assemble, RecordBundle, Publish, FinishSucceeded, FinishFailed, FailPoc,
                Breaks, LoadFails, AssembleFails, Die, FireRaises, RecordFailure, Refused
  <2> QED
    BY <2>1, GotoStays
<1> QED
  BY <1>3, <1>4, <1>5, <1>6 DEF ExecutionSteps, Works

LEMMA PioneersKeep ==
    ASSUME Carried, StepKeeps, CodeStep
    PROVE  Pioneers'
<1>0. \A r \in RunIds : ~Planned(r)' => ~Planned(r)
  BY DEF StepKeeps, PlansFixed, Planned
<1>1. ASSUME NEW e \in Execs, ExecutionSteps(e) PROVE Pioneers'
  <2>1. /\ ~At(e, "off")
        /\ \A d \in Execs \ {e} : execs'[d] = execs[d]
        /\ execs'[e].pc = "off" \/ execs'[e].run = execs[e].run
    BY <1>1, ExecsEffect DEF Carried, StaysOrStops
  <2>2. \A d \in Execs : ~At(d, "off")' => ~At(d, "off") /\ execs'[d].run = execs[d].run
    BY <2>1 DEF At
  <2>3. \A d \in Execs : ~At(d, "off") => execs[d].run \in RunIds
    BY PlacedFacts DEF Carried
  <2> QED
    BY <1>0, <2>2, <2>3 DEF Carried, Pioneers, Planned
<1>2. ASSUME NEW e \in Execs, NEW r \in RunIds, Enter(e, r), At(e, "off"),
             \A d \in Execs : ~At(d, "off") => execs[d].run # r \/ Planned(r)
      PROVE  Pioneers'
  <2>1. execs'[e].run = r /\ \A d \in Execs \ {e} : execs'[d] = execs[d]
    BY <1>2 DEF Enter, Off, Carried, IInv, TypeOK
  <2>2. \A d \in Execs : ~At(d, "off") => execs[d].run \in RunIds
    BY PlacedFacts DEF Carried
  <2>3. \A d \in Execs \ {e} : (~At(d, "off"))' <=> ~At(d, "off")
    BY <2>1 DEF At
  <2> QED
    BY <1>0, <1>2, <2>1, <2>2, <2>3 DEF Carried, Pioneers, Planned
<1>3. ASSUME NEW e \in Execs, Creates(e) PROVE Pioneers'
  <2>1. PICK r \in RunIds : ~Store!Exists(r) /\ At(e, "off") /\ Enter(e, r)
    BY <1>3, NewRunEffect DEF Carried
  <2>2. \A d \in Execs : ~At(d, "off") => execs[d].run # r
    BY <2>1, PlacedFacts DEF Carried
  <2> QED
    BY <1>2, <2>1, <2>2
<1>4. ASSUME NEW e \in Execs, NEW r \in RunIds, Planned(r), ContinueRun(e, r) PROVE Pioneers'
  BY <1>2, <1>4 DEF ContinueRun
<1>5. CASE UNCHANGED execs
  <2>1. \A d \in Execs : ~At(d, "off") => execs[d].run \in RunIds
    BY PlacedFacts DEF Carried
  <2> QED
    BY <1>0, <1>5, <2>1 DEF Carried, Pioneers, Planned, At
<1>6. Passing \/ (\E t \in TaskIds : CoderSteps(t)) \/ (\E r \in RunIds : Abandon(r))
         \/ (\E spec \in Specs : Approve(spec))
      => UNCHANGED execs
  BY DEF Passing, CoderSteps, CoderReads, CoderWrites, CoderMarks, CoderFails, CoderVanishes, TaskAges,
         Abandon, Approve, codeVars
<1> QED
  BY <1>1, <1>3, <1>4, <1>5, <1>6 DEF CodeStep

LEMMA AllFit ==
    ASSUME Carried, StepKeeps, CodeStep
    PROVE  \A e \in Execs : Fit(e)'
<1>1. ASSUME NEW e \in Execs, ExecutionSteps(e), NEW d \in Execs PROVE Fit(d)'
  <2>1. CASE d = e
    BY <1>1, <2>1, ExecutionFits
  <2>2. CASE d # e
    <3>1. ~At(e, "off") /\ execs'[d] = execs[d]
      BY <1>1, <2>2, ExecsEffect DEF Carried, StaysOrStops
    <3>2. ASSUME execs[d].pc = "persist" PROVE job'[execs[d].run].ver = job[execs[d].run].ver
      <4>1. CASE VersionsKept
        BY <3>2, <4>1, PlacedFacts DEF VersionsKept, Carried, At
      <4>2. CASE ~VersionsKept
        <5>1. Persist(e)
          BY <1>1, <4>2, ExecutionVersions DEF Carried
        <5>2. execs[e].run # execs[d].run
          BY <2>2, <3>1, <3>2, <5>1 DEF Carried, Pioneers, Fit, At
        <5>3. execs[e].run \in RunIds /\ execs[d].run \in RunIds
          BY <3>1, <3>2, PlacedFacts DEF Carried, At
        <5> QED
          BY <5>1, <5>2, <5>3 DEF Persist, Carried, IInv, TypeOK
      <4> QED
        BY <4>1, <4>2
    <3> QED
      BY <3>1, <3>2, OthersFit
  <2> QED
    BY <2>1, <2>2
<1>2. ASSUME NEW e \in Execs, NEW r \in RunIds, Enter(e, r), VersionsKept, NEW d \in Execs
      PROVE  Fit(d)'
  <2>1. CASE d = e
    BY <1>2, <2>1, EnterFits DEF Carried
  <2>2. CASE d # e
    <3>1. execs'[d] = execs[d]
      BY <1>2, <2>2 DEF Enter, Carried, IInv, TypeOK
    <3>2. execs[d].pc = "persist" => job'[execs[d].run].ver = job[execs[d].run].ver
      BY <1>2, PlacedFacts DEF VersionsKept, Carried, At
    <3> QED
      BY <3>1, <3>2, OthersFit
  <2> QED
    BY <2>1, <2>2
<1>3. ASSUME NEW e \in Execs, Creates(e) PROVE VersionsKept /\ \E r \in RunIds : Enter(e, r)
  <2>1. PICK r \in RunIds, inputs \in Job :
           ~Store!Exists(r) /\ inputs.ver = 0 /\ job' = [job EXCEPT ![r] = inputs] /\ Enter(e, r)
    BY <1>3, NewRunEffect DEF Carried
  <2> QED
    BY <2>1 DEF VersionsKept, Carried, PlannedExist, Planned, IInv, TypeOK
<1>4. ASSUME NEW e \in Execs, NEW r \in RunIds, ContinueRun(e, r) PROVE VersionsKept /\ Enter(e, r)
  BY <1>4 DEF ContinueRun, VersionsKept
<1>5. ASSUME UNCHANGED <<job, execs>>, NEW d \in Execs PROVE Fit(d)'
  BY <1>5, OthersFit
<1>6. Passing \/ (\E t \in TaskIds : CoderSteps(t)) \/ (\E r \in RunIds : Abandon(r))
         \/ (\E spec \in Specs : Approve(spec))
      => UNCHANGED <<job, execs>>
  BY DEF Passing, CoderSteps, CoderReads, CoderWrites, CoderMarks, CoderFails, CoderVanishes, TaskAges,
         Abandon, Approve, codeVars
<1> QED
  BY <1>1, <1>2, <1>3, <1>4, <1>5, <1>6 DEF CodeStep

(***************************************************************************)
(* Tasks, plans and bundles                                                *)
(***************************************************************************)

TasksStayWithRuns ==
    \A t \in TaskIds : /\ tasks'[t].run = tasks[t].run
                       /\ tasks'[t].step = tasks[t].step
                       /\ tasks'[t].ver = tasks[t].ver

LEMMA TaskFinished ==
    ASSUME IInv, NEW t, NEW status, tasks' = Finish(t, status)
    PROVE  TasksStayWithRuns
BY DEF IInv, TypeOK, Task, Finish, TasksStayWithRuns

LEMMA TasksEffect ==
    ASSUME IInv, CodeStep
    PROVE  TasksStayWithRuns \/ \E e \in Execs : BeginTask(e)
<1>1. ASSUME NEW e \in Execs, FireCoder(e) PROVE TasksStayWithRuns
  <2>1. PICK coder : tasks' = [tasks EXCEPT ![execs[e].task].coder = coder]
    BY <1>1 DEF FireCoder
  <2> QED
    BY <2>1 DEF IInv, TypeOK, Task, TasksStayWithRuns
<1>2. ASSUME NEW e \in Execs, NEW started \in BOOLEAN, FireRaises(e, started) PROVE TasksStayWithRuns
  <2>1. PICK coder : tasks' = [Finish(execs[e].task, "failed") EXCEPT ![execs[e].task].coder = coder]
    BY <1>2 DEF FireRaises
  <2> QED
    BY <2>1 DEF IInv, TypeOK, Task, Finish, TasksStayWithRuns
<1>3. ASSUME NEW e \in Execs, ExecutionSteps(e)
      PROVE  TasksStayWithRuns \/ BeginTask(e)
  <2>1. \/ UNCHANGED tasks \/ BeginTask(e) \/ FireCoder(e)
        \/ \E started \in BOOLEAN : FireRaises(e, started)
        \/ \E t, status : tasks' = Finish(t, status)
    BY <1>3
       DEF ExecutionSteps, Works, Breaks, Load, StepNode, WaitNode, EndNode, LoadStored, Allocate,
           Persist, StepStart, StepDone, StepAttach, StepGiveUp, WaitWindow,
           EndTaskSucceeded, WaitEnds, EndTaskFailed, Assemble, RecordBundle, Publish,
           FinishSucceeded, FinishFailed, FailPoc, LoadFails, AssembleFails, Die,
           HandOver, HandOverFails
  <2> QED
    BY <1>1, <1>2, <2>1, TaskFinished DEF TasksStayWithRuns
<1>4. ASSUME NEW t \in TaskIds, CoderSteps(t) PROVE TasksStayWithRuns
  <2>1. CASE CoderReads(t)
    BY <2>1 DEF CoderReads, IInv, TypeOK, Task, TasksStayWithRuns
  <2>2. CASE CoderWrites(t) \/ CoderVanishes(t)
    <3>1. PICK coder : tasks' = [tasks EXCEPT ![t].coder = coder]
      BY <2>2 DEF CoderWrites, CoderVanishes
    <3> QED
      BY <3>1 DEF IInv, TypeOK, Task, TasksStayWithRuns
  <2>3. CASE CoderMarks(t) \/ CoderFails(t)
    <3>1. PICK status : tasks' = [tasks EXCEPT ![t].status = status, ![t].coder = "gone"]
      BY <2>3 DEF CoderMarks, CoderFails
    <3> QED
      BY <3>1 DEF IInv, TypeOK, Task, TasksStayWithRuns
  <2>4. CASE TaskAges(t)
    BY <2>4 DEF TaskAges, IInv, TypeOK, Task, TasksStayWithRuns
  <2> QED
    BY <1>4, <2>1, <2>2, <2>3, <2>4 DEF CoderSteps
<1>5. ASSUME NEW e \in Execs, Creates(e) PROVE UNCHANGED tasks
  BY <1>5, NewRunEffect
<1>6. Passing \/ (\E r \in RunIds : Abandon(r))
         \/ (\E spec \in Specs : Approve(spec)) \/ (\E e \in Execs, r \in RunIds : ContinueRun(e, r))
      => UNCHANGED tasks
  BY DEF Passing, Abandon, Approve, ContinueRun, codeVars
<1> QED
  BY <1>3, <1>4, <1>5, <1>6 DEF CodeStep, TasksStayWithRuns

LEMMA TasksVersionedKeeps ==
    ASSUME Carried, StepKeeps, CodeStep
    PROVE  TasksVersioned'
<1>1. \A r \in RunIds : Planned(r) => Planned(r)' /\ job'[r].ver = job[r].ver
  BY DEF StepKeeps, PlansFixed, Planned
<1>2. \A t \in TaskIds : tasks[t].run \in RunIds \cup {0}
  BY DEF Carried, IInv, TypeOK, Task
<1>3. CASE TasksStayWithRuns
  BY <1>1, <1>2, <1>3 DEF Carried, TasksVersioned, TasksStayWithRuns, Planned
<1>4. ASSUME NEW e \in Execs, BeginTask(e) PROVE TasksVersioned'
  <2>1. PICK r \in RunIds : execs[e].run = r
    BY <1>4, PlacedFacts DEF BeginTask, At, Carried
  <2>2. PICK t \in TaskIds : tasks' = [tasks EXCEPT ![t] = [NoTask EXCEPT !.run = r, !.step = StepOf(e),
                                              !.ver = execs[e].ver, !.status = "running",
                                              !.coder = "unfired"]]
    BY <1>4, <2>1 DEF BeginTask
  <2>3. tasks'[t].run = r /\ tasks'[t].ver = execs[e].ver /\ \A u \in TaskIds \ {t} : tasks'[u] = tasks[u]
    BY <2>2 DEF NoTask, Carried, IInv, TypeOK
  <2>4. Planned(r) /\ job[r].ver = execs[e].ver
    BY <1>4, <2>1 DEF BeginTask, At, Carried, Fit, Beyond, AtAStep
  <2> QED
    BY <1>1, <1>2, <2>3, <2>4 DEF Carried, TasksVersioned, Planned
<1> QED
  BY <1>3, <1>4, TasksEffect DEF Carried

LEMMA PlansFixedByAll ==
    ASSUME Carried, CodeStep
    PROVE  PlansFixed
<1>1. ASSUME NEW e \in Execs, Persist(e) PROVE PlansFixed
  <2>1. execs[e].run \in RunIds /\ ~Planned(execs[e].run)
    BY <1>1, PlacedFacts DEF Persist, At, Carried, Fit
  <2> QED
    BY <1>1, <2>1 DEF Persist, PlansFixed, Carried, IInv, TypeOK
<1> QED
  BY <1>1, VersionsEffect DEF VersionsKept, PlansFixed, Carried

LEMMA AllKeep ==
    ASSUME Carried, CodeStep
    PROVE  StepKeeps
BY InputsEffect, PlansFixedByAll, StepIInv, CodeKeptByAll, BundlesKeptByAll DEF StepKeeps, Carried

LEMMA PlannedExistKeeps ==
    ASSUME Carried, StepKeeps, CodeStep
    PROVE  PlannedExist'
<1>1. \A r \in RunIds : Store!Exists(r) => Store!Exists(r)'
  BY DEF StepKeeps, InputsKept
<1>2. ASSUME NEW e \in Execs, Persist(e) PROVE PlannedExist'
  <2>1. execs[e].run \in RunIds /\ Store!Exists(execs[e].run)
    BY <1>2, PlacedFacts DEF Persist, At, Carried
  <2>2. \A r \in RunIds \ {execs[e].run} : job'[r] = job[r]
    BY <1>2, <2>1 DEF Persist, Carried, IInv, TypeOK
  <2> QED
    BY <1>1, <2>1, <2>2 DEF Carried, PlannedExist, Planned
<1>3. CASE VersionsKept
  BY <1>1, <1>3 DEF Carried, PlannedExist, Planned, VersionsKept
<1> QED
  BY <1>2, <1>3, VersionsEffect DEF Carried

\* What a plan does not rebuild is carried over.
LEMMA PlanCovers ==
    ASSUME NEW r \in RunIds, Plannable(r), NEW a \in Artefacts, a \notin Kept(r)
    PROVE  \E n \in 1..Len(Steps(r)) : Steps(r)[n] = a
<1>1. a \in Range(Steps(r))
  BY PlanAssumption DEF Plannable, Kept, CarriedOver, Steps, PlanSteps, Artefacts
<1>2. DOMAIN Steps(r) = 1..Len(Steps(r))
  BY StepsTyped
<1> QED
  BY <1>1, <1>2 DEF Range

LEMMA AssembledIsComplete ==
    ASSUME Carried, NEW e \in Execs, At(e, "assemble"), NEW a \in Artefacts
    PROVE  code[job[execs[e].run].ver][a] # Missing
<1>1. PICK r \in RunIds : execs[e].run = r /\ Store!Exists(r) /\ Plannable(r)
  BY PlacedFacts DEF At, Carried
<1>2. PICK i : execs[e].idx = i
  OBVIOUS
<1>3. /\ Planned(r) /\ job[r].ver = execs[e].ver
      /\ \A n \in 1..Len(Steps(r)) : n < i => code[job[r].ver][Steps(r)[n]] # Missing
      /\ i > Len(Steps(r))
  BY <1>1, <1>2 DEF At, Carried, Fit, Beyond, Building, BuiltUpTo
<1>4. i \in Nat /\ Len(Steps(r)) \in Nat
  BY <1>1, <1>2, StepsTyped DEF Carried, IInv, TypeOK, Exec
<1>5. CASE a \in Kept(r)
  BY <1>1, <1>3, <1>5 DEF Carried, Built, Has
<1>6. CASE a \notin Kept(r)
  BY <1>1, <1>3, <1>4, <1>6, PlanCovers
<1> QED
  BY <1>5, <1>6

LEMMA BundlesComplete ==
    ASSUME Carried, StepKeeps, CodeStep, NEW v \in Versions, bundle'[v].made
    PROVE  /\ \A a \in Artefacts : code'[v][a] # Missing
           /\ \A a \in Artefacts : bundle'[v].files[a] # Missing
<1>1. CASE bundle'[v] = bundle[v]
  BY <1>1 DEF Carried, Built, Has, StepKeeps, CodeKept
<1>2. ASSUME NEW e \in Execs, Assemble(e), bundle'[v] # bundle[v]
      PROVE  /\ \A a \in Artefacts : code'[v][a] # Missing
             /\ \A a \in Artefacts : bundle'[v].files[a] # Missing
  <2>1. /\ v = job[execs[e].run].ver /\ bundle'[v].files = code[v]
        /\ At(e, "assemble") /\ UNCHANGED code
    BY <1>2 DEF Assemble, Carried, IInv, TypeOK
  <2> QED
    BY <2>1, AssembledIsComplete
<1> QED
  BY <1>1, <1>2, BundleEffect DEF Carried

LEMMA CarriedOverKeeps ==
    ASSUME Carried, StepKeeps, CodeStep, NEW r \in RunIds, Planned(r)'
    PROVE  Has(job[r].ver, Kept(r))'
<1>1. CASE Planned(r)
  <2>1. job'[r].ver = job[r].ver /\ job[r].ver \in Versions /\ Kept(r)' = Kept(r)
    BY <1>1, KeptStays DEF StepKeeps, PlansFixed, Carried, PlannedExist, IInv, TypeOK, Job, Planned
  <2>2. \A a \in Kept(r) : code[job[r].ver][a] # Missing
    BY <1>1 DEF Carried, Built, Has
  <2>3. \A a \in Kept(r) : code'[job[r].ver][a] # Missing
    BY <2>1, <2>2, KeptFacts DEF StepKeeps, CodeKept
  <2> QED
    BY <2>1, <2>3 DEF Has
<1>2. CASE ~Planned(r)
  <2>1. PICK e \in Execs : Persist(e)
    BY <1>2, VersionsEffect DEF VersionsKept, Planned, Carried
  <2>2. execs[e].run = r /\ Store!Exists(r)
    BY <1>2, <2>1, PlacedFacts DEF Persist, Planned, At, Carried, IInv, TypeOK
  <2>3. job'[r].ver = execs[e].ver /\ UNCHANGED code /\ Kept(r)' = Kept(r)
    BY <2>1, <2>2, KeptStays DEF StepKeeps, Persist, Carried, IInv, TypeOK, Job
  <2>4. \A a \in Kept(r) : code[execs[e].ver][a] # Missing
    BY <2>1, <2>2 DEF Persist, At, Carried, Fit, Has
  <2> QED
    BY <2>3, <2>4 DEF Has
<1> QED
  BY <1>1, <1>2

LEMMA BundledKeeps ==
    ASSUME Carried, StepKeeps, CodeStep, NEW r \in RunIds, job'[r].bundled
    PROVE  Planned(r)' /\ bundle'[job'[r].ver].made
<1>1. CASE job[r].bundled
  BY <1>1 DEF Carried, Built, StepKeeps, PlansFixed, BundlesKept, Planned, IInv, TypeOK, Job
<1>2. ASSUME ~job[r].bundled, NEW e \in Execs, ExecutionSteps(e)
      PROVE  RecordBundle(e) /\ execs[e].run = r
  <2>1. ASSUME ~At(e, "off"), NEW done, job' = [job EXCEPT ![execs[e].run].done = done]
        PROVE  FALSE
    <3>1. job'[r] = job[r] \/ job'[r] = [job[r] EXCEPT !.done = done]
      BY <2>1 DEF Carried, IInv, TypeOK
    <3> QED
      BY <1>2, <3>1 DEF Carried, IInv, TypeOK, Job
  <2>2. ASSUME Persist(e) PROVE FALSE
    <3>1. job'[r] = job[r] \/ job'[r] = [job[r] EXCEPT !.ver = execs[e].ver]
      BY <2>2 DEF Persist, Carried, IInv, TypeOK
    <3> QED
      BY <1>2, <3>1 DEF Carried, IInv, TypeOK, Job
  <2>3. RecordBundle(e)
    <3>1. CASE ~At(e, "off") /\ \E done : job' = [job EXCEPT ![execs[e].run].done = done]
      BY <1>2, <2>1, <3>1
    <3>2. CASE UNCHANGED job
      BY <1>2, <3>2
    <3>3. CASE Persist(e)
      BY <1>2, <2>2, <3>3
    <3> QED
      BY <1>2, <3>1, <3>2, <3>3, JobFields DEF Carried
  <2> QED
    BY <1>2, <2>3 DEF RecordBundle, Carried, IInv, TypeOK
<1>3. ASSUME NEW e \in Execs, RecordBundle(e), execs[e].run = r
      PROVE  Planned(r)' /\ bundle'[job'[r].ver].made
  <2>1. Planned(r) /\ bundle[job[r].ver].made
    BY <1>3 DEF RecordBundle, At, Carried, Fit, Beyond
  <2> QED
    BY <1>3, <2>1 DEF RecordBundle, StepKeeps, PlansFixed, Planned
<1>4. ASSUME ~job[r].bundled, NEW e \in Execs, Creates(e) PROVE FALSE
  <2>1. PICK q \in RunIds, inputs \in Job : ~inputs.bundled /\ job' = [job EXCEPT ![q] = inputs]
    BY <1>4, NewRunEffect DEF Carried
  <2> QED
    BY <1>4, <2>1 DEF Carried, IInv, TypeOK
<1>5. CASE UNCHANGED job
  BY <1>1, <1>5
<1>6. (\E t \in TaskIds : CoderSteps(t)) \/ Passing \/ (\E q \in RunIds : Abandon(q))
         \/ (\E spec \in Specs : Approve(spec)) \/ (\E e \in Execs, q \in RunIds : ContinueRun(e, q))
      => UNCHANGED job
  BY DEF CoderSteps, CoderReads, CoderWrites, CoderMarks, CoderFails, CoderVanishes, TaskAges, Passing,
         Abandon, Approve, ContinueRun, codeVars
<1> QED
  BY <1>1, <1>2, <1>3, <1>4, <1>5, <1>6 DEF CodeStep

LEMMA PocEffect ==
    ASSUME IInv, CodeStep
    PROVE  poc'.code = poc.code \/ \E e \in Execs : Publish(e)
<1>1. ASSUME NEW e \in Execs, ExecutionSteps(e)
      PROVE  poc'.code = poc.code \/ Publish(e)
  BY <1>1
     DEF ExecutionSteps, Works, Breaks, Load, StepNode, WaitNode, EndNode, LoadStored, Allocate,
         Persist, StepStart, StepDone, StepAttach, StepGiveUp, BeginTask, FireCoder, WaitWindow,
         EndTaskSucceeded, WaitEnds, EndTaskFailed, Assemble, RecordBundle,
         FinishSucceeded, FinishFailed, FailPoc, LoadFails, FireRaises, AssembleFails, Die,
         HandOver, HandOverFails, IInv, TypeOK
<1>2. ASSUME NEW e \in Execs, Creates(e) PROVE poc'.code = poc.code
  BY <1>2, NewRunEffect
<1>3. (\E t \in TaskIds : CoderSteps(t)) \/ Passing \/ (\E q \in RunIds : Abandon(q))
         \/ (\E spec \in Specs : Approve(spec)) \/ (\E e \in Execs, q \in RunIds : ContinueRun(e, q))
      => poc'.code = poc.code
  BY DEF CoderSteps, CoderReads, CoderWrites, CoderMarks, CoderFails, CoderVanishes, TaskAges, Passing,
         Abandon, Approve, ContinueRun, codeVars, IInv, TypeOK
<1> QED
  BY <1>1, <1>2, <1>3 DEF CodeStep

LEMMA PublishedKeeps ==
    ASSUME Carried, StepKeeps, CodeStep, poc'.code # 0
    PROVE  bundle'[poc'.code].made
<1>1. CASE poc'.code = poc.code
  BY <1>1 DEF Carried, Built, StepKeeps, BundlesKept, IInv, TypeOK
<1>2. ASSUME NEW e \in Execs, Publish(e) PROVE bundle'[poc'.code].made
  <2>1. bundle[job[execs[e].run].ver].made /\ UNCHANGED bundle
    BY <1>2 DEF Publish, At, Carried, Fit
  <2> QED
    BY <1>2, <2>1 DEF Publish, Carried, IInv, TypeOK
<1> QED
  BY <1>1, <1>2, PocEffect DEF Carried

LEMMA StepCarried ==
    ASSUME Carried, CodeStep
    PROVE  Carried'
<1>1. StepKeeps
  BY AllKeep
<1>2. IInv' /\ Delivery'
  BY StepIInv, StepDelivery DEF Carried
<1>3. Built'
  BY <1>1, BundlesComplete, CarriedOverKeeps, BundledKeeps, PublishedKeeps DEF Built, Has
<1> QED
  BY <1>1, <1>2, <1>3, PlannedExistKeeps, PioneersKeep, TasksVersionedKeeps, AllFit DEF Carried

(***************************************************************************)
(* Messages and calls                                                      *)
(***************************************************************************)

SystemInv == Carried /\ MailSane /\ CallsSane

LEMMA NewestIsARun == NewestRun \in RunIds \cup {0}
<1>1. Created \subseteq 1..MaxRuns /\ MaxRuns \in Int
  BY CodeAssumption DEF Created, RunIds
<1>2. IsFiniteSet(1..MaxRuns) /\ Cardinality(1..MaxRuns) <= MaxRuns
  <2>1. MaxRuns \in Nat /\ MaxRuns \in Int /\ 1 \in Int
    BY CodeAssumption
  <2>2. /\ IsFiniteSet(1..MaxRuns)
        /\ Cardinality(1..MaxRuns) = IF 1 > MaxRuns THEN 0 ELSE MaxRuns - 1 + 1
    BY <2>1, FS_Interval
  <2> QED
    BY <2>1, <2>2
<1>3. /\ Cardinality(Created) \in Nat /\ Cardinality(1..MaxRuns) \in Nat
      /\ Cardinality(Created) <= Cardinality(1..MaxRuns)
  BY <1>1, <1>2, FS_Subset, FS_CardinalityType
<1> QED
  BY <1>1, <1>2, <1>3, CodeAssumption DEF NewestRun, RunIds

\* A message that was sane when it was sent stays so.
LEMMA MailStays ==
    ASSUME SystemInv, StepKeeps, NEW s \in Mailbox
    PROVE  SaneMessage(mail[s])'  \/ mail'[s] # mail[s]
BY DEF SystemInv, MailSane, SaneMessage, StepKeeps, InputsKept, PlansFixed, Planned

LEMMA MailKeeps ==
    ASSUME SystemInv, StepKeeps, NEW s \in Mailbox, NEW m, SaneMessage(m)',
           mail' = [mail EXCEPT ![s] = m]
    PROVE  MailSane'
<1>1. mail' \in [Mailbox -> Message]
  BY DEF SystemInv, MailSane, SaneMessage
<1>2. ASSUME NEW q \in Mailbox PROVE SaneMessage(mail[q])'
  <2>1. CASE q = s
    <3>1. mail'[q] = m
      BY <2>1 DEF SystemInv, MailSane
    <3> QED
      BY <3>1 DEF SaneMessage
  <2>2. CASE q # s
    BY <2>2, MailStays DEF SystemInv, MailSane
  <2> QED
    BY <2>1, <2>2
<1> QED
  BY <1>1, <1>2 DEF MailSane

LEMMA NoMailIsSane == NoMail \in Message /\ NoMail.tool = "none"
BY DEF NoMail, Message

LEMMA TakeKeeps ==
    ASSUME SystemInv, StepKeeps, NEW s \in Mailbox, Take(s)
    PROVE  MailSane'
BY NoMailIsSane, MailKeeps DEF Take, SaneMessage

LEMMA PostKeeps ==
    ASSUME SystemInv, StepKeeps, NEW m, SaneMessage(m)', Post(m)
    PROVE  MailSane'
BY MailKeeps DEF Post

LEMMA NoPostKeeps ==
    ASSUME SystemInv, StepKeeps, UNCHANGED mail
    PROVE  MailSane'
BY MailStays DEF SystemInv, MailSane

\* The requests that are sent are sane.
LEMMA StartIsSane ==
    ASSUME NEW u \in Users \cup {"nobody", "deploy", "self"}, NEW spec \in Specs \cup {0}
    PROVE  SaneMessage(StartRequest(u, spec))'
BY DEF StartRequest, NoMail, Message, SaneMessage

LEMMA RepairIsSane ==
    ASSUME NEW v \in Versions, NEW failure \in Components \cup {Mismatch}
    PROVE  SaneMessage(RepairRequest(v, failure))'
BY DEF RepairRequest, NoMail, Message, SaneMessage

LEMMA ContinueIsSane ==
    ASSUME NEW u \in Users \cup {"nobody", "deploy", "self"}, NEW r \in RunIds,
           Store!Exists(r)', Planned(r)'
    PROVE  SaneMessage(ContinueRequest(u, r))'
<1> DEFINE m == ContinueRequest(u, r)
<1>1. m \in Message /\ m.tool = "continue" /\ m.run = r
  BY DEF ContinueRequest, NoMail, Message
<1> HIDE DEF m
<1>2. SaneMessage(m)'
  BY <1>1 DEF SaneMessage, Store!Exists, Planned
<1> QED
  BY <1>2 DEF m, ContinueRequest, SaneMessage

LEMMA FireKeeps ==
    ASSUME SystemInv, StepKeeps, NEW m, SaneMessage(m)', Fire(m)
    PROVE  MailSane'
BY PostKeeps, NoPostKeeps DEF Fire

LEMMA ChatMails ==
    ASSUME SystemInv, StepKeeps, NEW u \in Users, Chat(u)
    PROVE  MailSane' /\ CallsSane'
<1>0. chat \in [Users -> Call] /\ NoCall \in Call
  BY DEF SystemInv, CallsSane, NoCall, Call
<1>1. ASSUME NEW call \in {"start", "retry"}, NEW spec \in Specs, FindStale(u, call, spec)
      PROVE  MailSane' /\ CallsSane'
  <2> DEFINE c == [call |-> call, run |-> NewestRun, spec |-> spec]
  <2>1. c \in Call /\ c.run \in RunIds
    BY <1>1, NewestIsARun DEF FindStale, Call
  <2>2. chat' = [chat EXCEPT ![u] = c] /\ UNCHANGED mail
    BY <1>1 DEF FindStale
  <2> HIDE DEF c
  <2>3. CallsSane'
    BY <1>0, <2>1, <2>2 DEF SystemInv, CallsSane
  <2> QED
    BY <2>2, <2>3, NoPostKeeps
<1>2. ASSUME NEW spec \in Specs, ChatStart(u, spec) PROVE MailSane' /\ CallsSane'
  BY <1>2, StartIsSane, FireKeeps DEF ChatStart, SystemInv, CallsSane
<1>3. ASSUME NEW spec \in Specs, ChatRetry(u, spec) PROVE MailSane' /\ CallsSane'
  <2>1. CASE NewestRun # 0 /\ Resumable(NewestRun)
    <3>1. PICK r \in RunIds : NewestRun = r
      BY <2>1, NewestIsARun
    <3>2. Store!Exists(r)' /\ Planned(r)'
      BY <1>3, <2>1, <3>1 DEF Resumable, Planned, ChatRetry, vars, codeVars, Store!Exists
    <3>3. Fire(ContinueRequest(u, r))
      BY <1>3, <2>1, <3>1 DEF ChatRetry
    <3> QED
      BY <1>3, <3>2, <3>3, ContinueIsSane, FireKeeps DEF ChatRetry, SystemInv, CallsSane
  <2>2. CASE ~(NewestRun # 0 /\ Resumable(NewestRun))
    <3>1. Fire(StartRequest(u, spec))
      BY <1>3, <2>2 DEF ChatRetry
    <3> QED
      BY <1>3, <3>1, StartIsSane, FireKeeps DEF ChatRetry, SystemInv, CallsSane
  <2> QED
    BY <2>1, <2>2
<1>4. CASE AbandonAndGoOn(u)
  <2>1. PICK r \in RunIds : chat[u].run = r
    BY <1>4 DEF AbandonAndGoOn, SystemInv, CallsSane
  <2>2. CallsSane'
    BY <1>0, <1>4 DEF AbandonAndGoOn, SystemInv, CallsSane
  <2>3. chat[u].spec \in Specs \cup {0}
    BY <1>0 DEF Call
  <2>4. PICK m : Fire(m) /\ (m = StartRequest(u, chat[u].spec) \/ (m = ContinueRequest(u, r) /\ Planned(r)))
    BY <1>4, <2>1 DEF AbandonAndGoOn
  <2>5. Planned(r) => Store!Exists(r)' /\ Planned(r)'
    BY DEF SystemInv, Carried, PlannedExist, StepKeeps, InputsKept, PlansFixed, Planned
  <2>6. SaneMessage(m)'
    <3>1. CASE m = StartRequest(u, chat[u].spec)
      <4>1. PICK spec \in Specs \cup {0} : chat[u].spec = spec
        BY <2>3
      <4>2. SaneMessage(StartRequest(u, spec))' /\ m = StartRequest(u, spec)
        BY <3>1, <4>1, StartIsSane
      <4> QED
        BY <4>2 DEF SaneMessage, StartRequest
    <3>2. CASE m = ContinueRequest(u, r) /\ Planned(r)
      BY <2>5, <3>2, ContinueIsSane DEF SaneMessage, ContinueRequest
    <3> QED
      BY <2>4, <3>1, <3>2
  <2> QED
    BY <2>2, <2>4, <2>6, FireKeeps
<1> QED
  BY <1>1, <1>2, <1>3, <1>4 DEF Chat

LEMMA ExecutionMails ==
    ASSUME SystemInv, StepKeeps, NEW e \in Execs, Execution(e)
    PROVE  MailSane' /\ CallsSane'
<1>1. ASSUME At(e, "handover"), NEW m, m = ContinueRequest("self", execs[e].run), Post(m)
      PROVE  MailSane'
  <2>1. PICK r \in RunIds : execs[e].run = r /\ Store!Exists(r)
    BY <1>1, PlacedFacts DEF At, SystemInv, Carried
  <2>2. Planned(r)
    BY <1>1, <2>1 DEF At, SystemInv, Carried, Fit, Beyond
  <2>3. Store!Exists(r)' /\ Planned(r)'
    BY <2>1, <2>2 DEF StepKeeps, InputsKept, PlansFixed, Planned
  <2>4. SaneMessage(ContinueRequest("self", r))' /\ m = ContinueRequest("self", r)
    BY <1>1, <2>1, <2>3, ContinueIsSane
  <2> QED
    BY <1>1, <2>4, PostKeeps
<1>2. UNCHANGED chat
  BY DEF Execution, OnlyCode, HandOverSends, HandOverRaises
<1>3. UNCHANGED mail \/ (At(e, "handover") /\ Post(ContinueRequest("self", execs[e].run)))
  BY DEF Execution, OnlyCode, HandOverSends, HandOverRaises, HandOver, HandOverFails
<1> QED
  BY <1>1, <1>2, <1>3, NoPostKeeps DEF SystemInv, CallsSane

LEMMA SystemStep ==
    ASSUME SystemInv, [SystemNext]_sysVars
    PROVE  SystemInv' /\ StepKeeps
<1>1. CodeStep
  BY SystemSteps DEF SystemInv, Carried, IInv
<1>2. StepKeeps /\ Carried'
  BY <1>1, AllKeep, StepCarried DEF SystemInv
<1>3. ASSUME NEW s \in Mailbox, Take(s), UNCHANGED chat PROVE MailSane' /\ CallsSane'
  BY <1>2, <1>3, TakeKeeps DEF SystemInv, CallsSane
<1>4. CASE UNCHANGED <<mail, chat>>
  BY <1>2, <1>4, NoPostKeeps DEF SystemInv, CallsSane
<1>5. ASSUME NEW s \in Mailbox, (\E e \in Execs : Deliver(s, e)) \/ DeliverRefused(s) \/ Lose(s)
      PROVE  Take(s) /\ UNCHANGED chat
  BY <1>5 DEF Deliver, DeliverRefused, Lose
<1>6. ASSUME NEW v \in Versions, NEW failure \in Components \cup {Mismatch}, AskRepair(v, failure)
      PROVE  MailSane' /\ CallsSane'
  BY <1>2, <1>6, RepairIsSane, PostKeeps DEF AskRepair, SystemInv, CallsSane
<1>7. ASSUME \/ \E spec \in Specs : OnlyCode(Approve(spec))
             \/ \E t \in TaskIds : Coder(t) \/ Age(t)
             \/ \E r \in RunIds : Silence(r)
             \/ UNCHANGED sysVars
      PROVE  UNCHANGED <<mail, chat>>
  BY <1>7 DEF OnlyCode, Coder, Age, Silence, sysVars
<1>8. MailSane' /\ CallsSane'
  <2>1. ASSUME NEW u \in Users, Chat(u) PROVE MailSane' /\ CallsSane'
    BY <1>2, <2>1, ChatMails
  <2>2. ASSUME NEW e \in Execs, Execution(e) PROVE MailSane' /\ CallsSane'
    BY <1>2, <2>2, ExecutionMails
  <2>3. CASE UNCHANGED <<mail, chat>>
    BY <1>2, <2>3, NoPostKeeps DEF SystemInv, CallsSane
  <2> QED
    BY <1>3, <1>5, <1>6, <1>7, <2>1, <2>2, <2>3 DEF SystemNext
<1> QED
  BY <1>2, <1>8 DEF SystemInv

LEMMA SystemStarts ==
    ASSUME SystemInit
    PROVE  SystemInv
<1>1. IInv /\ Delivery
  BY InitIInv, InitDelivery DEF SystemInit
<1>2. /\ NoJob.ver = 0 /\ ~NoJob.bundled /\ NoTask.run = 0 /\ Off.pc = "off" /\ ~NoBundle.made
      /\ NoCall \in Call
  BY DEF NoJob, NoTask, Off, NoBundle, NoCall, Call
<1>3. PlannedExist /\ TasksVersioned /\ Built
  BY <1>2 DEF SystemInit, Init, PlannedExist, Planned, TasksVersioned, Built
<1>4. Pioneers /\ \A e \in Execs : Fit(e)
  BY <1>2 DEF SystemInit, Init, Pioneers, At, Fit, Beyond, Building, AtAStep
<1>5. MailSane /\ CallsSane
  BY <1>2, NoMailIsSane DEF SystemInit, MailSane, SaneMessage, CallsSane
<1> QED
  BY <1>1, <1>3, <1>4, <1>5 DEF SystemInv, Carried

\* The inductive invariant of the system: what the code stage keeps, and one creating
\* execution of a run without a plan.
THEOREM SystemInductive == SystemSpec => []SystemInv
BY SystemStarts, SystemStep, PTL DEF SystemSpec

(* The documents, objects, messages and calls of the system keep their     *)
(* types for any number of tabs, messages, runs and faults.                *)
THEOREM SystemTypeCorrect == SystemSpec => []SystemTypeOK
<1>1. SystemInv => SystemTypeOK
  BY DEF SystemInv, Carried, IInv, MailSane, CallsSane, SystemTypeOK
<1> QED
  BY <1>1, SystemInductive, PTL

(* A run keeps the version it planned with, however often it is continued, *)
(* by whichever tab or execution, however late its invocations arrive.     *)
THEOREM VersionsAreFixed == SystemSpec => VersionFixed
<1>1. SystemInv /\ [SystemNext]_sysVars =>
        [\A r \in RunIds : Planned(r) => job'[r].ver = job[r].ver]_sysVars
  BY SystemStep DEF StepKeeps, PlansFixed
<1> QED
  BY <1>1, SystemInductive, PTL DEF SystemSpec, VersionFixed

(* What is published is complete, for every plan and every choice of       *)
(* components: each artefact was delivered by a coder of the run or was    *)
(* carried over from a bundle that was complete itself.                    *)
THEOREM PublishedIsComplete == SystemSpec => []PublishedComplete
<1>1. SystemInv => PublishedComplete
  BY DEF SystemInv, Carried, Built, PublishedComplete, IInv, TypeOK
<1> QED
  BY <1>1, SystemInductive, PTL
=============================================================================

--------------------------- MODULE DeployRun_proofs ---------------------------
(***************************************************************************)
(* What the deploy stage guarantees whoever drives it: for any number of   *)
(* runs, executions, testers, attempts and faults, two executions of one   *)
(* run and a teardown in the middle of a deployment included.              *)
(***************************************************************************)
EXTENDS DeployRun, SequenceTheorems, FiniteSetTheorems, TLAPS

Absent(r)     == runs[r].status = "absent"
IsDeploy(r)   == r \in RunIds /\ runs[r].stage = "deploy"
IsTest(q)     == q \in RunIds /\ runs[q].stage = "test"
IsTeardown(r) == r \in RunIds /\ runs[r].stage = "teardown"

\* Only a repair in flight has an attempt to look up.
Numbered(i) == i.kind = "repair" => i.attempt \in 1..MaxRepairs

\* An execution at a node has what the node reads: a deployment, a step of the pipeline.
ExecFits(x) ==
    /\ x.pc = "off" <=> x.run = 0
    /\ x.pc # "off" => IsDeploy(x.run)
    /\ x.pc \notin {"off", "resume"} => x.idx \in 1..14
    /\ x.pc \in {"step", "work"} => x.idx \in 1..13 /\ x.idx # 12
    /\ x.pc = "tests" => x.idx = 12
    /\ x.pc # "work" => x.did = 0
    /\ Numbered(x.inflight)

\* The smoke test has said something of the deployment.
Reported(q) == tests[q].api.says # "none"

\* A test agent execution tests a deployment, in a test run of that deployment.
TesterFits(t) ==
    /\ t.pc # "off" => IsDeploy(t.of)
    /\ t.pc \in {"off", "start"} <=> t.run = 0
    /\ t.run # 0 => IsTest(t.run) /\ tests[t.run].of = t.of
    /\ t.pc \in {"browser", "report", "status"} => Reported(t.run)

\* A test run that succeeded has an API result, so its first failure names a component.
DocFits(r) ==
    /\ Absent(r) => runs[r].stage = "none"
    /\ IsTest(r) => IsDeploy(tests[r].of)
    /\ IsTest(r) /\ runs[r].status = "succeeded" => Reported(r)
    /\ IsDeploy(r) => dep[r].idx >= 1
    /\ Numbered(dep[r].inflight)

Placed ==
    /\ \A r \in RunIds : DocFits(r)
    /\ \A e \in Execs : ExecFits(execs[e])
    /\ \A k \in Testers : TesterFits(testers[k])
    /\ sweep.pc # "off" => IsTeardown(sweep.run)

IInv == TypeOK /\ Placed

(***************************************************************************)
(* The pipeline                                                            *)
(***************************************************************************)

LEMMA PipelineIs ==
    /\ Len(Pipeline) = 13
    /\ Pipeline[1] = "check_gate" /\ Pipeline[2] = "provision_db" /\ Pipeline[3] = "store_secret"
    /\ Pipeline[4] = "launch_instance" /\ Pipeline[5] = "fetch_bundle" /\ Pipeline[6] = "seed_data"
    /\ Pipeline[7] = "build_backend" /\ Pipeline[8] = "start_backend" /\ Pipeline[9] = "build_frontend"
    /\ Pipeline[10] = "publish_frontend" /\ Pipeline[11] = "write_deployment"
    /\ Pipeline[12] = "run_tests" /\ Pipeline[13] = "finalize"
BY DEF Pipeline

LEMMA PipelineFacts ==
    /\ Len(Pipeline) = 13
    /\ \A i \in 1..13 : Pipeline[i] \in StepNames
    /\ \A i \in 1..13 : Pipeline[i] = "run_tests" <=> i = 12
    /\ Position("fetch_bundle") = 5 /\ Position("run_tests") = 12
    /\ Position("provision_db") = 2 /\ Position("store_secret") = 3 /\ Position("launch_instance") = 4
<1>1. Len(Pipeline) = 13
  BY DEF Pipeline
<1>2. \A i \in 1..13 : Pipeline[i] \in StepNames
  BY <1>1 DEF StepNames
<1>3. \A i \in 1..13 : Pipeline[i] = "run_tests" <=> i = 12
  BY DEF Pipeline
<1>4. /\ \A i \in 1..13 : Pipeline[i] = "fetch_bundle" <=> i = 5
      /\ \A i \in 1..13 : Pipeline[i] = "provision_db" <=> i = 2
      /\ \A i \in 1..13 : Pipeline[i] = "store_secret" <=> i = 3
      /\ \A i \in 1..13 : Pipeline[i] = "launch_instance" <=> i = 4
  BY DEF Pipeline
<1>5. ASSUME NEW s, NEW n \in 1..13, \A i \in 1..13 : Pipeline[i] = s <=> i = n
      PROVE  Position(s) = n
  BY <1>1, <1>5 DEF Position
<1> QED
  BY <1>1, <1>2, <1>3, <1>4, <1>5

(***************************************************************************)
(* The operations of the steps                                             *)
(***************************************************************************)

\* What a step creates and what it registers, as sets.
DbOf(mode) == CASE mode = "shared_db"    -> {DbUser}
                [] mode = "flex_cluster" -> {Cluster, DbUser}
                [] OTHER                 -> {}
Registers(step, r, mode) ==
    CASE step = "provision_db"    -> DbOf(mode)
      [] step = "store_secret"    -> {Secret}
      [] step = "launch_instance" -> {Instance(r)} \cup {Address(r) : x \in DbOf(mode)}
      [] OTHER                    -> {}
Creates(step, r, mode) ==
    CASE step = "provision_db"    -> DbOf(mode) \cup {Secret}
      [] step = "launch_instance" -> {Instance(r)} \cup {Address(r) : x \in DbOf(mode)}
      [] OTHER                    -> {}

OpRecords == [do : {"create", "register"}, what : Resources]

LEMMA OpTyped ==
    ASSUME NEW r \in RunIds
    PROVE  /\ {DbUser, Cluster, Secret, Instance(r), Address(r)} \subseteq Resources
           /\ \A do \in {"create", "register"}, x \in Resources : Op(do, x) \in OpRecords
BY DEF Resources, Op, OpRecords

\* How DbOf and DbResources go together.
LEMMA DbResourcesAre ==
    ASSUME NEW mode
    PROVE  /\ mode = "shared_db" => DbResources(mode) = <<DbUser>> /\ DbOf(mode) = {DbUser}
           /\ mode = "flex_cluster" => DbResources(mode) = <<Cluster, DbUser>> /\ DbOf(mode) = {Cluster, DbUser}
           /\ mode \notin {"shared_db", "flex_cluster"} => DbResources(mode) = <<>> /\ DbOf(mode) = {}
BY DEF DbResources, DbOf

LEMMA OperationsAre ==
    ASSUME NEW step, NEW r, NEW mode
    PROVE  /\ step = "provision_db" => Operations(step, r, mode) =
                 ForEach("create", DbResources(mode)) \o ForEach("register", DbResources(mode))
                    \o <<Op("create", Secret)>>
           /\ step = "store_secret" => Operations(step, r, mode) = <<Op("register", Secret)>>
           /\ step = "launch_instance" => Operations(step, r, mode) =
                 <<Op("create", Instance(r)), Op("register", Instance(r))>>
                    \o (IF DbResources(mode) = <<>> THEN <<>>
                        ELSE <<Op("create", Address(r)), Op("register", Address(r))>>)
           /\ step \notin {"provision_db", "store_secret", "launch_instance"} => Operations(step, r, mode) = <<>>
BY DEF Operations

LEMMA ForEachIs ==
    ASSUME NEW do, NEW a, NEW b
    PROVE  /\ ForEach(do, <<>>) = <<>>
           /\ ForEach(do, <<a>>) = <<Op(do, a)>>
           /\ ForEach(do, <<a, b>>) = <<Op(do, a), Op(do, b)>>
<1>1. ForEach(do, <<>>) = <<>>
  BY DEF ForEach
<1>2. ForEach(do, <<a>>) = <<Op(do, a)>>
  BY DEF ForEach
<1>3. ForEach(do, <<a, b>>) = <<Op(do, a), Op(do, b)>>
  BY DEF ForEach
<1> QED
  BY <1>1, <1>2, <1>3

\* The operations do what Creates and Registers say, and register all of it.
Carries(ops, creates, registers) ==
    /\ ops \in Seq(OpRecords)
    /\ \A j \in 1..Len(ops) : ops[j].do = "create" => ops[j].what \in creates
    /\ \A j \in 1..Len(ops) : ops[j].do = "register" => ops[j].what \in registers
    /\ \A x \in registers : \E j \in 1..Len(ops) : ops[j] = Op("register", x)

\* Lists of at most five operations.
LEMMA CarriesFacts ==
    ASSUME NEW ops \in Seq(OpRecords), NEW creates, NEW registers, NEW n \in 0..5, Len(ops) = n,
           \A j \in {1, 2, 3, 4, 5} : j <= n => \/ \E x \in creates : ops[j] = Op("create", x)
                                              \/ \E z \in registers : ops[j] = Op("register", z),
           \A y \in registers : \E i \in {1, 2, 3, 4, 5} : i <= n /\ ops[i] = Op("register", y)
    PROVE  Carries(ops, creates, registers)
<1>1. \A j \in 1..n : j \in {1, 2, 3, 4, 5} /\ j <= n
  OBVIOUS
<1>2. \A j \in {1, 2, 3, 4, 5} : j <= n => j \in 1..n
  OBVIOUS
<1>3. \A x : Op("create", x).do = "create" /\ Op("create", x).what = x
  BY DEF Op
<1>4. \A x : Op("register", x).do = "register" /\ Op("register", x).what = x
  BY DEF Op
<1>5. \A j \in 1..n : ops[j].do = "create" => ops[j].what \in creates
  BY <1>1, <1>3, <1>4
<1>6. \A j \in 1..n : ops[j].do = "register" => ops[j].what \in registers
  BY <1>1, <1>3, <1>4
<1>7. \A x \in registers : \E j \in 1..n : ops[j] = Op("register", x)
  BY <1>2
<1> QED
  BY <1>5, <1>6, <1>7 DEF Carries

LEMMA Concat3 ==
    ASSUME NEW S, NEW a \in S, NEW b \in S, NEW c \in S
    PROVE  LET s == <<a>> \o <<b>> \o <<c>>
           IN  s \in Seq(S) /\ Len(s) = 3 /\ s[1] = a /\ s[2] = b /\ s[3] = c
<1>1. <<a>> \in Seq(S) /\ <<b>> \in Seq(S) /\ <<c>> \in Seq(S)
  OBVIOUS
<1>2. LET s == <<a>> \o <<b>> IN s \in Seq(S) /\ Len(s) = 2 /\ s[1] = a /\ s[2] = b
  BY <1>1, ConcatProperties
<1> QED
  BY <1>1, <1>2, ConcatProperties

LEMMA Concat4 ==
    ASSUME NEW S, NEW a \in S, NEW b \in S, NEW c \in S, NEW d \in S
    PROVE  LET s == <<a, b>> \o <<c, d>>
           IN  s \in Seq(S) /\ Len(s) = 4 /\ s[1] = a /\ s[2] = b /\ s[3] = c /\ s[4] = d
<1>1. <<a, b>> \in Seq(S) /\ <<c, d>> \in Seq(S)
  OBVIOUS
<1> QED
  BY <1>1, ConcatProperties

LEMMA Concat5 ==
    ASSUME NEW S, NEW a \in S, NEW b \in S, NEW c \in S, NEW d \in S, NEW e \in S
    PROVE  LET s == <<a, b>> \o <<c, d>> \o <<e>>
           IN  s \in Seq(S) /\ Len(s) = 5 /\ s[1] = a /\ s[2] = b /\ s[3] = c /\ s[4] = d /\ s[5] = e
<1>1. <<e>> \in Seq(S)
  OBVIOUS
<1> QED
  BY <1>1, Concat4, ConcatProperties

LEMMA ProvisionCarries ==
    ASSUME NEW r \in RunIds, NEW mode
    PROVE  Carries(Operations("provision_db", r, mode), DbOf(mode) \cup {Secret}, DbOf(mode))
<1> DEFINE ops == Operations("provision_db", r, mode)
           dbs == DbResources(mode)
<1>1. ops = ForEach("create", dbs) \o ForEach("register", dbs) \o <<Op("create", Secret)>>
  BY OperationsAre
<1>2. CASE mode = "shared_db"
  <2>1. dbs = <<DbUser>> /\ DbOf(mode) = {DbUser}
    BY <1>2, DbResourcesAre
  <2>2. ops = <<Op("create", DbUser)>> \o <<Op("register", DbUser)>> \o <<Op("create", Secret)>>
    BY <1>1, <2>1, ForEachIs
  <2> HIDE DEF ops
  <2>3. /\ ops \in Seq(OpRecords) /\ Len(ops) = 3
        /\ ops[1] = Op("create", DbUser) /\ ops[2] = Op("register", DbUser) /\ ops[3] = Op("create", Secret)
    BY <2>2, OpTyped, Concat3
  <2>4. Carries(ops, DbOf(mode) \cup {Secret}, DbOf(mode))
    BY <2>1, <2>3, CarriesFacts
  <2> QED
    BY <2>4 DEF ops
<1>3. CASE mode = "flex_cluster"
  <2>1. dbs = <<Cluster, DbUser>> /\ DbOf(mode) = {Cluster, DbUser}
    BY <1>3, DbResourcesAre
  <2>2. ops = <<Op("create", Cluster), Op("create", DbUser)>> \o <<Op("register", Cluster), Op("register", DbUser)>>
                 \o <<Op("create", Secret)>>
    <3>1. ForEach("create", dbs) = <<Op("create", Cluster), Op("create", DbUser)>>
      BY <2>1, ForEachIs
    <3>2. ForEach("register", dbs) = <<Op("register", Cluster), Op("register", DbUser)>>
      BY <2>1, ForEachIs
    <3> QED
      BY <1>1, <3>1, <3>2
  <2> HIDE DEF ops
  <2>3. /\ ops \in Seq(OpRecords) /\ Len(ops) = 5
        /\ ops[1] = Op("create", Cluster) /\ ops[2] = Op("create", DbUser)
        /\ ops[3] = Op("register", Cluster) /\ ops[4] = Op("register", DbUser) /\ ops[5] = Op("create", Secret)
    BY <2>2, OpTyped, Concat5
  <2>4. Carries(ops, DbOf(mode) \cup {Secret}, DbOf(mode))
    BY <2>1, <2>3, CarriesFacts
  <2> QED
    BY <2>4 DEF ops
<1>4. CASE mode \notin {"shared_db", "flex_cluster"}
  <2>1. dbs = <<>> /\ DbOf(mode) = {}
    BY <1>4, DbResourcesAre
  <2>2. ForEach("create", dbs) = <<>> /\ ForEach("register", dbs) = <<>>
    BY <2>1, ForEachIs
  <2>3. ops = <<>> \o <<>> \o <<Op("create", Secret)>>
    BY <1>1, <2>2
  <2> HIDE DEF ops
  <2>4. ops = <<Op("create", Secret)>>
    BY <2>3
  <2>5. ops \in Seq(OpRecords) /\ Len(ops) = 1 /\ ops[1] = Op("create", Secret)
    BY <2>4, OpTyped
  <2>6. Carries(ops, DbOf(mode) \cup {Secret}, DbOf(mode))
    BY <2>1, <2>5, CarriesFacts
  <2> QED
    BY <2>6 DEF ops
<1> QED
  BY <1>2, <1>3, <1>4

LEMMA LaunchCarries ==
    ASSUME NEW r \in RunIds, NEW mode
    PROVE  LET made == {Instance(r)} \cup {Address(r) : x \in DbOf(mode)}
           IN  Carries(Operations("launch_instance", r, mode), made, made)
<1> DEFINE ops == Operations("launch_instance", r, mode)
           made == {Instance(r)} \cup {Address(r) : x \in DbOf(mode)}
<1>1. ops = <<Op("create", Instance(r)), Op("register", Instance(r))>>
               \o (IF DbResources(mode) = <<>> THEN <<>>
                   ELSE <<Op("create", Address(r)), Op("register", Address(r))>>)
  BY OperationsAre
<1>2. CASE mode \in {"shared_db", "flex_cluster"}
  <2>1. DbResources(mode) # <<>> /\ made = {Instance(r), Address(r)}
    BY <1>2, DbResourcesAre
  <2>2. ops = <<Op("create", Instance(r)), Op("register", Instance(r))>>
                 \o <<Op("create", Address(r)), Op("register", Address(r))>>
    BY <1>1, <2>1
  <2> HIDE DEF ops, made
  <2>3. /\ ops \in Seq(OpRecords) /\ Len(ops) = 4
        /\ ops[1] = Op("create", Instance(r)) /\ ops[2] = Op("register", Instance(r))
        /\ ops[3] = Op("create", Address(r)) /\ ops[4] = Op("register", Address(r))
    BY <2>2, OpTyped, Concat4
  <2>4. Carries(ops, made, made)
    BY <2>1, <2>3, CarriesFacts
  <2> QED
    BY <2>4 DEF ops, made
<1>3. CASE mode \notin {"shared_db", "flex_cluster"}
  <2>1. DbResources(mode) = <<>> /\ made = {Instance(r)}
    BY <1>3, DbResourcesAre
  <2>2. ops = <<Op("create", Instance(r)), Op("register", Instance(r))>> \o <<>>
    BY <1>1, <2>1
  <2> HIDE DEF ops, made
  <2>3. <<Op("create", Instance(r)), Op("register", Instance(r))>> \in Seq(OpRecords)
    BY OpTyped
  <2>4. /\ ops \in Seq(OpRecords) /\ Len(ops) = 2
        /\ ops[1] = Op("create", Instance(r)) /\ ops[2] = Op("register", Instance(r))
    BY <2>2, <2>3, ConcatEmptySeq
  <2>5. Carries(ops, made, made)
    BY <2>1, <2>4, CarriesFacts
  <2> QED
    BY <2>5 DEF ops, made
<1> QED
  BY <1>2, <1>3

LEMMA OperationsCarry ==
    ASSUME NEW step, NEW r \in RunIds, NEW mode
    PROVE  Carries(Operations(step, r, mode), Creates(step, r, mode), Registers(step, r, mode))
<1>1. CASE step = "provision_db"
  BY <1>1, ProvisionCarries DEF Creates, Registers
<1>2. CASE step = "launch_instance"
  BY <1>2, LaunchCarries DEF Creates, Registers
<1>3. CASE step = "store_secret"
  <2>1. Operations(step, r, mode) = <<Op("register", Secret)>>
    BY <1>3, OperationsAre
  <2>2. Creates(step, r, mode) = {} /\ Registers(step, r, mode) = {Secret}
    BY <1>3 DEF Creates, Registers
  <2>3. LET ops == <<Op("register", Secret)>>
        IN  ops \in Seq(OpRecords) /\ Len(ops) = 1 /\ ops[1] = Op("register", Secret)
    BY OpTyped
  <2> DEFINE ops == Operations(step, r, mode)
  <2> HIDE DEF ops
  <2>4. ops \in Seq(OpRecords) /\ Len(ops) = 1 /\ ops[1] = Op("register", Secret)
    BY <2>1, <2>3 DEF ops
  <2>5. Carries(ops, {}, {Secret})
    BY <2>4 DEF Carries, Op
  <2> QED
    BY <2>2, <2>5 DEF ops
<1>4. CASE step \notin {"provision_db", "store_secret", "launch_instance"}
  <2>1. Operations(step, r, mode) = <<>>
    BY <1>4, OperationsAre
  <2>2. Creates(step, r, mode) = {} /\ Registers(step, r, mode) = {}
    BY <1>4 DEF Creates, Registers
  <2> QED
    BY <2>1, <2>2 DEF Carries, Op
<1> QED
  BY <1>1, <1>2, <1>3, <1>4
(***************************************************************************)
(* The runs collection                                                     *)
(***************************************************************************)

LEMMA StoreFacts ==
    /\ RunIds \subseteq Nat \ {0} /\ 0 \notin RunIds
    /\ Store!TerminalStatuses \subseteq Store!Statuses
    /\ {"queued", "running", "failed", "succeeded"} \subseteq Store!Statuses
    /\ "failed" \in Store!TerminalStatuses /\ "succeeded" \in Store!TerminalStatuses
    /\ "absent" \notin Store!Statuses
BY LedgerAssumption DEF RunIds, Store!TerminalStatuses, Store!Statuses, Store!ActiveStatuses

\* What a write of the document of r does.
Wrote(r, status) ==
    /\ ~Absent(r)
    /\ runs' = [runs EXCEPT ![r].status = status, ![r].silent = FALSE]

LEMMA WritesAre ==
    ASSUME NEW r \in RunIds
    PROVE  /\ Store!UpdateRunStep(r) => Wrote(r, "running") /\ Store!Next
           /\ Store!TouchRun(r) => Wrote(r, runs[r].status) /\ Store!Next
           /\ Store!AbandonRun(r) => Wrote(r, "failed") /\ Store!Next
           /\ Store!ReopenRun(r) => Wrote(r, "running") /\ Store!Next
           /\ \A status \in {"succeeded", "failed"} :
                 Store!FinishRun(r, status) => Wrote(r, status) /\ Store!Next
           /\ Store!GoSilent(r) => ~Absent(r) /\ runs' = [runs EXCEPT ![r].silent = TRUE] /\ Store!Next
<1> USE DEF Wrote, Absent, Store!Write, Store!Exists
<1>1. Store!UpdateRunStep(r) => Wrote(r, "running") /\ Store!Next
  BY DEF Store!UpdateRunStep, Store!Next, Store!RunOperation
<1>2. Store!TouchRun(r) => Wrote(r, runs[r].status) /\ Store!Next
  BY DEF Store!TouchRun, Store!Next, Store!RunOperation
<1>3. Store!AbandonRun(r) => Wrote(r, "failed") /\ Store!Next
  BY DEF Store!AbandonRun, Store!Next, Store!RunOperation
<1>4. Store!ReopenRun(r) => Wrote(r, "running") /\ Store!Next
  BY DEF Store!ReopenRun, Store!Next, Store!RunOperation, Store!ReopenableStates
<1>5. \A status \in {"succeeded", "failed"} : Store!FinishRun(r, status) => Wrote(r, status) /\ Store!Next
  BY StoreFacts DEF Store!FinishRun, Store!Next, Store!RunOperation
<1>6. Store!GoSilent(r) => ~Absent(r) /\ runs' = [runs EXCEPT ![r].silent = TRUE] /\ Store!Next
  BY DEF Store!GoSilent, Store!Next, Store!RunOperation
<1> QED
  BY <1>1, <1>2, <1>3, <1>4, <1>5, <1>6

\* What a step may do to the runs: a document keeps its stage, and a test run succeeds
\* only once it has reported.
RunsMove ==
    /\ [Store!Next]_runs
    /\ Store!TypeOK'
    /\ \A r \in RunIds : ~Absent(r) => ~Absent(r)' /\ runs'[r].stage = runs[r].stage
    /\ \A r \in RunIds : Absent(r)' => runs'[r].stage = "none"
    /\ \A q \in RunIds : /\ IsTest(q)' /\ runs'[q].status = "succeeded"
                         => (IsTest(q) /\ runs[q].status = "succeeded") \/ Reported(q)'

LEMMA StayMoves ==
    ASSUME IInv, UNCHANGED runs
    PROVE  RunsMove
BY DEF IInv, TypeOK, TestTypeOK, LedgerTypeOK, RunsMove, Placed, DocFits, Absent, IsTest, Store!TypeOK

LEMMA WroteMoves ==
    ASSUME IInv, NEW r \in RunIds, NEW status \in Store!Statuses, Wrote(r, status), Store!Next,
           IsTest(r) /\ status = "succeeded" => runs[r].status = "succeeded" \/ Reported(r)'
    PROVE  RunsMove
<1>1. runs \in [RunIds -> Store!RunDoc]
  BY DEF IInv, TypeOK, TestTypeOK, LedgerTypeOK, Store!TypeOK
<1>2. /\ runs' \in [RunIds -> Store!RunDoc]
      /\ \A q \in RunIds : runs'[q].stage = runs[q].stage
      /\ \A q \in RunIds : q # r => runs'[q] = runs[q]
      /\ runs'[r].status = status
  BY <1>1, StoreFacts DEF Wrote, Store!RunDoc
<1>3. status # "absent"
  BY StoreFacts
<1> QED
  BY <1>2, <1>3 DEF RunsMove, Store!TypeOK, Absent, Wrote, IInv, Placed, DocFits, IsTest

LEMMA SilenceMoves ==
    ASSUME IInv, NEW r \in RunIds, Store!GoSilent(r)
    PROVE  RunsMove
<1>1. runs \in [RunIds -> Store!RunDoc]
  BY DEF IInv, TypeOK, TestTypeOK, LedgerTypeOK, Store!TypeOK
<1>2. ~Absent(r) /\ runs' = [runs EXCEPT ![r].silent = TRUE] /\ Store!Next
  BY WritesAre
<1>3. /\ runs' \in [RunIds -> Store!RunDoc]
      /\ \A q \in RunIds : runs'[q].stage = runs[q].stage /\ runs'[q].status = runs[q].status
  BY <1>1, <1>2 DEF Store!RunDoc
<1> QED
  BY <1>2, <1>3 DEF RunsMove, Store!TypeOK, Absent, IInv, Placed, DocFits, IsTest

LEMMA CreateMoves ==
    ASSUME IInv, NEW r \in RunIds, NEW s \in Stages, CreateRun(r, s)
    PROVE  /\ RunsMove /\ Absent(r) /\ ~Absent(r)'
           /\ runs' = [runs EXCEPT ![r] = [stage |-> s, status |-> "queued", silent |-> FALSE]]
<1>1. runs \in [RunIds -> Store!RunDoc]
  BY DEF IInv, TypeOK, TestTypeOK, LedgerTypeOK, Store!TypeOK
<1>2. /\ Absent(r)
      /\ runs' = [runs EXCEPT ![r] = [stage |-> s, status |-> "queued", silent |-> FALSE]]
      /\ Store!Next
  BY DEF CreateRun, Store!CreateRun, Store!Exists, Absent, Store!Next, Store!RunOperation
<1>3. [stage |-> s, status |-> "queued", silent |-> FALSE] \in Store!RunDoc
  BY StoreFacts DEF Store!RunDoc
<1>4. /\ runs' \in [RunIds -> Store!RunDoc]
      /\ runs'[r] = [stage |-> s, status |-> "queued", silent |-> FALSE]
      /\ \A q \in RunIds : q # r => runs'[q] = runs[q]
  BY <1>1, <1>2, <1>3
<1> QED
  BY <1>2, <1>4 DEF RunsMove, Store!TypeOK, Absent, IInv, Placed, DocFits, IsTest

\* A run is of the stage it was of.
LEMMA StagesStay ==
    ASSUME IInv, RunsMove, NEW r
    PROVE  /\ IsDeploy(r) => IsDeploy(r)' /\ r \in RunIds /\ ~Absent(r) /\ ~IsTest(r) /\ ~IsTeardown(r)
           /\ IsTest(r) => IsTest(r)' /\ r \in RunIds /\ ~Absent(r) /\ ~IsTeardown(r)
           /\ IsTeardown(r) => IsTeardown(r)' /\ r \in RunIds /\ ~Absent(r)
BY DEF IInv, Placed, DocFits, RunsMove, IsDeploy, IsTest, IsTeardown, Absent

(***************************************************************************)
(* What each kind of step has to show                                      *)
(***************************************************************************)

\* The types of what no document, tester or execution holds.
WorldOK ==
    /\ poc \in PocStatuses
    /\ cloud \subseteq Resources
    /\ ledger \in [Resources -> {"none", "active", "released"}]
    /\ sweep \in Sweep
    /\ faults \in 0..MaxFaults
    /\ box \in [RunIds -> Box]
    /\ manifest \in [RunIds -> Versions]

LEMMA TypeParts ==
    TypeOK <=> /\ Store!TypeOK /\ WorldOK
               /\ tests \in [RunIds -> Test]
               /\ testers \in [Testers -> Tester]
               /\ dep \in [RunIds -> Deploy]
               /\ repairs \in [Attempts -> Repair]
               /\ execs \in [Execs -> Exec]
BY DEF TypeOK, TestTypeOK, LedgerTypeOK, WorldOK

LEMMA FaultTyped ==
    ASSUME IInv, Fault
    PROVE  faults' \in 0..MaxFaults
BY LedgerAssumption DEF IInv, TypeOK, TestTypeOK, LedgerTypeOK, Fault

NoNewRun == \A r \in RunIds : runs'[r].stage = runs[r].stage

\* No run is created, and every run is what it was of.
LEMMA WroteNoNew ==
    ASSUME IInv, NEW r \in RunIds, NEW status, Wrote(r, status)
    PROVE  NoNewRun
BY DEF IInv, TypeOK, TestTypeOK, LedgerTypeOK, Store!TypeOK, Store!RunDoc, Wrote, NoNewRun

LEMMA SilenceNoNew ==
    ASSUME IInv, NEW r \in RunIds, Store!GoSilent(r)
    PROVE  NoNewRun
BY DEF IInv, TypeOK, TestTypeOK, LedgerTypeOK, Store!TypeOK, Store!RunDoc, Store!GoSilent, NoNewRun

\* A step of execution e, whose record becomes x and whose run's document d.
LEMMA ExecKeeps ==
    ASSUME IInv, RunsMove, NoNewRun, NEW e \in Execs, execs[e].pc # "off",
           NEW x \in Exec, ExecFits(x), execs' = [execs EXCEPT ![e] = x],
           NEW d \in Deploy, d.idx >= 1, Numbered(d.inflight), dep' = [dep EXCEPT ![execs[e].run] = d],
           WorldOK', UNCHANGED <<sweep, tests>>, repairs' \in [Attempts -> Repair],
           testers' \in [Testers -> Tester], \A k \in Testers : TesterFits(testers'[k])
    PROVE  IInv'
<1> USE TypeParts DEF IInv
<1>1. execs[e].run \in RunIds
  BY DEF Placed, ExecFits, IsDeploy
<1>2. TypeOK'
  <2>1. execs' \in [Execs -> Exec] /\ dep' \in [RunIds -> Deploy]
    BY <1>1
  <2> QED
    BY <2>1 DEF RunsMove, TypeOK, TestTypeOK, LedgerTypeOK, WorldOK
<1>3. \A q : (IsDeploy(q) <=> IsDeploy(q)') /\ (IsTest(q) <=> IsTest(q)') /\ (IsTeardown(q) <=> IsTeardown(q)')
  BY DEF NoNewRun, IsDeploy, IsTest, IsTeardown
<1>4. \A r \in RunIds : DocFits(r)'
  <2> SUFFICES ASSUME NEW r \in RunIds PROVE DocFits(r)'
    OBVIOUS
  <2>1. dep'[r] = d \/ dep'[r] = dep[r]
    BY <1>1
  <2> QED
    BY <1>3, <2>1 DEF Placed, DocFits, RunsMove, Reported
<1>5. \A f \in Execs : ExecFits(execs[f])'
  <2> SUFFICES ASSUME NEW f \in Execs PROVE ExecFits(execs[f])'
    OBVIOUS
  <2>1. ExecFits(execs'[f])
    BY DEF Placed
  <2> QED
    BY <1>3, <2>1 DEF ExecFits
<1>6. \A k \in Testers : TesterFits(testers[k])'
  BY <1>3 DEF TesterFits, Reported
<1>7. (sweep.pc # "off" => IsTeardown(sweep.run))'
  BY <1>3 DEF Placed
<1> QED
  BY <1>2, <1>4, <1>5, <1>6, <1>7 DEF Placed

\* A step that leaves the executions and the documents of the deployments alone.
LEMMA OthersKeep ==
    ASSUME IInv, RunsMove, UNCHANGED <<execs, dep>>, WorldOK', repairs' \in [Attempts -> Repair],
           tests' \in [RunIds -> Test], testers' \in [Testers -> Tester],
           \A r \in RunIds : IsDeploy(r)' => IsDeploy(r),
           \A q \in RunIds : IsTest(q)' => IsDeploy(tests'[q].of),
           \A q \in RunIds : IsTest(q) /\ runs[q].status = "succeeded" => Reported(q)',
           \A k \in Testers : TesterFits(testers[k])',
           (sweep.pc # "off" => IsTeardown(sweep.run))'
    PROVE  IInv'
<1> USE TypeParts DEF IInv
<1>1. TypeOK'
  BY DEF RunsMove, TypeOK, TestTypeOK, LedgerTypeOK, WorldOK
<1>2. \A q : (IsDeploy(q) => IsDeploy(q)')
  BY StagesStay
<1>3. \A r \in RunIds : DocFits(r)'
  BY <1>2 DEF Placed, DocFits, RunsMove
<1>4. \A f \in Execs : ExecFits(execs[f])'
  BY <1>2 DEF Placed, ExecFits
<1> QED
  BY <1>1, <1>3, <1>4 DEF Placed

(***************************************************************************)
(* Records and routes                                                      *)
(***************************************************************************)

LEMMA OffTyped ==
    /\ Nothing \in InFlight /\ Off \in Exec /\ ExecFits(Off)
    /\ NoTester \in Tester /\ TesterFits(NoTester)
    /\ NoDeploy \in Deploy /\ NoRepair \in Repair /\ NoTest \in Test /\ NoBox \in Box
    /\ NoSweep \in Sweep
<1>1. 0 \in Nat /\ 0 \in 0..MaxRepairs /\ 0 \in 0..MaxRepairs + 1 /\ 0 \in Versions /\ 0 \in 0..14 /\ 0 \in 0..2
  BY DeployAssumption, TestAssumption DEF Versions
<1>2. Nothing \in InFlight
  BY <1>1 DEF Nothing, InFlight, Components
<1>3. Off \in Exec /\ ExecFits(Off)
  BY <1>1, <1>2, PipelineIs DEF Off, Exec, ExecFits, Numbered, Components, Nothing
<1>4. NoTester \in Tester /\ TesterFits(NoTester)
  BY DEF NoTester, Tester, TesterFits
<1>5. NoDeploy \in Deploy
  BY <1>1, <1>2, PipelineIs DEF NoDeploy, Deploy
<1>6. NoRepair \in Repair /\ NoTest \in Test /\ NoBox \in Box
  BY <1>1 DEF NoRepair, Repair, NoTest, Test, NoResult, Result, NoBox, Box
<1>7. NoSweep \in Sweep
  BY DEF NoSweep, Sweep
<1> QED
  BY <1>2, <1>3, <1>4, <1>5, <1>6, <1>7

\* Where the graph goes.
LEMMA RouteIs ==
    ASSUME NEW x \in Exec, x.idx \in 1..14, NEW spent \in BOOLEAN
    PROVE  LET y == Route(x, spent) IN
           /\ y = [x EXCEPT !.did = 0, !.pc = y.pc]
           /\ y.pc \in {"handover", "wait", "finish", "tests", "step"}
           /\ y.pc = "wait" => x.inflight.kind # "none"
           /\ y.pc \in {"finish", "tests", "step"} => x.inflight.kind = "none"
           /\ y.pc = "finish" => x.idx = 14
           /\ y.pc = "tests" => x.idx = 12
           /\ y.pc = "step" => x.idx \in 1..13 /\ x.idx # 12
<1>1. CASE spent
  BY <1>1 DEF Route, Exec
<1>2. CASE ~spent /\ x.inflight.kind # "none"
  BY <1>2 DEF Route, Exec
<1>3. CASE ~spent /\ x.inflight.kind = "none" /\ x.idx > 13
  BY <1>3, PipelineIs DEF Route, Exec
<1>4. CASE ~spent /\ x.inflight.kind = "none" /\ ~(x.idx > 13)
  <2>1. x.idx \in 1..13
    BY <1>4
  <2>2. Route(x, spent) = [x EXCEPT !.did = 0, !.pc = IF Pipeline[x.idx] = "run_tests" THEN "tests" ELSE "step"]
    BY <1>4, PipelineIs DEF Route, Exec
  <2> QED
    BY <1>4, <2>1, <2>2, PipelineFacts DEF Exec
<1> QED
  BY <1>1, <1>2, <1>3, <1>4

LEMMA RouteFits ==
    ASSUME NEW x \in Exec, x.idx \in 1..14, IsDeploy(x.run), Numbered(x.inflight), NEW spent \in BOOLEAN
    PROVE  Route(x, spent) \in Exec /\ ExecFits(Route(x, spent))
<1>1. /\ Route(x, spent) = [x EXCEPT !.did = 0, !.pc = Route(x, spent).pc]
      /\ Route(x, spent).pc \in {"handover", "wait", "finish", "tests", "step"}
      /\ Route(x, spent).pc = "tests" => x.idx = 12
      /\ Route(x, spent).pc = "step" => x.idx \in 1..13 /\ x.idx # 12
  BY RouteIs
<1>2. x.run # 0
  BY StoreFacts DEF IsDeploy
<1>3. PICK pc \in {"handover", "wait", "finish", "tests", "step"} : Route(x, spent) = [x EXCEPT !.did = 0, !.pc = pc]
  BY <1>1
<1>4. [x EXCEPT !.did = 0, !.pc = pc] \in Exec
  BY DEF Exec
<1> QED
  BY <1>1, <1>2, <1>3, <1>4 DEF Exec, ExecFits

\* Any other node an execution goes to.
LEMMA NodeFits ==
    ASSUME NEW x \in Exec, IsDeploy(x.run), x.idx \in 1..14, Numbered(x.inflight), x.did = 0,
           x.pc \in {"repair", "mark", "fire", "wait", "clear", "handover", "finish", "fail", "release"}
    PROVE  ExecFits(x)
BY StoreFacts DEF ExecFits, IsDeploy

\* The record of an execution at work.
LEMMA AtNode ==
    ASSUME IInv, NEW e \in Execs, execs[e].pc # "off"
    PROVE  /\ execs[e] \in Exec /\ ExecFits(execs[e])
           /\ execs[e].run \in RunIds /\ execs[e].run # 0 /\ IsDeploy(execs[e].run) /\ ~IsTest(execs[e].run)
           /\ dep[execs[e].run] \in Deploy /\ DocFits(execs[e].run)
           /\ dep[execs[e].run].idx \in 1..14
           /\ Numbered(dep[execs[e].run].inflight)
           /\ dep = [dep EXCEPT ![execs[e].run] = dep[execs[e].run]]
           /\ \A k \in Testers : TesterFits(testers[k])
<1>1. /\ execs[e] \in Exec /\ ExecFits(execs[e]) /\ execs[e].run \in RunIds /\ IsDeploy(execs[e].run)
  BY DEF IInv, TypeOK, Placed, ExecFits, IsDeploy
<1>2. dep \in [RunIds -> Deploy] /\ DocFits(execs[e].run)
  BY <1>1 DEF IInv, TypeOK, Placed
<1>3. dep[execs[e].run].idx \in 0..14 /\ dep[execs[e].run].idx >= 1
  BY <1>1, <1>2, PipelineIs DEF Deploy, DocFits
<1>4. execs[e].run # 0 /\ ~IsTest(execs[e].run)
  BY <1>1, StoreFacts DEF IsDeploy, IsTest
<1>5. dep = [dep EXCEPT ![execs[e].run] = dep[execs[e].run]]
  BY <1>2
<1>6. Numbered(dep[execs[e].run].inflight) /\ \A k \in Testers : TesterFits(testers[k])
  BY <1>2 DEF IInv, Placed, DocFits
<1> QED
  BY <1>1, <1>2, <1>3, <1>4, <1>5, <1>6

\* What an execution writes to its run.
LEMMA DeployWrites ==
    ASSUME IInv, NEW r \in RunIds, IsDeploy(r),
           \/ Store!UpdateRunStep(r) \/ Store!TouchRun(r) \/ Store!AbandonRun(r) \/ Store!ReopenRun(r)
           \/ \E status \in {"succeeded", "failed"} : Store!FinishRun(r, status)
    PROVE  RunsMove /\ NoNewRun
<1>1. PICK status \in Store!Statuses : Wrote(r, status) /\ Store!Next
  <2>1. ~Absent(r) => runs[r].status \in Store!Statuses
    BY DEF IInv, TypeOK, TestTypeOK, LedgerTypeOK, Store!TypeOK, Store!RunDoc, Absent
  <2> QED
    BY <2>1, WritesAre, StoreFacts DEF Wrote
<1>2. ~IsTest(r)
  BY DEF IsDeploy, IsTest
<1> QED
  BY <1>1, <1>2, WroteMoves, WroteNoNew

\* A step of execution e in which only its run, its record and the fault count change.
LEMMA ExecOnlyKeeps ==
    ASSUME IInv, RunsMove, NoNewRun, NEW e \in Execs, execs[e].pc # "off",
           NEW x \in Exec, ExecFits(x), execs' = [execs EXCEPT ![e] = x],
           NEW d \in Deploy, d.idx >= 1, Numbered(d.inflight), dep' = [dep EXCEPT ![execs[e].run] = d],
           UNCHANGED <<cloudVars, testVars, repairs>>, faults' \in 0..MaxFaults
    PROVE  IInv'
<1>1. WorldOK' /\ UNCHANGED <<sweep, tests>> /\ repairs' \in [Attempts -> Repair]
      /\ testers' \in [Testers -> Tester]
  BY TypeParts DEF IInv, WorldOK, cloudVars, testVars
<1>2. \A k \in Testers : TesterFits(testers'[k])
  BY DEF IInv, Placed, testVars
<1> QED
  BY <1>1, <1>2, ExecKeeps

\* ... and not even the document of its deployment.
LEMMA ExecAloneKeeps ==
    ASSUME IInv, RunsMove, NoNewRun, NEW e \in Execs, execs[e].pc # "off",
           NEW x \in Exec, ExecFits(x), execs' = [execs EXCEPT ![e] = x],
           UNCHANGED <<cloudVars, testVars, dep, repairs>>, faults' \in 0..MaxFaults
    PROVE  IInv'
<1>1. /\ dep[execs[e].run] \in Deploy /\ dep[execs[e].run].idx >= 1
      /\ Numbered(dep[execs[e].run].inflight) /\ dep' = [dep EXCEPT ![execs[e].run] = dep[execs[e].run]]
  BY AtNode
<1> QED
  BY <1>1, ExecOnlyKeeps

LEMMA StayNoNew == ASSUME UNCHANGED runs PROVE NoNewRun
BY DEF NoNewRun

LEMMA SameFaults == ASSUME IInv, UNCHANGED faults \/ Fault PROVE faults' \in 0..MaxFaults
BY FaultTyped, TypeParts DEF IInv, WorldOK

(***************************************************************************)
(* The steps of a deployment                                               *)
(***************************************************************************)

LEMMA StepBeginsKeeps ==
    ASSUME IInv, NEW e \in Execs, StepBegins(e)
    PROVE  IInv' /\ RunsMove
<1> USE DEF StepBegins, At
<1>1. faults' \in 0..MaxFaults /\ UNCHANGED <<cloudVars, testVars, dep, repairs>> /\ execs[e].pc # "off"
  BY SameFaults
<1>2. CASE Recorded(e) /\ Goto(e, "work")
  <2> DEFINE x == [execs[e] EXCEPT !.pc = "work"]
  <2>1. execs' = [execs EXCEPT ![e] = x]
    BY <1>2 DEF Goto
  <2>2. x \in Exec /\ ExecFits(x)
    BY <1>1, AtNode DEF Exec, ExecFits
  <2>3. RunsMove /\ NoNewRun
    BY <1>1, <1>2, AtNode, DeployWrites DEF Recorded
  <2> HIDE DEF x
  <2> QED
    BY <1>1, <2>1, <2>2, <2>3, ExecAloneKeeps
<1>3. CASE Refused(e)
  <2>1. execs' = [execs EXCEPT ![e] = Off] /\ RunsMove /\ NoNewRun
    BY <1>3, StayMoves, StayNoNew DEF Refused, Stop
  <2> QED
    BY <1>1, <2>1, OffTyped, ExecAloneKeeps
<1> QED
  BY <1>2, <1>3

LEMMA CloudWorkKeeps ==
    ASSUME IInv, NEW e \in Execs, CloudWork(e)
    PROVE  IInv' /\ RunsMove
<1> DEFINE ops == Operations(StepOf(e), execs[e].run, dep[execs[e].run].mode)
           op == ops[execs[e].did + 1]
           x == [execs[e] EXCEPT !.did = @ + 1]
<1>1. /\ execs[e].pc = "work" /\ execs[e].did < Len(ops) /\ Perform(op)
      /\ execs' = [execs EXCEPT ![e] = x]
      /\ UNCHANGED <<runs, faults, poc, sweep, testVars, dep, repairs>>
  BY DEF CloudWork, At
<1>2. x \in Exec /\ ExecFits(x)
  BY <1>1, AtNode DEF Exec, ExecFits
<1>3. op.what \in Resources
  <2>1. ops \in Seq(OpRecords)
    BY <1>1, AtNode, OperationsCarry DEF Carries
  <2>2. execs[e].did + 1 \in 1..Len(ops)
    BY <1>1, <2>1, AtNode DEF Exec
  <2>3. op \in OpRecords
    BY <2>1, <2>2
  <2> QED
    BY <2>3 DEF OpRecords
<1>4. cloud' \subseteq Resources /\ ledger' \in [Resources -> {"none", "active", "released"}]
  BY <1>1, <1>3, TypeParts DEF IInv, WorldOK, Perform
<1>5. WorldOK' /\ UNCHANGED <<sweep, tests>> /\ repairs' \in [Attempts -> Repair] /\ testers' \in [Testers -> Tester]
  BY <1>1, <1>4, TypeParts DEF IInv, WorldOK, testVars
<1>6. RunsMove /\ NoNewRun
  BY <1>1, StayMoves, StayNoNew
<1>7. /\ dep[execs[e].run] \in Deploy /\ dep[execs[e].run].idx >= 1
      /\ Numbered(dep[execs[e].run].inflight) /\ dep' = [dep EXCEPT ![execs[e].run] = dep[execs[e].run]]
  <2>1. execs[e].pc # "off" /\ dep' = dep
    BY <1>1
  <2> HIDE DEF x, op, ops
  <2> QED
    BY <2>1, AtNode
<1>8. \A k \in Testers : TesterFits(testers'[k])
  <2>1. testers' = testers
    BY <1>1 DEF testVars
  <2> HIDE DEF x, op, ops
  <2> QED
    BY <2>1 DEF IInv, Placed
<1> HIDE DEF x, op, ops
<1> QED
  BY <1>1, <1>2, <1>5, <1>6, <1>7, <1>8, ExecKeeps

\* A write that the index refuses.
LEMMA RefusedKeeps ==
    ASSUME IInv, NEW e \in Execs, execs[e].pc # "off", Refused(e),
           NEW d \in Deploy, d.idx >= 1, Numbered(d.inflight), dep' = [dep EXCEPT ![execs[e].run] = d],
           UNCHANGED <<cloudVars, testVars, repairs>>, faults' \in 0..MaxFaults
    PROVE  IInv' /\ RunsMove
<1>1. execs' = [execs EXCEPT ![e] = Off] /\ RunsMove /\ NoNewRun
  BY StayMoves, StayNoNew DEF Refused, Stop
<1> QED
  BY <1>1, OffTyped, ExecOnlyKeeps

\* What a step leaves on the box, case by case.
LEMMA BoxAfterIs ==
    ASSUME NEW step, NEW b, NEW v
    PROVE  /\ step = "fetch_bundle" => BoxAfter(step, b, v) = [b EXCEPT !.files = v, !.backend = 0, !.frontend = 0]
           /\ step = "seed_data" => BoxAfter(step, b, v) = [b EXCEPT !.seeded = b.files]
           /\ step = "build_backend" => BoxAfter(step, b, v) = [b EXCEPT !.backend = b.files]
           /\ step = "start_backend" => BoxAfter(step, b, v) = [b EXCEPT !.live = b.backend]
           /\ step = "build_frontend" => BoxAfter(step, b, v) = [b EXCEPT !.frontend = b.files]
           /\ step \notin {"fetch_bundle", "seed_data", "build_backend", "start_backend", "build_frontend"} =>
                 BoxAfter(step, b, v) = b
BY DEF BoxAfter

LEMMA BoxTyped ==
    ASSUME NEW b \in Box, NEW step, NEW v \in Versions
    PROVE  BoxAfter(step, b, v) \in Box
<1>1. 0 \in Versions
  BY TestAssumption DEF Versions
<1>2. CASE step = "fetch_bundle"
  <2>1. BoxAfter(step, b, v) = [b EXCEPT !.files = v, !.backend = 0, !.frontend = 0]
    BY <1>2 DEF BoxAfter
  <2>2. [b EXCEPT !.files = v, !.backend = 0, !.frontend = 0] \in Box
    BY <1>1 DEF Box
  <2> QED
    BY <2>1, <2>2
<1>3. CASE step = "seed_data"
  <2>1. BoxAfter(step, b, v) = [b EXCEPT !.seeded = b.files]
    BY <1>3 DEF BoxAfter
  <2>2. [b EXCEPT !.seeded = b.files] \in Box
    BY <1>1 DEF Box
  <2> QED
    BY <2>1, <2>2
<1>4. CASE step = "build_backend"
  <2>1. BoxAfter(step, b, v) = [b EXCEPT !.backend = b.files]
    BY <1>4 DEF BoxAfter
  <2>2. [b EXCEPT !.backend = b.files] \in Box
    BY <1>1 DEF Box
  <2> QED
    BY <2>1, <2>2
<1>5. CASE step = "start_backend"
  <2>1. BoxAfter(step, b, v) = [b EXCEPT !.live = b.backend]
    BY <1>5 DEF BoxAfter
  <2>2. [b EXCEPT !.live = b.backend] \in Box
    BY <1>1 DEF Box
  <2> QED
    BY <2>1, <2>2
<1>6. CASE step = "build_frontend"
  <2>1. BoxAfter(step, b, v) = [b EXCEPT !.frontend = b.files]
    BY <1>6 DEF BoxAfter
  <2>2. [b EXCEPT !.frontend = b.files] \in Box
    BY <1>1 DEF Box
  <2> QED
    BY <2>1, <2>2
<1>7. CASE step \notin {"fetch_bundle", "seed_data", "build_backend", "start_backend", "build_frontend"}
  BY <1>7 DEF BoxAfter
<1> QED
  BY <1>2, <1>3, <1>4, <1>5, <1>6, <1>7

LEMMA BoxWorkKeeps ==
    ASSUME IInv, NEW e \in Execs, BoxWork(e)
    PROVE  IInv' /\ RunsMove
<1> DEFINE r == execs[e].run
           b == BoxAfter(StepOf(e), box[r], dep[r].ver)
           x == [execs[e] EXCEPT !.did = 1]
<1>1. /\ execs[e].pc = "work"
      /\ box' = [box EXCEPT ![r] = b] /\ execs' = [execs EXCEPT ![e] = x]
      /\ UNCHANGED <<runs, faults, cloudVars, manifest, tests, testers, dep, repairs>>
  BY DEF BoxWork, At
<1>2. x \in Exec /\ ExecFits(x)
  BY <1>1, AtNode DEF Exec, ExecFits
<1>3. b \in Box
  BY <1>1, AtNode, BoxTyped, TypeParts DEF IInv, WorldOK, Deploy
<1>4. WorldOK' /\ UNCHANGED <<sweep, tests>> /\ repairs' \in [Attempts -> Repair] /\ testers' \in [Testers -> Tester]
  BY <1>1, <1>3, TypeParts DEF IInv, WorldOK, cloudVars
<1>5. RunsMove /\ NoNewRun
  BY <1>1, StayMoves, StayNoNew
<1>6. /\ dep[execs[e].run] \in Deploy /\ dep[execs[e].run].idx >= 1
      /\ Numbered(dep[execs[e].run].inflight) /\ dep' = [dep EXCEPT ![execs[e].run] = dep[execs[e].run]]
      /\ \A k \in Testers : TesterFits(testers'[k])
  BY <1>1, AtNode
<1> HIDE DEF x, b, r
<1> QED
  BY <1>1, <1>2, <1>4, <1>5, <1>6, ExecKeeps

LEMMA PocWorkKeeps ==
    ASSUME IInv, NEW e \in Execs, PocWork(e)
    PROVE  IInv' /\ RunsMove
<1> DEFINE r == execs[e].run
           x == [execs[e] EXCEPT !.did = 1]
<1>1. /\ execs[e].pc = "work"
      /\ poc' \in PocStatuses
      /\ manifest' = [manifest EXCEPT ![r] = dep[r].ver] \/ UNCHANGED manifest
      /\ execs' = [execs EXCEPT ![e] = x]
      /\ UNCHANGED <<runs, faults, cloud, ledger, sweep, box, tests, testers, dep, repairs>>
  BY DEF PocWork, At, PocStatuses
<1>2. x \in Exec /\ ExecFits(x)
  BY <1>1, AtNode DEF Exec, ExecFits
<1>3. manifest' \in [RunIds -> Versions]
  BY <1>1, AtNode, TypeParts DEF IInv, WorldOK, Deploy
<1>4. WorldOK' /\ UNCHANGED <<sweep, tests>> /\ repairs' \in [Attempts -> Repair] /\ testers' \in [Testers -> Tester]
  BY <1>1, <1>3, TypeParts DEF IInv, WorldOK
<1>5. RunsMove /\ NoNewRun
  BY <1>1, StayMoves, StayNoNew
<1>6. /\ dep[execs[e].run] \in Deploy /\ dep[execs[e].run].idx >= 1
      /\ Numbered(dep[execs[e].run].inflight) /\ dep' = [dep EXCEPT ![execs[e].run] = dep[execs[e].run]]
      /\ \A k \in Testers : TesterFits(testers'[k])
  BY <1>1, AtNode
<1> HIDE DEF x, r
<1> QED
  BY <1>1, <1>2, <1>4, <1>5, <1>6, ExecKeeps

\* An execution whose index, callee or both were set goes on where the graph says.
LEMMA ProceedFits ==
    ASSUME NEW e \in Execs, NEW x \in Exec, x.idx \in 1..14, IsDeploy(x.run), Numbered(x.inflight), Proceed(e, x)
    PROVE  \E y \in Exec : ExecFits(y) /\ execs' = [execs EXCEPT ![e] = y]
<1>1. PICK spent \in BOOLEAN : execs' = [execs EXCEPT ![e] = Route(x, spent)]
  BY DEF Proceed
<1> QED
  BY <1>1, RouteFits

LEMMA StepSucceedsKeeps ==
    ASSUME IInv, NEW e \in Execs, StepSucceeds(e)
    PROVE  IInv' /\ RunsMove
<1> DEFINE r == execs[e].run
           d == [dep[r] EXCEPT !.idx = execs[e].idx + 1]
           x == [execs[e] EXCEPT !.idx = @ + 1]
<1>1. /\ execs[e].pc = "work" /\ dep' = [dep EXCEPT ![r] = d]
      /\ UNCHANGED <<cloudVars, testVars, repairs>> /\ faults' \in 0..MaxFaults
      /\ (Recorded(e) /\ Proceed(e, x)) \/ Refused(e)
  BY SameFaults DEF StepSucceeds, At
<1>2. execs[e].idx \in 1..13
  BY <1>1, AtNode DEF ExecFits
<1>3. d \in Deploy /\ d.idx >= 1 /\ Numbered(d.inflight)
  BY <1>1, <1>2, AtNode, PipelineIs DEF Deploy
<1>4. x \in Exec /\ x.idx \in 1..14 /\ IsDeploy(x.run) /\ Numbered(x.inflight)
  BY <1>1, <1>2, AtNode, PipelineIs DEF Exec, ExecFits
<1> HIDE DEF x, d
<1>5. CASE Recorded(e) /\ Proceed(e, x)
  <2>1. PICK y \in Exec : ExecFits(y) /\ execs' = [execs EXCEPT ![e] = y]
    BY <1>4, <1>5, ProceedFits
  <2>2. RunsMove /\ NoNewRun
    BY <1>1, <1>5, AtNode, DeployWrites DEF Recorded
  <2> QED
    BY <1>1, <1>3, <2>1, <2>2, ExecOnlyKeeps
<1>6. CASE Refused(e)
  BY <1>1, <1>3, <1>6, RefusedKeeps
<1> QED
  BY <1>1, <1>5, <1>6

LEMMA RepairableTyped ==
    ASSUME NEW step \in DOMAIN Repairable
    PROVE  Repairable[step] \in Components
BY DEF Repairable, Components

LEMMA StepFailsKeeps ==
    ASSUME IInv, NEW e \in Execs, StepFails(e)
    PROVE  IInv' /\ RunsMove
<1> DEFINE step == StepOf(e)
           x == IF step \in DOMAIN Repairable THEN [execs[e] EXCEPT !.did = 0, !.pc = "repair", !.comp = Repairable[step]]
                ELSE [execs[e] EXCEPT !.did = 0, !.pc = "fail"]
<1>1. /\ execs[e].pc = "work"
      /\ UNCHANGED <<cloudVars, testVars, dep, repairs>>
      /\ (Recorded(e) /\ execs' = [execs EXCEPT ![e] = x]) \/ Refused(e)
  BY DEF StepFails, At
<1>2. faults' \in 0..MaxFaults
  BY SameFaults DEF StepFails
<1>3. x \in Exec /\ ExecFits(x)
  BY <1>1, AtNode, RepairableTyped DEF Exec, ExecFits
<1>4. CASE Recorded(e) /\ execs' = [execs EXCEPT ![e] = x]
  <2>1. RunsMove /\ NoNewRun
    BY <1>1, <1>4, AtNode, DeployWrites DEF Recorded
  <2> HIDE DEF x
  <2> QED
    BY <1>1, <1>2, <1>3, <1>4, <2>1, ExecAloneKeeps
<1>5. CASE Refused(e)
  <2>1. /\ dep[execs[e].run] \in Deploy /\ dep[execs[e].run].idx >= 1
        /\ Numbered(dep[execs[e].run].inflight) /\ dep' = [dep EXCEPT ![execs[e].run] = dep[execs[e].run]]
    BY <1>1, AtNode
  <2> QED
    BY <1>1, <1>2, <1>5, <2>1, RefusedKeeps
<1> HIDE DEF x
<1> QED
  BY <1>1, <1>4, <1>5

\* A deployment's document with one field written.
LEMMA CalleeSet ==
    ASSUME NEW d \in Deploy, d.idx >= 1, NEW i \in InFlight, Numbered(i)
    PROVE  LET c == [d EXCEPT !.inflight = i] IN c \in Deploy /\ c.idx >= 1 /\ Numbered(c.inflight)
<1>1. [d EXCEPT !.inflight = i] \in Deploy
  BY DEF Deploy
<1>2. [d EXCEPT !.inflight = i].idx = d.idx /\ [d EXCEPT !.inflight = i].inflight = i
  BY DEF Deploy
<1> QED
  BY <1>1, <1>2

LEMMA TriesSet ==
    ASSUME NEW d \in Deploy, d.idx >= 1, Numbered(d.inflight), NEW t \in [Components -> 0..MaxRepairs + 1]
    PROVE  LET c == [d EXCEPT !.tries = t] IN c \in Deploy /\ c.idx >= 1 /\ Numbered(c.inflight)
<1>1. [d EXCEPT !.tries = t] \in Deploy
  BY DEF Deploy
<1>2. [d EXCEPT !.tries = t].idx = d.idx /\ [d EXCEPT !.tries = t].inflight = d.inflight
  BY DEF Deploy
<1> QED
  BY <1>1, <1>2

(***************************************************************************)
(* Its callees                                                             *)
(***************************************************************************)

\* A step in which the run is only stamped.
LEMMA TouchKeeps ==
    ASSUME IInv, NEW e \in Execs, execs[e].pc # "off", Store!TouchRun(execs[e].run),
           NEW x \in Exec, ExecFits(x), execs' = [execs EXCEPT ![e] = x],
           NEW d \in Deploy, d.idx >= 1, Numbered(d.inflight), dep' = [dep EXCEPT ![execs[e].run] = d],
           UNCHANGED <<cloudVars, testVars, repairs>>, faults' \in 0..MaxFaults
    PROVE  IInv' /\ RunsMove
<1>1. RunsMove /\ NoNewRun
  BY AtNode, DeployWrites
<1> QED
  BY <1>1, ExecOnlyKeeps

LEMMA CalleeTyped ==
    /\ \A c \in Components, n \in 1..MaxRepairs :
          LET i == [Nothing EXCEPT !.kind = "repair", !.comp = c, !.attempt = n]
          IN  i \in InFlight /\ Numbered(i)
    /\ [Nothing EXCEPT !.kind = "test"] \in InFlight /\ Numbered([Nothing EXCEPT !.kind = "test"])
    /\ Numbered(Nothing)
<1>1. \A n \in 1..MaxRepairs : n \in 0..MaxRepairs
  BY DeployAssumption
<1> QED
  BY <1>1, OffTyped DEF Nothing, InFlight, Numbered

LEMMA CountAttemptKeeps ==
    ASSUME IInv, NEW e \in Execs, CountAttempt(e)
    PROVE  IInv' /\ RunsMove
<1> DEFINE r == execs[e].run
           c == execs[e].comp
           n == Least(dep[r].tries[c] + 1, MaxRepairs + 1)
           d == [dep[r] EXCEPT !.tries = [dep[r].tries EXCEPT ![c] = n]]
           i == [Nothing EXCEPT !.kind = "repair", !.comp = c, !.attempt = n]
           x == IF n > MaxRepairs THEN [execs[e] EXCEPT !.pc = "fail"]
                ELSE [execs[e] EXCEPT !.pc = "mark", !.inflight = i]
<1>1. /\ execs[e].pc = "repair" /\ dep' = [dep EXCEPT ![r] = d]
      /\ execs' = [execs EXCEPT ![e] = x]
      /\ Store!TouchRun(r)
      /\ UNCHANGED <<cloudVars, testVars, repairs>> /\ faults' \in 0..MaxFaults
  BY SameFaults DEF CountAttempt, At
<1>2. c \in Components /\ dep[r].tries \in [Components -> 0..MaxRepairs + 1]
  BY <1>1, AtNode DEF Exec, Deploy
<1>3. n \in 1..MaxRepairs + 1
  BY <1>2, DeployAssumption DEF Least
<1>4. d \in Deploy /\ d.idx >= 1 /\ Numbered(d.inflight)
  <2> DEFINE t == [dep[r].tries EXCEPT ![c] = n]
  <2>1. t \in [Components -> 0..MaxRepairs + 1]
    BY <1>2, <1>3, DeployAssumption
  <2>2. dep[r] \in Deploy /\ dep[r].idx >= 1 /\ Numbered(dep[r].inflight)
    BY <1>1, AtNode
  <2> HIDE DEF n, t
  <2>3. LET z == [dep[r] EXCEPT !.tries = t] IN z \in Deploy /\ z.idx >= 1 /\ Numbered(z.inflight)
    BY <2>1, <2>2, TriesSet
  <2> QED
    BY <2>3 DEF t
<1>5. x \in Exec /\ ExecFits(x)
  <2>0. execs[e].pc = "repair" /\ execs[e] \in Exec /\ ExecFits(execs[e])
    BY <1>1, AtNode
  <2> HIDE DEF n
  <2>1. CASE n > MaxRepairs
    <3>1. x = [execs[e] EXCEPT !.pc = "fail"]
      BY <2>1
    <3>2. [execs[e] EXCEPT !.pc = "fail"] \in Exec /\ ExecFits([execs[e] EXCEPT !.pc = "fail"])
      BY <2>0 DEF Exec, ExecFits
    <3> QED
      BY <3>1, <3>2
  <2>2. CASE ~(n > MaxRepairs)
    <3>1. i \in InFlight /\ Numbered(i)
      <4>1. n \in 1..MaxRepairs
        BY <1>3, <2>2, DeployAssumption
      <4> HIDE DEF c
      <4> QED
        BY <1>2, <4>1, CalleeTyped
    <3>2. x = [execs[e] EXCEPT !.pc = "mark", !.inflight = i]
      BY <2>2
    <3> HIDE DEF i
    <3>3. LET y == [execs[e] EXCEPT !.pc = "mark", !.inflight = i] IN y \in Exec /\ ExecFits(y)
      BY <2>0, <3>1 DEF Exec, ExecFits
    <3> HIDE DEF x
    <3> QED
      BY <3>2, <3>3
  <2> QED
    BY <2>1, <2>2
<1> HIDE DEF x, d
<1> QED
  BY <1>1, <1>4, <1>5, TouchKeeps

LEMMA AskForTestsKeeps ==
    ASSUME IInv, NEW e \in Execs, AskForTests(e)
    PROVE  IInv' /\ RunsMove
<1> DEFINE r == execs[e].run
           d == [dep[r] EXCEPT !.idx = execs[e].idx + 1]
           i == [Nothing EXCEPT !.kind = "test"]
           x == [execs[e] EXCEPT !.pc = "mark", !.inflight = i]
           y == [execs[e] EXCEPT !.idx = @ + 1]
<1>1. /\ execs[e].pc = "tests"
      /\ UNCHANGED <<cloudVars, testVars, repairs>> /\ faults' \in 0..MaxFaults
      /\ \/ Recorded(e) /\ execs' = [execs EXCEPT ![e] = x] /\ UNCHANGED dep
         \/ Recorded(e) /\ dep' = [dep EXCEPT ![r] = d] /\ Proceed(e, y)
         \/ Refused(e) /\ UNCHANGED dep
  BY SameFaults DEF AskForTests, At
<1>2. execs[e].idx = 12
  BY <1>1, AtNode DEF ExecFits
<1>3. x \in Exec /\ ExecFits(x)
  <2>1. i \in InFlight /\ Numbered(i)
    BY CalleeTyped
  <2> HIDE DEF i
  <2> QED
    BY <1>1, <1>2, <2>1, AtNode, NodeFits DEF Exec, ExecFits
<1>4. d \in Deploy /\ d.idx >= 1 /\ Numbered(d.inflight)
  BY <1>1, <1>2, AtNode, PipelineIs DEF Deploy
<1>5. y \in Exec /\ y.idx \in 1..14 /\ IsDeploy(y.run) /\ Numbered(y.inflight)
  BY <1>1, <1>2, AtNode, PipelineIs DEF Exec, ExecFits
<1>6. Recorded(e) => RunsMove /\ NoNewRun
  BY <1>1, AtNode, DeployWrites DEF Recorded
<1> HIDE DEF x, d, y
<1>7. CASE Recorded(e) /\ execs' = [execs EXCEPT ![e] = x] /\ UNCHANGED dep
  BY <1>1, <1>3, <1>6, <1>7, ExecAloneKeeps
<1>8. CASE Recorded(e) /\ dep' = [dep EXCEPT ![r] = d] /\ Proceed(e, y)
  <2>1. PICK z \in Exec : ExecFits(z) /\ execs' = [execs EXCEPT ![e] = z]
    BY <1>5, <1>8, ProceedFits
  <2> QED
    BY <1>1, <1>4, <1>6, <1>8, <2>1, ExecOnlyKeeps
<1>9. CASE Refused(e) /\ UNCHANGED dep
  <2>1. /\ dep[r] \in Deploy /\ dep[r].idx >= 1 /\ Numbered(dep[r].inflight) /\ dep' = [dep EXCEPT ![r] = dep[r]]
    BY <1>1, <1>9, AtNode
  <2> QED
    BY <1>1, <1>9, <2>1, RefusedKeeps
<1> QED
  BY <1>1, <1>7, <1>8, <1>9

LEMMA MarkInFlightKeeps ==
    ASSUME IInv, NEW e \in Execs, MarkInFlight(e)
    PROVE  IInv' /\ RunsMove
<1> DEFINE r == execs[e].run
<1>1. PICK n \in Since :
         LET callee == [execs[e].inflight EXCEPT !.after = IF execs[e].inflight.kind = "test" THEN n ELSE 0]
         IN  /\ dep' = [dep EXCEPT ![r].inflight = callee]
             /\ execs' = [execs EXCEPT ![e].pc = "fire", ![e].inflight = callee]
  BY DEF MarkInFlight
<1> DEFINE i == [execs[e].inflight EXCEPT !.after =
                    IF execs[e].inflight.kind = "test" THEN n ELSE 0]
           d == [dep[r] EXCEPT !.inflight = i]
           x == [execs[e] EXCEPT !.pc = "fire", !.inflight = i]
<1>2. /\ execs[e].pc = "mark" /\ Store!TouchRun(r)
      /\ UNCHANGED <<cloudVars, testVars, repairs>> /\ faults' \in 0..MaxFaults
  BY SameFaults DEF MarkInFlight, At
<1>3. execs[e].inflight \in InFlight /\ Numbered(execs[e].inflight) /\ n \in RunIds \cup {0}
  BY <1>2, AtNode DEF Exec, ExecFits, Since
<1>4. dep' = [dep EXCEPT ![r] = d] /\ execs' = [execs EXCEPT ![e] = x]
  BY <1>1, <1>2, <1>3, AtNode DEF InFlight
<1>5. i \in InFlight /\ Numbered(i)
  BY <1>3 DEF InFlight, Numbered
<1> HIDE DEF i
<1>6. d \in Deploy /\ d.idx >= 1 /\ Numbered(d.inflight)
  BY <1>2, <1>5, AtNode, CalleeSet
<1>7. x \in Exec /\ ExecFits(x)
  BY <1>2, <1>5, AtNode, NodeFits DEF Exec, ExecFits
<1> HIDE DEF x, d
<1> QED
  BY <1>2, <1>4, <1>6, <1>7, TouchKeeps

LEMMA InvitedKeeps ==
    ASSUME IInv, NEW k \in Testers, NEW r, IsDeploy(r), Invited(k, r)
    PROVE  /\ testers' \in [Testers -> Tester]
           /\ \A j \in Testers : TesterFits(testers'[j])
<1> DEFINE t == [NoTester EXCEPT !.pc = "start", !.of = r]
<1>1. testers' = [testers EXCEPT ![k] = t]
  BY DEF Invited
<1>2. t \in Tester /\ TesterFits(t)
  BY DEF NoTester, Tester, TesterFits, IsDeploy
<1> HIDE DEF t
<1> QED
  BY <1>1, <1>2, TypeParts DEF IInv, Placed

LEMMA FiresKeeps ==
    ASSUME IInv, NEW e \in Execs, execs[e].pc = "fire", NEW started \in BOOLEAN, Fires(e, started)
    PROVE  /\ repairs' \in [Attempts -> Repair]
           /\ testers' \in [Testers -> Tester]
           /\ \A j \in Testers : TesterFits(testers'[j])
<1>1. repairs \in [Attempts -> Repair] /\ testers \in [Testers -> Tester]
  BY TypeParts DEF IInv
<1>2. CASE execs[e].inflight.kind = "repair"
  <2>1. AttemptOf(e) \in Attempts
    BY <1>2, AtNode DEF AttemptOf, Attempts, Exec, ExecFits, Numbered, InFlight
  <2>2. repairs' \in [Attempts -> Repair]
    <3> DEFINE a == AttemptOf(e)
               z == [repairs[a] EXCEPT !.state = "fired", !.fired = Least(repairs[a].fired + 1, 2)]
    <3>1. z \in Repair
      <4>1. repairs[a] \in Repair /\ Least(repairs[a].fired + 1, 2) \in 0..2
        BY <1>1, <2>1 DEF Repair, Least
      <4> QED
        BY <4>1 DEF Repair
    <3>2. repairs' = [repairs EXCEPT ![a] = z] \/ repairs' = repairs
      BY <1>1, <1>2, <2>1 DEF Fires, Repair
    <3> HIDE DEF z, a
    <3> QED
      BY <1>1, <3>1, <3>2
  <2> QED
    BY <1>1, <1>2, <2>2, AtNode DEF Fires
<1>3. CASE execs[e].inflight.kind # "repair"
  <2>1. UNCHANGED testers \/ \E k \in Testers : Invited(k, execs[e].run)
    BY <1>3 DEF Fires
  <2>2. UNCHANGED repairs
    BY <1>3 DEF Fires
  <2> QED
    BY <1>1, <2>1, <2>2, AtNode, InvitedKeeps
<1> QED
  BY <1>2, <1>3

LEMMA CallKeeps ==
    ASSUME IInv, NEW e \in Execs, execs[e].pc = "fire", NEW started \in BOOLEAN, Fires(e, started),
           NEW x \in Exec, ExecFits(x), execs' = [execs EXCEPT ![e] = x],
           UNCHANGED <<runs, cloudVars, box, manifest, tests, dep>>, faults' \in 0..MaxFaults
    PROVE  IInv' /\ RunsMove
<1>1. RunsMove /\ NoNewRun
  BY StayMoves, StayNoNew
<1>2. WorldOK' /\ UNCHANGED <<sweep, tests>>
  BY TypeParts DEF IInv, WorldOK, cloudVars
<1>3. /\ dep[execs[e].run] \in Deploy /\ dep[execs[e].run].idx >= 1
      /\ Numbered(dep[execs[e].run].inflight) /\ dep' = [dep EXCEPT ![execs[e].run] = dep[execs[e].run]]
  BY AtNode
<1> QED
  BY <1>1, <1>2, <1>3, FiresKeeps, ExecKeeps

LEMMA FireKeeps ==
    ASSUME IInv, NEW e \in Execs, Fire(e)
    PROVE  IInv' /\ RunsMove
<1>1. /\ execs[e].pc = "fire" /\ Proceed(e, execs[e])
      /\ UNCHANGED <<runs, cloudVars, box, manifest, tests, dep>> /\ faults' \in 0..MaxFaults
  BY SameFaults DEF Fire, At
<1>2. PICK started \in BOOLEAN : Fires(e, started)
  BY DEF Fire
<1>3. PICK x \in Exec : ExecFits(x) /\ execs' = [execs EXCEPT ![e] = x]
  BY <1>1, AtNode, ProceedFits DEF ExecFits
<1> QED
  BY <1>1, <1>2, <1>3, CallKeeps

LEMMA FireRaisesKeeps ==
    ASSUME IInv, NEW e \in Execs, FireRaises(e)
    PROVE  IInv' /\ RunsMove
<1> DEFINE x == [execs[e] EXCEPT !.pc = "clear"]
<1>1. /\ execs[e].pc = "fire" /\ execs' = [execs EXCEPT ![e] = x]
      /\ UNCHANGED <<runs, cloudVars, box, manifest, tests, dep>> /\ faults' \in 0..MaxFaults
  BY SameFaults DEF FireRaises, At, Goto
<1>2. PICK started \in BOOLEAN : Fires(e, started)
  BY DEF FireRaises
<1>3. x \in Exec /\ ExecFits(x)
  BY <1>1, AtNode DEF Exec, ExecFits
<1> HIDE DEF x
<1> QED
  BY <1>1, <1>2, <1>3, CallKeeps

LEMMA ClearInFlightKeeps ==
    ASSUME IInv, NEW e \in Execs, ClearInFlight(e)
    PROVE  IInv' /\ RunsMove
<1> DEFINE r == execs[e].run
           d == [dep[r] EXCEPT !.inflight = Nothing]
           x == [execs[e] EXCEPT !.pc = "fail", !.inflight = Nothing]
<1>1. /\ execs[e].pc = "clear" /\ dep' = [dep EXCEPT ![r] = d] /\ execs' = [execs EXCEPT ![e] = x]
      /\ Store!TouchRun(r)
      /\ UNCHANGED <<cloudVars, testVars, repairs>> /\ faults' \in 0..MaxFaults
  BY SameFaults DEF ClearInFlight, At
<1>2. d \in Deploy /\ d.idx >= 1 /\ Numbered(d.inflight)
  <2>1. Nothing \in InFlight /\ Numbered(Nothing)
    BY OffTyped, CalleeTyped
  <2>2. dep[r] \in Deploy /\ dep[r].idx >= 1
    BY <1>1, AtNode
  <2> QED
    BY <2>1, <2>2, CalleeSet
<1>3. x \in Exec /\ ExecFits(x)
  BY <1>1, OffTyped, CalleeTyped, AtNode DEF Exec, ExecFits
<1> HIDE DEF x, d
<1> QED
  BY <1>1, <1>2, <1>3, TouchKeeps

(***************************************************************************)
(* Its waits and its end                                                   *)
(***************************************************************************)

\* The first failure in the report of a test run that succeeded names a component.
LEMMA SuspectTyped ==
    ASSUME IInv, NEW q \in RunIds, IsTest(q), runs[q].status = "succeeded", ~Passed(q)
    PROVE  Suspect(q) \in Components
<1>1. tests[q] \in Test /\ Reported(q)
  BY TypeParts DEF IInv, Placed, DocFits
<1>2. tests[q].api.says \in {"passed"} \cup Components /\ tests[q].browser.says \in {"none", "passed"} \cup Components
  BY <1>1 DEF Test, Result, Reported
<1> QED
  BY <1>2 DEF Suspect, Passed

LEMMA TestsAnswerKeeps ==
    ASSUME IInv, NEW e \in Execs, TestsAnswer(e)
    PROVE  IInv' /\ RunsMove
<1> DEFINE r == execs[e].run
           x == [execs[e] EXCEPT !.inflight = Nothing]
           passed(q) == runs[q].status = "succeeded" /\ Passed(q)
           y == [x EXCEPT !.idx = Position("run_tests") + 1]
           z(q) == IF runs[q].status = "succeeded" THEN [x EXCEPT !.pc = "repair", !.comp = Suspect(q)]
                   ELSE [x EXCEPT !.pc = "fail"]
<1>1. /\ execs[e].pc = "wait" /\ Store!TouchRun(r)
      /\ UNCHANGED <<cloudVars, testVars, repairs>> /\ faults' \in 0..MaxFaults
  BY SameFaults DEF TestsAnswer, At
<1>2. PICK q \in Answering(e) :
         /\ dep' = [dep EXCEPT ![r].inflight = Nothing, ![r].verdict = q, ![r].passed = passed(q),
                               ![r].idx = IF passed(q) THEN Position("run_tests") + 1 ELSE @]
         /\ IF passed(q) THEN Proceed(e, y) ELSE execs' = [execs EXCEPT ![e] = z(q)]
  BY DEF TestsAnswer
<1>3. q \in RunIds /\ IsTest(q)
  BY <1>2 DEF Answering, Candidates, OfStage, IsTest
<1>4. dep[r] \in Deploy /\ execs[e] \in Exec /\ ExecFits(execs[e]) /\ Nothing \in InFlight /\ Numbered(Nothing)
      /\ dep[r].idx \in 1..14 /\ IsDeploy(r) /\ r \in RunIds /\ dep \in [RunIds -> Deploy]
  BY <1>1, AtNode, OffTyped, CalleeTyped, TypeParts DEF IInv
<1>5. Position("run_tests") + 1 = 13
  BY PipelineFacts
<1> DEFINE p == passed(q)
           idx == IF p THEN 13 ELSE dep[r].idx
           d == [dep[r] EXCEPT !.inflight = Nothing, !.verdict = q, !.passed = p, !.idx = idx]
<1>6. dep' = [dep EXCEPT ![r] = d] /\ d \in Deploy /\ d.idx >= 1 /\ Numbered(d.inflight)
  <2>1. p \in BOOLEAN
    BY DEF Passed
  <2> HIDE DEF passed
  <2>2. dep' = [dep EXCEPT ![r] = d]
    <3>1. dep' = [dep EXCEPT ![r].inflight = Nothing, ![r].verdict = q, ![r].passed = p,
                             ![r].idx = IF p THEN 13 ELSE @]
      BY <1>2, <1>5
    <3> HIDE DEF p
    <3> QED
      BY <1>4, <3>1 DEF Deploy
  <2>3. p \in BOOLEAN /\ idx \in 1..14
    BY <1>4, <2>1
  <2> HIDE DEF p, idx
  <2>4. \A i \in 1..14 : i \in 0..Len(Pipeline) + 1
    BY PipelineIs
  <2>5. d \in Deploy
    BY <1>3, <1>4, <2>3, <2>4 DEF Deploy
  <2>6. d.idx = idx /\ d.inflight = Nothing
    BY <1>4 DEF Deploy
  <2> HIDE DEF d
  <2> QED
    BY <1>4, <2>2, <2>3, <2>5, <2>6
<1>7. \E w \in Exec : ExecFits(w) /\ execs' = [execs EXCEPT ![e] = w]
  <2>1. CASE passed(q)
    <3>1. y \in Exec /\ y.idx \in 1..14 /\ IsDeploy(y.run) /\ Numbered(y.inflight)
      <4>1. y = [execs[e] EXCEPT !.inflight = Nothing, !.idx = 13]
        BY <1>5
      <4>2. 13 \in 0..Len(Pipeline) + 1
        BY PipelineIs
      <4>3. LET w == [execs[e] EXCEPT !.inflight = Nothing, !.idx = 13]
            IN  w \in Exec /\ w.idx = 13 /\ w.run = r /\ w.inflight = Nothing
        BY <1>4, <4>2 DEF Exec
      <4> HIDE DEF y
      <4> QED
        BY <1>4, <4>1, <4>3
    <3>2. Proceed(e, y)
      BY <1>2, <2>1
    <3> HIDE DEF y
    <3> QED
      BY <3>1, <3>2, ProceedFits
  <2>2. CASE ~passed(q)
    <3>1. execs' = [execs EXCEPT ![e] = z(q)]
      BY <1>2, <2>2
    <3>2. CASE runs[q].status = "succeeded"
      <4>1. Suspect(q) \in Components
        BY <1>3, <2>2, <3>2, SuspectTyped
      <4>2. z(q) = [execs[e] EXCEPT !.inflight = Nothing, !.pc = "repair", !.comp = Suspect(q)]
        BY <3>2
      <4>3. LET w == [execs[e] EXCEPT !.inflight = Nothing, !.pc = "repair", !.comp = Suspect(q)]
            IN  w \in Exec /\ ExecFits(w)
        BY <1>1, <1>4, <4>1 DEF Exec, ExecFits
      <4> HIDE DEF z
      <4> QED
        BY <3>1, <4>2, <4>3
    <3>3. CASE runs[q].status # "succeeded"
      <4>1. z(q) = [execs[e] EXCEPT !.inflight = Nothing, !.pc = "fail"]
        BY <3>3
      <4>2. LET w == [execs[e] EXCEPT !.inflight = Nothing, !.pc = "fail"]
            IN  w \in Exec /\ ExecFits(w)
        BY <1>1, <1>4 DEF Exec, ExecFits
      <4> HIDE DEF z
      <4> QED
        BY <3>1, <4>1, <4>2
    <3> QED
      BY <3>2, <3>3
  <2> QED
    BY <2>1, <2>2
<1> HIDE DEF d, x, y, z, p, idx, passed
<1> QED
  BY <1>1, <1>2, <1>6, <1>7, TouchKeeps

LEMMA RepairAnswersKeeps ==
    ASSUME IInv, NEW e \in Execs, RepairAnswers(e)
    PROVE  IInv' /\ RunsMove
<1> DEFINE r == execs[e].run
           v == repairs[AttemptOf(e)].ver
           d == [dep[r] EXCEPT !.ver = v, !.inflight = Nothing, !.idx = 5]
           y == [execs[e] EXCEPT !.inflight = Nothing, !.idx = 5]
<1>1. /\ execs[e].pc = "wait" /\ execs[e].inflight.kind = "repair" /\ Store!TouchRun(r)
      /\ UNCHANGED <<cloudVars, testVars, repairs>> /\ faults' \in 0..MaxFaults
  BY SameFaults DEF RepairAnswers, At
<1>2. dep[r] \in Deploy /\ execs[e] \in Exec /\ ExecFits(execs[e]) /\ Nothing \in InFlight /\ Numbered(Nothing)
      /\ IsDeploy(r) /\ r \in RunIds
  BY <1>1, AtNode, OffTyped, CalleeTyped
<1>3. dep' = [dep EXCEPT ![r] = d] /\ Proceed(e, y)
  BY PipelineFacts DEF RepairAnswers
<1>4. v \in Versions
  <2>1. AttemptOf(e) \in Attempts
    BY <1>1, <1>2 DEF AttemptOf, Attempts, Exec, ExecFits, Numbered, InFlight
  <2> QED
    BY <2>1, TypeParts DEF IInv, Repair
<1>5. 5 \in 0..Len(Pipeline) + 1
  BY PipelineIs
<1>6. d \in Deploy /\ d.idx >= 1 /\ Numbered(d.inflight)
  <2> HIDE DEF v
  <2>1. d \in Deploy
    BY <1>2, <1>4, <1>5 DEF Deploy
  <2>2. d.idx = 5 /\ d.inflight = Nothing
    BY <1>2 DEF Deploy
  <2> QED
    BY <1>2, <2>1, <2>2
<1>7. y \in Exec /\ y.idx \in 1..14 /\ IsDeploy(y.run) /\ Numbered(y.inflight)
  <2>1. y \in Exec /\ y.idx = 5 /\ y.run = r /\ y.inflight = Nothing
    BY <1>2, <1>5 DEF Exec
  <2> QED
    BY <1>2, <2>1
<1> HIDE DEF d, y, v
<1>8. PICK w \in Exec : ExecFits(w) /\ execs' = [execs EXCEPT ![e] = w]
  BY <1>3, <1>7, ProceedFits
<1> QED
  BY <1>1, <1>3, <1>6, <1>8, TouchKeeps

LEMMA TouchAloneKeeps ==
    ASSUME IInv, NEW e \in Execs, execs[e].pc # "off", Store!TouchRun(execs[e].run),
           NEW x \in Exec, ExecFits(x), execs' = [execs EXCEPT ![e] = x],
           UNCHANGED <<cloudVars, testVars, dep, repairs>>, faults' \in 0..MaxFaults
    PROVE  IInv' /\ RunsMove
<1>1. RunsMove /\ NoNewRun
  BY AtNode, DeployWrites
<1> QED
  BY <1>1, ExecAloneKeeps

LEMMA WaitFailsKeeps ==
    ASSUME IInv, NEW e \in Execs, WaitFails(e)
    PROVE  IInv' /\ RunsMove
<1> DEFINE x == [execs[e] EXCEPT !.pc = "clear"]
<1>1. /\ execs[e].pc = "wait" /\ execs' = [execs EXCEPT ![e] = x] /\ Store!TouchRun(execs[e].run)
      /\ UNCHANGED <<cloudVars, testVars, dep, repairs>> /\ faults' \in 0..MaxFaults
  BY SameFaults DEF WaitFails, At, Goto
<1>2. x \in Exec /\ ExecFits(x)
  BY <1>1, AtNode DEF Exec, ExecFits
<1> HIDE DEF x
<1> QED
  BY <1>1, <1>2, TouchAloneKeeps

LEMMA WaitWindowKeeps ==
    ASSUME IInv, NEW e \in Execs, WaitWindow(e)
    PROVE  IInv' /\ RunsMove
<1> DEFINE x == [execs[e] EXCEPT !.pc = "handover"]
<1>1. /\ execs[e].pc = "wait" /\ execs' = [execs EXCEPT ![e] = x] /\ Store!TouchRun(execs[e].run)
      /\ UNCHANGED <<cloudVars, testVars, dep, repairs>> /\ faults' \in 0..MaxFaults
  BY SameFaults DEF WaitWindow, At, Goto
<1>2. x \in Exec /\ ExecFits(x)
  BY <1>1, AtNode DEF Exec, ExecFits
<1> HIDE DEF x
<1> QED
  BY <1>1, <1>2, TouchAloneKeeps

\* A new execution that is to continue run r.
LEMMA ResumeFits ==
    ASSUME NEW r, IsDeploy(r)
    PROVE  LET x == [Off EXCEPT !.pc = "resume", !.run = r] IN x \in Exec /\ ExecFits(x)
<1>1. Off \in Exec /\ Numbered(Off.inflight) /\ r # 0 /\ r \in RunIds
  BY OffTyped, StoreFacts DEF IsDeploy, ExecFits
<1>2. [Off EXCEPT !.pc = "resume", !.run = r] \in Exec
  BY <1>1 DEF Exec
<1>3. /\ [Off EXCEPT !.pc = "resume", !.run = r].pc = "resume"
      /\ [Off EXCEPT !.pc = "resume", !.run = r].run = r
      /\ [Off EXCEPT !.pc = "resume", !.run = r].did = 0
      /\ [Off EXCEPT !.pc = "resume", !.run = r].inflight = Off.inflight
  BY DEF Off
<1> QED
  BY <1>1, <1>2, <1>3 DEF ExecFits

LEMMA HandOverKeeps ==
    ASSUME IInv, NEW e \in Execs, HandOver(e)
    PROVE  IInv' /\ RunsMove
<1>1. /\ execs[e].pc = "handover" /\ Store!TouchRun(execs[e].run)
      /\ UNCHANGED <<cloudVars, testVars, dep, repairs>> /\ faults' \in 0..MaxFaults
  BY SameFaults DEF HandOver, At
<1>2. \E x \in Exec : ExecFits(x) /\ execs' = [execs EXCEPT ![e] = x]
  <2>1. execs[e] \in Exec /\ ExecFits(execs[e]) /\ IsDeploy(execs[e].run)
    BY <1>1, AtNode
  <2>2. CASE execs' = [execs EXCEPT ![e] = [Off EXCEPT !.pc = "resume", !.run = execs[e].run]]
    BY <2>1, <2>2, ResumeFits
  <2>3. CASE Stop(e)
    BY <2>3, OffTyped DEF Stop
  <2>4. CASE execs' = [execs EXCEPT ![e] = Route(@, FALSE)]
    <3>1. execs' = [execs EXCEPT ![e] = Route(execs[e], FALSE)]
      BY <2>4
    <3>2. Route(execs[e], FALSE) \in Exec /\ ExecFits(Route(execs[e], FALSE))
      BY <1>1, <2>1, RouteFits DEF ExecFits
    <3> QED
      BY <3>1, <3>2
  <2> QED
    BY <2>2, <2>3, <2>4 DEF HandOver
<1> QED
  BY <1>1, <1>2, TouchAloneKeeps

LEMMA FinishKeeps ==
    ASSUME IInv, NEW e \in Execs, Finish(e)
    PROVE  IInv' /\ RunsMove
<1>1. /\ execs[e].pc = "finish" /\ execs' = [execs EXCEPT ![e] = Off]
      /\ UNCHANGED <<cloudVars, testVars, dep, repairs>> /\ faults' \in 0..MaxFaults
  BY SameFaults DEF Finish, At, Stop
<1>2. RunsMove /\ NoNewRun
  BY <1>1, AtNode, DeployWrites DEF Finish
<1> QED
  BY <1>1, <1>2, OffTyped, ExecAloneKeeps

LEMMA FinishFailedKeeps ==
    ASSUME IInv, NEW e \in Execs, FinishFailed(e)
    PROVE  IInv' /\ RunsMove
<1> DEFINE x == [execs[e] EXCEPT !.pc = "release"]
<1>1. /\ execs[e].pc = "fail" /\ execs' = [execs EXCEPT ![e] = x]
      /\ UNCHANGED <<cloudVars, testVars, dep, repairs>> /\ faults' \in 0..MaxFaults
  BY SameFaults DEF FinishFailed, At, Goto
<1>2. RunsMove /\ NoNewRun
  BY <1>1, AtNode, DeployWrites DEF FinishFailed
<1>3. x \in Exec /\ ExecFits(x)
  BY <1>1, AtNode DEF Exec, ExecFits
<1> HIDE DEF x
<1> QED
  BY <1>1, <1>2, <1>3, ExecAloneKeeps

\* A step of an execution that writes the status of the POC.
LEMMA PocKeeps ==
    ASSUME IInv, RunsMove, NoNewRun, NEW e \in Execs, execs[e].pc # "off",
           NEW x \in Exec, ExecFits(x), execs' = [execs EXCEPT ![e] = x], poc' \in PocStatuses,
           UNCHANGED <<faults, cloud, ledger, sweep, testVars, dep, repairs>>
    PROVE  IInv'
<1>1. WorldOK' /\ UNCHANGED <<sweep, tests>> /\ repairs' \in [Attempts -> Repair] /\ testers' \in [Testers -> Tester]
  BY TypeParts DEF IInv, WorldOK, testVars
<1>2. /\ dep[execs[e].run] \in Deploy /\ dep[execs[e].run].idx >= 1
      /\ Numbered(dep[execs[e].run].inflight) /\ dep' = [dep EXCEPT ![execs[e].run] = dep[execs[e].run]]
      /\ \A k \in Testers : TesterFits(testers'[k])
  BY AtNode DEF testVars
<1> QED
  BY <1>1, <1>2, ExecKeeps

LEMMA ReleasePocKeeps ==
    ASSUME IInv, NEW e \in Execs, ReleasePoc(e)
    PROVE  IInv' /\ RunsMove
<1>1. /\ execs[e].pc = "release" /\ execs' = [execs EXCEPT ![e] = Off] /\ poc' \in PocStatuses
      /\ UNCHANGED <<runs, faults, cloud, ledger, sweep, testVars, dep, repairs>>
  BY DEF ReleasePoc, At, Stop, PocStatuses
<1> QED
  BY <1>1, StayMoves, StayNoNew, OffTyped, PocKeeps

LEMMA ResumeKeeps ==
    ASSUME IInv, NEW e \in Execs, Resume(e)
    PROVE  IInv' /\ RunsMove
<1> DEFINE r == execs[e].run
           x == [execs[e] EXCEPT !.idx = dep[r].idx, !.inflight = dep[r].inflight]
<1>1. execs[e].pc = "resume" /\ UNCHANGED <<faults, cloud, ledger, sweep, testVars, dep, repairs>>
  BY DEF Resume, At
<1>2. /\ execs[e] \in Exec /\ ExecFits(execs[e]) /\ IsDeploy(r) /\ r \in RunIds
      /\ dep[r] \in Deploy /\ dep[r].idx \in 1..14 /\ Numbered(dep[r].inflight)
  BY <1>1, AtNode
<1>3. CASE Store!ReopenRun(r) /\ execs' = [execs EXCEPT ![e] = Route(x, FALSE)] /\ poc' = "deploying"
  <2>1. x \in Exec /\ x.idx \in 1..14 /\ IsDeploy(x.run) /\ Numbered(x.inflight)
    BY <1>2, PipelineIs DEF Exec, Deploy
  <2> HIDE DEF x
  <2>2. Route(x, FALSE) \in Exec /\ ExecFits(Route(x, FALSE))
    BY <2>1, RouteFits
  <2>3. RunsMove /\ NoNewRun
    BY <1>2, <1>3, DeployWrites
  <2>4. poc' \in PocStatuses
    BY <1>3 DEF PocStatuses
  <2> QED
    BY <1>1, <1>3, <2>2, <2>3, <2>4, PocKeeps
<1>4. CASE Stop(e) /\ UNCHANGED <<runs, poc>>
  <2>1. poc' \in PocStatuses
    BY <1>4, TypeParts DEF IInv, WorldOK
  <2> QED
    BY <1>1, <1>4, <2>1, StayMoves, StayNoNew, OffTyped, PocKeeps DEF Stop
<1>5. \/ Store!ReopenRun(r) /\ execs' = [execs EXCEPT ![e] = Route(x, FALSE)] /\ poc' = "deploying"
      \/ Stop(e) /\ UNCHANGED <<runs, poc>>
  BY DEF Resume
<1> QED
  BY <1>3, <1>4, <1>5

LEMMA DieKeeps ==
    ASSUME IInv, NEW e \in Execs, Die(e)
    PROVE  IInv' /\ RunsMove
<1>1. /\ execs[e].pc # "off" /\ execs' = [execs EXCEPT ![e] = Off]
      /\ UNCHANGED <<runs, cloudVars, testVars, dep, repairs>> /\ faults' \in 0..MaxFaults
  BY SameFaults DEF Die, At, Stop
<1> QED
  BY <1>1, StayMoves, StayNoNew, OffTyped, ExecAloneKeeps

(***************************************************************************)
(* Deployments that are asked for                                          *)
(***************************************************************************)

LEMMA StartDeployKeeps ==
    ASSUME IInv, NEW e \in Execs, NEW mode \in Modes, NEW tested \in BOOLEAN, StartDeploy(e, mode, tested)
    PROVE  IInv' /\ RunsMove
<1> DEFINE d == [NoDeploy EXCEPT !.ver = 1, !.mode = mode, !.tests = tested, !.idx = 1]
<1>1. PICK r \in RunIds :
         /\ CreateRun(r, "deploy")
         /\ dep' = [dep EXCEPT ![r] = d]
         /\ execs' = [execs EXCEPT ![e] = [Off EXCEPT !.pc = "step", !.run = r, !.idx = 1]]
  BY DEF StartDeploy
<1> DEFINE x == [Off EXCEPT !.pc = "step", !.run = r, !.idx = 1]
<1>2. poc' = "deploying" /\ UNCHANGED <<faults, cloud, ledger, sweep, testVars, repairs>>
  BY DEF StartDeploy
<1>3. /\ RunsMove /\ Absent(r) /\ ~Absent(r)'
      /\ runs' = [runs EXCEPT ![r] = [stage |-> "deploy", status |-> "queued", silent |-> FALSE]]
  BY <1>1, CreateMoves DEF Stages
<1>4. 1 \in Versions /\ 1 \in 0..Len(Pipeline) + 1
  BY PipelineIs, TestAssumption DEF Versions
<1>5. d \in Deploy /\ d.idx = 1 /\ Numbered(d.inflight)
  <2>1. NoDeploy \in Deploy /\ Numbered(NoDeploy.inflight)
    BY OffTyped, CalleeTyped DEF NoDeploy
  <2>2. d \in Deploy
    BY <1>4, <2>1 DEF Deploy
  <2>3. d.idx = 1 /\ d.inflight = NoDeploy.inflight
    BY <2>1 DEF Deploy
  <2> QED
    BY <2>1, <2>2, <2>3
<1>6. x \in Exec /\ x.pc = "step" /\ x.run = r /\ x.idx = 1 /\ x.did = 0 /\ Numbered(x.inflight)
  <2>1. Off \in Exec /\ Off.did = 0 /\ Numbered(Off.inflight)
    BY OffTyped, CalleeTyped DEF Off
  <2> QED
    BY <1>4, <2>1 DEF Exec
<1> HIDE DEF d, x
<1>7. \A q : (IsDeploy(q) => IsDeploy(q)') /\ (IsTest(q) <=> IsTest(q)') /\ (IsTeardown(q) <=> IsTeardown(q)')
  BY <1>3, TypeParts DEF IInv, Store!TypeOK, Store!RunDoc, IsDeploy, IsTest, IsTeardown, Absent, Placed, DocFits
<1>8. IsDeploy(r)' /\ ~IsTest(r)' /\ r # 0
  BY <1>3, TypeParts, StoreFacts DEF IInv, Store!TypeOK, IsDeploy, IsTest
<1>9. TypeOK'
  <2>1. execs' \in [Execs -> Exec] /\ dep' \in [RunIds -> Deploy]
    BY <1>1, <1>5, <1>6, TypeParts DEF IInv, d, x
  <2> QED
    BY <1>2, <1>3, <2>1, TypeParts
       DEF IInv, RunsMove, TypeOK, TestTypeOK, LedgerTypeOK, WorldOK, testVars, PocStatuses
<1>10. \A q \in RunIds : DocFits(q)'
  <2> SUFFICES ASSUME NEW q \in RunIds PROVE DocFits(q)'
    OBVIOUS
  <2>1. dep'[r] = d /\ (q # r => dep'[q] = dep[q] /\ runs'[q] = runs[q])
    BY <1>1, <1>3, TypeParts DEF IInv, Store!TypeOK, d
  <2>2. CASE q = r
    BY <1>3, <1>5, <1>8, <2>1, <2>2 DEF DocFits, RunsMove
  <2>3. CASE q # r
    BY <1>2, <1>7, <2>1, <2>3, TypeParts
       DEF IInv, Store!TypeOK, Placed, DocFits, RunsMove, Reported, testVars, Absent, IsDeploy, IsTest
  <2> QED
    BY <2>2, <2>3
<1>11. \A f \in Execs : ExecFits(execs[f])'
  <2> SUFFICES ASSUME NEW f \in Execs PROVE ExecFits(execs[f])'
    OBVIOUS
  <2>1. CASE f = e
    <3>1. execs'[f] = x
      BY <1>1, <2>1, TypeParts DEF IInv, x
    <3> QED
      BY <1>6, <1>8, <3>1 DEF ExecFits
  <2>2. CASE f # e
    <3>1. execs'[f] = execs[f] /\ ExecFits(execs[f])
      BY <1>1, <2>2, TypeParts DEF IInv, Placed
    <3> QED
      BY <1>7, <3>1 DEF ExecFits
  <2> QED
    BY <2>1, <2>2
<1>12. (\A k \in Testers : TesterFits(testers[k])') /\ (sweep.pc # "off" => IsTeardown(sweep.run))'
  BY <1>2, <1>7 DEF IInv, Placed, TesterFits, Reported, testVars
<1> QED
  BY <1>3, <1>9, <1>10, <1>11, <1>12 DEF IInv, Placed

LEMMA RetryDeployKeeps ==
    ASSUME IInv, NEW e \in Execs, RetryDeploy(e)
    PROVE  IInv' /\ RunsMove
<1>1. PICK r \in Newest("deploy") :
         /\ Store!AbandonRun(r) \/ UNCHANGED runs
         /\ execs' = IF Resumable(r) THEN [execs EXCEPT ![e] = [Off EXCEPT !.pc = "resume", !.run = r]] ELSE execs
  BY DEF RetryDeploy
<1>2. UNCHANGED <<faults, cloudVars, testVars, dep, repairs>>
  BY DEF RetryDeploy
<1>3. r \in RunIds /\ IsDeploy(r)
  BY <1>1 DEF Newest, OfStage, IsDeploy
<1>4. RunsMove /\ NoNewRun
  BY <1>1, <1>3, DeployWrites, StayMoves, StayNoNew
<1> DEFINE x == [Off EXCEPT !.pc = "resume", !.run = r]
<1>5. x \in Exec /\ ExecFits(x)
  BY <1>3, ResumeFits
<1> HIDE DEF x
<1>6. execs' = [execs EXCEPT ![e] = x] \/ execs' = execs
  BY <1>1 DEF x
<1>7. \A q : (IsDeploy(q) <=> IsDeploy(q)') /\ (IsTest(q) <=> IsTest(q)') /\ (IsTeardown(q) <=> IsTeardown(q)')
  BY <1>4 DEF NoNewRun, IsDeploy, IsTest, IsTeardown
<1>8. TypeOK'
  <2>1. execs' \in [Execs -> Exec]
    BY <1>5, <1>6, TypeParts DEF IInv
  <2> QED
    BY <1>2, <1>4, <2>1, TypeParts
       DEF IInv, RunsMove, TypeOK, TestTypeOK, LedgerTypeOK, WorldOK, testVars, cloudVars
<1>9. \A q \in RunIds : DocFits(q)'
  BY <1>2, <1>4, <1>7 DEF IInv, Placed, DocFits, RunsMove, Reported, testVars
<1>10. \A f \in Execs : ExecFits(execs[f])'
  <2> SUFFICES ASSUME NEW f \in Execs PROVE ExecFits(execs[f])'
    OBVIOUS
  <2>1. ExecFits(execs'[f])
    BY <1>5, <1>6, TypeParts DEF IInv, Placed
  <2> QED
    BY <1>7, <2>1 DEF ExecFits
<1>11. (\A k \in Testers : TesterFits(testers[k])') /\ (sweep.pc # "off" => IsTeardown(sweep.run))'
  BY <1>2, <1>7 DEF IInv, Placed, TesterFits, Reported, testVars, cloudVars
<1> QED
  BY <1>4, <1>8, <1>9, <1>10, <1>11 DEF IInv, Placed

(***************************************************************************)
(* Test agent executions                                                   *)
(***************************************************************************)

\* A step of test agent execution k, whose record becomes t, that creates no run.
LEMMA TesterKeeps ==
    ASSUME IInv, RunsMove, NoNewRun, UNCHANGED <<cloud, ledger, sweep, manifest, dep, repairs, execs>>,
           NEW k \in Testers, NEW t \in Tester, testers' = [testers EXCEPT ![k] = t],
           poc' \in PocStatuses, faults' \in 0..MaxFaults, box' \in [RunIds -> Box], tests' \in [RunIds -> Test],
           \A q \in RunIds : tests'[q].of = tests[q].of,
           \A q \in RunIds : Reported(q) => Reported(q)',
           t.pc # "off" => IsDeploy(t.of),
           t.pc \in {"off", "start"} <=> t.run = 0,
           t.run # 0 => IsTest(t.run) /\ tests[t.run].of = t.of,
           t.pc \in {"browser", "report", "status"} => tests'[t.run].api.says # "none"
    PROVE  IInv'
<1> USE TypeParts DEF IInv
<1>1. \A q : (IsDeploy(q) <=> IsDeploy(q)') /\ (IsTest(q) <=> IsTest(q)') /\ (IsTeardown(q) <=> IsTeardown(q)')
  BY DEF NoNewRun, IsDeploy, IsTest, IsTeardown
<1>2. testers' \in [Testers -> Tester]
  OBVIOUS
<1>3. WorldOK'
  BY DEF WorldOK
<1>4. \A j \in Testers : TesterFits(testers[j])'
  <2> SUFFICES ASSUME NEW j \in Testers PROVE TesterFits(testers[j])'
    OBVIOUS
  <2>1. CASE j = k
    <3>1. testers'[j] = t
      BY <2>1
    <3>2. t.run # 0 => t.run \in RunIds
      BY DEF Tester
    <3> QED
      BY <1>1, <3>1, <3>2 DEF TesterFits, Reported
  <2>2. CASE j # k
    <3>1. testers'[j] = testers[j] /\ TesterFits(testers[j])
      BY <2>2 DEF Placed
    <3>2. testers[j].run # 0 => testers[j].run \in RunIds
      BY DEF Tester
    <3>3. testers[j].pc \in {"browser", "report", "status"} => testers[j].run \in RunIds
      BY <3>1, <3>2 DEF TesterFits
    <3> QED
      BY <1>1, <3>1, <3>2, <3>3 DEF TesterFits
  <2> QED
    BY <2>1, <2>2
<1>5. \A q \in RunIds : IsTest(q)' => IsDeploy(tests'[q].of)
  BY <1>1 DEF Placed, DocFits
<1>6. \A q \in RunIds : IsTest(q) /\ runs[q].status = "succeeded" => Reported(q)'
  BY DEF Placed, DocFits
<1>7. (sweep.pc # "off" => IsTeardown(sweep.run))'
  BY <1>1 DEF Placed
<1> QED
  BY <1>1, <1>2, <1>3, <1>4, <1>5, <1>6, <1>7, OthersKeep

\* ... and one that ends it.
LEMMA TesterEndKeeps ==
    ASSUME IInv, RunsMove, NoNewRun, UNCHANGED <<cloud, ledger, sweep, box, manifest, tests, dep, repairs, execs>>,
           NEW k \in Testers, TesterEnds(k), poc' \in PocStatuses, faults' \in 0..MaxFaults
    PROVE  IInv'
<1>1. /\ NoTester \in Tester /\ NoTester.pc = "off" /\ NoTester.run = 0
      /\ testers' = [testers EXCEPT ![k] = NoTester]
  BY OffTyped DEF NoTester, TesterEnds
<1>2. box' \in [RunIds -> Box] /\ tests' \in [RunIds -> Test] /\ \A q \in RunIds : Reported(q) => Reported(q)'
  BY TypeParts DEF IInv, WorldOK, Reported
<1> QED
  BY <1>1, <1>2, TesterKeeps

\* The record of a test agent execution at work.
LEMMA AtTest ==
    ASSUME IInv, NEW k \in Testers, testers[k].pc \notin {"off", "start"} \/ testers[k].run # 0
    PROVE  /\ testers[k] \in Tester /\ testers[k].pc \notin {"off", "start"}
           /\ testers[k].run \in RunIds /\ testers[k].run # 0 /\ IsTest(testers[k].run)
           /\ testers[k].of \in RunIds /\ IsDeploy(testers[k].of) /\ tests[testers[k].run].of = testers[k].of
           /\ testers[k].pc \in {"browser", "report", "status"} => Reported(testers[k].run)
BY TypeParts DEF IInv, Placed, TesterFits, IsTest, IsDeploy

\* What a test agent execution writes to its run.
LEMMA TestWrites ==
    ASSUME IInv, NEW q \in RunIds, IsTest(q),
           Store!UpdateRunStep(q) \/ Store!FinishRun(q, "failed") \/ Store!AbandonRun(q) \/ UNCHANGED runs
    PROVE  RunsMove /\ NoNewRun
<1>1. CASE UNCHANGED runs
  BY <1>1, StayMoves, StayNoNew
<1>2. CASE \E status \in {"running", "failed"} : Wrote(q, status) /\ Store!Next
  <2>1. PICK status \in {"running", "failed"} : Wrote(q, status) /\ Store!Next
    BY <1>2
  <2>2. status \in Store!Statuses /\ status # "succeeded"
    BY StoreFacts
  <2> QED
    BY <2>1, <2>2, WroteMoves, WroteNoNew
<1> QED
  BY <1>1, <1>2, WritesAre

LEMMA AfterIs ==
    /\ After("load") = "plan" /\ After("plan") = "smoke"
    /\ After("smoke") = "browser" /\ After("browser") = "report"
<1>1. Len(Nodes) = 5
  BY DEF Nodes
<1>2. ASSUME NEW node, NEW n \in 1..4, \A i \in 1..5 : Nodes[i] = node <=> i = n
      PROVE  After(node) = Nodes[n + 1]
  <2>1. (CHOOSE i \in 1..Len(Nodes) : Nodes[i] = node) = n
    BY <1>1, <1>2
  <2>2. n # Len(Nodes)
    BY <1>1
  <2> QED
    BY <2>1, <2>2 DEF After
<1>3. /\ \A i \in 1..5 : Nodes[i] = "load" <=> i = 1
      /\ \A i \in 1..5 : Nodes[i] = "plan" <=> i = 2
      /\ \A i \in 1..5 : Nodes[i] = "smoke" <=> i = 3
      /\ \A i \in 1..5 : Nodes[i] = "browser" <=> i = 4
      /\ Nodes[2] = "plan" /\ Nodes[3] = "smoke" /\ Nodes[4] = "browser" /\ Nodes[5] = "report"
  BY DEF Nodes
<1>4. After("load") = Nodes[1 + 1] /\ After("plan") = Nodes[2 + 1]
      /\ After("smoke") = Nodes[3 + 1] /\ After("browser") = Nodes[4 + 1]
  BY <1>2, <1>3
<1> QED
  BY <1>3, <1>4

LEMMA MirrorMoves ==
    ASSUME IInv, NEW k \in Testers, testers[k].run # 0, Mirror(testers[k].run)
    PROVE  RunsMove /\ NoNewRun
BY AtTest, TestWrites DEF Mirror

\* Nodes of the graph of the test agent are typed.
LEMMA NodeTyped ==
    ASSUME NEW t \in Tester, NEW pc \in {"load", "plan", "smoke", "browser", "report", "status"}
    PROVE  LET u == [t EXCEPT !.pc = pc]
           IN  u \in Tester /\ u.pc = pc /\ u.of = t.of /\ u.run = t.run
<1>1. {Nodes[i] : i \in 1..Len(Nodes)} = {"load", "plan", "smoke", "browser", "report"}
  BY DEF Nodes
<1> QED
  BY <1>1 DEF Tester

\* The end of a node of the graph.
LEMMA NodeKeeps ==
    ASSUME IInv, UNCHANGED <<dep, repairs, execs>>, NEW k \in Testers, NodeDone(k), testers[k].run # 0,
           testers[k].pc \in {"load", "plan", "smoke", "browser"}, faults' \in 0..MaxFaults,
           box' \in [RunIds -> Box], tests' \in [RunIds -> Test],
           \A q \in RunIds : tests'[q].of = tests[q].of,
           \A q \in RunIds : Reported(q) => Reported(q)',
           testers[k].pc = "smoke" => tests'[testers[k].run].api.says # "none"
    PROVE  IInv' /\ RunsMove
<1> DEFINE pc == After(testers[k].pc)
           t == [testers[k] EXCEPT !.pc = pc]
<1>1. RunsMove /\ NoNewRun
  BY MirrorMoves DEF NodeDone
<1>2. pc \in {"plan", "smoke", "browser", "report"}
  BY AfterIs
<1>3. pc \in {"browser", "report"} => testers[k].pc \in {"smoke", "browser"}
  BY AfterIs
<1> HIDE DEF pc
<1>4. t \in Tester /\ t.pc = pc /\ t.of = testers[k].of /\ t.run = testers[k].run
  <2>1. testers[k] \in Tester /\ pc \in {"load", "plan", "smoke", "browser", "report", "status"}
    BY <1>2, AtTest
  <2> QED
    BY <2>1, NodeTyped
<1>5. testers' = [testers EXCEPT ![k] = t] /\ UNCHANGED <<poc, cloud, ledger, sweep, manifest>>
  BY TypeParts DEF IInv, NodeDone, TesterGoes, pc
<1>6. poc' \in PocStatuses
  BY <1>5, TypeParts DEF IInv, WorldOK
<1> HIDE DEF t
<1>7. t.pc \in {"browser", "report", "status"} => tests'[t.run].api.says # "none"
  BY <1>2, <1>3, <1>4, AtTest DEF Reported
<1>8. /\ t.pc # "off" => IsDeploy(t.of)
      /\ t.pc \in {"off", "start"} <=> t.run = 0
      /\ t.run # 0 => IsTest(t.run) /\ tests[t.run].of = t.of
  BY <1>2, <1>4, AtTest
<1> QED
  BY <1>1, <1>4, <1>5, <1>6, <1>7, <1>8, TesterKeeps

\* What a test may find is a result.
LEMMA OutcomeTyped ==
    ASSUME NEW r, NEW suspects \in SUBSET Components, NEW says \in Outcome(r, suspects)
    PROVE  says \in {"passed"} \cup Components /\ says # "none"
BY DEF Outcome, Components

LEMMA SmokeKeeps ==
    ASSUME IInv, UNCHANGED <<dep, repairs, execs, faults>>, NEW k \in Testers,
           TesterAt(k, "smoke"), Smoke(k), NodeDone(k)
    PROVE  IInv' /\ RunsMove
<1> DEFINE q == testers[k].run
           r == testers[k].of
<1>1. /\ testers[k].pc = "smoke" /\ q \in RunIds /\ q # 0 /\ r \in RunIds
  BY AtTest DEF TesterAt
<1>2. /\ UNCHANGED box
      /\ \E says \in Outcome(r, {"backend"}) : tests' = [tests EXCEPT ![q].api = [says |-> says, about |-> box[r].live]]
  BY DEF Smoke
<1>3. PICK says \in Outcome(r, {"backend"}) : tests' = [tests EXCEPT ![q].api = [says |-> says, about |-> box[r].live]]
  BY <1>2
<1>4. says \in {"passed"} \cup Components /\ says # "none"
  BY OutcomeTyped DEF Components
<1> DEFINE a == [says |-> says, about |-> box[r].live]
           d == [tests[q] EXCEPT !.api = a]
<1>5. a \in Result /\ a.says # "none"
  BY <1>1, <1>4, TypeParts DEF IInv, WorldOK, Box, Result
<1> HIDE DEF a
<1>6. d \in Test /\ d.api = a /\ d.of = tests[q].of
  BY <1>1, <1>5, TypeParts DEF IInv, Test
<1>7. tests' = [tests EXCEPT ![q] = d]
  BY <1>3 DEF a
<1> HIDE DEF d
<1>8. /\ tests' \in [RunIds -> Test] /\ \A p \in RunIds : tests'[p].of = tests[p].of
      /\ \A p \in RunIds : Reported(p) => Reported(p)'
      /\ tests'[q].api.says # "none"
  BY <1>1, <1>5, <1>6, <1>7, TypeParts DEF IInv, Reported
<1>9. box' \in [RunIds -> Box] /\ faults' \in 0..MaxFaults
  BY <1>2, TypeParts DEF IInv, WorldOK
<1> QED
  BY <1>1, <1>8, <1>9, NodeKeeps

\* What the browser node writes.
LEMMA BrowserKeeps ==
    ASSUME IInv, UNCHANGED <<dep, repairs, execs>>, faults' \in 0..MaxFaults, NEW k \in Testers,
           TesterAt(k, "browser"), NodeDone(k), NEW a \in Result, box' \in [RunIds -> Box],
           tests' = [tests EXCEPT ![testers[k].run].browser = a]
    PROVE  IInv' /\ RunsMove
<1> DEFINE q == testers[k].run
           d == [tests[q] EXCEPT !.browser = a]
<1>1. testers[k].pc = "browser" /\ q \in RunIds /\ q # 0
  BY AtTest DEF TesterAt
<1>2. d \in Test /\ d.api = tests[q].api /\ d.of = tests[q].of
  BY <1>1, TypeParts DEF IInv, Test
<1>3. tests' = [tests EXCEPT ![q] = d]
  OBVIOUS
<1> HIDE DEF d
<1>4. /\ tests' \in [RunIds -> Test] /\ \A p \in RunIds : tests'[p].of = tests[p].of
      /\ \A p \in RunIds : Reported(p) => Reported(p)'
  BY <1>1, <1>2, <1>3, TypeParts DEF IInv, Reported
<1> QED
  BY <1>1, <1>4, NodeKeeps

LEMMA BrowseKeeps ==
    ASSUME IInv, UNCHANGED <<dep, repairs, execs, faults>>, NEW k \in Testers,
           TesterAt(k, "browser"), Browse(k), NodeDone(k)
    PROVE  IInv' /\ RunsMove
<1> DEFINE q == testers[k].run
           r == testers[k].of
<1>1. q \in RunIds /\ r \in RunIds
  BY AtTest DEF TesterAt
<1>2. PICK says \in Outcome(r, {"backend", "frontend"}) :
         LET result == [says |-> says, about |-> box[r].frontend]
         IN  box' = [box EXCEPT ![r].report = result] /\ tests' = [tests EXCEPT ![q].browser = result]
  BY DEF Browse
<1>3. says \in {"passed"} \cup Components
  BY OutcomeTyped DEF Components
<1> DEFINE a == [says |-> says, about |-> box[r].frontend]
           b == [box[r] EXCEPT !.report = a]
<1>4. a \in Result
  BY <1>1, <1>3, TypeParts DEF IInv, WorldOK, Box, Result
<1>5. box' = [box EXCEPT ![r] = b] /\ tests' = [tests EXCEPT ![q].browser = a]
  BY <1>2
<1> HIDE DEF a
<1>6. b \in Box
  BY <1>1, <1>4, TypeParts DEF IInv, WorldOK, Box
<1> HIDE DEF b
<1>7. box' \in [RunIds -> Box] /\ faults' \in 0..MaxFaults
  BY <1>5, <1>6, TypeParts DEF IInv, WorldOK
<1> QED
  BY <1>4, <1>5, <1>7, BrowserKeeps

LEMMA BrowseHangsKeeps ==
    ASSUME IInv, UNCHANGED <<dep, repairs, execs>>, NEW k \in Testers,
           TesterAt(k, "browser"), BrowseHangs(k), NodeDone(k)
    PROVE  IInv' /\ RunsMove
<1> DEFINE r == testers[k].of
           none == [says |-> "frontend", about |-> box[r].frontend]
           a == IF box[r].report = NoResult THEN none ELSE box[r].report
<1>1. r \in RunIds
  BY AtTest DEF TesterAt
<1>2. tests' = [tests EXCEPT ![testers[k].run].browser = a] /\ UNCHANGED box /\ Fault
  BY DEF BrowseHangs
<1>3. box[r] \in Box
  BY <1>1, TypeParts DEF IInv, WorldOK
<1>4. a \in Result
  <2>1. none \in Result /\ box[r].report \in Result
    BY <1>3 DEF Box, Result, Components
  <2> QED
    BY <2>1
<1>5. box' \in [RunIds -> Box] /\ faults' \in 0..MaxFaults
  BY <1>2, SameFaults, TypeParts DEF IInv, WorldOK
<1> HIDE DEF a
<1> QED
  BY <1>2, <1>4, <1>5, BrowserKeeps

LEMMA LoadKeeps ==
    ASSUME IInv, UNCHANGED <<dep, repairs, execs, faults>>, NEW k \in Testers,
           TesterAt(k, "load"), LoadContext(k), NodeDone(k)
    PROVE  IInv' /\ RunsMove
<1> DEFINE q == testers[k].run
           v == manifest[testers[k].of]
           d == [tests[q] EXCEPT !.ver = v]
<1>1. testers[k].pc = "load" /\ q \in RunIds /\ q # 0 /\ testers[k].of \in RunIds
  BY AtTest DEF TesterAt
<1>2. tests' = [tests EXCEPT ![q] = d] /\ UNCHANGED box
  BY DEF LoadContext
<1>3. v \in Versions
  BY <1>1, TypeParts DEF IInv, WorldOK
<1> HIDE DEF v
<1>4. d \in Test /\ d.api = tests[q].api /\ d.of = tests[q].of
  BY <1>1, <1>3, TypeParts DEF IInv, Test
<1> HIDE DEF d
<1>5. /\ tests' \in [RunIds -> Test] /\ \A p \in RunIds : tests'[p].of = tests[p].of
      /\ \A p \in RunIds : Reported(p) => Reported(p)'
      /\ box' \in [RunIds -> Box] /\ faults' \in 0..MaxFaults
  BY <1>1, <1>2, <1>4, TypeParts DEF IInv, WorldOK, Reported
<1> QED
  BY <1>1, <1>5, NodeKeeps

LEMMA TestNodeKeeps ==
    ASSUME IInv, UNCHANGED <<dep, repairs, execs>>, NEW k \in Testers, TestNode(k)
    PROVE  IInv' /\ RunsMove
<1>1. NodeDone(k) /\ UNCHANGED faults
  BY DEF TestNode
<1>2. CASE TesterAt(k, "load") /\ LoadContext(k)
  BY <1>1, <1>2, LoadKeeps
<1>3. CASE TesterAt(k, "plan") /\ UNCHANGED <<box, tests>>
  <2>1. testers[k].pc = "plan" /\ testers[k].run # 0
    BY <1>3, AtTest DEF TesterAt
  <2>2. /\ box' \in [RunIds -> Box] /\ tests' \in [RunIds -> Test] /\ faults' \in 0..MaxFaults
        /\ \A p \in RunIds : tests'[p].of = tests[p].of
        /\ \A p \in RunIds : Reported(p) => Reported(p)'
    BY <1>1, <1>3, TypeParts DEF IInv, WorldOK, Reported
  <2> QED
    BY <1>1, <2>1, <2>2, NodeKeeps
<1>4. CASE TesterAt(k, "smoke") /\ Smoke(k)
  BY <1>1, <1>4, SmokeKeeps
<1>5. CASE TesterAt(k, "browser") /\ Browse(k)
  BY <1>1, <1>5, BrowseKeeps
<1> QED
  BY <1>2, <1>3, <1>4, <1>5 DEF TestNode

LEMMA WriteReportKeeps ==
    ASSUME IInv, UNCHANGED <<dep, repairs, execs>>, NEW k \in Testers, WriteReport(k)
    PROVE  IInv' /\ RunsMove
<1> DEFINE q == testers[k].run
           t == [testers[k] EXCEPT !.pc = "status"]
<1>1. /\ testers[k].pc = "report" /\ Store!FinishRun(q, "succeeded")
      /\ testers' = [testers EXCEPT ![k] = t]
      /\ UNCHANGED <<poc, cloud, ledger, sweep, faults, box, manifest, tests>>
  BY DEF WriteReport, TesterAt, TesterGoes
<1>2. q \in RunIds /\ q # 0 /\ IsTest(q) /\ Reported(q)
  BY <1>1, AtTest
<1>3. RunsMove /\ NoNewRun
  <2>1. PICK p \in RunIds : p = testers[k].run
    BY <1>2
  <2>2. Wrote(p, "succeeded") /\ Store!Next /\ Reported(p)'
    BY <1>1, <1>2, <2>1, WritesAre DEF Reported
  <2> QED
    BY <2>2, StoreFacts, WroteMoves, WroteNoNew
<1>4. t \in Tester /\ t.pc = "status" /\ t.of = testers[k].of /\ t.run = q
  BY <1>1, AtTest, NodeTyped
<1>5. /\ poc' \in PocStatuses /\ faults' \in 0..MaxFaults /\ box' \in [RunIds -> Box] /\ tests' \in [RunIds -> Test]
      /\ \A p \in RunIds : tests'[p].of = tests[p].of
      /\ \A p \in RunIds : Reported(p) => Reported(p)'
  BY <1>1, TypeParts DEF IInv, WorldOK, Reported
<1> HIDE DEF t
<1>6. /\ t.pc # "off" => IsDeploy(t.of)
      /\ t.pc \in {"off", "start"} <=> t.run = 0
      /\ t.run # 0 => IsTest(t.run) /\ tests[t.run].of = t.of
      /\ tests'[t.run].api.says # "none"
  BY <1>1, <1>2, <1>4, AtTest DEF Reported
<1> QED
  BY <1>1, <1>3, <1>4, <1>5, <1>6, TesterKeeps

LEMMA TestEndsKeep ==
    ASSUME IInv, UNCHANGED <<dep, repairs, execs>>, NEW k \in Testers,
           TestRefused(k) \/ MarkPoc(k) \/ TestNodeFails(k) \/ TestTimesOut(k) \/ KillTester(k)
    PROVE  IInv' /\ RunsMove
<1>1. /\ UNCHANGED <<cloud, ledger, sweep, box, manifest, tests>> /\ TesterEnds(k)
      /\ UNCHANGED faults \/ Fault
      /\ UNCHANGED poc \/ poc' \in {"tested", "deployed"}
  BY DEF TestRefused, MarkPoc, TestNodeFails, TestTimesOut, KillTester
<1>2. poc' \in PocStatuses /\ faults' \in 0..MaxFaults
  BY <1>1, SameFaults, TypeParts DEF IInv, WorldOK, PocStatuses
<1>3. RunsMove /\ NoNewRun
  <2>1. CASE UNCHANGED runs
    BY <2>1, StayMoves, StayNoNew
  <2>2. CASE TestNodeFails(k)
    BY <2>2, MirrorMoves DEF TestNodeFails
  <2>3. CASE TestTimesOut(k)
    <3>1. testers[k].run # 0 /\ Store!FinishRun(testers[k].run, "failed")
      BY <2>3 DEF TestTimesOut
    <3> QED
      BY <3>1, AtTest, TestWrites
  <2> QED
    BY <2>1, <2>2, <2>3 DEF TestRefused, MarkPoc, KillTester
<1> QED
  BY <1>1, <1>2, <1>3, TesterEndKeeps

LEMMA TestStartsKeeps ==
    ASSUME IInv, UNCHANGED <<dep, repairs, execs>>, NEW k \in Testers, TestStarts(k)
    PROVE  IInv' /\ RunsMove
<1>1. PICK q \in RunIds :
         /\ CreateRun(q, "test")
         /\ tests' = [tests EXCEPT ![q] = [NoTest EXCEPT !.of = testers[k].of, !.recent = TRUE]]
         /\ testers' = [testers EXCEPT ![k].pc = "load", ![k].run = q]
  BY DEF TestStarts
<1>2. testers[k].pc = "start" /\ poc' = "testing" /\ UNCHANGED <<cloud, ledger, sweep, faults, box, manifest>>
  BY DEF TestStarts, TesterAt
<1>3. /\ testers[k] \in Tester /\ IsDeploy(testers[k].of) /\ testers[k].of \in RunIds
  BY <1>2, TypeParts DEF IInv, Placed, TesterFits, IsDeploy
<1>4. /\ RunsMove /\ Absent(q) /\ ~Absent(q)'
      /\ runs' = [runs EXCEPT ![q] = [stage |-> "test", status |-> "queued", silent |-> FALSE]]
  BY <1>1, CreateMoves DEF Stages
<1> DEFINE d == [NoTest EXCEPT !.of = testers[k].of, !.recent = TRUE]
           t == [testers[k] EXCEPT !.pc = "load", !.run = q]
<1>5. d \in Test /\ d.of = testers[k].of
  BY <1>3, OffTyped DEF Test
<1>6. t \in Tester /\ t.pc = "load" /\ t.of = testers[k].of /\ t.run = q
  <2>1. [testers[k] EXCEPT !.pc = "load"] \in Tester
    BY <1>3, NodeTyped
  <2> QED
    BY <1>3, <2>1 DEF Tester
<1>7. tests' = [tests EXCEPT ![q] = d] /\ testers' = [testers EXCEPT ![k] = t]
  BY <1>1, <1>3, TypeParts DEF IInv, Tester
<1> HIDE DEF d, t
<1>8. /\ \A p : IsDeploy(p)' <=> IsDeploy(p)
      /\ \A p : IsTest(p) => IsTest(p)' /\ p # q
      /\ \A p : IsTest(p)' /\ p # q => IsTest(p)
      /\ \A p : IsTeardown(p) => IsTeardown(p)'
      /\ IsTest(q)' /\ q # 0
  BY <1>4, TypeParts, StoreFacts
     DEF IInv, Store!TypeOK, Store!RunDoc, IsDeploy, IsTest, IsTeardown, Absent, Placed, DocFits
<1>9. \A p \in RunIds : p # q => tests'[p] = tests[p]
  BY <1>7, TypeParts DEF IInv
<1>10. tests'[q] = d
  BY <1>7, TypeParts DEF IInv
<1>11. \A j \in Testers : TesterFits(testers[j])'
  <2> SUFFICES ASSUME NEW j \in Testers PROVE TesterFits(testers[j])'
    OBVIOUS
  <2>1. CASE j = k
    <3>1. testers'[j] = t
      BY <1>7, <2>1, TypeParts DEF IInv
    <3> QED
      BY <1>3, <1>5, <1>6, <1>8, <1>10, <3>1 DEF TesterFits
  <2>2. CASE j # k
    <3>1. testers'[j] = testers[j] /\ TesterFits(testers[j]) /\ testers[j] \in Tester
      BY <1>7, <2>2, TypeParts DEF IInv, Placed
    <3>2. testers[j].run # 0 => testers[j].run \in RunIds /\ testers[j].run # q
      BY <1>8, <3>1 DEF TesterFits, Tester
    <3> QED
      BY <1>8, <1>9, <3>1, <3>2 DEF TesterFits, Reported
  <2> QED
    BY <2>1, <2>2
<1>12. \A p \in RunIds : IsTest(p)' => IsDeploy(tests'[p].of)
  BY <1>3, <1>5, <1>8, <1>9, <1>10 DEF IInv, Placed, DocFits
<1>13. \A p \in RunIds : IsTest(p) /\ runs[p].status = "succeeded" => Reported(p)'
  BY <1>8, <1>9 DEF IInv, Placed, DocFits, Reported
<1>14. WorldOK' /\ repairs' \in [Attempts -> Repair] /\ tests' \in [RunIds -> Test] /\ testers' \in [Testers -> Tester]
  BY <1>2, <1>5, <1>6, <1>7, TypeParts DEF IInv, WorldOK, PocStatuses
<1>15. (sweep.pc # "off" => IsTeardown(sweep.run))'
  BY <1>2, <1>8 DEF IInv, Placed
<1> QED
  BY <1>4, <1>8, <1>11, <1>12, <1>13, <1>14, <1>15, OthersKeep

LEMMA TestsKeep ==
    ASSUME IInv, NEW k \in Testers, Tests(k) \/ TestsBreak(k)
    PROVE  IInv' /\ RunsMove
<1>1. UNCHANGED <<dep, repairs, execs>> /\ (TesterWorks(k) \/ TesterBreaks(k))
  BY DEF Tests, TestsBreak
<1>2. CASE TestStarts(k)
  BY <1>1, <1>2, TestStartsKeeps
<1>3. CASE TestNode(k)
  BY <1>1, <1>3, TestNodeKeeps
<1>4. CASE WriteReport(k)
  BY <1>1, <1>4, WriteReportKeeps
<1>5. CASE TesterAt(k, "browser") /\ BrowseHangs(k) /\ NodeDone(k)
  BY <1>1, <1>5, BrowseHangsKeeps
<1>6. CASE TestRefused(k) \/ MarkPoc(k) \/ TestNodeFails(k) \/ TestTimesOut(k) \/ KillTester(k)
  BY <1>1, <1>6, TestEndsKeep
<1> QED
  BY <1>1, <1>2, <1>3, <1>4, <1>5, <1>6 DEF TesterWorks, TesterBreaks

\* Tests that are asked for.
LEMMA AskedKeeps ==
    ASSUME IInv, RunsMove, NoNewRun, UNCHANGED <<faults, cloudVars, box, manifest, tests, dep, repairs, execs>>,
           NEW k \in Testers, NEW r, IsDeploy(r), Invited(k, r)
    PROVE  IInv'
<1> DEFINE t == [NoTester EXCEPT !.pc = "start", !.of = r]
<1>1. testers' = [testers EXCEPT ![k] = t]
  BY DEF Invited
<1>2. t \in Tester /\ t.pc = "start" /\ t.of = r /\ t.run = 0
  BY DEF NoTester, Tester, IsDeploy
<1> HIDE DEF t
<1>3. /\ poc' \in PocStatuses /\ faults' \in 0..MaxFaults /\ box' \in [RunIds -> Box] /\ tests' \in [RunIds -> Test]
      /\ \A p \in RunIds : tests'[p].of = tests[p].of
      /\ \A p \in RunIds : Reported(p) => Reported(p)'
      /\ UNCHANGED <<cloud, ledger, sweep>>
  BY TypeParts DEF IInv, WorldOK, Reported, cloudVars
<1> QED
  BY <1>1, <1>2, <1>3, TesterKeeps

LEMMA AskTestsKeeps ==
    ASSUME IInv, NEW k \in Testers, AskTests(k)
    PROVE  IInv' /\ RunsMove
<1>1. PICK r \in OfStage("deploy") : Invited(k, r)
  BY DEF AskTests
<1>2. IsDeploy(r)
  BY DEF OfStage, IsDeploy
<1>3. UNCHANGED <<runs, faults, cloudVars, box, manifest, tests, dep, repairs, execs>>
  BY DEF AskTests
<1> QED
  BY <1>1, <1>2, <1>3, StayMoves, StayNoNew, AskedKeeps

LEMMA RetryTestsKeeps ==
    ASSUME IInv, NEW k \in Testers, RetryTests(k)
    PROVE  IInv' /\ RunsMove
<1>1. PICK q \in Newest("test") : Store!AbandonRun(q) /\ Invited(k, tests[q].of)
  BY DEF RetryTests
<1>2. q \in RunIds /\ IsTest(q)
  BY DEF Newest, OfStage, IsTest
<1>3. IsDeploy(tests[q].of)
  BY <1>2 DEF IInv, Placed, DocFits
<1>4. UNCHANGED <<faults, cloudVars, box, manifest, tests, dep, repairs, execs>>
  BY DEF RetryTests
<1> QED
  BY <1>1, <1>2, <1>3, <1>4, TestWrites, AskedKeeps

(***************************************************************************)
(* Teardowns                                                               *)
(***************************************************************************)

\* A step of the teardown that creates no run.
LEMMA SweepKeeps ==
    ASSUME IInv, RunsMove, NoNewRun, UNCHANGED <<testVars, dep, repairs, execs>>,
           poc' \in PocStatuses, cloud' \subseteq Resources,
           ledger' \in [Resources -> {"none", "active", "released"}], faults' \in 0..MaxFaults,
           NEW s \in Sweep, sweep' = s, s.pc # "off" => sweep.pc # "off" /\ s.run = sweep.run
    PROVE  IInv'
<1> USE TypeParts DEF IInv
<1>1. \A q : (IsDeploy(q) <=> IsDeploy(q)') /\ (IsTest(q) <=> IsTest(q)') /\ (IsTeardown(q) <=> IsTeardown(q)')
  BY DEF NoNewRun, IsDeploy, IsTest, IsTeardown
<1>2. WorldOK'
  BY DEF WorldOK, testVars
<1>3. UNCHANGED <<execs, dep, repairs, tests, testers>>
  BY DEF testVars
<1>4. \A k \in Testers : TesterFits(testers[k])'
  BY <1>1, <1>3 DEF Placed, TesterFits, Reported
<1>5. /\ \A q \in RunIds : IsTest(q)' => IsDeploy(tests'[q].of)
      /\ \A q \in RunIds : IsTest(q) /\ runs[q].status = "succeeded" => Reported(q)'
  BY <1>1, <1>3 DEF Placed, DocFits, Reported
<1>6. (sweep.pc # "off" => IsTeardown(sweep.run))'
  BY <1>1 DEF Placed
<1> QED
  BY <1>1, <1>2, <1>3, <1>4, <1>5, <1>6, OthersKeep

\* What the teardown writes to its run.
LEMMA TeardownWrites ==
    ASSUME IInv, NEW r, IsTeardown(r),
           \/ Store!UpdateRunStep(r) \/ Store!AbandonRun(r)
           \/ \E status \in {"succeeded", "failed"} : Store!FinishRun(r, status)
           \/ UNCHANGED runs
    PROVE  RunsMove /\ NoNewRun
<1>1. r \in RunIds /\ ~IsTest(r)
  BY DEF IsTeardown, IsTest
<1>2. CASE UNCHANGED runs
  BY <1>2, StayMoves, StayNoNew
<1>3. CASE \E status \in Store!Statuses : Wrote(r, status) /\ Store!Next
  BY <1>1, <1>3, WroteMoves, WroteNoNew
<1> QED
  BY <1>1, <1>2, <1>3, WritesAre, StoreFacts

LEMMA RowsKeep ==
    ASSUME IInv, UNCHANGED <<testVars, dep, repairs, execs>>,
           ListRows \/ DeleteResource \/ ReleaseRow \/ TornDown \/ RowFails
    PROVE  IInv' /\ RunsMove
<1>0. /\ sweep \in Sweep /\ NoSweep \in Sweep /\ NoSweep.pc = "off" /\ Active \subseteq Resources
      /\ poc \in PocStatuses /\ cloud \subseteq Resources /\ faults \in 0..MaxFaults
      /\ ledger \in [Resources -> {"none", "active", "released"}]
  BY OffTyped, TypeParts DEF IInv, WorldOK, NoSweep, Active
<1> USE <1>0
<1>1. CASE ListRows
  <2> DEFINE s == [sweep EXCEPT !.pc = "rows", !.todo = Active, !.flex = Cluster \in Active]
  <2>1. sweep.pc = "list" /\ sweep' = s /\ UNCHANGED <<poc, cloud, ledger, faults>>
    BY <1>1 DEF ListRows
  <2>2. (Cluster \in Active) \in BOOLEAN
    OBVIOUS
  <2>3. s \in Sweep /\ s.run = sweep.run
    BY <2>2 DEF Sweep
  <2>4. RunsMove /\ NoNewRun
    <3>1. UNCHANGED runs \/ Store!UpdateRunStep(sweep.run)
      BY <1>1 DEF ListRows
    <3> QED
      BY <2>1, <3>1, TeardownWrites DEF IInv, Placed
  <2> HIDE DEF s
  <2> QED
    BY <2>1, <2>3, <2>4, SweepKeeps
<1>2. CASE DeleteResource
  <2>1. PICK x \in NextRow : cloud' = cloud \ Deletes(x) /\ sweep' = [sweep EXCEPT !.todo = @ \ {x}, !.row = {x}]
    BY <1>2 DEF DeleteResource
  <2> DEFINE s == [sweep EXCEPT !.todo = @ \ {x}, !.row = {x}]
  <2>2. sweep.pc = "rows" /\ UNCHANGED <<runs, poc, ledger, faults>>
    BY <1>2 DEF DeleteResource
  <2>3. x \in Resources
    BY DEF NextRow, Sweep
  <2>4. s \in Sweep /\ s.run = sweep.run
    BY <2>3 DEF Sweep
  <2> HIDE DEF s
  <2> QED
    BY <2>1, <2>2, <2>4, StayMoves, StayNoNew, SweepKeeps DEF s
<1>3. CASE ReleaseRow
  <2>1. PICK x \in sweep.row : ledger' = [ledger EXCEPT ![x] = "released"]
    BY <1>3 DEF ReleaseRow
  <2> DEFINE s == [sweep EXCEPT !.row = {}]
  <2>2. sweep' = s /\ UNCHANGED <<runs, poc, cloud, faults>>
    BY <1>3 DEF ReleaseRow
  <2>3. s \in Sweep /\ s.run = sweep.run /\ s.pc = sweep.pc
    BY DEF Sweep
  <2>4. ledger' \in [Resources -> {"none", "active", "released"}]
    BY <2>1
  <2> HIDE DEF s
  <2> QED
    BY <2>2, <2>3, <2>4, StayMoves, StayNoNew, SweepKeeps
<1>4. CASE TornDown
  <2> DEFINE s == IF sweep.reaper THEN NoSweep ELSE [sweep EXCEPT !.pc = "record"]
  <2>1. sweep.pc = "rows" /\ sweep' = s /\ poc' = "torn_down" /\ UNCHANGED <<runs, cloud, ledger, faults>>
    BY <1>4 DEF TornDown
  <2>2. s \in Sweep /\ (s.pc # "off" => s.run = sweep.run)
    BY DEF Sweep
  <2>3. poc' \in PocStatuses
    BY <2>1 DEF PocStatuses
  <2> HIDE DEF s
  <2> QED
    BY <2>1, <2>2, <2>3, StayMoves, StayNoNew, SweepKeeps
<1>5. CASE RowFails
  <2>1. /\ sweep.pc = "rows" /\ Fault /\ UNCHANGED <<runs, poc, cloud, ledger>>
        /\ \/ \E x \in NextRow : sweep' = [sweep EXCEPT !.todo = @ \ {x}, !.errors = TRUE]
           \/ sweep' = [sweep EXCEPT !.row = {}, !.errors = TRUE]
    BY <1>5 DEF RowFails
  <2>2. PICK s \in Sweep : sweep' = s /\ s.run = sweep.run
    BY <2>1 DEF Sweep
  <2>3. faults' \in 0..MaxFaults
    BY <2>1, SameFaults
  <2> QED
    BY <2>1, <2>2, <2>3, StayMoves, StayNoNew, SweepKeeps
<1> QED
  BY <1>1, <1>2, <1>3, <1>4, <1>5

LEMMA SweepEndsKeep ==
    ASSUME IInv, UNCHANGED <<testVars, dep, repairs, execs>>, FinishSweep \/ SweepRaises \/ KillSweep
    PROVE  IInv' /\ RunsMove
<1>1. /\ sweep.pc # "off" /\ sweep' = NoSweep /\ UNCHANGED <<poc, cloud, ledger>>
      /\ UNCHANGED faults \/ Fault
      /\ \/ \E status \in {"succeeded", "failed"} : Store!FinishRun(sweep.run, status)
         \/ UNCHANGED runs
  BY DEF FinishSweep, SweepRaises, KillSweep
<1>2. RunsMove /\ NoNewRun
  BY <1>1, TeardownWrites DEF IInv, Placed
<1>3. /\ NoSweep \in Sweep /\ NoSweep.pc = "off" /\ faults' \in 0..MaxFaults
      /\ poc' \in PocStatuses /\ cloud' \subseteq Resources
      /\ ledger' \in [Resources -> {"none", "active", "released"}]
  BY <1>1, OffTyped, SameFaults, TypeParts DEF IInv, WorldOK, NoSweep
<1> QED
  BY <1>1, <1>2, <1>3, SweepKeeps

LEMMA TearsDownKeeps ==
    ASSUME IInv, NEW reaper \in BOOLEAN, TearsDown(reaper)
    PROVE  IInv' /\ RunsMove
<1>1. PICK r \in RunIds :
         CreateRun(r, "teardown") /\ sweep' = [NoSweep EXCEPT !.pc = "list", !.run = r, !.reaper = reaper]
  BY DEF TearsDown, StartSweep
<1>2. UNCHANGED <<poc, cloud, ledger, faults, testVars, dep, repairs, execs>>
  BY DEF TearsDown, StartSweep
<1>3. /\ RunsMove /\ Absent(r) /\ ~Absent(r)'
      /\ runs' = [runs EXCEPT ![r] = [stage |-> "teardown", status |-> "queued", silent |-> FALSE]]
  BY <1>1, CreateMoves DEF Stages
<1>4. sweep' \in Sweep /\ sweep'.run = r
  BY <1>1, OffTyped DEF Sweep
<1>5. /\ \A p : IsDeploy(p) <=> IsDeploy(p)'
      /\ \A p : IsTest(p) <=> IsTest(p)'
      /\ IsTeardown(r)'
  BY <1>3, TypeParts DEF IInv, Store!TypeOK, Store!RunDoc, IsDeploy, IsTest, IsTeardown, Absent, Placed, DocFits
<1>6. WorldOK'
  BY <1>2, <1>4, TypeParts DEF IInv, WorldOK, testVars
<1>7. \A k \in Testers : TesterFits(testers[k])'
  BY <1>2, <1>5 DEF IInv, Placed, TesterFits, Reported, testVars
<1>8. /\ \A q \in RunIds : IsTest(q)' => IsDeploy(tests'[q].of)
      /\ \A q \in RunIds : IsTest(q) /\ runs[q].status = "succeeded" => Reported(q)'
  BY <1>2, <1>5 DEF IInv, Placed, DocFits, Reported, testVars
<1>9. (sweep.pc # "off" => IsTeardown(sweep.run))'
  BY <1>4, <1>5
<1>10. UNCHANGED <<execs, dep, repairs, tests, testers>>
  BY <1>2 DEF testVars
<1> QED
  BY <1>3, <1>5, <1>6, <1>7, <1>8, <1>9, <1>10, OthersKeep, TypeParts DEF IInv

LEMMA AbandonTeardownKeeps ==
    ASSUME IInv, AbandonTeardown
    PROVE  IInv' /\ RunsMove
<1>1. PICK r \in Newest("teardown") : Store!AbandonRun(r)
  BY DEF AbandonTeardown
<1>2. IsTeardown(r)
  BY DEF Newest, OfStage, IsTeardown
<1>3. UNCHANGED <<faults, cloudVars, testVars, dep, repairs, execs>>
  BY DEF AbandonTeardown
<1>4. /\ sweep' = sweep /\ sweep \in Sweep /\ faults' \in 0..MaxFaults
      /\ poc' \in PocStatuses /\ cloud' \subseteq Resources
      /\ ledger' \in [Resources -> {"none", "active", "released"}]
  BY <1>3, TypeParts DEF IInv, WorldOK, cloudVars
<1> QED
  BY <1>1, <1>2, <1>3, <1>4, TeardownWrites, SweepKeeps

(***************************************************************************)
(* Repairs and time                                                        *)
(***************************************************************************)

LEMMA AttemptsFinite == IsFiniteSet(Attempts)
<1>1. IsFiniteSet(RunIds) /\ IsFiniteSet(1..MaxRepairs)
  BY FS_Interval, LedgerAssumption, DeployAssumption DEF RunIds
<1>2. IsFiniteSet(Components)
  <2>1. IsFiniteSet({} \cup {"seed"})
    BY FS_EmptySet, FS_AddElement
  <2>2. IsFiniteSet(({} \cup {"seed"}) \cup {"backend"})
    BY <2>1, FS_AddElement
  <2>3. IsFiniteSet((({} \cup {"seed"}) \cup {"backend"}) \cup {"frontend"})
    BY <2>2, FS_AddElement
  <2>4. (({} \cup {"seed"}) \cup {"backend"}) \cup {"frontend"} = Components
    BY DEF Components
  <2> QED
    BY <2>3, <2>4
<1>3. IsFiniteSet((RunIds \X Components) \X (1..MaxRepairs))
  BY <1>1, <1>2, FS_Product
<1> DEFINE f == [a \in Attempts |-> <<<<a[1], a[2]>>, a[3]>>]
<1>4. f \in Injection(Attempts, (RunIds \X Components) \X (1..MaxRepairs))
  BY DEF Attempts, Injection, IsInjective
<1> QED
  BY <1>3, <1>4, FS_Injection

LEMMA NewVersionTyped == NewVersion <= MaxVersion => NewVersion \in Versions
<1> DEFINE S == {a \in Attempts : repairs[a].state = "succeeded"}
<1>1. Cardinality(S) \in Nat
  BY AttemptsFinite, FS_Subset, FS_CardinalityType
<1> HIDE DEF S
<1>2. NewVersion = 2 + Cardinality(S)
  BY DEF NewVersion, S
<1> QED
  BY <1>1, <1>2, TestAssumption DEF Versions

\* Time leaves the results alone.
LEMMA MinutesKeep ==
    ASSUME IInv, MinutesPass
    PROVE  /\ tests' \in [RunIds -> Test]
           /\ \A q \in RunIds : tests'[q].of = tests[q].of
           /\ \A q \in RunIds : Reported(q) <=> Reported(q)'
<1>1. \A q \in RunIds : tests'[q] = [tests[q] EXCEPT !.recent = FALSE]
  BY DEF MinutesPass
<1>2. \A q \in RunIds : tests'[q] \in Test /\ tests'[q].of = tests[q].of /\ tests'[q].api = tests[q].api
  BY <1>1, TypeParts DEF IInv, Test
<1>3. tests' = [q \in RunIds |-> [tests[q] EXCEPT !.recent = FALSE]]
  BY DEF MinutesPass
<1> QED
  BY <1>2, <1>3 DEF Reported

\* A step of the coding orchestrator, or time alone.
LEMMA ElsewhereKeeps ==
    ASSUME IInv, RunsMove, NoNewRun, UNCHANGED <<faults, cloudVars, box, manifest, testers, dep, execs>>,
           UNCHANGED tests \/ MinutesPass, repairs' \in [Attempts -> Repair]
    PROVE  IInv'
<1> USE TypeParts DEF IInv
<1>1. \A q : (IsDeploy(q) <=> IsDeploy(q)') /\ (IsTest(q) <=> IsTest(q)') /\ (IsTeardown(q) <=> IsTeardown(q)')
  BY DEF NoNewRun, IsDeploy, IsTest, IsTeardown
<1>2. /\ tests' \in [RunIds -> Test]
      /\ \A q \in RunIds : tests'[q].of = tests[q].of
      /\ \A q \in RunIds : Reported(q) <=> Reported(q)'
  BY MinutesKeep DEF Reported
<1>3. WorldOK'
  BY DEF WorldOK, cloudVars
<1>4. \A k \in Testers : TesterFits(testers[k])'
  <2> SUFFICES ASSUME NEW k \in Testers PROVE TesterFits(testers[k])'
    OBVIOUS
  <2>1. testers'[k] = testers[k] /\ TesterFits(testers[k]) /\ testers[k] \in Tester
    BY DEF Placed
  <2>2. testers[k].run # 0 => testers[k].run \in RunIds
    BY <2>1 DEF Tester
  <2>3. testers[k].pc \in {"browser", "report", "status"} => testers[k].run \in RunIds
    BY <2>1, <2>2 DEF TesterFits
  <2> QED
    BY <1>1, <1>2, <2>1, <2>2, <2>3 DEF TesterFits, Reported
<1>5. /\ \A q \in RunIds : IsTest(q)' => IsDeploy(tests'[q].of)
      /\ \A q \in RunIds : IsTest(q) /\ runs[q].status = "succeeded" => Reported(q)'
  BY <1>1, <1>2 DEF Placed, DocFits
<1>6. (sweep.pc # "off" => IsTeardown(sweep.run))'
  BY <1>1 DEF Placed, cloudVars
<1> QED
  BY <1>1, <1>2, <1>3, <1>4, <1>5, <1>6, OthersKeep

LEMMA RepairsKeep ==
    ASSUME IInv, NEW a \in Attempts, Repairs(a)
    PROVE  IInv' /\ RunsMove
<1>1. repairs[a] \in Repair /\ repairs \in [Attempts -> Repair]
  BY TypeParts DEF IInv
<1>2. \A state \in {"none", "running", "failed"} : RepairGoes(a, state) => repairs' \in [Attempts -> Repair]
  <2> SUFFICES ASSUME NEW state \in {"none", "running", "failed"}, RepairGoes(a, state)
               PROVE  repairs' \in [Attempts -> Repair]
    OBVIOUS
  <2>1. [repairs[a] EXCEPT !.state = state] \in Repair
    BY <1>1 DEF Repair
  <2> QED
    BY <1>1, <2>1 DEF RepairGoes
<1>3. CASE RepairStarts(a)
  BY <1>2, <1>3, StayMoves, StayNoNew, ElsewhereKeeps DEF RepairStarts, testVars
<1>4. CASE RepairEnds(a)
  <2>1. CASE NewVersion <= MaxVersion /\ repairs' = [repairs EXCEPT ![a].state = "succeeded", ![a].ver = NewVersion]
    <3> DEFINE z == [repairs[a] EXCEPT !.state = "succeeded", !.ver = NewVersion]
    <3>1. z \in Repair
      BY <1>1, <2>1, NewVersionTyped DEF Repair
    <3>2. repairs' = [repairs EXCEPT ![a] = z]
      BY <1>1, <2>1 DEF Repair
    <3> HIDE DEF z
    <3>3. repairs' \in [Attempts -> Repair]
      BY <1>1, <3>1, <3>2
    <3> QED
      BY <1>4, <3>3, StayMoves, StayNoNew, ElsewhereKeeps DEF RepairEnds
  <2>2. CASE RepairGoes(a, "failed")
    BY <1>2, <1>4, <2>2, StayMoves, StayNoNew, ElsewhereKeeps DEF RepairEnds
  <2> QED
    BY <1>4, <2>1, <2>2 DEF RepairEnds
<1> QED
  BY <1>3, <1>4 DEF Repairs

LEMMA SilenceKeeps ==
    ASSUME IInv, NEW r \in RunIds, Silence(r)
    PROVE  IInv' /\ RunsMove
<1>1. Store!GoSilent(r) /\ UNCHANGED <<faults, cloudVars, testVars, dep, repairs, execs>>
  BY DEF Silence
<1>2. RunsMove /\ NoNewRun
  BY <1>1, SilenceMoves, SilenceNoNew
<1> QED
  BY <1>1, <1>2, ElsewhereKeeps, TypeParts DEF IInv, testVars

\* What is in flight stays what it is.
LEMMA OlderTyped ==
    ASSUME NEW i \in InFlight
    PROVE  /\ Older(i) \in InFlight /\ Older(i).kind = i.kind /\ Older(i).comp = i.comp
           /\ Older(i).attempt = i.attempt /\ Older(i).after = i.after
BY DEF Older, InFlight

LEMMA AgeInFlightKeeps ==
    ASSUME IInv, NEW r \in RunIds, AgeInFlight(r)
    PROVE  IInv' /\ RunsMove
<1> USE TypeParts DEF IInv
<1>1. /\ dep' = [dep EXCEPT ![r].inflight = Older(@)]
      /\ execs' = [e \in Execs |-> IF execs[e].run = r THEN [execs[e] EXCEPT !.inflight = Older(@)] ELSE execs[e]]
      /\ MinutesPass
      /\ UNCHANGED <<runs, faults, cloudVars, box, manifest, testers, repairs>>
  BY DEF AgeInFlight
<1>2. RunsMove /\ NoNewRun
  BY <1>1, StayMoves, StayNoNew
<1>3. /\ tests' \in [RunIds -> Test]
      /\ \A q \in RunIds : tests'[q].of = tests[q].of
      /\ \A q \in RunIds : Reported(q) <=> Reported(q)'
  BY <1>1, MinutesKeep
<1>4. \A q : (IsDeploy(q) <=> IsDeploy(q)') /\ (IsTest(q) <=> IsTest(q)') /\ (IsTeardown(q) <=> IsTeardown(q)')
  BY <1>2 DEF NoNewRun, IsDeploy, IsTest, IsTeardown
<1>5. \A q \in RunIds : /\ dep'[q] \in Deploy /\ dep'[q].idx = dep[q].idx
                        /\ Numbered(dep[q].inflight) => Numbered(dep'[q].inflight)
  <2> SUFFICES ASSUME NEW q \in RunIds
               PROVE  /\ dep'[q] \in Deploy /\ dep'[q].idx = dep[q].idx
                      /\ Numbered(dep[q].inflight) => Numbered(dep'[q].inflight)
    OBVIOUS
  <2>1. dep[q] \in Deploy /\ dep[q].inflight \in InFlight
    BY DEF Deploy
  <2>2. Older(dep[q].inflight) \in InFlight /\ (Numbered(dep[q].inflight) => Numbered(Older(dep[q].inflight)))
    BY <2>1, OlderTyped DEF Numbered
  <2> DEFINE i == Older(dep[q].inflight)
             d == [dep[q] EXCEPT !.inflight = i]
  <2>3. dep'[q] = dep[q] \/ dep'[q] = d
    BY <1>1
  <2> HIDE DEF i
  <2>4. d \in Deploy /\ d.idx = dep[q].idx /\ d.inflight = i
    BY <2>1, <2>2 DEF Deploy, i
  <2> HIDE DEF d
  <2> QED
    BY <2>1, <2>2, <2>3, <2>4 DEF i
<1>6. \A e \in Execs : execs'[e] \in Exec /\ ExecFits(execs'[e])
  <2> SUFFICES ASSUME NEW e \in Execs PROVE execs'[e] \in Exec /\ ExecFits(execs'[e])
    OBVIOUS
  <2>1. execs[e] \in Exec /\ execs[e].inflight \in InFlight /\ ExecFits(execs[e])
    BY DEF Exec, Placed
  <2>2. Older(execs[e].inflight) \in InFlight /\ (Numbered(execs[e].inflight) => Numbered(Older(execs[e].inflight)))
    BY <2>1, OlderTyped DEF Numbered
  <2> DEFINE i == Older(execs[e].inflight)
             x == [execs[e] EXCEPT !.inflight = i]
  <2>3. execs'[e] = execs[e] \/ execs'[e] = x
    BY <1>1
  <2> HIDE DEF i
  <2>4. x \in Exec /\ x.pc = execs[e].pc /\ x.run = execs[e].run /\ x.idx = execs[e].idx /\ x.did = execs[e].did
        /\ x.inflight = i
    BY <2>1, <2>2 DEF Exec, i
  <2> HIDE DEF x
  <2>5. Numbered(x.inflight)
    BY <2>1, <2>2, <2>4 DEF ExecFits, i
  <2> QED
    BY <2>1, <2>3, <2>4, <2>5 DEF ExecFits
<1>7. TypeOK'
  <2>1. execs' \in [Execs -> Exec] /\ dep' \in [RunIds -> Deploy]
    BY <1>1, <1>5, <1>6
  <2> QED
    BY <1>1, <1>2, <1>3, <2>1 DEF RunsMove, TypeOK, TestTypeOK, LedgerTypeOK, WorldOK, cloudVars
<1>8. \A q \in RunIds : DocFits(q)'
  BY <1>1, <1>2, <1>3, <1>4, <1>5 DEF Placed, DocFits, RunsMove
<1>9. \A e \in Execs : ExecFits(execs[e])'
  BY <1>4, <1>6 DEF ExecFits
<1>10. \A k \in Testers : TesterFits(testers[k])'
  <2> SUFFICES ASSUME NEW k \in Testers PROVE TesterFits(testers[k])'
    OBVIOUS
  <2>1. testers'[k] = testers[k] /\ TesterFits(testers[k]) /\ testers[k] \in Tester
    BY <1>1 DEF Placed
  <2>2. testers[k].run # 0 => testers[k].run \in RunIds
    BY <2>1 DEF Tester
  <2>3. testers[k].pc \in {"browser", "report", "status"} => testers[k].run \in RunIds
    BY <2>1, <2>2 DEF TesterFits
  <2> QED
    BY <1>3, <1>4, <2>1, <2>2, <2>3 DEF TesterFits, Reported
<1>11. (sweep.pc # "off" => IsTeardown(sweep.run))'
  BY <1>1, <1>4 DEF Placed, cloudVars
<1> QED
  BY <1>2, <1>7, <1>8, <1>9, <1>10, <1>11 DEF Placed

(***************************************************************************)
(* The theorems                                                            *)
(***************************************************************************)

LEMMA WorksKeep ==
    ASSUME IInv, NEW e \in Execs, Works(e)
    PROVE  IInv' /\ RunsMove
<1>1. CASE StepWorks(e)
  BY <1>1, StepBeginsKeeps, CloudWorkKeeps, BoxWorkKeeps, PocWorkKeeps, StepSucceedsKeeps, StepFailsKeeps DEF StepWorks
<1>2. CASE Calls(e)
  BY <1>2, CountAttemptKeeps, AskForTestsKeeps, MarkInFlightKeeps, FireKeeps, FireRaisesKeeps, ClearInFlightKeeps
     DEF Calls
<1>3. CASE Waits(e)
  BY <1>3, TestsAnswerKeeps, RepairAnswersKeeps, WaitFailsKeeps, WaitWindowKeeps DEF Waits
<1>4. CASE Leaves(e)
  BY <1>4, ResumeKeeps, HandOverKeeps, FinishKeeps, FinishFailedKeeps, ReleasePocKeeps DEF Leaves
<1> QED
  BY <1>1, <1>2, <1>3, <1>4 DEF Works

LEMMA UserKeeps ==
    ASSUME IInv, User
    PROVE  IInv' /\ RunsMove
<1>1. ASSUME NEW e \in Execs, UserDeploys(e) PROVE IInv' /\ RunsMove
  <2>1. PICK mode \in Modes, tested \in BOOLEAN : StartDeploy(e, mode, tested)
    BY <1>1, DeployAssumption DEF UserDeploys
  <2> QED
    BY <2>1, StartDeployKeeps
<1> QED
  BY <1>1, RetryDeployKeeps, AskTestsKeeps, RetryTestsKeeps, AbandonTeardownKeeps, TearsDownKeeps DEF User

LEMMA NextKeeps ==
    ASSUME IInv, [Next]_vars
    PROVE  IInv' /\ RunsMove
<1>1. CASE User
  BY <1>1, UserKeeps
<1>2. CASE \E e \in Execs : Works(e) \/ Die(e)
  BY <1>2, WorksKeep, DieKeeps
<1>3. CASE \E k \in Testers : Tests(k) \/ TestsBreak(k)
  BY <1>3, TestsKeep
<1>4. CASE SweepWorks \/ SweepBreaking
  BY <1>4, RowsKeep, SweepEndsKeep DEF SweepWorks, SweepBreaking, Sweeps, SweepBreaks
<1>5. CASE \E a \in Attempts : Repairs(a)
  BY <1>5, RepairsKeep
<1>6. CASE \E r \in RunIds : AgeInFlight(r) \/ Silence(r)
  BY <1>6, AgeInFlightKeeps, SilenceKeeps
<1>7. CASE UNCHANGED vars
  BY <1>7, StayMoves, StayNoNew, ElsewhereKeeps, TypeParts DEF vars, testVars, IInv
<1> QED
  BY <1>1, <1>2, <1>3, <1>4, <1>5, <1>6, <1>7 DEF Next

LEMMA InitFits == Init => IInv
<1> SUFFICES ASSUME Init PROVE IInv
  OBVIOUS
<1> USE DEF Init, TestInit, LedgerInit, Store!Init
<1>1. Store!TypeOK
  BY StoreFacts DEF Store!TypeOK, Store!NoDoc, Store!RunDoc
<1>2. WorldOK
  BY OffTyped, LedgerAssumption, TestAssumption DEF WorldOK, PocStatuses, Versions
<1>3. TypeOK
  BY <1>1, <1>2, OffTyped, TypeParts
<1>4. \A r \in RunIds : runs[r].stage = "none" /\ Numbered(dep[r].inflight)
  BY CalleeTyped DEF Store!NoDoc, NoDeploy
<1>5. sweep.pc = "off"
  BY DEF NoSweep
<1> QED
  BY <1>3, <1>4, <1>5, OffTyped DEF IInv, Placed, DocFits, IsTest, IsDeploy

LEMMA Inductive == Spec => []IInv
<1>1. IInv /\ [Next]_vars => IInv'
  BY NextKeeps
<1> QED
  BY <1>1, InitFits, PTL DEF Spec

(* Every variable of the deploy stage keeps its type, whatever is killed,  *)
(* continued twice or torn down meanwhile: no node of the graph reads a    *)
(* step, an attempt or a component that is not there.                      *)
THEOREM DeployTypeCorrect == Spec => []TypeOK
BY Inductive, PTL DEF IInv

(* The deploy agent, the test agent, the teardowns, the chat agent and the *)
(* reaper touch the runs collection by operations of the run store only,   *)
(* so what RunStore_proofs proves of the store holds of them.              *)
THEOREM DeployRefinesStore == Spec => ImplementsStore
<1>1. Init => Store!Init
  BY DEF Init, TestInit, LedgerInit
<1>2. IInv /\ [Next]_vars => [Store!Next]_runs
  BY NextKeeps DEF RunsMove
<1> QED
  BY <1>1, <1>2, Inductive, PTL DEF Spec, ImplementsStore, Store!Spec

(***************************************************************************)
(* Attempts                                                                *)
(***************************************************************************)

\* An execution that has counted an attempt and is about to fire it.
Asks(e) == execs[e].pc \in {"mark", "fire"} /\ execs[e].inflight.kind = "repair"

Counted(a) == IsDeploy(a[1]) /\ a[3] <= dep[a[1]].tries[a[2]]

\* What was fired has been counted; what is about to be fired has been counted, was
\* never fired and is about to be fired by nobody else.
Attempted ==
    /\ NoAttemptTwice
    /\ \A a \in Attempts : repairs[a].fired = 0 => repairs[a].state = "none"
    /\ \A a \in Attempts : repairs[a].fired # 0 => Counted(a)
    /\ \A e \in Execs : Asks(e) => repairs[AttemptOf(e)].fired = 0 /\ Counted(AttemptOf(e))
    /\ \A e, f \in Execs : Asks(e) /\ Asks(f) /\ AttemptOf(e) = AttemptOf(f) => e = f

\* A step that counts no attempt and fires none.
AttemptsStay ==
    /\ \A a \in Attempts : /\ repairs'[a].fired = repairs[a].fired
                           /\ repairs[a].state = "none" => repairs'[a].state = "none"
    /\ \A r \in RunIds : IsDeploy(r) => dep'[r].tries = dep[r].tries
    /\ \A e \in Execs : Asks(e)' => Asks(e) /\ AttemptOf(e)' = AttemptOf(e)

LEMMA AskedTyped ==
    ASSUME IInv, NEW e \in Execs, Asks(e)
    PROVE  AttemptOf(e) \in Attempts
<1>1. execs[e] \in Exec /\ Numbered(execs[e].inflight) /\ execs[e].run \in RunIds
  BY AtNode DEF Asks, ExecFits
<1>2. execs[e].inflight.comp \in Components /\ execs[e].inflight.attempt \in 1..MaxRepairs
  BY <1>1 DEF Asks, Exec, InFlight, Numbered
<1> QED
  BY <1>1, <1>2 DEF AttemptOf, Attempts

LEMMA StayAttempted ==
    ASSUME IInv, RunsMove, Attempted, AttemptsStay
    PROVE  Attempted'
<1>1. \A a \in Attempts : Counted(a) => Counted(a)'
  <2> SUFFICES ASSUME NEW a \in Attempts, Counted(a) PROVE Counted(a)'
    OBVIOUS
  <2>1. a[1] \in RunIds
    BY DEF Attempts
  <2> QED
    BY <2>1, StagesStay DEF Counted, AttemptsStay
<1>2. NoAttemptTwice'
  BY DEF NoAttemptTwice, Attempted, AttemptsStay
<1>3. \A a \in Attempts : repairs'[a].fired = 0 => repairs'[a].state = "none"
  BY DEF Attempted, AttemptsStay
<1>4. \A a \in Attempts : repairs'[a].fired # 0 => Counted(a)'
  BY <1>1 DEF Attempted, AttemptsStay
<1>5. \A e \in Execs : Asks(e)' => (repairs[AttemptOf(e)].fired = 0 /\ Counted(AttemptOf(e)))'
  <2> SUFFICES ASSUME NEW e \in Execs, Asks(e)'
               PROVE  (repairs[AttemptOf(e)].fired = 0 /\ Counted(AttemptOf(e)))'
    OBVIOUS
  <2>1. PICK a \in Attempts : a = AttemptOf(e) /\ a = AttemptOf(e)'
    BY AskedTyped DEF AttemptsStay
  <2>2. repairs[a].fired = 0 /\ Counted(a)
    BY <2>1 DEF Attempted, AttemptsStay
  <2>3. repairs'[a].fired = 0 /\ Counted(a)'
    BY <1>1, <2>2 DEF AttemptsStay
  <2> QED
    BY <2>1, <2>3 DEF Counted
<1>6. \A e, f \in Execs : (Asks(e) /\ Asks(f) /\ AttemptOf(e) = AttemptOf(f))' => e = f
  BY DEF Attempted, AttemptsStay
<1> QED
  BY <1>2, <1>3, <1>4, <1>5, <1>6 DEF Attempted

\* What keeps an execution from firing an attempt.
Idle(x) == x.pc \notin {"mark", "fire"} \/ x.inflight.kind # "repair"

LEMMA IdleStays ==
    ASSUME IInv, NEW e \in Execs, NEW x, Idle(x), execs' = [execs EXCEPT ![e] = x], UNCHANGED repairs,
           \A r \in RunIds : IsDeploy(r) => dep'[r].tries = dep[r].tries
    PROVE  AttemptsStay
<1>1. \A f \in Execs : f # e => execs'[f] = execs[f]
  BY TypeParts DEF IInv
<1>2. execs'[e] = x
  BY TypeParts DEF IInv
<1> QED
  BY <1>1, <1>2 DEF AttemptsStay, Asks, AttemptOf, Idle

LEMMA ProceedIdle ==
    ASSUME NEW e \in Execs, NEW x \in Exec, x.idx \in 1..14, Proceed(e, x)
    PROVE  \E y : Idle(y) /\ execs' = [execs EXCEPT ![e] = y]
<1>1. PICK spent \in BOOLEAN : execs' = [execs EXCEPT ![e] = Route(x, spent)]
  BY DEF Proceed
<1>2. Idle(Route(x, spent))
  BY RouteIs DEF Idle
<1> QED
  BY <1>1, <1>2

LEMMA OffIdle == Idle(Off)
BY DEF Idle, Off

LEMMA StepWorksStays ==
    ASSUME IInv, NEW e \in Execs, StepWorks(e)
    PROVE  AttemptsStay
<1>1. execs[e].pc # "off"
  BY DEF StepWorks, StepBegins, CloudWork, BoxWork, PocWork, StepSucceeds, StepFails, At
<1>2. execs[e] \in Exec /\ execs[e].run \in RunIds /\ dep[execs[e].run] \in Deploy /\ dep \in [RunIds -> Deploy]
  BY <1>1, AtNode, TypeParts DEF IInv
<1>3. UNCHANGED repairs /\ \A r \in RunIds : dep'[r].tries = dep[r].tries
  BY <1>2 DEF StepWorks, StepBegins, CloudWork, BoxWork, PocWork, StepSucceeds, StepFails, Deploy
<1>4. \E x : Idle(x) /\ execs' = [execs EXCEPT ![e] = x]
  <2>1. CASE StepBegins(e)
    BY <1>2, <2>1, OffIdle DEF StepBegins, Goto, Refused, Stop, Idle, Exec
  <2>2. CASE CloudWork(e) \/ BoxWork(e) \/ PocWork(e)
    <3>1. execs[e].pc = "work"
      BY <2>2 DEF CloudWork, BoxWork, PocWork, At
    <3>2. \E n : execs' = [execs EXCEPT ![e] = [execs[e] EXCEPT !.did = n]]
      BY <2>2 DEF CloudWork, BoxWork, PocWork
    <3> QED
      BY <1>2, <3>1, <3>2 DEF Idle, Exec
  <2>3. CASE StepSucceeds(e)
    <3> DEFINE x == [execs[e] EXCEPT !.idx = @ + 1]
    <3>1. execs[e].idx \in 1..13
      BY <1>1, <2>3, AtNode DEF StepSucceeds, At, ExecFits
    <3>2. x \in Exec /\ x.idx \in 1..14
      BY <1>2, <3>1, PipelineIs DEF Exec
    <3>3. Proceed(e, x) \/ Stop(e)
      BY <2>3 DEF StepSucceeds, Refused
    <3> HIDE DEF x
    <3> QED
      BY <3>2, <3>3, ProceedIdle, OffIdle DEF Stop
  <2>4. CASE StepFails(e)
    <3>1. \/ Stop(e)
          \/ execs' = [execs EXCEPT ![e] = [execs[e] EXCEPT !.did = 0, !.pc = "repair", !.comp = Repairable[StepOf(e)]]]
          \/ execs' = [execs EXCEPT ![e] = [execs[e] EXCEPT !.did = 0, !.pc = "fail"]]
      BY <2>4 DEF StepFails, Refused
    <3>2. /\ Idle([execs[e] EXCEPT !.did = 0, !.pc = "repair", !.comp = Repairable[StepOf(e)]])
          /\ Idle([execs[e] EXCEPT !.did = 0, !.pc = "fail"])
      BY <1>2 DEF Idle, Exec
    <3> QED
      BY <3>1, <3>2, OffIdle DEF Stop
  <2> QED
    BY <2>1, <2>2, <2>3, <2>4 DEF StepWorks
<1> QED
  BY <1>3, <1>4, IdleStays

LEMMA WaitsStays ==
    ASSUME IInv, NEW e \in Execs, Waits(e)
    PROVE  AttemptsStay
<1>1. execs[e].pc = "wait"
  BY DEF Waits, TestsAnswer, RepairAnswers, WaitFails, WaitWindow, At
<1>2. /\ execs[e] \in Exec /\ execs[e].run \in RunIds /\ dep[execs[e].run] \in Deploy /\ dep \in [RunIds -> Deploy]
      /\ Nothing \in InFlight /\ {5, 13} \subseteq 0..Len(Pipeline) + 1
      /\ Position("run_tests") + 1 = 13 /\ Position("fetch_bundle") = 5
  BY <1>1, AtNode, OffTyped, PipelineFacts, TypeParts DEF IInv
<1>3. UNCHANGED repairs
  BY DEF Waits, TestsAnswer, RepairAnswers, WaitFails, WaitWindow
<1>4. \A r \in RunIds : dep'[r].tries = dep[r].tries
  <2>1. CASE WaitFails(e) \/ WaitWindow(e)
    BY <2>1 DEF WaitFails, WaitWindow
  <2>2. CASE RepairAnswers(e)
    <3>1. \E v : dep' = [dep EXCEPT ![execs[e].run].ver = v, ![execs[e].run].inflight = Nothing,
                                    ![execs[e].run].idx = 5]
      BY <1>2, <2>2 DEF RepairAnswers
    <3> QED
      BY <1>2, <3>1 DEF Deploy
  <2>3. CASE TestsAnswer(e)
    <3> DEFINE passed(q) == runs[q].status = "succeeded" /\ Passed(q)
    <3>1. PICK q \in Answering(e) :
             dep' = [dep EXCEPT ![execs[e].run].inflight = Nothing, ![execs[e].run].verdict = q,
                                ![execs[e].run].passed = passed(q),
                                ![execs[e].run].idx = IF passed(q) THEN Position("run_tests") + 1 ELSE @]
      BY <2>3 DEF TestsAnswer
    <3> HIDE DEF passed
    <3> QED
      BY <1>2, <3>1 DEF Deploy
  <2> QED
    BY <2>1, <2>2, <2>3 DEF Waits
<1>5. \E x : Idle(x) /\ execs' = [execs EXCEPT ![e] = x]
  <2>1. CASE WaitFails(e) \/ WaitWindow(e)
    <3>1. PICK pc \in {"clear", "handover"} : execs' = [execs EXCEPT ![e] = [execs[e] EXCEPT !.pc = pc]]
      BY <2>1 DEF WaitFails, WaitWindow, Goto
    <3> QED
      BY <1>2, <3>1 DEF Idle, Exec
  <2>2. ASSUME NEW n \in {5, 13}, Proceed(e, [execs[e] EXCEPT !.inflight = Nothing, !.idx = n])
        PROVE  \E x : Idle(x) /\ execs' = [execs EXCEPT ![e] = x]
    <3> DEFINE y == [execs[e] EXCEPT !.inflight = Nothing, !.idx = n]
    <3>1. n \in 1..14 /\ n \in 0..Len(Pipeline) + 1
      BY <1>2
    <3>2. y \in Exec /\ y.idx = n
      BY <1>2, <3>1 DEF Exec
    <3> HIDE DEF y
    <3> QED
      BY <2>2, <3>1, <3>2, ProceedIdle DEF y
  <2>3. CASE RepairAnswers(e)
    BY <1>2, <2>2, <2>3 DEF RepairAnswers
  <2>4. CASE TestsAnswer(e)
    <3>1. \/ Proceed(e, [execs[e] EXCEPT !.inflight = Nothing, !.idx = 13])
          \/ \E c : execs' = [execs EXCEPT ![e] = [execs[e] EXCEPT !.inflight = Nothing, !.pc = "repair", !.comp = c]]
          \/ execs' = [execs EXCEPT ![e] = [execs[e] EXCEPT !.inflight = Nothing, !.pc = "fail"]]
      BY <1>2, <2>4 DEF TestsAnswer
    <3>2. /\ \A c : Idle([execs[e] EXCEPT !.inflight = Nothing, !.pc = "repair", !.comp = c])
          /\ Idle([execs[e] EXCEPT !.inflight = Nothing, !.pc = "fail"])
      BY <1>2 DEF Idle, Exec
    <3> QED
      BY <2>2, <3>1, <3>2
  <2> QED
    BY <2>1, <2>3, <2>4 DEF Waits
<1> QED
  BY <1>3, <1>4, <1>5, IdleStays

LEMMA LeavesStays ==
    ASSUME IInv, NEW e \in Execs, Leaves(e) \/ Die(e) \/ RetryDeploy(e)
    PROVE  AttemptsStay
<1>1. UNCHANGED <<dep, repairs>>
  BY DEF Leaves, Resume, HandOver, Finish, FinishFailed, ReleasePoc, Die, RetryDeploy
<1>2. \A r : Idle([Off EXCEPT !.pc = "resume", !.run = r])
  BY DEF Idle, Off
<1>3. (\E x : Idle(x) /\ execs' = [execs EXCEPT ![e] = x]) \/ UNCHANGED execs
  <2>1. CASE Resume(e)
    <3> DEFINE r == execs[e].run
               x == [execs[e] EXCEPT !.idx = dep[r].idx, !.inflight = dep[r].inflight]
    <3>1. execs[e].pc = "resume"
      BY <2>1 DEF Resume, At
    <3>2. x \in Exec /\ x.idx \in 1..14
      BY <3>1, AtNode, PipelineIs DEF Exec, Deploy
    <3>3. Stop(e) \/ execs' = [execs EXCEPT ![e] = Route(x, FALSE)]
      BY <2>1 DEF Resume
    <3> HIDE DEF x
    <3>4. Idle(Route(x, FALSE))
      BY <3>2, RouteIs DEF Idle
    <3> QED
      BY <3>3, <3>4, OffIdle DEF Stop
  <2>2. CASE HandOver(e)
    <3>1. execs[e].pc = "handover"
      BY <2>2 DEF HandOver, At
    <3>2. execs[e] \in Exec /\ execs[e].idx \in 1..14
      BY <3>1, AtNode DEF ExecFits
    <3>3. Idle(Route(execs[e], FALSE))
      BY <3>2, RouteIs DEF Idle
    <3>4. \/ execs' = [execs EXCEPT ![e] = [Off EXCEPT !.pc = "resume", !.run = execs[e].run]]
          \/ Stop(e)
          \/ execs' = [execs EXCEPT ![e] = Route(execs[e], FALSE)]
      BY <2>2 DEF HandOver
    <3> QED
      BY <1>2, <3>3, <3>4, OffIdle DEF Stop
  <2>3. CASE Finish(e) \/ ReleasePoc(e) \/ Die(e)
    BY <2>3, OffIdle DEF Finish, ReleasePoc, Die, Stop
  <2>4. CASE FinishFailed(e)
    <3>1. execs[e] \in Exec
      BY TypeParts DEF IInv
    <3> QED
      BY <2>4, <3>1 DEF FinishFailed, Goto, Idle, Exec
  <2>5. CASE RetryDeploy(e)
    BY <1>2, <2>5 DEF RetryDeploy
  <2> QED
    BY <2>1, <2>2, <2>3, <2>4, <2>5 DEF Leaves
<1>4. CASE UNCHANGED execs
  BY <1>1, <1>4 DEF AttemptsStay, Asks, AttemptOf
<1> QED
  BY <1>1, <1>3, <1>4, IdleStays

\* Nothing that happens elsewhere counts or fires an attempt.
LEMMA ElsewhereStays ==
    ASSUME IInv, Attempted,
           \/ UNCHANGED <<dep, repairs, execs>>
           \/ \E a \in Attempts : Repairs(a)
           \/ \E r \in RunIds : AgeInFlight(r) \/ Silence(r)
           \/ \E e \in Execs, mode \in Modes, tested \in BOOLEAN : StartDeploy(e, mode, tested)
    PROVE  AttemptsStay
<1>1. CASE UNCHANGED <<dep, repairs, execs>>
  BY <1>1 DEF AttemptsStay, Asks, AttemptOf
<1>2. CASE \E a \in Attempts : Repairs(a)
  <2>1. PICK a \in Attempts : Repairs(a)
    BY <1>2
  <2>2. /\ repairs[a].state \in {"fired", "running"} /\ UNCHANGED <<dep, execs>>
        /\ \/ \E s : repairs' = [repairs EXCEPT ![a].state = s]
           \/ \E s, v : repairs' = [repairs EXCEPT ![a].state = s, ![a].ver = v]
    BY <2>1 DEF Repairs, RepairStarts, RepairEnds, RepairGoes
  <2>3. \A b \in Attempts : b # a => repairs'[b] = repairs[b]
    BY <2>2, TypeParts DEF IInv
  <2>4. repairs'[a].fired = repairs[a].fired
    BY <2>2, TypeParts DEF IInv, Repair
  <2> QED
    BY <2>2, <2>3, <2>4 DEF AttemptsStay, Asks, AttemptOf
<1>3. CASE \E r \in RunIds : Silence(r)
  BY <1>3 DEF Silence, AttemptsStay, Asks, AttemptOf
<1>4. CASE \E r \in RunIds : AgeInFlight(r)
  <2>1. PICK r \in RunIds :
          /\ dep' = [dep EXCEPT ![r].inflight = Older(@)]
          /\ execs' = [e \in Execs |-> IF execs[e].run = r THEN [execs[e] EXCEPT !.inflight = Older(@)] ELSE execs[e]]
          /\ UNCHANGED repairs
    BY <1>4 DEF AgeInFlight
  <2>2. \A q \in RunIds : dep'[q].tries = dep[q].tries
    BY <2>1, TypeParts DEF IInv, Deploy
  <2>3. ASSUME NEW e \in Execs
        PROVE  /\ execs'[e].pc = execs[e].pc /\ execs'[e].run = execs[e].run
               /\ execs'[e].inflight.kind = execs[e].inflight.kind
               /\ execs'[e].inflight.comp = execs[e].inflight.comp
               /\ execs'[e].inflight.attempt = execs[e].inflight.attempt
    <3>1. execs[e] \in Exec /\ execs[e].inflight \in InFlight
      BY TypeParts DEF IInv, Exec
    <3> DEFINE i == Older(execs[e].inflight)
    <3>2. execs'[e] = execs[e] \/ execs'[e] = [execs[e] EXCEPT !.inflight = i]
      BY <2>1
    <3>3. /\ i.kind = execs[e].inflight.kind /\ i.comp = execs[e].inflight.comp
          /\ i.attempt = execs[e].inflight.attempt
      BY <3>1, OlderTyped
    <3> HIDE DEF i
    <3> QED
      BY <3>1, <3>2, <3>3 DEF Exec
  <2> QED
    BY <2>1, <2>2, <2>3 DEF AttemptsStay, Asks, AttemptOf
<1>5. CASE \E e \in Execs, mode \in Modes, tested \in BOOLEAN : StartDeploy(e, mode, tested)
  <2>1. PICK e \in Execs : \E mode \in Modes, tested \in BOOLEAN : StartDeploy(e, mode, tested)
    BY <1>5
  <2>2. PICK r \in RunIds : /\ CreateRun(r, "deploy")
                            /\ \E d : dep' = [dep EXCEPT ![r] = d]
                            /\ execs' = [execs EXCEPT ![e] = [Off EXCEPT !.pc = "step", !.run = r, !.idx = 1]]
                            /\ UNCHANGED repairs
    BY <2>1 DEF StartDeploy
  <2>3. Absent(r)
    BY <2>2, CreateMoves DEF Stages
  <2>4. \A q \in RunIds : IsDeploy(q) => dep'[q] = dep[q]
    BY <2>2, <2>3, TypeParts DEF IInv, Placed, DocFits, IsDeploy
  <2>5. Idle([Off EXCEPT !.pc = "step", !.run = r, !.idx = 1])
    BY DEF Idle, Off
  <2> QED
    BY <2>2, <2>4, <2>5, IdleStays
<1> QED
  BY <1>1, <1>2, <1>3, <1>4, <1>5

LEMMA CountAttempted ==
    ASSUME IInv, Attempted, NEW e \in Execs, CountAttempt(e)
    PROVE  Attempted'
<1> DEFINE r == execs[e].run
           c == execs[e].comp
           n == Least(dep[r].tries[c] + 1, MaxRepairs + 1)
<1>1. /\ execs[e].pc = "repair" /\ dep' = [dep EXCEPT ![r].tries[c] = n]
      /\ execs' = [execs EXCEPT ![e] =
            IF n > MaxRepairs THEN [@ EXCEPT !.pc = "fail"]
            ELSE [@ EXCEPT !.pc = "mark", !.inflight = [Nothing EXCEPT !.kind = "repair", !.comp = c, !.attempt = n]]]
      /\ UNCHANGED repairs
  BY DEF CountAttempt, At
<1>2. RunsMove
  BY CountAttemptKeeps
<1>3. /\ execs[e] \in Exec /\ r \in RunIds /\ IsDeploy(r) /\ dep[r] \in Deploy /\ c \in Components
      /\ dep[r].tries \in [Components -> 0..MaxRepairs + 1] /\ dep \in [RunIds -> Deploy]
  BY <1>1, AtNode, TypeParts DEF IInv, Exec, Deploy
<1>4. n \in 1..MaxRepairs + 1 /\ n >= dep[r].tries[c] /\ (n <= MaxRepairs => n > dep[r].tries[c])
  BY <1>3, DeployAssumption DEF Least
<1>5. /\ \A q \in RunIds : q # r => dep'[q] = dep[q]
      /\ dep'[r].tries = [dep[r].tries EXCEPT ![c] = n]
  <2> HIDE DEF n
  <2> QED
    BY <1>1, <1>3 DEF Deploy
<1> HIDE DEF n
<1>6. \A a \in Attempts : Counted(a) => Counted(a)'
  <2> SUFFICES ASSUME NEW a \in Attempts, Counted(a) PROVE Counted(a)'
    OBVIOUS
  <2>1. a[1] \in RunIds /\ a[2] \in Components /\ a[3] \in 1..MaxRepairs
    BY DEF Attempts
  <2>2. IsDeploy(a[1])'
    BY <1>2, StagesStay DEF Counted
  <2>3. a[3] <= dep'[a[1]].tries[a[2]]
    <3>1. CASE a[1] = r /\ a[2] = c
      BY <1>3, <1>4, <1>5, <2>1, <3>1, DeployAssumption DEF Counted
    <3>2. CASE ~(a[1] = r /\ a[2] = c)
      BY <1>3, <1>5, <2>1, <3>2 DEF Counted
    <3> QED
      BY <3>1, <3>2
  <2> QED
    BY <2>2, <2>3 DEF Counted
<1>7. \A f \in Execs : f # e => execs'[f] = execs[f]
  BY <1>1, TypeParts DEF IInv
<1>8. ASSUME Asks(e)'
      PROVE  /\ execs'[e].run = r /\ execs'[e].inflight.comp = c /\ execs'[e].inflight.attempt = n
             /\ n <= MaxRepairs
  <2>1. CASE n > MaxRepairs
    <3>1. execs'[e] = [execs[e] EXCEPT !.pc = "fail"]
      BY <1>1, <2>1, TypeParts DEF IInv
    <3> QED
      BY <1>3, <1>8, <3>1 DEF Asks, Exec
  <2>2. CASE ~(n > MaxRepairs)
    <3> DEFINE i == [Nothing EXCEPT !.kind = "repair", !.comp = c, !.attempt = n]
    <3>1. execs'[e] = [execs[e] EXCEPT !.pc = "mark", !.inflight = i]
      BY <1>1, <2>2, TypeParts DEF IInv
    <3>2. i.comp = c /\ i.attempt = n
      BY DEF Nothing
    <3> HIDE DEF i
    <3> QED
      BY <1>3, <1>4, <2>2, <3>1, <3>2, DeployAssumption DEF Exec
  <2> QED
    BY <2>1, <2>2
<1> DEFINE a == <<r, c, n>>
<1>9. ASSUME Asks(e)'
      PROVE  /\ AttemptOf(e)' = a /\ a \in Attempts /\ ~Counted(a) /\ repairs[a].fired = 0
             /\ IsDeploy(r) /\ n <= dep'[r].tries[c]
  <2>1. AttemptOf(e)' = a
    BY <1>8, <1>9 DEF AttemptOf
  <2>2. n \in 1..MaxRepairs
    BY <1>4, <1>8, <1>9, DeployAssumption
  <2>3. a \in Attempts /\ a[1] = r /\ a[2] = c /\ a[3] = n
    BY <1>3, <2>2 DEF Attempts
  <2>4. ~Counted(a)
    BY <1>3, <1>4, <2>2, <2>3, DeployAssumption DEF Counted
  <2>5. repairs[a].fired = 0
    BY <2>3, <2>4 DEF Attempted
  <2>6. n <= dep'[r].tries[c]
    BY <1>3, <1>5, <2>2
  <2> QED
    BY <1>3, <2>1, <2>3, <2>4, <2>5, <2>6
<1> HIDE DEF a
<1>10. \A f \in Execs : f # e /\ Asks(f)' => Asks(f) /\ AttemptOf(f)' = AttemptOf(f)
  BY <1>7 DEF Asks, AttemptOf
<1>11. \A f \in Execs : Asks(f) => AttemptOf(f) \in Attempts /\ Counted(AttemptOf(f))
  BY AskedTyped DEF Attempted
<1>12. \A f \in Execs : Asks(f)' => (repairs[AttemptOf(f)].fired = 0 /\ Counted(AttemptOf(f)))'
  <2> SUFFICES ASSUME NEW f \in Execs, Asks(f)'
               PROVE  (repairs[AttemptOf(f)].fired = 0 /\ Counted(AttemptOf(f)))'
    OBVIOUS
  <2>1. CASE f = e
    <3>1. a[1] = r /\ a[2] = c /\ a[3] = n
      BY DEF a
    <3>2. IsDeploy(r) /\ AttemptOf(e)' = a /\ repairs'[a].fired = 0 /\ a[3] <= dep'[a[1]].tries[a[2]]
      BY <1>1, <1>9, <2>1, <3>1
    <3>3. PICK p \in RunIds : p = r
      BY <1>3
    <3>4. IsDeploy(p)'
      BY <1>2, <1>3, <3>3, StagesStay
    <3> QED
      BY <2>1, <3>1, <3>2, <3>3, <3>4 DEF Counted, IsDeploy
  <2>2. CASE f # e
    <3>1. PICK b \in Attempts : b = AttemptOf(f) /\ b = AttemptOf(f)'
      BY <1>10, <1>11, <2>2
    <3>2. repairs'[b].fired = 0 /\ Counted(b)'
      BY <1>1, <1>6, <1>10, <1>11, <2>2, <3>1 DEF Attempted
    <3> QED
      BY <3>1, <3>2 DEF Counted
  <2> QED
    BY <2>1, <2>2
<1>13. \A f, g \in Execs : (Asks(f) /\ Asks(g) /\ AttemptOf(f) = AttemptOf(g))' => f = g
  BY <1>9, <1>10, <1>11 DEF Attempted
<1>14. NoAttemptTwice'
  BY <1>1 DEF Attempted, NoAttemptTwice
<1>15. \A b \in Attempts : /\ repairs'[b].fired = 0 => repairs'[b].state = "none"
                           /\ repairs'[b].fired # 0 => Counted(b)'
  BY <1>1, <1>6 DEF Attempted
<1> QED
  BY <1>12, <1>13, <1>14, <1>15 DEF Attempted

LEMMA FiresAttempted ==
    ASSUME IInv, Attempted, NEW e \in Execs, execs[e].pc = "fire", NEW started \in BOOLEAN, Fires(e, started),
           NEW x, x.pc \notin {"mark", "fire"}, execs' = [execs EXCEPT ![e] = x], UNCHANGED <<runs, dep>>
    PROVE  Attempted'
<1>1. \A f \in Execs : f # e => execs'[f] = execs[f]
  BY TypeParts DEF IInv
<1>2. \A f \in Execs : Asks(f)' => f # e /\ Asks(f) /\ AttemptOf(f)' = AttemptOf(f)
  BY <1>1, TypeParts DEF IInv, Asks, AttemptOf
<1>3. \A b : Counted(b)' <=> Counted(b)
  BY DEF Counted, IsDeploy
<1>4. CASE Asks(e) /\ started
  <2> DEFINE a == AttemptOf(e)
  <2>1. a \in Attempts /\ Counted(a) /\ repairs[a].fired = 0
    BY <1>4, AskedTyped DEF Attempted
  <2>2. repairs' = [repairs EXCEPT ![a].state = "fired", ![a].fired = Least(@ + 1, 2)]
    BY <1>4 DEF Fires, Asks
  <2>3. repairs'[a].fired = 1 /\ \A b \in Attempts : b # a => repairs'[b] = repairs[b]
    BY <2>1, <2>2, TypeParts DEF IInv, Repair, Least
  <2>4. \A f \in Execs : Asks(f) /\ f # e => AttemptOf(f) # a /\ AttemptOf(f) \in Attempts
    BY <1>4, AskedTyped DEF Attempted
  <2> HIDE DEF a
  <2>5. NoAttemptTwice'
    BY <2>3 DEF Attempted, NoAttemptTwice
  <2>6. \A b \in Attempts : /\ repairs'[b].fired = 0 => repairs'[b].state = "none"
                            /\ repairs'[b].fired # 0 => Counted(b)'
    BY <1>3, <2>1, <2>3 DEF Attempted
  <2>7. \A f \in Execs : Asks(f)' => (repairs[AttemptOf(f)].fired = 0 /\ Counted(AttemptOf(f)))'
    <3> SUFFICES ASSUME NEW f \in Execs, Asks(f)'
                 PROVE  (repairs[AttemptOf(f)].fired = 0 /\ Counted(AttemptOf(f)))'
      OBVIOUS
    <3>1. PICK b \in Attempts : b = AttemptOf(f) /\ b = AttemptOf(f)' /\ b # a
      BY <1>2, <2>4
    <3>2. repairs'[b].fired = 0 /\ Counted(b)'
      BY <1>2, <1>3, <2>3, <3>1 DEF Attempted
    <3> QED
      BY <3>1, <3>2 DEF Counted
  <2>8. \A f, g \in Execs : (Asks(f) /\ Asks(g) /\ AttemptOf(f) = AttemptOf(g))' => f = g
    BY <1>2 DEF Attempted
  <2> QED
    BY <2>5, <2>6, <2>7, <2>8 DEF Attempted
<1>5. CASE ~(Asks(e) /\ started)
  <2>1. UNCHANGED repairs
    BY <1>5 DEF Fires, Asks
  <2>2. AttemptsStay
    BY <1>2, <2>1 DEF AttemptsStay
  <2> QED
    BY <2>2, StayMoves, StayAttempted
<1> QED
  BY <1>4, <1>5

LEMMA CallsAttempted ==
    ASSUME IInv, Attempted, NEW e \in Execs, Calls(e)
    PROVE  Attempted'
<1>1. CASE CountAttempt(e)
  BY <1>1, CountAttempted
<1>2. CASE AskForTests(e)
  <2>1. execs[e].pc = "tests" /\ UNCHANGED repairs
    BY <1>2 DEF AskForTests, At
  <2>2. /\ execs[e] \in Exec /\ execs[e].idx = 12 /\ execs[e].run \in RunIds
        /\ dep[execs[e].run] \in Deploy /\ dep \in [RunIds -> Deploy]
    BY <2>1, AtNode, TypeParts DEF ExecFits, IInv
  <2>3. \A r \in RunIds : dep'[r].tries = dep[r].tries
    <3>1. dep' = [dep EXCEPT ![execs[e].run].idx = execs[e].idx + 1] \/ UNCHANGED dep
      BY <1>2 DEF AskForTests
    <3> QED
      BY <2>2, <3>1 DEF Deploy
  <2>4. \E x : Idle(x) /\ execs' = [execs EXCEPT ![e] = x]
    <3> DEFINE y == [execs[e] EXCEPT !.idx = @ + 1]
               z == [execs[e] EXCEPT !.pc = "mark", !.inflight = [Nothing EXCEPT !.kind = "test"]]
    <3>1. y \in Exec /\ y.idx \in 1..14
      BY <2>2, PipelineIs DEF Exec
    <3>2. Idle(z)
      BY <2>2 DEF Idle, Exec, Nothing
    <3>3. Proceed(e, y) \/ Stop(e) \/ execs' = [execs EXCEPT ![e] = z]
      BY <1>2 DEF AskForTests, Refused
    <3> HIDE DEF y, z
    <3> QED
      BY <3>1, <3>2, <3>3, ProceedIdle, OffIdle DEF Stop
  <2> QED
    BY <1>2, <2>1, <2>3, <2>4, IdleStays, StayAttempted, AskForTestsKeeps
<1>3. CASE MarkInFlight(e)
  <2>1. PICK n : LET callee == [execs[e].inflight EXCEPT !.after = IF execs[e].inflight.kind = "test" THEN n ELSE 0]
                 IN  /\ dep' = [dep EXCEPT ![execs[e].run].inflight = callee]
                     /\ execs' = [execs EXCEPT ![e].pc = "fire", ![e].inflight = callee]
    BY <1>3 DEF MarkInFlight
  <2>2. execs[e].pc = "mark" /\ UNCHANGED repairs
    BY <1>3 DEF MarkInFlight, At
  <2>3. execs[e] \in Exec /\ execs[e].inflight \in InFlight
    BY TypeParts DEF IInv, Exec
  <2>4. PICK i : /\ i.kind = execs[e].inflight.kind /\ i.comp = execs[e].inflight.comp
                 /\ i.attempt = execs[e].inflight.attempt
                 /\ dep' = [dep EXCEPT ![execs[e].run].inflight = i]
                 /\ execs' = [execs EXCEPT ![e].pc = "fire", ![e].inflight = i]
    BY <2>1, <2>3 DEF InFlight
  <2>5. \A r \in RunIds : dep'[r].tries = dep[r].tries
    BY <2>4, TypeParts DEF IInv, Deploy
  <2>6. /\ execs'[e].run = execs[e].run /\ execs'[e].inflight = i
        /\ \A f \in Execs : f # e => execs'[f] = execs[f]
    BY <2>3, <2>4, TypeParts DEF IInv, Exec
  <2>7. AttemptsStay
    BY <2>2, <2>4, <2>5, <2>6 DEF AttemptsStay, Asks, AttemptOf
  <2> QED
    BY <1>3, <2>7, StayAttempted, MarkInFlightKeeps
<1>4. CASE Fire(e)
  <2>1. execs[e].pc = "fire" /\ Proceed(e, execs[e]) /\ UNCHANGED <<runs, dep>> /\ \E started \in BOOLEAN : Fires(e, started)
    BY <1>4 DEF Fire, At
  <2>2. execs[e] \in Exec /\ execs[e].idx \in 1..14
    BY <2>1, AtNode DEF ExecFits
  <2>3. PICK spent \in BOOLEAN : execs' = [execs EXCEPT ![e] = Route(execs[e], spent)]
    BY <2>1 DEF Proceed
  <2>4. Route(execs[e], spent).pc \notin {"mark", "fire"}
    BY <2>2, RouteIs
  <2> QED
    BY <2>1, <2>3, <2>4, FiresAttempted
<1>5. CASE FireRaises(e)
  <2>1. /\ execs[e].pc = "fire" /\ UNCHANGED <<runs, dep>> /\ \E started \in BOOLEAN : Fires(e, started)
        /\ execs' = [execs EXCEPT ![e] = [execs[e] EXCEPT !.pc = "clear"]]
    BY <1>5 DEF FireRaises, At, Goto
  <2>2. [execs[e] EXCEPT !.pc = "clear"].pc \notin {"mark", "fire"}
    BY TypeParts DEF IInv, Exec
  <2> QED
    BY <2>1, <2>2, FiresAttempted
<1>6. CASE ClearInFlight(e)
  <2>1. /\ dep' = [dep EXCEPT ![execs[e].run].inflight = Nothing] /\ UNCHANGED repairs
        /\ execs' = [execs EXCEPT ![e] = [execs[e] EXCEPT !.pc = "fail", !.inflight = Nothing]]
    BY <1>6 DEF ClearInFlight
  <2>2. Idle([execs[e] EXCEPT !.pc = "fail", !.inflight = Nothing])
    BY TypeParts DEF IInv, Exec, Idle
  <2>3. \A r \in RunIds : dep'[r].tries = dep[r].tries
    BY <2>1, TypeParts DEF IInv, Deploy
  <2> QED
    BY <1>6, <2>1, <2>2, <2>3, IdleStays, StayAttempted, ClearInFlightKeeps
<1> QED
  BY <1>1, <1>2, <1>3, <1>4, <1>5, <1>6 DEF Calls

LEMMA NextAttempted ==
    ASSUME IInv, Attempted, [Next]_vars
    PROVE  Attempted'
<1>1. CASE \E e \in Execs : Calls(e)
  BY <1>1, CallsAttempted
<1>2. CASE AttemptsStay
  BY <1>2, NextKeeps, StayAttempted
<1>3. CASE \E e \in Execs : StepWorks(e) \/ Waits(e) \/ Leaves(e) \/ Die(e) \/ RetryDeploy(e)
  BY <1>2, <1>3, StepWorksStays, WaitsStays, LeavesStays
<1>4. CASE \/ UNCHANGED <<dep, repairs, execs>>
           \/ \E a \in Attempts : Repairs(a)
           \/ \E r \in RunIds : AgeInFlight(r) \/ Silence(r)
           \/ \E e \in Execs, mode \in Modes, tested \in BOOLEAN : StartDeploy(e, mode, tested)
  BY <1>2, <1>4, ElsewhereStays
<1>5. CASE User
  <2>1. CASE \E e \in Execs : UserDeploys(e)
    BY <1>4, <2>1, DeployAssumption DEF UserDeploys
  <2>2. CASE \E k \in Testers : AskTests(k) \/ RetryTests(k)
    BY <1>4, <2>2 DEF AskTests, RetryTests
  <2>3. CASE AbandonTeardown \/ \E reaper \in BOOLEAN : TearsDown(reaper)
    BY <1>4, <2>3 DEF AbandonTeardown, TearsDown
  <2> QED
    BY <1>3, <1>5, <2>1, <2>2, <2>3 DEF User
<1>6. CASE \/ \E k \in Testers : Tests(k) \/ TestsBreak(k)
           \/ SweepWorks \/ SweepBreaking \/ UNCHANGED vars
  BY <1>4, <1>6 DEF Tests, TestsBreak, SweepWorks, SweepBreaking, vars
<1> QED
  BY <1>1, <1>3, <1>4, <1>5, <1>6 DEF Next, Works

LEMMA InitAttempted == Init => Attempted
<1> SUFFICES ASSUME Init PROVE Attempted
  OBVIOUS
<1>1. \A a \in Attempts : repairs[a].fired = 0 /\ repairs[a].state = "none"
  BY DEF Init, NoRepair
<1>2. \A e \in Execs : execs[e].pc = "off"
  BY DEF Init, Off
<1> QED
  BY <1>1, <1>2 DEF Attempted, NoAttemptTwice, Asks

(* No repair is asked for twice: an attempt is counted before it is marked *)
(* in flight and marked before it is fired, so an execution that takes     *)
(* over, a second one that continues the run beside the first, and one     *)
(* that is killed after the fire all find it counted.                      *)
THEOREM AttemptedOnce == Spec => []NoAttemptTwice
<1>1. IInv /\ Attempted /\ [Next]_vars => Attempted'
  BY NextAttempted
<1> QED
  BY <1>1, InitAttempted, Inductive, PTL DEF Spec, Attempted

=============================================================================

----------------------------- MODULE CloudLedger -----------------------------
(***************************************************************************)
(* What a POC owns in the cloud, the cloud_resources ledger that says so,  *)
(* and the teardown that works from the ledger alone: the one a user asks  *)
(* the deploy agent for and the one the reaper runs.                       *)
(*                                                                         *)
(* The steps of a deployment create resources and register them one after  *)
(* another (Operations); the deploy agent that runs them is in DeployRun.  *)
(* AWS and Atlas are modelled by which resources exist.                    *)
(***************************************************************************)
EXTENDS Naturals, Sequences, FiniteSets

CONSTANTS
    MaxRuns,    \* bound: the deploy, test and teardown runs the POC may get
    MaxOf,      \* bound: how many of them may be of each stage
    MaxFaults   \* bound: how many times something outside the code's control fails

RunIds == 1..MaxRuns
Stages == {"deploy", "test", "teardown"}

ASSUME LedgerAssumption ==
    /\ {MaxRuns, MaxFaults} \subseteq Nat
    /\ MaxOf \in [Stages -> Nat]

VARIABLES
    runs,       \* the runs collection
    poc,        \* the status of the POC
    cloud,      \* the resources that exist
    ledger,     \* ledger[x]: the cloud_resources row of x
    sweep,      \* where the teardown stands
    faults      \* faults so far

Store == INSTANCE RunStore

PocStatuses == {"code_ready", "deploying", "deployed", "testing", "tested", "failed", "torn_down"}

\* The database user and the secret belong to the POC, the instance to a run.
Resource(kind, r) == [kind |-> kind, run |-> r]
DbUser  == Resource("atlas_db_user", 0)
Cluster == Resource("atlas_flex_cluster", 0)
Secret  == Resource("secret", 0)
Instance(r) == Resource("ec2_instance", r)
Address(r)  == Resource("atlas_access_list_entry", r)
Resources   == {DbUser, Cluster, Secret} \cup {Instance(r) : r \in RunIds} \cup {Address(r) : r \in RunIds}

NoSweep == [pc |-> "off", run |-> 0, todo |-> {}, row |-> {}, flex |-> FALSE,
            errors |-> FALSE, reaper |-> FALSE]
Sweep   == [pc : {"off", "list", "rows", "record"}, run : RunIds \cup {0}, todo : SUBSET Resources,
            row : SUBSET Resources, flex : BOOLEAN, errors : BOOLEAN, reaper : BOOLEAN]

LedgerTypeOK ==
    /\ Store!TypeOK
    /\ poc \in PocStatuses
    /\ cloud \subseteq Resources
    /\ ledger \in [Resources -> {"none", "active", "released"}]
    /\ sweep \in Sweep
    /\ faults \in 0..MaxFaults

LedgerInit ==
    /\ Store!Init
    /\ poc = "code_ready"
    /\ cloud = {}
    /\ ledger = [x \in Resources |-> "none"]
    /\ sweep = NoSweep
    /\ faults = 0

Fault == faults < MaxFaults /\ faults' = faults + 1

OfStage(s) == {r \in RunIds : runs[r].stage = s}
Newest(s)  == {r \in OfStage(s) : \A q \in OfStage(s) : q <= r}
Live(s)    == \E r \in OfStage(s) : Store!IsActive(r)

\* Mutated form of CreateRun: the stage is not looked at.
CreateRunAnyway(r, s) ==
    /\ \A q \in RunIds : Store!Exists(q) <=> q < r
    /\ Cardinality(OfStage(s)) < MaxOf[s]
    /\ runs' = [runs EXCEPT ![r] = [stage |-> s, status |-> "queued", silent |-> FALSE]]

\* create_run: the runs are numbered in the order of started_at.
CreateRun(r, s) ==
    /\ \A q \in RunIds : Store!Exists(q) <=> q < r
    /\ Cardinality(OfStage(s)) < MaxOf[s]
    /\ Store!CreateRun(r, s)

-----------------------------------------------------------------------------
(* What the steps of a deployment do in the cloud                          *)

Op(do, x) == [do |-> do, what |-> x]

\* A database of its own is a cluster and a user on it; a shared one a user only.
DbResources(mode) == CASE mode = "shared_db"    -> <<DbUser>>
                       [] mode = "flex_cluster" -> <<Cluster, DbUser>>
                       [] OTHER                 -> <<>>

ForEach(do, xs) == [i \in 1..Len(xs) |-> Op(do, xs[i])]

\* A resource is created first and registered next; the secret waits for the next step.
Operations(step, r, mode) ==
    CASE step = "provision_db" ->
            ForEach("create", DbResources(mode)) \o ForEach("register", DbResources(mode))
               \o <<Op("create", Secret)>>
      [] step = "store_secret" -> <<Op("register", Secret)>>
      [] step = "launch_instance" ->
            <<Op("create", Instance(r)), Op("register", Instance(r))>>
               \o (IF DbResources(mode) = <<>> THEN <<>>
                   ELSE <<Op("create", Address(r)), Op("register", Address(r))>>)
      [] OTHER -> <<>>

\* A cluster is never created twice.  The client token of a run yields the same
\* instance again, also after it was terminated; users and secrets are updated.
Possible(op) ==
    op.do = "create" => /\ op.what = Cluster => Cluster \notin cloud
                        /\ op.what.kind = "ec2_instance" => ledger[op.what] # "released"

\* Mutated form of Perform: a row keeps the status it has (an insert that finds it does nothing).
PerformOnInsert(op) ==
    IF op.do = "create" THEN cloud' = cloud \cup {op.what} /\ UNCHANGED ledger
    ELSE ledger' = [ledger EXCEPT ![op.what] = IF @ = "none" THEN "active" ELSE @] /\ UNCHANGED cloud

Perform(op) ==
    IF op.do = "create" THEN cloud' = cloud \cup {op.what} /\ UNCHANGED ledger
    ELSE ledger' = [ledger EXCEPT ![op.what] = "active"] /\ UNCHANGED cloud

-----------------------------------------------------------------------------
(* Teardown                                                                *)

Active == {x \in Resources : ledger[x] = "active"}

\* Teardown by the deploy agent (its run is running at once) or by the reaper.
StartSweep(reaper) ==
    /\ sweep.pc = "off"
    /\ reaper => Active # {}
    /\ \E r \in RunIds :
          /\ CreateRun(r, "teardown")
          /\ sweep' = [NoSweep EXCEPT !.pc = "list", !.run = r, !.reaper = reaper]
    /\ UNCHANGED <<poc, cloud, ledger, faults>>

\* The rows of the POC are read once, and with them the kind of its database.
ListRows ==
    /\ sweep.pc = "list"
    /\ sweep' = [sweep EXCEPT !.pc = "rows", !.todo = Active, !.flex = Cluster \in Active]
    /\ IF sweep.reaper THEN UNCHANGED runs ELSE Store!UpdateRunStep(sweep.run)
    /\ UNCHANGED <<poc, cloud, ledger, faults>>

\* The rows come in the order they were first registered in.
Rank(x)  == 5 * x.run + (CASE x.kind = "atlas_flex_cluster" -> 0 [] x.kind \in {"atlas_db_user", "ec2_instance"} -> 1
                           [] OTHER -> 2)
NextRow  == {x \in sweep.todo : \A y \in sweep.todo : Rank(x) <= Rank(y)}

\* With a cluster among the rows nothing deletes the user by name.
Deletes(x) == IF x = DbUser /\ sweep.flex THEN {} ELSE {x}

DeleteResource ==
    /\ sweep.pc = "rows"
    /\ sweep.row = {}
    /\ \E x \in NextRow :
          /\ cloud' = cloud \ Deletes(x)
          /\ sweep' = [sweep EXCEPT !.todo = @ \ {x}, !.row = {x}]
    /\ UNCHANGED <<runs, poc, ledger, faults>>

ReleaseRow ==
    /\ \E x \in sweep.row : ledger' = [ledger EXCEPT ![x] = "released"]
    /\ sweep' = [sweep EXCEPT !.row = {}]
    /\ UNCHANGED <<runs, poc, cloud, faults>>

\* Mutated form of RowFails: a row that could not be released is counted as released.
RowFailsQuietly ==
    /\ sweep.pc = "rows"
    /\ Fault
    /\ \/ /\ sweep.row = {}
          /\ \E x \in NextRow : sweep' = [sweep EXCEPT !.todo = @ \ {x}]
       \/ sweep.row # {} /\ sweep' = [sweep EXCEPT !.row = {}]
    /\ UNCHANGED <<runs, poc, cloud, ledger>>

\* A row whose deletion or release raises is reported; the others go on.
RowFails ==
    /\ sweep.pc = "rows"
    /\ Fault
    /\ \/ /\ sweep.row = {}
          /\ \E x \in NextRow : sweep' = [sweep EXCEPT !.todo = @ \ {x}, !.errors = TRUE]
       \/ sweep.row # {} /\ sweep' = [sweep EXCEPT !.row = {}, !.errors = TRUE]
    /\ UNCHANGED <<runs, poc, cloud, ledger>>

TornDown ==
    /\ sweep.pc = "rows"
    /\ sweep.todo = {} /\ sweep.row = {}
    /\ poc' = "torn_down"
    /\ sweep' = IF sweep.reaper THEN NoSweep ELSE [sweep EXCEPT !.pc = "record"]
    /\ UNCHANGED <<runs, cloud, ledger, faults>>

\* The end of the step and the end of the run; the reaper records neither.
FinishSweep ==
    /\ sweep.pc = "record"
    /\ Store!MayOccupy(sweep.run, "teardown")
    /\ Store!FinishRun(sweep.run, IF sweep.errors THEN "failed" ELSE "succeeded")
    /\ sweep' = NoSweep
    /\ UNCHANGED <<poc, cloud, ledger, faults>>

\* deploy_teardown reports any other exception as TEARDOWN_FAILED.
SweepRaises ==
    /\ sweep.pc = "rows"
    /\ ~sweep.reaper
    /\ Fault
    /\ Store!FinishRun(sweep.run, "failed")
    /\ sweep' = NoSweep
    /\ UNCHANGED <<poc, cloud, ledger>>

KillSweep ==
    /\ sweep.pc # "off"
    /\ Fault
    /\ sweep' = NoSweep
    /\ UNCHANGED <<runs, poc, cloud, ledger>>

Sweeps ==
    \/ ListRows
    \/ DeleteResource
    \/ ReleaseRow
    \/ TornDown
    \/ FinishSweep

SweepBreaks ==
    \/ RowFails
    \/ SweepRaises
    \/ KillSweep
=============================================================================

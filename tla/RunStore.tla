------------------------------ MODULE RunStore ------------------------------
(***************************************************************************)
(* The runs collection of the platform database, as the metadata module of *)
(* the shared tools reads and writes it: one document per run of one POC.  *)
(*                                                                         *)
(* A document keeps its stage, its status and whether it has gone silent:  *)
(* `silent` is the comparison run_is_stale makes, "nothing has stamped     *)
(* heartbeat_at, updated_at or started_at for more than STALE_AFTER_S".    *)
(* Every write of the module stamps one of the three, so every write       *)
(* clears it; only the passing of time (GoSilent) sets it.  Steps,         *)
(* outputs and repair counters belong to the modules of the stages.        *)
(*                                                                         *)
(* The partial unique index one_running_per_stage is MayOccupy: a write    *)
(* that would leave two active runs of one stage raises DuplicateKeyError  *)
(* and changes nothing.  What the caller then does is the caller's action. *)
(*                                                                         *)
(* Alone, this module lets any client call any operation at any time, so   *)
(* what holds here holds for every agent, whatever it does.                *)
(***************************************************************************)
EXTENDS Naturals

CONSTANTS
    RunIds,     \* the runs one POC may get, numbered in the order of their creation
    Stages      \* the stages of the pipeline

ASSUME StoreAssumption == RunIds \subseteq Nat \ {0} /\ "none" \notin Stages

VARIABLE runs

ActiveStatuses   == {"queued", "running", "waiting_user"}
ReopenableStates == {"queued", "running", "failed"}
TerminalStatuses == {"succeeded", "failed", "cancelled"}
Statuses         == ActiveStatuses \cup TerminalStatuses

\* A run identifier that no document carries yet.
NoDoc  == [stage |-> "none", status |-> "absent", silent |-> FALSE]
RunDoc == [stage : Stages \cup {"none"}, status : Statuses \cup {"absent"}, silent : BOOLEAN]

TypeOK == runs \in [RunIds -> RunDoc]

Exists(r)   == runs[r].status # "absent"
IsActive(r) == runs[r].status \in ActiveStatuses
IsStale(r)  == runs[r].status \in {"queued", "running"} /\ runs[r].silent

\* Mutated form of MayOccupy: the index's partial filter forgets queued runs.
MayOccupyRunningOnly(r, s) ==
    \A q \in RunIds \ {r} : ~(runs[q].status = "running" /\ runs[q].stage = s)

\* The unique index lets r become (or stay) active in stage s.
MayOccupy(r, s) == \A q \in RunIds \ {r} : ~(IsActive(q) /\ runs[q].stage = s)

\* Every write of a document stamps it.
Write(r, status) == runs' = [runs EXCEPT ![r].status = status, ![r].silent = FALSE]

-----------------------------------------------------------------------------
Init == runs = [r \in RunIds |-> NoDoc]

CreateRun(r, s) ==
    /\ ~Exists(r)
    /\ MayOccupy(r, s)
    /\ runs' = [runs EXCEPT ![r] = [stage |-> s, status |-> "queued", silent |-> FALSE]]

\* The first write of a step marks the run running, whatever its status was.
UpdateRunStep(r) ==
    /\ Exists(r)
    /\ MayOccupy(r, runs[r].stage)
    /\ Write(r, "running")

SetRunRunning(r) ==
    /\ Exists(r)
    /\ MayOccupy(r, runs[r].stage)
    /\ Write(r, "running")

TouchRun(r) ==
    /\ Exists(r)
    /\ Write(r, runs[r].status)

\* Mutated form of FinishRun: the BAD_STATUS check is gone, a poller's outcome is stored.
FinishRunAnyStatus(r, status) ==
    /\ Exists(r)
    /\ Write(r, IF status = "cancelled" THEN "timeout" ELSE status)

\* finish_run checks the new status only, never the one the run is in.
FinishRun(r, status) ==
    /\ Exists(r)
    /\ status \in TerminalStatuses
    /\ Write(r, status)

AbandonRun(r) ==
    /\ runs[r].status \in {"queued", "running"}
    /\ Write(r, "failed")

\* Mutated form of ReopenRun: the reopened run takes the slot from its holder.
ReopenRunStealing(r) ==
    /\ runs[r].status \in ReopenableStates
    /\ runs' = [q \in RunIds |->
                  IF q = r THEN [runs[r] EXCEPT !.status = "running", !.silent = FALSE]
                  ELSE IF IsActive(q) /\ runs[q].stage = runs[r].stage
                  THEN [runs[q] EXCEPT !.status = "failed"]
                  ELSE runs[q]]

ReopenRun(r) ==
    /\ runs[r].status \in ReopenableStates
    /\ MayOccupy(r, runs[r].stage)
    /\ Write(r, "running")

\* The golden-data loader cancels every active run of the POC before it reseeds it.
CancelActiveRuns ==
    runs' = [r \in RunIds |-> IF IsActive(r) THEN [runs[r] EXCEPT !.status = "cancelled"]
                              ELSE runs[r]]

GoSilent(r) ==
    /\ Exists(r)
    /\ ~runs[r].silent
    /\ runs' = [runs EXCEPT ![r].silent = TRUE]

RunOperation(r) ==
    \/ \E s \in Stages : CreateRun(r, s)
    \/ UpdateRunStep(r)
    \/ SetRunRunning(r)
    \/ TouchRun(r)
    \/ \E status \in TerminalStatuses : FinishRun(r, status)
    \/ AbandonRun(r)
    \/ ReopenRun(r)
    \/ GoSilent(r)

Next ==
    \/ \E r \in RunIds : RunOperation(r)
    \/ CancelActiveRuns

Spec == Init /\ [][Next]_runs

-----------------------------------------------------------------------------
(* At most one active run per stage (README 5.3 "Concurrency"): no         *)
(* interleaving of creates, steps, finishes, abandonments and reopens ever *)
(* leaves two, although finish_run and update_run_step check no status.    *)
OneActivePerStage ==
    \A p, q \in RunIds : 
        (IsActive(p) /\ IsActive(q) /\ runs[p].stage = runs[q].stage) => p = q

\* The run that holds the slot of stage s.
Holder(s) == IF \E r \in RunIds : IsActive(r) /\ runs[r].stage = s
             THEN CHOOSE r \in RunIds : IsActive(r) /\ runs[r].stage = s
             ELSE 0

Slots == INSTANCE StageSlot WITH Free <- 0, holder <- [s \in Stages |-> Holder(s)]

(* The store implements the abstract slots: a write that would hand a      *)
(* slot from one run to another directly (a reopen that overtakes a newer  *)
(* run, a zombie's step after its run was abandoned) is refused.           *)
ImplementsSlots == Slots!Spec
=============================================================================

-------------------------- MODULE RunStore_proofs --------------------------
(***************************************************************************)
(* What the runs collection guarantees for any number of runs and stages.  *)
(* OneActivePerStage is inductive once the documents are typed: every      *)
(* write either leaves a run inactive or has asked MayOccupy first, and    *)
(* MayOccupy says that no other run of the stage is active.                *)
(***************************************************************************)
EXTENDS RunStore, TLAPS

LEMMA StatusFacts ==
    /\ ActiveStatuses \subseteq Statuses
    /\ ReopenableStates \subseteq Statuses
    /\ TerminalStatuses \subseteq Statuses
    /\ ActiveStatuses \cap TerminalStatuses = {}
    /\ "absent" \notin Statuses
    /\ "running" \in ActiveStatuses /\ "queued" \in ActiveStatuses
    /\ "failed" \in TerminalStatuses /\ "cancelled" \in TerminalStatuses
BY DEF Statuses, ActiveStatuses, ReopenableStates, TerminalStatuses

(***************************************************************************)
(* Typing                                                                  *)
(***************************************************************************)

\* A write keeps the documents typed when the status it stores is one.
LEMMA WriteTyped ==
    ASSUME NEW r \in RunIds, NEW status \in Statuses \cup {"absent"}, TypeOK, Write(r, status)
    PROVE  TypeOK'
BY DEF TypeOK, RunDoc, Write

LEMMA OperationTyped ==
    ASSUME NEW r \in RunIds, TypeOK, RunOperation(r)
    PROVE  TypeOK'
<1>1. ASSUME NEW s \in Stages, CreateRun(r, s) PROVE TypeOK'
  BY <1>1, StatusFacts DEF TypeOK, RunDoc, CreateRun
<1>2. CASE UpdateRunStep(r)
  BY <1>2, WriteTyped, StatusFacts DEF UpdateRunStep
<1>3. CASE SetRunRunning(r)
  BY <1>3, WriteTyped, StatusFacts DEF SetRunRunning
<1>4. CASE TouchRun(r)
  <2>1. runs[r].status \in Statuses \cup {"absent"}
    BY DEF TypeOK, RunDoc
  <2> QED
    BY <1>4, <2>1, WriteTyped DEF TouchRun
<1>5. ASSUME NEW status \in TerminalStatuses, FinishRun(r, status) PROVE TypeOK'
  BY <1>5, WriteTyped, StatusFacts DEF FinishRun
<1>6. CASE AbandonRun(r)
  BY <1>6, WriteTyped, StatusFacts DEF AbandonRun
<1>7. CASE ReopenRun(r)
  BY <1>7, WriteTyped, StatusFacts DEF ReopenRun
<1>8. CASE GoSilent(r)
  BY <1>8 DEF TypeOK, RunDoc, GoSilent
<1> QED
  BY <1>1, <1>2, <1>3, <1>4, <1>5, <1>6, <1>7, <1>8 DEF RunOperation

LEMMA CancelTyped ==
    ASSUME TypeOK, CancelActiveRuns
    PROVE  TypeOK'
BY StatusFacts DEF TypeOK, RunDoc, CancelActiveRuns

(* Every document of the collection keeps a known stage and status.        *)
THEOREM TypeCorrect == Spec => []TypeOK
<1>1. Init => TypeOK
  BY DEF Init, TypeOK, NoDoc, RunDoc
<1>2. TypeOK /\ [Next]_runs => TypeOK'
  <2> SUFFICES ASSUME TypeOK, [Next]_runs PROVE TypeOK'
    OBVIOUS
  <2>1. CASE \E r \in RunIds : RunOperation(r)
    BY <2>1, OperationTyped
  <2>2. CASE CancelActiveRuns
    BY <2>2, CancelTyped
  <2>3. CASE UNCHANGED runs
    BY <2>3 DEF TypeOK
  <2> QED
    BY <2>1, <2>2, <2>3 DEF Next
<1> QED
  BY <1>1, <1>2, PTL DEF Spec

(***************************************************************************)
(* One active run per stage                                                *)
(***************************************************************************)

\* What a step may do to the documents: it leaves the others alone, or it
\* makes no run active that was not.
Activates(r, s) ==
    /\ runs' \in [RunIds -> RunDoc]
    /\ \A q \in RunIds \ {r} : runs'[q] = runs[q]
    /\ runs'[r].stage = s
    /\ IsActive(r) => runs[r].stage = s
    /\ IsActive(r)' => MayOccupy(r, s)

\* A step that makes r active only where the index lets it keeps the slots exclusive.
LEMMA ActivationSafe ==
    ASSUME NEW r \in RunIds, NEW s, TypeOK, OneActivePerStage, Activates(r, s)
    PROVE  OneActivePerStage'
<1> SUFFICES ASSUME NEW p \in RunIds, NEW q \in RunIds,
                    IsActive(p)', IsActive(q)', runs'[p].stage = runs'[q].stage
             PROVE  p = q
  BY DEF OneActivePerStage
<1>1. CASE p # r /\ q # r
  BY <1>1 DEF Activates, OneActivePerStage, IsActive
<1>2. CASE p = r /\ q # r
  BY <1>2 DEF Activates, MayOccupy, IsActive
<1>3. CASE p # r /\ q = r
  BY <1>3 DEF Activates, MayOccupy, IsActive
<1> QED
  BY <1>1, <1>2, <1>3

\* Each operation on one document is such a step.
LEMMA OperationActivates ==
    ASSUME NEW r \in RunIds, TypeOK, OneActivePerStage, RunOperation(r)
    PROVE  \E s : Activates(r, s)
<1> USE DEF Activates, TypeOK
<1>0. TypeOK'
  BY OperationTyped
<1>1. ASSUME NEW s \in Stages, CreateRun(r, s) PROVE Activates(r, s)
  BY <1>0, <1>1, StatusFacts DEF CreateRun, Exists, IsActive
<1>2. CASE UpdateRunStep(r)
  BY <1>0, <1>2 DEF UpdateRunStep, Write, RunDoc
<1>3. CASE SetRunRunning(r)
  BY <1>0, <1>3 DEF SetRunRunning, Write, RunDoc
<1>4. CASE TouchRun(r)
  <2>1. IsActive(r)' => IsActive(r)
    BY <1>4 DEF TouchRun, Write, IsActive, RunDoc
  <2>2. IsActive(r) => MayOccupy(r, runs[r].stage)
    BY DEF OneActivePerStage, MayOccupy
  <2> QED
    BY <1>0, <1>4, <2>1, <2>2 DEF TouchRun, Write, RunDoc
<1>5. ASSUME NEW status \in TerminalStatuses, FinishRun(r, status)
      PROVE  Activates(r, runs[r].stage)
  <2>1. ~IsActive(r)'
    BY <1>5, StatusFacts DEF FinishRun, Write, IsActive, RunDoc
  <2> QED
    BY <1>0, <1>5, <2>1 DEF FinishRun, Write, RunDoc
<1>6. CASE AbandonRun(r)
  <2>1. ~IsActive(r)'
    BY <1>6, StatusFacts DEF AbandonRun, Write, IsActive, RunDoc
  <2> QED
    BY <1>0, <1>6, <2>1 DEF AbandonRun, Write, RunDoc
<1>7. CASE ReopenRun(r)
  BY <1>0, <1>7 DEF ReopenRun, Write, RunDoc
<1>8. CASE GoSilent(r)
  <2>1. IsActive(r)' => IsActive(r)
    BY <1>8 DEF GoSilent, IsActive, RunDoc
  <2>2. IsActive(r) => MayOccupy(r, runs[r].stage)
    BY DEF OneActivePerStage, MayOccupy
  <2> QED
    BY <1>0, <1>8, <2>1, <2>2 DEF GoSilent, RunDoc
<1> QED
  BY <1>1, <1>2, <1>3, <1>4, <1>5, <1>6, <1>7, <1>8 DEF RunOperation

LEMMA NextOneActive ==
    ASSUME TypeOK, OneActivePerStage, [Next]_runs
    PROVE  OneActivePerStage'
<1>1. CASE \E r \in RunIds : RunOperation(r)
  BY <1>1, OperationActivates, ActivationSafe
<1>2. CASE CancelActiveRuns
  BY <1>2 DEF CancelActiveRuns, OneActivePerStage, IsActive, TypeOK, RunDoc, ActiveStatuses
<1>3. CASE UNCHANGED runs
  BY <1>3 DEF OneActivePerStage, IsActive
<1> QED
  BY <1>1, <1>2, <1>3 DEF Next

(* Whatever any client does, two active runs never share a stage: the      *)
(* partial unique index of the runs collection is enough.                  *)
THEOREM SlotExclusive == Spec => []OneActivePerStage
<1>1. Init => OneActivePerStage
  BY DEF Init, OneActivePerStage, IsActive, NoDoc, ActiveStatuses
<1>2. TypeOK /\ OneActivePerStage /\ [Next]_runs => OneActivePerStage'
  BY NextOneActive
<1> QED
  BY <1>1, <1>2, TypeCorrect, PTL DEF Spec

(***************************************************************************)
(* The slots                                                               *)
(***************************************************************************)

\* The holder of a slot is the active run of its stage, before a step ...
LEMMA HolderIs ==
    ASSUME OneActivePerStage, NEW s \in Stages, NEW r \in RunIds, IsActive(r), runs[r].stage = s
    PROVE  Holder(s) = r
BY DEF Holder, OneActivePerStage

LEMMA HolderNone ==
    ASSUME NEW s \in Stages, \A q \in RunIds : ~(IsActive(q) /\ runs[q].stage = s)
    PROVE  Holder(s) = 0
BY DEF Holder

\* ... and after it.
LEMMA HolderIsNext ==
    ASSUME OneActivePerStage', NEW s \in Stages, NEW r \in RunIds, IsActive(r)', runs'[r].stage = s
    PROVE  Holder(s)' = r
BY DEF Holder, OneActivePerStage

LEMMA HolderNoneNext ==
    ASSUME NEW s \in Stages, \A q \in RunIds : ~(IsActive(q)' /\ runs'[q].stage = s)
    PROVE  Holder(s)' = 0
BY DEF Holder

\* A stage whose active runs a step leaves alone keeps its holder.
LEMMA HolderKept ==
    ASSUME OneActivePerStage, OneActivePerStage', NEW s \in Stages,
           \A q \in RunIds : (IsActive(q) /\ runs[q].stage = s) <=> (IsActive(q)' /\ runs'[q].stage = s)
    PROVE  Holder(s)' = Holder(s)
<1>1. CASE \E q \in RunIds : IsActive(q) /\ runs[q].stage = s
  <2>1. PICK q \in RunIds : IsActive(q) /\ runs[q].stage = s
    BY <1>1
  <2> QED
    BY <2>1, HolderIs, HolderIsNext
<1>2. CASE ~\E q \in RunIds : IsActive(q) /\ runs[q].stage = s
  BY <1>2, HolderNone, HolderNoneNext
<1> QED
  BY <1>1, <1>2

\* A step that activates r only where it may is a step of the slots.
LEMMA ActivationIsSlotStep ==
    ASSUME NEW r \in RunIds, NEW s, OneActivePerStage, OneActivePerStage', Activates(r, s)
    PROVE  Slots!Next \/ UNCHANGED [t \in Stages |-> Holder(t)]
<1>1. \A q \in RunIds \ {r} : /\ IsActive(q)' <=> IsActive(q)
                              /\ runs'[q].stage = runs[q].stage
  BY DEF Activates, IsActive
<1>2. ASSUME NEW t \in Stages, t # s PROVE Holder(t)' = Holder(t)
  BY <1>1, <1>2, HolderKept DEF Activates
<1>3. CASE s \in Stages /\ IsActive(r) /\ ~IsActive(r)'
  <2>1. Holder(s) = r
    BY <1>3, HolderIs DEF Activates
  <2>2. \A q \in RunIds : ~(IsActive(q)' /\ runs'[q].stage = s)
    BY <1>1, <1>3 DEF Activates, OneActivePerStage
  <2>3. Holder(s)' = 0
    BY <1>3, <2>2, HolderNoneNext
  <2>4. Slots!Release(s)
    BY <1>2, <1>3, <2>1, <2>3, StoreAssumption DEF Slots!Release
  <2> QED
    BY <1>3, <2>4 DEF Slots!Next
<1>4. CASE s \in Stages /\ ~IsActive(r) /\ IsActive(r)'
  <2>1. Holder(s)' = r
    BY <1>4, HolderIsNext DEF Activates
  <2>2. Holder(s) = 0
    BY <1>4, HolderNone DEF Activates, MayOccupy
  <2>3. Slots!Acquire(s, r)
    BY <1>2, <1>4, <2>1, <2>2 DEF Slots!Acquire
  <2> QED
    BY <1>4, <2>3 DEF Slots!Next
<1>5. CASE s \in Stages /\ (IsActive(r) <=> IsActive(r)')
  <2>1. Holder(s)' = Holder(s)
    BY <1>1, <1>5, HolderKept DEF Activates
  <2> QED
    BY <1>2, <2>1
<1>6. CASE s \notin Stages
  BY <1>2, <1>6
<1> QED
  BY <1>3, <1>4, <1>5, <1>6

LEMMA CancelIsSlotStep ==
    ASSUME TypeOK, CancelActiveRuns
    PROVE  Slots!Next
<1>1. \A q \in RunIds : ~IsActive(q)'
  BY StatusFacts DEF CancelActiveRuns, IsActive, TypeOK, RunDoc
<1>2. \A s \in Stages : Holder(s)' = 0
  BY <1>1, HolderNoneNext
<1>3. Slots!ReleaseAll(Stages)
  BY <1>2 DEF Slots!ReleaseAll
<1> QED
  BY <1>3 DEF Slots!Next

(* The collection implements the abstract slots for any number of runs     *)
(* and stages: seen through its holders, a write takes a free slot, frees  *)
(* one, or changes none.                                                   *)
THEOREM StoreRefinesSlots == Spec => ImplementsSlots
<1>1. Init => Slots!Init
  <2> SUFFICES ASSUME Init PROVE Slots!Init
    OBVIOUS
  <2>1. \A q \in RunIds : ~IsActive(q)
    BY DEF Init, NoDoc, IsActive, ActiveStatuses
  <2>2. \A s \in Stages : Holder(s) = 0
    BY <2>1, HolderNone
  <2> QED
    BY <2>2 DEF Slots!Init
<1>2. TypeOK /\ OneActivePerStage /\ OneActivePerStage' /\ [Next]_runs
          => [Slots!Next]_([s \in Stages |-> Holder(s)])
  <2> SUFFICES ASSUME TypeOK, OneActivePerStage, OneActivePerStage', [Next]_runs
               PROVE  Slots!Next \/ UNCHANGED [s \in Stages |-> Holder(s)]
    OBVIOUS
  <2>1. CASE \E r \in RunIds : RunOperation(r)
    BY <2>1, OperationActivates, ActivationIsSlotStep
  <2>2. CASE CancelActiveRuns
    BY <2>2, CancelIsSlotStep
  <2>3. CASE UNCHANGED runs
    BY <2>3 DEF Holder, IsActive
  <2> QED
    BY <2>1, <2>2, <2>3 DEF Next
<1> QED
  BY <1>1, <1>2, TypeCorrect, SlotExclusive, PTL DEF Spec, ImplementsSlots, Slots!Spec
=============================================================================

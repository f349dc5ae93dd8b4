------------------------------ MODULE CodePlan ------------------------------
(***************************************************************************)
(* The orchestrator's plan for a new code version: which steps call a      *)
(* coder, in which order, and what is carried over from the version that   *)
(* is being repaired.  A pure function of a run's inputs, so a continued   *)
(* run that reuses its stored plan and one that recomputes it agree.       *)
(***************************************************************************)
EXTENDS Naturals, Sequences, Functions

CONSTANTS
    FreshOrder,     \* the build order of a fresh version: contract, seed, backend, frontend
    MismatchOrder,  \* what a contract mismatch rebuilds: contract, backend, frontend
    Components      \* the components of a version: every step but the contract

ASSUME PlanAssumption ==
    /\ {FreshOrder, MismatchOrder} \subseteq Seq(Components \cup {"contract"})
    /\ "contract" \notin Components
    /\ Components \cup {"contract"} \subseteq Range(FreshOrder)

\* Whoever reads the contract is built after it, and a mismatch rebuilds them all.
ASSUME OrderAssumption ==
    /\ \A order \in {FreshOrder, MismatchOrder} : \A i \in DOMAIN order :
          order[i] \in {"backend", "frontend"} => \E k \in 1..(i - 1) : order[k] = "contract"
    /\ {"contract"} \cup (Components \cap {"backend", "frontend"}) \subseteq Range(MismatchOrder)

Mismatch == "CONTRACT_MISMATCH"
Artefacts == Components \cup {"contract"}

\* The steps whose coder reads the contract it finds under the version.
ReadsContract(step) == step \in {"backend", "frontend"}

\* Mutated form of Regenerated: only the backend follows a new contract.
RegeneratedBackend(failure) ==
    IF failure = Mismatch THEN <<"contract", "backend">> ELSE <<failure>>

\* A failure report names a component, or says that backend and frontend disagree.
Regenerated(failure) == IF failure = Mismatch THEN MismatchOrder ELSE <<failure>>

\* What a run of this tool builds, in order.
PlanSteps(tool, failure) == IF tool = "start" THEN FreshOrder ELSE Regenerated(failure)

\* Mutated form of CarriedOver: a repair brings the contract along, not the components.
CarriedOverContract(tool, failure) ==
    IF tool = "start" THEN {} ELSE {"contract"} \ Range(Regenerated(failure))

\* What a repair copies from the version it repairs.
CarriedOver(tool, failure) ==
    IF tool = "start" THEN {} ELSE Artefacts \ Range(Regenerated(failure))
=============================================================================

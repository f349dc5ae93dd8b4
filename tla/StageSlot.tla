----------------------------- MODULE StageSlot -----------------------------
(***************************************************************************)
(* What the platform promises about concurrency, with every document left  *)
(* out: each stage of a POC has one slot.  A run takes a free slot, keeps  *)
(* it for as long as it is active, and frees it; a slot never passes from  *)
(* one run to another in one step.  RunStore implements this module.       *)
(***************************************************************************)
CONSTANTS
    RunIds, Stages,
    Free        \* not a run

VARIABLE holder     \* holder[s]: the run that holds the slot of stage s, or Free

TypeOK == holder \in [Stages -> RunIds \cup {Free}]

Init == holder = [s \in Stages |-> Free]

Acquire(s, r) ==
    /\ holder[s] = Free
    /\ holder' = [holder EXCEPT ![s] = r]

Release(s) ==
    /\ holder[s] # Free
    /\ holder' = [holder EXCEPT ![s] = Free]

\* An operator's reset of a POC frees several slots at once.
ReleaseAll(S) == holder' = [s \in Stages |-> IF s \in S THEN Free ELSE holder[s]]

Next ==
    \/ \E s \in Stages, r \in RunIds : Acquire(s, r)
    \/ \E s \in Stages : Release(s)
    \/ \E S \in SUBSET Stages : ReleaseAll(S)

Spec == Init /\ [][Next]_holder
=============================================================================

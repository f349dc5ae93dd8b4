------------------------------ MODULE MCCodeRun ------------------------------
(* CodeRun with open clients: two runs, two executions, a contract and a   *)
(* backend.                                                                *)
EXTENDS CodeRun, TLC

CONSTANTS e1, e2

MCFreshOrder == <<"contract", "backend">>
MCComponents == {"backend"}
MCExecs      == {e1, e2}
MCSpecs      == {1}
MCSymmetry   == Permutations(MCExecs)
=============================================================================

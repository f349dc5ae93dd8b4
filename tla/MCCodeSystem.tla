---------------------------- MODULE MCCodeSystem ----------------------------
(* CodeSystem for one tab: a contract and a backend, or those two and a    *)
(* frontend.                                                               *)
EXTENDS CodeSystem, TLC

CONSTANTS e1, e2, alice, bob

MCFreshOrder == <<"contract", "backend">>
MCFullOrder  == <<"contract", "backend", "frontend">>
MCComponents == {"backend"}
MCBoth       == {"backend", "frontend"}
MCExecs      == {e1, e2}
MCSpecs      == {1}
MCMailbox    == 1..2
OneTab       == {alice}
TwoTabs      == {alice, bob}
MCSymmetry   == Permutations(MCExecs)
=============================================================================

----------------------------- MODULE MCRunStore -----------------------------
(* RunStore on three runs over two stages: one stage gets two rivals and   *)
(* a bystander may live in the other.                                      *)
EXTENDS RunStore

MCRunIds == 1..3
MCStages == {"code", "deploy"}
=============================================================================

------------------------------ MODULE MCDraft ------------------------------
(* Instances of DraftRun for TLC. *)
EXTENDS DraftRun
=============================================================================

------------------------------ MODULE Interview ------------------------------
(***************************************************************************)
(* What drafting promises its user, with documents and executions left     *)
(* out: before a spec at most MaxRounds - 1 rounds of questions are asked, *)
(* each by a later draft than the one before; a spec is only replaced by   *)
(* that of a later draft; and the questions asked so far are dropped only  *)
(* once a spec has been made after the last of them.  DraftRun implements  *)
(* this module.                                                            *)
(***************************************************************************)
EXTENDS Naturals, Sequences

CONSTANTS
    MaxRounds,      \* the round in which the agent no longer asks
    Drafts          \* the drafts, numbered in the order they were started

VARIABLES
    asked,      \* the drafts that asked the rounds of this interview
    spec        \* the draft that made the current spec, or 0

Init == asked = <<>> /\ spec = 0

Ask(d) ==
    /\ Len(asked) < MaxRounds - 1
    /\ \A i \in 1..Len(asked) : asked[i] < d
    /\ asked' = Append(asked, d)
    /\ UNCHANGED spec

Publish(d) ==
    /\ spec < d
    /\ \A i \in 1..Len(asked) : asked[i] < d
    /\ spec' = d
    /\ UNCHANGED asked

Close ==
    /\ \A i \in 1..Len(asked) : asked[i] < spec
    /\ asked' = <<>>
    /\ UNCHANGED spec

Next == Close \/ \E d \in Drafts : Ask(d) \/ Publish(d)

Spec == Init /\ [][Next]_<<asked, spec>>
=============================================================================

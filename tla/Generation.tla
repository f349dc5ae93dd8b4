----------------------------- MODULE Generation -----------------------------
(***************************************************************************)
(* How a coder makes its component: it asks the model for files, checks    *)
(* the answer, feeds what is wrong back for a bounded number of attempts,  *)
(* scans what it accepts, uploads it file by file and marks its task.  The *)
(* api, seed and frontend agents share this shape; they differ in Attempts,*)
(* in whether an answer is merged onto the one before, and in the compile  *)
(* gate, which only the backend has.                                       *)
(*                                                                         *)
(* CodeRun treats all this as one step of a coder.  Here the executions    *)
(* may work at the same time and share a sandbox: two attempts at one task *)
(* write under one prefix, and the gate's node_modules are cached for all  *)
(* backends with the same dependencies.                                    *)
(***************************************************************************)
EXTENDS Naturals, FiniteSets

CONSTANTS
    Execs,      \* executions of a coder's tool, each for a task of its own
    Components, \* the components they make
    Replies,    \* what the model may answer: a quality for each file it returns
    MaxFaults   \* bound: how many times something outside the code's control fails

\* A file that is required, one that is not, and one of a type or in a directory the
\* guardrail scan passes over (.env.example, dist).
Names     == {"main", "page", "sample"}
Scanned   == {"main", "page"}
Qualities == {"good", "illformed", "untyped", "flagged"}

Contents  == [Names -> Qualities \cup {"none"}]
Nothing   == [f \in Names |-> "none"]

ASSUME GenerationAssumption ==
    /\ "none" \notin Execs
    /\ Components \subseteq {"contract", "backend", "seed", "frontend"}
    /\ Replies \subseteq Contents
    /\ MaxFaults \in Nat

VARIABLES
    gens,       \* gens[e]: where execution e stands
    tasks,      \* tasks[e]: the status of its task
    store,      \* store[c][f]: the file in the store under the prefix of component c
    cache,      \* the node_modules of the dependency set
    faults      \* faults so far

vars == <<gens, tasks, store, cache, faults>>

\* An accepted component that was not type-checked carries gate = "skipped".
Fresh(pc, c, n) == [pc |-> pc, comp |-> c, attempt |-> n, late |-> FALSE, current |-> Nothing,
                    gate |-> "notrun", todo |-> {}]
Idle == Fresh("idle", "none", 0)
Gen  == [pc : {"idle", "call", "gate", "install", "tsc", "scan", "upload", "mark", "fail", "ended"},
         comp : Components \cup {"none"}, attempt : 0..3, late : BOOLEAN, current : Contents,
         gate : {"notrun", "passed", "failed", "skipped"}, todo : SUBSET Names]

Object == [by : Execs \cup {"none"}, quality : Qualities \cup {"none"}]

TypeOK ==
    /\ gens \in [Execs -> Gen]
    /\ tasks \in [Execs -> {"running", "succeeded", "failed"}]
    /\ store \in [Components -> [Names -> Object]]
    /\ cache \in {"none", "partial", "complete"}
    /\ faults \in 0..MaxFaults

Init ==
    /\ gens = [e \in Execs |-> Idle]
    /\ tasks = [e \in Execs |-> "running"]
    /\ store = [c \in Components |-> [f \in Names |-> [by |-> "none", quality |-> "none"]]]
    /\ cache = "none"
    /\ faults = 0

At(e, pc) == gens[e].pc = pc
Go(e, g)  == gens' = [gens EXCEPT ![e] = g]
Fault     == faults < MaxFaults /\ faults' = faults + 1

-----------------------------------------------------------------------------
(* Asking the model                                                        *)

\* The contract and the backend get MAX_ATTEMPTS answers within GEN_BUDGET_S, the
\* other coders two.
Budgeted(c) == c \in {"contract", "backend"}
Attempts(c) == IF Budgeted(c) THEN 3 ELSE 2

Start(e, c) ==
    /\ At(e, "idle")
    /\ Go(e, Fresh("call", c, 1))
    /\ UNCHANGED <<tasks, store, cache, faults>>

\* Mutated form of Merged: the answer replaces the files it is a correction of.
MergedReplacing(g, reply) ==
    [f \in Names |-> IF g.comp = "contract" /\ f # "main" THEN "none" ELSE reply[f]]

\* A backend's answer may hold the changed files only; of a contract's nothing but the
\* contract is looked at.
Merged(g, reply) ==
    [f \in Names |-> CASE g.comp = "backend" /\ reply[f] = "none" -> g.current[f]
                       [] g.comp = "contract" /\ f # "main"       -> "none"
                       [] OTHER                                   -> reply[f]]

\* The static rules: what is required is there, and the content of every file is in order.
Complete(files)   == files["main"] # "none"
WellFormed(files) == \A f \in Names : files[f] # "illformed"
Valid(files)      == Complete(files) /\ WellFormed(files)

\* Mutated form of Rejected: off by one, an attempt too many.
RejectedOnceMore(g) ==
    IF g.attempt > Attempts(g.comp) \/ (Budgeted(g.comp) /\ g.late)
    THEN [g EXCEPT !.pc = "fail"]
    ELSE [g EXCEPT !.pc = "call", !.attempt = @ + 1]

\* What is wrong is fed back, unless the attempts or the time are used up.
Rejected(g) ==
    IF g.attempt = Attempts(g.comp) \/ (Budgeted(g.comp) /\ g.late)
    THEN [g EXCEPT !.pc = "fail"]
    ELSE [g EXCEPT !.pc = "call", !.attempt = @ + 1]

Accepted(g) == [g EXCEPT !.pc = "scan"]

\* Mutated form of Judged: the rules are checked on the answer, not on what it is merged into.
JudgedAlone(g, reply) ==
    LET h == [g EXCEPT !.current = Merged(g, reply)] IN
    IF ~Valid(reply) THEN Rejected(h)
    ELSE IF g.comp = "backend" THEN [h EXCEPT !.pc = "gate"] ELSE Accepted(h)

Judged(g, reply) ==
    LET files == Merged(g, reply)
        h     == [g EXCEPT !.current = files] IN
    IF ~Valid(files) THEN Rejected(h)
    ELSE IF g.comp = "backend" THEN [h EXCEPT !.pc = "gate"] ELSE Accepted(h)

\* One call of the model; it may use up the budget.
Call(e) ==
    /\ At(e, "call")
    /\ \E late \in {gens[e].late, TRUE} :
          LET g == [gens[e] EXCEPT !.late = late] IN
          \/ Go(e, Rejected(g))
          \/ \E reply \in Replies : Go(e, Judged(g, reply))
    /\ UNCHANGED <<tasks, store, cache, faults>>

-----------------------------------------------------------------------------
(* The compile gate                                                        *)

Compiles(files) == \A f \in Names : files[f] # "untyped"

\* Mutated form of Concluded: a compile error is not counted against the attempts.
ConcludedAnew(g, verdict) ==
    LET h == [g EXCEPT !.gate = verdict] IN
    IF verdict = "failed" THEN Rejected([h EXCEPT !.attempt = 1]) ELSE Accepted(h)

\* A gate that could not run does not reject.
Concluded(g, verdict) ==
    LET h == [g EXCEPT !.gate = verdict] IN IF verdict = "failed" THEN Rejected(h) ELSE Accepted(h)

\* A directory node_modules is taken for a finished install.
Installed == cache # "none"

Gate(e) ==
    /\ At(e, "gate")
    /\ Go(e, [gens[e] EXCEPT !.pc = IF Installed THEN "tsc" ELSE "install"])
    /\ UNCHANGED <<tasks, store, cache, faults>>

\* npm has begun to fill the directory.
InstallBegins(e) ==
    /\ At(e, "install")
    /\ cache = "none"
    /\ cache' = "partial"
    /\ UNCHANGED <<gens, tasks, store, faults>>

Install(e) ==
    /\ At(e, "install")
    /\ cache' = "complete"
    /\ Go(e, [gens[e] EXCEPT !.pc = "tsc"])
    /\ UNCHANGED <<tasks, store, faults>>

\* Mutated form of AfterNpmFailed: what npm left behind stays.
AfterNpmFailedKept == cache

AfterNpmFailed == "none"

\* npm failed: the directory goes; the code is blamed if its package.json is at fault.
InstallFails(e) ==
    /\ At(e, "install")
    /\ cache' = AfterNpmFailed
    /\ \/ ~Compiles(gens[e].current) /\ Go(e, Concluded(gens[e], "failed")) /\ UNCHANGED faults
       \/ Fault /\ Go(e, Concluded(gens[e], "skipped"))
    /\ UNCHANGED <<tasks, store>>

\* npm or tsc ran into its timeout: the directory stays as it is.
GateTimesOut(e) ==
    /\ gens[e].pc \in {"install", "tsc"}
    /\ Fault
    /\ Go(e, Concluded(gens[e], "skipped"))
    /\ UNCHANGED <<tasks, store, cache>>

\* tsc reports the errors of the code; without a compiler or with modules missing it
\* reports errors as well.
Verdicts(files) ==
    {IF Compiles(files) THEN "passed" ELSE "failed"} \cup (IF cache = "complete" THEN {} ELSE {"failed"})

Tsc(e) ==
    /\ At(e, "tsc")
    /\ \E verdict \in Verdicts(gens[e].current) : Go(e, Concluded(gens[e], verdict))
    /\ UNCHANGED <<tasks, store, cache, faults>>

-----------------------------------------------------------------------------
(* Scan, upload, mark                                                      *)

FilesOf(g) == {f \in Names : g.current[f] # "none"}

\* A bundle in which a violation is found is refused as a whole, before any of it is
\* uploaded; what is not scanned is uploaded with the rest.
Scan(e) ==
    LET g == gens[e] IN
    /\ At(e, "scan")
    /\ Go(e, IF \E f \in Scanned : g.current[f] = "flagged" THEN [g EXCEPT !.pc = "fail"]
             ELSE [g EXCEPT !.pc = "upload", !.todo = FilesOf(g)])
    /\ UNCHANGED <<tasks, store, cache, faults>>

\* Mutated form of AfterUpload: the task is marked before the last file is stored.
AfterUploadEarly(todo) == IF Cardinality(todo) <= 1 THEN "mark" ELSE "upload"

AfterUpload(todo) == IF todo = {} THEN "mark" ELSE "upload"

Upload(e) ==
    LET g == gens[e] IN
    /\ At(e, "upload")
    /\ \E f \in g.todo :
          /\ store' = [store EXCEPT ![g.comp][f] = [by |-> e, quality |-> g.current[f]]]
          /\ Go(e, [g EXCEPT !.todo = @ \ {f}, !.pc = AfterUpload(g.todo \ {f})])
    /\ UNCHANGED <<tasks, cache, faults>>

\* The inputs cannot be read, the model cannot be reached, the store refuses a file.
ToolFails(e) ==
    /\ gens[e].pc \in {"call", "upload"}
    /\ Fault
    /\ Go(e, [gens[e] EXCEPT !.pc = "fail"])
    /\ UNCHANGED <<tasks, store, cache>>

\* mark_coder_task: a failure to mark is swallowed.
Mark(e) ==
    /\ gens[e].pc \in {"mark", "fail"}
    /\ Go(e, [gens[e] EXCEPT !.pc = "ended"])
    /\ \/ /\ tasks' = [tasks EXCEPT ![e] = IF At(e, "mark") THEN "succeeded" ELSE "failed"]
          /\ UNCHANGED faults
       \/ Fault /\ UNCHANGED tasks
    /\ UNCHANGED <<store, cache>>

\* The tool is killed, at the latest when its own timeout is over.
Vanish(e) ==
    /\ gens[e].pc \notin {"idle", "ended"}
    /\ Fault
    /\ Go(e, [gens[e] EXCEPT !.pc = "ended"])
    /\ UNCHANGED <<tasks, store, cache>>

-----------------------------------------------------------------------------
Works(e) == Call(e) \/ Gate(e) \/ Install(e) \/ Tsc(e) \/ Scan(e) \/ Upload(e) \/ Mark(e)

Next ==
    \E e \in Execs :
        \/ \E c \in Components : Start(e, c)
        \/ Works(e) \/ InstallBegins(e) \/ InstallFails(e) \/ GateTimesOut(e) \/ ToolFails(e) \/ Vanish(e)

Spec == Init /\ [][Next]_vars

(* A coder's tool that has begun goes on unless it is killed. *)
FairSpec == Spec /\ \A e \in Execs : WF_vars(Works(e))

-----------------------------------------------------------------------------
(* Whatever is in the store satisfied the rules, and the guardrails if it  *)
(* is of a kind they scan, as part of the whole component it was uploaded  *)
(* with, and it compiled unless the gate of the execution that uploaded it *)
(* could not run: a file a later answer left alone was checked again with  *)
(* that answer.                                                            *)
StoredIsChecked ==
    \A c \in Components, f \in Names :
        /\ store[c][f].quality # "illformed"
        /\ f \in Scanned => store[c][f].quality # "flagged"
        /\ (c = "backend" /\ store[c][f].quality = "untyped") => gens[store[c][f].by].gate = "skipped"

(* A task that is marked succeeded has its whole component in the store:   *)
(* each of its files is there as it was accepted, or was overwritten by    *)
(* another execution of the same component.                                *)
SucceededIsStored ==
    \A e \in Execs : tasks[e] = "succeeded" =>
        \A f \in FilesOf(gens[e]) :
            LET x == store[gens[e].comp][f] IN
            \/ x = [by |-> e, quality |-> gens[e].current[f]]
            \/ x.by \in Execs \ {e} /\ gens[x.by].comp = gens[e].comp

(* A backend that compiles is refused by the gate only after something was *)
(* cut short, or while another backend is made in the same sandbox: a      *)
(* failed install leaves no directory that a later attempt would take for  *)
(* a finished one, and a gate that could not run does not refuse.          *)
GateBlamesCode ==
    [][\A e \in Execs :
          (At(e, "tsc") /\ gens'[e].pc \in {"call", "fail"} /\ Compiles(gens[e].current))
             => faults > 0 \/ \E d \in Execs \ {e} : gens[d].comp = "backend"]_vars

(* The files a backend has gathered over its attempts are never lost: an   *)
(* answer with the changed files only completes what was there.            *)
FilesKept ==
    [][\A e \in Execs : (gens[e].comp = "backend" /\ gens[e].pc = "call")
          => FilesOf(gens[e]) \subseteq FilesOf(gens'[e])]_vars

(* Every execution ends, whatever the model answers: attempts are counted  *)
(* also when nothing could be read, and the gate never waits for another.  *)
EveryGenerationEnds == \A e \in Execs : ~At(e, "idle") ~> At(e, "ended")
=============================================================================

----------------------------- MODULE CodeSystem -----------------------------
(***************************************************************************)
(* The code stage with the agents that start it: users who talk to the     *)
(* chat agent in one or several browser tabs, the deploy agent that asks   *)
(* for repairs, and the orchestrator that invokes itself.  An invocation   *)
(* is a message to the platform: it is started once, later, or never.      *)
(*                                                                         *)
(* Timely states the assumptions the code makes about time, and no more:   *)
(*   - an invocation that is started at all is started within the window   *)
(*     its caller waits for it (chat: 8 s and 25 s, fires: 25 s), which is *)
(*     shorter than what an LLM call, the 3-minute staleness limit and the *)
(*     15-minute coder ceiling take;                                       *)
(*   - a live execution heartbeats the run it drives at least every 30 s;  *)
(*   - a coder is killed by the 10-minute cap before its task is 15        *)
(*     minutes old.                                                        *)
(* Without it anything may be slow.                                        *)
(***************************************************************************)
EXTENDS CodeRun

CONSTANTS
    Users,      \* the browser tabs that talk to the chat agent about this POC
    Mailbox,    \* bound: the invocations on their way at once
    MaxFresh,   \* bound: the user starts and the deploy agent asks for repairs below it
    Timely,     \* whether the timing assumptions hold
    Ambiguous   \* whether an invoke may raise although its callee was started

ASSUME SystemAssumption ==
    /\ Mailbox \subseteq Nat
    /\ MaxFresh \in 0..MaxRuns
    /\ {Timely, Ambiguous} \subseteq BOOLEAN

VARIABLES
    mail,   \* mail[s]: an invocation that the platform has not started yet
    chat    \* chat[u]: the call of a tab that found a stale run and is about to abandon it

sysVars == <<vars, mail, chat>>

NoMail  == [from |-> "nobody", tool |-> "none", run |-> 0, spec |-> 0, prev |-> 0, failure |-> "none"]
Message == [from : Users \cup {"nobody", "deploy", "self"}, tool : {"none", "start", "repair", "continue"},
            run : RunIds \cup {0}, spec : Specs \cup {0}, prev : Versions \cup {0},
            failure : Components \cup {Mismatch, "none"}]
NoCall  == [call |-> "none", run |-> 0, spec |-> 0]
Call    == [call : {"none", "start", "retry"}, run : RunIds \cup {0}, spec : Specs \cup {0}]

SystemTypeOK ==
    /\ TypeOK
    /\ mail \in [Mailbox -> Message]
    /\ chat \in [Users -> Call]

SystemInit ==
    /\ Init
    /\ mail = [s \in Mailbox |-> NoMail]
    /\ chat = [u \in Users |-> NoCall]

-----------------------------------------------------------------------------
(* Invocations                                                             *)

StartRequest(by, spec) == [NoMail EXCEPT !.from = by, !.tool = "start", !.spec = spec]
ContinueRequest(by, r) == [NoMail EXCEPT !.from = by, !.tool = "continue", !.run = r]
RepairRequest(v, f)    == [NoMail EXCEPT !.from = "deploy", !.tool = "repair", !.prev = v, !.failure = f]

Post(message) ==
    \E s \in Mailbox :
        /\ mail[s] = NoMail
        /\ \A q \in Mailbox : mail[q] = NoMail => s <= q
        /\ mail' = [mail EXCEPT ![s] = message]
Take(s) == mail' = [mail EXCEPT ![s] = NoMail]

Created  == {r \in RunIds : Store!Exists(r)}
Asked    == {s \in Mailbox : mail[s].tool \in {"start", "repair"}}
RoomFor(bound) == Cardinality(Created) + Cardinality(Asked) < bound

\* Every invocation under way has been started and every coder has begun.
AllStarted == (\A s \in Mailbox : mail[s] = NoMail) /\ (\A t \in TaskIds : tasks[t].coder # "fired")
Slow == Timely => AllStarted

Deliver(s, e) ==
    LET m == mail[s] IN
    /\ Take(s)
    /\ \/ m.tool = "start" /\ StartRun(e, m.spec)
       \/ m.tool = "repair" /\ RepairRun(e, m.prev, m.failure)
       \/ m.tool = "continue" /\ ContinueRun(e, m.run)
    /\ UNCHANGED chat

SlotTaken == \E r \in RunIds : Store!IsActive(r)

\* The gate is missing, another run is active, or the run has nothing to continue.
DeliverRefused(s) ==
    LET m == mail[s] IN
    /\ \/ m.tool = "start" /\ (m.spec \notin poc.approved \/ SlotTaken)
       \/ m.tool = "repair" /\ SlotTaken
       \/ /\ m.tool = "continue"
          /\ ~(runs[m.run].status \in Store!ReopenableStates /\ Store!MayOccupy(m.run, "code"))
    /\ Take(s)
    /\ UNCHANGED <<vars, chat>>

\* The connection fails, the workspace does not resolve, or the gateway
\* swallows the request: the caller is told "started" or "failed", no more.
Lose(s) ==
    /\ mail[s] # NoMail
    /\ Fault
    /\ Take(s)
    /\ UNCHANGED <<runs, job, tasks, code, bundle, poc, execs, chat>>

-----------------------------------------------------------------------------
(* The chat agent                                                          *)

\* Mutated form of NewestRun: the newest run that failed, if any did.
NewestFailedRun ==
    LET failed == {r \in Created : runs[r].status = "failed"} IN
    IF failed = {} THEN Cardinality(Created)
    ELSE CHOOSE r \in failed : \A q \in failed : q <= r

\* Runs are numbered in the order of started_at.
NewestRun == Cardinality(Created)

\* Mutated form of Stale: a run is judged by its start, not by its heartbeat.
StaleWhateverBeats(r) == runs[r].status = "running"

\* Mutated form of Stale: only a run that never began is ever given up.
StaleQueued(r) == runs[r].status = "queued" /\ runs[r].silent

Stale(r) == Store!IsStale(r)

\* A failed run that has a plan and a version can be continued in place.  Such a run never
\* has one of the two errors that rule this out: they are returned before a run exists.
Resumable(r) == runs[r].status = "failed" /\ Planned(r)

\* One turn of the chat agent waits for the run it asked for before it ends.
Ready(u) ==
    /\ chat[u] = NoCall
    /\ Timely => \A s \in Mailbox : mail[s].from # u

\* At the bound on runs a call that would ask for one more asks for nothing.
Fire(message) ==
    IF message.tool = "start" /\ ~RoomFor(MaxRuns) THEN UNCHANGED mail ELSE Post(message)

\* _prepare_stage: a live run is reported (nothing changes), a stale one is
\* abandoned in a later step, anything else is decided on at once.
FindStale(u, call, spec) ==
    /\ Ready(u)
    /\ NewestRun # 0
    /\ Stale(NewestRun)
    /\ chat' = [chat EXCEPT ![u] = [call |-> call, run |-> NewestRun, spec |-> spec]]
    /\ UNCHANGED <<vars, mail>>

ChatStart(u, spec) ==
    /\ Ready(u)
    /\ NewestRun # 0 => ~Store!IsActive(NewestRun)
    /\ RoomFor(MaxFresh)
    /\ Fire(StartRequest(u, spec))
    /\ UNCHANGED <<vars, chat>>

ChatRetry(u, spec) ==
    /\ Ready(u)
    /\ NewestRun # 0 => ~Store!IsActive(NewestRun)
    /\ Fire(IF NewestRun # 0 /\ Resumable(NewestRun) THEN ContinueRequest(u, NewestRun)
            ELSE StartRequest(u, spec))
    /\ UNCHANGED <<vars, chat>>

\* abandon_run looks at the status again, not at the heartbeat; then the call
\* goes on with the document it got back.
AbandonAndGoOn(u) ==
    LET r == chat[u].run
        failed == runs[r].status \in {"queued", "running", "failed"}
        same == job[r].tool = "start" /\ job[r].spec = chat[u].spec
    IN  /\ chat[u] # NoCall
        /\ Store!AbandonRun(r) \/ (runs[r].status \notin {"queued", "running"} /\ UNCHANGED runs)
        /\ Fire(IF failed /\ Planned(r) /\ (chat[u].call = "retry" \/ same)
                THEN ContinueRequest(u, r)
                ELSE StartRequest(u, chat[u].spec))
        /\ chat' = [chat EXCEPT ![u] = NoCall]
        /\ UNCHANGED codeVars

Chat(u) ==
    \/ \E spec \in Specs :
          \/ \E call \in {"start", "retry"} : FindStale(u, call, spec)
          \/ ChatStart(u, spec)
          \/ ChatRetry(u, spec)
    \/ AbandonAndGoOn(u)

\* The deploy agent asks for a repair of the version it is deploying, which is
\* or was the current one, and for one at a time.
AskRepair(v, failure) ==
    /\ v <= poc.code
    /\ bundle[v].made
    /\ \A s \in Mailbox : mail[s].from # "deploy"
    /\ RoomFor(MaxFresh)
    /\ Post(RepairRequest(v, failure))
    /\ UNCHANGED <<vars, chat>>

-----------------------------------------------------------------------------
(* Executions, coders and time                                             *)

OnlyCode(A) == A /\ UNCHANGED <<mail, chat>>

HandOverSends(e) ==
    /\ HandOver(e)
    /\ Post(ContinueRequest("self", execs[e].run))
    /\ UNCHANGED chat

\* The invoke raises, and the next execution may have been started all the same.
HandOverRaises(e) ==
    /\ HandOverFails(e)
    /\ UNCHANGED mail \/ (Ambiguous /\ Post(ContinueRequest("self", execs[e].run)))
    /\ UNCHANGED chat

Execution(e) ==
    \/ OnlyCode(Works(e))
    \/ OnlyCode(Breaks(e))
    \/ HandOverSends(e)
    \/ HandOverRaises(e)
    \/ Ambiguous /\ OnlyCode(FireRaises(e, TRUE))

Coder(t) ==
    \/ OnlyCode(CoderReads(t))
    \/ Slow /\ OnlyCode(CoderWrites(t))
    \/ OnlyCode(CoderMarks(t))
    \/ OnlyCode(CoderFails(t))
    \/ OnlyCode(CoderVanishes(t))

Driving(e) == execs[e].pc \notin {"off", "failpoc"}

\* A run goes silent when nobody drives it; nobody beats for a run at all times.
Silence(r) ==
    /\ Slow
    /\ Timely => \A e \in Execs : ~(Driving(e) /\ execs[e].run = r)
    /\ Store!IsActive(r)
    /\ Store!GoSilent(r)
    /\ UNCHANGED <<codeVars, mail, chat>>

Age(t) ==
    /\ Slow
    /\ Timely => tasks[t].coder \in {"gone", "unfired"} /\ \A e \in Execs : At(e, "fire") => execs[e].task # t
    /\ OnlyCode(TaskAges(t))

SystemNext ==
    \/ \E s \in Mailbox : (\E e \in Execs : Deliver(s, e)) \/ DeliverRefused(s) \/ Lose(s)
    \/ \E u \in Users : Chat(u)
    \/ \E v \in Versions, failure \in Components \cup {Mismatch} : AskRepair(v, failure)
    \/ \E spec \in Specs : OnlyCode(Approve(spec))
    \/ \E e \in Execs : Execution(e)
    \/ \E t \in TaskIds : Coder(t) \/ Age(t)
    \/ \E r \in RunIds : Silence(r)

SystemSpec == SystemInit /\ [][SystemNext]_sysVars

-----------------------------------------------------------------------------
(* What the timing assumptions buy                                         *)

(* One execution drives a run at a time, through hand-overs, kills,        *)
(* abandonment and retries: reopen_run accepts a run that is still         *)
(* running, so nothing but the staleness check and the order of invocation *)
(* and exit in handover_node keeps a second one out.                       *)
SingleDriver ==
    \A e, f \in Execs :
        (Driving(e) /\ Driving(f) /\ execs[e].run = execs[f].run) => e = f

(* A coder in flight is re-attached to, never doubled (orch_step_state,    *)
(* docs/06 "Resilient runs"): no step of a run has two coders at work.     *)
OneCoderPerStep ==
    \A t, u \in TaskIds :
        (/\ {tasks[t].coder, tasks[u].coder} \subseteq {"fired", "working", "wrote"}
         /\ tasks[t].run = tasks[u].run /\ tasks[t].step = tasks[u].step)
        => t = u

(* A continued run never fires a finished step again.                      *)
FinishedStepStays ==
    [][\A r \in RunIds, step \in Artefacts :
          (\E t \in TasksOf(r, step) : tasks[t].status = "succeeded")
              => TasksOf(r, step)' = TasksOf(r, step)]_sysVars

(* A run keeps the version it planned with, however often it is continued  *)
(* (orch_load_inputs reuses plan, ctx and code_version).                   *)
VersionFixed == [][\A r \in RunIds : Planned(r) => job'[r].ver = job[r].ver]_sysVars

(* A run that succeeded stays succeeded: finish_run and update_run_step    *)
(* would overwrite it, were anybody left to call them.                     *)
SuccessIsFinal ==
    [][\A r \in RunIds : runs[r].status = "succeeded" => runs'[r].status = "succeeded"]_sysVars

(* Only a run that has fallen silent is abandoned (chat_retry_stage: "A    *)
(* live run is reported as already running; a stale (abandoned) one is     *)
(* marked failed"): abandon_run looks at the status again, never at the    *)
(* heartbeat, so what _prepare_stage saw must still hold when it writes.   *)
OnlySilentAbandoned ==
    [][\A r \in RunIds :
          (\E u \in Users : chat[u].run = r /\ chat'[u] = NoCall /\ runs'[r].status # runs[r].status)
              => runs[r].silent]_sysVars

(* The current code version never goes back to an older one: a failed run  *)
(* that is continued after a newer one published would do that.            *)
CurrentMovesForward == [][poc'.code >= poc.code]_sysVars

(* The published bundle holds every artefact of its plan, built here or    *)
(* carried over (orch_assemble itself does not look).                      *)
PublishedComplete ==
    poc.code # 0 =>
        /\ bundle[poc.code].made
        /\ \A a \in Artefacts : bundle[poc.code].files[a] # Missing

\* Nothing reserves a version before the first object lies under it, so two
\* fresh runs can get the same; what a repair of a shared version carries over
\* may not fit together any more.
Unshared == \A p, q \in RunIds : (Planned(p) /\ job[p].ver = job[q].ver) => p = q

(* Unless runs came to share a version, the components of a published      *)
(* bundle were generated from the contract in that bundle, through         *)
(* re-fired coders and repairs.                                            *)
PublishedCoherent ==
    (poc.code # 0 /\ Unshared) =>
        LET files == bundle[poc.code].files IN
        \A a \in Components : ReadsContract(a) => files[a].con = files["contract"].by

(* Unless runs came to share a version, what is published stays as it is   *)
(* in S3 (decision D9).                                                    *)
PublishedFrozen ==
    [][(poc.code # 0 /\ Unshared) =>
          (code'[poc.code] = code[poc.code] /\ bundle'[poc.code] = bundle[poc.code])]_sysVars

(* Decision D9, "nothing under them is overwritten", between runs: no run  *)
(* replaces an artefact that another run wrote.                            *)
NoOverwriteBetweenRuns ==
    [][\A v \in Versions, a \in Artefacts :
          (code[v][a] # Missing /\ code'[v][a] # code[v][a])
              => tasks[code[v][a].by].run = tasks[code'[v][a].by].run]_sysVars

-----------------------------------------------------------------------------
(* Progress                                                                *)

\* The platform runs what it started, coders finish, time passes, and a user
\* whose build stopped presses Retry.  Time passes for a slow action although
\* invocations keep arriving in between, hence the strong fairness.
PlatformStarts == \E s \in Mailbox : DeliverRefused(s) \/ \E e \in Execs : Deliver(s, e)
ExecutionWorks == \E e \in Execs : OnlyCode(Works(e)) \/ HandOverSends(e)
CoderReports   == \E t \in TaskIds : OnlyCode(CoderReads(t) \/ CoderMarks(t))
CoderDelivers  == \E t \in TaskIds : Slow /\ OnlyCode(CoderWrites(t))
TimePasses     == (\E t \in TaskIds : Age(t)) \/ (\E r \in RunIds : Silence(r))
UserPersists   == \E u \in Users, spec \in Specs :
                     FindStale(u, "retry", spec) \/ ChatRetry(u, spec) \/ AbandonAndGoOn(u)
UserApproves   == \E spec \in Specs : OnlyCode(Approve(spec))

Fairness ==
    /\ WF_sysVars(PlatformStarts) /\ WF_sysVars(ExecutionWorks) /\ WF_sysVars(CoderReports)
    /\ SF_sysVars(CoderDelivers) /\ SF_sysVars(TimePasses)
    /\ WF_sysVars(UserPersists) /\ WF_sysVars(UserApproves)

FairSpec == SystemSpec /\ Fairness

(* As long as the user retries, every fault is survived: some version is   *)
(* published, whatever dies, gets lost or falls silent on the way.         *)
EventuallyPublished == <>(poc.status = "code_ready")
=============================================================================

------------------------------ MODULE DraftRun ------------------------------
(***************************************************************************)
(* The draft agent: it reads the transcript and the questions asked so     *)
(* far, and either asks another round or writes the next version of the    *)
(* spec, publishes it and closes the interview.                            *)
(*                                                                         *)
(* A draft is started by the user, through the chat agent, with or without *)
(* answers to the questions last shown; each start is a run of its own,    *)
(* executed by one session, so an execution goes by the number of its run. *)
(* Between two drafts everything that is remembered is in the object store *)
(* (the pending questions, the versions) and in the POC.                   *)
(*                                                                         *)
(* A run goes silent only after its execution ended: every tool keeps the  *)
(* heartbeat while it works.                                               *)
(***************************************************************************)
EXTENDS Naturals, Sequences, FiniteSets

CONSTANTS
    MaxRuns,    \* bound: the drafts a user may start
    MaxFaults,  \* bound: how many times something outside the code's control fails
    ReadErrors  \* whether the store may fail when the pending questions are read

RunIds   == 1..MaxRuns
Versions == 1..MaxRuns

ASSUME DraftAssumption == MaxRuns \in Nat /\ MaxFaults \in Nat /\ ReadErrors \in BOOLEAN

VARIABLES
    runs,       \* the runs collection
    outputs,    \* outputs[r]: what run r was finished with
    poc,        \* the status of the POC
    current,    \* current_versions.spec, or 0
    pending,    \* the rounds in the pending clarifications file; a tombstone holds none
    files,      \* files[v][f]: the run that wrote file f of spec version v, or 0
    held,       \* held[v]: the rounds in the clarifications file of version v
    execs,      \* execs[r]: the execution of run r
    faults      \* faults so far

objects == <<files, held>>
vars    == <<runs, outputs, poc, current, pending, files, held, execs, faults>>

Store == INSTANCE RunStore WITH Stages <- {"draft"}

MAX_CLARIFICATION_ROUNDS == 3

\* The files of a version, in the order they are written.
SpecFiles == <<"poc_spec", "schema_design", "query_patterns", "clarifications">>
FileNames == {SpecFiles[i] : i \in 1..4}

\* A round of questions: the run that asked it, and whether it was answered.
Round(r)   == [asked |-> r, answered |-> FALSE]
RoundLists == UNION {[1..n -> [asked : RunIds, answered : BOOLEAN]] : n \in 0..MAX_CLARIFICATION_ROUNDS - 1}

Off  == [pc |-> "off", rounds |-> <<>>, answers |-> 0, force |-> FALSE, version |-> 0,
         file |-> 1, status |-> "failed"]
Exec == [pc : {"off", "start", "load", "analyze", "ask", "version", "write", "publish", "ready",
               "close", "finish"},
         rounds : RoundLists, answers : 0..MAX_CLARIFICATION_ROUNDS - 1, force : BOOLEAN,
         version : Versions \cup {0}, file : 1..5, status : {"succeeded", "failed"}]

TypeOK ==
    /\ Store!TypeOK
    /\ outputs \in [RunIds -> [kind : {"none", "questions", "spec"},
                               round : 0..MAX_CLARIFICATION_ROUNDS - 1]]
    /\ poc \in {"created", "drafting", "spec_ready"}
    /\ current \in Versions \cup {0}
    /\ pending \in RoundLists
    /\ files \in [Versions -> [FileNames -> RunIds \cup {0}]]
    /\ held \in [Versions -> RoundLists]
    /\ execs \in [RunIds -> Exec]
    /\ faults \in 0..MaxFaults

Init ==
    /\ Store!Init
    /\ outputs = [r \in RunIds |-> [kind |-> "none", round |-> 0]]
    /\ poc = "created"
    /\ current = 0
    /\ pending = <<>>
    /\ files = [v \in Versions |-> [f \in FileNames |-> 0]]
    /\ held = [v \in Versions |-> <<>>]
    /\ execs = [r \in RunIds |-> Off]
    /\ faults = 0

At(r, pc)    == execs[r].pc = pc
Go(r, e)     == execs' = [execs EXCEPT ![r] = e]
Goto(r, pc)  == Go(r, [execs[r] EXCEPT !.pc = pc])
Fault        == faults < MaxFaults /\ faults' = faults + 1

-----------------------------------------------------------------------------
(* The user                                                                *)

SpecOf(v) == IF v = 0 THEN 0 ELSE files[v]["poc_spec"]

\* The questions last shown, unless a spec was made since.
Shown(q) ==
    /\ outputs[q].kind = "questions"
    /\ \A p \in RunIds : outputs[p].kind = "questions" => p <= q
    /\ SpecOf(current) < q

\* chat_call_draft, and draft_start_run up to create_run: an active run refuses it.
StartDraft(r, answers, force) ==
    /\ \A q \in RunIds : Store!Exists(q) <=> q < r
    /\ answers # 0 => \E q \in RunIds : Shown(q) /\ answers = outputs[q].round
    /\ Store!CreateRun(r, "draft")
    /\ Go(r, [Off EXCEPT !.pc = "start", !.answers = answers, !.force = force])
    /\ UNCHANGED <<outputs, poc, current, pending, objects, faults>>

\* chat_retry_stage on a stale draft: it is not continued, the next one starts afresh.
RetryDraft(r) ==
    /\ Store!IsStale(r)
    /\ Store!AbandonRun(r)
    /\ UNCHANGED <<outputs, poc, current, pending, objects, execs, faults>>

\* Nothing stamps a run that no execution works on.
Silence(r) ==
    /\ At(r, "off")
    /\ Store!IsActive(r)
    /\ Store!GoSilent(r)
    /\ UNCHANGED <<outputs, poc, current, pending, objects, execs, faults>>

-----------------------------------------------------------------------------
(* The nodes of the graph                                                  *)

StartRun(r) ==
    /\ At(r, "start")
    /\ Store!SetRunRunning(r)
    /\ poc' = "drafting"
    /\ Goto(r, "load")
    /\ UNCHANGED <<outputs, current, pending, objects, faults>>

\* Mutated form of FoldAnswers: what was not answered is dropped, to be asked again.
FoldAnswersDropOpen(rounds, n) ==
    LET Answered(x) == x.answered IN
    SelectSeq([i \in 1..Len(rounds) |-> [rounds[i] EXCEPT !.answered = @ \/ i = n]], Answered)

\* Mutated form of FoldAnswers: answers to all but the first round are lost.
FoldAnswersOfFirst(rounds, n) ==
    [i \in 1..Len(rounds) |-> [rounds[i] EXCEPT !.answered = @ \/ (i = n /\ i = 1)]]

\* An answer names its question by the number of the round.
FoldAnswers(rounds, n) ==
    [i \in 1..Len(rounds) |-> [rounds[i] EXCEPT !.answered = @ \/ i = n]]

\* Any error of the store is taken for a file that is not there.
ReadPending == {pending} \cup (IF ReadErrors /\ faults < MaxFaults THEN {<<>>} ELSE {})

Load(r) ==
    /\ At(r, "load")
    /\ \E rounds \in ReadPending :
          /\ Go(r, [execs[r] EXCEPT !.pc = "analyze", !.rounds = FoldAnswers(rounds, execs[r].answers)])
          /\ faults' = IF rounds = pending THEN faults ELSE faults + 1
    /\ UNCHANGED <<runs, outputs, poc, current, pending, objects>>

\* Mutated form of Decide: off by one, a round too many is asked.
DecideOneMore(e, missing) ==
    IF missing /\ ~e.force /\ Len(e.rounds) < MAX_CLARIFICATION_ROUNDS THEN "ask" ELSE "version"

\* Mutated form of Decide: the agent asks for as long as something is missing.
DecideUnbounded(e, missing) == IF missing /\ ~e.force THEN "ask" ELSE "version"

\* Questions are asked while something is missing, in the first rounds only.
Decide(e, missing) ==
    IF missing /\ ~e.force /\ Len(e.rounds) + 1 < MAX_CLARIFICATION_ROUNDS THEN "ask" ELSE "version"

Analyze(r) ==
    /\ At(r, "analyze")
    /\ \E missing \in BOOLEAN : Goto(r, Decide(execs[r], missing))
    /\ UNCHANGED <<runs, outputs, poc, current, pending, objects, faults>>

\* Mutated form of WithQuestions: the file holds the new round only.
WithQuestionsOnly(rounds, r) == <<Round(r)>>

WithQuestions(rounds, r) == Append(rounds, Round(r))

Questions(r) ==
    /\ At(r, "ask")
    /\ pending' = WithQuestions(execs[r].rounds, r)
    /\ Go(r, [execs[r] EXCEPT !.pc = "finish", !.status = "succeeded"])
    /\ UNCHANGED <<runs, outputs, poc, current, objects, faults>>

\* next_version: one more than the newest version any file was written under.
Written == {v \in Versions : \E f \in FileNames : files[v][f] # 0}

IsNext(v) == (\A w \in Written : w < v) /\ (v = 1 \/ v - 1 \in Written)

Generate(r) ==
    /\ At(r, "version")
    /\ \E v \in Versions :
          /\ IsNext(v)
          /\ Go(r, [execs[r] EXCEPT !.pc = "write", !.version = v])
    /\ UNCHANGED <<runs, outputs, poc, current, pending, objects, faults>>

\* Mutated form of AfterFile: the spec is published before its clarifications are written.
AfterFileEarly(e) == IF e.file = 3 THEN "publish" ELSE "write"

AfterFile(e) == IF e.file = 4 THEN "publish" ELSE "write"

WriteFile(r) ==
    LET e == execs[r]
        f == SpecFiles[e.file] IN
    /\ At(r, "write")
    /\ files' = [files EXCEPT ![e.version][f] = r]
    /\ held' = IF f = "clarifications" THEN [held EXCEPT ![e.version] = e.rounds] ELSE held
    /\ Go(r, [e EXCEPT !.pc = AfterFile(e), !.file = @ + 1])
    /\ UNCHANGED <<runs, outputs, poc, current, pending, faults>>

Publish(r) ==
    /\ At(r, "publish")
    /\ current' = execs[r].version
    /\ Goto(r, "ready")
    /\ UNCHANGED <<runs, outputs, poc, pending, objects, faults>>

SpecReady(r) ==
    /\ At(r, "ready")
    /\ poc' = "spec_ready"
    /\ Goto(r, "close")
    /\ UNCHANGED <<runs, outputs, current, pending, objects, faults>>

\* The tombstone; a failure to write it is passed over.
Tombstone(r) ==
    /\ At(r, "close")
    /\ \/ /\ pending' = <<>>
          /\ UNCHANGED faults
       \/ Fault /\ UNCHANGED pending
    /\ Go(r, [execs[r] EXCEPT !.pc = "finish", !.status = "succeeded"])
    /\ UNCHANGED <<runs, outputs, poc, current, objects>>

\* What a finished run tells its caller.
Outcome(e) ==
    CASE e.status = "failed" -> [kind |-> "none", round |-> 0]
      [] e.version # 0       -> [kind |-> "spec", round |-> 0]
      [] OTHER               -> [kind |-> "questions", round |-> Len(e.rounds) + 1]

Finish(r) ==
    /\ At(r, "finish")
    /\ Store!FinishRun(r, execs[r].status)
    /\ outputs' = [outputs EXCEPT ![r] = Outcome(execs[r])]
    /\ Go(r, Off)
    /\ UNCHANGED <<poc, current, pending, objects, faults>>

\* A tool that raises, or a model that twice answers with nothing usable, fails the run.
NodeFails(r) ==
    /\ execs[r].pc \in {"load", "analyze", "ask", "version", "write", "publish", "ready"}
    /\ Fault
    /\ Go(r, [execs[r] EXCEPT !.pc = "finish", !.status = "failed"])
    /\ UNCHANGED <<runs, outputs, poc, current, pending, objects>>

\* The session is killed, or it cannot finish its run, or not even set it running:
\* the run stays as it is.
Die(r) ==
    /\ ~At(r, "off")
    /\ Fault
    /\ Go(r, Off)
    /\ UNCHANGED <<runs, outputs, poc, current, pending, objects>>

-----------------------------------------------------------------------------
UserStarts == \E r \in RunIds, answers \in 0..MAX_CLARIFICATION_ROUNDS - 1, force \in BOOLEAN :
                  StartDraft(r, answers, force)

Works(r) == StartRun(r) \/ Load(r) \/ Analyze(r) \/ Questions(r) \/ Generate(r) \/ WriteFile(r)
               \/ Publish(r) \/ SpecReady(r) \/ Tombstone(r) \/ Finish(r)

Next ==
    \/ UserStarts
    \/ \E r \in RunIds : RetryDraft(r) \/ Silence(r) \/ Works(r) \/ NodeFails(r) \/ Die(r)

Spec == Init /\ [][Next]_vars

(* Executions go on unless they are killed; time passes; and the user      *)
(* comes back, with or without answers, and retries a draft that is stuck. *)
Fairness ==
    /\ WF_vars(UserStarts)
    /\ \A r \in RunIds : WF_vars(Works(r)) /\ WF_vars(Silence(r)) /\ WF_vars(RetryDraft(r))

FairSpec == Spec /\ Fairness

-----------------------------------------------------------------------------
(* The current spec is complete: its four files are there and one draft    *)
(* wrote them all, whatever drafts failed or died half-way under the same  *)
(* or another version (draft_generate allocates the version before it      *)
(* asks the model, and draft_finalize publishes it several tools later).   *)
CurrentSpecComplete ==
    /\ poc = "spec_ready" => current # 0
    /\ current # 0 => \E r \in RunIds : \A f \in FileNames : files[current][f] = r

\* Every round of `rounds` is in `kept`, answered there if it is answered in `rounds`.
Covers(kept, rounds) ==
    \A i \in 1..Len(rounds) :
        /\ i <= Len(kept)
        /\ kept[i].asked = rounds[i].asked
        /\ rounds[i].answered => kept[i].answered

(* A spec is made from the whole interview: when a version becomes         *)
(* current, its clarifications file holds every round still pending, with  *)
(* the answers recorded there and the one this draft was started with; the *)
(* rounds were loaded long before, by an earlier tool of the same run.     *)
SpecFromInterview ==
    [][current' # current =>
          LET kept == held'[current']
              r    == files'[current']["poc_spec"] IN
          /\ Covers(kept, pending)
          /\ \A i \in 1..Len(kept) : i = execs[r].answers => kept[i].answered]_vars

(* The pending file only gains rounds and answers until a spec was made    *)
(* from it: draft_questions overwrites the whole file with what draft_load *)
(* read, and neither a failed nor a killed draft loses what was recorded.  *)
AnswersKept ==
    [][pending' # <<>> => Covers(pending', pending)]_pending

Promise == INSTANCE Interview WITH
    MaxRounds <- MAX_CLARIFICATION_ROUNDS,
    Drafts    <- RunIds,
    asked     <- [i \in 1..Len(pending) |-> pending[i].asked],
    spec      <- SpecOf(current)

(* Over all its runs the agent keeps what an interview promises: never     *)
(* more rounds than MAX_CLARIFICATION_ROUNDS allows, no spec of an earlier *)
(* draft in place of a later one's, no question dropped before a spec was  *)
(* made after it.                                                          *)
ImplementsInterview == Promise!Spec

(* A user who keeps coming back gets a spec, even if every analysis finds  *)
(* something missing and nothing is ever answered: the interview is        *)
(* bounded, and a draft that dies blocks the slot only until it is stale.  *)
SpecEventually == <>(current # 0)
=============================================================================

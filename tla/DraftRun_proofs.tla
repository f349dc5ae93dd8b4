--------------------------- MODULE DraftRun_proofs ---------------------------
(***************************************************************************)
(* What the draft agent guarantees for any number of drafts and faults.    *)
(*                                                                         *)
(* The argument is that a draft at work is alone: its run is active and    *)
(* never silent, so the slot keeps every other draft out and nobody can    *)
(* abandon it.  The version it allocated is above every version written,   *)
(* the current one included, and only it writes there until it publishes;  *)
(* and what it loaded of the interview stays what the file holds until it  *)
(* overwrites the file itself.                                             *)
(***************************************************************************)
EXTENDS DraftRun, SequenceTheorems, TLAPS

Busy(r) == ~At(r, "off")

\* A draft at work holds the one slot there is.
Solo ==
    /\ \A q \in RunIds : Store!Exists(q) => runs[q].stage = "draft"
    /\ \A p, q \in RunIds : Store!IsActive(p) /\ Store!IsActive(q) => p = q
    /\ \A r \in RunIds : Busy(r) => Store!IsActive(r) /\ ~runs[r].silent

\* A draft that writes has a version of its own, in which it wrote every file so far.
Writes(r) ==
    LET e == execs[r] IN
    /\ e.pc \in {"start", "load", "analyze", "version"} => e.file = 1
    /\ e.pc \in {"write", "publish", "ready", "close"} => e.version \in Versions
    /\ e.pc \in {"write", "publish"} => current < e.version
    /\ e.pc = "write"   => /\ e.file \in 1..4
                           /\ \A i \in 1..4 : i < e.file => files[e.version][SpecFiles[i]] = r
    /\ e.pc = "publish" => \A f \in FileNames : files[e.version][f] = r
    /\ e.pc = "ready"   => current # 0

\* A draft that asks, or has asked, had a round left.
Asks(r) ==
    LET e == execs[r] IN
    \/ e.pc = "ask"
    \/ e.pc = "finish" /\ e.status = "succeeded" /\ e.version = 0
    => Len(e.rounds) < MAX_CLARIFICATION_ROUNDS - 1

IInv == TypeOK /\ Solo /\ CurrentSpecComplete /\ \A r \in RunIds : Writes(r) /\ Asks(r)

(***************************************************************************)
(* Lists of rounds                                                         *)
(***************************************************************************)

Rounds == [asked : RunIds, answered : BOOLEAN]

LEMMA RoundListFacts ==
    ASSUME NEW s \in RoundLists
    PROVE  /\ s \in Seq(Rounds)
           /\ Len(s) \in 0..2
           /\ \A i \in 1..Len(s) : s[i] \in Rounds
<1>1. PICK n \in 0..2 : s \in [1..n -> Rounds]
  BY DEF RoundLists, Rounds, MAX_CLARIFICATION_ROUNDS
<1>2. s \in Seq(Rounds) /\ Len(s) = n
  BY <1>1
<1> QED
  BY <1>1, <1>2

LEMMA RoundListMember ==
    ASSUME NEW s \in Seq(Rounds), Len(s) <= 2
    PROVE  s \in RoundLists
<1>1. Len(s) \in Nat /\ s \in [1..Len(s) -> Rounds]
  BY LenProperties
<1>2. Len(s) \in 0..2
  BY <1>1
<1>3. 0..MAX_CLARIFICATION_ROUNDS - 1 = 0..2
  BY DEF MAX_CLARIFICATION_ROUNDS
<1>4. s \in UNION {[1..n -> Rounds] : n \in 0..2}
  BY <1>1, <1>2, Zenon
<1> QED
  BY <1>3, <1>4, Zenon DEF RoundLists, Rounds

LEMMA EmptyRoundList == <<>> \in RoundLists /\ Len(<<>>) = 0
<1>1. <<>> \in Seq(Rounds) /\ Len(<<>>) = 0 /\ Len(<<>>) <= 2
  OBVIOUS
<1> QED
  BY <1>1, RoundListMember, Zenon

LEMMA WithQuestionsFacts ==
    ASSUME NEW s \in RoundLists, NEW r \in RunIds, Len(s) < 2
    PROVE  /\ WithQuestions(s, r) \in RoundLists
           /\ Len(WithQuestions(s, r)) = Len(s) + 1
           /\ \A i \in 1..Len(s) : WithQuestions(s, r)[i] = s[i]
           /\ WithQuestions(s, r)[Len(s) + 1] = Round(r)
<1>1. s \in Seq(Rounds) /\ Round(r) \in Rounds
  BY RoundListFacts DEF Round, Rounds
<1>2. /\ Append(s, Round(r)) \in Seq(Rounds)
      /\ Len(Append(s, Round(r))) = Len(s) + 1
      /\ \A i \in 1..Len(s) : Append(s, Round(r))[i] = s[i]
      /\ Append(s, Round(r))[Len(s) + 1] = Round(r)
  BY <1>1
<1>3. Len(Append(s, Round(r))) <= 2
  BY <1>2, RoundListFacts
<1>4. Append(s, Round(r)) \in RoundLists
  BY <1>2, <1>3, RoundListMember, Zenon
<1> QED
  BY <1>2, <1>4, Zenon DEF WithQuestions

LEMMA FoldAnswersFacts ==
    ASSUME NEW s \in RoundLists, NEW n
    PROVE  /\ FoldAnswers(s, n) \in RoundLists
           /\ Len(FoldAnswers(s, n)) = Len(s)
           /\ \A i \in 1..Len(s) :
                 /\ FoldAnswers(s, n)[i].asked = s[i].asked
                 /\ FoldAnswers(s, n)[i].answered = (s[i].answered \/ i = n)
<1> DEFINE t == FoldAnswers(s, n)
<1>1. s \in Seq(Rounds) /\ Len(s) \in 0..2 /\ \A i \in 1..Len(s) : s[i] \in Rounds
  BY RoundListFacts
<1>2. ASSUME NEW i \in 1..Len(s)
      PROVE  t[i] \in Rounds /\ t[i].asked = s[i].asked /\ t[i].answered = (s[i].answered \/ i = n)
  <2>1. t[i] = [s[i] EXCEPT !.answered = @ \/ i = n]
    BY DEF FoldAnswers
  <2>2. s[i] \in Rounds
    BY <1>1
  <2>3. t[i].asked = s[i].asked /\ t[i].answered = (s[i].answered \/ i = n)
    BY <2>1, <2>2, Zenon DEF Rounds
  <2>4. t[i] \in Rounds
    BY <2>1, <2>2, Zenon DEF Rounds
  <2> QED
    BY <2>3, <2>4
<1>3. t \in Seq(Rounds) /\ Len(t) = Len(s)
  BY <1>1, <1>2 DEF FoldAnswers
<1> QED
  BY <1>1, <1>2, <1>3, RoundListMember

(***************************************************************************)
(* The type and the lone draft                                             *)
(***************************************************************************)

LEMMA InitIInv == Init => IInv
<1> SUFFICES ASSUME Init PROVE IInv
  OBVIOUS
<1>1. Off \in Exec
  BY EmptyRoundList DEF Off, Exec, MAX_CLARIFICATION_ROUNDS
<1>2. TypeOK
  BY <1>1, EmptyRoundList, DraftAssumption
     DEF Init, TypeOK, Store!Init, Store!TypeOK, Store!NoDoc, Store!RunDoc, Store!Statuses,
         MAX_CLARIFICATION_ROUNDS
<1>3. Solo
  BY DEF Init, Solo, Store!Init, Store!NoDoc, Store!Exists, Store!IsActive,
         Store!ActiveStatuses, Busy, At, Off
<1>4. CurrentSpecComplete
  BY DEF Init, CurrentSpecComplete
<1>5. \A r \in RunIds : Writes(r) /\ Asks(r)
  BY DEF Init, Writes, Asks, Off
<1> QED
  BY <1>2, <1>3, <1>4, <1>5 DEF IInv

LEMMA Alone ==
    ASSUME Solo, NEW r \in RunIds, NEW q \in RunIds, Busy(r), q # r
    PROVE  execs[q].pc = "off"
BY DEF Solo, Busy, At

\* The step of an execution at work, from r's record to h.
Moves(r, h) ==
    /\ Busy(r)
    /\ h \in Exec
    /\ execs' = [execs EXCEPT ![r] = h]

LEMMA MovesFacts ==
    ASSUME TypeOK, Solo, NEW r \in RunIds, NEW h, Moves(r, h)
    PROVE  /\ execs' \in [RunIds -> Exec]
           /\ execs'[r] = h
           /\ \A q \in RunIds \ {r} : execs'[q] = execs[q] /\ execs'[q].pc = "off"
<1>1. \A q \in RunIds \ {r} : execs[q].pc = "off"
  BY Alone DEF Moves
<1> QED
  BY <1>1 DEF Moves, TypeOK

\* A step that leaves the runs alone keeps the slot as it is.
LEMMA MovesSolo ==
    ASSUME TypeOK, Solo, NEW r \in RunIds, NEW h, Moves(r, h), UNCHANGED runs
    PROVE  Solo' /\ Store!TypeOK'
<1>1. \A q \in RunIds : Busy(q)' => Busy(q)
  BY MovesFacts DEF Moves, Busy, At
<1> QED
  BY <1>1 DEF Solo, TypeOK, Store!TypeOK, Store!Exists, Store!IsActive

\* The records of the others need no attention: they are off.
LEMMA OthersRest ==
    ASSUME TypeOK, Solo, NEW r \in RunIds, NEW h, Moves(r, h), (Writes(r) /\ Asks(r))'
    PROVE  \A q \in RunIds : (Writes(q) /\ Asks(q))'
<1>1. ASSUME NEW q \in RunIds, q # r PROVE (Writes(q) /\ Asks(q))'
  <2>1. execs'[q].pc = "off"
    BY <1>1, MovesFacts
  <2> QED
    BY <2>1 DEF Writes, Asks
<1> QED
  BY <1>1

\* A step that leaves the runs, the specs and the POC alone.
LEMMA MovesKeep ==
    ASSUME IInv, NEW r \in RunIds, NEW h, Moves(r, h),
           UNCHANGED <<runs, outputs, poc, current, objects>>,
           pending' \in RoundLists, faults' \in 0..MaxFaults, (Writes(r) /\ Asks(r))'
    PROVE  IInv'
<1>1. Solo' /\ Store!TypeOK'
  BY MovesSolo DEF IInv
<1>2. TypeOK'
  BY <1>1, MovesFacts DEF IInv, TypeOK, objects
<1>3. CurrentSpecComplete'
  BY DEF IInv, CurrentSpecComplete, objects
<1> QED
  BY <1>1, <1>2, <1>3, OthersRest DEF IInv

LEMMA FaultTyped == ASSUME TypeOK, Fault PROVE faults' \in 0..MaxFaults
BY DraftAssumption DEF TypeOK, Fault

\* A failed or a killed execution is no longer at a node.
LEMMA EndsKeep ==
    ASSUME IInv, NEW r \in RunIds, NEW h, Moves(r, h),
           h.pc = "off" \/ (h.pc = "finish" /\ h.status = "failed"),
           UNCHANGED <<runs, outputs, poc, current, pending, objects>>, faults' \in 0..MaxFaults
    PROVE  IInv'
<1>1. execs'[r] = h
  BY MovesFacts DEF IInv
<1>2. (Writes(r) /\ Asks(r))'
  BY <1>1 DEF Writes, Asks
<1>3. pending' \in RoundLists
  BY DEF IInv, TypeOK
<1> QED
  BY <1>2, <1>3, MovesKeep

LEMMA OffTyped == Off \in Exec
BY EmptyRoundList DEF Off, Exec, MAX_CLARIFICATION_ROUNDS

(***************************************************************************)
(* The user                                                                *)
(***************************************************************************)

LEMMA StartKeeps ==
    ASSUME IInv, NEW r \in RunIds, NEW answers \in 0..MAX_CLARIFICATION_ROUNDS - 1,
           NEW force \in BOOLEAN, StartDraft(r, answers, force)
    PROVE  IInv'
<1> DEFINE h == [Off EXCEPT !.pc = "start", !.answers = answers, !.force = force]
<1>1. h \in Exec /\ h.pc = "start" /\ h.file = 1
  BY OffTyped DEF Exec, Off
<1>2. /\ ~Store!Exists(r)
      /\ \A q \in RunIds : ~Store!IsActive(q)
      /\ runs' = [runs EXCEPT ![r] = [stage |-> "draft", status |-> "queued", silent |-> FALSE]]
  BY DEF IInv, Solo, StartDraft, Store!CreateRun, Store!MayOccupy, Store!Exists, Store!IsActive,
         Store!ActiveStatuses
<1>3. execs' = [execs EXCEPT ![r] = h]
  BY DEF StartDraft, Go
<1>4. \A q \in RunIds : ~Busy(q)
  BY <1>2 DEF IInv, Solo
<1>5. TypeOK'
  <2>1. Store!TypeOK'
    BY <1>2 DEF IInv, TypeOK, Store!TypeOK, Store!RunDoc, Store!Statuses, Store!ActiveStatuses
  <2> QED
    BY <2>1, <1>1, <1>3 DEF IInv, TypeOK, StartDraft, objects
<1>6. Solo'
  <2>1. \A q \in RunIds : Busy(q)' => q = r
    BY <1>3, <1>4 DEF Busy, At
  <2>2. \A q \in RunIds : Store!IsActive(q)' => q = r
    BY <1>2 DEF Store!IsActive
  <2>3. Store!IsActive(r)' /\ ~runs'[r].silent /\ runs'[r].stage = "draft"
    BY <1>2 DEF Store!IsActive, Store!ActiveStatuses, IInv, TypeOK, Store!TypeOK
  <2>4. \A q \in RunIds : q # r => runs'[q] = runs[q]
    BY <1>2 DEF IInv, TypeOK, Store!TypeOK
  <2> QED
    BY <2>1, <2>2, <2>3, <2>4 DEF IInv, Solo, Store!Exists
<1>7. CurrentSpecComplete'
  BY DEF IInv, CurrentSpecComplete, StartDraft, objects
<1>8. ASSUME NEW q \in RunIds PROVE (Writes(q) /\ Asks(q))'
  <2>1. execs'[q].pc \in {"off", "start"}
    BY <1>1, <1>3, <1>4 DEF Busy, At, IInv, TypeOK
  <2> QED
    BY <1>1, <1>3, <1>4, <2>1 DEF Writes, Asks, Busy, At, IInv, TypeOK
<1> QED
  BY <1>5, <1>6, <1>7, <1>8 DEF IInv

\* What a write or the passing of time does to a run that no execution works on.
LEMMA IdleRunKeeps ==
    ASSUME IInv, NEW r \in RunIds, ~Busy(r), NEW d \in Store!RunDoc,
           runs' = [runs EXCEPT ![r] = d],
           Store!Exists(r), d.stage = runs[r].stage, d.status # "absent",
           d.status \in Store!ActiveStatuses => Store!IsActive(r),
           UNCHANGED <<outputs, poc, current, pending, objects, execs, faults>>
    PROVE  IInv'
<1>1. Store!TypeOK'
  BY DEF IInv, TypeOK, Store!TypeOK
<1>2. TypeOK'
  BY <1>1 DEF IInv, TypeOK, objects
<1>3. Solo'
  <2>1. \A q \in RunIds : Store!Exists(q)' => Store!Exists(q) /\ runs'[q].stage = runs[q].stage
    BY DEF IInv, TypeOK, Store!TypeOK, Store!Exists
  <2>2. \A q \in RunIds : Store!IsActive(q)' => Store!IsActive(q)
    BY DEF IInv, TypeOK, Store!TypeOK, Store!IsActive
  <2>3. \A q \in RunIds : Busy(q)' => Busy(q) /\ runs'[q] = runs[q]
    BY DEF IInv, TypeOK, Store!TypeOK, Busy, At
  <2> QED
    BY <2>1, <2>2, <2>3 DEF IInv, Solo, Store!IsActive
<1>4. CurrentSpecComplete' /\ \A q \in RunIds : (Writes(q) /\ Asks(q))'
  BY DEF IInv, CurrentSpecComplete, Writes, Asks, objects
<1> QED
  BY <1>2, <1>3, <1>4 DEF IInv

LEMMA RetryKeeps == ASSUME IInv, NEW r \in RunIds, RetryDraft(r) PROVE IInv'
<1> DEFINE d == [runs[r] EXCEPT !.status = "failed", !.silent = FALSE]
<1>1. ~Busy(r)
  BY DEF RetryDraft, IInv, Solo, Store!IsStale
<1>2. runs[r] \in Store!RunDoc /\ runs[r].status \in {"queued", "running"} /\ Store!Exists(r)
  BY DEF RetryDraft, IInv, TypeOK, Store!TypeOK, Store!IsStale, Store!Exists
<1>3. /\ d \in Store!RunDoc /\ d.stage = runs[r].stage /\ d.status = "failed"
      /\ "failed" \notin Store!ActiveStatuses
  BY <1>2 DEF Store!RunDoc, Store!Statuses, Store!ActiveStatuses, Store!TerminalStatuses
<1>4. runs' = [runs EXCEPT ![r] = d]
  BY DEF RetryDraft, Store!AbandonRun, Store!Write, IInv, TypeOK, Store!TypeOK, Store!RunDoc
<1> HIDE DEF d
<1> QED
  BY <1>1, <1>2, <1>3, <1>4, IdleRunKeeps DEF RetryDraft

LEMMA SilenceKeeps == ASSUME IInv, NEW r \in RunIds, Silence(r) PROVE IInv'
<1> DEFINE d == [runs[r] EXCEPT !.silent = TRUE]
<1>1. ~Busy(r) /\ Store!Exists(r) /\ Store!IsActive(r)
  BY DEF Silence, Busy, Store!GoSilent
<1>2. /\ d \in Store!RunDoc /\ d.stage = runs[r].stage /\ d.status = runs[r].status
      /\ d.status # "absent"
  BY <1>1 DEF Store!RunDoc, IInv, TypeOK, Store!TypeOK, Store!Exists
<1>3. runs' = [runs EXCEPT ![r] = d]
  BY DEF Silence, Store!GoSilent, IInv, TypeOK, Store!TypeOK, Store!RunDoc
<1> HIDE DEF d
<1> QED
  BY <1>1, <1>2, <1>3, IdleRunKeeps DEF Silence

(***************************************************************************)
(* The nodes of the graph                                                  *)
(***************************************************************************)

LEMMA StartRunKeeps == ASSUME IInv, NEW r \in RunIds, StartRun(r) PROVE IInv'
<1> DEFINE h == [execs[r] EXCEPT !.pc = "load"]
<1>1. Moves(r, h)
  BY DEF StartRun, At, Busy, Goto, Go, Moves, IInv, TypeOK, Exec
<1>2. Store!Exists(r) /\ runs' = [runs EXCEPT ![r].status = "running", ![r].silent = FALSE]
  BY DEF StartRun, Store!SetRunRunning, Store!Write
<1>3. Store!TypeOK'
  BY <1>2 DEF IInv, TypeOK, Store!TypeOK, Store!RunDoc, Store!Statuses, Store!ActiveStatuses
<1>4. execs' \in [RunIds -> Exec] /\ execs'[r] = h
  BY <1>1, MovesFacts DEF IInv
<1>5. TypeOK'
  BY <1>3, <1>4 DEF IInv, TypeOK, StartRun, objects
<1>6. Solo'
  <2>1. /\ runs'[r].stage = runs[r].stage /\ runs'[r].status = "running" /\ ~runs'[r].silent
        /\ \A q \in RunIds \ {r} : runs'[q] = runs[q]
    BY <1>2 DEF IInv, TypeOK, Store!TypeOK, Store!RunDoc
  <2>2. Store!IsActive(r)
    BY <1>1 DEF IInv, Solo, Moves
  <2>3. \A q \in RunIds \ {r} : ~Busy(q)'
    BY <1>1, MovesFacts DEF IInv, Busy, At
  <2>4. \A q \in RunIds : Store!IsActive(q)' => Store!IsActive(q)
    BY <2>1, <2>2 DEF Store!IsActive
  <2>5. Store!IsActive(r)'
    BY <2>1 DEF Store!IsActive, Store!ActiveStatuses
  <2>6. \A q \in RunIds : Store!Exists(q)' => runs'[q].stage = "draft"
    BY <1>2, <2>1 DEF IInv, Solo, Store!Exists
  <2>7. \A q \in RunIds : Busy(q)' => Store!IsActive(q)' /\ ~runs'[q].silent
    BY <2>1, <2>3, <2>5
  <2> QED
    BY <2>4, <2>6, <2>7 DEF IInv, Solo
<1>7. CurrentSpecComplete'
  BY DEF IInv, CurrentSpecComplete, StartRun, objects
<1>8. (Writes(r) /\ Asks(r))'
  BY <1>1, <1>4 DEF StartRun, At, Writes, Asks, Moves, IInv, TypeOK, Exec
<1> QED
  BY <1>1, <1>5, <1>6, <1>7, <1>8, OthersRest DEF IInv

LEMMA LoadKeeps == ASSUME IInv, NEW r \in RunIds, Load(r) PROVE IInv'
<1>1. PICK rounds \in ReadPending :
         /\ Go(r, [execs[r] EXCEPT !.pc = "analyze", !.rounds = FoldAnswers(rounds, execs[r].answers)])
         /\ faults' = IF rounds = pending THEN faults ELSE faults + 1
  BY DEF Load
<1> DEFINE told == FoldAnswers(rounds, execs[r].answers)
           h    == [execs[r] EXCEPT !.pc = "analyze", !.rounds = told]
<1>2. rounds \in RoundLists /\ (rounds # pending => faults < MaxFaults)
  BY EmptyRoundList DEF ReadPending, IInv, TypeOK
<1>3. told \in RoundLists
  BY <1>2, FoldAnswersFacts
<1>4. h \in Exec /\ h.pc = "analyze" /\ h.file = 1
  <2>1. execs[r] \in Exec /\ execs[r].file = 1
    BY DEF IInv, TypeOK, Writes, Load, At
  <2> HIDE DEF told
  <2> QED
    BY <1>3, <2>1 DEF Exec
<1>5. Moves(r, h)
  BY <1>1, <1>4 DEF Load, At, Busy, Go, Moves
<1>6. faults' \in 0..MaxFaults
  BY <1>1, <1>2, DraftAssumption DEF IInv, TypeOK
<1>7. execs'[r] = h
  BY <1>5, MovesFacts DEF IInv
<1>8. (Writes(r) /\ Asks(r))'
  BY <1>4, <1>7 DEF Writes, Asks
<1>9. UNCHANGED <<runs, outputs, poc, current, objects>> /\ pending' \in RoundLists
  BY DEF Load, IInv, TypeOK
<1> QED
  BY <1>5, <1>6, <1>8, <1>9, MovesKeep

LEMMA AnalyzeKeeps == ASSUME IInv, NEW r \in RunIds, Analyze(r) PROVE IInv'
<1>1. PICK missing \in BOOLEAN : Goto(r, Decide(execs[r], missing))
  BY DEF Analyze
<1> DEFINE h == [execs[r] EXCEPT !.pc = Decide(execs[r], missing)]
<1>2. execs[r] \in Exec /\ Len(execs[r].rounds) \in 0..2
  BY RoundListFacts DEF IInv, TypeOK, Exec
<1>3. /\ h \in Exec /\ h.pc \in {"ask", "version"} /\ h.rounds = execs[r].rounds /\ h.file = 1
      /\ h.pc = "ask" => Len(execs[r].rounds) < 2
  BY <1>2 DEF Decide, Exec, MAX_CLARIFICATION_ROUNDS, IInv, Writes, Analyze, At
<1>4. Moves(r, h)
  BY <1>1, <1>3 DEF Analyze, At, Busy, Goto, Go, Moves
<1>5. execs'[r] = h
  BY <1>4, MovesFacts DEF IInv
<1> HIDE DEF h
<1>6. (Writes(r) /\ Asks(r))'
  BY <1>3, <1>5 DEF Writes, Asks, MAX_CLARIFICATION_ROUNDS
<1>7. /\ UNCHANGED <<runs, outputs, poc, current, objects>>
      /\ pending' \in RoundLists /\ faults' \in 0..MaxFaults
  BY DEF Analyze, IInv, TypeOK
<1> QED
  BY <1>4, <1>6, <1>7, MovesKeep

LEMMA QuestionsKeeps == ASSUME IInv, NEW r \in RunIds, Questions(r) PROVE IInv'
<1> DEFINE h == [execs[r] EXCEPT !.pc = "finish", !.status = "succeeded"]
<1>1. Moves(r, h)
  BY DEF Questions, At, Busy, Go, Moves, IInv, TypeOK, Exec
<1>2. /\ execs[r] \in Exec /\ execs[r].rounds \in RoundLists /\ execs[r].pc = "ask"
      /\ Len(execs[r].rounds) < 2
  BY DEF IInv, TypeOK, Exec, Asks, Questions, At, MAX_CLARIFICATION_ROUNDS
<1>3. pending' \in RoundLists
  BY <1>2, WithQuestionsFacts DEF Questions
<1>4. execs'[r] = h
  BY <1>1, MovesFacts DEF IInv
<1>5. h.pc = "finish" /\ h.rounds = execs[r].rounds
  BY <1>2 DEF Exec
<1> HIDE DEF h
<1>6. (Writes(r) /\ Asks(r))'
  BY <1>2, <1>4, <1>5 DEF Writes, Asks, MAX_CLARIFICATION_ROUNDS
<1>7. UNCHANGED <<runs, outputs, poc, current, objects>> /\ faults' \in 0..MaxFaults
  BY DEF Questions, IInv, TypeOK
<1> QED
  BY <1>1, <1>3, <1>6, <1>7, MovesKeep

LEMMA CurrentWritten == ASSUME IInv, current # 0 PROVE current \in Written
<1>1. PICK q \in RunIds : \A f \in FileNames : files[current][f] = q
  BY DEF IInv, CurrentSpecComplete
<1>2. current \in Versions /\ q # 0 /\ "poc_spec" \in FileNames
  BY DEF IInv, TypeOK, RunIds, FileNames, SpecFiles
<1> QED
  BY <1>1, <1>2 DEF Written

LEMMA GenerateKeeps == ASSUME IInv, NEW r \in RunIds, Generate(r) PROVE IInv'
<1>1. PICK v \in Versions : IsNext(v) /\ Go(r, [execs[r] EXCEPT !.pc = "write", !.version = v])
  BY DEF Generate
<1> DEFINE h == [execs[r] EXCEPT !.pc = "write", !.version = v]
<1>2. execs[r] \in Exec /\ execs[r].pc = "version" /\ execs[r].file = 1
  BY DEF IInv, TypeOK, Generate, At, Writes
<1>3. h \in Exec /\ h.pc = "write" /\ h.version = v /\ h.file = 1
  BY <1>2 DEF Exec
<1>4. Moves(r, h)
  BY <1>1, <1>2, <1>3 DEF At, Busy, Go, Moves
<1>5. execs'[r] = h
  BY <1>4, MovesFacts DEF IInv
<1>6. current < v
  BY <1>1, CurrentWritten DEF IsNext, Versions, IInv, TypeOK
<1>7. /\ UNCHANGED <<runs, outputs, poc, current, objects>>
      /\ pending' \in RoundLists /\ faults' \in 0..MaxFaults
  BY DEF Generate, IInv, TypeOK
<1> HIDE DEF h
<1>8. (Writes(r) /\ Asks(r))'
  BY <1>3, <1>5, <1>6, <1>7 DEF Writes, Asks
<1> QED
  BY <1>4, <1>7, <1>8, MovesKeep

\* No other version than the one a draft at work writes is ever touched.
LEMMA WriteFileKeeps == ASSUME IInv, NEW r \in RunIds, WriteFile(r) PROVE IInv'
<1> DEFINE e == execs[r]
           f == SpecFiles[e.file]
           h == [e EXCEPT !.pc = AfterFile(e), !.file = @ + 1]
<1>1. /\ e \in Exec /\ e.pc = "write" /\ e.file \in 1..4 /\ e.version \in Versions
      /\ current < e.version
      /\ \A i \in 1..4 : i < e.file => files[e.version][SpecFiles[i]] = r
  BY DEF IInv, TypeOK, WriteFile, At, Writes
<1>2. f \in FileNames
  BY <1>1 DEF FileNames
<1>3. /\ h \in Exec /\ h.version = e.version /\ h.file = e.file + 1
      /\ h.pc = IF e.file = 4 THEN "publish" ELSE "write"
  <2>1. AfterFile(e) = IF e.file = 4 THEN "publish" ELSE "write"
    BY DEF AfterFile
  <2>2. e.file + 1 \in 1..5
    BY <1>1
  <2> QED
    BY <1>1, <2>1, <2>2 DEF Exec
<1>4. Moves(r, h)
  BY <1>1, <1>3 DEF WriteFile, Busy, At, Go, Moves
<1>5. execs' \in [RunIds -> Exec] /\ execs'[r] = h
  BY <1>4, MovesFacts DEF IInv
<1>6. files' = [files EXCEPT ![e.version][f] = r]
  BY DEF WriteFile
<1>7. /\ files' \in [Versions -> [FileNames -> RunIds \cup {0}]]
      /\ \A v \in Versions : v # e.version => files'[v] = files[v]
      /\ \A g \in FileNames : files'[e.version][g] = IF g = f THEN r ELSE files[e.version][g]
  BY <1>1, <1>2, <1>6 DEF IInv, TypeOK
<1>8. held' \in [Versions -> RoundLists]
  BY <1>1 DEF WriteFile, IInv, TypeOK, Exec
<1>9. Solo' /\ Store!TypeOK'
  BY <1>4, MovesSolo DEF IInv, WriteFile
<1>10. TypeOK'
  BY <1>5, <1>7, <1>8, <1>9 DEF IInv, TypeOK, WriteFile
<1>11. CurrentSpecComplete'
  BY <1>1, <1>7 DEF IInv, TypeOK, CurrentSpecComplete, WriteFile, Versions
<1>12. \A i \in 1..4 : i < e.file + 1 => files'[e.version][SpecFiles[i]] = r
  <2> TAKE i \in 1..4
  <2> HAVE i < e.file + 1
  <2>1. SpecFiles[i] \in FileNames
    BY DEF FileNames
  <2>2. i < e.file \/ i = e.file
    BY <1>1
  <2> QED
    BY <1>1, <1>7, <2>1, <2>2
<1>13. e.file = 4 => \A g \in FileNames : files'[e.version][g] = r
  BY <1>12 DEF FileNames
<1>14. (Writes(r) /\ Asks(r))'
  <2> HIDE DEF h
  <2>1. current' = current
    BY DEF WriteFile
  <2> QED
    BY <1>1, <1>3, <1>5, <1>12, <1>13, <2>1 DEF Writes, Asks
<1> QED
  BY <1>4, <1>9, <1>10, <1>11, <1>14, OthersRest DEF IInv

LEMMA PublishKeeps == ASSUME IInv, NEW r \in RunIds, Publish(r) PROVE IInv'
<1> DEFINE h == [execs[r] EXCEPT !.pc = "ready"]
<1>1. /\ execs[r] \in Exec /\ execs[r].pc = "publish" /\ execs[r].version \in Versions
      /\ \A f \in FileNames : files[execs[r].version][f] = r
  BY DEF IInv, TypeOK, Publish, At, Writes
<1>2. h \in Exec /\ h.pc = "ready" /\ h.version = execs[r].version
  BY <1>1 DEF Exec
<1>3. Moves(r, h)
  BY <1>1, <1>2 DEF Publish, Busy, At, Goto, Go, Moves
<1>4. execs' \in [RunIds -> Exec] /\ execs'[r] = h
  BY <1>3, MovesFacts DEF IInv
<1>5. Solo' /\ Store!TypeOK'
  BY <1>3, MovesSolo DEF IInv, Publish
<1>6. current' = execs[r].version /\ current' # 0 /\ files' = files
  BY <1>1 DEF Publish, objects, Versions
<1>7. TypeOK'
  BY <1>1, <1>4, <1>5, <1>6 DEF IInv, TypeOK, Publish, objects
<1>8. CurrentSpecComplete'
  BY <1>1, <1>6 DEF CurrentSpecComplete
<1>9. (Writes(r) /\ Asks(r))'
  BY <1>1, <1>2, <1>4, <1>6 DEF Writes, Asks
<1> QED
  BY <1>3, <1>5, <1>7, <1>8, <1>9, OthersRest DEF IInv

LEMMA SpecReadyKeeps == ASSUME IInv, NEW r \in RunIds, SpecReady(r) PROVE IInv'
<1> DEFINE h == [execs[r] EXCEPT !.pc = "close"]
<1>1. /\ execs[r] \in Exec /\ execs[r].pc = "ready" /\ execs[r].version \in Versions
      /\ current # 0
  BY DEF IInv, TypeOK, SpecReady, At, Writes
<1>2. h \in Exec /\ h.pc = "close" /\ h.version = execs[r].version
  BY <1>1 DEF Exec
<1>3. Moves(r, h)
  BY <1>1, <1>2 DEF SpecReady, Busy, At, Goto, Go, Moves
<1>4. execs' \in [RunIds -> Exec] /\ execs'[r] = h
  BY <1>3, MovesFacts DEF IInv
<1>5. Solo' /\ Store!TypeOK'
  BY <1>3, MovesSolo DEF IInv, SpecReady
<1>6. TypeOK'
  BY <1>4, <1>5 DEF IInv, TypeOK, SpecReady, objects
<1>7. CurrentSpecComplete'
  BY <1>1 DEF IInv, CurrentSpecComplete, SpecReady, objects
<1>8. (Writes(r) /\ Asks(r))'
  BY <1>1, <1>2, <1>4 DEF Writes, Asks
<1> QED
  BY <1>3, <1>5, <1>6, <1>7, <1>8, OthersRest DEF IInv

LEMMA TombstoneKeeps == ASSUME IInv, NEW r \in RunIds, Tombstone(r) PROVE IInv'
<1> DEFINE h == [execs[r] EXCEPT !.pc = "finish", !.status = "succeeded"]
<1>1. execs[r] \in Exec /\ execs[r].pc = "close" /\ execs[r].version \in Versions
  BY DEF IInv, TypeOK, Tombstone, At, Writes
<1>2. h \in Exec /\ h.pc = "finish" /\ h.version = execs[r].version
  BY <1>1 DEF Exec
<1>3. Moves(r, h)
  BY <1>1, <1>2 DEF Tombstone, Busy, At, Go, Moves
<1>4. execs'[r] = h
  BY <1>3, MovesFacts DEF IInv
<1>5. pending' \in RoundLists /\ faults' \in 0..MaxFaults
  BY EmptyRoundList, FaultTyped DEF Tombstone, IInv, TypeOK
<1>6. (Writes(r) /\ Asks(r))'
  <2>1. execs[r].version # 0
    BY <1>1 DEF Versions
  <2> QED
    BY <1>2, <1>4, <2>1 DEF Writes, Asks
<1> QED
  BY <1>3, <1>5, <1>6, MovesKeep DEF Tombstone

LEMMA FinishKeeps == ASSUME IInv, NEW r \in RunIds, Finish(r) PROVE IInv'
<1> DEFINE e == execs[r]
<1>1. Moves(r, Off)
  BY OffTyped DEF Finish, At, Busy, Go, Moves
<1>2. e \in Exec /\ e.status \in Store!TerminalStatuses
  BY DEF IInv, TypeOK, Exec, Store!TerminalStatuses
<1>3. Store!Exists(r) /\ runs' = [runs EXCEPT ![r].status = e.status, ![r].silent = FALSE]
  BY DEF Finish, Store!FinishRun, Store!Write
<1>4. /\ Store!TypeOK'
      /\ runs'[r].stage = runs[r].stage /\ ~Store!IsActive(r)'
      /\ \A q \in RunIds \ {r} : runs'[q] = runs[q]
  BY <1>2, <1>3 DEF IInv, TypeOK, Store!TypeOK, Store!RunDoc, Store!Statuses,
     Store!TerminalStatuses, Store!ActiveStatuses, Store!IsActive
<1>5. execs' \in [RunIds -> Exec] /\ \A q \in RunIds : execs'[q].pc = "off"
  BY <1>1, MovesFacts DEF IInv, Off
<1>6. Outcome(e) \in [kind : {"none", "questions", "spec"}, round : 0..MAX_CLARIFICATION_ROUNDS - 1]
  <2>1. CASE e.status = "failed" \/ e.version # 0
    BY <2>1, <1>2 DEF Outcome, Exec, MAX_CLARIFICATION_ROUNDS
  <2>2. CASE e.status = "succeeded" /\ e.version = 0
    <3>1. Len(e.rounds) < 2 /\ Len(e.rounds) \in 0..2
      BY <2>2, <1>2, RoundListFacts DEF IInv, Asks, Finish, At, Exec, MAX_CLARIFICATION_ROUNDS
    <3>2. Outcome(e) = [kind |-> "questions", round |-> Len(e.rounds) + 1]
      BY <2>2 DEF Outcome
    <3> QED
      BY <3>1, <3>2 DEF MAX_CLARIFICATION_ROUNDS
  <2> QED
    BY <1>2, <2>1, <2>2 DEF Exec
<1>7. TypeOK'
  BY <1>4, <1>5, <1>6 DEF IInv, TypeOK, Finish, objects
<1>8. Solo'
  <2>1. \A q \in RunIds : ~Busy(q)'
    BY <1>5 DEF Busy, At
  <2>2. \A q \in RunIds : Store!IsActive(q)' => Store!IsActive(q)
    BY <1>4 DEF Store!IsActive
  <2>3. \A q \in RunIds : Store!Exists(q)' => runs'[q].stage = "draft"
    BY <1>3, <1>4 DEF IInv, Solo, Store!Exists
  <2> QED
    BY <2>1, <2>2, <2>3 DEF IInv, Solo
<1>9. CurrentSpecComplete'
  BY DEF IInv, CurrentSpecComplete, Finish, objects
<1>10. \A q \in RunIds : (Writes(q) /\ Asks(q))'
  BY <1>5 DEF Writes, Asks
<1> QED
  BY <1>7, <1>8, <1>9, <1>10 DEF IInv

LEMMA NodeFailsKeeps == ASSUME IInv, NEW r \in RunIds, NodeFails(r) PROVE IInv'
<1> DEFINE h == [execs[r] EXCEPT !.pc = "finish", !.status = "failed"]
<1>1. execs[r] \in Exec /\ execs[r].pc # "off"
  BY DEF IInv, TypeOK, NodeFails
<1>2. h \in Exec /\ h.pc = "finish" /\ h.status = "failed"
  BY <1>1 DEF Exec
<1>3. Moves(r, h)
  BY <1>1, <1>2 DEF NodeFails, Busy, At, Go, Moves
<1>4. faults' \in 0..MaxFaults
  BY FaultTyped DEF IInv, NodeFails
<1> HIDE DEF h
<1> QED
  BY <1>2, <1>3, <1>4, EndsKeep DEF NodeFails

LEMMA DieKeeps == ASSUME IInv, NEW r \in RunIds, Die(r) PROVE IInv'
<1>1. PICK h : Moves(r, h) /\ h.pc = "off"
  <2>1. Moves(r, Off) /\ Off.pc = "off"
    BY OffTyped DEF Die, Busy, Go, Moves, Off
  <2> QED
    BY <2>1, Zenon
<1>2. faults' \in 0..MaxFaults
  BY FaultTyped DEF IInv, Die
<1>3. UNCHANGED <<runs, outputs, poc, current, pending, objects>>
  BY DEF Die
<1> QED
  BY <1>1, <1>2, <1>3, EndsKeep

LEMMA NextIInv == IInv /\ [Next]_vars => IInv'
<1> SUFFICES ASSUME IInv, [Next]_vars PROVE IInv'
  OBVIOUS
<1>1. CASE UserStarts
  BY <1>1, StartKeeps DEF UserStarts
<1>2. ASSUME NEW r \in RunIds,
             RetryDraft(r) \/ Silence(r) \/ Works(r) \/ NodeFails(r) \/ Die(r)
      PROVE  IInv'
  BY <1>2, RetryKeeps, SilenceKeeps, NodeFailsKeeps, DieKeeps, StartRunKeeps, LoadKeeps,
     AnalyzeKeeps, QuestionsKeeps, GenerateKeeps, WriteFileKeeps, PublishKeeps,
     SpecReadyKeeps, TombstoneKeeps, FinishKeeps DEF Works
<1>3. CASE UNCHANGED vars
  BY <1>3 DEF vars, objects, IInv, TypeOK, Store!TypeOK, Solo, CurrentSpecComplete, Writes, Asks,
              Busy, At, Store!Exists, Store!IsActive
<1> QED
  BY <1>1, <1>2, <1>3 DEF Next

\* The inductive invariant: a draft at work has the one active run.
THEOREM Inductive == Spec => []IInv
BY InitIInv, NextIInv, PTL DEF Spec

(* Runs, documents and program counters keep their types for any number of *)
(* drafts and faults; no draft reports a round past the last.              *)
THEOREM TypeCorrect == Spec => []TypeOK
<1>1. IInv => TypeOK
  BY DEF IInv
<1> QED
  BY <1>1, Inductive, PTL

(* The current spec was written whole by one draft, for any number of      *)
(* drafts, however many fail or die half-way through a version, and even   *)
(* if the interview is misread.                                            *)
THEOREM SpecComplete == Spec => []CurrentSpecComplete
<1>1. IInv => CurrentSpecComplete
  BY DEF IInv
<1> QED
  BY <1>1, Inductive, PTL

(***************************************************************************)
(* The interview, as long as it is read                                    *)
(***************************************************************************)

\* Every pending round is in the execution's, with the answers recorded and its own.
Recalls(e) ==
    /\ Len(e.rounds) = Len(pending)
    /\ \A i \in 1..Len(pending) :
          /\ e.rounds[i].asked = pending[i].asked
          /\ pending[i].answered \/ i = e.answers => e.rounds[i].answered

Unloaded == {"start", "load"}
Loaded   == {"analyze", "ask", "version", "write", "publish", "ready", "close"}

\* What is pending or current was made by a run that exists.
Known ==
    /\ \A i \in 1..Len(pending) : Store!Exists(pending[i].asked)
    /\ current # 0 => Store!Exists(SpecOf(current))

\* A draft at work comes after all others, and has the interview in mind once it loaded it.
Follows(r) ==
    LET e == execs[r] IN
    /\ Busy(r) => \A q \in RunIds : Store!Exists(q) => q <= r
    /\ e.pc \in Unloaded \cup Loaded => \A i \in 1..Len(pending) : pending[i].asked < r
    /\ e.pc \in (Unloaded \cup Loaded) \ {"ready", "close"} => SpecOf(current) < r
    /\ e.pc \in Loaded => Recalls(e)
    /\ e.pc = "publish" => held[e.version] = e.rounds
    /\ e.pc \in {"ready", "close"} => SpecOf(current) = r

Faithful == ReadErrors = FALSE /\ Known /\ \A r \in RunIds : Follows(r)

LEMMA InitFaithful == ASSUME ReadErrors = FALSE, Init PROVE Faithful
<1>1. Known
  BY EmptyRoundList DEF Init, Known
<1>2. \A r \in RunIds : Follows(r)
  BY DEF Init, Follows, Off, Busy, At, Unloaded, Loaded
<1> QED
  BY <1>1, <1>2 DEF Faithful

LEMMA PendingFacts ==
    ASSUME TypeOK
    PROVE  /\ pending \in Seq(Rounds) /\ Len(pending) \in 0..2
           /\ \A i \in 1..Len(pending) : pending[i] \in Rounds /\ pending[i].asked \in RunIds
BY RoundListFacts DEF TypeOK, Rounds

LEMMA SpecOfFacts == ASSUME IInv PROVE SpecOf(current) \in RunIds \cup {0}
<1>1. "poc_spec" \in FileNames
  BY DEF FileNames, SpecFiles
<1> QED
  BY <1>1 DEF IInv, TypeOK, SpecOf

\* The step of an execution that creates no run.
LEMMA MovesFollow ==
    ASSUME IInv, Faithful, NEW r \in RunIds, NEW h, Moves(r, h),
           \A q \in RunIds : Store!Exists(q)' <=> Store!Exists(q),
           Known', Follows(r)'
    PROVE  Faithful'
<1>1. ASSUME NEW q \in RunIds, q # r PROVE Follows(q)'
  <2>1. execs'[q].pc = "off"
    BY <1>1, MovesFacts DEF IInv
  <2> QED
    BY <2>1 DEF Follows, Busy, At, Unloaded, Loaded
<1> QED
  BY <1>1 DEF Faithful

\* Such a step that leaves all documents but those of a version under way alone.
LEMMA QuietFollow ==
    ASSUME IInv, Faithful, NEW r \in RunIds, NEW h, Moves(r, h),
           \A q \in RunIds : Store!Exists(q)' <=> Store!Exists(q),
           pending' = pending, current' = current, SpecOf(current)' = SpecOf(current),
           h.pc \in Unloaded \cup Loaded =>
              /\ execs[r].pc \in Unloaded \cup Loaded
              /\ h.pc \in {"ready", "close"} <=> execs[r].pc \in {"ready", "close"},
           h.pc \in Loaded => Recalls(h),
           h.pc = "publish" => held'[h.version] = h.rounds
    PROVE  Faithful'
<1>1. execs'[r] = h /\ Busy(r)
  BY MovesFacts DEF IInv, Moves
<1>2. Known'
  <2>1. \A i \in 1..Len(pending) : Store!Exists(pending[i].asked)'
    BY PendingFacts DEF IInv, Faithful, Known
  <2>2. current # 0 => SpecOf(current) \in RunIds
    <3>1. current # 0 => SpecOf(current) # 0
      BY DEF IInv, CurrentSpecComplete, SpecOf, FileNames, SpecFiles, RunIds
    <3> QED
      BY <3>1, SpecOfFacts
  <2>3. ASSUME current # 0 PROVE Store!Exists(SpecOf(current))'
    <3>1. Store!Exists(SpecOf(current))
      BY <2>3 DEF Faithful, Known
    <3> QED
      BY <2>2, <2>3, <3>1
  <2> QED
    BY <2>1, <2>3 DEF Known
<1>3. Follows(r)'
  <2>1. Recalls(h) => Recalls(h)'
    BY DEF Recalls
  <2> QED
    BY <1>1, <2>1 DEF Faithful, Follows, Unloaded, Loaded
<1> QED
  BY <1>2, <1>3, MovesFollow

\* A write to a run that exists, or none.
LEMMA WriteKeepsRuns ==
    ASSUME TypeOK, NEW r \in RunIds, NEW status, Store!Exists(r), status # "absent",
           Store!Write(r, status)
    PROVE  \A q \in RunIds : Store!Exists(q)' <=> Store!Exists(q)
BY DEF TypeOK, Store!TypeOK, Store!RunDoc, Store!Exists, Store!Write

LEMMA StartFollows ==
    ASSUME IInv, Faithful, NEW r \in RunIds, NEW answers \in 0..MAX_CLARIFICATION_ROUNDS - 1,
           NEW force \in BOOLEAN, StartDraft(r, answers, force)
    PROVE  Faithful'
<1> DEFINE h == [Off EXCEPT !.pc = "start", !.answers = answers, !.force = force]
<1>1. /\ \A q \in RunIds : Store!Exists(q) <=> q < r
      /\ runs' = [runs EXCEPT ![r] = [stage |-> "draft", status |-> "queued", silent |-> FALSE]]
      /\ execs' = [execs EXCEPT ![r] = h]
      /\ pending' = pending /\ current' = current /\ files' = files
  BY DEF StartDraft, Store!CreateRun, Go, objects
<1>2. h.pc = "start"
  BY OffTyped DEF Off, Exec
<1> HIDE DEF h
<1>3. \A q \in RunIds : ~Busy(q)
  BY DEF IInv, Solo, StartDraft, Store!CreateRun, Store!MayOccupy, Store!Exists, Store!IsActive,
         Store!ActiveStatuses
<1>4. \A q \in RunIds : Store!Exists(q)' <=> q <= r
  BY <1>1 DEF IInv, TypeOK, Store!TypeOK, Store!Exists, RunIds
<1>5. \A i \in 1..Len(pending) : pending[i].asked \in RunIds /\ pending[i].asked < r
  BY <1>1, PendingFacts DEF IInv, Faithful, Known
<1>6. current # 0 => SpecOf(current) \in RunIds
  BY SpecOfFacts DEF IInv, CurrentSpecComplete, SpecOf, FileNames, SpecFiles, RunIds
<1>7. SpecOf(current) < r
  <2>1. CASE current = 0
    BY <2>1 DEF SpecOf, RunIds
  <2>2. CASE current # 0
    BY <1>1, <1>6, <2>2 DEF Faithful, Known
  <2> QED
    BY <2>1, <2>2
<1>8. SpecOf(current)' = SpecOf(current)
  BY <1>1 DEF SpecOf
<1>9. Known'
  <2>1. \A i \in 1..Len(pending) : Store!Exists(pending[i].asked)'
    BY <1>1, <1>4, <1>5, DraftAssumption DEF RunIds
  <2>2. ASSUME current # 0 PROVE Store!Exists(SpecOf(current))'
    <3>1. SpecOf(current) \in RunIds /\ SpecOf(current) <= r
      BY <1>6, <1>7, <2>2, DraftAssumption DEF RunIds
    <3> QED
      BY <1>4, <1>8, <3>1
  <2> QED
    BY <1>1, <2>1, <2>2 DEF Known
<1>10. ASSUME NEW q \in RunIds PROVE Follows(q)'
  <2>1. execs'[q].pc = IF q = r THEN "start" ELSE "off"
    BY <1>1, <1>2, <1>3 DEF IInv, TypeOK, Busy, At
  <2>2. CASE q = r
    BY <1>1, <1>4, <1>5, <1>7, <1>8, <2>1, <2>2 DEF Follows, Unloaded, Loaded
  <2>3. CASE q # r
    BY <2>1, <2>3 DEF Follows, Busy, At, Unloaded, Loaded
  <2> QED
    BY <2>2, <2>3
<1> QED
  BY <1>9, <1>10 DEF Faithful

\* A run that no execution works on is abandoned, or goes silent.
LEMMA IdleRunFollows ==
    ASSUME IInv, Faithful, \A q \in RunIds : Store!Exists(q)' <=> Store!Exists(q),
           UNCHANGED <<pending, current, objects, execs>>
    PROVE  Faithful'
<1>1. SpecOf(current)' = SpecOf(current)
  BY DEF SpecOf, objects
<1>2. Known'
  <2>1. \A i \in 1..Len(pending) : Store!Exists(pending[i].asked)'
    BY PendingFacts DEF IInv, Faithful, Known
  <2>2. ASSUME current # 0 PROVE Store!Exists(SpecOf(current))'
    <3>1. SpecOf(current) \in RunIds
      BY <2>2, SpecOfFacts DEF IInv, CurrentSpecComplete, SpecOf, FileNames, SpecFiles, RunIds
    <3>2. Store!Exists(SpecOf(current))
      BY <2>2 DEF Faithful, Known
    <3> QED
      BY <1>1, <3>1, <3>2
  <2> QED
    BY <2>1, <2>2 DEF Known
<1>3. ASSUME NEW q \in RunIds PROVE Follows(q)'
  <2>1. Recalls(execs[q]) => Recalls(execs[q])'
    BY DEF Recalls
  <2> QED
    BY <1>1, <2>1 DEF Faithful, Follows, Busy, At, objects
<1> QED
  BY <1>2, <1>3 DEF Faithful

LEMMA LoadFollows == ASSUME IInv, Faithful, NEW r \in RunIds, Load(r) PROVE Faithful'
<1> DEFINE e    == execs[r]
           told == FoldAnswers(pending, e.answers)
           h    == [e EXCEPT !.pc = "analyze", !.rounds = told]
<1>1. Go(r, h)
  BY DEF Load, ReadPending, Faithful
<1>2. e \in Exec /\ e.pc = "load" /\ pending \in RoundLists
  BY DEF IInv, TypeOK, Load, At
<1>3. /\ told \in RoundLists /\ Len(told) = Len(pending)
      /\ \A i \in 1..Len(pending) : /\ told[i].asked = pending[i].asked
                                    /\ told[i].answered = (pending[i].answered \/ i = e.answers)
  BY <1>2, FoldAnswersFacts
<1> HIDE DEF told
<1>4. h \in Exec /\ h.pc = "analyze" /\ h.rounds = told /\ h.answers = e.answers
  BY <1>2, <1>3 DEF Exec
<1> HIDE DEF h
<1>5. Recalls(h)
  BY <1>3, <1>4 DEF Recalls
<1>6. Moves(r, h)
  BY <1>1, <1>2, <1>4 DEF Busy, At, Go, Moves
<1>7. /\ \A q \in RunIds : Store!Exists(q)' <=> Store!Exists(q)
      /\ pending' = pending /\ current' = current /\ SpecOf(current)' = SpecOf(current)
  BY DEF Load, objects, Store!Exists, SpecOf
<1>8. h.pc \notin {"ready", "close", "publish"} /\ e.pc \in Unloaded \cup Loaded
      /\ e.pc \notin {"ready", "close"}
  BY <1>2, <1>4 DEF Unloaded, Loaded
<1> QED
  BY <1>5, <1>6, <1>7, <1>8, QuietFollow

\* A step from one node to another in which nothing but the version under way changes.
LEMMA NodeFollows ==
    ASSUME IInv, Faithful, NEW r \in RunIds,
           Analyze(r) \/ Generate(r) \/ NodeFails(r) \/ Die(r)
    PROVE  Faithful'
<1>1. /\ \A q \in RunIds : Store!Exists(q)' <=> Store!Exists(q)
      /\ pending' = pending /\ current' = current /\ SpecOf(current)' = SpecOf(current)
  BY DEF Analyze, Generate, NodeFails, Die, objects, Store!Exists, SpecOf
<1>2. execs[r] \in Exec
  BY DEF IInv, TypeOK
<1>3. CASE Analyze(r)
  <2>1. PICK missing \in BOOLEAN : Goto(r, Decide(execs[r], missing))
    BY <1>3 DEF Analyze
  <2> DEFINE h == [execs[r] EXCEPT !.pc = Decide(execs[r], missing)]
  <2>2. Decide(execs[r], missing) \in {"ask", "version"}
    BY DEF Decide
  <2>3. /\ h \in Exec /\ h.pc \in {"ask", "version"}
        /\ h.rounds = execs[r].rounds /\ h.answers = execs[r].answers
    BY <1>2, <2>2 DEF Exec
  <2>4. execs[r].pc = "analyze" /\ Recalls(execs[r])
    BY <1>3 DEF Analyze, At, Faithful, Follows, Loaded
  <2>5. Moves(r, h)
    BY <2>1, <2>3, <2>4 DEF Busy, At, Goto, Go, Moves
  <2> HIDE DEF h
  <2>6. Recalls(h)
    BY <2>3, <2>4 DEF Recalls
  <2> QED
    BY <1>1, <2>3, <2>4, <2>5, <2>6, QuietFollow DEF Unloaded, Loaded
<1>4. CASE Generate(r)
  <2>1. PICK v \in Versions : Go(r, [execs[r] EXCEPT !.pc = "write", !.version = v])
    BY <1>4 DEF Generate
  <2> DEFINE h == [execs[r] EXCEPT !.pc = "write", !.version = v]
  <2>2. /\ h \in Exec /\ h.pc = "write"
        /\ h.rounds = execs[r].rounds /\ h.answers = execs[r].answers
    BY <1>2 DEF Exec
  <2>3. execs[r].pc = "version" /\ Recalls(execs[r])
    BY <1>4 DEF Generate, At, Faithful, Follows, Loaded
  <2>4. Moves(r, h)
    BY <2>1, <2>2, <2>3 DEF Busy, At, Go, Moves
  <2> HIDE DEF h
  <2>5. Recalls(h)
    BY <2>2, <2>3 DEF Recalls
  <2> QED
    BY <1>1, <2>2, <2>3, <2>4, <2>5, QuietFollow DEF Unloaded, Loaded
<1>5. CASE NodeFails(r) \/ Die(r)
  <2> DEFINE f == [execs[r] EXCEPT !.pc = "finish", !.status = "failed"]
  <2>1. f \in Exec /\ f.pc = "finish"
    BY <1>2 DEF Exec
  <2>2. Busy(r) /\ (Go(r, f) \/ Go(r, Off))
    BY <1>5 DEF NodeFails, Die, Busy, At
  <2> HIDE DEF f
  <2>3. Off.pc = "off"
    BY DEF Off
  <2>4. Moves(r, f) \/ Moves(r, Off)
    BY <2>1, <2>2, OffTyped DEF Go, Moves
  <2>5. PICK h : Moves(r, h) /\ (h.pc = "off" \/ h.pc = "finish")
    BY <2>1, <2>3, <2>4, Zenon
  <2> QED
    BY <1>1, <2>5, QuietFollow DEF Unloaded, Loaded
<1> QED
  BY <1>3, <1>4, <1>5

\* A step that begins or ends the work of an execution.
LEMMA EdgeFollows ==
    ASSUME IInv, Faithful, NEW r \in RunIds, StartRun(r) \/ Finish(r)
    PROVE  Faithful'
<1>1. /\ pending' = pending /\ current' = current /\ SpecOf(current)' = SpecOf(current)
      /\ execs[r] \in Exec
  BY DEF StartRun, Finish, objects, SpecOf, IInv, TypeOK
<1>2. \A q \in RunIds : Store!Exists(q)' <=> Store!Exists(q)
  <2>1. /\ Store!Exists(r)
        /\ Store!Write(r, "running") \/ Store!Write(r, execs[r].status)
    BY DEF StartRun, Finish, Store!SetRunRunning, Store!FinishRun
  <2>2. execs[r].status # "absent"
    BY <1>1 DEF Exec
  <2> QED
    BY <2>1, <2>2, WriteKeepsRuns DEF IInv
<1>3. CASE StartRun(r)
  <2> DEFINE h == [execs[r] EXCEPT !.pc = "load"]
  <2>1. h \in Exec /\ h.pc = "load" /\ execs[r].pc = "start"
    BY <1>1, <1>3 DEF Exec, StartRun, At
  <2>2. Moves(r, h)
    BY <1>3, <2>1 DEF StartRun, Busy, At, Goto, Go, Moves
  <2> HIDE DEF h
  <2> QED
    BY <1>1, <1>2, <2>1, <2>2, QuietFollow DEF Unloaded, Loaded
<1>4. CASE Finish(r)
  <2>1. Moves(r, Off) /\ Off.pc = "off"
    BY <1>4, OffTyped DEF Finish, Busy, At, Go, Moves, Off
  <2>2. PICK h : Moves(r, h) /\ h.pc = "off"
    BY <2>1, Zenon
  <2> QED
    BY <1>1, <1>2, <2>2, QuietFollow DEF Unloaded, Loaded
<1> QED
  BY <1>3, <1>4

\* The pending file gets the rounds the execution knows and one of its own.
LEMMA QuestionsFacts ==
    ASSUME IInv, NEW r \in RunIds, Questions(r)
    PROVE  /\ Len(execs[r].rounds) \in 0..1
           /\ Len(pending') = Len(execs[r].rounds) + 1
           /\ \A i \in 1..Len(execs[r].rounds) : pending'[i] = execs[r].rounds[i]
           /\ pending'[Len(execs[r].rounds) + 1].asked = r
<1> DEFINE s == execs[r].rounds
<1>1. s \in RoundLists /\ Len(s) \in 0..2 /\ Len(s) < 2
  BY RoundListFacts DEF IInv, TypeOK, Exec, Questions, At, Asks, MAX_CLARIFICATION_ROUNDS
<1>2. pending' = WithQuestions(s, r) /\ Round(r).asked = r
  BY DEF Questions, Round
<1> HIDE DEF s
<1>3. /\ Len(WithQuestions(s, r)) = Len(s) + 1
      /\ \A i \in 1..Len(s) : WithQuestions(s, r)[i] = s[i]
      /\ WithQuestions(s, r)[Len(s) + 1] = Round(r)
  BY <1>1, WithQuestionsFacts
<1>4. Len(s) \in 0..1
  BY <1>1
<1> QED
  BY <1>2, <1>3, <1>4 DEF s

LEMMA QuestionsFollow == ASSUME IInv, Faithful, NEW r \in RunIds, Questions(r) PROVE Faithful'
<1> DEFINE e == execs[r]
           h == [e EXCEPT !.pc = "finish", !.status = "succeeded"]
<1>1. e \in Exec /\ e.pc = "ask" /\ e.rounds \in RoundLists /\ Len(e.rounds) \in 0..2
  BY RoundListFacts DEF IInv, TypeOK, Exec, Questions, At
<1>2. Len(e.rounds) < 2 /\ Recalls(e)
  BY <1>1 DEF IInv, Asks, Faithful, Follows, Loaded, MAX_CLARIFICATION_ROUNDS
<1>3. h \in Exec /\ h.pc = "finish"
  BY <1>1 DEF Exec
<1>4. Moves(r, h)
  BY <1>1, <1>3 DEF Questions, Busy, At, Go, Moves
<1>5. execs'[r] = h /\ Store!Exists(r)
  BY <1>4, MovesFacts DEF IInv, Solo, Moves, Store!IsActive, Store!Exists, Store!ActiveStatuses
<1>6. /\ Len(pending') = Len(e.rounds) + 1
      /\ \A i \in 1..Len(e.rounds) : pending'[i] = e.rounds[i]
      /\ pending'[Len(e.rounds) + 1].asked = r
  BY QuestionsFacts
<1>7. /\ \A q \in RunIds : Store!Exists(q)' <=> Store!Exists(q)
      /\ current' = current /\ SpecOf(current)' = SpecOf(current)
  BY DEF Questions, Store!Exists, SpecOf, objects
<1>8. Known'
  <2>1. ASSUME NEW i \in 1..Len(pending') PROVE Store!Exists(pending[i].asked)'
    <3>1. CASE i = Len(e.rounds) + 1
      BY <1>5, <1>6, <1>7, <3>1
    <3>2. CASE i # Len(e.rounds) + 1
      <4>1. i \in 1..Len(pending) /\ pending'[i].asked = pending[i].asked
        BY <1>1, <1>2, <1>6, <3>2 DEF Recalls
      <4> QED
        BY <1>7, <4>1, PendingFacts DEF Faithful, Known, IInv
    <3> QED
      BY <3>1, <3>2
  <2>2. ASSUME current # 0 PROVE Store!Exists(SpecOf(current))'
    <3>1. SpecOf(current) \in RunIds
      BY <2>2, SpecOfFacts DEF IInv, CurrentSpecComplete, SpecOf, FileNames, SpecFiles, RunIds
    <3> QED
      BY <1>7, <2>2, <3>1 DEF Faithful, Known
  <2> QED
    BY <1>7, <2>1, <2>2 DEF Known
<1>9. Follows(r)'
  <2> HIDE DEF h
  <2> QED
    BY <1>3, <1>4, <1>5, <1>7 DEF Faithful, Follows, Moves, Unloaded, Loaded
<1> QED
  BY <1>4, <1>7, <1>8, <1>9, MovesFollow

LEMMA WriteFileFollows == ASSUME IInv, Faithful, NEW r \in RunIds, WriteFile(r) PROVE Faithful'
<1> DEFINE e == execs[r]
           f == SpecFiles[e.file]
           h == [e EXCEPT !.pc = AfterFile(e), !.file = @ + 1]
<1>1. /\ e \in Exec /\ e.pc = "write" /\ e.file \in 1..4 /\ e.version \in Versions
      /\ current < e.version /\ Recalls(e)
  BY DEF IInv, TypeOK, WriteFile, At, Writes, Faithful, Follows, Loaded
<1>2. /\ h \in Exec /\ h.version = e.version /\ h.rounds = e.rounds /\ h.answers = e.answers
      /\ h.pc = IF e.file = 4 THEN "publish" ELSE "write"
  <2>1. AfterFile(e) = IF e.file = 4 THEN "publish" ELSE "write"
    BY DEF AfterFile
  <2>2. e.file + 1 \in 1..5
    BY <1>1
  <2> QED
    BY <1>1, <2>1, <2>2 DEF Exec
<1>3. Moves(r, h)
  BY <1>1, <1>2 DEF WriteFile, Busy, At, Go, Moves
<1>4. e.file = 4 => held'[e.version] = e.rounds
  <2>1. e.file = 4 => f = "clarifications"
    BY DEF SpecFiles
  <2> QED
    BY <1>1, <2>1 DEF WriteFile, IInv, TypeOK
<1>5. /\ \A q \in RunIds : Store!Exists(q)' <=> Store!Exists(q)
      /\ pending' = pending /\ current' = current
  BY DEF WriteFile, Store!Exists
<1>6. SpecOf(current)' = SpecOf(current)
  BY <1>1 DEF WriteFile, SpecOf, IInv, TypeOK, Versions
<1> HIDE DEF h
<1>7. Recalls(h)
  BY <1>1, <1>2 DEF Recalls
<1>8. h.pc = "publish" => held'[h.version] = h.rounds
  BY <1>1, <1>2, <1>4
<1> QED
  BY <1>1, <1>2, <1>3, <1>5, <1>6, <1>7, <1>8, QuietFollow DEF Unloaded, Loaded

\* The spec a draft publishes is its own.
LEMMA PublishSpec ==
    ASSUME IInv, NEW r \in RunIds, Publish(r)
    PROVE  /\ current' = execs[r].version /\ current' \in Versions
           /\ SpecOf(current)' = r
           /\ files'[current']["poc_spec"] = r
<1>1. "poc_spec" \in FileNames
  BY DEF FileNames, SpecFiles
<1> QED
  BY <1>1 DEF IInv, Publish, At, Writes, SpecOf, objects, Versions

LEMMA PublishFollows == ASSUME IInv, Faithful, NEW r \in RunIds, Publish(r) PROVE Faithful'
<1> DEFINE h == [execs[r] EXCEPT !.pc = "ready"]
<1>1. execs[r] \in Exec /\ execs[r].pc = "publish" /\ Recalls(execs[r])
  BY DEF IInv, TypeOK, Publish, At, Faithful, Follows, Loaded
<1>2. h \in Exec /\ h.pc = "ready" /\ h.rounds = execs[r].rounds /\ h.answers = execs[r].answers
  BY <1>1 DEF Exec
<1>3. Moves(r, h)
  BY <1>1, <1>2 DEF Publish, Busy, At, Goto, Go, Moves
<1>4. execs'[r] = h /\ Store!Exists(r)
  BY <1>3, MovesFacts DEF IInv, Solo, Moves, Store!IsActive, Store!Exists, Store!ActiveStatuses
<1>5. (\A q \in RunIds : Store!Exists(q)' <=> Store!Exists(q)) /\ pending' = pending
  BY DEF Publish, Store!Exists
<1>6. Known'
  <2>1. Store!Exists(SpecOf(current))'
    BY <1>4, <1>5, PublishSpec
  <2>2. \A i \in 1..Len(pending) : Store!Exists(pending[i].asked)'
    BY <1>5, PendingFacts DEF IInv, Faithful, Known
  <2> QED
    BY <1>5, <2>1, <2>2 DEF Known
<1> HIDE DEF h
<1>7. Recalls(execs[r])'
  BY <1>1, <1>2, <1>4, <1>5 DEF Recalls
<1>8. Follows(r)'
  BY <1>1, <1>2, <1>3, <1>4, <1>5, <1>7, PublishSpec
     DEF Faithful, Follows, Moves, Unloaded, Loaded
<1> QED
  BY <1>3, <1>5, <1>6, <1>8, MovesFollow

LEMMA SpecReadyFollows == ASSUME IInv, Faithful, NEW r \in RunIds, SpecReady(r) PROVE Faithful'
<1> DEFINE h == [execs[r] EXCEPT !.pc = "close"]
<1>1. execs[r] \in Exec /\ execs[r].pc = "ready" /\ Recalls(execs[r])
  BY DEF IInv, TypeOK, SpecReady, At, Faithful, Follows, Loaded
<1>2. h \in Exec /\ h.pc = "close" /\ h.rounds = execs[r].rounds /\ h.answers = execs[r].answers
  BY <1>1 DEF Exec
<1>3. Moves(r, h)
  BY <1>1, <1>2 DEF SpecReady, Busy, At, Goto, Go, Moves
<1>4. /\ \A q \in RunIds : Store!Exists(q)' <=> Store!Exists(q)
      /\ pending' = pending /\ current' = current /\ SpecOf(current)' = SpecOf(current)
  BY DEF SpecReady, Store!Exists, SpecOf, objects
<1> HIDE DEF h
<1>5. Recalls(h)
  BY <1>1, <1>2 DEF Recalls
<1> QED
  BY <1>1, <1>2, <1>3, <1>4, <1>5, QuietFollow DEF Unloaded, Loaded

LEMMA TombstoneFollows == ASSUME IInv, Faithful, NEW r \in RunIds, Tombstone(r) PROVE Faithful'
<1> DEFINE h == [execs[r] EXCEPT !.pc = "finish", !.status = "succeeded"]
<1>1. execs[r] \in Exec /\ execs[r].pc = "close"
  BY DEF IInv, TypeOK, Tombstone, At
<1>2. h \in Exec /\ h.pc = "finish"
  BY <1>1 DEF Exec
<1>3. Moves(r, h)
  BY <1>1, <1>2 DEF Tombstone, Busy, At, Go, Moves
<1>4. execs'[r] = h
  BY <1>3, MovesFacts DEF IInv
<1>5. /\ \A q \in RunIds : Store!Exists(q)' <=> Store!Exists(q)
      /\ pending' \in {<<>>, pending} /\ current' = current /\ SpecOf(current)' = SpecOf(current)
  BY DEF Tombstone, Store!Exists, SpecOf, objects
<1>6. Known'
  <2>1. \A i \in 1..Len(pending') : Store!Exists(pending[i].asked)'
    <3>1. CASE pending' = <<>>
      BY <3>1, EmptyRoundList
    <3>2. CASE pending' = pending
      BY <1>5, <3>2, PendingFacts DEF IInv, Faithful, Known
    <3> QED
      BY <1>5, <3>1, <3>2
  <2>2. ASSUME current # 0 PROVE Store!Exists(SpecOf(current))'
    <3>1. SpecOf(current) \in RunIds
      BY <2>2, SpecOfFacts DEF IInv, CurrentSpecComplete, SpecOf, FileNames, SpecFiles, RunIds
    <3> QED
      BY <1>5, <2>2, <3>1 DEF Faithful, Known
  <2> QED
    BY <1>5, <2>1, <2>2 DEF Known
<1> HIDE DEF h
<1>7. Follows(r)'
  BY <1>2, <1>3, <1>4, <1>5 DEF Faithful, Follows, Moves, Unloaded, Loaded
<1> QED
  BY <1>3, <1>5, <1>6, <1>7, MovesFollow

LEMMA NextFaithful == IInv /\ Faithful /\ [Next]_vars => Faithful'
<1> SUFFICES ASSUME IInv, Faithful, [Next]_vars PROVE Faithful'
  OBVIOUS
<1>1. CASE UserStarts
  BY <1>1, StartFollows DEF UserStarts
<1>2. ASSUME NEW r \in RunIds, RetryDraft(r) \/ Silence(r) PROVE Faithful'
  <2>1. \A q \in RunIds : Store!Exists(q)' <=> Store!Exists(q)
    BY <1>2 DEF RetryDraft, Silence, Store!AbandonRun, Store!GoSilent, Store!Write, Store!Exists,
       IInv, TypeOK, Store!TypeOK, Store!RunDoc
  <2>2. UNCHANGED <<pending, current, objects, execs>>
    BY <1>2 DEF RetryDraft, Silence
  <2> QED
    BY <2>1, <2>2, IdleRunFollows
<1>3. ASSUME NEW r \in RunIds, Works(r) \/ NodeFails(r) \/ Die(r) PROVE Faithful'
  BY <1>3, EdgeFollows, LoadFollows, NodeFollows, QuestionsFollow, WriteFileFollows,
     PublishFollows, SpecReadyFollows, TombstoneFollows DEF Works
<1>4. CASE UNCHANGED vars
  <2>1. \A q \in RunIds : Store!Exists(q)' <=> Store!Exists(q)
    BY <1>4 DEF vars, Store!Exists
  <2> QED
    BY <1>4, <2>1, IdleRunFollows DEF vars, objects
<1> QED
  BY <1>1, <1>2, <1>3, <1>4 DEF Next

LEMMA FaithfulAlways == ASSUME ReadErrors = FALSE PROVE Spec => []Faithful
<1>1. Init => Faithful
  BY InitFaithful
<1> QED
  BY <1>1, NextFaithful, Inductive, PTL DEF Spec

(***************************************************************************)
(* What the steps do to the interview                                      *)
(***************************************************************************)

\* Only these three steps change what is pending or which spec is current.
LEMMA InterviewMoves ==
    ASSUME IInv, [Next]_vars
    PROVE  \/ \E r \in RunIds : Questions(r) \/ Publish(r) \/ Tombstone(r)
           \/ pending' = pending /\ current' = current /\ SpecOf(current)' = SpecOf(current)
<1>1. CASE UserStarts
  BY <1>1 DEF UserStarts, StartDraft, SpecOf, objects
<1>2. ASSUME NEW r \in RunIds, WriteFile(r)
      PROVE  pending' = pending /\ current' = current /\ SpecOf(current)' = SpecOf(current)
  BY <1>2 DEF WriteFile, At, Writes, SpecOf, IInv, TypeOK, Versions
<1>3. ASSUME NEW r \in RunIds,
             \/ RetryDraft(r) \/ Silence(r) \/ StartRun(r) \/ Load(r) \/ Analyze(r) \/ Generate(r)
             \/ SpecReady(r) \/ Finish(r) \/ NodeFails(r) \/ Die(r)
      PROVE  pending' = pending /\ current' = current /\ SpecOf(current)' = SpecOf(current)
  BY <1>3 DEF RetryDraft, Silence, StartRun, Load, Analyze, Generate, SpecReady, Finish,
     NodeFails, Die, SpecOf, objects
<1>4. CASE UNCHANGED vars
  BY <1>4 DEF vars, SpecOf
<1> QED
  BY <1>1, <1>2, <1>3, <1>4 DEF Next, Works

(* The pending file never loses a round or an answer before a spec was     *)
(* made from it, for any number of drafts: who overwrites the file has     *)
(* loaded it, and nobody wrote it since.                                   *)
THEOREM PendingKept == ASSUME ReadErrors = FALSE PROVE Spec => AnswersKept
<1>1. ASSUME IInv, Faithful, [Next]_vars
      PROVE  pending' = pending \/ pending' = <<>> \/ Covers(pending', pending)
  <2>1. ASSUME NEW r \in RunIds, Questions(r) PROVE Covers(pending', pending)
    <3>1. Recalls(execs[r])
      BY <1>1, <2>1 DEF Questions, At, Faithful, Follows, Loaded
    <3>2. /\ Len(execs[r].rounds) \in 0..1 /\ Len(pending') = Len(execs[r].rounds) + 1
          /\ \A i \in 1..Len(execs[r].rounds) : pending'[i] = execs[r].rounds[i]
      BY <1>1, <2>1, QuestionsFacts
    <3> QED
      BY <3>1, <3>2 DEF Covers, Recalls
  <2>2. ASSUME NEW r \in RunIds, Tombstone(r) PROVE pending' = pending \/ pending' = <<>>
    BY <2>2 DEF Tombstone
  <2>3. ASSUME NEW r \in RunIds, Publish(r) PROVE pending' = pending
    BY <2>3 DEF Publish
  <2> QED
    BY <1>1, <2>1, <2>2, <2>3, InterviewMoves
<1>2. IInv /\ Faithful /\ [Next]_vars => [pending' # <<>> => Covers(pending', pending)]_pending
  BY <1>1
<1> QED
  BY <1>2, Inductive, FaithfulAlways, PTL DEF Spec, AnswersKept

(* A spec is published with the whole interview: every round still pending *)
(* is in the version's clarifications file with the answers recorded and   *)
(* the one this draft brought, although it loaded them several tools ago.  *)
THEOREM SpecKeepsInterview == ASSUME ReadErrors = FALSE PROVE Spec => SpecFromInterview
<1>1. ASSUME IInv, Faithful, [Next]_vars, current' # current
      PROVE  LET kept == held'[current']
                 r    == files'[current']["poc_spec"] IN
             /\ Covers(kept, pending)
             /\ \A i \in 1..Len(kept) : i = execs[r].answers => kept[i].answered
  <2>1. PICK r \in RunIds : Publish(r)
    BY <1>1, InterviewMoves DEF Questions, Tombstone
  <2>2. current' = execs[r].version /\ files'[current']["poc_spec"] = r
    BY <1>1, <2>1, PublishSpec
  <2>3. held'[current'] = execs[r].rounds /\ Recalls(execs[r])
    BY <1>1, <2>1, <2>2 DEF Publish, At, Faithful, Follows, Loaded, objects
  <2>4. Len(pending) \in Nat
    BY <1>1, PendingFacts DEF IInv
  <2> QED
    BY <2>2, <2>3, <2>4 DEF Recalls, Covers
<1>2. IInv /\ Faithful /\ [Next]_vars =>
         [current' # current =>
            LET kept == held'[current']
                r    == files'[current']["poc_spec"] IN
            /\ Covers(kept, pending)
            /\ \A i \in 1..Len(kept) : i = execs[r].answers => kept[i].answered]_vars
  BY <1>1
<1> QED
  BY <1>2, Inductive, FaithfulAlways, PTL DEF Spec, SpecFromInterview

(* The draft agent implements the interview for any number of drafts and   *)
(* faults: at most MAX_CLARIFICATION_ROUNDS - 1 rounds before a spec, only *)
(* a later draft's spec in place of a spec, and no question dropped before *)
(* a spec was made after it.                                               *)
THEOREM DraftRefinesInterview == ASSUME ReadErrors = FALSE PROVE Spec => ImplementsInterview
<1> DEFINE asked == [i \in 1..Len(pending) |-> pending[i].asked]
<1>1. Init => Promise!Init
  <2> SUFFICES ASSUME Init PROVE asked = <<>> /\ SpecOf(current) = 0
    BY DEF Promise!Init
  <2>1. pending = <<>> /\ SpecOf(current) = 0
    BY DEF Init, SpecOf
  <2> QED
    BY <2>1
<1>2. IInv /\ Faithful /\ [Next]_vars => [Promise!Next]_<<asked, SpecOf(current)>>
  <2> SUFFICES ASSUME IInv, Faithful, [Next]_vars
               PROVE  Promise!Next \/ UNCHANGED <<asked, SpecOf(current)>>
    OBVIOUS
  <2>1. Len(pending) \in 0..2 /\ \A i \in 1..Len(pending) : pending[i].asked \in RunIds
    BY PendingFacts DEF IInv
  <2>2. asked \in Seq(RunIds) /\ Len(asked) = Len(pending)
    BY <2>1
  <2>3. ASSUME NEW r \in RunIds, Questions(r) PROVE Promise!Ask(r)
    <3>1. Recalls(execs[r]) /\ \A i \in 1..Len(pending) : pending[i].asked < r
      BY <2>3 DEF Questions, At, Faithful, Follows, Loaded
    <3>2. /\ Len(pending) \in 0..1 /\ Len(pending') = Len(pending) + 1
          /\ \A i \in 1..Len(pending) : pending'[i].asked = pending[i].asked
          /\ pending'[Len(pending) + 1].asked = r
      BY <2>3, <3>1, QuestionsFacts DEF Recalls
    <3>3. [i \in 1..Len(pending') |-> pending'[i].asked] = Append(asked, r)
      <4> DEFINE s == [i \in 1..Len(pending') |-> pending'[i].asked]
                 t == Append(asked, r)
      <4>1. t \in Seq(RunIds) /\ Len(t) = Len(pending) + 1
        BY <2>2
      <4>2. /\ \A i \in 1..Len(pending) : t[i] = pending[i].asked
            /\ t[Len(pending) + 1] = r
        BY <2>2
      <4>3. s \in Seq(RunIds) /\ Len(s) = Len(pending) + 1
        BY <2>1, <3>2
      <4>4. \A i \in 1..Len(pending) + 1 : s[i] = t[i]
        BY <3>2, <4>2
      <4> QED
        BY <4>1, <4>3, <4>4, SeqEqual
    <3>4. SpecOf(current)' = SpecOf(current)
      BY <2>3 DEF Questions, SpecOf, objects
    <3>5. \A i \in 1..Len(asked) : asked[i] < r
      BY <2>2, <3>1
    <3> QED
      BY <2>2, <3>2, <3>3, <3>4, <3>5 DEF Promise!Ask, MAX_CLARIFICATION_ROUNDS
  <2>4. ASSUME NEW r \in RunIds, Publish(r) PROVE Promise!Publish(r)
    <3>1. SpecOf(current) < r /\ \A i \in 1..Len(pending) : pending[i].asked < r
      BY <2>4 DEF Publish, At, Faithful, Follows, Loaded
    <3>2. SpecOf(current)' = r /\ pending' = pending
      BY <2>4, PublishSpec DEF Publish
    <3> QED
      BY <2>2, <3>1, <3>2 DEF Promise!Publish
  <2>5. ASSUME NEW r \in RunIds, Tombstone(r)
        PROVE  Promise!Close \/ UNCHANGED <<asked, SpecOf(current)>>
    <3>1. SpecOf(current) = r /\ \A i \in 1..Len(pending) : pending[i].asked < r
      BY <2>5 DEF Tombstone, At, Faithful, Follows, Loaded
    <3>2. SpecOf(current)' = SpecOf(current) /\ (pending' = <<>> \/ pending' = pending)
      BY <2>5 DEF Tombstone, SpecOf, objects
    <3>3. CASE pending' = <<>>
      <4>1. asked' = <<>>
        BY <3>3
      <4> QED
        BY <2>2, <3>1, <3>2, <4>1 DEF Promise!Close
    <3>4. CASE pending' = pending
      BY <3>2, <3>4
    <3> QED
      BY <3>2, <3>3, <3>4
  <2> QED
    BY <2>3, <2>4, <2>5, InterviewMoves DEF Promise!Next
<1> QED
  BY <1>1, <1>2, Inductive, FaithfulAlways, PTL DEF Spec, ImplementsInterview, Promise!Spec
=============================================================================

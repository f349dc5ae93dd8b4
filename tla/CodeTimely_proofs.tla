------------------------- MODULE CodeTimely_proofs -------------------------
(***************************************************************************)
(* What the timing assumptions buy, for one user: a run has one carrier at *)
(* a time, which is the execution that drives it or the invocation that    *)
(* asks for it to be continued.  No lock says so.  The argument is the one *)
(* the code relies on: whoever carries a run keeps it from falling silent, *)
(* a run is abandoned only when it is silent, it is continued only by its  *)
(* last execution, which ends, or after it failed, and a chat turn waits   *)
(* for the invocation it sent before the next one can send another.        *)
(*                                                                         *)
(* From there: what the tasks of a step can be, what a published version   *)
(* is made of, and that versions only go forward.                          *)
(***************************************************************************)
EXTENDS CodeSystem_proofs

\* The assumptions: the timing of Timely, an invoke that raises has started
\* nothing, and one tab talks to the chat agent.
Punctual == Timely /\ ~Ambiguous /\ \A u, w \in Users : u = w

Continues(s, r) == mail[s].tool = "continue" /\ mail[s].run = r

OneCarrier ==
    /\ SingleDriver
    /\ \A s \in Mailbox, e \in Execs : Driving(e) => ~Continues(s, execs[e].run)
    /\ \A s, q \in Mailbox : (mail[s].tool = "continue" /\ Continues(q, mail[s].run)) => s = q

DriversBeat ==
    \A e \in Execs : Driving(e) => Store!IsActive(execs[e].run) /\ ~runs[execs[e].run].silent

\* The user asks for a run to be continued that has failed, an execution for
\* the one it drove.
RequestsFresh ==
    \A s \in Mailbox : mail[s].tool = "continue" =>
        /\ ~runs[mail[s].run].silent
        /\ mail[s].from \in Users \/ Store!IsActive(mail[s].run)

CallsStale     == \A u \in Users : chat[u] # NoCall => Store!IsStale(chat[u].run)
OnlyActiveFall == \A r \in RunIds : runs[r].silent => Store!IsActive(r)

TimelyInv == OneCarrier /\ DriversBeat /\ RequestsFresh /\ CallsStale /\ OnlyActiveFall

Inv == SystemInv /\ TimelyInv

(***************************************************************************)
(* What a step may do to carriers                                          *)
(***************************************************************************)

LEMMA CarriersRun ==
    ASSUME SystemInv
    PROVE  /\ \A e \in Execs : Driving(e) => execs[e].run \in RunIds /\ Store!Exists(execs[e].run)
           /\ \A s \in Mailbox : mail[s].tool = "continue" =>
                 mail[s].run \in RunIds /\ Store!Exists(mail[s].run)
           /\ \A u \in Users : chat[u] # NoCall => chat[u].run \in RunIds
BY PlacedFacts DEF SystemInv, Carried, Driving, At, MailSane, SaneMessage, CallsSane

\* A step that changes no run, and at most loses carriers.
LEMMA QuietTimely ==
    ASSUME Inv, UNCHANGED runs,
           \A e \in Execs : Driving(e)' => Driving(e) /\ execs'[e].run = execs[e].run,
           \A s \in Mailbox : mail'[s].tool = "continue" => mail'[s] = mail[s],
           \A u \in Users : chat'[u] # NoCall => chat'[u] = chat[u] \/ Store!IsStale(chat'[u].run)
    PROVE  TimelyInv'
<1>1. OneCarrier'
  BY DEF Inv, TimelyInv, OneCarrier, SingleDriver, Continues
<1>2. DriversBeat' /\ RequestsFresh'
  BY DEF Inv, TimelyInv, DriversBeat, RequestsFresh, Store!IsActive
<1>3. CallsStale' /\ OnlyActiveFall'
  BY DEF Inv, TimelyInv, CallsStale, OnlyActiveFall, Store!IsStale, Store!IsActive
<1> QED
  BY <1>1, <1>2, <1>3 DEF TimelyInv

\* A step that changes one run and its carriers.
OtherCarriers(r) ==
    /\ \A q \in RunIds \ {r} : runs'[q] = runs[q]
    /\ \A e \in Execs : Driving(e)' =>
          execs'[e].run = r \/ (Driving(e) /\ execs'[e].run = execs[e].run)
    /\ \A s \in Mailbox : mail'[s].tool = "continue" => mail'[s].run = r \/ mail'[s] = mail[s]
    /\ \A u \in Users : chat'[u] # NoCall => chat'[u] = chat[u] /\ chat[u].run # r

CarrierOf(r) ==
    /\ \A e, f \in Execs :
          (Driving(e) /\ Driving(f) /\ execs[e].run = r /\ execs[f].run = r) => e = f
    /\ \A s \in Mailbox, e \in Execs : (Driving(e) /\ execs[e].run = r) => ~Continues(s, r)
    /\ \A s, q \in Mailbox : (Continues(s, r) /\ Continues(q, r)) => s = q
    /\ \A e \in Execs : (Driving(e) /\ execs[e].run = r) => Store!IsActive(r) /\ ~runs[r].silent
    /\ \A s \in Mailbox : Continues(s, r) =>
          ~runs[r].silent /\ (mail[s].from \in Users \/ Store!IsActive(r))
    /\ runs[r].silent => Store!IsActive(r)

LEMMA CarrierTimely ==
    ASSUME Inv, NEW r \in RunIds, OtherCarriers(r), CarrierOf(r)'
    PROVE  TimelyInv'
<1>1. \A e \in Execs : (Driving(e)' /\ execs'[e].run # r) =>
         /\ Driving(e) /\ execs'[e].run = execs[e].run
         /\ execs[e].run \in RunIds \ {r} /\ runs'[execs[e].run] = runs[execs[e].run]
  BY CarriersRun DEF OtherCarriers, Inv
<1>2. \A s \in Mailbox : (mail'[s].tool = "continue" /\ mail'[s].run # r) =>
         /\ mail'[s] = mail[s]
         /\ mail[s].run \in RunIds \ {r} /\ runs'[mail[s].run] = runs[mail[s].run]
  BY CarriersRun DEF OtherCarriers, Inv
<1>3. SingleDriver'
  <2> SUFFICES ASSUME NEW e \in Execs, NEW f \in Execs, Driving(e)', Driving(f)',
                      execs'[e].run = execs'[f].run
               PROVE  e = f
    BY DEF SingleDriver
  <2>1. CASE execs'[e].run = r
    BY <2>1 DEF CarrierOf
  <2>2. CASE execs'[e].run # r
    BY <1>1, <2>2 DEF Inv, TimelyInv, OneCarrier, SingleDriver
  <2> QED
    BY <2>1, <2>2
<1>4. ASSUME NEW s \in Mailbox, NEW e \in Execs, Driving(e)', Continues(s, execs[e].run)'
      PROVE  FALSE
  <2>1. CASE execs'[e].run = r
    BY <1>4, <2>1 DEF CarrierOf, Continues
  <2>2. CASE execs'[e].run # r
    BY <1>1, <1>2, <1>4, <2>2 DEF Inv, TimelyInv, OneCarrier, Continues
  <2> QED
    BY <2>1, <2>2
<1>5. ASSUME NEW s \in Mailbox, NEW q \in Mailbox, mail'[s].tool = "continue",
             Continues(q, mail[s].run)'
      PROVE  s = q
  <2>1. CASE mail'[s].run = r
    BY <1>5, <2>1 DEF CarrierOf, Continues
  <2>2. CASE mail'[s].run # r
    BY <1>2, <1>5, <2>2 DEF Inv, TimelyInv, OneCarrier, Continues
  <2> QED
    BY <2>1, <2>2
<1>6. OneCarrier'
  BY <1>3, <1>4, <1>5 DEF OneCarrier
<1>7. DriversBeat'
  BY <1>1 DEF CarrierOf, Inv, TimelyInv, DriversBeat, Store!IsActive
<1>8. RequestsFresh'
  BY <1>2 DEF CarrierOf, Inv, TimelyInv, RequestsFresh, Continues, Store!IsActive
<1>9. CallsStale'
  <2>1. \A u \in Users : chat'[u] # NoCall =>
           chat'[u] = chat[u] /\ chat[u].run \in RunIds \ {r} /\ runs'[chat[u].run] = runs[chat[u].run]
    BY CarriersRun DEF OtherCarriers, Inv
  <2> QED
    BY <2>1 DEF Inv, TimelyInv, CallsStale, Store!IsStale
<1>10. OnlyActiveFall'
  BY DEF CarrierOf, OtherCarriers, Inv, TimelyInv, OnlyActiveFall, Store!IsActive
<1> QED
  BY <1>6, <1>7, <1>8, <1>9, <1>10 DEF TimelyInv

(***************************************************************************)
(* What the actions do to carriers                                         *)
(***************************************************************************)

\* A write leaves the document of one run with this status, and not silent.
LEMMA WriteFacts ==
    ASSUME TypeOK, NEW r \in RunIds, NEW status, Store!Write(r, status)
    PROVE  /\ \A q \in RunIds \ {r} : runs'[q] = runs[q]
           /\ runs'[r].status = status /\ ~runs'[r].silent
BY DEF TypeOK, Store!TypeOK, Store!RunDoc, Store!Write

\* An execution writes its own run: it keeps it active, or ends with it.
LEMMA RunWrites ==
    ASSUME IInv, NEW e \in Execs, ExecutionSteps(e)
    PROVE  \/ UNCHANGED runs
           \/ Driving(e) /\ Store!TouchRun(execs[e].run)
           \/ Driving(e) /\ Store!UpdateRunStep(execs[e].run)
           \/ Driving(e) /\ Store!FinishRun(execs[e].run, "succeeded") /\ Stop(e)
           \/ Driving(e) /\ Store!FinishRun(execs[e].run, "failed") /\ Goto(e, "failpoc")
<1>1. CASE At(e, "failpoc")
  BY <1>1
     DEF ExecutionSteps, Works, Breaks, Load, StepNode, WaitNode, EndNode, LoadStored, Allocate,
         Persist, StepStart, StepDone, StepAttach, StepGiveUp, BeginTask, FireCoder, WaitWindow,
         EndTaskSucceeded, WaitEnds, EndTaskFailed, Assemble, RecordBundle, Publish,
         FinishSucceeded, FinishFailed, FailPoc, LoadFails, FireRaises, AssembleFails, Die,
         HandOver, HandOverFails, At
<1>2. CASE ~At(e, "failpoc")
  <2>1. Driving(e)
    BY <1>2, ExecsEffect DEF Driving, At
  <2> QED
    BY <2>1
       DEF ExecutionSteps, Works, Breaks, Load, StepNode, WaitNode, EndNode, LoadStored, Allocate,
           Persist, StepStart, StepDone, StepAttach, StepGiveUp, BeginTask, FireCoder, WaitWindow,
           EndTaskSucceeded, WaitEnds, EndTaskFailed, Assemble, RecordBundle, Publish,
           FinishSucceeded, FinishFailed, FailPoc, LoadFails, FireRaises, AssembleFails, Die,
           HandOver, HandOverFails, RecordFailure, Refused
<1> QED
  BY <1>1, <1>2

\* The end of a failed run is behind an execution that marks the POC failed.
LEMMA FailpocEnds ==
    ASSUME IInv, NEW e \in Execs, ExecutionSteps(e), At(e, "failpoc")
    PROVE  UNCHANGED runs /\ Stop(e)
BY DEF ExecutionSteps, Works, Breaks, Load, StepNode, WaitNode, EndNode, LoadStored, Allocate,
       Persist, StepStart, StepDone, StepAttach, StepGiveUp, BeginTask, FireCoder, WaitWindow,
       EndTaskSucceeded, WaitEnds, EndTaskFailed, Assemble, RecordBundle, Publish,
       FinishSucceeded, FinishFailed, FailPoc, LoadFails, FireRaises, AssembleFails, Die,
       HandOver, HandOverFails, At

LEMMA StoppedDrives ==
    ASSUME IInv, NEW e \in Execs, Stop(e) \/ Goto(e, "failpoc")
    PROVE  ~Driving(e)'
BY DEF IInv, TypeOK, Exec, Stop, Goto, Off, Driving

\* The run of an execution after a step of it.
LEMMA DrivenRun ==
    ASSUME Inv, NEW e \in Execs, ExecutionSteps(e), NEW r \in RunIds, execs[e].run = r
    PROVE  /\ \A q \in RunIds \ {r} : runs'[q] = runs[q]
           /\ Driving(e)' => Driving(e) /\ execs'[e].run = r
           /\ ~Driving(e) => UNCHANGED runs
           /\ Driving(e) => ~runs'[r].silent
           /\ Driving(e) /\ (Driving(e)' \/ UNCHANGED runs) => Store!IsActive(r)'
           /\ HandOver(e) => Store!IsActive(r)'
<1>1. TypeOK /\ IInv
  BY DEF Inv, SystemInv, Carried, IInv
<1>2. ~At(e, "off") /\ StaysOrStops(e)
  BY <1>1, ExecsEffect
<1>3. Driving(e) => Store!IsActive(r) /\ ~runs[r].silent
  BY DEF Inv, TimelyInv, DriversBeat
<1>4. Driving(e)' => Driving(e) /\ execs'[e].run = r
  BY <1>1, <1>2, FailpocEnds, StoppedDrives DEF StaysOrStops, Driving, At
<1>5. HandOver(e) => Driving(e) /\ Store!TouchRun(r)
  BY DEF HandOver, Driving, At
<1>6. CASE UNCHANGED runs
  BY <1>5, <1>3, <1>4, <1>6 DEF Store!IsActive
<1>7. CASE Driving(e) /\ Store!TouchRun(r)
  <2>1. /\ \A q \in RunIds \ {r} : runs'[q] = runs[q]
        /\ runs'[r].status = runs[r].status /\ ~runs'[r].silent
    BY <1>1, <1>7, WriteFacts DEF Store!TouchRun
  <2> QED
    BY <1>3, <1>4, <1>7, <2>1 DEF Store!IsActive
<1>8. CASE Driving(e) /\ Store!UpdateRunStep(r)
  <2>1. /\ \A q \in RunIds \ {r} : runs'[q] = runs[q]
        /\ runs'[r].status = "running" /\ ~runs'[r].silent
    BY <1>1, <1>8, WriteFacts DEF Store!UpdateRunStep
  <2> QED
    BY <1>4, <1>8, <2>1 DEF Store!IsActive, Store!ActiveStatuses
<1>9. ASSUME Driving(e), NEW status \in {"succeeded", "failed"}, Store!FinishRun(r, status),
             Stop(e) \/ Goto(e, "failpoc"), ~HandOver(e), runs' # runs
      PROVE  /\ \A q \in RunIds \ {r} : runs'[q] = runs[q]
             /\ Driving(e)' => Driving(e) /\ execs'[e].run = r
             /\ ~Driving(e) => UNCHANGED runs
             /\ Driving(e) => ~runs'[r].silent
             /\ Driving(e) /\ (Driving(e)' \/ UNCHANGED runs) => Store!IsActive(r)'
             /\ HandOver(e) => Store!IsActive(r)'
  <2>1. /\ \A q \in RunIds \ {r} : runs'[q] = runs[q]
        /\ ~runs'[r].silent
    BY <1>1, <1>9, WriteFacts DEF Store!FinishRun
  <2>2. ~Driving(e)'
    BY <1>1, <1>9, StoppedDrives
  <2> QED
    BY <1>9, <2>1, <2>2
<1>10. \/ UNCHANGED runs
       \/ Driving(e) /\ Store!TouchRun(r)
       \/ Driving(e) /\ Store!UpdateRunStep(r)
       \/ Driving(e) /\ Store!FinishRun(r, "succeeded") /\ Stop(e)
       \/ Driving(e) /\ Store!FinishRun(r, "failed") /\ Goto(e, "failpoc")
  BY <1>1, RunWrites
<1>11. CASE Driving(e) /\ Store!FinishRun(r, "succeeded") /\ Stop(e) /\ ~HandOver(e) /\ runs' # runs
  BY <1>9, <1>11
<1>12. CASE Driving(e) /\ Store!FinishRun(r, "failed") /\ Goto(e, "failpoc") /\ ~HandOver(e) /\ runs' # runs
  BY <1>9, <1>12
<1> QED
  BY <1>5, <1>6, <1>7, <1>8, <1>10, <1>11, <1>12

LEMMA ExecutionTimely ==
    ASSUME Inv, Punctual, NEW e \in Execs, Execution(e)
    PROVE  TimelyInv'
<1>1. ExecutionSteps(e) /\ UNCHANGED chat
  BY DEF Execution, OnlyCode, HandOverSends, HandOverRaises, ExecutionSteps
<1>2. IInv /\ ~At(e, "off") /\ StaysOrStops(e)
  BY <1>1, ExecsEffect DEF Inv, SystemInv, Carried
<1>3. PICK r \in RunIds : execs[e].run = r
  BY <1>2, PlacedFacts
<1>4. UNCHANGED mail \/ (HandOver(e) /\ Post(ContinueRequest("self", r)))
  BY <1>3 DEF Execution, OnlyCode, HandOverSends, HandOverRaises, Punctual
<1>5. /\ \A q \in RunIds \ {r} : runs'[q] = runs[q]
      /\ Driving(e)' => Driving(e) /\ execs'[e].run = r
      /\ ~Driving(e) => UNCHANGED runs
      /\ Driving(e) => ~runs'[r].silent
      /\ Driving(e) /\ (Driving(e)' \/ UNCHANGED runs) => Store!IsActive(r)'
      /\ HandOver(e) => Store!IsActive(r)'
  BY <1>1, <1>3, DrivenRun
<1>6. \A d \in Execs \ {e} : execs'[d] = execs[d] /\ (Driving(d)' <=> Driving(d))
  BY <1>2 DEF StaysOrStops, Driving
<1>7. CASE ~Driving(e)
  <2>1. UNCHANGED <<runs, mail>>
    BY <1>4, <1>5, <1>7 DEF HandOver, At, Driving
  <2> QED
    BY <1>1, <1>5, <1>6, <1>7, <2>1, QuietTimely
<1>8. CASE Driving(e)
  <2>1. \A u \in Users : chat'[u] # NoCall => chat'[u] = chat[u] /\ chat[u].run # r
    BY <1>1, <1>3, <1>8 DEF Inv, TimelyInv, DriversBeat, CallsStale, Store!IsStale
  <2>2. \A s \in Mailbox : ~Continues(s, r)
    BY <1>3, <1>8 DEF Inv, TimelyInv, OneCarrier
  <2>3. \A d \in Execs \ {e} : Driving(d)' => execs'[d].run # r
    BY <1>3, <1>6, <1>8 DEF Inv, TimelyInv, OneCarrier, SingleDriver
  <2>4. CASE UNCHANGED mail
    <3>1. OtherCarriers(r)
      BY <1>3, <1>5, <1>6, <2>1, <2>4 DEF OtherCarriers
    <3>2. CarrierOf(r)'
      BY <1>5, <1>8, <2>2, <2>3, <2>4 DEF CarrierOf, Continues
    <3> QED
      BY <3>1, <3>2, CarrierTimely
  <2>5. CASE HandOver(e) /\ Post(ContinueRequest("self", r))
    <3>1. PICK s \in Mailbox : mail' = [mail EXCEPT ![s] = ContinueRequest("self", r)]
      BY <2>5 DEF Post
    <3>2. /\ \A q \in Mailbox \ {s} : mail'[q] = mail[q] /\ ~Continues(q, r)'
          /\ mail'[s] = ContinueRequest("self", r)
      BY <2>2, <3>1 DEF Continues, Inv, SystemInv, MailSane
    <3>3. ContinueRequest("self", r).run = r
      BY DEF ContinueRequest, NoMail
    <3>4. OtherCarriers(r)
      BY <1>3, <1>5, <1>6, <2>1, <3>2, <3>3 DEF OtherCarriers
    <3>5. ~Driving(e)'
      BY <1>2, <2>5, StoppedDrives DEF HandOver
    <3>6. CarrierOf(r)'
      BY <1>5, <1>8, <2>3, <2>5, <3>2, <3>5 DEF CarrierOf
    <3> QED
      BY <3>4, <3>6, CarrierTimely
  <2> QED
    BY <1>4, <2>4, <2>5
<1> QED
  BY <1>7, <1>8

\* The mailbox loses a message, or gets one that continues nothing.
LEMMA MailTimely ==
    ASSUME Inv, UNCHANGED <<runs, execs, chat>>,
           \/ UNCHANGED mail
           \/ \E s \in Mailbox : Take(s)
           \/ \E m : Post(m) /\ m.tool # "continue"
    PROVE  TimelyInv'
<1>1. mail \in [Mailbox -> Message] /\ NoMail.tool # "continue"
  BY DEF Inv, SystemInv, MailSane, NoMail
<1>2. \A s \in Mailbox : mail'[s].tool = "continue" => mail'[s] = mail[s]
  <2>1. ASSUME NEW s \in Mailbox, NEW m, mail' = [mail EXCEPT ![s] = m], m.tool # "continue"
        PROVE  \A q \in Mailbox : mail'[q].tool = "continue" => mail'[q] = mail[q]
    BY <1>1, <2>1
  <2> QED
    BY <1>1, <2>1 DEF Take, Post
<1> QED
  BY <1>2, QuietTimely DEF Driving

\* An execution enters a run that nobody carries any more.
LEMMA EnteredTimely ==
    ASSUME Inv, NEW e \in Execs, NEW r \in RunIds, At(e, "off"), Enter(e, r), UNCHANGED chat,
           \A q \in RunIds \ {r} : runs'[q] = runs[q],
           Store!IsActive(r)', ~runs'[r].silent,
           \A u \in Users : chat[u] # NoCall => chat[u].run # r,
           \A d \in Execs : Driving(d) => execs[d].run # r,
           \A s \in Mailbox : mail'[s].tool = "continue" => mail'[s] = mail[s] /\ mail[s].run # r
    PROVE  TimelyInv'
<1>1. /\ \A d \in Execs \ {e} : execs'[d] = execs[d]
      /\ execs'[e].run = r
  BY DEF Enter, Off, Inv, SystemInv, Carried, IInv, TypeOK
<1>2. OtherCarriers(r)
  BY <1>1 DEF OtherCarriers, Driving
<1>3. CarrierOf(r)'
  BY <1>1 DEF CarrierOf, Continues, Driving
<1> QED
  BY <1>2, <1>3, CarrierTimely

LEMMA CreatedFacts ==
    ASSUME IInv, NEW e \in Execs, NEW inputs, NewRun(e, inputs)
    PROVE  \E r \in RunIds :
              /\ ~Store!Exists(r) /\ At(e, "off") /\ Enter(e, r)
              /\ \A q \in RunIds \ {r} : runs'[q] = runs[q]
              /\ Store!IsActive(r)' /\ ~runs'[r].silent
<1>1. PICK r \in RunIds : Store!CreateRun(r, "code") /\ Enter(e, r)
  BY DEF NewRun
<1>2. /\ \A q \in RunIds \ {r} : runs'[q] = runs[q]
      /\ runs'[r].status = "queued" /\ ~runs'[r].silent
  BY <1>1 DEF Store!CreateRun, IInv, TypeOK, Store!TypeOK
<1> QED
  BY <1>1, <1>2 DEF NewRun, Store!CreateRun, Store!IsActive, Store!ActiveStatuses

LEMMA DeliverTimely ==
    ASSUME Inv, NEW s \in Mailbox, NEW e \in Execs, Deliver(s, e)
    PROVE  TimelyInv'
<1>1. IInv /\ mail \in [Mailbox -> Message] /\ NoMail.tool # "continue"
  BY DEF Inv, SystemInv, Carried, MailSane, NoMail
<1>2. /\ UNCHANGED chat /\ mail'[s] = NoMail
      /\ \A q \in Mailbox \ {s} : mail'[q] = mail[q]
  BY <1>1 DEF Deliver, Take
<1>3. \A u \in Users : chat[u] # NoCall => Store!IsStale(chat[u].run)
  BY DEF Inv, TimelyInv, CallsStale
<1>4. ASSUME NEW inputs, NewRun(e, inputs) PROVE TimelyInv'
  <2>1. PICK r \in RunIds :
           /\ ~Store!Exists(r) /\ At(e, "off") /\ Enter(e, r)
           /\ \A q \in RunIds \ {r} : runs'[q] = runs[q]
           /\ Store!IsActive(r)' /\ ~runs'[r].silent
    BY <1>1, <1>4, CreatedFacts
  <2>2. \A u \in Users : chat[u] # NoCall => chat[u].run # r
    BY <1>3, <2>1 DEF Store!IsStale, Store!Exists
  <2>3. \A d \in Execs : Driving(d) => execs[d].run # r
    BY <2>1, CarriersRun DEF Inv
  <2>4. \A q \in Mailbox : mail'[q].tool = "continue" => mail'[q] = mail[q] /\ mail[q].run # r
    BY <1>1, <1>2, <2>1, CarriersRun DEF Inv
  <2> QED
    BY <1>2, <2>1, <2>2, <2>3, <2>4, EnteredTimely
<1>5. CASE mail[s].tool = "continue" /\ ContinueRun(e, mail[s].run)
  <2>1. PICK r \in RunIds : mail[s].run = r
    BY <1>5, CarriersRun DEF Inv
  <2>2. Continues(s, r) /\ ~runs[r].silent
    BY <1>5, <2>1 DEF Continues, Inv, TimelyInv, RequestsFresh
  <2>3. At(e, "off") /\ Enter(e, r) /\ Store!ReopenRun(r)
    BY <1>5, <2>1 DEF ContinueRun
  <2>4. /\ \A q \in RunIds \ {r} : runs'[q] = runs[q]
        /\ runs'[r].status = "running" /\ ~runs'[r].silent
    BY <1>1, <2>3, WriteFacts DEF Store!ReopenRun, IInv
  <2>5. \A u \in Users : chat[u] # NoCall => chat[u].run # r
    BY <1>3, <2>2 DEF Store!IsStale
  <2>6. \A d \in Execs : Driving(d) => execs[d].run # r
    BY <2>2 DEF Inv, TimelyInv, OneCarrier, Continues
  <2>7. \A q \in Mailbox : mail'[q].tool = "continue" => mail'[q] = mail[q] /\ mail[q].run # r
    BY <1>1, <1>2, <1>5, <2>1 DEF Inv, TimelyInv, OneCarrier, Continues
  <2>8. Store!IsActive(r)'
    BY <2>4 DEF Store!IsActive, Store!ActiveStatuses
  <2> QED
    BY <1>2, <2>3, <2>4, <2>5, <2>6, <2>7, <2>8, EnteredTimely
<1> QED
  BY <1>4, <1>5 DEF Deliver, StartRun, RepairRun

\* A call to the chat agent that reads, or asks for a new run.
LEMMA FindTimely ==
    ASSUME Inv, NEW u \in Users, NEW call, NEW spec, FindStale(u, call, spec)
    PROVE  TimelyInv'
<1>1. /\ UNCHANGED <<runs, mail, execs>>
      /\ chat' = [chat EXCEPT ![u] = [call |-> call, run |-> NewestRun, spec |-> spec]]
      /\ Store!IsStale(NewestRun)
  BY DEF FindStale, Stale, vars, codeVars
<1>2. \A w \in Users : chat'[w] = chat[w] \/ chat'[w].run = NewestRun
  BY <1>1 DEF Inv, SystemInv, CallsSane
<1>3. \A w \in Users : chat'[w] # NoCall => chat'[w] = chat[w] \/ Store!IsStale(chat'[w].run)
  BY <1>1, <1>2
<1> QED
  BY <1>1, <1>3, QuietTimely DEF Driving

\* Nobody carries a run that is asked for by the user: what is posted for it
\* is its only carrier.
LEMMA AskedTimely ==
    ASSUME Inv, NEW r \in RunIds, NEW u \in Users, UNCHANGED execs,
           \A q \in RunIds \ {r} : runs'[q] = runs[q],
           ~runs'[r].silent,
           \A w \in Users : chat'[w] # NoCall => chat'[w] = chat[w] /\ chat[w].run # r,
           \A e \in Execs : Driving(e) => execs[e].run # r,
           \A s \in Mailbox : ~Continues(s, r),
           \/ UNCHANGED mail
           \/ \E spec : Post(StartRequest(u, spec))
           \/ Post(ContinueRequest(u, r))
    PROVE  TimelyInv'
<1>1. mail \in [Mailbox -> Message]
  BY DEF Inv, SystemInv, MailSane
<1>2. ASSUME NEW s \in Mailbox, NEW m, mail' = [mail EXCEPT ![s] = m],
             m.tool = "continue" => m.run = r /\ m.from = u
      PROVE  TimelyInv'
  <2>1. /\ \A q \in Mailbox \ {s} : mail'[q] = mail[q] /\ ~Continues(q, r)'
        /\ mail'[s] = m
    BY <1>1, <1>2 DEF Continues
  <2>2. OtherCarriers(r)
    BY <1>2, <2>1 DEF OtherCarriers, Driving
  <2>3. CarrierOf(r)'
    BY <1>2, <2>1 DEF CarrierOf, Driving, Continues
  <2> QED
    BY <2>2, <2>3, CarrierTimely
<1>3. CASE UNCHANGED mail
  <2>1. OtherCarriers(r)
    BY <1>3 DEF OtherCarriers, Driving
  <2>2. CarrierOf(r)'
    BY <1>3 DEF CarrierOf, Driving, Continues
  <2> QED
    BY <2>1, <2>2, CarrierTimely
<1>4. ASSUME NEW spec, Post(StartRequest(u, spec)) PROVE TimelyInv'
  <2>1. StartRequest(u, spec).tool # "continue"
    BY DEF StartRequest, NoMail
  <2> QED
    BY <1>2, <1>4, <2>1 DEF Post
<1>5. CASE Post(ContinueRequest(u, r))
  <2>1. ContinueRequest(u, r).run = r /\ ContinueRequest(u, r).from = u
    BY DEF ContinueRequest, NoMail
  <2> QED
    BY <1>2, <1>5, <2>1 DEF Post
<1> QED
  BY <1>3, <1>4, <1>5

\* A retry asks for the run that failed last.  Its execution asks for nothing
\* any more, and the user has no other request under way.
LEMMA RetryTimely ==
    ASSUME Inv, Punctual, NEW u \in Users, NEW spec, ChatRetry(u, spec)
    PROVE  TimelyInv'
<1>1. UNCHANGED <<runs, execs, chat>>
  BY DEF ChatRetry, vars, codeVars
<1>2. CASE NewestRun # 0 /\ Resumable(NewestRun)
  <2>1. PICK r \in RunIds : NewestRun = r
    BY <1>2, NewestIsARun
  <2>2. runs[r].status = "failed" /\ ~Store!IsActive(r)
    BY <1>2, <2>1 DEF Resumable, Store!IsActive, Store!ActiveStatuses
  <2>3. UNCHANGED mail \/ Post(ContinueRequest(u, r))
    BY <1>2, <2>1 DEF ChatRetry, Fire
  <2>4. ~runs[r].silent
    BY <2>2 DEF Inv, TimelyInv, OnlyActiveFall
  <2>5. \A w \in Users : chat[w] # NoCall => chat[w].run # r
    BY <2>2 DEF Inv, TimelyInv, CallsStale, Store!IsStale
  <2>6. \A e \in Execs : Driving(e) => execs[e].run # r
    BY <2>2 DEF Inv, TimelyInv, DriversBeat
  <2>7. ASSUME NEW s \in Mailbox, Continues(s, r) PROVE FALSE
    <3>1. mail[s].from \in Users
      BY <2>2, <2>7 DEF Inv, TimelyInv, RequestsFresh, Continues
    <3>2. mail[s].from # u
      BY DEF ChatRetry, Ready, Punctual
    <3> QED
      BY <3>1, <3>2 DEF Punctual
  <2> QED
    BY <1>1, <2>3, <2>4, <2>5, <2>6, <2>7, AskedTimely
<1>3. CASE ~(NewestRun # 0 /\ Resumable(NewestRun))
  <2>1. UNCHANGED mail \/ Post(StartRequest(u, spec))
    BY <1>3 DEF ChatRetry, Fire
  <2>2. StartRequest(u, spec).tool # "continue"
    BY DEF StartRequest, NoMail
  <2> QED
    BY <1>1, <2>1, <2>2, MailTimely
<1> QED
  BY <1>2, <1>3

\* What the call saw still holds when it abandons the run: nobody carries a
\* silent one.
LEMMA AbandonTimely ==
    ASSUME Inv, Punctual, NEW u \in Users, AbandonAndGoOn(u)
    PROVE  TimelyInv'
<1>1. PICK r \in RunIds : chat[u].run = r
  BY DEF AbandonAndGoOn, Inv, SystemInv, CallsSane
<1>2. Store!IsStale(r)
  BY <1>1 DEF AbandonAndGoOn, Inv, TimelyInv, CallsStale
<1>3. Store!AbandonRun(r)
  BY <1>1, <1>2 DEF AbandonAndGoOn, Store!IsStale
<1>4. (\A q \in RunIds \ {r} : runs'[q] = runs[q]) /\ ~runs'[r].silent
  BY <1>3, WriteFacts DEF Store!AbandonRun, Inv, SystemInv, Carried, IInv
<1>5. \A w \in Users : chat'[w] = NoCall
  BY DEF AbandonAndGoOn, Punctual, Inv, SystemInv, CallsSane
<1>6. \A e \in Execs : Driving(e) => execs[e].run # r
  BY <1>2 DEF Inv, TimelyInv, DriversBeat, Store!IsStale
<1>7. \A s \in Mailbox : ~Continues(s, r)
  BY <1>2 DEF Inv, TimelyInv, RequestsFresh, Continues, Store!IsStale
<1>8. \/ UNCHANGED mail
      \/ \E spec : Post(StartRequest(u, spec))
      \/ Post(ContinueRequest(u, r))
  BY <1>1 DEF AbandonAndGoOn, Fire
<1>9. UNCHANGED execs
  BY DEF AbandonAndGoOn, codeVars
<1> QED
  BY <1>4, <1>5, <1>6, <1>7, <1>8, <1>9, AskedTimely

\* A run goes silent only if nobody carries it.
LEMMA SilenceTimely ==
    ASSUME Inv, Punctual, NEW r \in RunIds, Silence(r)
    PROVE  TimelyInv'
<1>1. /\ \A s \in Mailbox : mail[s] = NoMail
      /\ \A e \in Execs : ~(Driving(e) /\ execs[e].run = r)
      /\ ~runs[r].silent /\ Store!IsActive(r)
      /\ UNCHANGED <<mail, chat, execs>>
  BY DEF Silence, Slow, AllStarted, Punctual, Store!GoSilent, codeVars
<1>2. (\A q \in RunIds \ {r} : runs'[q] = runs[q]) /\ runs'[r].status = runs[r].status
  BY DEF Silence, Store!GoSilent, Inv, SystemInv, Carried, IInv, TypeOK, Store!TypeOK, Store!RunDoc
<1>3. \A s \in Mailbox : mail'[s].tool # "continue"
  BY <1>1 DEF NoMail
<1>4. \A u \in Users : chat[u] # NoCall => chat[u].run # r
  BY <1>1 DEF Inv, TimelyInv, CallsStale, Store!IsStale
<1>5. OtherCarriers(r)
  BY <1>1, <1>2, <1>3, <1>4 DEF OtherCarriers, Driving
<1>6. CarrierOf(r)'
  BY <1>1, <1>2, <1>3 DEF CarrierOf, Driving, Continues, Store!IsActive
<1> QED
  BY <1>5, <1>6, CarrierTimely

(***************************************************************************)
(* The invariant, and what follows from it                                 *)
(***************************************************************************)

LEMMA TimelyStep ==
    ASSUME Inv, Punctual, [SystemNext]_sysVars
    PROVE  TimelyInv'
<1>1. ASSUME NEW s \in Mailbox, DeliverRefused(s) \/ Lose(s) PROVE TimelyInv'
  BY <1>1, MailTimely DEF DeliverRefused, Lose, vars, codeVars
<1>2. ASSUME NEW u \in Users, Chat(u) PROVE TimelyInv'
  <2>1. ASSUME NEW spec \in Specs, ChatStart(u, spec) PROVE TimelyInv'
    <3>1. UNCHANGED mail \/ Post(StartRequest(u, spec))
      BY <2>1 DEF ChatStart, Fire
    <3>2. StartRequest(u, spec).tool # "continue"
      BY DEF StartRequest, NoMail
    <3> QED
      BY <2>1, <3>1, <3>2, MailTimely DEF ChatStart, vars, codeVars
  <2> QED
    BY <1>2, <2>1, FindTimely, RetryTimely, AbandonTimely DEF Chat
<1>3. ASSUME NEW v \in Versions, NEW failure, AskRepair(v, failure) PROVE TimelyInv'
  <2>1. RepairRequest(v, failure).tool # "continue"
    BY DEF RepairRequest, NoMail
  <2> QED
    BY <1>3, <2>1, MailTimely DEF AskRepair, vars, codeVars
<1>4. ASSUME NEW spec \in Specs, OnlyCode(Approve(spec)) PROVE TimelyInv'
  BY <1>4, MailTimely DEF OnlyCode, Approve
<1>5. ASSUME NEW t \in TaskIds, Coder(t) \/ Age(t) PROVE TimelyInv'
  BY <1>5, MailTimely
     DEF Coder, Age, OnlyCode, CoderReads, CoderWrites, CoderMarks, CoderFails, CoderVanishes, TaskAges
<1>6. CASE UNCHANGED sysVars
  BY <1>6, MailTimely DEF sysVars, vars, codeVars
<1> QED
  BY <1>1, <1>2, <1>3, <1>4, <1>5, <1>6, DeliverTimely, ExecutionTimely, SilenceTimely DEF SystemNext

LEMMA TimelyStarts ==
    ASSUME SystemInit
    PROVE  TimelyInv
<1>1. NoMail.tool = "none" /\ Off.pc = "off"
  BY DEF NoMail, Off
<1>2. \A r \in RunIds : ~runs[r].silent
  BY DEF SystemInit, Init, Store!Init, Store!NoDoc
<1> QED
  BY <1>1, <1>2
     DEF SystemInit, Init, TimelyInv, OneCarrier, SingleDriver, DriversBeat, RequestsFresh, CallsStale,
         OnlyActiveFall, Driving, Continues

\* The inductive invariant: a run has one carrier, which keeps it from falling silent.
THEOREM TimelyInductive ==
    ASSUME Punctual
    PROVE  SystemSpec => []Inv
<1>1. SystemInit => Inv
  BY SystemStarts, TimelyStarts DEF Inv
<1>2. Inv /\ [SystemNext]_sysVars => Inv'
  BY SystemStep, TimelyStep DEF Inv
<1> QED
  BY <1>1, <1>2, PTL DEF SystemSpec

(* One execution drives a run at a time, for any number of runs, tasks,    *)
(* executions and faults.                                                  *)
THEOREM OneDriver ==
    ASSUME Punctual
    PROVE  SystemSpec => []SingleDriver
<1>1. Inv => SingleDriver
  BY DEF Inv, TimelyInv, OneCarrier
<1> QED
  BY <1>1, TimelyInductive, PTL

(* Only a run that has fallen silent is abandoned: between the look at the *)
(* heartbeat and the write of abandon_run nobody wakes it up.              *)
THEOREM AbandonedWereSilent ==
    ASSUME Punctual
    PROVE  SystemSpec => OnlySilentAbandoned
<1>1. ASSUME Inv, NEW r \in RunIds, NEW u \in Users, chat[u].run = r, chat'[u] = NoCall,
             runs'[r].status # runs[r].status, [SystemNext]_sysVars
      PROVE  runs[r].silent
  <2>1. chat[u] # NoCall
    BY <1>1, CodeAssumption DEF NoCall, RunIds
  <2> QED
    BY <1>1, <2>1 DEF Inv, TimelyInv, CallsStale, Store!IsStale
<1>2. Inv /\ [SystemNext]_sysVars =>
        [\A r \in RunIds :
          (\E u \in Users : chat[u].run = r /\ chat'[u] = NoCall /\ runs'[r].status # runs[r].status)
              => runs[r].silent]_sysVars
  BY <1>1
<1> QED
  BY <1>2, TimelyInductive, PTL DEF SystemSpec, OnlySilentAbandoned

\* Only an execution that drives a run writes it without a look at its status.
LEMMA SuccessStays ==
    ASSUME Inv, CodeStep, NEW r \in RunIds, runs[r].status = "succeeded"
    PROVE  runs'[r].status = "succeeded"
<1>0. IInv /\ TypeOK
  BY DEF Inv, SystemInv, Carried, IInv
<1>1. ASSUME NEW e \in Execs, Creates(e) PROVE runs'[r] = runs[r]
  <2>1. PICK inputs : NewRun(e, inputs)
    BY <1>1 DEF Creates, StartRun, RepairRun
  <2>2. PICK p \in RunIds : ~Store!Exists(p) /\ \A q \in RunIds \ {p} : runs'[q] = runs[q]
    BY <1>0, <2>1, CreatedFacts
  <2> QED
    BY <2>2 DEF Store!Exists
<1>2. ASSUME NEW p \in RunIds, Store!ReopenRun(p) \/ Store!AbandonRun(p) PROVE runs'[r] = runs[r]
  <2>1. \A q \in RunIds \ {p} : runs'[q] = runs[q]
    BY <1>0, <1>2, WriteFacts DEF Store!ReopenRun, Store!AbandonRun
  <2>2. p # r
    BY <1>2 DEF Store!ReopenRun, Store!AbandonRun, Store!ReopenableStates
  <2> QED
    BY <2>1, <2>2
<1>3. ASSUME NEW e \in Execs, ExecutionSteps(e) PROVE runs'[r] = runs[r]
  <2>1. PICK p \in RunIds : execs[e].run = p
    BY <1>0, <1>3, ExecsEffect, PlacedFacts
  <2>2. (\A q \in RunIds \ {p} : runs'[q] = runs[q]) /\ (~Driving(e) => UNCHANGED runs)
    BY <1>3, <2>1, DrivenRun
  <2>3. Driving(e) => p # r
    BY <2>1 DEF Inv, TimelyInv, DriversBeat, Store!IsActive, Store!ActiveStatuses
  <2> QED
    BY <2>2, <2>3
<1>4. ASSUME Passing PROVE runs'[r].status = runs[r].status
  BY <1>0, <1>4 DEF Passing, Store!GoSilent, TypeOK, Store!TypeOK, Store!RunDoc
<1>5. (\E t \in TaskIds : CoderSteps(t)) \/ (\E spec \in Specs : Approve(spec)) => UNCHANGED runs
  BY DEF CoderSteps, CoderReads, CoderWrites, CoderMarks, CoderFails, CoderVanishes, TaskAges, Approve
<1> QED
  BY <1>1, <1>2, <1>3, <1>4, <1>5 DEF CodeStep, ContinueRun, Abandon

(* A run that succeeded stays succeeded, although finish_run and           *)
(* update_run_step would overwrite it: whoever could call them drives the  *)
(* run, and is the one that ended it.                                      *)
THEOREM SuccessesAreFinal ==
    ASSUME Punctual
    PROVE  SystemSpec => SuccessIsFinal
<1>1. Inv /\ [SystemNext]_sysVars =>
        [\A r \in RunIds : runs[r].status = "succeeded" => runs'[r].status = "succeeded"]_sysVars
  BY SystemSteps, SuccessStays DEF Inv, SystemInv, Carried, IInv
<1> QED
  BY <1>1, TimelyInductive, PTL DEF SystemSpec, SuccessIsFinal
-----------------------------------------------------------------------------
(***************************************************************************)
(* One coder for a step of a run at a time, and none for a step that is    *)
(* done, however often the run is continued: with one driver per run, a    *)
(* task is begun only when all tasks of its step have failed, and a task   *)
(* that failed or outlived its ceiling has no coder at work any more.      *)
(***************************************************************************)

AtRest == {"gone", "unfired"}

\* A coder at work has a task that runs and is young.
TaskSane(t) ==
    /\ tasks[t].status = "failed" \/ tasks[t].old => tasks[t].coder \in AtRest
    /\ tasks[t].coder \notin AtRest => tasks[t].status = "running"

\* What an execution has seen of the tasks of its step still holds.
ExecSane(e) ==
    /\ At(e, "begin") => \A t \in TasksOf(execs[e].run, StepOf(e)) : tasks[t].status = "failed"
    /\ At(e, "fire") => /\ tasks[execs[e].task].coder = "unfired"
                        /\ tasks[execs[e].task].status = "running"
                        /\ ~tasks[execs[e].task].old
    /\ At(e, "endok") => tasks[execs[e].task].status = "succeeded"
    /\ At(e, "endfail") => \/ tasks[execs[e].task].status = "failed"
                           \/ tasks[execs[e].task].status = "running" /\ tasks[execs[e].task].old

\* A step is begun anew only after its tasks so far have failed.
Ordered ==
    \A t, u \in TaskIds :
        (t < u /\ tasks[t].run # 0 /\ tasks[t].run = tasks[u].run /\ tasks[t].step = tasks[u].step)
            => tasks[t].status = "failed"

Tasked ==
    /\ Ordered
    /\ \A t \in TaskIds : TaskSane(t)
    /\ \A e \in Execs : ExecSane(e)

(***************************************************************************)
(* What a step may do to a task                                            *)
(***************************************************************************)

\* Where an execution relies on no task.
Elsewhere(e) == execs[e].pc \notin {"begin", "fire", "endok", "endfail"}

LEMMA ElsewhereSane == ASSUME NEW e \in Execs, Elsewhere(e)' PROVE ExecSane(e)'
BY DEF Elsewhere, ExecSane, At

LEMMA TasksStaySane ==
    ASSUME Tasked, UNCHANGED tasks, \A e \in Execs : ExecSane(e)'
    PROVE  Tasked'
BY DEF Tasked, Ordered, TaskSane

LEMMA TaskChanges ==
    ASSUME IInv, Tasked, NEW t \in TaskIds, NEW u, tasks' = [tasks EXCEPT ![t] = u],
           u.run = tasks[t].run, u.step = tasks[t].step,
           tasks[t].status = "failed" => u.status = "failed",
           u.status = "failed" \/ u.old => u.coder \in AtRest,
           u.coder \notin AtRest => u.status = "running",
           \A e \in Execs : ExecSane(e)'
    PROVE  Tasked'
<1>1. tasks'[t] = u /\ \A q \in TaskIds \ {t} : tasks'[q] = tasks[q]
  BY DEF IInv, TypeOK
<1>2. \A q \in TaskIds : /\ tasks'[q].run = tasks[q].run /\ tasks'[q].step = tasks[q].step
                         /\ tasks[q].status = "failed" => tasks'[q].status = "failed"
  BY <1>1
<1>3. Ordered'
  BY <1>2 DEF Tasked, Ordered
<1>4. \A q \in TaskIds : TaskSane(q)'
  BY <1>1 DEF Tasked, TaskSane
<1> QED
  BY <1>3, <1>4 DEF Tasked

\* An execution that does not move, when no task of its run changes.
LEMMA ApartSane ==
    ASSUME IInv, Delivery, PlansKept, NEW d \in Execs, ExecSane(d), execs'[d] = execs[d],
           NEW r, execs[d].run # r \/ ~Driving(d),
           \A q \in TaskIds : tasks'[q] = tasks[q] \/ (tasks[q].run \in {0, r} /\ tasks'[q].run = r)
    PROVE  ExecSane(d)'
<1>1. CASE ~Driving(d) \/ Elsewhere(d)
  BY <1>1, ElsewhereSane DEF Driving, Elsewhere
<1>2. CASE Driving(d) /\ ~Elsewhere(d)
  <2>1. PICK p \in RunIds : execs[d].run = p /\ Store!Exists(p) /\ p # r /\ p # 0
    BY <1>2, PlacedFacts, CodeAssumption DEF Driving, At, RunIds
  <2>2. PICK i : execs[d].idx = i
    OBVIOUS
  <2>3. Steps(p)' = Steps(p)
    BY <2>1 DEF PlansKept
  <2>4. StepOf(d)' = StepOf(d)
    BY <2>1, <2>2, <2>3 DEF StepOf
  <2>5. CASE At(d, "begin")
    <3>1. \A t \in TaskIds : tasks'[t].run = p => tasks'[t] = tasks[t]
      BY <2>1
    <3>2. \A t \in TaskIds :
             (tasks'[t].run = p /\ tasks'[t].step = StepOf(d)) => tasks'[t].status = "failed"
      BY <2>1, <2>5, <3>1 DEF ExecSane, TasksOf
    <3>3. execs'[d].pc = "begin" /\ execs'[d].run = p
      BY <2>1, <2>5 DEF At
    <3> QED
      BY <2>4, <3>2, <3>3 DEF ExecSane, TasksOf, At
  <2>6. CASE ~At(d, "begin")
    <3>1. execs[d].task \in TaskIds /\ tasks[execs[d].task].run = p
      BY <1>2, <2>1, <2>6, BusyFacts DEF Elsewhere, At, Busy
    <3>2. tasks'[execs[d].task] = tasks[execs[d].task]
      BY <2>1, <3>1
    <3> QED
      BY <2>6, <3>2 DEF ExecSane, At
  <2> QED
    BY <2>5, <2>6
<1> QED
  BY <1>1, <1>2

\* A coder, or time, changes a task in a way that its driver can take.
LEMMA ToleratedSane ==
    ASSUME IInv, Delivery, PlansKept, UNCHANGED execs, NEW d \in Execs, ExecSane(d),
           NEW t \in TaskIds, NEW u, tasks' = [tasks EXCEPT ![t] = u],
           u.run = tasks[t].run, u.step = tasks[t].step,
           tasks[t].status = "failed" => u.status = "failed",
           tasks[t].status = "succeeded" => u.status = "succeeded",
           tasks[t].status = "running" /\ tasks[t].old =>
               u.status = "failed" \/ (u.status = "running" /\ u.old),
           ~(At(d, "fire") /\ execs[d].task = t)
    PROVE  ExecSane(d)'
<1>1. CASE Elsewhere(d)
  BY <1>1, ElsewhereSane DEF Elsewhere
<1>2. CASE ~Elsewhere(d)
  <2>1. tasks'[t] = u /\ \A q \in TaskIds \ {t} : tasks'[q] = tasks[q]
    BY DEF IInv, TypeOK
  <2>2. PICK p \in RunIds : execs[d].run = p /\ Store!Exists(p)
    BY <1>2, PlacedFacts DEF Elsewhere, At
  <2>3. PICK i : execs[d].idx = i
    OBVIOUS
  <2>4. StepOf(d)' = StepOf(d)
    <3>1. Steps(p)' = Steps(p)
      BY <2>2 DEF PlansKept
    <3> QED
      BY <2>2, <2>3, <3>1 DEF StepOf
  <2>5. CASE At(d, "begin")
    BY <2>1, <2>2, <2>4, <2>5 DEF ExecSane, TasksOf, At
  <2>6. CASE ~At(d, "begin")
    <3>1. PICK q \in TaskIds : execs[d].task = q
      BY <1>2, <2>6, BusyFacts DEF Elsewhere, At, Busy
    <3>2. CASE q # t
      BY <2>1, <2>6, <3>1, <3>2 DEF ExecSane, At
    <3>3. CASE q = t
      BY <2>1, <2>6, <3>1, <3>3 DEF ExecSane, At
    <3> QED
      BY <3>2, <3>3
  <2> QED
    BY <2>5, <2>6
<1> QED
  BY <1>1, <1>2

(***************************************************************************)
(* Coders and time                                                         *)
(***************************************************************************)

LEMMA CoderTasked ==
    ASSUME Inv, Punctual, Tasked, PlansKept, NEW t \in TaskIds, Coder(t) \/ Age(t)
    PROVE  Tasked'
<1>0. IInv /\ Delivery /\ UNCHANGED execs /\ tasks[t] \in Task
  BY DEF Inv, SystemInv, Carried, IInv, TypeOK, Coder, Age, OnlyCode, CoderReads, CoderWrites,
         CoderMarks, CoderFails, CoderVanishes, TaskAges
<1>1. ASSUME NEW u, tasks' = [tasks EXCEPT ![t] = u], u.run = tasks[t].run, u.step = tasks[t].step,
             tasks[t].status = "failed" => u.status = "failed",
             tasks[t].status = "succeeded" => u.status = "succeeded",
             tasks[t].status = "running" /\ tasks[t].old =>
                 u.status = "failed" \/ (u.status = "running" /\ u.old),
             u.status = "failed" \/ u.old => u.coder \in AtRest,
             u.coder \notin AtRest => u.status = "running",
             \A d \in Execs : ~(At(d, "fire") /\ execs[d].task = t)
      PROVE  Tasked'
  <2>1. ASSUME NEW d \in Execs PROVE ExecSane(d)'
    <3>1. ExecSane(d)
      BY DEF Tasked
    <3> QED
      BY <1>0, <1>1, <3>1, ToleratedSane
  <2> QED
    BY <1>0, <1>1, <2>1, TaskChanges
<1>2. ASSUME tasks[t].coder \notin AtRest
      PROVE  /\ tasks[t].status = "running" /\ ~tasks[t].old
             /\ \A d \in Execs : ~(At(d, "fire") /\ execs[d].task = t)
  BY <1>2 DEF Tasked, TaskSane, ExecSane, AtRest
<1>3. CASE CoderReads(t)
  <2>1. PICK read : tasks' = [tasks EXCEPT ![t].coder = "working", ![t].read = read]
    BY <1>3 DEF CoderReads
  <2> DEFINE u == [tasks[t] EXCEPT !.coder = "working", !.read = read]
  <2>2. /\ u.run = tasks[t].run /\ u.step = tasks[t].step /\ u.status = tasks[t].status
        /\ u.old = tasks[t].old /\ u.coder = "working"
    BY <1>0 DEF Task
  <2>3. tasks' = [tasks EXCEPT ![t] = u]
    BY <1>0, <2>1 DEF IInv, TypeOK
  <2>4. tasks[t].coder \notin AtRest
    BY <1>3 DEF CoderReads, AtRest
  <2> HIDE DEF u
  <2> QED
    BY <1>1, <1>2, <2>2, <2>3, <2>4
<1>4. CASE CoderWrites(t) \/ CoderVanishes(t)
  <2>1. PICK coder \in {"wrote", "gone"} : tasks' = [tasks EXCEPT ![t].coder = coder]
    BY <1>4 DEF CoderWrites, CoderVanishes
  <2> DEFINE u == [tasks[t] EXCEPT !.coder = coder]
  <2>2. /\ u.run = tasks[t].run /\ u.step = tasks[t].step /\ u.status = tasks[t].status
        /\ u.old = tasks[t].old /\ u.coder = coder
    BY <1>0 DEF Task
  <2>3. tasks' = [tasks EXCEPT ![t] = u]
    BY <2>1
  <2>4. tasks[t].coder \notin AtRest
    BY <1>4 DEF CoderWrites, CoderVanishes, AtRest
  <2> HIDE DEF u
  <2> QED
    BY <1>1, <1>2, <2>2, <2>3, <2>4
<1>5. CASE CoderMarks(t) \/ CoderFails(t)
  <2>1. PICK status \in {"succeeded", "failed"} :
           tasks' = [tasks EXCEPT ![t].status = status, ![t].coder = "gone"]
    BY <1>5 DEF CoderMarks, CoderFails
  <2> DEFINE u == [tasks[t] EXCEPT !.status = status, !.coder = "gone"]
  <2>2. /\ u.run = tasks[t].run /\ u.step = tasks[t].step /\ u.status = status
        /\ u.old = tasks[t].old /\ u.coder = "gone"
    BY <1>0 DEF Task
  <2>3. tasks' = [tasks EXCEPT ![t] = u]
    BY <1>0, <2>1 DEF IInv, TypeOK
  <2>4. tasks[t].coder \notin AtRest
    BY <1>5 DEF CoderMarks, CoderFails, AtRest
  <2>5. u.coder \in AtRest
    BY <2>2 DEF AtRest
  <2> HIDE DEF u
  <2> QED
    BY <1>1, <1>2, <2>2, <2>3, <2>4, <2>5
<1>6. CASE Age(t)
  <2>1. tasks' = [tasks EXCEPT ![t].old = TRUE] /\ tasks[t].status = "running"
    BY <1>6 DEF Age, OnlyCode, TaskAges
  <2> DEFINE u == [tasks[t] EXCEPT !.old = TRUE]
  <2>2. u \in Task /\ u = [tasks[t] EXCEPT !.old = TRUE] /\ u.old
    BY <1>0 DEF Task
  <2>3. /\ u.run = tasks[t].run /\ u.step = tasks[t].step /\ u.status = tasks[t].status
        /\ u.coder = tasks[t].coder
    BY <1>0 DEF Task
  <2>4. tasks' = [tasks EXCEPT ![t] = u]
    BY <2>1
  <2>5. u.coder \in AtRest /\ \A d \in Execs : ~(At(d, "fire") /\ execs[d].task = t)
    BY <1>6, <2>3 DEF Age, Punctual, AtRest
  <2> HIDE DEF u
  <2> QED
    BY <1>1, <2>1, <2>2, <2>3, <2>4, <2>5
<1> QED
  BY <1>3, <1>4, <1>5, <1>6 DEF Coder, OnlyCode

(***************************************************************************)
(* Executions                                                              *)
(***************************************************************************)

LEMMA RouteElsewhere ==
    ASSUME NEW x \in Exec
    PROVE  Route(x).pc \in {"handover", "wait", "assemble", "step"}
<1> DEFINE pc == CASE x.spent -> "handover"
                   [] ~x.spent /\ x.task # 0 -> "wait"
                   [] ~x.spent /\ x.task = 0 /\ x.idx > Len(Steps(x.run)) -> "assemble"
                   [] OTHER -> "step"
<1>1. Route(x) = [x EXCEPT !.pc = pc]
  BY DEF Route
<1>2. x.spent \in BOOLEAN /\ x.task \in TaskIds \cup {0}
  BY DEF Exec
<1>3. pc \in {"handover", "wait", "assemble", "step"}
  BY <1>2
<1> HIDE DEF pc
<1> QED
  BY <1>1, <1>3 DEF Exec

LEMMA ProceedElsewhere ==
    ASSUME IInv, NEW e \in Execs, NEW x \in Exec, Proceed(e, x)
    PROVE  Elsewhere(e)'
<1>1. execs'[e] = Route(x)
  BY DEF Proceed, IInv, TypeOK
<1> QED
  BY <1>1, RouteElsewhere DEF Elsewhere

LEMMA GotoElsewhere ==
    ASSUME IInv, NEW e \in Execs,
           NEW pc, pc \notin {"begin", "fire", "endok", "endfail"}, Goto(e, pc)
    PROVE  Elsewhere(e)'
BY DEF IInv, TypeOK, Exec, Goto, Elsewhere

LEMMA StopElsewhere ==
    ASSUME IInv, NEW e \in Execs, Stop(e)
    PROVE  Elsewhere(e)'
BY DEF IInv, TypeOK, Stop, Off, Elsewhere

\* All but four steps leave an execution where it relies on no task.
LEMMA StepsElsewhere ==
    ASSUME IInv, NEW e \in Execs, ExecutionSteps(e),
           ~StepStart(e), ~StepGiveUp(e), ~BeginTask(e), ~WaitEnds(e)
    PROVE  Elsewhere(e)'
<1>1. execs \in [Execs -> Exec] /\ execs[e] \in Exec
  BY DEF IInv, TypeOK
<1>2. ASSUME NEW spent \in BOOLEAN, Proceed(e, [execs[e] EXCEPT !.spent = spent])
      PROVE  Elsewhere(e)'
  <2> DEFINE x == [execs[e] EXCEPT !.spent = spent]
  <2>1. x \in Exec
    BY <1>1 DEF Exec
  <2> HIDE DEF x
  <2> QED
    BY <1>2, <2>1, ProceedElsewhere DEF x
<1>3. CASE Load(e)
  <2>1. CASE LoadStored(e)
    <3> DEFINE x == [execs[e] EXCEPT !.ver = job[execs[e].run].ver, !.idx = 1]
    <3>1. execs[e].run \in RunIds
      BY <2>1, PlacedFacts DEF LoadStored, At
    <3>2. job[execs[e].run].ver \in Versions \cup {0}
      BY <3>1 DEF IInv, TypeOK, Job
    <3>3. Proceed(e, x) /\ x \in Exec
      BY <1>1, <2>1, <3>2 DEF LoadStored, Exec
    <3> HIDE DEF x
    <3> QED
      BY <3>3, ProceedElsewhere
  <2>2. CASE Allocate(e)
    <3>1. PICK v \in Versions : execs' = [execs EXCEPT ![e].pc = "persist", ![e].ver = v]
      BY <2>2 DEF Allocate
    <3> QED
      BY <1>1, <3>1 DEF Elsewhere, Exec
  <2>3. CASE Persist(e)
    <3> DEFINE x == [execs[e] EXCEPT !.idx = 1]
    <3>1. Proceed(e, x) /\ x \in Exec
      BY <1>1, <2>3 DEF Persist, Exec
    <3> HIDE DEF x
    <3> QED
      BY <3>1, ProceedElsewhere
  <2> QED
    BY <1>3, <2>1, <2>2, <2>3 DEF Load
<1>4. CASE StepDone(e) \/ StepAttach(e) \/ FireCoder(e)
  <2>1. CASE StepDone(e)
    <3> DEFINE x == [execs[e] EXCEPT !.idx = @ + 1, !.task = 0]
    <3>1. execs[e].idx + 1 \in Nat
      BY <1>1 DEF Exec
    <3>2. x \in Exec
      BY <1>1, <3>1 DEF Exec
    <3>3. Proceed(e, x) \/ Stop(e)
      BY <2>1 DEF StepDone, Refused
    <3> HIDE DEF x
    <3> QED
      BY <3>2, <3>3, ProceedElsewhere, StopElsewhere
  <2>2. CASE StepAttach(e)
    <3>1. PICK t \in TaskIds : Proceed(e, [execs[e] EXCEPT !.task = t])
      BY <2>2 DEF StepAttach, NewestOfStep, Newest, TasksOf
    <3> DEFINE x == [execs[e] EXCEPT !.task = t]
    <3>2. x \in Exec
      BY <1>1 DEF Exec
    <3> HIDE DEF x
    <3> QED
      BY <3>1, <3>2, ProceedElsewhere DEF x
  <2>3. CASE FireCoder(e)
    BY <1>1, <2>3, ProceedElsewhere DEF FireCoder
  <2> QED
    BY <1>4, <2>1, <2>2, <2>3
<1>5. ASSUME NEW spent \in BOOLEAN, EndTaskSucceeded(e, spent) PROVE Elsewhere(e)'
  <2> DEFINE x == [execs[e] EXCEPT !.idx = @ + 1, !.task = 0, !.spent = spent]
  <2>1. execs[e].idx + 1 \in Nat
    BY <1>1 DEF Exec
  <2>2. x \in Exec
    BY <1>1, <2>1 DEF Exec
  <2>3. Proceed(e, x) \/ Stop(e)
    BY <1>5 DEF EndTaskSucceeded, Refused
  <2> HIDE DEF x
  <2> QED
    BY <2>2, <2>3, ProceedElsewhere, StopElsewhere
<1>6. CASE HandOverFails(e) \/ \E spent \in BOOLEAN : WaitWindow(e, spent)
  BY <1>2, <1>6 DEF HandOverFails, WaitWindow
<1>7. CASE EndTaskFailed(e) \/ HandOver(e) \/ EndNode(e) \/ Breaks(e) \/ FireRaises(e, TRUE)
  <2>1. Stop(e) \/ \E pc \in {"record", "publish", "finish", "fail", "failpoc"} : Goto(e, pc)
    BY <1>7 DEF EndTaskFailed, HandOver, EndNode, Assemble, RecordBundle, Publish, FinishSucceeded,
                FinishFailed, FailPoc, Breaks, LoadFails, AssembleFails, Die, FireRaises,
                RecordFailure, Refused
  <2> QED
    BY <2>1, GotoElsewhere, StopElsewhere
<1> QED
  BY <1>3, <1>4, <1>5, <1>6, <1>7 DEF ExecutionSteps, Works, StepNode, WaitNode

\* The other executions, when one of them does nothing to a task.
LEMMA OthersStaySane ==
    ASSUME IInv, Delivery, Tasked, PlansKept, NEW e \in Execs, StaysOrStops(e), UNCHANGED tasks
    PROVE  \A d \in Execs \ {e} : ExecSane(d)'
<1> SUFFICES ASSUME NEW d \in Execs \ {e} PROVE ExecSane(d)'
  OBVIOUS
<1>1. ExecSane(d) /\ execs'[d] = execs[d]
  BY DEF Tasked, StaysOrStops
<1>2. execs[d].run # 0 \/ ~Driving(d)
  BY PlacedFacts, CodeAssumption DEF Driving, At, RunIds
<1> QED
  BY <1>1, <1>2, ApartSane

\* Nor does what the driver of a run does to a task of it touch them.
LEMMA OthersApart ==
    ASSUME Inv, Tasked, PlansKept, NEW e \in Execs, StaysOrStops(e), Driving(e),
           NEW t \in TaskIds, NEW u, tasks' = [tasks EXCEPT ![t] = u],
           tasks[t].run \in {0, execs[e].run}, u.run = execs[e].run
    PROVE  \A d \in Execs \ {e} : ExecSane(d)'
<1> SUFFICES ASSUME NEW d \in Execs \ {e} PROVE ExecSane(d)'
  OBVIOUS
<1>0. IInv /\ Delivery
  BY DEF Inv, SystemInv, Carried
<1>1. ExecSane(d) /\ execs'[d] = execs[d]
  BY DEF Tasked, StaysOrStops
<1>2. PICK r : execs[e].run = r
  OBVIOUS
<1>3. execs[d].run # r \/ ~Driving(d)
  BY <1>2 DEF Inv, TimelyInv, OneCarrier, SingleDriver
<1>4. \A q \in TaskIds : tasks'[q] = tasks[q] \/ (tasks[q].run \in {0, r} /\ tasks'[q].run = r)
  BY <1>0, <1>2 DEF IInv, TypeOK
<1> QED
  BY <1>0, <1>1, <1>3, <1>4, ApartSane

\* A step whose newest task has failed has no other.
LEMMA AllFailed ==
    ASSUME Tasked, NEW r, r # 0, NEW step,
           \A t \in Newest(r, step) : tasks[t].status = "failed" \/ Standing(t) = "failed"
    PROVE  \A t \in TasksOf(r, step) : tasks[t].status = "failed"
<1> SUFFICES ASSUME NEW t \in TasksOf(r, step) PROVE tasks[t].status = "failed"
  OBVIOUS
<1>1. CASE t \in Newest(r, step)
  BY <1>1 DEF Standing
<1>2. CASE t \notin Newest(r, step)
  <2>1. PICK u \in TasksOf(r, step) : ~(u <= t)
    BY <1>2 DEF Newest
  <2>2. t \in TaskIds /\ u \in TaskIds /\ t < u
    BY <2>1, CodeAssumption DEF TasksOf, TaskIds
  <2> QED
    BY <2>2 DEF Tasked, Ordered, TasksOf
<1> QED
  BY <1>1, <1>2

LEMMA LookTasked ==
    ASSUME Inv, Tasked, PlansKept, NEW e \in Execs, StaysOrStops(e), StepStart(e) \/ WaitEnds(e)
    PROVE  Tasked'
<1>0. IInv /\ Delivery /\ UNCHANGED tasks /\ ~At(e, "off")
  BY DEF Inv, SystemInv, Carried, StepStart, WaitEnds, At
<1>1. ExecSane(e)'
  <2>1. CASE StepStart(e)
    <3>1. PICK r \in RunIds, i \in Nat : execs[e].run = r /\ execs[e].idx = i /\ Store!Exists(r) /\ r # 0
      BY <1>0, PlacedFacts, CodeAssumption DEF Exec, RunIds
    <3>2. execs'[e] = [execs[e] EXCEPT !.pc = "begin"] /\ execs[e] \in Exec
      BY <2>1 DEF StepStart, Goto, Inv, SystemInv, Carried, IInv, TypeOK
    <3>3. execs'[e].pc = "begin" /\ execs'[e].run = r /\ execs'[e].idx = i
      BY <3>1, <3>2 DEF Exec
    <3>4. Steps(r)' = Steps(r)
      BY <3>1 DEF PlansKept
    <3>5. StepOf(e)' = StepOf(e)
      BY <3>1, <3>3, <3>4 DEF StepOf
    <3>6. \A t \in TasksOf(r, StepOf(e)) : tasks[t].status = "failed"
      BY <2>1, <3>1, AllFailed DEF StepStart, NewestOfStep
    <3> QED
      BY <1>0, <3>3, <3>5, <3>6 DEF ExecSane, At, TasksOf
  <2>2. CASE WaitEnds(e)
    <3>1. PICK t : execs[e].task = t
      OBVIOUS
    <3>2. PICK pc \in {"endok", "endfail"} :
             /\ Goto(e, pc)
             /\ pc = "endok" => tasks[t].status = "succeeded"
             /\ pc = "endfail" =>
                   tasks[t].status = "failed" \/ (tasks[t].status = "running" /\ tasks[t].old)
      BY <2>2, <3>1 DEF WaitEnds
    <3>3. execs'[e] = [execs[e] EXCEPT !.pc = pc] /\ execs[e] \in Exec
      BY <3>2 DEF Goto, Inv, SystemInv, Carried, IInv, TypeOK
    <3>4. execs'[e].pc = pc /\ execs'[e].task = t
      BY <3>1, <3>3 DEF Exec
    <3> QED
      BY <1>0, <3>2, <3>4 DEF ExecSane, At
  <2> QED
    BY <2>1, <2>2
<1> QED
  BY <1>0, <1>1, OthersStaySane, TasksStaySane

LEMMA GiveUpTasked ==
    ASSUME Inv, Tasked, PlansKept, NEW e \in Execs, StaysOrStops(e), StepGiveUp(e)
    PROVE  Tasked'
<1>0. IInv /\ Delivery /\ ~At(e, "off") /\ Driving(e)
  BY DEF Inv, SystemInv, Carried, StepGiveUp, At, Driving
<1>1. PICK r \in RunIds, i \in Nat : execs[e].run = r /\ execs[e].idx = i /\ Store!Exists(r) /\ r # 0
  BY <1>0, PlacedFacts, CodeAssumption DEF Exec, RunIds
<1>2. PICK t \in Newest(r, StepOf(e)) : Standing(t) = "given up" /\ tasks' = Finish(t, "failed")
  BY <1>1 DEF StepGiveUp, NewestOfStep
<1>3. /\ t \in TaskIds /\ tasks[t] \in Task /\ tasks[t].run = r /\ tasks[t].step = StepOf(e)
      /\ \A q \in TasksOf(r, StepOf(e)) : q <= t
  BY <1>0, <1>2 DEF Newest, TasksOf, IInv, TypeOK
<1>4. tasks[t].status = "running" /\ tasks[t].old /\ tasks[t].coder \in AtRest
  BY <1>2, <1>3 DEF Standing, Task, Tasked, TaskSane
<1> DEFINE u == [tasks[t] EXCEPT !.status = "failed"]
<1>5. tasks' = [tasks EXCEPT ![t] = u]
  BY <1>2 DEF Finish
<1>6. /\ u.run = r /\ u.step = tasks[t].step /\ u.status = "failed"
      /\ u.coder = tasks[t].coder
  BY <1>3 DEF Task
<1> HIDE DEF u
<1>7. \A q \in TasksOf(r, StepOf(e)) \ {t} : tasks[q].status = "failed"
  <2> SUFFICES ASSUME NEW q \in TasksOf(r, StepOf(e)) \ {t} PROVE tasks[q].status = "failed"
    OBVIOUS
  <2>1. q \in TaskIds /\ q < t
    BY <1>3, CodeAssumption DEF TasksOf, TaskIds
  <2> QED
    BY <1>1, <1>3, <2>1 DEF Tasked, Ordered, TasksOf
<1>8. execs'[e].run = r /\ execs'[e].idx = i /\ execs'[e].pc = "begin"
  <2>1. execs'[e] = [execs[e] EXCEPT !.pc = "begin"] /\ execs[e] \in Exec
    BY <1>0 DEF StepGiveUp, Goto, IInv, TypeOK
  <2> QED
    BY <1>1, <2>1 DEF Exec
<1>9. StepOf(e)' = StepOf(e)
  BY <1>1, <1>8 DEF StepOf, PlansKept
<1>10. /\ tasks'[t] = u
       /\ \A q \in TaskIds \ {t} : tasks'[q] = tasks[q]
  BY <1>0, <1>3, <1>5 DEF IInv, TypeOK
<1>11. \A q \in TaskIds :
          (tasks'[q].run = r /\ tasks'[q].step = StepOf(e)) => tasks'[q].status = "failed"
  BY <1>6, <1>7, <1>10 DEF TasksOf
<1>12. ExecSane(e)'
  BY <1>8, <1>9, <1>11 DEF ExecSane, At, TasksOf
<1>13. \A d \in Execs \ {e} : ExecSane(d)'
  BY <1>0, <1>1, <1>3, <1>5, <1>6, OthersApart
<1> QED
  BY <1>0, <1>3, <1>4, <1>5, <1>6, <1>12, <1>13, TaskChanges

LEMMA BeginTasked ==
    ASSUME Inv, Tasked, PlansKept, NEW e \in Execs, StaysOrStops(e), BeginTask(e)
    PROVE  Tasked'
<1>0. IInv /\ Delivery /\ At(e, "begin") /\ ~At(e, "off") /\ Driving(e) /\ execs[e] \in Exec
  BY DEF Inv, SystemInv, Carried, BeginTask, At, Driving, IInv, TypeOK
<1>1. PICK r \in RunIds, s \in Artefacts :
         /\ execs[e].run = r /\ StepOf(e) = s /\ r # 0
         /\ \A t \in TasksOf(r, s) : tasks[t].status = "failed"
  BY <1>0, PlacedFacts, CodeAssumption DEF RunIds, Tasked, ExecSane, At, AtAStep
<1> DEFINE u == [NoTask EXCEPT !.run = r, !.step = s, !.ver = execs[e].ver, !.status = "running",
                               !.coder = "unfired"]
<1>2. PICK t \in TaskIds :
         /\ \A q \in TaskIds : tasks[q].run # 0 <=> q < t
         /\ tasks' = [tasks EXCEPT ![t] = u]
         /\ execs' = [execs EXCEPT ![e].pc = "fire", ![e].task = t] \/ Refused(e)
  BY <1>1 DEF BeginTask
<1>3. u.run = r /\ u.step = s /\ u.status = "running" /\ u.coder = "unfired" /\ u.old = FALSE
  BY DEF NoTask
<1> HIDE DEF u
<1>4. /\ tasks'[t] = u
      /\ \A q \in TaskIds \ {t} : tasks'[q] = tasks[q]
  BY <1>0, <1>2 DEF IInv, TypeOK
<1>5. tasks[t].run = 0
  BY <1>2, CodeAssumption DEF TaskIds
<1>6. Ordered'
  <2> SUFFICES ASSUME NEW p \in TaskIds, NEW q \in TaskIds, p < q, tasks'[p].run # 0,
                      tasks'[p].run = tasks'[q].run, tasks'[p].step = tasks'[q].step
               PROVE  tasks'[p].status = "failed"
    BY DEF Ordered
  <2>1. p # t /\ tasks'[p] = tasks[p]
    <3>1. CASE p = t
      <4>1. ~(q < t) /\ q # t
        BY <3>1, CodeAssumption DEF TaskIds
      <4>2. tasks[q].run = 0 /\ tasks'[q] = tasks[q]
        BY <1>2, <1>4, <4>1
      <4> QED
        BY <4>2
    <3> QED
      BY <1>4, <3>1
  <2>2. CASE q = t
    BY <1>1, <1>3, <1>4, <2>1, <2>2 DEF TasksOf
  <2>3. CASE q # t
    BY <1>4, <2>1, <2>3 DEF Tasked, Ordered
  <2> QED
    BY <2>2, <2>3
<1>7. \A q \in TaskIds : TaskSane(q)'
  BY <1>3, <1>4 DEF Tasked, TaskSane, AtRest
<1>8. ExecSane(e)'
  <2>1. CASE execs' = [execs EXCEPT ![e].pc = "fire", ![e].task = t]
    <3>1. execs'[e] = [execs[e] EXCEPT !.pc = "fire", !.task = t]
      BY <1>0, <2>1 DEF IInv, TypeOK
    <3>2. execs'[e].pc = "fire" /\ execs'[e].task = t
      BY <1>0, <3>1 DEF Exec
    <3> QED
      BY <1>3, <1>4, <3>2 DEF ExecSane, At
  <2>2. CASE Refused(e)
    BY <1>0, <2>2, StopElsewhere, ElsewhereSane DEF Refused
  <2> QED
    BY <1>2, <2>1, <2>2
<1>9. \A d \in Execs \ {e} : ExecSane(d)'
  BY <1>0, <1>1, <1>2, <1>3, <1>5, OthersApart
<1> QED
  BY <1>6, <1>7, <1>8, <1>9 DEF Tasked

\* A fire, and the end of a wait: what is written is what the task says already,
\* or the fire failed and there is no coder.
LEMMA OutcomeTasked ==
    ASSUME Inv, Tasked, PlansKept, NEW e \in Execs, StaysOrStops(e), Elsewhere(e)',
           \/ FireCoder(e) \/ FireRaises(e, FALSE) \/ EndTaskFailed(e)
           \/ \E spent \in BOOLEAN : EndTaskSucceeded(e, spent)
    PROVE  Tasked'
<1> DEFINE t == execs[e].task
<1>0. IInv /\ Delivery /\ ~At(e, "off") /\ Driving(e) /\ Busy(e)
  BY DEF Inv, SystemInv, Carried, FireCoder, FireRaises, EndTaskFailed, EndTaskSucceeded, At, Driving, Busy
<1>1. t \in TaskIds /\ tasks[t] \in Task /\ tasks[t].run = execs[e].run
  BY <1>0, BusyFacts
<1>2. ExecSane(e) /\ TaskSane(t)
  BY <1>1 DEF Tasked
<1>3. ASSUME NEW u, tasks' = [tasks EXCEPT ![t] = u], u.run = tasks[t].run, u.step = tasks[t].step,
             tasks[t].status = "failed" => u.status = "failed",
             u.status = "failed" \/ u.old => u.coder \in AtRest,
             u.coder \notin AtRest => u.status = "running"
      PROVE  Tasked'
  <2>1. \A d \in Execs \ {e} : ExecSane(d)'
    BY <1>0, <1>1, <1>3, OthersApart
  <2> QED
    BY <1>0, <1>1, <1>3, <2>1, ElsewhereSane, TaskChanges
<1>4. CASE FireCoder(e)
  <2>1. PICK c \in {"fired", "gone"} : tasks' = [tasks EXCEPT ![t].coder = c]
    BY <1>4 DEF FireCoder
  <2> DEFINE u == [tasks[t] EXCEPT !.coder = c]
  <2>2. /\ u.run = tasks[t].run /\ u.step = tasks[t].step /\ u.status = tasks[t].status
        /\ u.old = tasks[t].old /\ u.coder = c
    BY <1>1 DEF Task
  <2>3. tasks' = [tasks EXCEPT ![t] = u]
    BY <2>1
  <2>4. tasks[t].status = "running" /\ ~tasks[t].old
    BY <1>2, <1>4 DEF ExecSane, FireCoder
  <2> HIDE DEF u
  <2> QED
    BY <1>3, <2>2, <2>3, <2>4
<1>5. CASE FireRaises(e, FALSE)
  <2> DEFINE u == [tasks[t] EXCEPT !.status = "failed", !.coder = "gone"]
  <2>1. u.run = tasks[t].run /\ u.step = tasks[t].step /\ u.status = "failed" /\ u.coder = "gone"
    BY <1>1 DEF Task
  <2>2. tasks' = [tasks EXCEPT ![t] = u]
    BY <1>0, <1>1, <1>5 DEF FireRaises, Finish, IInv, TypeOK
  <2> HIDE DEF u
  <2> QED
    BY <1>3, <2>1, <2>2 DEF AtRest
<1>6. ASSUME NEW status \in {"succeeded", "failed"}, tasks' = Finish(t, status),
             tasks[t].coder \in AtRest, tasks[t].status = "failed" => status = "failed"
      PROVE  Tasked'
  <2> DEFINE u == [tasks[t] EXCEPT !.status = status]
  <2>1. /\ u.run = tasks[t].run /\ u.step = tasks[t].step /\ u.status = status
        /\ u.coder = tasks[t].coder
    BY <1>1 DEF Task
  <2>2. tasks' = [tasks EXCEPT ![t] = u]
    BY <1>6 DEF Finish
  <2> HIDE DEF u
  <2> QED
    BY <1>3, <1>6, <2>1, <2>2
<1>7. CASE EndTaskFailed(e)
  <2>1. tasks[t].coder \in AtRest
    BY <1>2, <1>7 DEF ExecSane, TaskSane, EndTaskFailed
  <2> QED
    BY <1>6, <1>7, <2>1 DEF EndTaskFailed
<1>8. ASSUME NEW spent \in BOOLEAN, EndTaskSucceeded(e, spent) PROVE Tasked'
  <2>1. tasks[t].status = "succeeded" /\ tasks[t].coder \in AtRest
    BY <1>2, <1>8 DEF ExecSane, TaskSane, EndTaskSucceeded
  <2> QED
    BY <1>6, <1>8, <2>1 DEF EndTaskSucceeded
<1> QED
  BY <1>4, <1>5, <1>7, <1>8

LEMMA ExecutionTasked ==
    ASSUME Inv, Punctual, Tasked, PlansKept, NEW e \in Execs, Execution(e)
    PROVE  Tasked'
<1>0. IInv /\ Delivery
  BY DEF Inv, SystemInv, Carried
<1>1. Works(e) \/ Breaks(e) \/ HandOver(e) \/ HandOverFails(e)
  BY DEF Execution, OnlyCode, HandOverSends, HandOverRaises, Punctual
<1>2. ExecutionSteps(e) /\ StaysOrStops(e)
  BY <1>0, <1>1, ExecsEffect DEF ExecutionSteps
<1>3. CASE StepStart(e) \/ WaitEnds(e)
  BY <1>2, <1>3, LookTasked
<1>4. CASE StepGiveUp(e)
  BY <1>2, <1>4, GiveUpTasked
<1>5. CASE BeginTask(e)
  BY <1>2, <1>5, BeginTasked
<1>6. CASE ~StepStart(e) /\ ~StepGiveUp(e) /\ ~BeginTask(e) /\ ~WaitEnds(e)
  <2>1. Elsewhere(e)'
    BY <1>0, <1>2, <1>6, StepsElsewhere
  <2>2. CASE UNCHANGED tasks
    BY <1>0, <1>2, <2>1, <2>2, ElsewhereSane, OthersStaySane, TasksStaySane
  <2>3. \/ UNCHANGED tasks
        \/ FireCoder(e) \/ FireRaises(e, FALSE) \/ EndTaskFailed(e)
        \/ \E spent \in BOOLEAN : EndTaskSucceeded(e, spent)
    BY <1>1, <1>6
       DEF Works, Breaks, Load, StepNode, WaitNode, EndNode, LoadStored, Allocate, Persist, StepDone,
           StepAttach, WaitWindow, Assemble, RecordBundle, Publish, FinishSucceeded, FinishFailed,
           FailPoc, LoadFails, AssembleFails, Die, HandOver, HandOverFails
  <2> QED
    BY <1>2, <2>1, <2>2, <2>3, OutcomeTasked
<1> QED
  BY <1>3, <1>4, <1>5, <1>6

(***************************************************************************)
(* The invariant, and what follows from it                                 *)
(***************************************************************************)

LEMMA TaskedStep ==
    ASSUME Inv, Punctual, Tasked, [SystemNext]_sysVars
    PROVE  Tasked'
<1>0. IInv /\ Delivery /\ CodeStep
  BY SystemSteps DEF Inv, SystemInv, Carried, IInv
<1>1. PlansKept
  BY <1>0, StepIInv
<1>2. CASE UNCHANGED <<tasks, execs>>
  <2>1. ASSUME NEW e \in Execs PROVE ExecSane(e)'
    <3>1. execs[e].run # 0 \/ ~Driving(e)
      BY <1>0, PlacedFacts, CodeAssumption DEF Driving, At, RunIds
    <3> QED
      BY <1>0, <1>1, <1>2, <3>1, ApartSane DEF Tasked
  <2> QED
    BY <1>2, <2>1, TasksStaySane
<1>3. ASSUME NEW s \in Mailbox, NEW e \in Execs, Deliver(s, e) PROVE Tasked'
  <2>1. UNCHANGED tasks /\ \E r : Enter(e, r)
    BY <1>3 DEF Deliver, StartRun, RepairRun, NewRun, ContinueRun
  <2>2. StaysOrStops(e) \/ execs'[e].pc = "load"
    BY <1>0, <2>1 DEF Enter, Off, IInv, TypeOK
  <2>3. \A d \in Execs \ {e} : execs'[d] = execs[d]
    BY <1>0, <2>1 DEF Enter, IInv, TypeOK
  <2>4. ExecSane(e)'
    <3>1. execs'[e].pc = "load"
      BY <1>0, <2>1 DEF Enter, Off, IInv, TypeOK
    <3> QED
      BY <3>1, ElsewhereSane DEF Elsewhere
  <2>5. ASSUME NEW d \in Execs \ {e} PROVE ExecSane(d)'
    <3>1. execs[d].run # 0 \/ ~Driving(d)
      BY <1>0, PlacedFacts, CodeAssumption DEF Driving, At, RunIds
    <3> QED
      BY <1>0, <1>1, <2>1, <2>3, <3>1, ApartSane DEF Tasked
  <2> QED
    BY <2>1, <2>4, <2>5, TasksStaySane
<1>4. ASSUME \/ \E s \in Mailbox : DeliverRefused(s) \/ Lose(s)
             \/ \E u \in Users : Chat(u)
             \/ \E v \in Versions, failure \in Components \cup {Mismatch} : AskRepair(v, failure)
             \/ \E spec \in Specs : OnlyCode(Approve(spec))
             \/ \E r \in RunIds : Silence(r)
             \/ UNCHANGED sysVars
      PROVE  UNCHANGED <<tasks, execs>>
  BY <1>4 DEF DeliverRefused, Lose, Chat, FindStale, ChatStart, ChatRetry, AbandonAndGoOn, AskRepair,
              OnlyCode, Approve, Silence, sysVars, vars, codeVars
<1> QED
  BY <1>1, <1>2, <1>3, <1>4, ExecutionTasked, CoderTasked DEF SystemNext

LEMMA TaskedStarts ==
    ASSUME SystemInit
    PROVE  Tasked
<1>1. NoTask.run = 0 /\ NoTask.status = "absent" /\ ~NoTask.old /\ NoTask.coder = "gone" /\ Off.pc = "off"
  BY DEF NoTask, Off
<1> QED
  BY <1>1 DEF SystemInit, Init, Tasked, Ordered, TaskSane, ExecSane, At, AtRest

\* The inductive invariant of the tasks: all but the last of a step have failed, and
\* an execution's view of its step's tasks still holds.
THEOREM TaskedInductive ==
    ASSUME Punctual
    PROVE  SystemSpec => [](Inv /\ Tasked)
<1>1. SystemInit => Inv /\ Tasked
  BY SystemStarts, TimelyStarts, TaskedStarts DEF Inv
<1>2. Inv /\ Tasked /\ [SystemNext]_sysVars => (Inv /\ Tasked)'
  BY SystemStep, TimelyStep, TaskedStep DEF Inv
<1> QED
  BY <1>1, <1>2, PTL DEF SystemSpec

(* No step of a run has two coders at work: a coder in flight is           *)
(* re-attached to, and one that is given up is dead.                       *)
THEOREM OneCoder ==
    ASSUME Punctual
    PROVE  SystemSpec => []OneCoderPerStep
<1>1. ASSUME Inv, Tasked, NEW t \in TaskIds, NEW u \in TaskIds, t < u,
             {tasks[t].coder, tasks[u].coder} \subseteq {"fired", "working", "wrote"},
             tasks[t].run = tasks[u].run, tasks[t].step = tasks[u].step
      PROVE  FALSE
  <2>1. tasks[t].run # 0
    BY <1>1 DEF Inv, SystemInv, Carried, Delivery, TasksTruthful, TasksPlaced
  <2> QED
    BY <1>1, <2>1 DEF Tasked, Ordered, TaskSane, AtRest
<1>2. Inv /\ Tasked => OneCoderPerStep
  <2> SUFFICES ASSUME Inv, Tasked, NEW t \in TaskIds, NEW u \in TaskIds, t # u,
                      {tasks[t].coder, tasks[u].coder} \subseteq {"fired", "working", "wrote"},
                      tasks[t].run = tasks[u].run, tasks[t].step = tasks[u].step
               PROVE  FALSE
    BY DEF OneCoderPerStep
  <2>1. t < u \/ u < t
    BY CodeAssumption DEF TaskIds
  <2> QED
    BY <1>1, <2>1
<1> QED
  BY <1>2, TaskedInductive, PTL

(* A continued run never fires a finished step again: only a step whose    *)
(* tasks have all failed gets another.                                     *)
THEOREM FinishedStepsStay ==
    ASSUME Punctual
    PROVE  SystemSpec => FinishedStepStays
<1>1. ASSUME Inv, Tasked, CodeStep, NEW r \in RunIds, NEW step \in Artefacts,
             NEW t \in TasksOf(r, step), tasks[t].status = "succeeded"
      PROVE  TasksOf(r, step)' = TasksOf(r, step)
  <2>0. IInv /\ Delivery /\ IInv'
    BY <1>1, StepIInv DEF Inv, SystemInv, Carried
  <2>1. CASE \A q \in TaskIds : tasks'[q].run = tasks[q].run /\ tasks'[q].step = tasks[q].step
    BY <2>1 DEF TasksOf
  <2>2. ASSUME NEW e \in Execs, BeginTask(e) PROVE TasksOf(r, step)' = TasksOf(r, step)
    <3>1. ~(execs[e].run = r /\ StepOf(e) = step)
      BY <1>1, <2>2 DEF Tasked, ExecSane, BeginTask
    <3> DEFINE u == [NoTask EXCEPT !.run = execs[e].run, !.step = StepOf(e), !.ver = execs[e].ver,
                                   !.status = "running", !.coder = "unfired"]
    <3>2. PICK n \in TaskIds : /\ \A q \in TaskIds : tasks[q].run # 0 <=> q < n
                               /\ tasks' = [tasks EXCEPT ![n] = u]
      BY <2>2 DEF BeginTask
    <3>3. u.run = execs[e].run /\ u.step = StepOf(e)
      BY DEF NoTask
    <3> HIDE DEF u
    <3>4. tasks[n].run = 0 /\ r # 0
      BY <3>2, CodeAssumption DEF TaskIds, RunIds
    <3>5. tasks'[n] = u /\ \A q \in TaskIds \ {n} : tasks'[q] = tasks[q]
      BY <2>0, <3>2 DEF IInv, TypeOK
    <3> QED
      BY <3>1, <3>3, <3>4, <3>5 DEF TasksOf
  <2>3. (\E e \in Execs : BeginTask(e))
           \/ \A q \in TaskIds : tasks'[q].run = tasks[q].run /\ tasks'[q].step = tasks[q].step
    BY <1>1, <2>0, TasksEffect DEF TasksStayWithRuns
  <2> QED
    BY <2>1, <2>2, <2>3
<1>2. Inv /\ Tasked /\ [SystemNext]_sysVars =>
        [\A r \in RunIds, step \in Artefacts :
          (\E t \in TasksOf(r, step) : tasks[t].status = "succeeded")
              => TasksOf(r, step)' = TasksOf(r, step)]_sysVars
  BY <1>1, SystemSteps DEF Inv, SystemInv, Carried, IInv
<1> QED
  BY <1>2, TaskedInductive, PTL DEF SystemSpec, FinishedStepStays

----------------------------------------------------------------------------

(***************************************************************************)
(* What a version is made of.  A step whose task has succeeded, or whose   *)
(* coder has written, is not built again while no other run shares the     *)
(* version, so whoever read the contract read the one that stays.          *)
(***************************************************************************)

Readers == {a \in Components : ReadsContract(a)}

\* A task of the step has succeeded; a coder of the step has written, and its
\* task has not failed since.
Succeeded(r, step) == \E t \in TasksOf(r, step) : tasks[t].status = "succeeded"
Written(r, step)   == \E t \in TasksOf(r, step) : tasks[t].status = "succeeded" \/ tasks[t].coder = "wrote"
Finished(r)        == \A i \in 1..Len(Steps(r)) : Succeeded(r, Steps(r)[i])

\* Where an execution stands in the plan, the steps before have succeeded.
Closing == {"record", "publish", "finish"}
WalkedUpTo(x) == \A i \in 1..Len(Steps(x.run)) : i < x.idx => Succeeded(x.run, Steps(x.run)[i])
Walked(e) ==
    /\ execs[e].pc \in Building => WalkedUpTo(execs[e])
    /\ execs[e].pc \in Closing => Finished(execs[e].run)

\* A task is for a step of the plan, after the contract when it reads it.
TasksPlanned ==
    \A t \in TaskIds : tasks[t].run # 0 =>
        /\ tasks[t].step \notin Kept(tasks[t].run)
        /\ tasks[t].step \in Readers /\ "contract" \notin Kept(tasks[t].run)
              => Succeeded(tasks[t].run, "contract")

Ordering == TasksPlanned /\ \A e \in Execs : Walked(e)

(***************************************************************************)
(* Plans                                                                   *)
(***************************************************************************)

LEMMA PlanFacts ==
    ASSUME NEW r \in RunIds, Plannable(r)
    PROVE  /\ Len(Steps(r)) \in Nat /\ Len(Steps(r)) # 0
           /\ \A i \in 1..Len(Steps(r)) : Steps(r)[i] \in Artefacts \ Kept(r)
           /\ \A a \in Readers \cap Kept(r) : "contract" \in Kept(r)
           /\ \A i \in 1..Len(Steps(r)) :
                 (Steps(r)[i] \in Readers /\ "contract" \notin Kept(r))
                     => \E k \in 1..Len(Steps(r)) : k < i /\ Steps(r)[k] = "contract"
<1>1. /\ Steps(r) \in Seq(Artefacts) /\ Len(Steps(r)) \in Nat
      /\ \A i \in 1..Len(Steps(r)) : Steps(r)[i] \in Artefacts
      /\ DOMAIN Steps(r) = 1..Len(Steps(r))
  BY StepsTyped
<1>2. \A i \in 1..Len(Steps(r)) : Steps(r)[i] \in Range(Steps(r))
  BY <1>1 DEF Range
<1>3. "contract" \in Range(FreshOrder) /\ "contract" \in Range(MismatchOrder)
  BY PlanAssumption, OrderAssumption
<1>4. CASE job[r].tool = "start"
  <2>1. Steps(r) = FreshOrder /\ Kept(r) = {}
    BY <1>4 DEF Steps, PlanSteps, Kept, CarriedOver
  <2>2. Len(Steps(r)) # 0
    BY <1>1, <1>3, <2>1 DEF Range
  <2>3. \A i \in 1..Len(Steps(r)) : Steps(r)[i] \in Readers =>
           \E k \in 1..(i - 1) : Steps(r)[k] = "contract"
    BY <1>1, <2>1, OrderAssumption DEF Readers, ReadsContract
  <2>4. \A i \in 1..Len(Steps(r)) : \A k \in 1..(i - 1) : k \in 1..Len(Steps(r)) /\ k < i
    BY <1>1
  <2> QED
    BY <1>1, <2>1, <2>2, <2>3, <2>4
<1>5. CASE job[r].tool = "repair"
  <2>1. Steps(r) = Regenerated(job[r].failure) /\ Kept(r) = Artefacts \ Range(Steps(r))
    BY <1>5 DEF Steps, PlanSteps, Kept, CarriedOver
  <2>2. CASE job[r].failure = Mismatch
    <3>1. Steps(r) = MismatchOrder
      BY <2>1, <2>2 DEF Regenerated
    <3>2. Len(Steps(r)) # 0
      BY <1>1, <1>3, <3>1 DEF Range
    <3>3. \A i \in 1..Len(Steps(r)) : Steps(r)[i] \in Readers =>
             \E k \in 1..(i - 1) : Steps(r)[k] = "contract"
      BY <1>1, <3>1, OrderAssumption DEF Readers, ReadsContract
    <3>4. \A i \in 1..Len(Steps(r)) : \A k \in 1..(i - 1) : k \in 1..Len(Steps(r)) /\ k < i
      BY <1>1
    <3>5. Readers \cap Kept(r) = {}
      BY <2>1, <3>1, OrderAssumption DEF Readers, ReadsContract
    <3> QED
      BY <1>1, <1>2, <2>1, <3>2, <3>3, <3>4, <3>5
  <2>3. CASE job[r].failure # Mismatch
    <3>1. job[r].failure \in Components /\ Steps(r) = <<job[r].failure>>
      BY <1>5, <2>1, <2>3 DEF Plannable, Regenerated
    <3>2. "contract" \in Kept(r)
      BY <2>1, <3>1, PlanAssumption DEF Range, Artefacts
    <3> QED
      BY <1>1, <1>2, <2>1, <3>1, <3>2
  <2> QED
    BY <2>2, <2>3
<1> QED
  BY <1>4, <1>5 DEF Plannable

\* What a step of the plan is not carried over, and the other way round.
LEMMA PlannedRun ==
    ASSUME Inv, NEW r \in RunIds, Planned(r)
    PROVE  /\ Store!Exists(r) /\ Plannable(r) /\ job[r].ver \in Versions
           /\ Kept(r) \subseteq Artefacts
<1>1. Store!Exists(r)
  BY DEF Inv, SystemInv, Carried, PlannedExist
<1> QED
  BY <1>1, KeptFacts DEF Inv, SystemInv, Carried, IInv, JobsPlannable, TypeOK, Job, Planned

(***************************************************************************)
(* What a step does to a task                                              *)
(***************************************************************************)

\* What succeeds was written, what is written was worked at, what is worked
\* at was read; and success is not taken back.
Fate(t) ==
    /\ tasks[t].status = "succeeded" => tasks'[t].status = "succeeded"
    /\ tasks'[t].status = "succeeded" => tasks[t].status = "succeeded" \/ tasks[t].coder = "wrote"
    /\ tasks'[t].coder = "working" =>
          CoderReads(t) \/ (tasks[t].coder = "working" /\ tasks'[t].read = tasks[t].read)
    /\ tasks'[t].coder = "wrote" => CoderWrites(t) \/ tasks[t].coder = "wrote"

\* Only a coder writes.
WritesNothing(t) == tasks'[t].coder = "wrote" => tasks[t].coder = "wrote"

LEMMA SameFate == ASSUME NEW t \in TaskIds, tasks'[t] = tasks[t] PROVE Fate(t) /\ WritesNothing(t)
BY DEF Fate, WritesNothing

LEMMA ExecutionFates ==
    ASSUME Inv, Tasked, NEW e \in Execs, ExecutionSteps(e), NEW t \in TaskIds
    PROVE  Fate(t) /\ WritesNothing(t)
<1>0. /\ tasks \in [TaskIds -> Task] /\ IInv
      /\ tasks[t].run = 0 => tasks[t].status = "absent" /\ tasks[t].coder = "gone"
  BY DEF Inv, SystemInv, Carried, IInv, TypeOK, Delivery, TasksTruthful, TasksPlaced
<1>1. \/ UNCHANGED tasks \/ StepGiveUp(e) \/ BeginTask(e) \/ FireCoder(e)
      \/ \E started \in BOOLEAN : FireRaises(e, started)
      \/ EndTaskFailed(e) \/ \E spent \in BOOLEAN : EndTaskSucceeded(e, spent)
  BY DEF ExecutionSteps, Works, Breaks, Load, StepNode, WaitNode, EndNode, LoadStored, Allocate,
         Persist, StepStart, StepDone, StepAttach, WaitWindow, WaitEnds, Assemble, RecordBundle,
         Publish, FinishSucceeded, FinishFailed, FailPoc, LoadFails, AssembleFails, Die,
         HandOver, HandOverFails
<1>2. CASE UNCHANGED tasks
  BY <1>2, SameFate
<1>3. CASE StepGiveUp(e)
  <2>1. PICK q \in TaskIds : Standing(q) = "given up" /\ tasks' = [tasks EXCEPT ![q].status = "failed"]
    BY <1>3 DEF StepGiveUp, NewestOfStep, Newest, TasksOf, Finish
  <2>2. tasks[q].status = "running"
    BY <1>0, <2>1 DEF Standing, Task
  <2>3. CASE t = q
    BY <1>0, <2>1, <2>2, <2>3 DEF Task, Fate, WritesNothing
  <2>4. CASE t # q
    BY <1>0, <2>1, <2>4, SameFate
  <2> QED
    BY <2>3, <2>4
<1>4. CASE BeginTask(e)
  <2> DEFINE u == [NoTask EXCEPT !.run = execs[e].run, !.step = StepOf(e), !.ver = execs[e].ver,
                                 !.status = "running", !.coder = "unfired"]
  <2>1. PICK n \in TaskIds : /\ \A q \in TaskIds : tasks[q].run # 0 <=> q < n
                             /\ tasks' = [tasks EXCEPT ![n] = u]
    BY <1>4 DEF BeginTask
  <2>2. u.status = "running" /\ u.coder = "unfired"
    BY DEF NoTask
  <2> HIDE DEF u
  <2>3. tasks[n].run = 0
    BY <2>1, CodeAssumption DEF TaskIds
  <2>4. CASE t = n
    BY <1>0, <2>1, <2>2, <2>3, <2>4 DEF Fate, WritesNothing
  <2>5. CASE t # n
    BY <1>0, <2>1, <2>5, SameFate
  <2> QED
    BY <2>4, <2>5
<1>5. CASE FireCoder(e) \/ \E started \in BOOLEAN : FireRaises(e, started)
  <2>1. PICK q : execs[e].task = q
    OBVIOUS
  <2>2. tasks[q].coder = "unfired" /\ tasks[q].status = "running"
    BY <1>5, <2>1 DEF Tasked, ExecSane, FireCoder, FireRaises
  <2>3. \E coder \in {"fired", "gone"} :
           \/ tasks' = [tasks EXCEPT ![q].coder = coder]
           \/ tasks' = [Finish(q, "failed") EXCEPT ![q].coder = coder]
    BY <1>5, <2>1 DEF FireCoder, FireRaises
  <2>4. CASE t = q
    BY <1>0, <2>2, <2>3, <2>4 DEF Task, Fate, WritesNothing, Finish
  <2>5. CASE t # q
    BY <1>0, <2>3, <2>5, SameFate DEF Finish
  <2> QED
    BY <2>4, <2>5
<1>6. CASE EndTaskFailed(e) \/ \E spent \in BOOLEAN : EndTaskSucceeded(e, spent)
  <2>1. PICK q : execs[e].task = q
    OBVIOUS
  <2>2. \/ tasks[q].status = "succeeded" /\ tasks' = Finish(q, "succeeded")
        \/ tasks[q].status # "succeeded" /\ tasks' = Finish(q, "failed")
    BY <1>6, <2>1 DEF Tasked, ExecSane, EndTaskFailed, EndTaskSucceeded
  <2>3. CASE t = q
    BY <1>0, <2>2, <2>3 DEF Task, Fate, WritesNothing, Finish
  <2>4. CASE t # q
    BY <1>0, <2>2, <2>4, SameFate DEF Finish
  <2> QED
    BY <2>3, <2>4
<1> QED
  BY <1>1, <1>2, <1>3, <1>4, <1>5, <1>6

LEMMA CoderFates ==
    ASSUME Inv, Tasked, NEW q \in TaskIds, CoderSteps(q), NEW t \in TaskIds
    PROVE  Fate(t)
<1>0. /\ tasks \in [TaskIds -> Task]
      /\ tasks[q].coder \notin AtRest => tasks[q].status = "running"
  BY DEF Inv, SystemInv, Carried, IInv, TypeOK, Tasked, TaskSane
<1>1. CASE t # q
  BY <1>0, <1>1, SameFate DEF CoderSteps, CoderReads, CoderWrites, CoderMarks, CoderFails, CoderVanishes,
                              TaskAges
<1>2. CASE t = q
  <2>1. CASE CoderReads(q)
    BY <1>0, <1>2, <2>1 DEF CoderReads, Fate, AtRest, Task
  <2>2. CASE CoderWrites(q)
    BY <1>0, <1>2, <2>2 DEF CoderWrites, Fate, AtRest, Task
  <2>3. CASE CoderMarks(q)
    BY <1>0, <1>2, <2>3 DEF CoderMarks, Fate, Task
  <2>4. CASE CoderFails(q)
    BY <1>0, <1>2, <2>4 DEF CoderFails, Fate, AtRest, Task
  <2>5. CASE CoderVanishes(q)
    BY <1>0, <1>2, <2>5 DEF CoderVanishes, Fate, AtRest, Task
  <2>6. CASE TaskAges(q)
    BY <1>0, <1>2, <2>6 DEF TaskAges, Fate, Task
  <2> QED
    BY <2>1, <2>2, <2>3, <2>4, <2>5, <2>6 DEF CoderSteps
<1> QED
  BY <1>1, <1>2

LEMMA Fates ==
    ASSUME Inv, Tasked, CodeStep, NEW t \in TaskIds
    PROVE  Fate(t)
<1>1. (\E e \in Execs : Creates(e)) => UNCHANGED tasks
  BY NewRunEffect DEF Inv, SystemInv, Carried
<1>2. Passing \/ (\E r \in RunIds : Abandon(r)) \/ (\E spec \in Specs : Approve(spec))
         \/ (\E e \in Execs, r \in RunIds : ContinueRun(e, r))
      => UNCHANGED tasks
  BY DEF Passing, Abandon, Approve, ContinueRun, codeVars
<1>3. UNCHANGED tasks => Fate(t)
  BY SameFate
<1> QED
  BY <1>1, <1>2, <1>3, ExecutionFates, CoderFates DEF CodeStep

\* A task keeps its run, step and version; a new one is begun.
LEMMA TaskKeepsPlace ==
    ASSUME Inv, CodeStep, NEW t \in TaskIds, tasks[t].run # 0
    PROVE  /\ tasks'[t].run = tasks[t].run /\ tasks'[t].step = tasks[t].step
           /\ tasks'[t].ver = tasks[t].ver
<1>1. ASSUME NEW e \in Execs, BeginTask(e)
      PROVE  tasks'[t] = tasks[t]
  <2>1. PICK n \in TaskIds : /\ \A q \in TaskIds : tasks[q].run # 0 <=> q < n
                            /\ \E u : tasks' = [tasks EXCEPT ![n] = u]
    BY <1>1 DEF BeginTask
  <2>2. tasks[n].run = 0
    BY <2>1, CodeAssumption DEF TaskIds
  <2> QED
    BY <2>1, <2>2 DEF Inv, SystemInv, Carried, IInv, TypeOK
<1> QED
  BY <1>1, TasksEffect DEF TasksStayWithRuns, Inv, SystemInv, Carried

LEMMA SuccessKept ==
    ASSUME Inv, Tasked, CodeStep, NEW r \in RunIds, NEW step, Succeeded(r, step)
    PROVE  Succeeded(r, step)'
<1>1. PICK t \in TaskIds : tasks[t].run = r /\ tasks[t].step = step /\ tasks[t].status = "succeeded"
  BY DEF Succeeded, TasksOf
<1>2. r # 0
  BY CodeAssumption DEF RunIds
<1>3. tasks'[t].run = r /\ tasks'[t].step = step /\ tasks'[t].status = "succeeded"
  BY <1>1, <1>2, Fates, TaskKeepsPlace DEF Fate
<1> QED
  BY <1>1, <1>3 DEF Succeeded, TasksOf

(***************************************************************************)
(* Executions walk along their plan                                        *)
(***************************************************************************)

LEMMA WalksOn ==
    ASSUME Inv, Tasked, CodeStep, NEW e \in Execs, NEW x, execs'[e] = x,
           NEW r \in RunIds, x.run = r, Store!Exists(r),
           x.pc \in Building => WalkedUpTo(x),
           x.pc \in Closing => Finished(r)
    PROVE  Walked(e)'
<1>1. Steps(r)' = Steps(r)
  BY StepIInv DEF Inv, SystemInv, Carried, PlansKept
<1>2. \A a : Succeeded(r, a) => Succeeded(r, a)'
  BY SuccessKept
<1>3. PICK i, pc : x.idx = i /\ x.pc = pc
  OBVIOUS
<1> QED
  BY <1>1, <1>2, <1>3 DEF Walked, WalkedUpTo, Finished

LEMMA LeavesWalked ==
    ASSUME NEW e \in Execs, execs'[e].pc \notin Building \cup Closing
    PROVE  Walked(e)'
BY DEF Walked

LEMMA StopWalks ==
    ASSUME Inv, NEW e \in Execs, Stop(e) \/ Goto(e, "fail") \/ Goto(e, "failpoc")
    PROVE  Walked(e)'
BY LeavesWalked DEF Inv, SystemInv, Carried, IInv, TypeOK, Exec, Stop, Goto, Off, Building, AtAStep, Closing

LEMMA ProceedWalks ==
    ASSUME Inv, Tasked, CodeStep, NEW e \in Execs, NEW x \in Exec, Proceed(e, x),
           NEW r \in RunIds, x.run = r, Store!Exists(r), WalkedUpTo(x)
    PROVE  Walked(e)'
<1>1. \E pc : Route(x) = [x EXCEPT !.pc = pc]
  BY DEF Route
<1>2. Route(x).run = r /\ Route(x).idx = x.idx
  BY <1>1 DEF Exec
<1>3. Route(x).pc \in {"handover", "wait", "assemble", "step"}
  BY RouteElsewhere
<1>4. execs'[e] = Route(x)
  BY DEF Proceed, Inv, SystemInv, Carried, IInv, TypeOK
<1>5. WalkedUpTo(Route(x))
  BY <1>2 DEF WalkedUpTo
<1> HIDE DEF Route
<1> QED
  BY <1>2, <1>3, <1>4, <1>5, WalksOn DEF Closing

LEMMA GotoWalks ==
    ASSUME Inv, Tasked, CodeStep, NEW e \in Execs, ~At(e, "off"), Walked(e), NEW pc, Goto(e, pc),
           pc \in Building => execs[e].pc \in Building,
           pc \in Closing => Finished(execs[e].run)
    PROVE  Walked(e)'
<1>1. PICK r \in RunIds : execs[e].run = r /\ Store!Exists(r)
  BY PlacedFacts DEF Inv, SystemInv, Carried
<1> DEFINE x == [execs[e] EXCEPT !.pc = pc]
<1>2. execs'[e] = x /\ x.run = r /\ x.idx = execs[e].idx /\ x.pc = pc
  BY <1>1 DEF Goto, Inv, SystemInv, Carried, IInv, TypeOK, Exec
<1> HIDE DEF x
<1>3. x.pc \in Building => WalkedUpTo(x)
  BY <1>1, <1>2 DEF Walked, WalkedUpTo
<1> QED
  BY <1>1, <1>2, <1>3, WalksOn

\* An execution at its step that stays at it.
LEMMA SameStepWalks ==
    ASSUME Inv, Tasked, CodeStep, NEW e \in Execs, execs[e].pc \in Building, Walked(e),
           NEW x \in Exec, Proceed(e, x), x.run = execs[e].run, x.idx = execs[e].idx
    PROVE  Walked(e)'
<1>0. ~At(e, "off")
  BY DEF At, Building, AtAStep
<1>1. PICK r \in RunIds : execs[e].run = r /\ Store!Exists(r)
  BY <1>0, PlacedFacts DEF Inv, SystemInv, Carried
<1>2. WalkedUpTo(x)
  BY <1>1 DEF Walked, WalkedUpTo
<1> QED
  BY <1>1, <1>2, ProceedWalks

\* An execution that goes on to the next step.
LEMMA NextStepWalks ==
    ASSUME Inv, Tasked, CodeStep, NEW e \in Execs, execs[e].pc \in AtAStep, Walked(e),
           Succeeded(execs[e].run, StepOf(e)),
           NEW x \in Exec, Proceed(e, x), x.run = execs[e].run, x.idx = execs[e].idx + 1
    PROVE  Walked(e)'
<1>0. ~At(e, "off")
  BY DEF At, AtAStep
<1>1. PICK r \in RunIds : execs[e].run = r /\ Store!Exists(r)
  BY <1>0, PlacedFacts DEF Inv, SystemInv, Carried
<1>2. PICK i : execs[e].idx = i
  OBVIOUS
<1>3. i \in Nat /\ Len(Steps(r)) \in Nat
  BY <1>0, <1>1, <1>2, PlacedFacts DEF Inv, SystemInv, Carried, Exec
<1>4. \A n \in 1..Len(Steps(r)) : n < i => Succeeded(r, Steps(r)[n])
  BY <1>1, <1>2 DEF Walked, WalkedUpTo, Building
<1>5. Succeeded(r, Steps(r)[i])
  BY <1>1, <1>2 DEF StepOf
<1>6. \A n \in 1..Len(Steps(r)) : n < i + 1 => Succeeded(r, Steps(r)[n])
  BY <1>3, <1>4, <1>5
<1>7. WalkedUpTo(x)
  BY <1>1, <1>2, <1>6 DEF WalkedUpTo
<1> QED
  BY <1>1, <1>7, ProceedWalks

LEMMA LoadWalks ==
    ASSUME Inv, Tasked, CodeStep, NEW e \in Execs, Load(e)
    PROVE  Walked(e)'
<1>0. ~At(e, "off") /\ execs[e] \in Exec
  BY DEF Load, LoadStored, Allocate, Persist, At, Inv, SystemInv, Carried, IInv, TypeOK
<1>1. PICK r \in RunIds : execs[e].run = r /\ Store!Exists(r)
  BY <1>0, PlacedFacts DEF Inv, SystemInv, Carried
<1>2. ASSUME NEW x \in Exec, Proceed(e, x), x.run = r, x.idx = 1
      PROVE  Walked(e)'
  <2>1. Len(Steps(r)) \in Nat
    BY <1>0, <1>1, PlacedFacts DEF Inv, SystemInv, Carried
  <2>2. WalkedUpTo(x)
    BY <1>2, <2>1 DEF WalkedUpTo
  <2> QED
    BY <1>1, <1>2, <2>2, ProceedWalks
<1>3. CASE LoadStored(e)
  <2> DEFINE x == [execs[e] EXCEPT !.ver = job[r].ver, !.idx = 1]
  <2>1. job[r].ver \in Versions
    BY <1>1, <1>3, PlannedRun DEF LoadStored
  <2>2. x \in Exec /\ x.run = r /\ x.idx = 1
    BY <1>0, <1>1, <2>1 DEF Exec
  <2>3. Proceed(e, x)
    BY <1>1, <1>3 DEF LoadStored
  <2> HIDE DEF x
  <2> QED
    BY <1>2, <2>2, <2>3
<1>4. CASE Allocate(e)
  <2>1. execs'[e].pc = "persist"
    <3>1. PICK v \in Versions : execs' = [execs EXCEPT ![e].pc = "persist", ![e].ver = v]
      BY <1>4 DEF Allocate
    <3> QED
      BY <1>0, <3>1 DEF Inv, SystemInv, Carried, IInv, TypeOK, Exec
  <2> QED
    BY <2>1, LeavesWalked DEF Building, AtAStep, Closing
<1>5. CASE Persist(e)
  <2> DEFINE x == [execs[e] EXCEPT !.idx = 1]
  <2>1. x \in Exec /\ x.run = r /\ x.idx = 1 /\ Proceed(e, x)
    BY <1>0, <1>1, <1>5 DEF Exec, Persist
  <2> HIDE DEF x
  <2> QED
    BY <1>2, <2>1
<1> QED
  BY <1>3, <1>4, <1>5 DEF Load

LEMMA StepNodeWalks ==
    ASSUME Inv, Tasked, CodeStep, NEW e \in Execs, StepNode(e), Walked(e)
    PROVE  Walked(e)'
<1>0. /\ execs[e].pc \in AtAStep /\ execs[e].pc \in Building /\ ~At(e, "off")
      /\ execs \in [Execs -> Exec] /\ execs[e] \in Exec
  BY DEF StepNode, StepStart, StepDone, StepAttach, StepGiveUp, BeginTask, FireCoder, At, AtAStep,
         Building, Inv, SystemInv, Carried, IInv, TypeOK
<1>1. CASE StepStart(e) \/ StepGiveUp(e)
  BY <1>0, <1>1, GotoWalks DEF StepStart, StepGiveUp, Closing
<1>2. CASE StepDone(e)
  <2> DEFINE x == [execs[e] EXCEPT !.idx = @ + 1, !.task = 0]
  <2>0. execs[e].idx + 1 \in Nat
    BY <1>0 DEF Exec
  <2>1. x \in Exec /\ x.run = execs[e].run /\ x.idx = execs[e].idx + 1
    BY <1>0, <2>0 DEF Exec
  <2>2. CASE Proceed(e, x)
    <3>1. Succeeded(execs[e].run, StepOf(e))
      BY <1>2 DEF StepDone, NewestOfStep, Newest, Standing, Succeeded
    <3> HIDE DEF x
    <3> QED
      BY <1>0, <2>1, <2>2, <3>1, NextStepWalks
  <2>3. CASE Refused(e)
    BY <2>3, StopWalks DEF Refused
  <2> QED
    BY <1>2, <2>2, <2>3 DEF StepDone
<1>3. CASE StepAttach(e)
  <2>1. PICK t \in TaskIds : Proceed(e, [execs[e] EXCEPT !.task = t])
    BY <1>3 DEF StepAttach, NewestOfStep, Newest, TasksOf
  <2> DEFINE x == [execs[e] EXCEPT !.task = t]
  <2>2. x \in Exec /\ x.run = execs[e].run /\ x.idx = execs[e].idx
    BY <1>0 DEF Exec
  <2> HIDE DEF x
  <2> QED
    BY <1>0, <2>1, <2>2, SameStepWalks DEF x
<1>4. CASE BeginTask(e)
  <2>1. CASE Refused(e)
    BY <2>1, StopWalks DEF Refused
  <2>2. ASSUME NEW t \in TaskIds, execs' = [execs EXCEPT ![e].pc = "fire", ![e].task = t]
        PROVE  Walked(e)'
    <3>1. PICK r \in RunIds : execs[e].run = r /\ Store!Exists(r)
      BY <1>0, PlacedFacts DEF Inv, SystemInv, Carried
    <3> DEFINE x == [execs[e] EXCEPT !.pc = "fire", !.task = t]
    <3>2. execs'[e] = x /\ x.run = r /\ x.idx = execs[e].idx /\ x.pc = "fire"
      BY <1>0, <2>2, <3>1 DEF Exec
    <3> HIDE DEF x
    <3>3. WalkedUpTo(x)
      BY <1>0, <3>1, <3>2 DEF Walked, WalkedUpTo
    <3> QED
      BY <3>1, <3>2, <3>3, WalksOn DEF Closing
  <2> QED
    BY <1>4, <2>1, <2>2 DEF BeginTask
<1>5. CASE FireCoder(e)
  BY <1>0, <1>5, SameStepWalks DEF FireCoder
<1> QED
  BY <1>1, <1>2, <1>3, <1>4, <1>5 DEF StepNode

LEMMA WaitNodeWalks ==
    ASSUME Inv, Tasked, CodeStep, NEW e \in Execs, WaitNode(e) \/ HandOver(e) \/ HandOverFails(e),
           Walked(e)
    PROVE  Walked(e)'
<1>0. execs[e].pc \in Building /\ ~At(e, "off") /\ execs[e] \in Exec
  BY DEF WaitNode, WaitWindow, EndTaskSucceeded, WaitEnds, EndTaskFailed, HandOver, HandOverFails, At,
         AtAStep, Building, Inv, SystemInv, Carried, IInv, TypeOK
<1>1. ASSUME NEW spent \in BOOLEAN, Proceed(e, [execs[e] EXCEPT !.spent = spent])
      PROVE  Walked(e)'
  <2> DEFINE x == [execs[e] EXCEPT !.spent = spent]
  <2>1. x \in Exec /\ x.run = execs[e].run /\ x.idx = execs[e].idx
    BY <1>0 DEF Exec
  <2> HIDE DEF x
  <2> QED
    BY <1>0, <1>1, <2>1, SameStepWalks DEF x
<1>2. ASSUME NEW spent \in BOOLEAN, EndTaskSucceeded(e, spent) PROVE Walked(e)'
  <2> DEFINE x == [execs[e] EXCEPT !.idx = @ + 1, !.task = 0, !.spent = spent]
  <2>0. execs[e].idx + 1 \in Nat
    BY <1>0 DEF Exec
  <2>1. x \in Exec /\ x.run = execs[e].run /\ x.idx = execs[e].idx + 1
    BY <1>0, <2>0 DEF Exec
  <2>2. CASE Proceed(e, x)
    <3>1. At(e, "endok")
      BY <1>2 DEF EndTaskSucceeded
    <3>2. Succeeded(execs[e].run, StepOf(e))
      BY <3>1 DEF At, Inv, SystemInv, Carried, Delivery, Follows, Busy, Tasked, ExecSane, Succeeded, TasksOf
    <3> HIDE DEF x
    <3> QED
      BY <2>1, <2>2, <3>1, <3>2, NextStepWalks DEF At, AtAStep
  <2>3. CASE Refused(e)
    BY <2>3, StopWalks DEF Refused
  <2> QED
    BY <1>2, <2>2, <2>3 DEF EndTaskSucceeded
<1>3. CASE WaitEnds(e)
  BY <1>0, <1>3, GotoWalks DEF WaitEnds, Closing
<1>4. CASE EndTaskFailed(e) \/ HandOver(e)
  BY <1>4, StopWalks DEF EndTaskFailed, RecordFailure, Refused, HandOver
<1> QED
  BY <1>1, <1>2, <1>3, <1>4 DEF WaitNode, WaitWindow, HandOverFails

LEMMA AssembledFinished ==
    ASSUME Inv, NEW e \in Execs, At(e, "assemble"), Walked(e)
    PROVE  Finished(execs[e].run)
<1>1. PICK r \in RunIds : execs[e].run = r /\ Len(Steps(r)) \in Nat
  BY PlacedFacts DEF At, Inv, SystemInv, Carried
<1>2. PICK i : execs[e].idx = i
  OBVIOUS
<1>3. i \in Nat /\ i > Len(Steps(r))
  BY <1>1, <1>2 DEF At, Inv, SystemInv, Carried, Fit, IInv, TypeOK, Exec
<1>4. \A n \in 1..Len(Steps(r)) : n < i => Succeeded(r, Steps(r)[n])
  BY <1>1, <1>2 DEF At, Walked, WalkedUpTo, Building
<1> QED
  BY <1>1, <1>3, <1>4 DEF Finished

LEMMA EndWalks ==
    ASSUME Inv, Tasked, CodeStep, NEW e \in Execs, EndNode(e), Walked(e)
    PROVE  Walked(e)'
<1>0. ~At(e, "off")
  BY DEF EndNode, Assemble, RecordBundle, Publish, FinishSucceeded, FinishFailed, FailPoc, At
<1>1. CASE Assemble(e)
  BY <1>0, <1>1, AssembledFinished, GotoWalks, StopWalks DEF Assemble, Building, AtAStep
<1>2. CASE RecordBundle(e) \/ Publish(e)
  <2>1. Finished(execs[e].run)
    BY <1>2 DEF RecordBundle, Publish, At, Walked, Closing
  <2> QED
    BY <1>0, <1>2, <2>1, GotoWalks, StopWalks DEF RecordBundle, Publish, Building, AtAStep
<1>3. CASE FinishSucceeded(e) \/ FailPoc(e) \/ FinishFailed(e)
  BY <1>3, StopWalks DEF FinishSucceeded, FailPoc, FinishFailed
<1> QED
  BY <1>1, <1>2, <1>3 DEF EndNode

LEMMA ExecutionWalks ==
    ASSUME Inv, Tasked, CodeStep, NEW e \in Execs, ExecutionSteps(e), Walked(e)
    PROVE  Walked(e)'
<1>1. CASE Breaks(e) \/ FireRaises(e, TRUE)
  BY <1>1, StopWalks DEF Breaks, LoadFails, FireRaises, AssembleFails, Die, RecordFailure, Refused
<1> QED
  BY <1>1, LoadWalks, StepNodeWalks, WaitNodeWalks, EndWalks DEF ExecutionSteps, Works

LEMMA OthersWalk ==
    ASSUME Inv, Tasked, CodeStep, NEW e \in Execs, Walked(e), execs'[e] = execs[e]
    PROVE  Walked(e)'
<1>1. CASE At(e, "off")
  BY <1>1, LeavesWalked DEF At, Building, AtAStep, Closing
<1>2. CASE ~At(e, "off")
  <2>1. PICK r \in RunIds : execs[e].run = r /\ Store!Exists(r)
    BY <1>2, PlacedFacts DEF Inv, SystemInv, Carried
  <2>2. PICK x : execs[e] = x
    OBVIOUS
  <2>3. (x.pc \in Building => WalkedUpTo(x)) /\ (x.pc \in Closing => Finished(r))
    BY <2>1, <2>2 DEF Walked
  <2> QED
    BY <2>1, <2>2, <2>3, WalksOn
<1> QED
  BY <1>1, <1>2

LEMMA AllWalk ==
    ASSUME Inv, Tasked, CodeStep, \A e \in Execs : Walked(e)
    PROVE  \A e \in Execs : Walked(e)'
<1>0. IInv
  BY DEF Inv, SystemInv, Carried
<1>1. ASSUME NEW e \in Execs, ExecutionSteps(e) PROVE \A d \in Execs : Walked(d)'
  <2>1. \A d \in Execs \ {e} : execs'[d] = execs[d]
    BY <1>0, <1>1, ExecsEffect DEF StaysOrStops
  <2> QED
    BY <1>1, <2>1, ExecutionWalks, OthersWalk
<1>2. ASSUME NEW e \in Execs, NEW r, Enter(e, r) PROVE \A d \in Execs : Walked(d)'
  <2>1. /\ \A d \in Execs \ {e} : execs'[d] = execs[d]
        /\ execs'[e].pc = "load"
    BY <1>0, <1>2 DEF Enter, Off, IInv, TypeOK
  <2>2. Walked(e)'
    BY <2>1, LeavesWalked DEF Building, AtAStep, Closing
  <2> QED
    BY <2>1, <2>2, OthersWalk
<1>3. ASSUME NEW e \in Execs, Creates(e) PROVE \E r : Enter(e, r)
  BY <1>0, <1>3, NewRunEffect
<1>4. ASSUME NEW e \in Execs, NEW r \in RunIds, ContinueRun(e, r) PROVE Enter(e, r)
  BY <1>4 DEF ContinueRun
<1>5. CASE UNCHANGED execs
  BY <1>5, OthersWalk
<1>6. (\E t \in TaskIds : CoderSteps(t)) \/ Passing \/ (\E r \in RunIds : Abandon(r))
         \/ (\E spec \in Specs : Approve(spec))
      => UNCHANGED execs
  BY DEF CoderSteps, CoderReads, CoderWrites, CoderMarks, CoderFails, CoderVanishes, TaskAges, Passing,
         Abandon, Approve, codeVars
<1> QED
  BY <1>1, <1>2, <1>3, <1>4, <1>5, <1>6 DEF CodeStep

LEMMA TaskOfRun ==
    ASSUME Inv, NEW t \in TaskIds, tasks[t].run # 0
    PROVE  \E r \in RunIds : /\ tasks[t].run = r /\ Planned(r) /\ tasks[t].ver = job[r].ver
                             /\ tasks[t].step \in Artefacts
BY DEF Inv, SystemInv, Carried, IInv, TypeOK, Task, TasksVersioned, Delivery, TasksTruthful, TasksPlaced

LEMMA PlannedStays ==
    ASSUME Inv, CodeStep, NEW r \in RunIds, Planned(r)
    PROVE  Planned(r)' /\ job'[r].ver = job[r].ver /\ Kept(r)' = Kept(r) /\ Steps(r)' = Steps(r)
<1>1. StepKeeps /\ Store!Exists(r)
  BY AllKeep, PlannedRun DEF Inv, SystemInv
<1> QED
  BY <1>1, KeptStays DEF StepKeeps, PlansFixed, PlansKept, Planned

LEMMA BegunPlanned ==
    ASSUME Inv, Tasked, CodeStep, NEW e \in Execs, Walked(e), BeginTask(e), NEW t \in TaskIds,
           tasks[t].run = 0, tasks'[t].run # 0
    PROVE  \E r \in RunIds :
              /\ tasks'[t].run = r /\ Planned(r) /\ tasks'[t].step \notin Kept(r)
              /\ tasks'[t].step \in Readers /\ "contract" \notin Kept(r) => Succeeded(r, "contract")
<1>0. At(e, "begin") /\ execs \in [Execs -> Exec] /\ tasks \in [TaskIds -> Task]
  BY DEF BeginTask, Inv, SystemInv, Carried, IInv, TypeOK
<1>1. PICK r \in RunIds : execs[e].run = r /\ Store!Exists(r) /\ Plannable(r) /\ Placed(e)
  BY <1>0, PlacedFacts DEF At, Inv, SystemInv, Carried
<1>2. PICK i : execs[e].idx = i
  OBVIOUS
<1>3. i \in 1..Len(Steps(r)) /\ Planned(r) /\ StepOf(e) = Steps(r)[i]
  BY <1>0, <1>1, <1>2 DEF At, Placed, AtAStep, Inv, SystemInv, Carried, Fit, Beyond, StepOf
<1> DEFINE u == [NoTask EXCEPT !.run = execs[e].run, !.step = StepOf(e), !.ver = execs[e].ver,
                               !.status = "running", !.coder = "unfired"]
<1>4. PICK n \in TaskIds : tasks' = [tasks EXCEPT ![n] = u]
  BY DEF BeginTask
<1>5. u.run = r /\ u.step = Steps(r)[i]
  BY <1>1, <1>3 DEF NoTask
<1> HIDE DEF u
<1>6. tasks'[t].run = r /\ tasks'[t].step = Steps(r)[i]
  BY <1>0, <1>4, <1>5
<1>7. \A k \in 1..Len(Steps(r)) : k < i => Succeeded(r, Steps(r)[k])
  BY <1>0, <1>1, <1>2 DEF At, Walked, WalkedUpTo, Building, AtAStep
<1>8. Steps(r)[i] \notin Kept(r)
  BY <1>1, <1>3, PlanFacts
<1>9. Steps(r)[i] \in Readers /\ "contract" \notin Kept(r) => Succeeded(r, "contract")
  BY <1>1, <1>3, <1>7, PlanFacts
<1> QED
  BY <1>3, <1>6, <1>8, <1>9

LEMMA OrderingStep ==
    ASSUME Inv, Tasked, Ordering, CodeStep
    PROVE  Ordering'
<1>1. ASSUME NEW t \in TaskIds, tasks'[t].run # 0
      PROVE  \E r \in RunIds :
                /\ tasks'[t].run = r /\ Planned(r) /\ tasks'[t].step \notin Kept(r)
                /\ tasks'[t].step \in Readers /\ "contract" \notin Kept(r) => Succeeded(r, "contract")
  <2>1. CASE tasks[t].run # 0
    <3>1. PICK r \in RunIds : tasks[t].run = r /\ Planned(r)
      BY <2>1, TaskOfRun
    <3>2. tasks'[t].run = r /\ tasks'[t].step = tasks[t].step
      BY <2>1, <3>1, TaskKeepsPlace
    <3> QED
      BY <2>1, <3>1, <3>2 DEF Ordering, TasksPlanned
  <2>2. CASE tasks[t].run = 0
    <3>1. PICK e \in Execs : BeginTask(e)
      BY <1>1, <2>2, TasksEffect DEF TasksStayWithRuns, Inv, SystemInv, Carried
    <3> QED
      BY <1>1, <2>2, <3>1, BegunPlanned DEF Ordering
  <2> QED
    BY <2>1, <2>2
<1>2. ASSUME NEW t \in TaskIds, tasks'[t].run # 0
      PROVE  /\ tasks'[t].step \notin Kept(tasks[t].run)'
             /\ tasks'[t].step \in Readers /\ "contract" \notin Kept(tasks[t].run)'
                   => Succeeded(tasks[t].run, "contract")'
  <2>1. PICK r \in RunIds :
                /\ tasks'[t].run = r /\ Planned(r) /\ tasks'[t].step \notin Kept(r)
                /\ tasks'[t].step \in Readers /\ "contract" \notin Kept(r) => Succeeded(r, "contract")
    BY <1>1, <1>2
  <2>2. Kept(r)' = Kept(r) /\ (Succeeded(r, "contract") => Succeeded(r, "contract")')
    BY <2>1, PlannedStays, SuccessKept
  <2> QED
    BY <2>1, <2>2
<1>3. TasksPlanned'
  BY <1>2 DEF TasksPlanned
<1> QED
  BY <1>3, AllWalk DEF Ordering

LEMMA OrderingStarts ==
    ASSUME SystemInit
    PROVE  Ordering
<1>1. NoTask.run = 0 /\ Off.pc = "off"
  BY DEF NoTask, Off
<1> QED
  BY <1>1 DEF SystemInit, Init, Ordering, TasksPlanned, Walked, Building, AtAStep, Closing

(***************************************************************************)
(* One contract                                                            *)
(***************************************************************************)

FromContract(v, a) == code[v][a].con = code[v]["contract"].by

\* What is carried over, being read or written is from the contract that lies
\* under the version.
RunCoherent(r) ==
    Planned(r) =>
        /\ \A a \in Readers \cap Kept(r) : FromContract(job[r].ver, a)
        /\ \A t \in TaskIds : tasks[t].run = r /\ tasks[t].step \in Readers =>
              /\ tasks[t].coder = "working" => tasks[t].read = code[job[r].ver]["contract"].by
              /\ tasks[t].status = "succeeded" \/ tasks[t].coder = "wrote"
                    => FromContract(job[r].ver, tasks[t].step)

\* What was copied for a repair that has not stored its plan yet, too, but for
\* a version that another run has already planned with.
CopyCoherent(e) ==
    At(e, "persist") =>
        \/ \E p \in RunIds : Planned(p) /\ job[p].ver = execs[e].ver
        \/ \A a \in Readers \cap Kept(execs[e].run) : FromContract(execs[e].ver, a)

\* A bundle is what lies under its version, built by a run that is done with it.
BundleTrue(v) ==
    bundle[v].made =>
        /\ bundle[v].files = code[v]
        /\ \E r \in RunIds : Planned(r) /\ job[r].ver = v /\ Finished(r)

Coherent ==
    Unshared => /\ \A r \in RunIds : RunCoherent(r)
                /\ \A v \in Versions : BundleTrue(v)
                /\ \A e \in Execs : CopyCoherent(e)

LEMMA UnsharedBefore ==
    ASSUME Inv, CodeStep, Unshared'
    PROVE  Unshared
<1> SUFFICES ASSUME NEW p \in RunIds, NEW q \in RunIds, Planned(p), job[p].ver = job[q].ver
             PROVE  p = q
  BY DEF Unshared
<1>1. Planned(q)
  BY DEF Planned
<1>2. Planned(p)' /\ job'[p].ver = job'[q].ver
  BY <1>1, PlannedStays
<1> QED
  BY <1>2 DEF Unshared

LEMMA ReadersFacts == Readers \subseteq Artefacts /\ "contract" \in Artefacts /\ "contract" \notin Readers
BY PlanAssumption DEF Readers, Artefacts

\* An artefact that is carried over or written lies under the version ...
LEMMA LiesThere ==
    ASSUME Inv, NEW r \in RunIds, Planned(r), NEW a, a \in Kept(r) \/ Written(r, a)
    PROVE  code[job[r].ver][a] # Missing
<1>1. CASE a \in Kept(r)
  BY <1>1 DEF Inv, SystemInv, Carried, Built, Has
<1>2. CASE Written(r, a)
  <2>1. PICK t \in TaskIds : /\ tasks[t].run = r /\ tasks[t].step = a
                             /\ tasks[t].status = "succeeded" \/ tasks[t].coder = "wrote"
    BY <1>2 DEF Written, TasksOf
  <2>2. tasks[t].ver = job[r].ver
    BY <2>1, CodeAssumption DEF RunIds, Inv, SystemInv, Carried, TasksVersioned
  <2> QED
    BY <2>1, <2>2 DEF Inv, SystemInv, Carried, Delivery, TasksTruthful, DoneIsInPlace, WritersDelivered,
                      InPlace
<1> QED
  BY <1>1, <1>2

\* ... and stays there, unless runs share it: no coder of its step is at work.
LEMMA StaysThere ==
    ASSUME Inv, Tasked, Ordering, CodeStep, Unshared, NEW r \in RunIds, Planned(r),
           NEW a \in Artefacts, a \in Kept(r) \/ Written(r, a)
    PROVE  code'[job[r].ver][a] = code[job[r].ver][a]
<1>0. /\ code \in [Versions -> [Artefacts -> Artefact]] /\ IInv
      /\ job[r].ver \in Versions
  BY PlannedRun DEF Inv, SystemInv, Carried, IInv, TypeOK
<1>1. PICK v \in Versions : v = job[r].ver
  BY <1>0
<1>2. code[v][a] # Missing
  BY <1>1, LiesThere
<1>3. ASSUME NEW e \in Execs, Allocate(e) PROVE code'[v] = code[v]
  <2>1. PICK w \in Versions : /\ IsNextVersion(w)
                              /\ \E f : code' = [code EXCEPT ![w] = f]
    BY <1>3 DEF Allocate
  <2>2. Used(v)
    BY <1>2 DEF Used, NoCode
  <2>3. w # v
    BY <2>1, <2>2 DEF IsNextVersion, Versions
  <2> QED
    BY <1>0, <2>1, <2>3
<1>4. ASSUME NEW u \in TaskIds, CoderWrites(u) PROVE code'[v][a] = code[v][a]
  <2>1. /\ code' = [code EXCEPT ![tasks[u].ver][tasks[u].step] = [by |-> u, con |-> tasks[u].read]]
        /\ tasks[u].coder = "working" /\ tasks[u].status = "running"
    BY <1>4 DEF CoderWrites, Tasked, TaskSane, AtRest
  <2>2. tasks[u].run # 0
    BY <2>1 DEF Inv, SystemInv, Carried, Delivery, TasksTruthful, TasksPlaced
  <2>3. PICK p \in RunIds : tasks[u].run = p /\ Planned(p) /\ tasks[u].ver = job[p].ver
    BY <2>2, TaskOfRun
  <2>4. CASE tasks[u].ver = v /\ tasks[u].step = a
    <3>1. p = r
      BY <1>1, <2>3, <2>4 DEF Unshared
    <3>2. a \notin Kept(r)
      BY <2>2, <2>3, <2>4, <3>1 DEF Ordering, TasksPlanned
    <3>3. PICK t \in TaskIds : /\ tasks[t].run = r /\ tasks[t].step = a
                               /\ tasks[t].status = "succeeded" \/ tasks[t].coder = "wrote"
      BY <3>2 DEF Written, TasksOf
    <3>4. t # u /\ tasks[t].status # "failed"
      BY <2>1, <3>3 DEF Tasked, TaskSane, AtRest
    <3>5. t < u \/ u < t
      BY <3>4, CodeAssumption DEF TaskIds
    <3>6. tasks[t].status = "failed" \/ tasks[u].status = "failed"
      BY <2>2, <2>3, <2>4, <3>1, <3>3, <3>5 DEF Tasked, Ordered
    <3> QED
      BY <2>1, <3>4, <3>6
  <2>5. CASE ~(tasks[u].ver = v /\ tasks[u].step = a)
    BY <1>0, <2>1, <2>5
  <2> QED
    BY <2>4, <2>5
<1> QED
  BY <1>0, <1>1, <1>3, <1>4, CodeEffect

\* The contract a reader was fired after stays.
LEMMA ContractStays ==
    ASSUME Inv, Tasked, Ordering, CodeStep, Unshared, NEW r \in RunIds, Planned(r),
           "contract" \in Kept(r) \/ Succeeded(r, "contract")
    PROVE  code'[job[r].ver]["contract"] = code[job[r].ver]["contract"]
BY StaysThere, ReadersFacts DEF Written, Succeeded

LEMMA ReadersContract ==
    ASSUME Inv, Ordering, NEW t \in TaskIds, NEW r \in RunIds, tasks[t].run = r, tasks[t].step \in Readers
    PROVE  "contract" \in Kept(r) \/ Succeeded(r, "contract")
BY CodeAssumption DEF RunIds, Ordering, TasksPlanned

LEMMA KeptStaysCoherent ==
    ASSUME Inv, Tasked, Ordering, CodeStep, Unshared, NEW r \in RunIds, Planned(r), RunCoherent(r),
           NEW a \in Readers \cap Kept(r)
    PROVE  FromContract(job[r].ver, a)'
<1>1. PICK v : v = job[r].ver
  OBVIOUS
<1>2. FromContract(v, a)
  BY <1>1 DEF RunCoherent
<1>3. "contract" \in Kept(r)
  BY PlannedRun, PlanFacts
<1>4. code'[v][a] = code[v][a] /\ code'[v]["contract"] = code[v]["contract"]
  BY <1>1, <1>3, StaysThere, ReadersFacts
<1>5. job'[r].ver = v
  BY <1>1, PlannedStays
<1> QED
  BY <1>2, <1>4, <1>5 DEF FromContract

LEMMA TaskStaysCoherent ==
    ASSUME Inv, Tasked, Ordering, CodeStep, Unshared, NEW r \in RunIds, Planned(r), RunCoherent(r),
           NEW t \in TaskIds, tasks[t].run = r, tasks[t].step \in Readers
    PROVE  /\ tasks'[t].coder = "working" => tasks'[t].read = code'[job[r].ver]["contract"].by
           /\ tasks'[t].status = "succeeded" \/ tasks'[t].coder = "wrote"
                 => code'[job[r].ver][tasks[t].step].con = code'[job[r].ver]["contract"].by
<1>0. r # 0 /\ code \in [Versions -> [Artefacts -> Artefact]] /\ tasks \in [TaskIds -> Task]
  BY CodeAssumption DEF RunIds, Inv, SystemInv, Carried, IInv, TypeOK
<1>1. PICK v \in Versions : v = job[r].ver /\ tasks[t].ver = v
  BY <1>0, PlannedRun DEF Inv, SystemInv, Carried, TasksVersioned
<1>2. PICK a \in Readers : a = tasks[t].step
  OBVIOUS
<1>3. code'[v]["contract"] = code[v]["contract"]
  BY <1>1, ReadersContract, ContractStays
<1>4. Fate(t)
  BY Fates
<1>5. ASSUME tasks'[t].coder = "working" PROVE tasks'[t].read = code'[v]["contract"].by
  <2>1. CASE CoderReads(t)
    BY <1>0, <1>1, <1>3, <2>1 DEF CoderReads, Readers, Task
  <2>2. CASE tasks[t].coder = "working" /\ tasks'[t].read = tasks[t].read
    BY <1>1, <1>3, <2>2 DEF RunCoherent
  <2> QED
    BY <1>4, <1>5, <2>1, <2>2 DEF Fate
<1>6. ASSUME tasks[t].status = "succeeded" \/ tasks[t].coder = "wrote"
      PROVE  code'[v][a].con = code'[v]["contract"].by
  <2>1. Written(r, a)
    BY <1>2, <1>6 DEF Written, TasksOf
  <2>2. code'[v][a] = code[v][a]
    BY <1>1, <2>1, StaysThere, ReadersFacts
  <2>3. FromContract(v, a)
    BY <1>1, <1>2, <1>6 DEF RunCoherent
  <2> QED
    BY <1>3, <2>2, <2>3 DEF FromContract
<1>7. ASSUME CoderWrites(t)
      PROVE  code'[v][a].con = code'[v]["contract"].by
  <2>1. code' = [code EXCEPT ![v][a] = [by |-> t, con |-> tasks[t].read]] /\ tasks[t].coder = "working"
    BY <1>1, <1>2, <1>7 DEF CoderWrites
  <2>2. tasks[t].read = code[v]["contract"].by
    BY <1>1, <2>1 DEF RunCoherent
  <2>3. code'[v][a] = [by |-> t, con |-> tasks[t].read]
    BY <1>0, <2>1, ReadersFacts
  <2> QED
    BY <1>3, <2>2, <2>3
<1> QED
  BY <1>1, <1>2, <1>4, <1>5, <1>6, <1>7 DEF Fate

\* No coder is at work on a task that has not been begun.
LEMMA NewTaskIdle ==
    ASSUME Inv, Tasked, CodeStep, NEW t \in TaskIds, tasks[t].run = 0
    PROVE  tasks'[t].coder \notin {"working", "wrote"} /\ tasks'[t].status # "succeeded"
<1>1. tasks[t].status = "absent" /\ tasks[t].coder = "gone"
  BY DEF Inv, SystemInv, Carried, Delivery, TasksTruthful, TasksPlaced
<1> QED
  BY <1>1, Fates DEF Fate, CoderReads, CoderWrites

LEMMA RunStaysCoherent ==
    ASSUME Inv, Tasked, Ordering, CodeStep, Unshared, NEW r \in RunIds, Planned(r), RunCoherent(r)
    PROVE  RunCoherent(r)'
<1>1. PICK v : v = job[r].ver /\ v = job'[r].ver
  BY PlannedStays
<1>2. Kept(r)' = Kept(r)
  BY PlannedStays
<1>3. \A a \in Readers \cap Kept(r) : FromContract(v, a)'
  BY <1>1, KeptStaysCoherent DEF FromContract
<1>4. ASSUME NEW t \in TaskIds, tasks'[t].run = r, tasks'[t].step \in Readers
      PROVE  /\ tasks'[t].coder = "working" => tasks'[t].read = code'[v]["contract"].by
             /\ tasks'[t].status = "succeeded" \/ tasks'[t].coder = "wrote"
                   => code'[v][tasks'[t].step].con = code'[v]["contract"].by
  <2>1. CASE tasks[t].run = 0
    BY <2>1, NewTaskIdle
  <2>2. CASE tasks[t].run # 0
    <3>1. tasks[t].run = r /\ tasks'[t].step = tasks[t].step
      BY <1>4, <2>2, TaskKeepsPlace
    <3> QED
      BY <1>1, <1>4, <3>1, TaskStaysCoherent
  <2> QED
    BY <2>1, <2>2
<1> QED
  BY <1>1, <1>2, <1>3, <1>4 DEF RunCoherent, FromContract

\* The copy a repair made is what its plan starts from.
LEMMA RunBecomesCoherent ==
    ASSUME Inv, Tasked, Ordering, CodeStep, Unshared', NEW r \in RunIds, ~Planned(r), Planned(r)',
           \A e \in Execs : CopyCoherent(e)
    PROVE  RunCoherent(r)'
<1>0. IInv /\ PlannedExist /\ TasksVersioned /\ job \in [RunIds -> Job]
  BY DEF Inv, SystemInv, Carried, IInv, TypeOK
<1>1. PICK e \in Execs : Persist(e)
  BY <1>0, VersionsEffect DEF VersionsKept, Planned
<1>2. PICK d : execs[e].run = d
  OBVIOUS
<1>3. d = r /\ job'[r].ver = execs[e].ver /\ UNCHANGED <<tasks, code>>
  BY <1>0, <1>1, <1>2 DEF Persist, Planned, Job
<1>4. Store!Exists(r) /\ At(e, "persist")
  BY <1>1, <1>2, <1>3, PlacedFacts, <1>0 DEF Persist, At
<1>5. Kept(r)' = Kept(r)
  BY <1>4, AllKeep, KeptStays DEF Inv, SystemInv, StepKeeps
<1>6. ASSUME NEW p \in RunIds, Planned(p), job[p].ver = execs[e].ver PROVE FALSE
  <2>1. job'[p].ver = job'[r].ver /\ Planned(p)'
    BY <1>3, <1>6, PlannedStays
  <2>2. p = r
    BY <2>1 DEF Unshared
  <2> QED
    BY <1>6, <2>2
<1>7. PICK v : v = execs[e].ver
  OBVIOUS
<1>8. \A a \in Readers \cap Kept(r) : FromContract(v, a)
  BY <1>2, <1>3, <1>4, <1>6, <1>7 DEF CopyCoherent
<1>9. \A t \in TaskIds : tasks'[t].run # r
  BY <1>0, <1>3, CodeAssumption DEF TasksVersioned, RunIds
<1>10. \A a \in Readers \cap Kept(r) : FromContract(v, a)'
  BY <1>3, <1>8 DEF FromContract
<1>11. job'[r].ver = v
  BY <1>3, <1>7
<1> QED
  BY <1>5, <1>9, <1>10, <1>11 DEF RunCoherent, FromContract

\* What lies under a version with a bundle was built from one contract.
LEMMA BundleCoherent ==
    ASSUME Inv, Coherent, Unshared, NEW v \in Versions, bundle[v].made, NEW a \in Readers
    PROVE  FromContract(v, a)
<1>1. PICK r \in RunIds : Planned(r) /\ job[r].ver = v /\ Finished(r)
  BY DEF Coherent, BundleTrue
<1>2. RunCoherent(r) /\ a \in Artefacts /\ Plannable(r)
  BY <1>1, ReadersFacts, PlannedRun DEF Coherent
<1>3. CASE a \in Kept(r)
  BY <1>1, <1>2, <1>3 DEF RunCoherent
<1>4. CASE a \notin Kept(r)
  <2>1. PICK n \in 1..Len(Steps(r)) : Steps(r)[n] = a
    BY <1>2, <1>4, PlanCovers
  <2>2. PICK t \in TaskIds : tasks[t].run = r /\ tasks[t].step = a /\ tasks[t].status = "succeeded"
    BY <1>1, <2>1 DEF Finished, Succeeded, TasksOf
  <2> QED
    BY <1>1, <1>2, <2>2 DEF RunCoherent
<1> QED
  BY <1>3, <1>4

LEMMA FinishedStays ==
    ASSUME Inv, Tasked, CodeStep, NEW r \in RunIds, Planned(r), Finished(r)
    PROVE  Finished(r)'
<1>1. Steps(r)' = Steps(r)
  BY PlannedStays
<1>2. \A a : Succeeded(r, a) => Succeeded(r, a)'
  BY SuccessKept
<1> QED
  BY <1>1, <1>2 DEF Finished

\* Nothing that lies under the version of a finished run changes any more.
LEMMA FinishedFrozen ==
    ASSUME Inv, Tasked, Ordering, CodeStep, Unshared, NEW r \in RunIds, Planned(r), Finished(r)
    PROVE  code'[job[r].ver] = code[job[r].ver]
<1>1. PICK v \in Versions : v = job[r].ver
  BY PlannedRun
<1>2. ASSUME NEW a \in Artefacts PROVE code'[v][a] = code[v][a]
  <2>1. CASE a \in Kept(r)
    BY <1>1, <2>1, StaysThere
  <2>2. CASE a \notin Kept(r)
    <3>1. PICK n \in 1..Len(Steps(r)) : Steps(r)[n] = a
      BY <2>2, PlannedRun, PlanCovers
    <3>2. Written(r, a)
      BY <3>1 DEF Finished, Succeeded, Written
    <3> QED
      BY <1>1, <3>2, StaysThere
  <2> QED
    BY <2>1, <2>2
<1>3. code[v] \in [Artefacts -> Artefact]
  BY DEF Inv, SystemInv, Carried, IInv, TypeOK
<1>4. code'[v] \in [Artefacts -> Artefact]
  BY StepIInv DEF Inv, SystemInv, Carried, IInv, TypeOK
<1> QED
  BY <1>1, <1>2, <1>3, <1>4

\* An execution bundles what lies there when its run is done with it.
LEMMA AssembleEffect ==
    ASSUME Inv, NEW e \in Execs, Assemble(e), Walked(e), NEW v \in Versions, bundle'[v] # bundle[v]
    PROVE  /\ UNCHANGED <<code, tasks>> /\ bundle'[v].files = code[v]
           /\ \E r \in RunIds : Planned(r) /\ job[r].ver = v /\ Finished(r)
<1>0. At(e, "assemble")
  BY DEF Assemble
<1>1. PICK r \in RunIds : execs[e].run = r
  BY <1>0, PlacedFacts DEF At, Inv, SystemInv, Carried
<1>2. Planned(r) /\ Finished(r)
  BY <1>0, <1>1, AssembledFinished DEF At, Inv, SystemInv, Carried, Fit, Beyond
<1>3. job[r].ver = v /\ bundle'[v].files = code[v]
  BY <1>1 DEF Assemble, Inv, SystemInv, Carried, IInv, TypeOK
<1> QED
  BY <1>2, <1>3 DEF Assemble

LEMMA BundleStays ==
    ASSUME Inv, Tasked, Ordering, CodeStep, Coherent, Unshared, NEW v \in Versions, bundle[v].made
    PROVE  code'[v] = code[v] /\ bundle'[v] = bundle[v]
<1>0. bundle \in [Versions -> [made : BOOLEAN, files : [Artefacts -> Artefact]]]
  BY DEF Inv, SystemInv, Carried, IInv, TypeOK
<1>1. PICK r \in RunIds : Planned(r) /\ job[r].ver = v /\ Finished(r)
  BY DEF Coherent, BundleTrue
<1>2. code'[v] = code[v]
  BY <1>1, FinishedFrozen
<1>3. bundle[v].files = code[v]
  BY DEF Coherent, BundleTrue
<1>4. ASSUME NEW e \in Execs, Assemble(e) PROVE bundle'[v] = bundle[v]
  <2>1. PICK w : \/ UNCHANGED bundle
                 \/ bundle' = [bundle EXCEPT ![w] = [made |-> TRUE, files |-> code[w]]]
    BY <1>4 DEF Assemble
  <2>2. bundle[v] = [made |-> TRUE, files |-> code[v]]
    BY <1>0, <1>3
  <2> QED
    BY <1>0, <2>1, <2>2
<1> QED
  BY <1>2, <1>4, BundleEffect DEF Inv, SystemInv, Carried

LEMMA BundleTrueKeeps ==
    ASSUME Inv, Tasked, Ordering, CodeStep, Coherent, Unshared, NEW v \in Versions
    PROVE  BundleTrue(v)'
<1>1. CASE bundle[v].made
  <2>1. PICK r \in RunIds : Planned(r) /\ job[r].ver = v /\ Finished(r)
    BY <1>1 DEF Coherent, BundleTrue
  <2>2. Planned(r)' /\ job'[r].ver = v /\ Finished(r)'
    BY <2>1, PlannedStays, FinishedStays
  <2>3. bundle'[v].files = code'[v]
    BY <1>1, BundleStays DEF Coherent, BundleTrue
  <2> QED
    BY <2>2, <2>3 DEF BundleTrue
<1>2. CASE ~bundle[v].made /\ bundle'[v].made
  <2>1. PICK e \in Execs : Assemble(e)
    BY <1>2, BundleEffect DEF Inv, SystemInv, Carried
  <2>2. bundle'[v] # bundle[v] /\ Walked(e)
    BY <1>2 DEF Ordering
  <2>3. PICK r \in RunIds : Planned(r) /\ job[r].ver = v /\ Finished(r)
    BY <2>1, <2>2, AssembleEffect
  <2>4. Planned(r)' /\ job'[r].ver = v /\ Finished(r)'
    BY <2>3, PlannedStays, FinishedStays
  <2>5. bundle'[v].files = code'[v]
    BY <2>1, <2>2, AssembleEffect
  <2> QED
    BY <2>4, <2>5 DEF BundleTrue
<1> QED
  BY <1>1, <1>2 DEF BundleTrue

(***************************************************************************)
(* A repair that has copied and not stored its plan                        *)
(***************************************************************************)

\* Only a new version leads there.
LEMMA PersistReached ==
    ASSUME Inv, CodeStep, NEW e \in Execs, At(e, "persist")'
    PROVE  Allocate(e) \/ execs'[e] = execs[e]
<1>0. IInv /\ execs \in [Execs -> Exec]
  BY DEF Inv, SystemInv, Carried, IInv, TypeOK
<1>1. CASE ExecutionSteps(e)
  <2>1. ~At(e, "off") /\ StaysOrStops(e)
    BY <1>0, <1>1, ExecsEffect
  <2>2. PICK r \in RunIds : execs[e].run = r /\ execs'[e].run = r
    BY <1>0, <2>1, PlacedFacts DEF StaysOrStops, At
  <2>3. ~Planned(r)'
    BY <2>2, AllKeep, AllFit DEF Inv, SystemInv, Fit, At
  <2>4. execs[e].pc \notin Beyond
    BY <2>2, <2>3, PlannedStays DEF Inv, SystemInv, Carried, Fit
  <2>5. Load(e) \/ LoadFails(e) \/ FinishFailed(e) \/ FailPoc(e) \/ Die(e)
    BY <1>1, <2>4 DEF ExecutionSteps, Works, Breaks, StepNode, WaitNode, EndNode, StepStart, StepDone,
           StepAttach,
          StepGiveUp, BeginTask, FireCoder, WaitWindow, EndTaskSucceeded, EndTaskFailed, WaitEnds,
          Assemble, AssembleFails, RecordBundle, Publish, FinishSucceeded, FireRaises, HandOver,
          HandOverFails, At, Beyond, AtAStep
  <2>6. ~LoadStored(e) /\ ~Persist(e)
    <3>1. ~Planned(r)
      BY <2>3, PlannedStays
    <3>2. ~LoadStored(e)
      BY <2>2, <3>1 DEF LoadStored
    <3>3. ASSUME Persist(e) PROVE FALSE
      <4>1. job' = [job EXCEPT ![r].ver = execs[e].ver] /\ execs[e].ver \in Versions
        BY <1>0, <2>2, <3>3, PlacedFacts DEF Persist, Placed, At
      <4>2. job'[r].ver \in Versions
        BY <1>0, <4>1 DEF IInv, TypeOK, Job
      <4> QED
        BY <2>3, <4>2 DEF Planned, Versions
    <3> QED
      BY <3>2, <3>3
  <2>7. ~(LoadFails(e) \/ FinishFailed(e) \/ FailPoc(e) \/ Die(e))
    BY <1>0 DEF LoadFails, FinishFailed, FailPoc, Die, Goto, Stop, Off, At, Exec
  <2> QED
    BY <2>5, <2>6, <2>7 DEF Load
<1>2. ASSUME NEW d \in Execs \ {e}, ExecutionSteps(d) PROVE execs'[e] = execs[e]
  BY <1>0, <1>2, ExecsEffect DEF StaysOrStops
<1>3. ASSUME NEW d \in Execs, NEW r, Enter(d, r) PROVE execs'[e] = execs[e]
  BY <1>0, <1>3 DEF Enter, Off, At
<1>4. ASSUME NEW d \in Execs, Creates(d) PROVE \E r : Enter(d, r)
  BY <1>0, <1>4, NewRunEffect
<1>5. ASSUME NEW d \in Execs, NEW r \in RunIds, ContinueRun(d, r) PROVE Enter(d, r)
  BY <1>5 DEF ContinueRun
<1>6. (\E t \in TaskIds : CoderSteps(t)) \/ Passing \/ (\E r \in RunIds : Abandon(r))
         \/ (\E spec \in Specs : Approve(spec))
      => UNCHANGED execs
  BY DEF CoderSteps, CoderReads, CoderWrites, CoderMarks, CoderFails, CoderVanishes, TaskAges, Passing,
         Abandon, Approve, codeVars
<1> QED
  BY <1>1, <1>2, <1>3, <1>4, <1>5, <1>6 DEF CodeStep

\* A copy is taken from a bundle that was built from one contract.
LEMMA CopiedCoherent ==
    ASSUME Inv, CodeStep, Coherent, Unshared, NEW e \in Execs, Allocate(e)
    PROVE  CopyCoherent(e)'
<1>0. IInv /\ At(e, "load") /\ ~At(e, "off")
  BY DEF Allocate, At, Inv, SystemInv, Carried
<1>1. PICK r \in RunIds : execs[e].run = r /\ Store!Exists(r) /\ Plannable(r)
  BY <1>0, PlacedFacts
<1>2. PICK w \in Versions :
         /\ code' = [code EXCEPT ![w] = [a \in Artefacts |-> IF a \in Kept(r) THEN code[job[r].prev][a]
                                                             ELSE Missing]]
         /\ execs' = [execs EXCEPT ![e].pc = "persist", ![e].ver = w]
  BY <1>1 DEF Allocate, Kept
<1>3. execs'[e].run = r /\ execs'[e].ver = w
  BY <1>0, <1>1, <1>2 DEF IInv, TypeOK, Exec
<1>4. Kept(r)' = Kept(r)
  BY <1>1, AllKeep, KeptStays DEF Inv, SystemInv, StepKeeps
<1>5. ASSUME NEW a \in Readers \cap Kept(r) PROVE FromContract(w, a)'
  <2>1. job[r].tool = "repair"
    BY <1>1 DEF Plannable, Kept, CarriedOver
  <2>2. PICK p \in Versions : p = job[r].prev /\ bundle[p].made
    BY <1>1, <2>1 DEF Plannable, Allocate
  <2>3. FromContract(p, a)
    BY <2>2, BundleCoherent
  <2>4. "contract" \in Kept(r)
    BY <1>1, PlanFacts
  <2>5. code'[w] = [b \in Artefacts |-> IF b \in Kept(r) THEN code[p][b] ELSE Missing]
    BY <1>0, <1>2, <2>2 DEF IInv, TypeOK
  <2>6. code'[w][a] = code[p][a] /\ code'[w]["contract"] = code[p]["contract"]
    BY <2>4, <2>5, ReadersFacts
  <2> QED
    BY <2>3, <2>6 DEF FromContract
<1> QED
  BY <1>3, <1>4, <1>5 DEF CopyCoherent

\* Nothing comes under the version it chose, unless another run chose it too.
LEMMA CopyStays ==
    ASSUME Inv, CodeStep, NEW e \in Execs, At(e, "persist"), NEW r \in RunIds, execs[e].run = r,
           NEW v \in Versions, execs[e].ver = v, Kept(r) # {},
           \A p \in RunIds : ~(Planned(p) /\ job[p].ver = v)
    PROVE  code'[v] = code[v]
<1>0. IInv /\ code \in [Versions -> [Artefacts -> Artefact]] /\ Has(v, Kept(r))
  BY DEF Inv, SystemInv, Carried, IInv, TypeOK, Fit, At
<1>1. Used(v)
  <2>1. PICK a \in Kept(r) : code[v][a] # Missing
    BY <1>0 DEF Has
  <2>2. a \in Artefacts
    BY KeptFacts
  <2> QED
    BY <2>1, <2>2 DEF Used, NoCode
<1>2. ASSUME NEW d \in Execs, Allocate(d) PROVE code'[v] = code[v]
  <2>1. PICK w \in Versions : /\ IsNextVersion(w)
                              /\ \E f : code' = [code EXCEPT ![w] = f]
    BY <1>2 DEF Allocate
  <2>2. w # v
    BY <1>1, <2>1 DEF IsNextVersion, Versions
  <2> QED
    BY <1>0, <2>1, <2>2
<1>3. ASSUME NEW u \in TaskIds, CoderWrites(u) PROVE code'[v] = code[v]
  <2>1. tasks[u].run # 0
    BY <1>3 DEF CoderWrites, Inv, SystemInv, Carried, Delivery, TasksTruthful, TasksPlaced
  <2>2. tasks[u].ver # v
    BY <2>1, TaskOfRun
  <2>3. PICK w, a, x : w # v /\ code' = [code EXCEPT ![w][a] = x]
    BY <1>3, <2>2 DEF CoderWrites
  <2> QED
    BY <1>0, <2>3
<1> QED
  BY <1>0, <1>2, <1>3, CodeEffect

LEMMA CopyStaysCoherent ==
    ASSUME Inv, CodeStep, NEW e \in Execs, CopyCoherent(e), At(e, "persist"), execs'[e] = execs[e]
    PROVE  CopyCoherent(e)'
<1>1. PICK r \in RunIds, v \in Versions :
         execs[e].run = r /\ execs[e].ver = v /\ Store!Exists(r) /\ Plannable(r)
  BY PlacedFacts DEF At, Placed, Inv, SystemInv, Carried
<1>2. execs'[e].run = r /\ execs'[e].ver = v
  BY <1>1
<1>3. CASE \E p \in RunIds : Planned(p) /\ job[p].ver = v
  <2>1. PICK p \in RunIds : Planned(p) /\ job[p].ver = v
    BY <1>3
  <2>2. Planned(p)' /\ job'[p].ver = v
    BY <2>1, PlannedStays
  <2> QED
    BY <1>2, <2>2 DEF CopyCoherent
<1>4. CASE \A p \in RunIds : ~(Planned(p) /\ job[p].ver = v)
  <2>1. \A a \in Readers \cap Kept(r) : FromContract(v, a)
    BY <1>1, <1>4 DEF CopyCoherent
  <2>2. Kept(r)' = Kept(r)
    BY <1>1, AllKeep, KeptStays DEF Inv, SystemInv, StepKeeps
  <2>3. ASSUME NEW a \in Readers \cap Kept(r) PROVE FromContract(v, a)'
    <3>1. code'[v] = code[v]
      BY <1>1, <1>4, CopyStays
    <3> QED
      BY <2>1, <3>1 DEF FromContract
  <2> QED
    BY <1>2, <2>2, <2>3 DEF CopyCoherent
<1> QED
  BY <1>1, <1>3, <1>4

LEMMA CoherentStep ==
    ASSUME Inv, Tasked, Ordering, Coherent, CodeStep
    PROVE  Coherent'
<1> SUFFICES ASSUME Unshared'
             PROVE  /\ \A r \in RunIds : RunCoherent(r)'
                    /\ \A v \in Versions : BundleTrue(v)'
                    /\ \A e \in Execs : CopyCoherent(e)'
  BY DEF Coherent
<1>0. Unshared
  BY UnsharedBefore
<1>1. ASSUME NEW r \in RunIds PROVE RunCoherent(r)'
  <2>1. CASE Planned(r)
    BY <1>0, <2>1, RunStaysCoherent DEF Coherent
  <2>2. CASE ~Planned(r) /\ Planned(r)'
    BY <1>0, <2>2, RunBecomesCoherent DEF Coherent
  <2> QED
    BY <2>1, <2>2 DEF RunCoherent
<1>2. ASSUME NEW v \in Versions PROVE BundleTrue(v)'
  BY <1>0, BundleTrueKeeps
<1>3. ASSUME NEW e \in Execs PROVE CopyCoherent(e)'
  <2>1. CASE Allocate(e)
    BY <1>0, <2>1, CopiedCoherent
  <2>2. CASE At(e, "persist")' /\ execs'[e] = execs[e]
    <3>1. At(e, "persist")
      BY <2>2 DEF At
    <3> QED
      BY <1>0, <2>2, <3>1, CopyStaysCoherent DEF Coherent
  <2>3. CASE ~At(e, "persist")'
    BY <2>3 DEF CopyCoherent
  <2> QED
    BY <2>1, <2>2, <2>3, PersistReached
<1> QED
  BY <1>1, <1>2, <1>3

LEMMA CoherentStarts ==
    ASSUME SystemInit
    PROVE  Coherent
<1>1. NoJob.ver = 0 /\ Off.pc = "off" /\ ~NoBundle.made
  BY DEF NoJob, Off, NoBundle
<1> QED
  BY <1>1 DEF SystemInit, Init, Coherent, RunCoherent, Planned, BundleTrue, CopyCoherent, At

\* The inductive invariant of versions: readers come after the contract they read, and a
\* bundle is what lies under its version.
THEOREM CoherentInductive ==
    ASSUME Punctual
    PROVE  SystemSpec => [](Inv /\ Tasked /\ Ordering /\ Coherent)
<1>1. SystemInit => Inv /\ Tasked /\ Ordering /\ Coherent
  BY SystemStarts, TimelyStarts, TaskedStarts, OrderingStarts, CoherentStarts DEF Inv
<1>2. Inv /\ Tasked /\ Ordering /\ Coherent /\ [SystemNext]_sysVars
         => (Inv /\ Tasked /\ Ordering /\ Coherent)'
  <2> SUFFICES ASSUME Inv, Tasked, Ordering, Coherent, [SystemNext]_sysVars
               PROVE  (Inv /\ Tasked /\ Ordering /\ Coherent)'
    OBVIOUS
  <2>1. CodeStep
    BY SystemSteps DEF Inv, SystemInv, Carried, IInv
  <2>2. SystemInv' /\ TimelyInv' /\ Tasked'
    BY SystemStep, TimelyStep, TaskedStep DEF Inv
  <2> QED
    BY <2>1, <2>2, OrderingStep, CoherentStep DEF Inv
<1> QED
  BY <1>1, <1>2, PTL DEF SystemSpec

(* Unless runs came to share a version, the components of a published      *)
(* bundle were generated from the contract in that bundle: a coder that    *)
(* reads the contract is fired after the contract's own has succeeded, the *)
(* contract is not built again for that version, and a repair takes both   *)
(* from one bundle or builds both.                                         *)
THEOREM PublishedIsCoherent ==
    ASSUME Punctual
    PROVE  SystemSpec => []PublishedCoherent
<1>1. Inv /\ Coherent => PublishedCoherent
  <2> SUFFICES ASSUME Inv, Coherent, poc.code # 0, Unshared, NEW a \in Components, ReadsContract(a)
               PROVE  bundle[poc.code].files[a].con = bundle[poc.code].files["contract"].by
    BY DEF PublishedCoherent
  <2>1. PICK v \in Versions : v = poc.code /\ bundle[v].made
    BY DEF Inv, SystemInv, Carried, Built, IInv, TypeOK
  <2>2. a \in Readers
    BY DEF Readers
  <2>3. FromContract(v, a) /\ bundle[v].files = code[v]
    BY <2>1, <2>2, BundleCoherent DEF Coherent, BundleTrue
  <2> QED
    BY <2>1, <2>3 DEF FromContract
<1> QED
  BY <1>1, CoherentInductive, PTL

(* Unless runs came to share a version, what is published stays as it is   *)
(* in S3, bundle and artefacts: every step of a run that assembled has     *)
(* succeeded, and none is begun again.                                     *)
THEOREM PublishedIsFrozen ==
    ASSUME Punctual
    PROVE  SystemSpec => PublishedFrozen
<1>1. Inv /\ Tasked /\ Ordering /\ Coherent /\ [SystemNext]_sysVars =>
         [(poc.code # 0 /\ Unshared) =>
             (code'[poc.code] = code[poc.code] /\ bundle'[poc.code] = bundle[poc.code])]_sysVars
  <2> SUFFICES ASSUME Inv, Tasked, Ordering, Coherent, [SystemNext]_sysVars, poc.code # 0, Unshared
               PROVE  code'[poc.code] = code[poc.code] /\ bundle'[poc.code] = bundle[poc.code]
    OBVIOUS
  <2>1. CodeStep
    BY SystemSteps DEF Inv, SystemInv, Carried, IInv
  <2>2. PICK v \in Versions : v = poc.code /\ bundle[v].made
    BY DEF Inv, SystemInv, Carried, Built, IInv, TypeOK
  <2> QED
    BY <2>1, <2>2, BundleStays
<1> QED
  BY <1>1, CoherentInductive, PTL DEF PublishedFrozen, SystemSpec

-----------------------------------------------------------------------------
(***************************************************************************)
(* The current version never goes back.  What publishes is the one run in  *)
(* progress, so it is enough that no older run comes back after a newer    *)
(* one has published: a run is asked for again only when it is the last    *)
(* one, and what a newer one delivers takes longer than the request.       *)
(***************************************************************************)

\* The slot of the stage, for runs that all are of the stage.
Slot ==
    /\ \A r \in RunIds : Store!Exists(r) => runs[r].stage = "code"
    /\ \A p, q \in RunIds : (Store!IsActive(p) /\ Store!IsActive(q)) => p = q

\* Runs are numbered in the order of their creation.
Counted == \E n \in 0..MaxRuns : \A q \in RunIds : Store!Exists(q) <=> q <= n
Last(r) == \A q \in RunIds : Store!Exists(q) => q <= r

\* Versions are used without gaps, up to the ones that runs have chosen.
Reached(v) == \A w \in Versions : w < v => Used(w)
VersionsReached ==
    /\ \A v \in Versions : Used(v) => Reached(v)
    /\ \A r \in RunIds : Planned(r) => Reached(job[r].ver)
    /\ \A e \in Execs : At(e, "persist") => Reached(execs[e].ver)

\* The later the run, the later its version.
InOrder ==
    /\ \A p, q \in RunIds : (p < q /\ Planned(p) /\ Planned(q)) => job[p].ver <= job[q].ver
    /\ \A e \in Execs, p \in RunIds : (At(e, "persist") /\ Planned(p)) => job[p].ver <= execs[e].ver

PlannersLast     == \A e \in Execs : (Driving(e) /\ ~Planned(execs[e].run)) => Last(execs[e].run)
CallsLast        == \A u \in Users : chat[u] # NoCall => Last(chat[u].run)
PublishedPlanned == poc.code # 0 => \E p \in RunIds : Planned(p) /\ job[p].ver = poc.code

\* Whoever may publish, or may come to, is not behind.
DriversAhead  == \A e \in Execs : (Driving(e) /\ Planned(execs[e].run)) => poc.code <= job[execs[e].run].ver
RequestsAhead == \A s \in Mailbox : mail[s].tool = "continue" => poc.code <= job[mail[s].run].ver

\* While a run that failed is asked for, no later one delivers anything.
Undelivered(q) == \A t \in TaskIds : tasks[t].run = q =>
                     tasks[t].status # "succeeded" /\ tasks[t].coder # "wrote"
RequestsLast ==
    \A s \in Mailbox : (mail[s].tool = "continue" /\ ~Store!IsActive(mail[s].run)) =>
        \A q \in RunIds : q > mail[s].run => Undelivered(q)

Chosen  == Slot /\ Counted /\ VersionsReached /\ InOrder /\ PublishedPlanned
Forward == Chosen /\ PlannersLast /\ CallsLast /\ DriversAhead /\ RequestsAhead /\ RequestsLast

(***************************************************************************)
(* One run, and one execution, at a time                                   *)
(***************************************************************************)

LEMMA SlotWrite ==
    ASSUME TypeOK, Slot, NEW r \in RunIds, NEW status, Store!Write(r, status), Store!Exists(r),
           \/ status \notin Store!ActiveStatuses
           \/ status = runs[r].status
           \/ Store!MayOccupy(r, runs[r].stage)
    PROVE  Slot'
<1>1. /\ \A q \in RunIds \ {r} : runs'[q] = runs[q]
      /\ runs'[r].status = status /\ runs'[r].stage = runs[r].stage
  BY DEF Store!Write, TypeOK, Store!TypeOK, Store!RunDoc
<1>2. \A q \in RunIds : Store!Exists(q)' => runs'[q].stage = "code"
  BY <1>1 DEF Slot, Store!Exists
<1>3. \A q \in RunIds \ {r} : Store!IsActive(q)' <=> Store!IsActive(q)
  BY <1>1 DEF Store!IsActive
<1>4. \A q \in RunIds : Store!IsActive(q) => runs[q].stage = "code"
  BY DEF Slot, Store!IsActive, Store!ActiveStatuses, Store!Exists
<1>5. Store!IsActive(r)' => Store!IsActive(r) \/ \A q \in RunIds \ {r} : ~Store!IsActive(q)
  BY <1>1, <1>4 DEF Slot, Store!IsActive, Store!MayOccupy
<1> QED
  BY <1>2, <1>3, <1>5 DEF Slot

LEMMA SlotStep ==
    ASSUME IInv, CodeStep, Slot
    PROVE  Slot'
<1>0. TypeOK /\ [Store!Next]_runs
  BY StepIInv DEF IInv
<1>1. CASE UNCHANGED runs
  BY <1>1 DEF Slot, Store!Exists, Store!IsActive
<1>2. ASSUME NEW r \in RunIds, Store!RunOperation(r) PROVE Slot'
  <2>1. CASE \E s \in {"code"} : Store!CreateRun(r, s)
    <3>1. /\ \A q \in RunIds \ {r} : runs'[q] = runs[q]
          /\ runs'[r].stage = "code"
      BY <1>0, <2>1 DEF Store!CreateRun, TypeOK, Store!TypeOK
    <3>2. \A q \in RunIds \ {r} : ~Store!IsActive(q)
      BY <2>1 DEF Slot, Store!CreateRun, Store!MayOccupy, Store!IsActive, Store!ActiveStatuses, Store!Exists
    <3> QED
      BY <3>1, <3>2 DEF Slot, Store!Exists, Store!IsActive
  <2>2. CASE Store!UpdateRunStep(r) \/ Store!SetRunRunning(r)
    BY <1>0, <2>2, SlotWrite DEF Store!UpdateRunStep, Store!SetRunRunning
  <2>3. CASE Store!TouchRun(r)
    BY <1>0, <2>3, SlotWrite DEF Store!TouchRun
  <2>4. ASSUME NEW status \in Store!TerminalStatuses, Store!FinishRun(r, status) PROVE Slot'
    BY <1>0, <2>4, SlotWrite DEF Store!FinishRun, Store!TerminalStatuses, Store!ActiveStatuses
  <2>5. CASE Store!AbandonRun(r)
    BY <1>0, <2>5, SlotWrite DEF Store!AbandonRun, Store!ActiveStatuses, Store!Exists
  <2>6. CASE Store!ReopenRun(r)
    BY <1>0, <2>6, SlotWrite DEF Store!ReopenRun, Store!ReopenableStates, Store!Exists
  <2>7. CASE Store!GoSilent(r)
    <3>1. \A q \in RunIds : runs'[q].status = runs[q].status /\ runs'[q].stage = runs[q].stage
      BY <1>0, <2>7 DEF Store!GoSilent, TypeOK, Store!TypeOK, Store!RunDoc
    <3> QED
      BY <3>1 DEF Slot, Store!Exists, Store!IsActive
  <2> QED
    BY <1>2, <2>1, <2>2, <2>3, <2>4, <2>5, <2>6, <2>7 DEF Store!RunOperation
<1>3. CASE Store!CancelActiveRuns
  <2>1. \A q \in RunIds :
           runs'[q] = IF Store!IsActive(q) THEN [runs[q] EXCEPT !.status = "cancelled"] ELSE runs[q]
    BY <1>3 DEF Store!CancelActiveRuns
  <2>2. \A q \in RunIds : ~Store!IsActive(q)'
    BY <1>0, <2>1 DEF Store!IsActive, Store!ActiveStatuses, TypeOK, Store!TypeOK, Store!RunDoc
  <2>3. ASSUME NEW q \in RunIds PROVE runs'[q].stage = runs[q].stage /\ (Store!Exists(q)' => Store!Exists(q))
    BY <1>0, <2>1 DEF Store!IsActive, Store!ActiveStatuses, Store!Exists, TypeOK, Store!TypeOK, Store!RunDoc
  <2> QED
    BY <2>2, <2>3 DEF Slot
<1> QED
  BY <1>0, <1>1, <1>2, <1>3 DEF Store!Next

LEMMA OneDriving ==
    ASSUME Inv, Slot, NEW e \in Execs, NEW f \in Execs, Driving(e), Driving(f)
    PROVE  e = f
<1>1. execs[e].run \in RunIds /\ execs[f].run \in RunIds
  BY CarriersRun DEF Inv
<1>2. Store!IsActive(execs[e].run) /\ Store!IsActive(execs[f].run)
  BY DEF Inv, TimelyInv, DriversBeat
<1>3. execs[e].run = execs[f].run
  BY <1>1, <1>2 DEF Slot
<1> QED
  BY <1>3 DEF Inv, TimelyInv, OneCarrier, SingleDriver

(***************************************************************************)
(* The numbers of runs                                                     *)
(***************************************************************************)

\* A new run is the last one, and no other is in progress.
LEMMA Born ==
    ASSUME IInv, Slot, NEW e \in Execs, Creates(e)
    PROVE  \E r \in RunIds :
              /\ At(e, "off") /\ Enter(e, r) /\ ~Planned(r)'
              /\ \A q \in RunIds : Store!Exists(q) <=> q < r
              /\ \A q \in RunIds : Store!Exists(q)' <=> q <= r
              /\ \A q \in RunIds : ~Store!IsActive(q)
<1>1. PICK inputs : NewRun(e, inputs) /\ inputs.ver = 0
  <2>1. ASSUME NEW spec, StartRun(e, spec) PROVE \E inputs : NewRun(e, inputs) /\ inputs.ver = 0
    <3> DEFINE j == [NoJob EXCEPT !.tool = "start", !.spec = spec]
    <3>1. NewRun(e, j) /\ j.ver = 0
      BY <2>1 DEF StartRun, NoJob
    <3> QED
      BY <3>1
  <2>2. ASSUME NEW v, NEW failure, RepairRun(e, v, failure)
        PROVE  \E inputs : NewRun(e, inputs) /\ inputs.ver = 0
    <3> DEFINE j == [NoJob EXCEPT !.tool = "repair", !.prev = v, !.failure = failure]
    <3>1. NewRun(e, j) /\ j.ver = 0
      BY <2>2 DEF RepairRun, NoJob
    <3> QED
      BY <3>1
  <2> QED
    BY <2>1, <2>2 DEF Creates
<1>2. PICK r \in RunIds : /\ \A q \in RunIds : Store!Exists(q) <=> q < r
                          /\ Store!CreateRun(r, "code") /\ Enter(e, r)
                          /\ job' = [job EXCEPT ![r] = inputs]
  BY <1>1 DEF NewRun
<1>3. \A q \in RunIds \ {r} : ~Store!IsActive(q)
  BY <1>2 DEF Slot, Store!CreateRun, Store!MayOccupy, Store!IsActive, Store!ActiveStatuses, Store!Exists
<1>4. ~Store!IsActive(r)
  BY <1>2 DEF Store!CreateRun, Store!IsActive, Store!ActiveStatuses, Store!Exists
<1>5. /\ \A q \in RunIds \ {r} : runs'[q] = runs[q]
      /\ runs'[r].status = "queued"
  BY <1>2 DEF Store!CreateRun, IInv, TypeOK, Store!TypeOK
<1>6. \A q \in RunIds : Store!Exists(q)' <=> q <= r
  BY <1>2, <1>5, CodeAssumption DEF Store!Exists, RunIds
<1>7. ~Planned(r)'
  BY <1>1, <1>2 DEF Planned, IInv, TypeOK
<1> QED
  BY <1>1, <1>2, <1>3, <1>4, <1>6, <1>7 DEF NewRun

LEMMA ExistEffect ==
    ASSUME IInv, CodeStep
    PROVE  (\E e \in Execs : Creates(e)) \/ \A q \in RunIds : Store!Exists(q) <=> Store!Exists(q)'
<1>1. ASSUME NEW t \in TaskIds, CoderSteps(t) PROVE Moves
  BY <1>1, CoderReadsKeeps, CoderWritesKeeps, CoderEnds DEF CoderSteps
<1>2. ASSUME NEW e \in Execs, ExecutionSteps(e) PROVE Moves
  BY <1>2, ExecutionStep DEF ExecutionSteps
<1>3. Moves => \A q \in RunIds : Store!Exists(q) <=> Store!Exists(q)'
  BY DEF Moves, RunsMove
<1> QED
  BY <1>1, <1>2, <1>3, ContinueRunKeeps, AbandonKeeps, ApproveKeeps, PassingKeeps DEF CodeStep

LEMMA CountedStep ==
    ASSUME IInv, Slot, Counted, CodeStep
    PROVE  Counted'
<1>1. ASSUME NEW e \in Execs, Creates(e) PROVE Counted'
  BY <1>1, Born, CodeAssumption DEF Counted, RunIds
<1> QED
  BY <1>1, ExistEffect DEF Counted

\* NewestRun, which counts, names the last run.
LEMMA NewestIsLast ==
    ASSUME Counted
    PROVE  Last(NewestRun)
<1>1. PICK n \in 0..MaxRuns : \A q \in RunIds : Store!Exists(q) <=> q <= n
  BY DEF Counted
<1>2. n \in Int /\ 1 \in Int /\ Created = 1..n
  BY <1>1, CodeAssumption DEF Created, RunIds
<1>3. Cardinality(1..n) = IF 1 > n THEN 0 ELSE n - 1 + 1
  BY <1>2, FS_Interval
<1>4. NewestRun = n
  BY <1>1, <1>2, <1>3, CodeAssumption DEF NewestRun
<1> QED
  BY <1>1, <1>4 DEF Last

(***************************************************************************)
(* The numbers of versions                                                 *)
(***************************************************************************)

LEMMA ReachedStays ==
    ASSUME Inv, CodeStep, NEW v, Reached(v)
    PROVE  Reached(v)'
<1>0. code \in [Versions -> [Artefacts -> Artefact]] /\ CodeKept /\ BundlesKept
  BY AllKeep DEF Inv, SystemInv, Carried, IInv, TypeOK, StepKeeps
<1>1. ASSUME NEW w \in Versions, Used(w) PROVE Used(w)'
  <2>1. CASE bundle[w].made
    BY <1>0, <2>1 DEF Used, BundlesKept
  <2>2. CASE code[w] # NoCode
    <3>1. PICK a \in Artefacts : code[w][a] # Missing
      BY <1>0, <2>2 DEF NoCode
    <3>2. code'[w][a] # Missing
      BY <1>0, <3>1 DEF CodeKept
    <3>3. code'[w] # NoCode
      BY <3>2 DEF NoCode
    <3> QED
      BY <3>3 DEF Used
  <2> QED
    BY <1>1, <2>1, <2>2 DEF Used
<1> QED
  BY <1>1 DEF Reached

LEMMA NextIsReached ==
    ASSUME \A w \in Versions : Used(w) => Reached(w), NEW v \in Versions, IsNextVersion(v)
    PROVE  Reached(v)
<1> SUFFICES ASSUME NEW w \in Versions, w < v PROVE Used(w)
  BY DEF Reached
<1>1. v - 1 \in Versions /\ Used(v - 1) /\ w <= v - 1
  BY CodeAssumption DEF IsNextVersion, Versions
<1> QED
  BY <1>1 DEF Reached, Versions

\* A version is used first by who takes it for a new one, or by a run that
\* has chosen it.
LEMMA NewlyUsed ==
    ASSUME Inv, CodeStep, NEW v \in Versions, ~Used(v), Used(v)'
    PROVE  IsNextVersion(v) \/ \E r \in RunIds : Planned(r) /\ job[r].ver = v
<1>0. /\ IInv /\ code \in [Versions -> [Artefacts -> Artefact]]
      /\ bundle \in [Versions -> [made : BOOLEAN, files : [Artefacts -> Artefact]]]
  BY DEF Inv, SystemInv, Carried, IInv, TypeOK
<1>1. ASSUME NEW e \in Execs, Assemble(e), bundle'[v] # bundle[v]
      PROVE  \E r \in RunIds : Planned(r) /\ job[r].ver = v
  <2>1. PICK r \in RunIds : execs[e].run = r
    BY <1>0, <1>1, PlacedFacts DEF Assemble, At
  <2>2. Planned(r)
    BY <1>1, <2>1 DEF Assemble, At, Inv, SystemInv, Carried, Fit, Beyond
  <2>3. job[r].ver = v
    BY <1>0, <1>1, <2>1 DEF Assemble
  <2> QED
    BY <2>2, <2>3
<1>2. ASSUME NEW e \in Execs, Allocate(e), code'[v] # code[v]
      PROVE  IsNextVersion(v)
  <2>1. PICK w \in Versions : IsNextVersion(w) /\ \E f : code' = [code EXCEPT ![w] = f]
    BY <1>2 DEF Allocate
  <2>2. w = v
    BY <1>0, <1>2, <2>1
  <2> QED
    BY <2>1, <2>2
<1>3. ASSUME NEW t \in TaskIds, CoderWrites(t), code'[v] # code[v]
      PROVE  \E r \in RunIds : Planned(r) /\ job[r].ver = v
  <2>1. tasks[t].run # 0
    BY <1>3 DEF CoderWrites, Inv, SystemInv, Carried, Delivery, TasksTruthful, TasksPlaced
  <2>2. PICK r \in RunIds : Planned(r) /\ tasks[t].ver = job[r].ver
    BY <2>1, TaskOfRun
  <2>3. PICK w, a, x : w = tasks[t].ver /\ code' = [code EXCEPT ![w][a] = x]
    BY <1>3 DEF CoderWrites
  <2>4. w = v
    BY <1>0, <1>3, <2>3
  <2> QED
    BY <2>2, <2>3, <2>4
<1>4. code'[v] # code[v] \/ bundle'[v] # bundle[v]
  BY DEF Used
<1>5. bundle'[v] # bundle[v] => \E e \in Execs : Assemble(e)
  BY <1>0, BundleEffect
<1>6. code'[v] # code[v] => (\E e \in Execs : Allocate(e)) \/ (\E t \in TaskIds : CoderWrites(t))
  BY <1>0, CodeEffect
<1> QED
  BY <1>1, <1>2, <1>3, <1>4, <1>5, <1>6

LEMMA NewlyPlanned ==
    ASSUME Inv, CodeStep, NEW r \in RunIds, ~Planned(r), Planned(r)'
    PROVE  \E e \in Execs : /\ Persist(e) /\ execs[e].run = r /\ job'[r].ver = execs[e].ver
                            /\ Store!Exists(r) /\ Driving(e)
<1>0. IInv /\ PlannedExist /\ job \in [RunIds -> Job]
  BY DEF Inv, SystemInv, Carried, IInv, TypeOK
<1>1. PICK e \in Execs : Persist(e)
  BY <1>0, VersionsEffect DEF VersionsKept, Planned
<1>2. PICK d : execs[e].run = d
  OBVIOUS
<1>3. d = r /\ job'[r].ver = execs[e].ver
  BY <1>0, <1>1, <1>2 DEF Persist, Planned, Job
<1>4. Store!Exists(r)
  BY <1>0, <1>1, <1>2, <1>3, PlacedFacts DEF Persist, At
<1> QED
  BY <1>1, <1>2, <1>3, <1>4 DEF Persist, Driving, At

LEMMA AllocatedNext ==
    ASSUME Inv, NEW e \in Execs, Allocate(e)
    PROVE  \E v \in Versions : IsNextVersion(v) /\ execs'[e].ver = v
BY DEF Allocate, Inv, SystemInv, Carried, IInv, TypeOK, Exec

LEMMA VersionsReachedStep ==
    ASSUME Inv, VersionsReached, CodeStep
    PROVE  VersionsReached'
<1>1. ASSUME NEW v \in Versions, Used(v)' PROVE Reached(v)'
  <2>1. CASE Used(v)
    BY <2>1, ReachedStays DEF VersionsReached
  <2>2. CASE ~Used(v)
    <3>1. Reached(v)
      BY <1>1, <2>2, NewlyUsed, NextIsReached DEF VersionsReached
    <3> QED
      BY <3>1, ReachedStays
  <2> QED
    BY <2>1, <2>2
<1>2. ASSUME NEW r \in RunIds, Planned(r)' PROVE Reached(job[r].ver)'
  <2>1. CASE Planned(r)
    <3>1. PICK v : v = job[r].ver /\ v = job'[r].ver
      BY <2>1, PlannedStays
    <3>2. Reached(v)'
      BY <2>1, <3>1, ReachedStays DEF VersionsReached
    <3> QED
      BY <3>1, <3>2
  <2>2. CASE ~Planned(r)
    <3>1. PICK e \in Execs : Persist(e) /\ job'[r].ver = execs[e].ver
      BY <1>2, <2>2, NewlyPlanned
    <3>2. PICK v : v = execs[e].ver
      OBVIOUS
    <3>3. Reached(v)'
      BY <3>1, <3>2, ReachedStays DEF VersionsReached, Persist
    <3>4. job'[r].ver = v
      BY <3>1, <3>2
    <3> QED
      BY <3>3, <3>4
  <2> QED
    BY <2>1, <2>2
<1>3. ASSUME NEW e \in Execs, At(e, "persist")' PROVE Reached(execs[e].ver)'
  <2>1. PICK v : v = execs'[e].ver
    OBVIOUS
  <2>2. Reached(v)
    <3>1. CASE Allocate(e)
      BY <2>1, <3>1, AllocatedNext, NextIsReached DEF VersionsReached
    <3>2. CASE execs'[e] = execs[e]
      BY <1>3, <2>1, <3>2 DEF VersionsReached, At
    <3> QED
      BY <1>3, <3>1, <3>2, PersistReached
  <2>3. Reached(v)'
    BY <2>2, ReachedStays
  <2> QED
    BY <2>1, <2>3
<1> QED
  BY <1>1, <1>2, <1>3 DEF VersionsReached

LEMMA InOrderStep ==
    ASSUME Inv, Slot, VersionsReached, InOrder, PlannersLast, CodeStep
    PROVE  InOrder'
<1>0. \A r \in RunIds : Planned(r) => job[r].ver \in Versions /\ Store!Exists(r)
  BY PlannedRun
<1>1. ASSUME NEW p \in RunIds, NEW q \in RunIds, p < q, Planned(p)', Planned(q)'
      PROVE  job'[p].ver <= job'[q].ver
  <2>1. CASE Planned(p) /\ Planned(q)
    BY <1>1, <2>1, PlannedStays DEF InOrder
  <2>2. CASE ~Planned(p)
    <3>1. PICK e \in Execs : execs[e].run = p /\ Driving(e) /\ Persist(e)
      BY <1>1, <2>2, NewlyPlanned
    <3>2. Last(p)
      BY <2>2, <3>1 DEF PlannersLast
    <3>3. CASE Planned(q)
      BY <1>0, <1>1, <3>2, <3>3, CodeAssumption DEF Last, RunIds
    <3>4. CASE ~Planned(q)
      <4>1. Store!Exists(q)
        BY <1>1, <3>4, NewlyPlanned
      <4> QED
        BY <1>1, <3>2, <4>1, CodeAssumption DEF Last, RunIds
    <3> QED
      BY <3>3, <3>4
  <2>3. CASE Planned(p) /\ ~Planned(q)
    <3>1. PICK e \in Execs : Persist(e) /\ job'[q].ver = execs[e].ver
      BY <1>1, <2>3, NewlyPlanned
    <3>2. job[p].ver <= execs[e].ver
      BY <2>3, <3>1 DEF InOrder, Persist
    <3> QED
      BY <2>3, <3>1, <3>2, PlannedStays
  <2> QED
    BY <2>1, <2>2, <2>3
<1>2. ASSUME NEW e \in Execs, NEW p \in RunIds, At(e, "persist")', Planned(p)'
      PROVE  job'[p].ver <= execs'[e].ver
  <2>1. CASE Allocate(e)
    <3>1. PICK v \in Versions : IsNextVersion(v) /\ execs'[e].ver = v
      BY <2>1, AllocatedNext
    <3>2. PICK w \in Versions : w = job[p].ver /\ job'[p].ver = w /\ Reached(w)
      BY <1>0, <1>2, <2>1 DEF Allocate, Planned, VersionsReached
    <3>3. w <= v
      BY <3>1, <3>2, CodeAssumption DEF Reached, IsNextVersion, Versions
    <3> QED
      BY <3>1, <3>2, <3>3
  <2>2. CASE execs'[e] = execs[e]
    <3>1. At(e, "persist")
      BY <1>2, <2>2 DEF At
    <3>2. CASE Planned(p)
      BY <2>2, <3>1, <3>2, PlannedStays DEF InOrder
    <3>3. CASE ~Planned(p)
      <4>1. PICK f \in Execs : Persist(f) /\ execs[f].run = p /\ Driving(f)
        BY <1>2, <3>3, NewlyPlanned
      <4>2. f = e
        BY <3>1, <4>1, OneDriving DEF Driving, At
      <4>3. execs'[e].run = p
        BY <2>2, <4>1, <4>2
      <4>4. ~Planned(p)'
        BY <1>2, <4>3, AllKeep, AllFit DEF Inv, SystemInv, Fit, At
      <4> QED
        BY <1>2, <4>4
    <3> QED
      BY <3>2, <3>3
  <2> QED
    BY <1>2, <2>1, <2>2, PersistReached
<1> QED
  BY <1>1, <1>2 DEF InOrder

\* What is published is the version of the run that published it.
LEMMA PublishEffect ==
    ASSUME Inv, NEW e \in Execs, Publish(e)
    PROVE  \E r \in RunIds : execs[e].run = r /\ Driving(e) /\ Planned(r) /\ poc'.code = job[r].ver
<1>0. At(e, "publish") /\ IInv
  BY DEF Publish, Inv, SystemInv, Carried
<1>1. PICK r \in RunIds : execs[e].run = r
  BY <1>0, PlacedFacts DEF At
<1>2. Planned(r) /\ Driving(e)
  BY <1>0, <1>1 DEF At, Inv, SystemInv, Carried, Fit, Beyond, Driving
<1>3. poc'.code = job[r].ver
  BY <1>0, <1>1 DEF Publish, IInv, TypeOK
<1> QED
  BY <1>1, <1>2, <1>3

LEMMA PublishedPlannedStep ==
    ASSUME Inv, PublishedPlanned, CodeStep
    PROVE  PublishedPlanned'
<1>1. CASE poc'.code = poc.code
  BY <1>1, PlannedStays DEF PublishedPlanned
<1>2. ASSUME NEW e \in Execs, Publish(e) PROVE PublishedPlanned'
  BY <1>2, PublishEffect, PlannedStays DEF PublishedPlanned
<1> QED
  BY <1>1, <1>2, PocEffect DEF Inv, SystemInv, Carried

LEMMA ChosenStep ==
    ASSUME Inv, Chosen, PlannersLast, CodeStep
    PROVE  Chosen'
<1>1. IInv
  BY DEF Inv, SystemInv, Carried
<1> QED
  BY <1>1, SlotStep, CountedStep, VersionsReachedStep, InOrderStep, PublishedPlannedStep DEF Chosen

(***************************************************************************)
(* What a step does to drivers, calls and requests                         *)
(***************************************************************************)

LEMMA DrivingEffect ==
    ASSUME Inv, [SystemNext]_sysVars, NEW e \in Execs, Driving(e)'
    PROVE  \/ Driving(e) /\ execs'[e].run = execs[e].run
           \/ Creates(e)
           \/ \E s \in Mailbox, r \in RunIds :
                 mail[s].tool = "continue" /\ mail[s].run = r /\ ContinueRun(e, r) /\ execs'[e].run = r
<1>0. IInv /\ execs \in [Execs -> Exec]
  BY DEF Inv, SystemInv, Carried, IInv, TypeOK
<1>1. ASSUME execs'[e] = execs[e] PROVE Driving(e)
  BY <1>1 DEF Driving
<1>2. ASSUME NEW d \in Execs, NEW r, Enter(d, r)
      PROVE  (d = e /\ execs'[e].run = r) \/ execs'[e] = execs[e]
  BY <1>0, <1>2 DEF Enter, Off
<1>3. ASSUME NEW s \in Mailbox, NEW d \in Execs, Deliver(s, d),
             ~(Driving(e) /\ execs'[e].run = execs[e].run)
      PROVE  \/ Creates(e)
             \/ \E q \in Mailbox, r \in RunIds :
                   mail[q].tool = "continue" /\ mail[q].run = r /\ ContinueRun(e, r) /\ execs'[e].run = r
  <2>1. \E r : Enter(d, r)
    BY <1>3 DEF Deliver, StartRun, RepairRun, NewRun, ContinueRun
  <2>2. d = e
    BY <1>1, <1>2, <1>3, <2>1
  <2>3. CASE mail[s].tool = "start" /\ StartRun(d, mail[s].spec)
    <3>1. mail[s].spec \in Specs
      BY <1>0, <2>3 DEF StartRun, IInv, TypeOK
    <3> QED
      BY <2>2, <2>3, <3>1 DEF Creates
  <2>4. CASE mail[s].tool = "repair" /\ RepairRun(d, mail[s].prev, mail[s].failure)
    BY <2>2, <2>4 DEF Inv, SystemInv, MailSane, SaneMessage, Creates
  <2>5. CASE mail[s].tool = "continue" /\ ContinueRun(d, mail[s].run)
    <3>1. PICK r \in RunIds : mail[s].run = r
      BY <2>5, CarriersRun DEF Inv
    <3>2. Enter(e, r)
      BY <2>2, <2>5, <3>1 DEF ContinueRun
    <3>3. execs'[e].run = r
      BY <1>0, <3>2 DEF Enter, Off
    <3> QED
      BY <2>2, <2>5, <3>1, <3>3
  <2> QED
    BY <1>3, <2>3, <2>4, <2>5 DEF Deliver
<1>4. ASSUME NEW d \in Execs, Execution(d) PROVE Driving(e) /\ execs'[e].run = execs[e].run
  <2>1. ExecutionSteps(d)
    BY <1>4 DEF Execution, OnlyCode, HandOverSends, HandOverRaises, ExecutionSteps
  <2>2. CASE d = e
    <3>1. PICK r \in RunIds : execs[e].run = r
      BY <1>0, <2>1, <2>2, ExecsEffect, PlacedFacts
    <3> QED
      BY <2>1, <2>2, <3>1, DrivenRun
  <2>3. CASE d # e
    BY <1>0, <1>1, <2>1, <2>3, ExecsEffect DEF StaysOrStops
  <2> QED
    BY <2>2, <2>3
<1>5. (\E u \in Users : Chat(u)) \/ (\E t \in TaskIds : Coder(t) \/ Age(t)) \/ (\E r \in RunIds : Silence(r))
         \/ (\E s \in Mailbox : DeliverRefused(s) \/ Lose(s)) \/ (\E spec \in Specs : OnlyCode(Approve(spec)))
         \/ (\E v \in Versions, failure \in Components \cup {Mismatch} : AskRepair(v, failure))
         \/ UNCHANGED sysVars
      => UNCHANGED execs
  BY DEF Chat, FindStale, ChatStart, ChatRetry, AbandonAndGoOn, Coder, Age, OnlyCode, CoderReads, CoderWrites,
         CoderMarks, CoderFails, CoderVanishes, TaskAges, Silence, DeliverRefused, Lose, Approve, AskRepair,
         vars, codeVars, sysVars
<1> QED
  BY <1>1, <1>3, <1>4, <1>5 DEF SystemNext

LEMMA CallEffect ==
    ASSUME Inv, [SystemNext]_sysVars, NEW u \in Users, chat'[u] # NoCall
    PROVE  chat'[u] = chat[u] \/ (chat'[u].run = NewestRun /\ UNCHANGED runs)
<1>0. chat \in [Users -> Call]
  BY DEF Inv, SystemInv, CallsSane
<1>1. ASSUME NEW w \in Users, Chat(w) PROVE chat'[u] = chat[u] \/ (chat'[u].run = NewestRun /\ UNCHANGED runs)
  <2>1. ASSUME NEW call, NEW spec, FindStale(w, call, spec)
        PROVE  chat'[u] = chat[u] \/ (chat'[u].run = NewestRun /\ UNCHANGED runs)
    <3> DEFINE c == [call |-> call, run |-> NewestRun, spec |-> spec]
    <3>1. chat' = [chat EXCEPT ![w] = c] /\ UNCHANGED runs /\ c.run = NewestRun
      BY <2>1 DEF FindStale, vars
    <3> HIDE DEF c
    <3> QED
      BY <1>0, <3>1
  <2>2. CASE AbandonAndGoOn(w)
    BY <1>0, <2>2 DEF AbandonAndGoOn
  <2>3. ASSUME NEW spec, ChatStart(w, spec) \/ ChatRetry(w, spec) PROVE chat'[u] = chat[u]
    BY <2>3 DEF ChatStart, ChatRetry
  <2> QED
    BY <1>1, <2>1, <2>2, <2>3 DEF Chat
<1>2. (\E s \in Mailbox : (\E e \in Execs : Deliver(s, e)) \/ DeliverRefused(s) \/ Lose(s))
         \/ (\E v \in Versions, failure \in Components \cup {Mismatch} : AskRepair(v, failure))
         \/ (\E spec \in Specs : OnlyCode(Approve(spec))) \/ (\E e \in Execs : Execution(e))
         \/ (\E t \in TaskIds : Coder(t) \/ Age(t)) \/ (\E r \in RunIds : Silence(r)) \/ UNCHANGED sysVars
      => UNCHANGED chat
  BY DEF Deliver, DeliverRefused, Lose, AskRepair, OnlyCode, Execution, HandOverSends, HandOverRaises,
         Coder, Age, Silence, sysVars
<1> QED
  BY <1>1, <1>2 DEF SystemNext

\* A run is asked for by the execution that drove it, or by the user as the
\* last one.
LEMMA RequestEffect ==
    ASSUME Inv, Punctual, Counted, CallsLast, [SystemNext]_sysVars, NEW s \in Mailbox, NEW r \in RunIds,
           Continues(s, r)'
    PROVE  \/ mail'[s] = mail[s]
           \/ \E e \in Execs : HandOver(e) /\ execs[e].run = r
           \/ Last(r) /\ Planned(r) /\ UNCHANGED <<job, tasks, poc>>
<1>0. mail \in [Mailbox -> Message] /\ NoMail.tool # "continue"
  BY DEF Inv, SystemInv, MailSane, NoMail
<1>1. ASSUME NEW m, Post(m) PROVE mail'[s] = mail[s] \/ m = mail'[s]
  BY <1>0, <1>1 DEF Post
<1>2. ASSUME NEW q, Take(q) PROVE mail'[s] = mail[s]
  BY <1>0, <1>2 DEF Take, Continues
<1>3. ASSUME NEW by, NEW spec, mail'[s] = StartRequest(by, spec) PROVE FALSE
  BY <1>3 DEF StartRequest, NoMail, Continues
<1>4. ASSUME NEW by, NEW q, mail'[s] = ContinueRequest(by, q) PROVE q = r
  BY <1>4 DEF ContinueRequest, NoMail, Continues
<1>5. ASSUME NEW e \in Execs, Execution(e), mail'[s] # mail[s]
      PROVE  HandOver(e) /\ execs[e].run = r
  <2>1. HandOver(e) /\ Post(ContinueRequest("self", execs[e].run))
    BY <1>5 DEF Execution, OnlyCode, HandOverSends, HandOverRaises, Punctual
  <2> QED
    BY <1>1, <1>4, <1>5, <2>1
<1>6. ASSUME NEW u \in Users, NEW spec, ChatRetry(u, spec), mail'[s] # mail[s]
      PROVE  Last(r) /\ Planned(r) /\ UNCHANGED <<job, tasks, poc>>
  <2>1. UNCHANGED <<job, tasks, poc>>
    BY <1>6 DEF ChatRetry, vars, codeVars
  <2>2. CASE NewestRun # 0 /\ Resumable(NewestRun)
    <3>1. Post(ContinueRequest(u, NewestRun))
      BY <1>6, <2>2 DEF ChatRetry, Fire
    <3>2. NewestRun = r
      BY <1>1, <1>4, <1>6, <3>1
    <3> QED
      BY <2>1, <2>2, <3>2, NewestIsLast DEF Resumable
  <2>3. CASE ~(NewestRun # 0 /\ Resumable(NewestRun))
    BY <1>1, <1>3, <1>6, <2>3 DEF ChatRetry, Fire
  <2> QED
    BY <2>2, <2>3
<1>7. ASSUME NEW u \in Users, AbandonAndGoOn(u), mail'[s] # mail[s]
      PROVE  Last(r) /\ Planned(r) /\ UNCHANGED <<job, tasks, poc>>
  <2>1. UNCHANGED <<job, tasks, poc>> /\ chat[u] # NoCall
    BY <1>7 DEF AbandonAndGoOn, codeVars
  <2>2. PICK q : chat[u].run = q
    OBVIOUS
  <2>3. (Planned(q) /\ Post(ContinueRequest(u, q))) \/ \E spec : Post(StartRequest(u, spec))
    BY <1>7, <2>2 DEF AbandonAndGoOn, Fire
  <2>4. q = r /\ Planned(q)
    BY <1>1, <1>3, <1>4, <1>7, <2>3
  <2> QED
    BY <2>1, <2>2, <2>4 DEF CallsLast
<1>8. ASSUME NEW u \in Users, NEW spec, ChatStart(u, spec) PROVE mail'[s] = mail[s]
  BY <1>1, <1>3, <1>8 DEF ChatStart, Fire
<1>9. ASSUME NEW v, NEW failure, AskRepair(v, failure) PROVE mail'[s] = mail[s]
  <2>1. RepairRequest(v, failure).tool # "continue"
    BY DEF RepairRequest, NoMail
  <2> QED
    BY <1>1, <1>9, <2>1 DEF AskRepair, Continues
<1>10. (\E t \in TaskIds : Coder(t) \/ Age(t)) \/ (\E q \in RunIds : Silence(q)) \/ UNCHANGED sysVars
          \/ (\E spec \in Specs : OnlyCode(Approve(spec)))
          \/ (\E u \in Users : \E call, spec : FindStale(u, call, spec))
       => UNCHANGED mail
  BY DEF OnlyCode, Coder, Age, Silence, sysVars, FindStale
<1>11. ASSUME NEW q \in Mailbox, (\E e \in Execs : Deliver(q, e)) \/ DeliverRefused(q) \/ Lose(q)
       PROVE  mail'[s] = mail[s]
  BY <1>2, <1>11 DEF Deliver, DeliverRefused, Lose
<1> QED
  BY <1>5, <1>6, <1>7, <1>8, <1>9, <1>10, <1>11 DEF SystemNext, Chat

\* A run that is asked for is not ended: nobody drives it, and it is not silent.
LEMMA RequestedStaysActive ==
    ASSUME Inv, Slot, [SystemNext]_sysVars, NEW s \in Mailbox, NEW r \in RunIds, Continues(s, r),
           Store!IsActive(r)
    PROVE  Store!IsActive(r)'
<1>0. IInv /\ TypeOK
  BY DEF Inv, SystemInv, Carried, IInv
<1>1. ASSUME runs'[r] = runs[r] PROVE Store!IsActive(r)'
  BY <1>1 DEF Store!IsActive
<1>2. ASSUME NEW e \in Execs, Execution(e) PROVE runs'[r] = runs[r]
  <2>1. ExecutionSteps(e)
    BY <1>2 DEF Execution, OnlyCode, HandOverSends, HandOverRaises, ExecutionSteps
  <2>2. PICK q \in RunIds : execs[e].run = q
    BY <1>0, <2>1, ExecsEffect, PlacedFacts
  <2>3. Driving(e) => q # r
    BY <2>2 DEF Inv, TimelyInv, OneCarrier, Continues
  <2> QED
    BY <2>1, <2>2, <2>3, DrivenRun
<1>3. ASSUME NEW q \in Mailbox, NEW e \in Execs, Deliver(q, e) PROVE Store!IsActive(r)'
  <2>1. ASSUME NEW inputs, NewRun(e, inputs) PROVE runs'[r] = runs[r]
    <3>1. PICK n \in RunIds : ~Store!Exists(n) /\ \A d \in RunIds \ {n} : runs'[d] = runs[d]
      BY <1>0, <2>1, CreatedFacts
    <3>2. n # r
      BY <3>1 DEF Store!Exists, Store!IsActive, Store!ActiveStatuses
    <3> QED
      BY <3>1, <3>2
  <2>2. ASSUME NEW d \in RunIds, ContinueRun(e, d) PROVE Store!IsActive(r)'
    <3>1. /\ \A n \in RunIds \ {d} : runs'[n] = runs[n]
          /\ runs'[d].status = "running"
      BY <1>0, <2>2, WriteFacts DEF ContinueRun, Store!ReopenRun
    <3> QED
      BY <3>1 DEF Store!IsActive, Store!ActiveStatuses
  <2>3. mail[q].tool = "continue" => mail[q].run \in RunIds
    BY CarriersRun DEF Inv
  <2> QED
    BY <1>1, <1>3, <2>1, <2>2, <2>3 DEF Deliver, StartRun, RepairRun
<1>4. ASSUME NEW u \in Users, AbandonAndGoOn(u) PROVE runs'[r] = runs[r]
  <2>1. PICK q \in RunIds : chat[u].run = q
    BY <1>4 DEF AbandonAndGoOn, Inv, SystemInv, CallsSane
  <2>2. runs[q].silent
    BY <1>4, <2>1 DEF AbandonAndGoOn, Inv, TimelyInv, CallsStale, Store!IsStale
  <2>3. ~runs[r].silent
    BY DEF Inv, TimelyInv, RequestsFresh, Continues
  <2>4. Store!AbandonRun(q) \/ UNCHANGED runs
    BY <1>4, <2>1 DEF AbandonAndGoOn
  <2> QED
    BY <1>0, <2>2, <2>3, <2>4, WriteFacts DEF Store!AbandonRun
<1>5. ASSUME NEW q \in RunIds, Silence(q) PROVE Store!IsActive(r)'
  BY <1>0, <1>5 DEF Silence, Store!GoSilent, Store!IsActive, TypeOK, Store!TypeOK, Store!RunDoc
<1>6. (\E t \in TaskIds : Coder(t) \/ Age(t)) \/ (\E spec \in Specs : OnlyCode(Approve(spec)))
         \/ (\E q \in Mailbox : DeliverRefused(q) \/ Lose(q))
         \/ (\E v \in Versions, failure \in Components \cup {Mismatch} : AskRepair(v, failure))
         \/ UNCHANGED sysVars
      => UNCHANGED runs
  BY DEF Coder, Age, OnlyCode, CoderReads, CoderWrites, CoderMarks, CoderFails, CoderVanishes, TaskAges,
         Approve, DeliverRefused, Lose, AskRepair, vars, sysVars
<1>7. ASSUME NEW u \in Users, Chat(u), ~AbandonAndGoOn(u) PROVE UNCHANGED runs
  BY <1>7 DEF Chat, FindStale, ChatStart, ChatRetry, vars
<1> QED
  BY <1>1, <1>2, <1>3, <1>4, <1>5, <1>6, <1>7 DEF SystemNext

\* A coder that writes has been at work for longer than any request waits.
LEMMA WritingIsSlow ==
    ASSUME Inv, Tasked, Punctual, [SystemNext]_sysVars, NEW t \in TaskIds, ~WritesNothing(t)
    PROVE  AllStarted
<1>1. ASSUME NEW e \in Execs, Execution(e) PROVE FALSE
  <2>1. ExecutionSteps(e)
    BY <1>1 DEF Execution, OnlyCode, HandOverSends, HandOverRaises, ExecutionSteps
  <2> QED
    BY <2>1, ExecutionFates
<1>2. ASSUME NEW s \in Mailbox, NEW e \in Execs, Deliver(s, e) PROVE UNCHANGED tasks
  BY <1>2 DEF Deliver, StartRun, RepairRun, NewRun, ContinueRun
<1>3. ASSUME NEW u \in TaskIds, Coder(u) PROVE AllStarted
  <2>1. CASE CoderWrites(u) /\ Slow
    BY <2>1 DEF Slow, Punctual
  <2>2. ASSUME CoderReads(u) \/ CoderMarks(u) \/ CoderFails(u) \/ CoderVanishes(u)
        PROVE  WritesNothing(t)
    <3>1. tasks \in [TaskIds -> Task]
      BY DEF Inv, SystemInv, Carried, IInv, TypeOK
    <3>2. CASE t = u
      BY <2>2, <3>1, <3>2 DEF CoderReads, CoderMarks, CoderFails, CoderVanishes, WritesNothing, Task
    <3>3. CASE t # u
      BY <2>2, <3>1, <3>3 DEF CoderReads, CoderMarks, CoderFails, CoderVanishes, WritesNothing
    <3> QED
      BY <3>2, <3>3
  <2> QED
    BY <1>3, <2>1, <2>2 DEF Coder, OnlyCode
<1>4. ASSUME NEW u \in TaskIds, Age(u) PROVE WritesNothing(t)
  BY <1>4 DEF Age, OnlyCode, TaskAges, WritesNothing, Inv, SystemInv, Carried, IInv, TypeOK, Task
<1>5. (\E u \in Users : Chat(u)) \/ (\E r \in RunIds : Silence(r))
         \/ (\E s \in Mailbox : DeliverRefused(s) \/ Lose(s)) \/ (\E spec \in Specs : OnlyCode(Approve(spec)))
         \/ (\E v \in Versions, failure \in Components \cup {Mismatch} : AskRepair(v, failure))
         \/ UNCHANGED sysVars
      => UNCHANGED tasks
  BY DEF Chat, FindStale, ChatStart, ChatRetry, AbandonAndGoOn, OnlyCode, Silence, DeliverRefused, Lose,
         Approve, AskRepair, vars, codeVars, sysVars
<1>6. ~UNCHANGED tasks
  BY DEF WritesNothing
<1> QED
  BY <1>1, <1>2, <1>3, <1>4, <1>5, <1>6 DEF SystemNext

(***************************************************************************)
(* The invariant, step by step                                             *)
(***************************************************************************)

LEMMA PlannersLastStep ==
    ASSUME Inv, Chosen, PlannersLast, CodeStep, [SystemNext]_sysVars
    PROVE  PlannersLast'
<1> SUFFICES ASSUME NEW e \in Execs, Driving(e)', NEW r, execs'[e].run = r, ~Planned(r)'
             PROVE  Last(r)'
  BY DEF PlannersLast
<1>0. IInv
  BY DEF Inv, SystemInv, Carried
<1>1. CASE Driving(e) /\ execs[e].run = r
  <2>1. r \in RunIds /\ Store!IsActive(r)
    BY <1>1, CarriersRun DEF Inv, TimelyInv, DriversBeat
  <2>2. ~Planned(r)
    BY <2>1, PlannedStays
  <2>3. \A q \in RunIds : Store!Exists(q) <=> Store!Exists(q)'
    BY <1>0, <2>1, ExistEffect, Born DEF Chosen
  <2> QED
    BY <1>1, <2>2, <2>3 DEF PlannersLast, Last
<1>2. CASE Creates(e)
  <2>1. PICK n \in RunIds : Enter(e, n) /\ \A q \in RunIds : Store!Exists(q)' <=> q <= n
    BY <1>0, <1>2, Born DEF Chosen
  <2>2. n = r
    BY <1>0, <2>1 DEF Enter, Off, IInv, TypeOK
  <2> QED
    BY <2>1, <2>2 DEF Last
<1>3. ASSUME NEW s \in Mailbox, NEW q \in RunIds, mail[s].tool = "continue", mail[s].run = q,
             execs'[e].run = q
      PROVE  FALSE
  <2>1. Planned(q) /\ q = r
    BY <1>3 DEF Inv, SystemInv, MailSane, SaneMessage
  <2> QED
    BY <2>1, PlannedStays
<1> QED
  BY <1>1, <1>2, <1>3, DrivingEffect

LEMMA CallsLastStep ==
    ASSUME Inv, Chosen, CallsLast, CodeStep, [SystemNext]_sysVars
    PROVE  CallsLast'
<1> SUFFICES ASSUME NEW u \in Users, chat'[u] # NoCall, NEW r, chat'[u].run = r
             PROVE  Last(r)'
  BY DEF CallsLast
<1>0. IInv
  BY DEF Inv, SystemInv, Carried
<1>1. CASE chat'[u] = chat[u]
  <2>1. r \in RunIds /\ Store!IsActive(r) /\ Last(r)
    BY <1>1, CarriersRun DEF Inv, TimelyInv, CallsStale, CallsLast, Store!IsStale, Store!IsActive,
                              Store!ActiveStatuses
  <2>2. \A q \in RunIds : Store!Exists(q) <=> Store!Exists(q)'
    BY <1>0, <2>1, ExistEffect, Born DEF Chosen
  <2> QED
    BY <2>1, <2>2 DEF Last
<1>2. CASE r = NewestRun /\ UNCHANGED runs
  <2>1. Last(r)
    BY <1>2, NewestIsLast DEF Chosen
  <2> QED
    BY <1>2, <2>1 DEF Last, Store!Exists
<1> QED
  BY <1>1, <1>2, CallEffect

\* The run that publishes is not behind the one that has published.
LEMMA DriversAheadStep ==
    ASSUME Inv, Chosen, DriversAhead, RequestsAhead, CodeStep, [SystemNext]_sysVars
    PROVE  DriversAhead'
<1> SUFFICES ASSUME NEW e \in Execs, Driving(e)', NEW r, execs'[e].run = r, Planned(r)'
             PROVE  poc'.code <= job'[r].ver
  BY DEF DriversAhead
<1>0. IInv /\ poc.code \in Nat
  BY CodeAssumption DEF Inv, SystemInv, Carried, IInv, TypeOK, Versions
<1>1. CASE Driving(e) /\ execs[e].run = r
  <2>1. r \in RunIds
    BY <1>1, CarriersRun DEF Inv
  <2>2. CASE Planned(r)
    <3>1. job'[r].ver = job[r].ver /\ job[r].ver \in Nat
      BY <2>1, <2>2, PlannedStays, PlannedRun, CodeAssumption DEF Versions
    <3>2. ASSUME NEW d \in Execs, Publish(d) PROVE poc'.code = job[r].ver
      <4>1. Driving(d)
        BY <3>2, PublishEffect
      <4>2. d = e
        BY <1>1, <4>1, OneDriving DEF Chosen
      <4> QED
        BY <1>1, <3>2, <4>2, PublishEffect
    <3> QED
      BY <1>0, <1>1, <2>2, <3>1, <3>2, PocEffect DEF DriversAhead
  <2>3. CASE ~Planned(r)
    <3>1. PICK d \in Execs : Persist(d) /\ job'[r].ver = execs[d].ver
      BY <2>1, <2>3, NewlyPlanned
    <3>2. execs[d].ver \in Versions /\ poc' = poc
      BY <1>0, <3>1, PlacedFacts DEF Persist, At, Placed
    <3>3. CASE poc.code = 0
      BY <3>1, <3>2, <3>3, CodeAssumption DEF Versions
    <3>4. CASE poc.code # 0
      <4>1. PICK p \in RunIds : Planned(p) /\ job[p].ver = poc.code
        BY <3>4 DEF Chosen, PublishedPlanned
      <4> QED
        BY <3>1, <3>2, <4>1 DEF Chosen, InOrder, Persist
    <3> QED
      BY <3>3, <3>4
  <2> QED
    BY <2>2, <2>3
<1>2. CASE Creates(e)
  <2>1. PICK n \in RunIds : Enter(e, n) /\ ~Planned(n)'
    BY <1>0, <1>2, Born DEF Chosen
  <2>2. n = r
    BY <1>0, <2>1 DEF Enter, Off, IInv, TypeOK
  <2> QED
    BY <2>1, <2>2
<1>3. ASSUME NEW s \in Mailbox, NEW q \in RunIds, mail[s].tool = "continue", mail[s].run = q,
             ContinueRun(e, q), execs'[e].run = q
      PROVE  poc'.code <= job'[r].ver
  <2>1. q = r /\ poc.code <= job[q].ver
    BY <1>3 DEF RequestsAhead
  <2>2. UNCHANGED job /\ poc'.code = poc.code
    BY <1>0, <1>3 DEF ContinueRun, IInv, TypeOK
  <2> QED
    BY <2>1, <2>2
<1> QED
  BY <1>1, <1>2, <1>3, DrivingEffect

\* Nor is a run that is asked for: what publishes meanwhile is older.
LEMMA RequestsAheadStep ==
    ASSUME Inv, Punctual, Ordering, Chosen, CallsLast, DriversAhead, RequestsAhead, RequestsLast,
           CodeStep, [SystemNext]_sysVars
    PROVE  RequestsAhead'
<1>1. SystemInv'
  BY SystemStep DEF Inv
<1> SUFFICES ASSUME NEW s \in Mailbox, NEW r \in RunIds, Continues(s, r)'
             PROVE  poc'.code <= job'[r].ver
  BY <1>1 DEF RequestsAhead, Continues, SystemInv, MailSane, SaneMessage
<1>0. IInv /\ poc.code \in Nat
  BY CodeAssumption DEF Inv, SystemInv, Carried, IInv, TypeOK, Versions
<1>2. CASE mail'[s] = mail[s]
  <2>1. Continues(s, r) /\ Planned(r) /\ poc.code <= job[r].ver
    BY <1>2 DEF Continues, RequestsAhead, Inv, SystemInv, MailSane, SaneMessage
  <2>2. job'[r].ver = job[r].ver
    BY <2>1, PlannedStays
  <2>3. ASSUME NEW e \in Execs, Publish(e) PROVE poc'.code <= job[r].ver
    <3>1. PICK q \in RunIds : execs[e].run = q /\ Driving(e) /\ Planned(q) /\ poc'.code = job[q].ver
      BY <2>3, PublishEffect
    <3>2. q # r /\ Store!IsActive(q)
      BY <2>1, <3>1 DEF Inv, TimelyInv, OneCarrier, DriversBeat, Continues
    <3>3. ~Store!IsActive(r)
      BY <3>2 DEF Chosen, Slot
    <3>4. Finished(q) /\ Len(Steps(q)) \in Nat /\ Len(Steps(q)) # 0
      <4>1. Finished(q)
        BY <2>3, <3>1 DEF Publish, At, Ordering, Walked, Closing
      <4> QED
        BY <3>1, <4>1, PlannedRun, PlanFacts
    <3>5. PICK t \in TaskIds : tasks[t].run = q /\ tasks[t].status = "succeeded"
      BY <3>4 DEF Finished, Succeeded, TasksOf
    <3>6. ~(q > r)
      BY <2>1, <3>3, <3>5 DEF RequestsLast, Undelivered, Continues
    <3>7. q < r
      BY <3>2, <3>6, CodeAssumption DEF RunIds
    <3> QED
      BY <2>1, <3>1, <3>7 DEF Chosen, InOrder
  <2> QED
    BY <1>0, <2>1, <2>2, <2>3, PocEffect
<1>3. ASSUME NEW e \in Execs, HandOver(e), execs[e].run = r PROVE poc'.code <= job'[r].ver
  <2>1. Driving(e) /\ Planned(r) /\ UNCHANGED <<job, poc>>
    BY <1>3 DEF HandOver, Driving, At, Inv, SystemInv, Carried, Fit, Beyond
  <2> QED
    BY <1>3, <2>1 DEF DriversAhead
<1>4. CASE Last(r) /\ Planned(r) /\ UNCHANGED <<job, tasks, poc>>
  <2>1. job[r].ver \in Nat
    BY <1>4, PlannedRun, CodeAssumption DEF Versions
  <2>2. CASE poc.code # 0
    <3>1. PICK p \in RunIds : Planned(p) /\ job[p].ver = poc.code
      BY <2>2 DEF Chosen, PublishedPlanned
    <3>2. p < r \/ p = r
      BY <1>4, <3>1, PlannedRun, CodeAssumption DEF Last, RunIds
    <3> QED
      BY <1>4, <2>1, <3>1, <3>2 DEF Chosen, InOrder
  <2> QED
    BY <1>4, <2>1, <2>2
<1> QED
  BY <1>2, <1>3, <1>4, RequestEffect DEF Chosen

LEMMA RequestsLastStep ==
    ASSUME Inv, Punctual, Tasked, Chosen, CallsLast, RequestsLast, CodeStep, [SystemNext]_sysVars
    PROVE  RequestsLast'
<1>1. SystemInv'
  BY SystemStep DEF Inv
<1> SUFFICES ASSUME NEW s \in Mailbox, NEW r \in RunIds, Continues(s, r)', ~Store!IsActive(r)',
                    NEW q \in RunIds, q > r
             PROVE  Undelivered(q)'
  BY <1>1 DEF RequestsLast, Continues, SystemInv, MailSane, SaneMessage
<1>2. CASE mail'[s] = mail[s]
  <2>1. Continues(s, r)
    BY <1>2 DEF Continues
  <2>2. ~Store!IsActive(r)
    BY <2>1, RequestedStaysActive DEF Chosen
  <2>3. Undelivered(q)
    BY <2>1, <2>2 DEF RequestsLast, Continues
  <2>4. ASSUME NEW t \in TaskIds, tasks'[t].run = q
        PROVE  tasks'[t].status # "succeeded" /\ tasks'[t].coder # "wrote"
    <3>1. CASE tasks[t].run = 0
      BY <3>1, NewTaskIdle
    <3>2. CASE tasks[t].run # 0
      <4>1. tasks[t].status # "succeeded" /\ tasks[t].coder # "wrote"
        BY <2>3, <2>4, <3>2, TaskKeepsPlace DEF Undelivered
      <4>2. WritesNothing(t)
        <5>1. ~AllStarted
          BY <2>1 DEF AllStarted, Continues, NoMail
        <5> QED
          BY <5>1, WritingIsSlow
      <4> QED
        BY <4>1, <4>2, Fates DEF Fate, WritesNothing
    <3> QED
      BY <3>1, <3>2
  <2> QED
    BY <2>4 DEF Undelivered
<1>3. ASSUME NEW e \in Execs, HandOver(e), execs[e].run = r PROVE FALSE
  <2>1. ExecutionSteps(e)
    BY <1>3 DEF ExecutionSteps
  <2> QED
    BY <1>3, <2>1, DrivenRun
<1>4. CASE Last(r) /\ UNCHANGED <<job, tasks, poc>>
  <2>1. ~Store!Exists(q)
    BY <1>4, CodeAssumption DEF Last, RunIds
  <2>2. \A t \in TaskIds : tasks[t].run # q
    BY <2>1, CodeAssumption DEF RunIds, Inv, SystemInv, Carried, TasksVersioned, PlannedExist
  <2> QED
    BY <1>4, <2>2 DEF Undelivered
<1> QED
  BY <1>2, <1>3, <1>4, RequestEffect DEF Chosen

LEMMA ForwardStarts ==
    ASSUME SystemInit
    PROVE  Forward
<1>1. NoJob.ver = 0 /\ Off.pc = "off" /\ ~NoBundle.made /\ NoMail.tool # "continue"
  BY DEF NoJob, Off, NoBundle, NoMail
<1>2. \A r \in RunIds : ~Store!Exists(r) /\ ~Store!IsActive(r)
  BY DEF SystemInit, Init, Store!Init, Store!NoDoc, Store!Exists, Store!IsActive, Store!ActiveStatuses
<1>3. Counted
  <2>1. 0 \in 0..MaxRuns /\ \A q \in RunIds : ~(q <= 0)
    BY CodeAssumption DEF RunIds
  <2> QED
    BY <1>2, <2>1 DEF Counted
<1>4. \A v \in Versions : ~Used(v)
  BY <1>1 DEF SystemInit, Init, Used
<1>5. Chosen
  BY <1>1, <1>2, <1>3, <1>4
     DEF SystemInit, Init, Chosen, Slot, VersionsReached, InOrder, PublishedPlanned, Planned, At
<1> QED
  BY <1>1, <1>5 DEF SystemInit, Init, Forward, PlannersLast, CallsLast, DriversAhead, RequestsAhead,
                    RequestsLast, Driving

\* The inductive invariant of the order: later runs have later versions, and whoever is to
\* publish is not behind what is current.
THEOREM ForwardInductive ==
    ASSUME Punctual
    PROVE  SystemSpec => [](Inv /\ Tasked /\ Ordering /\ Forward)
<1>1. SystemInit => Inv /\ Tasked /\ Ordering /\ Forward
  BY SystemStarts, TimelyStarts, TaskedStarts, OrderingStarts, ForwardStarts DEF Inv
<1>2. Inv /\ Tasked /\ Ordering /\ Forward /\ [SystemNext]_sysVars
         => (Inv /\ Tasked /\ Ordering /\ Forward)'
  <2> SUFFICES ASSUME Inv, Tasked, Ordering, Forward, [SystemNext]_sysVars
               PROVE  (Inv /\ Tasked /\ Ordering /\ Forward)'
    OBVIOUS
  <2>1. CodeStep
    BY SystemSteps DEF Inv, SystemInv, Carried, IInv
  <2>2. SystemInv' /\ TimelyInv' /\ Tasked' /\ Ordering'
    BY <2>1, SystemStep, TimelyStep, TaskedStep, OrderingStep DEF Inv
  <2>3. Forward'
    BY <2>1, ChosenStep, PlannersLastStep, CallsLastStep, DriversAheadStep, RequestsAheadStep,
       RequestsLastStep
       DEF Forward
  <2> QED
    BY <2>2, <2>3 DEF Inv
<1> QED
  BY <1>1, <1>2, PTL DEF SystemSpec

(* The current code version never goes back to an older one, whatever is   *)
(* retried, handed over, repaired or abandoned: when a run publishes, no   *)
(* later version has been published.                                       *)
THEOREM VersionsGoForward ==
    ASSUME Punctual
    PROVE  SystemSpec => CurrentMovesForward
<1>1. Inv /\ Tasked /\ Ordering /\ Forward /\ [SystemNext]_sysVars => [poc'.code >= poc.code]_sysVars
  <2> SUFFICES ASSUME Inv, Forward, [SystemNext]_sysVars
               PROVE  poc'.code >= poc.code
    OBVIOUS
  <2>1. CodeStep /\ IInv /\ poc.code \in Nat
    BY SystemSteps, CodeAssumption DEF Inv, SystemInv, Carried, IInv, TypeOK, Versions
  <2>2. ASSUME NEW e \in Execs, Publish(e) PROVE poc'.code >= poc.code
    <3>1. PICK r \in RunIds : execs[e].run = r /\ Driving(e) /\ Planned(r) /\ poc'.code = job[r].ver
      BY <2>2, PublishEffect
    <3>2. job[r].ver \in Nat
      BY <3>1, PlannedRun, CodeAssumption DEF Versions
    <3> QED
      BY <2>1, <3>1, <3>2 DEF Forward, DriversAhead
  <2> QED
    BY <2>1, <2>2, PocEffect
<1> QED
  BY <1>1, ForwardInductive, PTL DEF CurrentMovesForward, SystemSpec
=============================================================================

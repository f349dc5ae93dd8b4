------------------------- MODULE Generation_proofs -------------------------
(***************************************************************************)
(* What the coders' generation loop guarantees for any number of           *)
(* executions that share a store and a sandbox, any set of answers and any *)
(* number of faults.  The argument goes over single executions: each step  *)
(* takes one execution from a sound record to a sound record (Sound), and  *)
(* what an execution has uploaded stands under a record that no longer     *)
(* changes its component, its files or the verdict of its gate (Frozen).   *)
(* Of the shared node_modules only what one backend alone can rely on is   *)
(* claimed (CacheHonest).                                                  *)
(***************************************************************************)
EXTENDS Generation, TLAPS

\* From the first upload on nothing changes but the progress of the upload.
Delivering == {"upload", "mark", "fail", "ended"}

\* What holds of an execution that has come so far.
Sound(g) ==
    /\ g.pc # "idle" => g.comp \in Components /\ g.attempt \in 1..Attempts(g.comp)
    /\ g.pc \in {"scan", "upload", "mark"} =>
          /\ Valid(g.current)
          /\ g.comp = "backend" => g.gate = "skipped" \/ Compiles(g.current)
    /\ g.pc \in {"gate", "install", "tsc"} => Valid(g.current)
    /\ g.pc \in {"upload", "mark"} => \A f \in Scanned : g.current[f] # "flagged"

Frozen(g, h) ==
    g.pc \in Delivering =>
        /\ h.pc \in Delivering
        /\ h.comp = g.comp /\ h.gate = g.gate /\ h.current = g.current

(***************************************************************************)
(* Single executions                                                       *)
(***************************************************************************)

LEMMA RejectedSound ==
    ASSUME NEW g \in Gen, g.comp \in Components, g.attempt \in 1..Attempts(g.comp)
    PROVE  /\ Rejected(g) \in Gen
           /\ Sound(Rejected(g))
           /\ Rejected(g).pc \in {"call", "fail"}
           /\ Rejected(g).current = g.current
<1>1. Attempts(g.comp) \in {2, 3}
  BY DEF Attempts
<1>2. CASE g.attempt = Attempts(g.comp) \/ (Budgeted(g.comp) /\ g.late)
  <2>1. Rejected(g) = [g EXCEPT !.pc = "fail"]
    BY <1>2 DEF Rejected
  <2> QED
    BY <2>1 DEF Gen, Sound
<1>3. CASE ~(g.attempt = Attempts(g.comp) \/ (Budgeted(g.comp) /\ g.late))
  <2>1. Rejected(g) = [g EXCEPT !.pc = "call", !.attempt = @ + 1]
    BY <1>3 DEF Rejected
  <2>2. g.attempt + 1 \in 1..Attempts(g.comp) /\ g.attempt + 1 \in 0..3
    BY <1>1, <1>3
  <2> QED
    BY <2>1, <2>2 DEF Gen, Sound
<1> QED
  BY <1>2, <1>3

LEMMA FreshTyped ==
    ASSUME NEW pc \in {"idle", "call"}, NEW c \in Components \cup {"none"}, NEW n \in 0..3
    PROVE  Fresh(pc, c, n) \in Gen
<1>1. Nothing \in Contents
  BY DEF Nothing, Contents
<1> QED
  BY <1>1 DEF Fresh, Gen

LEMMA JudgedSound ==
    ASSUME NEW g \in Gen, g.comp \in Components, g.attempt \in 1..Attempts(g.comp),
           NEW reply \in Replies
    PROVE  /\ Judged(g, reply) \in Gen /\ Sound(Judged(g, reply))
           /\ Judged(g, reply).pc \notin {"upload", "mark"}
<1> DEFINE files == Merged(g, reply)
<1> DEFINE h == [g EXCEPT !.current = files]
<1>1. files \in Contents
  BY GenerationAssumption DEF Merged, Gen, Contents
<1>2. h \in Gen /\ h.comp = g.comp /\ h.attempt = g.attempt /\ h.current = files
  BY <1>1 DEF Gen
<1>3. CASE ~Valid(files)
  <2>1. Judged(g, reply) = Rejected(h)
    BY <1>3 DEF Judged
  <2> HIDE DEF h
  <2> QED
    BY <2>1, <1>2, RejectedSound
<1>4. CASE Valid(files) /\ g.comp = "backend"
  <2>1. Judged(g, reply) = [h EXCEPT !.pc = "gate"]
    BY <1>4 DEF Judged
  <2> QED
    BY <2>1, <1>2, <1>4 DEF Gen, Sound
<1>5. CASE Valid(files) /\ g.comp # "backend"
  <2>1. Judged(g, reply) = [h EXCEPT !.pc = "scan"]
    BY <1>5 DEF Judged, Accepted
  <2> QED
    BY <2>1, <1>2, <1>5 DEF Gen, Sound
<1> QED
  BY <1>3, <1>4, <1>5

LEMMA ConcludedSound ==
    ASSUME NEW g \in Gen, Sound(g), g.pc \in {"install", "tsc"},
           NEW verdict \in {"passed", "failed", "skipped"},
           verdict = "passed" => Compiles(g.current)
    PROVE  /\ Concluded(g, verdict) \in Gen /\ Sound(Concluded(g, verdict))
           /\ Concluded(g, verdict).pc \notin {"upload", "mark"}
<1> DEFINE h == [g EXCEPT !.gate = verdict]
<1>1. /\ h \in Gen /\ h.comp = g.comp /\ h.attempt = g.attempt /\ h.current = g.current
      /\ h.gate = verdict
  BY DEF Gen
<1>2. g.comp \in Components /\ g.attempt \in 1..Attempts(g.comp) /\ Valid(g.current)
  BY DEF Sound
<1>3. CASE verdict = "failed"
  <2>1. Concluded(g, verdict) = Rejected(h)
    BY <1>3 DEF Concluded
  <2> HIDE DEF h
  <2> QED
    BY <2>1, <1>1, <1>2, RejectedSound
<1>4. CASE verdict # "failed"
  <2>1. Concluded(g, verdict) = [h EXCEPT !.pc = "scan"]
    BY <1>4 DEF Concluded, Accepted
  <2> QED
    BY <2>1, <1>1, <1>2, <1>4 DEF Gen, Sound
<1> QED
  BY <1>3, <1>4

\* A step that takes execution e to h, which has not uploaded anything yet or no longer
\* does, and leaves the store alone.
Moves(e, h) ==
    /\ h \in Gen /\ Sound(h) /\ Frozen(gens[e], h)
    /\ gens[e].pc # "ended"
    /\ h.pc # "mark"
    /\ h.pc = "upload" => h.todo = FilesOf(h)
    /\ gens' = [gens EXCEPT ![e] = h]
    /\ store' = store

LEMMA WorkMoves ==
    ASSUME TypeOK, NEW e \in Execs, Sound(gens[e]),
           \/ \E c \in Components : Start(e, c)
           \/ Call(e) \/ Gate(e) \/ InstallBegins(e) \/ Install(e) \/ InstallFails(e)
           \/ GateTimesOut(e) \/ Tsc(e) \/ Scan(e) \/ ToolFails(e) \/ Vanish(e)
    PROVE  /\ \E h \in Gen : Moves(e, h)
           /\ tasks' = tasks
<1> DEFINE g == gens[e]
<1>0. g \in Gen
  BY DEF TypeOK
<1>1. ASSUME NEW c \in Components, Start(e, c) PROVE Moves(e, Fresh("call", c, 1)) /\ tasks' = tasks
  <2> DEFINE h == Fresh("call", c, 1)
  <2>1. 1 \in 0..3 /\ 1 \in 1..Attempts(c)
    BY DEF Attempts
  <2>2. h \in Gen
    BY <2>1, FreshTyped
  <2>3. h.pc = "call" /\ h.comp = c /\ h.attempt = 1
    BY DEF Fresh
  <2>4. Sound(h) /\ Frozen(g, h) /\ g.pc # "ended"
    BY <1>1, <2>1, <2>3 DEF Start, At, Sound, Frozen, Delivering
  <2> QED
    BY <1>1, <2>2, <2>3, <2>4 DEF Start, Go, Moves
<1>2. CASE Call(e)
  <2>1. PICK late \in {g.late, TRUE} :
           \/ Go(e, Rejected([g EXCEPT !.late = late]))
           \/ \E reply \in Replies : Go(e, Judged([g EXCEPT !.late = late], reply))
    BY <1>2 DEF Call
  <2> DEFINE l == [g EXCEPT !.late = late]
  <2>2. /\ l \in Gen /\ l.comp = g.comp /\ l.attempt = g.attempt
        /\ g.comp \in Components /\ g.attempt \in 1..Attempts(g.comp)
        /\ g.pc = "call" /\ store' = store /\ tasks' = tasks
    BY <1>0, <1>2 DEF Gen, Call, At, Sound
  <2>3. CASE Go(e, Rejected(l))
    <3> HIDE DEF l
    <3>1. Rejected(l) \in Gen /\ Sound(Rejected(l)) /\ Rejected(l).pc \in {"call", "fail"}
      BY <2>2, RejectedSound
    <3> QED
      BY <2>2, <2>3, <3>1 DEF Go, Moves, Frozen, Delivering
  <2>4. ASSUME NEW reply \in Replies, Go(e, Judged(l, reply)) PROVE \E h \in Gen : Moves(e, h)
    <3> HIDE DEF l
    <3>1. /\ Judged(l, reply) \in Gen /\ Sound(Judged(l, reply))
          /\ Judged(l, reply).pc \notin {"upload", "mark"}
      BY <2>2, JudgedSound
    <3> QED
      BY <2>2, <2>4, <3>1 DEF Go, Moves, Frozen, Delivering
  <2> QED
    BY <2>1, <2>2, <2>3, <2>4
<1>3. CASE Gate(e)
  <2> DEFINE h == [g EXCEPT !.pc = IF Installed THEN "tsc" ELSE "install"]
  <2>1. h \in Gen /\ Sound(h) /\ Frozen(g, h) /\ g.pc # "ended" /\ h.pc \notin {"upload", "mark"}
    BY <1>0, <1>3 DEF Gate, At, Gen, Sound, Frozen, Delivering
  <2> QED
    BY <1>3, <2>1 DEF Gate, Go, Moves
<1>4. CASE InstallBegins(e)
  <2>1. gens' = [gens EXCEPT ![e] = g]
    BY <1>4 DEF InstallBegins, TypeOK
  <2> QED
    BY <1>0, <1>4, <2>1 DEF InstallBegins, At, Moves, Frozen
<1>5. CASE Install(e)
  <2> DEFINE h == [g EXCEPT !.pc = "tsc"]
  <2>1. h \in Gen /\ Sound(h) /\ Frozen(g, h) /\ g.pc # "ended" /\ h.pc \notin {"upload", "mark"}
    BY <1>0, <1>5 DEF Install, At, Gen, Sound, Frozen, Delivering
  <2> QED
    BY <1>5, <2>1 DEF Install, Go, Moves
<1>6. ASSUME NEW verdict \in {"passed", "failed", "skipped"}, g.pc \in {"install", "tsc"},
             verdict = "passed" => Compiles(g.current),
             Go(e, Concluded(g, verdict)), store' = store
      PROVE  \E h \in Gen : Moves(e, h)
  <2>1. /\ Concluded(g, verdict) \in Gen /\ Sound(Concluded(g, verdict))
        /\ Concluded(g, verdict).pc \notin {"upload", "mark"}
    BY <1>0, <1>6, ConcludedSound
  <2>2. Frozen(g, Concluded(g, verdict))
    BY <1>6 DEF Frozen, Delivering
  <2> QED
    BY <1>6, <2>1, <2>2 DEF Go, Moves
<1>7. CASE InstallFails(e)
  BY <1>6, <1>7 DEF InstallFails, At
<1>8. CASE GateTimesOut(e)
  BY <1>6, <1>8 DEF GateTimesOut
<1>9. CASE Tsc(e)
  <2>1. PICK verdict \in Verdicts(g.current) : Go(e, Concluded(g, verdict))
    BY <1>9 DEF Tsc
  <2>2. verdict \in {"passed", "failed", "skipped"} /\ (verdict = "passed" => Compiles(g.current))
    BY <2>1 DEF Verdicts
  <2> QED
    BY <1>6, <1>9, <2>1, <2>2 DEF Tsc, At
<1>10. CASE Scan(e)
  <2>1. CASE \E f \in Scanned : g.current[f] = "flagged"
    <3> DEFINE h == [g EXCEPT !.pc = "fail"]
    <3>1. h \in Gen /\ Sound(h) /\ Frozen(g, h) /\ g.pc # "ended" /\ h.pc \notin {"upload", "mark"}
      BY <1>0, <1>10 DEF Scan, At, Gen, Sound, Frozen, Delivering
    <3> QED
      BY <1>10, <2>1, <3>1 DEF Scan, Go, Moves
  <2>2. CASE ~\E f \in Scanned : g.current[f] = "flagged"
    <3> DEFINE h == [g EXCEPT !.pc = "upload", !.todo = FilesOf(g)]
    <3>1. FilesOf(g) \subseteq Names
      BY DEF FilesOf
    <3>2. h \in Gen /\ Sound(h) /\ Frozen(g, h) /\ g.pc # "ended" /\ h.pc = "upload" /\ h.todo = FilesOf(h)
      BY <1>0, <1>10, <2>2, <3>1 DEF Scan, At, Gen, Sound, Frozen, Delivering, FilesOf
    <3> QED
      BY <1>10, <2>2, <3>2 DEF Scan, Go, Moves
  <2> QED
    BY <2>1, <2>2
<1>11. CASE ToolFails(e)
  <2> DEFINE h == [g EXCEPT !.pc = "fail"]
  <2>1. h \in Gen /\ Sound(h) /\ Frozen(g, h) /\ g.pc # "ended" /\ h.pc \notin {"upload", "mark"}
    BY <1>0, <1>11 DEF ToolFails, Gen, Sound, Frozen, Delivering
  <2> QED
    BY <1>11, <2>1 DEF ToolFails, Go, Moves
<1>12. CASE Vanish(e)
  <2> DEFINE h == [g EXCEPT !.pc = "ended"]
  <2>1. h \in Gen /\ Sound(h) /\ Frozen(g, h) /\ g.pc # "ended" /\ h.pc \notin {"upload", "mark"}
    BY <1>0, <1>12 DEF Vanish, Gen, Sound, Frozen, Delivering
  <2> QED
    BY <1>12, <2>1 DEF Vanish, Go, Moves
<1>13. (Call(e) \/ Gate(e) \/ InstallBegins(e) \/ Install(e) \/ InstallFails(e) \/ GateTimesOut(e)
          \/ Tsc(e) \/ Scan(e) \/ ToolFails(e) \/ Vanish(e)) => tasks' = tasks
  BY DEF Call, Gate, InstallBegins, Install, InstallFails, GateTimesOut, Tsc, Scan, ToolFails, Vanish
<1> QED
  BY <1>1, <1>2, <1>3, <1>4, <1>5, <1>7, <1>8, <1>9, <1>10, <1>11, <1>12, <1>13 DEF Moves

LEMMA MarkMoves ==
    ASSUME TypeOK, NEW e \in Execs, Sound(gens[e]), Mark(e)
    PROVE  /\ Moves(e, [gens[e] EXCEPT !.pc = "ended"])
           /\ \/ tasks' = tasks
              \/ /\ gens[e].pc = "mark"
                 /\ tasks' = [tasks EXCEPT ![e] = "succeeded"]
              \/ tasks' = [tasks EXCEPT ![e] = "failed"]
<1> DEFINE g == gens[e]
<1> DEFINE h == [g EXCEPT !.pc = "ended"]
<1>0. g \in Gen
  BY DEF TypeOK
<1>1. h \in Gen /\ Sound(h) /\ Frozen(g, h) /\ g.pc # "ended" /\ h.pc \notin {"upload", "mark"}
  BY <1>0 DEF Mark, Gen, Sound, Frozen, Delivering
<1> QED
  BY <1>1 DEF Mark, At, Go, Moves

(***************************************************************************)
(* The inductive invariant                                                 *)
(***************************************************************************)

\* What is in the store was uploaded by an execution that is delivering or done, and
\* is the file that execution accepted.
Uploaded(c, f) ==
    LET x == store[c][f] IN
    \/ x = [by |-> "none", quality |-> "none"]
    \/ /\ x.by \in Execs
       /\ gens[x.by].pc \in Delivering
       /\ gens[x.by].comp = c
       /\ x.quality # "illformed" /\ (f \in Scanned => x.quality # "flagged")
       /\ (c = "backend" /\ x.quality = "untyped") => gens[x.by].gate = "skipped"

\* File f of execution e is in the store, or was overwritten.
Placed(e, f) ==
    LET x == store[gens[e].comp][f] IN
    \/ x = [by |-> e, quality |-> gens[e].current[f]]
    \/ x.by \in Execs \ {e} /\ gens[x.by].comp = gens[e].comp

Delivered(e) ==
    /\ gens[e].pc = "upload" => \A f \in FilesOf(gens[e]) \ gens[e].todo : Placed(e, f)
    /\ gens[e].pc = "mark" => \A f \in FilesOf(gens[e]) : Placed(e, f)
    /\ tasks[e] = "succeeded" => gens[e].pc = "ended" /\ \A f \in FilesOf(gens[e]) : Placed(e, f)

IInv ==
    /\ TypeOK
    /\ \A e \in Execs : Sound(gens[e]) /\ Delivered(e)
    /\ \A c \in Components, f \in Names : Uploaded(c, f)

LEMMA InitInv == Init => IInv
<1> SUFFICES ASSUME Init PROVE IInv
  OBVIOUS
<1>1. Idle \in Gen /\ Idle.pc = "idle"
  <2>1. 0 \in 0..3
    OBVIOUS
  <2> QED
    BY <2>1, FreshTyped DEF Idle, Fresh
<1>2. TypeOK
  <2>1. [by |-> "none", quality |-> "none"] \in Object
    BY DEF Object
  <2> QED
    BY <1>1, <2>1, GenerationAssumption DEF Init, TypeOK
<1>3. \A e \in Execs : Sound(gens[e]) /\ Delivered(e)
  BY <1>1 DEF Init, Sound, Delivered
<1>4. \A c \in Components, f \in Names : Uploaded(c, f)
  BY DEF Init, Uploaded
<1> QED
  BY <1>2, <1>3, <1>4 DEF IInv

\* What is placed stays placed while nothing is uploaded.
LEMMA MovesKeepStore ==
    ASSUME IInv, NEW e \in Execs, NEW h \in Gen, Moves(e, h)
    PROVE  /\ gens' \in [Execs -> Gen] /\ store' \in [Components -> [Names -> Object]]
           /\ \A d \in Execs : Sound(gens[d])'
           /\ \A c \in Components, f \in Names : Uploaded(c, f)'
           /\ \A d \in Execs, f \in Names :
                 (gens[d].pc \in Delivering /\ gens[d].comp \in Components /\ Placed(d, f)) => Placed(d, f)'
<1>1. gens' \in [Execs -> Gen] /\ store' \in [Components -> [Names -> Object]]
  BY DEF IInv, TypeOK, Moves
<1>2. \A d \in Execs : gens'[d] = IF d = e THEN h ELSE gens[d]
  BY DEF IInv, TypeOK, Moves
<1>3. \A d \in Execs : Sound(gens[d])'
  BY <1>2 DEF IInv, Moves, Sound
<1>4. \A d \in Execs : Frozen(gens[d], gens'[d])
  BY <1>2 DEF Moves, Frozen
<1>5. \A c \in Components, f \in Names : Uploaded(c, f)'
  BY <1>4 DEF IInv, Moves, Uploaded, Frozen
<1>6. ASSUME NEW d \in Execs, NEW f \in Names,
             gens[d].pc \in Delivering, gens[d].comp \in Components, Placed(d, f)
      PROVE  Placed(d, f)'
  <2>1. gens'[d].comp = gens[d].comp /\ gens'[d].current = gens[d].current
    BY <1>4, <1>6 DEF Frozen
  <2> DEFINE x == store[gens[d].comp][f]
  <2>2. x.by \in Execs => gens'[x.by].comp = gens[x.by].comp
    <3>1. Uploaded(gens[d].comp, f)
      BY <1>6 DEF IInv
    <3>2. x.by \in Execs => gens[x.by].pc \in Delivering
      BY <3>1, GenerationAssumption DEF Uploaded
    <3> QED
      BY <3>2, <1>4 DEF Frozen
  <2> QED
    BY <1>6, <2>1, <2>2 DEF Placed, Moves
<1> QED
  BY <1>1, <1>3, <1>5, <1>6

LEMMA MovesKeepDelivered ==
    ASSUME IInv, NEW e \in Execs, NEW h \in Gen, Moves(e, h),
           \/ tasks' = tasks
           \/ tasks' = [tasks EXCEPT ![e] = "failed"]
           \/ gens[e].pc = "mark" /\ h.pc = "ended" /\ tasks' = [tasks EXCEPT ![e] = "succeeded"]
    PROVE  \A d \in Execs : Delivered(d)'
<1>1. \A d \in Execs : gens'[d] = IF d = e THEN h ELSE gens[d]
  BY DEF IInv, TypeOK, Moves
<1>2. ASSUME NEW d \in Execs, d # e PROVE Delivered(d)'
  <2>1. gens'[d] = gens[d] /\ tasks'[d] = tasks[d]
    BY <1>1, <1>2 DEF IInv, TypeOK
  <2>2. Sound(gens[d]) /\ Delivered(d)
    BY DEF IInv
  <2>3. gens[d].pc \in {"upload", "mark", "ended"} =>
           \A f \in FilesOf(gens[d]) : Placed(d, f) => Placed(d, f)'
    BY <2>2, MovesKeepStore DEF Sound, Delivering, FilesOf
  <2> QED
    BY <2>1, <2>2, <2>3 DEF Delivered
<1>3. Delivered(e)'
  <2>1. gens'[e] = h /\ h.pc # "mark" /\ (h.pc = "upload" => FilesOf(h) \ h.todo = {})
    BY <1>1 DEF Moves
  <2>2. CASE tasks'[e] # "succeeded"
    BY <2>1, <2>2 DEF Delivered
  <2>3. CASE tasks'[e] = "succeeded"
    <3>1. gens[e].pc = "mark" /\ h.pc = "ended"
      BY <2>3 DEF IInv, TypeOK, Delivered, Moves
    <3>2. \A f \in FilesOf(gens[e]) : Placed(e, f)
      BY <3>1 DEF IInv, Delivered
    <3>3. gens[e].comp \in Components
      BY <3>1 DEF IInv, Sound
    <3>4. \A f \in FilesOf(gens[e]) : Placed(e, f)'
      BY <3>1, <3>2, <3>3, MovesKeepStore DEF Delivering, FilesOf
    <3>5. FilesOf(h) = FilesOf(gens[e])
      BY <3>1 DEF Moves, Frozen, Delivering, FilesOf
    <3> QED
      BY <2>1, <3>1, <3>4, <3>5 DEF Delivered
  <2> QED
    BY <2>2, <2>3
<1> QED
  BY <1>2, <1>3

LEMMA UploadInv ==
    ASSUME IInv, NEW e \in Execs, Upload(e)
    PROVE  IInv'
<1> DEFINE g == gens[e]
<1> DEFINE c == g.comp
<1>1. PICK f \in g.todo :
         /\ store' = [store EXCEPT ![c][f] = [by |-> e, quality |-> g.current[f]]]
         /\ Go(e, [g EXCEPT !.todo = @ \ {f}, !.pc = AfterUpload(g.todo \ {f})])
  BY DEF Upload
<1> DEFINE h == [g EXCEPT !.todo = @ \ {f}, !.pc = AfterUpload(g.todo \ {f})]
<1>2. /\ g \in Gen /\ g.pc = "upload" /\ Sound(g) /\ Delivered(e)
      /\ tasks' = tasks /\ cache' = cache /\ faults' = faults
  BY DEF IInv, TypeOK, Upload, At
<1>3. /\ c \in Components /\ f \in Names /\ g.current \in Contents
      /\ g.todo \subseteq Names
  BY <1>1, <1>2 DEF Sound, Gen
<1>4. /\ h \in Gen /\ h.comp = c /\ h.gate = g.gate /\ h.current = g.current
      /\ h.attempt = g.attempt /\ h.todo = g.todo \ {f} /\ h.pc \in {"upload", "mark"}
      /\ h.pc = "mark" => g.todo \ {f} = {}
  BY <1>2, <1>3 DEF Gen, AfterUpload
<1>5. \A d \in Execs : gens'[d] = IF d = e THEN h ELSE gens[d]
  BY <1>1 DEF IInv, TypeOK, Go
<1>6. store' \in [Components -> [Names -> Object]]
  <2>1. [by |-> e, quality |-> g.current[f]] \in Object
    BY <1>3 DEF Object, Contents
  <2> QED
    BY <1>1, <1>3, <2>1 DEF IInv, TypeOK
<1>7. /\ store'[c][f] = [by |-> e, quality |-> g.current[f]]
      /\ \A b \in Components, x \in Names : b # c \/ x # f => store'[b][x] = store[b][x]
  BY <1>1, <1>3 DEF IInv, TypeOK
<1> HIDE DEF h
<1>8. TypeOK'
  <2>1. gens' \in [Execs -> Gen]
    BY <1>1, <1>4 DEF IInv, TypeOK, Go, h
  <2> QED
    BY <1>2, <1>6, <2>1 DEF IInv, TypeOK
<1>9. \A d \in Execs : Sound(gens[d])'
  <2>1. Sound(h)
    BY <1>2, <1>4 DEF Sound
  <2> QED
    BY <1>5, <2>1 DEF IInv, Sound
<1>10. \A d \in Execs : Frozen(gens[d], gens'[d])
  BY <1>2, <1>4, <1>5 DEF Frozen, Delivering
<1>11. ASSUME NEW b \in Components, NEW x \in Names PROVE Uploaded(b, x)'
  <2>1. CASE b = c /\ x = f
    <3>1. /\ g.current[f] # "illformed" /\ (f \in Scanned => g.current[f] # "flagged")
          /\ (c = "backend" /\ g.current[f] = "untyped") => g.gate = "skipped"
      BY <1>2, <1>3 DEF Sound, Valid, WellFormed, Compiles
    <3> QED
      BY <1>4, <1>5, <1>7, <2>1, <3>1 DEF Uploaded, Delivering
  <2>2. CASE b # c \/ x # f
    <3>1. store'[b][x] = store[b][x] /\ Uploaded(b, x)
      BY <1>7, <2>2 DEF IInv
    <3> QED
      BY <1>10, <3>1 DEF Uploaded, Frozen
  <2> QED
    BY <2>1, <2>2
<1>12. ASSUME NEW d \in Execs, NEW x \in Names,
              gens[d].pc \in Delivering, gens[d].comp \in Components, Placed(d, x)
       PROVE  Placed(d, x)'
  <2>1. gens'[d].comp = gens[d].comp /\ gens'[d].current = gens[d].current
    BY <1>10, <1>12 DEF Frozen
  <2>2. CASE gens[d].comp = c /\ x = f
    <3>1. gens'[e].comp = c /\ store'[gens'[d].comp][x] = [by |-> e, quality |-> g.current[f]]
      BY <1>4, <1>5, <1>7, <2>1, <2>2
    <3> QED
      BY <2>1, <2>2, <3>1 DEF Placed
  <2>3. CASE ~(gens[d].comp = c /\ x = f)
    <3> DEFINE y == store[gens[d].comp][x]
    <3>1. store'[gens[d].comp][x] = y
      BY <1>7, <1>12, <2>3
    <3>2. Uploaded(gens[d].comp, x)
      BY <1>12 DEF IInv
    <3>3. y.by \in Execs => gens'[y.by].comp = gens[y.by].comp
      BY <1>10, <3>2, GenerationAssumption DEF Uploaded, Frozen
    <3> QED
      BY <1>12, <2>1, <3>1, <3>3 DEF Placed
  <2> QED
    BY <2>2, <2>3
<1>13. ASSUME NEW d \in Execs PROVE Delivered(d)'
  <2>1. CASE d # e
    <3>1. gens'[d] = gens[d] /\ tasks'[d] = tasks[d] /\ Sound(gens[d]) /\ Delivered(d)
      BY <1>2, <1>5, <2>1 DEF IInv
    <3>2. gens[d].pc \in {"upload", "mark", "ended"} =>
             \A x \in FilesOf(gens[d]) : Placed(d, x) => Placed(d, x)'
      BY <1>12, <3>1 DEF Sound, Delivering, FilesOf
    <3> QED
      BY <3>1, <3>2 DEF Delivered
  <2>2. CASE d = e
    <3>1. gens'[e] = h /\ FilesOf(h) = FilesOf(g)
      BY <1>4, <1>5 DEF FilesOf
    <3>2. Placed(e, f)'
      BY <1>4, <1>5, <1>7 DEF Placed
    <3>3. \A x \in FilesOf(g) \ g.todo : Placed(e, x)'
      BY <1>2, <1>3, <1>12 DEF Delivered, Delivering, FilesOf
    <3>4. \A x \in FilesOf(g) \ h.todo : Placed(e, x)'
      BY <1>4, <3>2, <3>3
    <3>5. h.pc = "mark" => FilesOf(g) \ h.todo = FilesOf(g)
      BY <1>4
    <3>6. tasks'[e] # "succeeded"
      BY <1>2 DEF Delivered
    <3>7. gens'[e].pc # "ended"
      BY <1>4, <3>1
    <3> QED
      BY <2>2, <3>1, <3>4, <3>5, <3>6 DEF Delivered
  <2> QED
    BY <2>1, <2>2
<1> QED
  BY <1>8, <1>9, <1>11, <1>13 DEF IInv

LEMMA StepInv == IInv /\ [Next]_vars => IInv'
<1> SUFFICES ASSUME IInv, [Next]_vars PROVE IInv'
  OBVIOUS
<1>1. ASSUME NEW e \in Execs, Upload(e) PROVE IInv'
  BY <1>1, UploadInv
<1>2. ASSUME NEW e \in Execs, Mark(e) PROVE IInv'
  <2> DEFINE h == [gens[e] EXCEPT !.pc = "ended"]
  <2>1. /\ Moves(e, h)
        /\ \/ tasks' = tasks
           \/ gens[e].pc = "mark" /\ tasks' = [tasks EXCEPT ![e] = "succeeded"]
           \/ tasks' = [tasks EXCEPT ![e] = "failed"]
    BY <1>2, MarkMoves DEF IInv
  <2>2. h \in Gen /\ h.pc = "ended"
    BY <2>1 DEF Moves, IInv, TypeOK, Gen
  <2> HIDE DEF h
  <2>3. \A d \in Execs : Delivered(d)'
    BY <2>1, <2>2, MovesKeepDelivered
  <2>4. /\ gens' \in [Execs -> Gen] /\ store' \in [Components -> [Names -> Object]]
        /\ \A d \in Execs : Sound(gens[d])'
        /\ \A c \in Components, f \in Names : Uploaded(c, f)'
    BY <2>1, <2>2, MovesKeepStore
  <2>5. tasks' \in [Execs -> {"running", "succeeded", "failed"}]
    BY <2>1 DEF IInv, TypeOK
  <2>6. cache' = cache /\ faults' \in 0..MaxFaults
    BY <1>2, GenerationAssumption DEF Mark, Fault, IInv, TypeOK
  <2> QED
    BY <2>3, <2>4, <2>5, <2>6 DEF IInv, TypeOK
<1>3. ASSUME NEW e \in Execs,
             \/ \E c \in Components : Start(e, c)
             \/ Call(e) \/ Gate(e) \/ InstallBegins(e) \/ Install(e) \/ InstallFails(e)
             \/ GateTimesOut(e) \/ Tsc(e) \/ Scan(e) \/ ToolFails(e) \/ Vanish(e)
      PROVE  IInv'
  <2>1. PICK h \in Gen : Moves(e, h)
    BY <1>3, WorkMoves DEF IInv
  <2>2. tasks' = tasks
    BY <1>3, WorkMoves DEF IInv
  <2>3. \A d \in Execs : Delivered(d)'
    BY <2>1, <2>2, MovesKeepDelivered
  <2>4. /\ gens' \in [Execs -> Gen] /\ store' \in [Components -> [Names -> Object]]
        /\ \A d \in Execs : Sound(gens[d])'
        /\ \A c \in Components, f \in Names : Uploaded(c, f)'
    BY <2>1, MovesKeepStore
  <2>5. cache' \in {"none", "partial", "complete"}
    BY <1>3 DEF Start, Call, Gate, InstallBegins, Install, InstallFails, AfterNpmFailed,
                GateTimesOut, Tsc, Scan, ToolFails, Vanish, IInv, TypeOK
  <2>6. faults' \in 0..MaxFaults
    BY <1>3, GenerationAssumption
       DEF Start, Call, Gate, InstallBegins, Install, InstallFails, GateTimesOut, Tsc, Scan,
           ToolFails, Vanish, Fault, IInv, TypeOK
  <2> QED
    BY <2>2, <2>3, <2>4, <2>5, <2>6 DEF IInv, TypeOK
<1>4. CASE UNCHANGED vars
  BY <1>4 DEF vars, IInv, TypeOK, Uploaded, Delivered, Placed
<1> QED
  BY <1>1, <1>2, <1>3, <1>4 DEF Next, Works

LEMMA Invariance == Spec => []IInv
BY InitInv, StepInv, PTL DEF Spec

(***************************************************************************)
(* What follows                                                            *)
(***************************************************************************)

(* Every execution, task and stored file of the generation loop has its    *)
(* type in every state: in particular no attempt beyond MAX_ATTEMPTS.      *)
THEOREM TypeCorrect == Spec => []TypeOK
<1>1. IInv => TypeOK
  BY DEF IInv
<1> QED
  BY Invariance, <1>1, PTL

(* For any number of executions writing under one prefix: every stored     *)
(* file was accepted by validate_backend (or its counterpart), by the      *)
(* guardrail scan and, for a backend, by a gate that passed or could not   *)
(* run.                                                                    *)
THEOREM StoredChecked == Spec => []StoredIsChecked
<1>1. IInv => StoredIsChecked
  BY DEF IInv, Uploaded, StoredIsChecked
<1> QED
  BY Invariance, <1>1, PTL

(* For any number of executions: mark_coder_task says succeeded only after *)
(* upload_dir has stored every accepted file of the component, and none of *)
(* them disappears except under another execution's version of it.         *)
THEOREM SucceededStored == Spec => []SucceededIsStored
<1>1. IInv => SucceededIsStored
  BY DEF IInv, Delivered, Placed, SucceededIsStored
<1> QED
  BY Invariance, <1>1, PTL

LEMMA MergedKeeps ==
    ASSUME NEW g \in Gen, g.comp = "backend", g.comp \in Components,
           g.attempt \in 1..Attempts(g.comp), NEW reply \in Replies
    PROVE  FilesOf(g) \subseteq FilesOf(Judged(g, reply))
<1> DEFINE files == Merged(g, reply)
<1> DEFINE h == [g EXCEPT !.current = files]
<1>1. files \in Contents
  BY GenerationAssumption DEF Merged, Gen, Contents
<1>2. h \in Gen /\ h.comp = g.comp /\ h.attempt = g.attempt /\ h.current = files
  BY <1>1 DEF Gen
<1>3. FilesOf(g) \subseteq FilesOf(h)
  BY <1>2 DEF Merged, FilesOf
<1>4. CASE Valid(files)
  <2>1. Judged(g, reply) = [h EXCEPT !.pc = "gate"]
    BY <1>4 DEF Judged
  <2> HIDE DEF h
  <2> QED
    BY <1>2, <1>3, <2>1 DEF FilesOf, Gen
<1>5. CASE ~Valid(files)
  <2>1. Judged(g, reply) = Rejected(h)
    BY <1>5 DEF Judged
  <2> HIDE DEF h
  <2>2. Rejected(h).current = h.current
    BY <1>2, RejectedSound
  <2> QED
    BY <1>3, <2>1, <2>2 DEF FilesOf
<1> QED
  BY <1>4, <1>5

(* The answers of a backend's later attempts only add to its files or      *)
(* replace them: generate() merges what the model returns.                 *)
THEOREM FilesAreKept == Spec => FilesKept
<1> DEFINE Keeps == \A e \in Execs : (gens[e].comp = "backend" /\ gens[e].pc = "call")
                       => FilesOf(gens[e]) \subseteq FilesOf(gens'[e])
<1>1. ASSUME IInv, [Next]_vars PROVE [Keeps]_vars
  <2> SUFFICES ASSUME Next, NEW e \in Execs, gens[e].comp = "backend", gens[e].pc = "call"
               PROVE  FilesOf(gens[e]) \subseteq FilesOf(gens'[e])
    BY <1>1
  <2>0. gens[e] \in Gen /\ Sound(gens[e])
    BY <1>1 DEF IInv, TypeOK
  <2>1. PICK d \in Execs :
           \/ \E c \in Components : Start(d, c)
           \/ Works(d) \/ InstallBegins(d) \/ InstallFails(d) \/ GateTimesOut(d)
           \/ ToolFails(d) \/ Vanish(d)
    BY DEF Next
  <2>2. CASE d # e
    <3>1. CASE Upload(d)
      BY <1>1, <2>2, <3>1 DEF IInv, TypeOK, Upload, Go
    <3>2. CASE Mark(d)
      BY <1>1, <2>2, <3>2 DEF IInv, TypeOK, Mark, Go
    <3>3. CASE ~Upload(d) /\ ~Mark(d)
      <4>1. PICK h \in Gen : Moves(d, h)
        BY <1>1, <2>1, <3>3, WorkMoves DEF IInv, Works
      <4> QED
        BY <1>1, <2>2, <4>1 DEF IInv, TypeOK, Moves
    <3> QED
      BY <3>1, <3>2, <3>3
  <2>3. CASE d = e /\ Call(e)
    <3>1. PICK late \in {gens[e].late, TRUE} :
             \/ Go(e, Rejected([gens[e] EXCEPT !.late = late]))
             \/ \E reply \in Replies : Go(e, Judged([gens[e] EXCEPT !.late = late], reply))
      BY <2>3 DEF Call
    <3> DEFINE l == [gens[e] EXCEPT !.late = late]
    <3>2. /\ l \in Gen /\ l.comp = gens[e].comp /\ l.attempt = gens[e].attempt
          /\ l.current = gens[e].current
          /\ l.comp \in Components /\ l.attempt \in 1..Attempts(l.comp)
      BY <2>0 DEF Gen, Sound
    <3>3. FilesOf(l) = FilesOf(gens[e])
      BY <3>2 DEF FilesOf
    <3> HIDE DEF l
    <3>4. CASE Go(e, Rejected(l))
      <4>1. Rejected(l).current = l.current
        BY <3>2, RejectedSound
      <4> QED
        BY <1>1, <3>3, <3>4, <4>1 DEF Go, FilesOf, IInv, TypeOK
    <3>5. ASSUME NEW reply \in Replies, Go(e, Judged(l, reply))
          PROVE  FilesOf(gens[e]) \subseteq FilesOf(gens'[e])
      <4>1. FilesOf(l) \subseteq FilesOf(Judged(l, reply))
        BY <3>2, MergedKeeps
      <4>2. gens'[e] = Judged(l, reply)
        BY <1>1, <3>5 DEF Go, IInv, TypeOK
      <4> QED
        BY <3>3, <4>1, <4>2
    <3> QED
      BY <3>1, <3>4, <3>5 DEF l
  <2>4. CASE d = e /\ ~Call(e)
    <3>1. gens'[e] = [gens[e] EXCEPT !.pc = "fail"] \/ gens'[e] = [gens[e] EXCEPT !.pc = "ended"]
      BY <1>1, <2>1, <2>4
         DEF Start, Works, Gate, InstallBegins, Install, InstallFails, GateTimesOut, Tsc, Scan,
             Upload, Mark, ToolFails, Vanish, At, Go, IInv, TypeOK
    <3>2. gens'[e].current = gens[e].current
      BY <2>0, <3>1 DEF Gen
    <3> QED
      BY <3>2 DEF FilesOf
  <2> QED
    BY <2>2, <2>3, <2>4
<1> QED
  BY Invariance, <1>1, PTL DEF Spec, FilesKept

(***************************************************************************)
(* The shared node_modules                                                 *)
(***************************************************************************)

\* Only backends get to the gate, and one keeps its component.
Gating == {"gate", "install", "tsc"}
GateOfBackends ==
    \A e \in Execs :
        /\ gens[e].pc \in Gating => gens[e].comp = "backend"
        /\ gens[e].pc = "idle" => gens[e].comp = "none"

\* Without a fault, and with one backend in the sandbox, a directory that is there in part
\* is being filled by that backend, and one that is used is complete.
OneBackend == \A d, e \in Execs : (gens[d].comp = "backend" /\ gens[e].comp = "backend") => d = e
CacheHonest ==
    (faults = 0 /\ OneBackend) =>
        /\ \A e \in Execs : gens[e].pc = "tsc" => cache = "complete"
        /\ cache = "partial" => \E e \in Execs : gens[e].pc = "install"

GateInv == IInv /\ GateOfBackends /\ CacheHonest

LEMMA AnswersKeepComponent ==
    ASSUME NEW g \in Gen
    PROVE  /\ Rejected(g).comp = g.comp /\ Rejected(g).pc \in {"call", "fail"}
           /\ \A reply \in Replies :
                 /\ Judged(g, reply).comp = g.comp
                 /\ Judged(g, reply).pc \in {"call", "fail", "scan", "gate"}
                 /\ Judged(g, reply).pc = "gate" => g.comp = "backend"
           /\ \A verdict \in {"passed", "failed", "skipped"} :
                 /\ Concluded(g, verdict).comp = g.comp
                 /\ Concluded(g, verdict).pc = IF verdict = "failed" THEN Rejected(g).pc ELSE "scan"
<1>1. ASSUME NEW h \in Gen PROVE Rejected(h).comp = h.comp /\ Rejected(h).pc \in {"call", "fail"}
  <2>1. Rejected(h) = [h EXCEPT !.pc = "fail"] \/ Rejected(h) = [h EXCEPT !.pc = "call", !.attempt = @ + 1]
    BY DEF Rejected
  <2> QED
    BY <2>1 DEF Gen
<1>2. ASSUME NEW reply \in Replies
      PROVE  /\ Judged(g, reply).comp = g.comp
             /\ Judged(g, reply).pc \in {"call", "fail", "scan", "gate"}
             /\ Judged(g, reply).pc = "gate" => g.comp = "backend"
  <2> DEFINE h == [g EXCEPT !.current = Merged(g, reply)]
  <2>1. h \in Gen /\ h.comp = g.comp
    BY GenerationAssumption DEF Merged, Gen, Contents
  <2>2. \/ Judged(g, reply) = Rejected(h)
        \/ Judged(g, reply) = [h EXCEPT !.pc = "gate"] /\ g.comp = "backend"
        \/ Judged(g, reply) = [h EXCEPT !.pc = "scan"]
    BY DEF Judged, Accepted
  <2> HIDE DEF h
  <2>3. Rejected(h).comp = h.comp /\ Rejected(h).pc \in {"call", "fail"}
    BY <1>1, <2>1
  <2> QED
    BY <2>1, <2>2, <2>3 DEF Gen
<1>3. ASSUME NEW verdict \in {"passed", "failed", "skipped"}
      PROVE  /\ Concluded(g, verdict).comp = g.comp
             /\ Concluded(g, verdict).pc = IF verdict = "failed" THEN Rejected(g).pc ELSE "scan"
  <2> DEFINE h == [g EXCEPT !.gate = verdict]
  <2>1. h \in Gen /\ h.comp = g.comp /\ h.attempt = g.attempt /\ h.late = g.late
    BY DEF Gen
  <2>2. Concluded(g, verdict) = IF verdict = "failed" THEN Rejected(h) ELSE [h EXCEPT !.pc = "scan"]
    BY DEF Concluded, Accepted
  <2>3. Rejected(h).pc = Rejected(g).pc
    BY <2>1 DEF Rejected, Gen
  <2> HIDE DEF h
  <2>4. Rejected(h).comp = h.comp
    BY <1>1, <2>1
  <2> QED
    BY <2>1, <2>2, <2>3, <2>4 DEF Gen
<1> QED
  BY <1>1, <1>2, <1>3

\* What a step of execution e is to the gate.
Leaves(e)   == gens'[e].pc \notin Gating \cup {"idle"}
GateStep(e) ==
    /\ gens'[e].comp = gens[e].comp
    /\ \/ UNCHANGED cache /\ Leaves(e) /\ (gens[e].pc = "install" => faults' # 0)
       \/ UNCHANGED cache /\ gens[e].pc = "call" /\ gens'[e].pc = "gate" /\ gens[e].comp = "backend"
       \/ UNCHANGED cache /\ gens[e].pc = "gate" /\ gens'[e].pc = IF Installed THEN "tsc" ELSE "install"
       \/ cache' = "partial" /\ gens[e].pc = "install" /\ gens'[e].pc = "install"
       \/ cache' = "complete" /\ gens[e].pc = "install" /\ gens'[e].pc = "tsc"
       \/ cache' = "none" /\ gens[e].pc = "install" /\ Leaves(e)

LEMMA StepsAtTheGate ==
    ASSUME IInv, GateOfBackends, Next
    PROVE  \E e \in Execs :
              /\ \A d \in Execs \ {e} : gens'[d] = gens[d]
              /\ faults' = 0 => faults = 0
              /\ \/ GateStep(e)
                 \/ gens[e].pc = "idle" /\ gens'[e].pc = "call" /\ UNCHANGED cache
<1>0. gens \in [Execs -> Gen] /\ faults \in Nat
  BY GenerationAssumption DEF IInv, TypeOK
<1>1. PICK e \in Execs :
           \/ \E c \in Components : Start(e, c)
           \/ Works(e) \/ InstallBegins(e) \/ InstallFails(e) \/ GateTimesOut(e) \/ ToolFails(e) \/ Vanish(e)
  BY DEF Next
<1>2. /\ \A d \in Execs \ {e} : gens'[d] = gens[d]
      /\ faults' = 0 => faults = 0
  <2>1. (\E h : Go(e, h)) \/ UNCHANGED gens
    BY <1>1
       DEF Start, Works, Call, Gate, InstallBegins, Install, InstallFails, GateTimesOut, Tsc, Scan, Upload,
           ToolFails, Mark, Vanish
  <2>2. Fault \/ UNCHANGED faults
    BY <1>1
       DEF Start, Works, Call, Gate, InstallBegins, Install, InstallFails, GateTimesOut, Tsc, Scan, Upload,
           ToolFails, Mark, Vanish
  <2>3. faults' = 0 => faults = 0
    BY <1>0, <2>2 DEF Fault
  <2> QED
    BY <1>0, <2>1, <2>3 DEF Go
<1>3. gens[e] \in Gen
  BY <1>0
<1>4. ASSUME NEW h, Go(e, h) PROVE gens'[e] = h
  BY <1>0, <1>4 DEF Go
<1>5. ASSUME NEW c \in Components, Start(e, c)
      PROVE  gens[e].pc = "idle" /\ gens'[e].pc = "call" /\ UNCHANGED cache
  BY <1>4, <1>5 DEF Start, At, Fresh
<1>6. ASSUME Call(e) PROVE GateStep(e)
  <2>1. PICK late \in BOOLEAN :
           \/ Go(e, Rejected([gens[e] EXCEPT !.late = late]))
           \/ \E reply \in Replies : Go(e, Judged([gens[e] EXCEPT !.late = late], reply))
    BY <1>3, <1>6 DEF Call, Gen
  <2> DEFINE g == [gens[e] EXCEPT !.late = late]
  <2>2. g \in Gen /\ g.comp = gens[e].comp
    BY <1>3 DEF Gen
  <2>3. gens'[e] = Rejected(g) \/ \E reply \in Replies : gens'[e] = Judged(g, reply)
    BY <1>4, <2>1
  <2> HIDE DEF g
  <2>4. gens'[e].comp = g.comp /\ gens'[e].pc \in {"call", "fail", "scan", "gate"}
           /\ (gens'[e].pc = "gate" => g.comp = "backend")
    BY <2>2, <2>3, AnswersKeepComponent
  <2>5. UNCHANGED cache /\ gens[e].pc = "call"
    BY <1>6 DEF Call, At
  <2> QED
    BY <2>2, <2>4, <2>5 DEF GateStep, Leaves, Gating
<1>7. ASSUME Gate(e) PROVE GateStep(e)
  <2>1. gens'[e] = [gens[e] EXCEPT !.pc = IF Installed THEN "tsc" ELSE "install"]
    BY <1>4, <1>7 DEF Gate
  <2> QED
    BY <1>3, <1>7, <2>1 DEF Gate, At, GateStep, Gen
<1>8. ASSUME InstallBegins(e) PROVE GateStep(e)
  BY <1>8 DEF InstallBegins, At, GateStep
<1>9. ASSUME Install(e) PROVE GateStep(e)
  <2>1. gens'[e] = [gens[e] EXCEPT !.pc = "tsc"]
    BY <1>4, <1>9 DEF Install
  <2> QED
    BY <1>3, <1>9, <2>1 DEF Install, At, GateStep, Gen
<1>10. ASSUME NEW verdict \in {"passed", "failed", "skipped"}, Go(e, Concluded(gens[e], verdict))
       PROVE  gens'[e].comp = gens[e].comp /\ Leaves(e)
  <2>1. gens'[e] = Concluded(gens[e], verdict)
    BY <1>4, <1>10
  <2> QED
    BY <1>3, <2>1, AnswersKeepComponent DEF Leaves, Gating
<1>11. ASSUME InstallFails(e) PROVE GateStep(e)
  BY <1>10, <1>11 DEF InstallFails, AfterNpmFailed, At, GateStep
<1>12. ASSUME GateTimesOut(e) PROVE GateStep(e)
  BY <1>0, <1>10, <1>12 DEF GateTimesOut, Fault, GateStep
<1>13. ASSUME Tsc(e) PROVE GateStep(e)
  <2>1. PICK verdict \in Verdicts(gens[e].current) : Go(e, Concluded(gens[e], verdict))
    BY <1>13 DEF Tsc
  <2>2. verdict \in {"passed", "failed", "skipped"}
    BY <2>1 DEF Verdicts
  <2> QED
    BY <1>10, <1>13, <2>1, <2>2 DEF Tsc, At, GateStep
<1>14. ASSUME Scan(e) \/ Upload(e) \/ ToolFails(e) \/ Mark(e) \/ Vanish(e) PROVE GateStep(e)
  <2>1. ASSUME Scan(e) PROVE gens'[e].comp = gens[e].comp /\ Leaves(e)
    <3>1. \/ gens'[e] = [gens[e] EXCEPT !.pc = "fail"]
          \/ gens'[e] = [gens[e] EXCEPT !.pc = "upload", !.todo = FilesOf(gens[e])]
      BY <1>4, <2>1 DEF Scan
    <3> QED
      BY <1>3, <3>1 DEF Leaves, Gating, Gen
  <2>2. ASSUME Upload(e) PROVE gens'[e].comp = gens[e].comp /\ Leaves(e)
    <3>1. PICK f \in gens[e].todo :
             gens'[e] = [gens[e] EXCEPT !.todo = @ \ {f}, !.pc = AfterUpload(gens[e].todo \ {f})]
      BY <1>4, <2>2 DEF Upload
    <3>2. AfterUpload(gens[e].todo \ {f}) \in {"mark", "upload"}
      BY DEF AfterUpload
    <3> QED
      BY <1>3, <3>1, <3>2 DEF Leaves, Gating, Gen
  <2>3. ASSUME ToolFails(e) \/ Mark(e) \/ Vanish(e) PROVE gens'[e].comp = gens[e].comp /\ Leaves(e)
    <3>1. \E pc \in {"fail", "ended"} : gens'[e] = [gens[e] EXCEPT !.pc = pc]
      BY <1>4, <2>3 DEF ToolFails, Mark, Vanish
    <3> QED
      BY <1>3, <3>1 DEF Leaves, Gating, Gen
  <2>4. UNCHANGED cache /\ (gens[e].pc = "install" => faults' # 0)
    <3>1. Fault => faults' # 0
      BY <1>0 DEF Fault
    <3> QED
      BY <1>14, <3>1 DEF Scan, Upload, ToolFails, Mark, Vanish, At
  <2> QED
    BY <1>14, <2>1, <2>2, <2>3, <2>4 DEF GateStep
<1> QED
  BY <1>1, <1>2, <1>5, <1>6, <1>7, <1>8, <1>9, <1>11, <1>12, <1>13, <1>14 DEF Works

LEMMA GateHolds == GateInv /\ [Next]_vars => GateInv'
<1> SUFFICES ASSUME GateInv, [Next]_vars PROVE GateInv'
  OBVIOUS
<1>1. IInv'
  BY StepInv DEF GateInv
<1>2. CASE UNCHANGED vars
  BY <1>1, <1>2 DEF vars, GateInv, GateOfBackends, CacheHonest, OneBackend
<1>3. CASE Next
  <2>1. PICK e \in Execs :
              /\ \A d \in Execs \ {e} : gens'[d] = gens[d]
              /\ faults' = 0 => faults = 0
              /\ \/ GateStep(e)
                 \/ gens[e].pc = "idle" /\ gens'[e].pc = "call" /\ UNCHANGED cache
    BY <1>3, StepsAtTheGate DEF GateInv
  <2>2. GateOfBackends'
    BY <2>1 DEF GateInv, GateOfBackends, GateStep, Leaves, Gating
  <2>3. \A d \in Execs : gens[d].comp = "backend" => gens'[d].comp = "backend"
    BY <2>1 DEF GateInv, GateOfBackends, GateStep
  <2>4. OneBackend' => OneBackend
    BY <2>3 DEF OneBackend
  <2>5. CacheHonest'
    <3> SUFFICES ASSUME faults' = 0, OneBackend'
                 PROVE  /\ \A d \in Execs : gens'[d].pc = "tsc" => cache' = "complete"
                        /\ cache' = "partial" => \E d \in Execs : gens'[d].pc = "install"
      BY DEF CacheHonest
    <3>1. /\ \A d \in Execs : gens[d].pc = "tsc" => cache = "complete"
          /\ cache = "partial" => \E d \in Execs : gens[d].pc = "install"
      BY <2>1, <2>4 DEF GateInv, CacheHonest
    <3>2. ASSUME NEW d \in Execs, gens[d].pc \in Gating, gens[e].pc \in Gating PROVE d = e
      BY <2>4, <3>2 DEF OneBackend, GateInv, GateOfBackends
    <3>3. CASE gens[e].pc \in Gating
      BY <2>1, <3>1, <3>2, <3>3, <1>1 DEF GateStep, Leaves, Gating, Installed, IInv, TypeOK
    <3>4. CASE gens[e].pc \notin Gating
      <4>1. UNCHANGED cache /\ gens'[e].pc \notin {"tsc", "install"}
        BY <2>1, <3>4 DEF GateStep, Leaves, Gating
      <4>2. \A d \in Execs : gens'[d].pc = "tsc" => gens[d].pc = "tsc"
        BY <2>1, <4>1
      <4>3. \A d \in Execs : gens[d].pc = "install" => gens'[d].pc = "install"
        BY <2>1, <3>4 DEF Gating
      <4> QED
        BY <3>1, <4>1, <4>2, <4>3
    <3> QED
      BY <3>3, <3>4
  <2> QED
    BY <1>1, <2>2, <2>5 DEF GateInv
<1> QED
  BY <1>2, <1>3

(* For any number of executions and answers: with no fault and one backend *)
(* in the sandbox a backend that compiles passes the gate, because what a  *)
(* failed npm leaves behind is removed, so that a node_modules that is     *)
(* there has been installed to the end.                                    *)
THEOREM GateIsFair == Spec => GateBlamesCode
<1>1. Init => GateInv
  <2> SUFFICES ASSUME Init PROVE GateInv
    OBVIOUS
  <2>1. \A e \in Execs : gens[e].pc = "idle" /\ gens[e].comp = "none"
    BY DEF Init, Idle, Fresh
  <2> QED
    BY <2>1, InitInv DEF GateInv, GateOfBackends, Gating, CacheHonest, Init
<1>2. GateInv /\ [Next]_vars =>
        [\A e \in Execs :
          (At(e, "tsc") /\ gens'[e].pc \in {"call", "fail"} /\ Compiles(gens[e].current))
             => faults > 0 \/ \E d \in Execs \ {e} : gens[d].comp = "backend"]_vars
  <2> SUFFICES ASSUME GateInv, Next, NEW e \in Execs, At(e, "tsc"), gens'[e].pc \in {"call", "fail"},
                      Compiles(gens[e].current), ~(faults > 0), ~\E d \in Execs \ {e} : gens[d].comp = "backend"
               PROVE  FALSE
    OBVIOUS
  <2>0. gens \in [Execs -> Gen] /\ faults = 0 /\ gens[e] \in Gen
    BY GenerationAssumption DEF GateInv, IInv, TypeOK
  <2>1. cache = "complete"
    BY <2>0 DEF GateInv, CacheHonest, OneBackend, At
  <2>2. \/ Tsc(e) \/ GateTimesOut(e) \/ Vanish(e)
        \/ gens'[e] = gens[e]
    BY <2>0
       DEF Next, Works, Start, Call, Gate, InstallBegins, Install, InstallFails, GateTimesOut, Tsc, Scan,
           Upload, ToolFails, Mark, Vanish, Go, At
  <2>3. ASSUME NEW verdict \in {"passed", "skipped"}, Go(e, Concluded(gens[e], verdict)) PROVE FALSE
    <3>1. gens'[e] = Concluded(gens[e], verdict)
      BY <2>0, <2>3 DEF Go
    <3>2. gens'[e].pc = "scan"
      BY <2>0, <3>1, AnswersKeepComponent
    <3> QED
      BY <3>2
  <2>4. CASE Tsc(e)
    BY <2>1, <2>3, <2>4 DEF Tsc, Verdicts
  <2>5. CASE GateTimesOut(e)
    BY <2>3, <2>5 DEF GateTimesOut
  <2>6. CASE Vanish(e)
    <3>1. gens'[e] = [gens[e] EXCEPT !.pc = "ended"]
      BY <2>0, <2>6 DEF Vanish, Go
    <3> QED
      BY <2>0, <3>1 DEF Gen
  <2> QED
    BY <2>0, <2>2, <2>4, <2>5, <2>6 DEF At
<1> QED
  BY <1>1, <1>2, GateHolds, PTL DEF Spec, GateBlamesCode
=============================================================================

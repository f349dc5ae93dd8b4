# A TLA+ model of the POC platform

The platform turns a meeting transcript into a deployed proof of concept (a *POC*). Seven agents and three coders
run as separate workspaces of a hosted platform, start each other by HTTP invocations, and keep everything they must
not forget in two places: a MongoDB database (POCs, runs, tasks, cloud resources) and an S3 bucket (versions of specs
and code). There is no coordinator and no lock service. What keeps the stages of a POC apart is one unique index, a
heartbeat, and the order in which the agents write.

Three facts about the platform make this hard, and they are what the modules are about:

1. **An execution is killed after about ten minutes**, wherever it is. A stage therefore carries itself on: it stores
   what it did, invokes itself as a new root session (a *hand-over*) and ends. A killed execution leaves its run
   `running` for ever, so anybody who finds a run that nothing has stamped for three minutes may abandon and continue it.
2. **An invocation says little about what it did.** The gateway cuts a call after 60 s, so a timeout and a 504 both mean
   "started", whether or not the callee runs, and any other error means "failed", whether or not the callee runs.
3. **The database writes hardly ever look at what they overwrite.** `finish_run`, `update_run_step` and `finish_task`
   store their status over any other one.

## 1. Inventory

| Component | State it keeps | Operations | Talks to | What makes it correct | Here |
|---|---|---|---|---|---|
| Run store (`poc_shared_tools/metadata.py`) | `runs`, `pocs`, `tasks`, `conversations`, `cloud_resources` | create, step, touch, finish, abandon, reopen a run; create, finish a task; approvals, gates, versions; ledger rows | every agent | one active run per stage; a slot is never handed over by accident | `RunStore` (runs), `CodeRun` (tasks, pocs), `CloudLedger` (cloud resources) |
| Coding orchestrator | a run's plan, version, steps, outputs; a graph state that dies with the execution | start, repair, continue; load, step, wait, hand over, assemble, finalize | coders, itself; store, S3 | one driver, one coder per step, no finished step redone, complete and coherent versions | `CodePlan`, `CodeRun` |
| Coders: api, data-seeding, frontend | nothing of their own | generate one artefact, mark the task | S3, store | only checked files are stored; the mark follows the upload; bounded retries | `Generation` (inside), `CodeRun` (from outside) |
| Chat agent | a conversation; one turn's view of a run | approve, start, retry, continue, report | every agent; store | live runs are left alone, dead ones do not block, the newest run counts | `CodeSystem` (code stage), the user of `DraftRun` and `DeployRun` |
| Deploy agent | a run's resume index, inflight record, repair counters | nine pipeline steps, repair loop, test wait, hand over, teardown | orchestrator, test agent, AWS, Atlas | repairs bounded, verdict of the right version, one version is served; everything launched is in the ledger | `DeployRun`, `CloudLedger`; repair requests in `CodeSystem` |
| Test agent | a run, a report | load, generate, execute, report | deployment, store | a deployment never waits for it for ever; the verdict is about the version deployed | `TestRun` |
| Draft agent | pending clarification rounds, spec versions | load, ask, generate, finalize | store, S3, embeddings | rounds are bounded, answers are kept until a spec is made from them, a published spec is complete | `Interview`, `DraftRun` |
| Platform invoke client | token cache, workspace-id cache | invoke, fire-and-forget | platform | "started" or an error within 25 s | messages of `CodeSystem`, fires of `DeployRun` |
| Object store (`s3.py`) | `spec/vNNN`, `code/vNNN` | next version, copy, bundle, list | S3 | versions are not shared or overwritten | `CodeRun` (code), `DraftRun` (spec), `Generation` (uploads) |
| Reaper, scripts | none | tear down expired POCs; reseed; contract checks | store, deploy agent's teardown | expired POCs disappear | reaper in `CloudLedger`, reseeding in `RunStore` |
| Infrastructure tools | cloud resources | launch, provision, terminate | AWS, Atlas | everything that exists is in the ledger | `CloudLedger`, scripts on the instance in `DeployRun` |
| Control tower (web UI) | a queued message, polled documents, a token | post, poll, archive, label | chat agent, store | a message is sent once | not modelled |
| Contracts, guardrails, config, secrets | none | validation, scans, lookups | all | pure functions | the scan in `Generation`, the secret in `CloudLedger`; the rest not modelled |

`PROJECT.json` lists the hazards of the code line by line, and for each one the properties that would notice it
going wrong, or why none does yet.

## 2. Modules

```
StageSlot            what one slot per stage means, with every document left out
   ^ refined by
RunStore             the runs collection: one action per operation of metadata.py, any client
   ^ proofs: RunStore_proofs      ^ refined by (CodeRun!ImplementsStore)
CodePlan             build_plan: a pure function of a run's inputs
   ^ extends
CodeRun              the code stage: executions, coders, tasks, versions; open clients
   ^ extends
CodeSystem           with the chat agent, the deploy agent's repairs, and invocations as messages
CodeRun_proofs: what is proved of CodeRun; CodeSystem_proofs, CodeTimely_proofs: of CodeSystem

Generation           one step of CodeRun's coder from inside: attempts, compile gate, upload, mark
   ^ proofs: Generation_proofs
Interview            what drafting promises: bounded rounds, no answer dropped before a spec
   ^ refined by
DraftRun             the draft agent over all its runs; its runs are RunStore's, stage "draft"
   ^ proofs: DraftRun_proofs

CloudLedger          cloud resources, the ledger, teardown and reaper; its runs are RunStore's
   ^ extends
TestRun              the test agent, the instances it tests, the test runs
   ^ extends
DeployRun            the deploy agent with everything it fires and waits for (refines RunStore)
   ^ proofs: DeployRun_proofs (whoever drives it), DeployPatient_proofs (a user who waits)
MCRunStore, MCCodeRun, MCCodeSystem, MCGeneration, MCDraft, MCDeploy: the constants of the runs
```

**StageSlot.** A slot per stage that runs acquire and release. Slots never pass from one run to another in one step.

**RunStore.** `runs[r]` is a document: its stage, its status and whether it has gone silent. `silent` stands for
`run_is_stale`'s comparison of the newest of three time stamps with `STALE_AFTER_S`; every write clears it (every write
sets one of the stamps) and only `GoSilent` sets it. `MayOccupy` is the partial unique index. `update_run_step`
performs up to two updates, of which exactly one matches the document; they are one action. The status `waiting_user`
is in the index and never written by any code.

**CodePlan.** `FreshOrder` and `Components` are constants, so that the runs can take two or three of the four steps.
A failure report names a component or a contract mismatch. `Regenerated`, `PlanSteps` and `CarriedOver` are
`build_plan`; what a contract mismatch rebuilds, and in which order, is the constant `MismatchOrder`, given the
code's value in every run.

**CodeRun.** `job[r]` is what the stage keeps in the run document: tool and inputs, the version (0 until plan, ctx and
version are stored, which the code does in one update), the steps recorded as done, whether the bundle is recorded.
`tasks[t]` is a task document together with the coder that serves it, `code[v]` the artefacts under `code/vNNN`, each
known by the task that wrote it and the contract that task had read, `bundle[v]` the bundle made of them. `execs[e]` is
one execution of the orchestrator: a program counter over the nodes of its graph, the step index, the task it waits
for, whether the budget is spent. The budget itself (360 s, 25 calls) is a choice after each wait. Where a tool makes
two writes that another actor can come between and that matter (copying a version and storing the plan; failing the
run and the POC; publishing and finishing; bundling and recording), it is two actions. An artefact is one object;
bundle and manifest are one; the copy of a carried-over version is one step; of two tasks the later one is the one
created later. `Fault` counts what fails outside the code's control, up to `MaxFaults`: kills, lost invocations,
vanished coders, storage errors. `Client` is the open environment: any client may start, repair, continue or
abandon any run at any time.

**CodeSystem.** The open clients are replaced. `mail` holds invocations under way; one is delivered, refused by the
agent, or lost. A tab of the chat agent reads the newest run and acts: `FindStale` then `AbandonAndGoOn` are the two
halves of `_prepare_stage` (the run is read, judged, and only then written), `ChatStart` and `ChatRetry` the calls that
find no active run. `AskRepair` is the deploy agent's `repair_node`, for any version up to the current one. `Resumable`
leaves out the two error codes that `_resumable` rules out (`agent_chat_agent/main.py:366`): both are returned before a
run is created, so no run with a plan has one. `HandOverSends` ends the execution and posts `continue_run` to its own
agent. `Silence` and `Age` are the passing of time. The constants `Timely` and `Ambiguous` choose the environment:

* `Timely` states what the code assumes about time: an invocation that is started at all is started within the window
  its caller waits for it (8 s, 25 s), much less than what a generation, the staleness limit of 180 s and the
  coder ceiling of 900 s take; a live execution stamps its run at least every 30 s; a coder is killed by the ten-minute
  cap before its task is fifteen minutes old. The constants come from the code (`STALE_AFTER_S`, `HEARTBEAT_EVERY_S`,
  `CODER_POLL_CEILING_S`, `CODER_START_TIMEOUT_S`, `INVOKE_ACK_TIMEOUT_S`); that they are in this order is what the
  model uses. One turn of a tab waits for the run it asked for, so a tab has one request on its way.
* `Ambiguous` lets an invoke raise although its callee was started (a 502, a dropped connection).

**Generation.** `gens[e]` is one execution of a coder's tool, `store[c][f]` a file under a component's prefix,
`cache` the `node_modules` directory that all backends of one sandbox with the same dependencies share. A component has
the file that makes it complete, another one the guardrails look at, and one they do not (`sample`). A file is
`good`, or wrong in one way: `illformed` (a static rule), `untyped` (the compiler), `flagged` (the guardrails); the
model's answer is any member of `Replies`. `Budgeted`, `Attempts` and `Merged` are where the three coders differ:
the api agent makes three attempts within `GEN_BUDGET_S` and merges a backend's correction onto what it rejected, the
other two make two and take an answer whole. Two executions may serve the same component (two attempts at one task, a
coder that was given up) or two components at once. `upload_dir` stores file by file.

**Interview, DraftRun.** A draft is one run and one session; what outlives it is in `pending` (the pending
clarifications file), `files` and `held` (the four objects of a spec version; `held` is the content of the fourth) and
the POC. A round is known by the run that asked it and by whether it was answered. The user starts drafts, with
answers to the questions last shown or without, forced or not, and retries a stale one. `Interview` has two variables
left: who asked the rounds that are still open, and whose spec is current.

**CloudLedger.** `cloud` is what exists, `ledger` what `cloud_resources` says, `sweep` the teardown under way.
`Operations(step, run, mode)` is the sequence of creations and registrations of a pipeline step; `Possible` has what
AWS and Atlas do with a second creation (the instance of a client token once more, also a terminated one; a user or a
secret is updated; a cluster refused). The reaper's sweep differs from the deploy agent's in that its run is never
set running and never finished. Rows are swept in the order they were registered in, which is the order the
collection returns them in when nothing was deleted.

**TestRun.** `box[r]` is the instance of deployment `r`: the code version that is unpacked, seeded, built, *running*
and served, and the Playwright report left on it. A test result is what it says (passed, or the component it
suspects) and the version it is about. `Fragile` names the components whose generated code may fail. Tests of
scope `all` only: no caller asks for another one.

**DeployRun.** `dep[r]` is what the run document keeps for the continuation: the code version, the first step not done
(`resume_step_index`), the callee in flight, the attempts per component, the verdict. `execs[e]` is an execution over
the nodes of the graph; a step is begun, carried out operation by operation and recorded, so that a kill can come
between any two of them. A callee is marked in flight, fired, and waited for by what its run says: that nothing appeared
within five minutes or ended within the ceiling is its `age`. `repairs[r, c, n]` stands for the code run of attempt `n`:
it starts, is refused because another one holds the slot, succeeds with a new version or fails (`CodeSystem` has it in
full). The test agent is the one of `TestRun`, the teardown that of `CloudLedger`. The user's habits are constants:
whether tests are asked for beside a deployment (`OnDemand`), whether a teardown is (`Overlap`), whether a run is
continued under an execution that is still at it (`Impatient`). `Resumable` is an index past the gate: the gate is the
only step that fails with an error that rules a continuation out (`agent_deploy_agent/pipeline.py:57`), and a run past
it has a step that succeeded, but for a kill between the two writes that end the step.

## 3. Properties and runs

| Run | Instance | Distinct states | Question |
|---|---|---|---|
| `run_store` | 3 runs, 2 stages | 7,501 | What does the store guarantee to anybody? |
| `code_open` | 2 runs, 2 executions, 2 tasks, 2 versions, 1 fault, contract + backend | 5.9 million | What does the code stage guarantee whoever calls it, whenever? |
| `code_timely` | 2 runs, 8 tasks, 2 versions, 2 faults, contract + backend + frontend, one tab, `Timely` | 705,025 | What holds if time behaves? |
| `code_adverse` | 2 runs, 4 tasks, 1 fault, contract + backend, two tabs, `Ambiguous` | 803,457 | What survives races between tabs and ambiguous invokes? |
| `code_live` | 3 runs, 5 tasks, 3 versions, 2 faults, one tab, fairness | 132,071 | Does a persistent user get a version in the end? |
| `deploy` | 1 deployment, 2 test runs, 1 execution, 1 tester, 1 repair attempt, 2 versions, 1 fault, fairness | 597,006 | Is what is served, and what is judged, one version? Does every execution end? |
| `ledger` | 3 runs: up to 2 deployments, 2 teardowns, 1 test, 2 executions, shared and flex databases, 1 fault | 2.1 million | Is what exists in the ledger, or on its way there? Which resources can be lost? Does a teardown release every row? |
| `draft` | 5 drafts, 2 faults, fairness | 181,205 | Are rounds bounded, answers kept, specs complete? |
| `generate` | 2 executions, contract + backend + frontend, 5 kinds of answers, 1 fault, fairness | 1.1 million | Is what is stored checked, complete and judged by its own faults? |
| `code_overwrite` | as `code_timely`, two steps | violated | Are versions never overwritten (decision D9)? |
| `code_ambiguous` | as `code_timely`, two steps, `Ambiguous` | violated | Is a raised invoke a start failure? |
| `deploy_cluster` | 1 deployment with a flex cluster, 1 teardown, 1 fault | violated | Does a teardown delete the cluster of a run that failed early? |

**For any client** (`run_store`, `code_open`). `OneActivePerStage`: no order of store operations leaves two active runs
of a stage. `ImplementsSlots`: seen through the slots, a write only acquires a free slot or releases one.
`ImplementsStore`: every write of the code stage to a run is one the store allows; an execution that writes for an
abandoned run is refused when another run has the slot (and otherwise brings its run back). `DoneIsInPlace`: a task that
says `succeeded` has its artefact in the version it was fired for, so that skipping its step is right.
`RecordedWasDone`: every step recorded on a run was delivered by a task of that run.

**If time behaves** (`code_timely`). `SingleDriver`, `OneCoderPerStep`, `FinishedStepStays`: kills, hand-overs, losses
and retries never give a run two executions, a step two coders, or a finished step a new task. `SuccessIsFinal`,
`CurrentMovesForward`: a succeeded run stays so, and the POC's current version never goes back.
`OnlySilentAbandoned`: what `_prepare_stage` saw still holds when `abandon_run` writes. `PublishedComplete`,
`PublishedCoherent`, `PublishedFrozen`: the published bundle has every artefact, its components were generated from the
contract beside them, and nothing under the published version changes any more; the last two as long as no two runs
were given the same version (`Unshared`), which disagreement (1) is about.

**If it does not** (`code_adverse`). With two tabs and ambiguous invokes a run does get two drivers. It still keeps the
version it planned with (`VersionFixed`), and what is published is still complete. The rest of `code_timely` is not
promised to two tabs: `abandon_run` checks the status and not the heartbeat again, so the slower of two tabs abandons a
live run that the faster one has brought back, and `OnlySilentAbandoned` is violated, although the docstring of Retry
says that a live run is "reported as already running" (`agent_chat_agent/main.py:292`).

**Disagreements.** (1) `next_version` reserves nothing, so a run that is killed before its first object is written and
the fresh run that replaces it share a version, and the coder the first left behind overwrites the second's artefact
(`code_overwrite`). (2) `start_invoke` raises for every status but 504, and the orchestrator closes the task, although
the coder may be at work; the Retry that follows starts a second one (`code_ambiguous`). (3) A flex cluster is
registered after `provision_poc_database` has returned. A run that is killed, or that times out waiting for the cluster,
after the POST (`atlas.py:120-128`) and before the registration (`pipeline.py:66-69`) leaves a cluster the ledger does
not know. Continuing the run does not mend it: the step begins with the POST again, which Atlas refuses from then on.
The teardown, "driven by the cloud_resources ledger alone", reports success and leaves the cluster (`deploy_cluster`).

**Generation** (`generate`). `StoredIsChecked`: a file in the store satisfied the rules as part of the whole component it
came with, and the guardrails if it is one they look at, and compiled unless the gate could not run; an answer is
merged before it is checked. The guardrails look at the extensions of `SCAN_EXTS` only and pass some directories by
(`guardrails.py:22-23`); `upload_dir` stores what they did not look at as well, which the third file stands for.
`SucceededIsStored`: a task marked succeeded has its component in the store, file by file. `GateBlamesCode`: good code
is refused only if something was cut short or another backend is made in the same sandbox. The exceptions are real: a
directory that a timed-out install left behind is taken for a finished one (`typecheck.py:119`), and code that compiles
is then refused, although lines 9-10 promise "skipped" when the gate could not run. `FilesKept`: a partial
correction never loses a file. `EveryGenerationEnds`: attempts are counted also when nothing could be read.

**Drafting** (`draft`). `AnswersKept`, `SpecFromInterview`: no round or answer is lost between two drafts until a spec
was made from it, although every round rewrites the whole file with what an earlier tool read. `CurrentSpecComplete`:
the current spec is four files by one draft. `ImplementsInterview`: the promise of `Interview`, over all drafts.
`SpecEventually`: a user who keeps coming back gets a spec, even if nothing is ever answered. The run assumes that
reading the pending file succeeds. It need not: `_load_pending_rounds` takes every error of the store for a missing
file (`agent_draft_agent/main.py:315`), and with `ReadErrors = TRUE` the checker finds `AnswersKept`,
`SpecFromInterview` and `ImplementsInterview` violated by one transient error. The model also assumes that answers are
given to questions newer than the current spec, since question ids (`q<round>-<n>`) repeat from interview to interview.

**Deployment** (`deploy`). `ServedCoherent`: a deployment that succeeded serves one version, through repairs, rewinds,
kills and continuations. `VerdictOfDeployed`: its verdict is that of a test run that read the manifest of this version
and met it answering. The API results only: a browser verdict can come from a report an earlier run left on the
instance. `NoAttemptTwice`: a repair is never asked for twice. `ImplementsStore`: all of deploy, test, teardown, chat
and reaper are operations of the store. `EveryExecutionEnds`: nobody waits for a callee that never comes.
Three cases are outside, each with a counterexample: with tests on demand beside a deployment (`OnDemand = TRUE`)
`VerdictOfDeployed` is violated, because a test run that began up to two minutes before the deployment asked for one
counts as the answer (`agent_deploy_agent/main.py:234`); with two executions of one run, which a second tab produces
(`Impatient = TRUE`) and a hand-over that raises although it was delivered, it is violated as well, and so is
`ServedCoherent`; and the user waits for a deployment before asking for a teardown (`Overlap`). `deploy` has one
execution at a time, so `Impatient` excludes nothing there.

**Resources** (`ledger`, `deploy_cluster`). `EveryResourceAccounted`: what exists is active in the ledger, or the newest
deployment, the one Retry continues, stands at a step that creates or registers it and can be carried out again
(`CanRegister`). What is neither is lost to every teardown, and the property says in which ways that can happen, each
of which the checker finds when its disjunct is dropped:

* `Superseded`: the deployment that was to register it failed first, and a newer one was begun in its place, after which the older
  one is not continued any more (`agent_chat_agent/main.py:511`);
* `Blocked`: the step is refused when it is carried out again. That is so once the flex cluster is there (disagreement 3),
  and where the instance was torn down before its address was registered, because the client token of the run then yields
  the terminated instance;
* `LetGo`: the database user of a flex cluster, which the sweep releases without deleting it (`atlas.py:183`).

`TeardownComplete`: a teardown that reports success left no row active. Both need a user who does not
deploy under a teardown (`Overlap = TRUE` violates them): a row registered behind the sweep's back stays, and what a
step has created but not registered yet the sweep does not find.

**Progress** (`code_live`). `EventuallyPublished` under these fairness conditions: the platform eventually delivers or
refuses an invocation that is not lost (weak); an execution that lives takes its next step (weak); a coder that lives
reads and marks (weak) and writes (strong); time passes, so a run without a driver falls silent and a task without an
outcome passes the ceiling (strong); the user approves the spec and keeps pressing Retry (weak). Nothing is assumed of
faults, of repairs, or of an execution's choices. The strong conditions are needed because a new invocation disables the
slow actions until it has been started, and time does not stop for that. The user's part is a real assumption: no agent
of the platform retries the code stage by itself.

**Bounds.** Two runs are enough for one to outlive another, for a retry to meet its predecessor's executions and coders,
and for a repair of a published version; two executions at once for a zombie beside its successor; two faults for a kill
during the recovery from a kill. `MaxTasks` is large enough that each planned step can be begun anew in `code_timely`
(three steps, two runs, two repeats). `code_live` has a third run and version so that the bound on runs does not stop
the user: the user starts afresh and the deploy agent asks for repairs only below `MaxFresh`, and Retry may always ask
for one more run, up to the bound. `CHECK_DEADLOCK` is off because the bounded system stops when its runs, tasks and
versions are used up.

`deploy` has one deployment, whose executions follow each other (hand-over or Retry), one tester, and one repair
attempt (the code has three): enough for a failed step, a failed test, a repair that succeeds or not, and a fault in
any of them. `Fragile` is the frontend, which fails in its build and in the browser. `ledger` leaves repairs out and has
deployments and teardowns follow one another: two deployments for rows and resources that outlive their run, two
teardowns for one after a half-finished one, two executions for one that still releases the POC while the next
deployment begins. `draft` has five drafts: three rounds, a spec and one more, two of which may go wrong. `generate`
has two executions, which is what it takes to share a prefix or a sandbox, and three attempts. Fairness there is weak:
what the platform has started takes its next step unless it is killed, and time passes; `draft` adds a user who comes
back and who retries a draft that is stuck, since `chat_call_draft` itself does not look for a stale run
(`agent_chat_agent/main.py:246`). `deploy` assumes nothing of the user.

Every property has a mutated form of a definition (kept beside the definition, "Mutated form of ...") that breaks it.

## 4. Proofs

`RunStore_proofs` proves for any set of run identifiers and any stages, from `StoreAssumption` alone:

* `TypeCorrect`: `Spec => []TypeOK`;
* `SlotExclusive`: `Spec => []OneActivePerStage`;
* `StoreRefinesSlots`: `Spec => ImplementsSlots`, the refinement that `run_store` checks on three runs.

`OneActivePerStage` is inductive together with `TypeOK`. The argument is one lemma, `ActivationSafe`: a step that
changes one document, and leaves it active only where `MayOccupy` allows, keeps the slots exclusive; and
`OperationActivates` shows that each operation is such a step (those that activate ask the index, a touch keeps a run
that was the only active one, the others leave the run inactive).
For the refinement, `HolderIs` says that the holder of a slot is the one active run of the stage, and each write then
keeps the holder, takes a free slot or frees one.

`CodeRun_proofs` proves, for any number of runs, tasks, versions, executions and faults, any build order and any
components, from `PlanAssumption` and `CodeAssumption`, for open clients:

* `CodeTypeCorrect`: `Spec => []TypeOK`;
* `CodeRefinesStore`: `Spec => ImplementsStore`, the refinement that `code_open` checks on two runs;
* `CodeSlotExclusive`: `Spec => []Store!OneActivePerStage`, from `CodeRefinesStore` and the store's `SlotExclusive`.

`TypeOK` is not inductive: which step a coder is fired for is read off the plan at the execution's index, the version
it writes to off the execution, what a repair carries over off the version it names, and nothing in the types says that
these are there. `IInv` adds it: a run that exists has inputs that `build_plan` accepts (`JobsPlannable`), a coder that
is not gone knows its version (`CodersPlaced`), and an execution at a node of the graph has what the node reads
(`ExecsPlaced`): an existing run, a version, an index into the plan, the task of the coder it fires. Each action but a
new run is shown to be a `Moves` step (one operation of the store, no run's inputs and no task's version changed), and
`ExecutionKeeps` does the rest once for all of them; `ProceedKeeps` is the same for the routing after a node.

The second half of `CodeRun_proofs` proves of the same specification:

* `DoneIsTrue`: `Spec => []DoneIsInPlace`;
* `RecordedIsTrue`: `Spec => []RecordedWasDone`.

The inductive invariant `Delivery` adds to `IInv` that a created task has a version and a step (`TasksPlaced`), that a
coder that wrote has its artefact in place (`WritersDelivered`), and that the task an execution fires, waits for or
closes is one of the step it is at, in place if it is about to be recorded (`Follows`). What it rests on is that
artefacts are only ever replaced (`CodeKept`): a repair copies into a version number under which nothing lies, and that
tasks keep their run, step and version (`TasksKept`). It holds without any assumption about time, also where two runs
share a version and where two executions drive one run.

`CodeSystem_proofs` proves of `CodeSystem`, however slow anything is, however ambiguous invokes are and however many
tabs are open:

* `SystemTypeCorrect`: `SystemSpec => []SystemTypeOK`;
* `VersionsAreFixed`: `SystemSpec => VersionFixed`;
* `PublishedIsComplete`: `SystemSpec => []PublishedComplete`.

Each step of the system is a step of the code stage for open clients, or passes the code stage by (`SystemSteps`), so
`IInv` and `Delivery` carry over. Under open clients the three theorems would be false: two executions of a run without
a plan could each store one. Here whoever asks for a run to be continued names one that has a plan (`MailSane`), so an
unplanned run has the one execution that created it (`Pioneers`), an execution works on its run's version (`Fit`), and a
task has the version of its run (`TasksVersioned`). `Built` then says what lies under a version: everything a repair
carried over, because a bundle that was made is complete; and every step of the plan before the execution's index,
because each was found delivered. `PublishedIsComplete` needs the third part of `PlanAssumption`, that a fresh build
makes every component (`FRESH_ORDER` does).

`CodeTimely_proofs` adds the timing assumptions, as `Punctual`: `Timely`, not `Ambiguous`, and one tab, which is what
the run `code_timely` assumes. For any number of runs, tasks, executions, invocations and faults:

* `OneDriver`: `SystemSpec => []SingleDriver`;
* `SuccessesAreFinal`: `SystemSpec => SuccessIsFinal`;
* `AbandonedWereSilent`: `SystemSpec => OnlySilentAbandoned`;
* `OneCoder`: `SystemSpec => []OneCoderPerStep`;
* `FinishedStepsStay`: `SystemSpec => FinishedStepStays`;
* `PublishedIsCoherent`: `SystemSpec => []PublishedCoherent`;
* `PublishedIsFrozen`: `SystemSpec => PublishedFrozen`;
* `VersionsGoForward`: `SystemSpec => CurrentMovesForward`.

*Carriers.* A run is carried by an execution that drives it or by an invocation that asks for it to be continued, and the
inductive invariant `TimelyInv` says that there is one carrier at a time (`OneCarrier`). It holds because carriers keep a
run from falling silent (`DriversBeat`, `RequestsFresh`), only a silent run is abandoned, and what a call saw of a
stale run still holds when it writes (`CallsStale`), nobody being there to wake the run up. A retry continues a run that
failed: its execution asks for nothing any more, and the tab has no second request under way.

*Tasks.* `Tasked` carries on from
there to the coders: an older task of a step has failed (`Ordered`), a task that failed or outlived its ceiling
has no coder at work (`TaskSane`), and since nobody else drives the run, what an execution saw of its step's tasks still
holds when it begins the next one or closes the one it waited for (`ExecSane`). With a second tab or an ambiguous
invoke these fail; `code_ambiguous` shows the second.

*Coherence.* Two invariants on top of those. `Ordering` says how far a run has come: an execution at a step of the plan
has every step before it succeeded (`Walked`), and a task is for a step of the plan, after the contract if its coder
reads the contract (`TasksPlanned`). `Coherent` then says, while no two runs share a version, that what is carried over,
being read or written is from the contract under the version, and that a bundle is what lies under its version and the
run that built it is done with it (`BundleTrue`). It is inductive because a succeeded step is not built again, so the
contract a coder reads is the one that stays, and because what a repair copies comes from a bundle and takes the
contract with it. A copy that has not been planned with is followed too (`CopyCoherent`), unless another run has planned
with the same version by then, in which case they are about to share it. `PublishedIsFrozen` is the step property from
the same invariant. Both need `OrderAssumption` of `CodePlan`: in both build orders the backend and the frontend come
after the contract, and a mismatch rebuilds the contract and both of them, as `FRESH_ORDER` and the plan of a
`CONTRACT_MISMATCH` do (`pipeline.py:12`, `pipeline.py:54-86`). A repair of one component keeps the contract, and then
builds what reads it from the one it kept.

*Forward.* `Chosen` is about the history: runs are counted (`Counted`), versions are reached without gaps
(`VersionsReached`), and a later run has no earlier version (`InOrder`), which is what counting the directories in S3
gives as long as one run is active and a run without a plan is the last one (`PlannersLast`). `Forward` adds that
whoever drives a planned run, or asks for it to be continued, is not behind the current version (`DriversAhead`,
`RequestsAhead`). The request for a failed run is the difficult case: its version may be older than that of a run begun
since. `RequestsLast` settles it: while such a request is under way no later run has a task that delivered, since a
delivery takes longer than an invocation (`Slow`), hence none has published; and the user asks only for the last run
(`CallsLast`).

`Generation_proofs` proves, for any executions, components, answers and number of faults, from `GenerationAssumption`:

* `TypeCorrect`: `Spec => []TypeOK`, with the bound on the attempts in it;
* `StoredChecked`: `Spec => []StoredIsChecked`;
* `SucceededStored`: `Spec => []SucceededIsStored`;
* `FilesAreKept`: `Spec => FilesKept`;
* `GateIsFair`: `Spec => GateBlamesCode`.

`StoredIsChecked` says of a stored file something about the execution that stored it, so the inductive invariant has
two halves: `Sound(g)`, what an execution at a given place has established of its files (past the rules, past the gate,
past the scan), and `Delivered` and `Uploaded`, what the store and the tasks owe to it. An execution that has begun to
upload is `Frozen`: its files and its gate's verdict no longer change, so what was stored earlier stays right.
`GateIsFair` is about the cache the executions share. `CacheHonest` says that, with no fault so far and one backend,
`node_modules` is there in part only while that backend is installing it and complete whenever tsc runs. A second backend
may come at any time, but the first does not leave (an execution that ended keeps its component), so the condition that
there is one is only ever lost and the invariant is inductive.

`DraftRun_proofs` proves, for any number of drafts and faults, from `DraftAssumption`:

* `TypeCorrect`: `Spec => []TypeOK`, and `SpecComplete`: `Spec => []CurrentSpecComplete`;
* under `ReadErrors = FALSE`, that is, if the store does not fail when the pending questions are read: `PendingKept`:
  `Spec => AnswersKept`, `SpecKeepsInterview`: `Spec => SpecFromInterview`, and the refinement
  `DraftRefinesInterview`: `Spec => ImplementsInterview`.

The argument of the first two is `Solo`: a draft at work has the one active run, and because its tools keep the
heartbeat nobody may abandon that run under it. So the version it allocated, above every version written, stays its own
(`Writes`), and a draft that asks had a round left (`Asks`). `Faithful` adds what the others need: a draft at work was
started after every other run (`Follows`), so after every round pending and, until it publishes, after the current
spec; and from the moment it loaded the interview until it overwrites the file, its rounds are those of the file with
the answers recorded there (`Recalls`). Without `ReadErrors = FALSE` that fails at the load (section 3): one failed read
drops the whole interview.

`DeployRun_proofs` proves of `DeployRun`, for any runs, executions, test agents, repair attempts, database modes and
faults, whatever the user does, from the assumptions of its modules (`DeployAssumption` and those it extends):

* `DeployTypeCorrect`: `Spec => []TypeOK`;
* `DeployRefinesStore`: `Spec => ImplementsStore`;
* `AttemptedOnce`: `Spec => []NoAttemptTwice`.

The inductive invariant `IInv` adds to `TypeOK` that an execution at a node of the graph has what the node reads
(`ExecFits`), a test agent the deployment and the run it works for (`TesterFits`), a succeeded test run an API result,
without which it would suspect no component (`DocFits`), and a sweep a teardown. `AttemptedOnce` rests on the order
of `repair_node`: `Attempted` says that what was ever fired has been counted in the run's document, and that what an
execution is about to fire is counted, was not fired before and is about to be fired by nobody else, because
`bump_repair_attempt` increments and returns the count in one operation of the database. That one execution drives a
run is not needed, so two that carry the same run are covered.

`DeployPatient_proofs` has what depends on the user's habits, each assumed only where it is used:

* `TeardownsComplete`: `~Overlap => (Spec => TeardownComplete)`;
* `ServesOneVersion`: `~Impatient => (Spec => []ServedCoherent)`;
* `ResourcesAccounted`: `~Overlap /\ ~Impatient => (Spec => []EveryResourceAccounted)`;
* `JudgesDeployed`: `~Impatient /\ ~OnDemand => (Spec => []VerdictOfDeployed)`.

*Teardowns.* While a sweep is at work no deployment is, so the rows that are active are those it has still to visit
(`SweepFits`). *Versions.* `Alone`: a run has one execution, which knows the step and the callee its document names, a
silent run has none, and a run that succeeded is at its end. `Served` then says what the instance and the
deployment.json hold once the steps before the document's index are done, and once the work of the step under way is. A
repair changes the version and the index in one write, back to before the first of those steps. *Resources.*
`CloudFits`: what exists is active in the ledger, or let go, or it is `Unfinished`: a deployment stands between the step
that makes it (`Made`) and the one it is due to be registered at (`Due`). It is kept because what a step has registered
so far is still active when the step is recorded (`Registered`), and because a row is released only once what it stands
for is `Gone`. `InstancesEnd` says that an instance whose row was released is gone for good. From the deployment that is
`Unfinished`, the theorem then decides: an older one is `Superseded`, the newest one can repeat its step or is
`Blocked`, and `RefusedFor` names the two creations that can be refused. *Verdicts.* `Verdicts` follows a test run from
its start to the verdict: what a test run of the deployment has read and seen is the present version or nothing
(`Good`), for every recent test run from step 12 on, hence for every one a wait would accept. It is inductive because a
version is only changed where no recent test run exists (`NoFreshTest`), since the minutes a repair takes have passed;
because of `Served`, which gives what a test run reads and sees then; and because nobody writes the results of a test
run that succeeded (`Closed`, `TestersApart`).

Every safety property that a passing run checks, invariant or action property, is thereby a theorem. Only model-checked:
the liveness properties `EventuallyPublished`, `EveryExecutionEnds`, `SpecEventually` and `EveryGenerationEnds` (fairness
is out of the prover's reach).

## 5. Not modelled

* Texts (prompts, logs, messages), the schemas of the contracts, and the configuration: no state, and nothing the
  properties tell apart.
* The control tower: it reads the database and posts to the chat agent. Its user is in `CodeSystem`, `DraftRun` and
  `DeployRun`; its polling, its queued message and its token are state of a browser page.
* Conversations, embeddings and the LLM loop of a chat turn: what a turn does to a stage is an action of the user.
* The token and workspace-id caches of the invoke client: per process, with one retry on a 401.
* Limits far beyond the use: `next_version` hands out `v1000` again and again once `v999` exists, and `list_prefix`
  stops at a thousand keys.
* The deploy stage and the code stage in one state space. `DeployRun` knows a repair by what it may come to, `CodeSystem`
  a deployment by the repairs it asks for.
* The expiry dates of ledger rows. The reaper of `CloudLedger` may come whenever a row is active and nobody is at work;
  in the code one expired row of a POC tears down everything the POC has, a deployment made since included
  (`reaper.py:53`).

What would add most: the composition of `DeployRun` with `CodeSystem`, on smaller instances of both; and a `DeployRun`
whose hand-over is ambiguous, with a weaker `ServedCoherent`.

# Formal model of the RWKV-LH runtime

RWKV-LH runs long projects with language-model roles: a Decision role directs, a
Planner writes contracts and reviews, an Executor works with tools, and a
deterministic runtime decides what any of them may do. This directory holds a
TLA+ model of that runtime, the TLC configurations that check it on small
instances, and TLAPS proofs of its main guarantees for every instance. Around the
project runtime, four more parts are modelled: the service that keeps the models'
recurrent States, with its journal and client; the collection of many task
executions by a pool of workers; the direct controller over the store of runs; and
the goal loop.

## 1. The system

Paths are relative to `src/rwkv_lh/`.

| Part | State it keeps | Operations | Talks to |
|---|---|---|---|
| Project ledger (`project_ledger.py`) | one SQLite row: plan, goal checks, check catalogue, task statuses, reports, receipts, acceptances, active and suspended assignments, candidates, pending operation, inbox, workspace digest, budgets | create, delegate, report_work, continue_current, yield_execution, accept_task, complete, propose/resolve plan, propose/resolve checks, begin/finish operation, finish_verification, invalidate, lease | called by the runtime; one transaction per call |
| Contracts and guards (`project_contracts.py`, `project_protocols/`) | none | validate_plan, work_items, affected_work, validate_work_check_replacements, permitted_directions, assignment_dependencies_resumable | read by ledger and runtime |
| Project runtime (`project_runtime.py`, `project_agent.py`) | process-local position only | run loop, _request, _consume, _tool, _verify, _planner_reads | ledger, models, tools, workspace |
| Workspace transactions (`project_workspace.py`) | original tree, isolated copy | isolated_workspace, publish_workspace (atomic exchange) | runtime |
| Record store (`project_record_store.py`) | content nodes, event chain | save, load, prune | below the ledger |
| Role sessions (`project_sessions.py`) | per-role anchor and candidate State | prepare, commit, roll back | native state service |
| Native state service (`inference/native_state_service.py`, the worker's store in `inference/vllm_rwkv_native_worker.py`) | handles of recurrent States, their tensors by store key, `request_lock`, the storage epoch | create, append, fork, generate, commit, rollback, import, release; the sweep of retired tensors | the journal, the engine |
| Native request journal (`runtime/native_request_recovery.py`) | SQLite: requests, their pinned inputs and results, State facts, retirements, keys to delete; tasks of this process | claim, run, look up, validate a release, queue and forget deletions | the service |
| Native request client (`runtime/openai_compat.py`) | the attempt and the confirmations of one call | post, query the receipt, resubmit | the service, over HTTP |
| Collection (`collection_campaign.py`, `collection_queue.py`, `collection_execution.py`, `collection_retirement.py`) | tables of the campaign, a queue file per batch, the failure streak, receipts and retirement plans on disk | admit, create and fill a queue, claim, execute, finish, reconcile, retire, acknowledge a recovery | a pool of worker processes, projects, native States |
| Direct controller and run store (`controller.py`, `store.py`) | the record of a run with its revision; a lease with an expiry | save with the expected revision, acquire and release the lease, recover, decide, act, last answer | models, tools; a supervisor in other modes |
| Goal loop (`stateful_goal_loop.py`, `goal_loop_protocol.py`) | nothing but the stored events of a run; plan, frontier, evidence, boundary and budgets are derived from them | plan patch, action, assignment, audit, stage review, final audit, resume | planner, executor, auditor, checker, finalizer |
| Parallel atoms and the contract graph (`atom_*`, `supervisor_openai.py`, ...) | budgets and workspaces of atoms | modes of the controller under a supervisor | processes of their own |
| Web manager (`web_ui.py`, `web_worker.py`) | runs and their processes | start, stop, resume | projects |
| Tools (`harness.py`), retrieval, launch checks, format adapters, training pipelines | files or nothing | file and command operations, ranking, validation, data preparation | runtime |

How the core interacts. One process holds the writer's lease of a project and
loops: choose the role to ask from the ledger's fields, charge the call, record
the intent, call, record the reply in the inbox, consume the reply. Consuming is
one ledger transaction, or begins an operation (a tool, a verification, a batch
of reads) whose outcome is recorded by a second transaction. Between any two of
these the process may die, and somebody else may edit the workspace.

What is hard about it:

* *Staleness.* Every write makes every receipt stale, for all tasks, including
  the proof of the worker's own dependencies. The guards must neither accept old
  proof nor lock out the worker that made it old.
* *Revision.* Plans and checks are revised while claims, receipts, acceptances
  and interrupted assignments exist. What must survive (obligations, check
  identities, the running contract) and what must fall (proof of everything that
  depends on a change) is decided by several guards together.
* *Crashes.* A call is reserved, begun, returned and consumed in four
  transactions; a tool exchanges two directory trees between two of its own. The
  goal loop derives everything from events, and can be killed after each.
* *Stale decisions.* A reply is checked against the boundary it was asked on.
* *Leases that lapse.* A controller that was suspended for longer than its lease
  goes on beside its successor, with an action of its own in the air.
* *Survivors.* A worker may outlive the runner that started it and write its receipt
  while the next runner reconciles the row it left behind.
* *Lost answers.* A request to the State service may take effect without an answer,
  and its service may die with the claim on record. Nobody may execute it again, and
  what it may have changed must not be decided anew.
* *Shared tensors.* Handles share the tensors of one key; retirement, sweep, pending
  requests and a crash between deletion and bookkeeping decide when they go.
* *Budgets.* Calls, work units and seconds are looked at in one step and charged
  in another, perhaps by several processes.

Properties that make each part correct:

| Part | What must hold |
|---|---|
| Ledger | verified work has a current proof and a standing acceptance; completion means all of it; receipts that are not stale are true of the recorded tree and contract; Decision always has a direction that advances |
| Contracts | checks are replaced only after they failed; an identifier names one check for ever; a changed contract voids its dependents; what is worked on is a standing contract |
| Runtime | a tree without a receipt is what the pending tool published; a tool starts once per reply; every run ends; budgets hold |
| Lease | the call budget holds over all processes; charged time is not given back while runs do not overlap |
| Native states | a live handle can always be loaded; what a pending request will read is kept; a candidate keeps its parent; tensors do not leak |
| Journal | a request is served at most once over restarts; its result and its State appear together; an unknown outcome freezes what it may have changed; every claim is resolved |
| Client | the service is the server it was written for; a verdict stands; every call ends |
| Collection | a task is executed once; a batch that is left behind is whole; a State is released only by a plan on disk; no new claim after a storage fault; every dispatch ends |
| Direct controller | what must happen once happens once; a recorded success has happened; no action before the earlier results are told; a completed run stands; every call ends |
| Goal loop | no action escapes judgement; completed work holds no stray change; a completed run is done, covered and reviewed; stages are barriers; a resumed run goes on; every call ends |

The hazards this code is exposed to are listed, each at its line, in
`PROJECT.json` under `hazards`.

## 2. The modules

```
ProjectContracts      pure contracts: plans, work, invalidation closure, replacements
      |
ProjectLedger  ......  Gate == INSTANCE ProofGatedDelivery   (abstract promise)
      |        \
      |         ProjectLedgerProofs
ProjectRuntime        |
      |        \------+---- ProjectRuntimeProofs
MCProjectRuntime   MCProjectLedger

RunLease ---------- RunLeaseProofs

NativeClient   ...  Journal == INSTANCE AtMostOnce  (used)
      |   \-------- NativeClientProofs
      |  Wire == INSTANCE NativeClient  (implemented)
NativeService ----- NativeRequestsProofs (also of NativeRequests)
      |
NativeRequests ...  Once    == INSTANCE AtMostOnce  (implemented)   MCNativeRequests

Collection -------- CollectionProofs           MCCollection
DirectController .. Log == INSTANCE ActionLog     (implemented)     MCDirectController
      \------------ DirectControllerProofs
GoalLoop ---------- GoalLoopProofs
```

* **ProjectContracts** translates `project_contracts.py` and the replacement rule
  of `project_protocols/planner.py`. A digest is collision free, so a contract or
  a check stands for its own digest; all wording of a task is one value, and so is
  the argv of a check. What the loops of `affected_work` and `validate_plan` compute is
  stated as such: the least closed set, and the absence of a set in which everyone
  waits. `expanded` and `ready` are one round of each loop; that the rounds end, and
  arrive at just that, is proved for all plans, and evaluated for all graphs of three
  tasks (`LoopsAgree`, an assumption of MCProjectRuntime).
* **ProjectLedger** has one variable per field of the row that a guard reads, plus
  the tree on disk and the transaction directory of a tool. Each action is one
  transaction, named after the method, together with its guards in `_consume`. A
  role is free: which command its reply holds is chosen when it is consumed.
  `SetReplyAside` stands for every malformed, unauthorised or refused command and
  for the expansion of a receipt: all of them clear the inbox and nothing else
  that a guard reads. `SharedSpec` adds `ExternalEdit`, a write by somebody who is
  not the project's worker.
* **ProofGatedDelivery** is the abstract promise: obligations, what is proven,
  what is accepted, and an outcome. `DeliveryIsGated` is its refinement mapping.
* **ProjectRuntime** is the loop of `run()`: where the process is (lost when it
  dies), the call and unit counters (durable), and the order in which ledger
  actions are issued. `Interrupt` is a kill, the wall-clock deadline or an error;
  `Start` is a restart with `require_recoverable`.
* **RunLease** abstracts a run to its accounting, and has several processes race
  for the lease, with a clock.
* **AtMostOnce** is what the journal promises to a client that may repeat itself.
  NativeRequests implements it (`RequestsAreServedOnce`), and NativeClient is written
  against it: the server there does what AtMostOnce allows, whenever it likes.
* **NativeRequests** is the service with its journal. A request makes at most one
  State, so a State is named by its request. `Claim` is `_claim`, one transaction;
  `Begin`, `Export` and `Complete` are the steps of a request that has `request_lock`
  and awaits the worker; `Retire` is rollback or release, which await nothing;
  `Refuse` and `Reject` are HTTP errors, recorded as results; `Break` is any other
  error. `BeginSweep` to `EndSweep` are `_collect_garbage`, which awaits the worker
  for each key, while claims go on. `Restart` kills the service between any two steps.
  A store key is the digest of what a State consumed, a sequence; equal texts give
  equal keys, and an import keeps the key of its origin.
* **NativeClient** is `_native_request` with `recover_native_request`: each attempt's
  POST is in the network until it arrives, also after the client gave it up; one that is
  lost never arrives. Of its server it relies on AtMostOnce, and on two more things: what
  has expired (a retired input, a State that was lost) stays so, and a request that was
  turned away for that is never claimed.
* **NativeService** puts the real service behind that client. Its callers prepare a
  request from the handles that are live, and post it; by the time a POST arrives, or is
  looked up, others may have decided, released or lost them. `Arrive` is `Claim`, or finds
  a record, or is turned away (`Retiring`, `Deciding`); `Replays` and `Lost` are
  `_recover_current_states`. `ServesTheClient` says that callers cannot tell this service
  from the server of NativeClient; its side of the composition is the `Next` of
  NativeRequests, which knows of no client.
* **Collection** composes three kinds of processes. The campaign (`campaign`,
  `current`, `admitted`, `recorded`, `deadline`) admits batches within the registered
  budget, creates and fills a queue, has a runner collect it and records the batch
  (`admit`, `next_batch`, `CreateQueue`, `FillQueue`, `finish_batch`). The runner is
  `dispatch`: `Start` reads the streak, `reconcile` settles rows left running, `claim`,
  `finish` and `Count` are its loop over the pool, with its locals `failures`, `stop`,
  `reason` and `active`. A worker executes one task and leaves a receipt after each
  stage: `Run`, `Evaluate`, `prepare_retirement` (the plan on disk), `release` (the
  service), `SaveRetirement`. `PoolBreaks` kills workers under a live runner; `Kill`
  kills campaign and runner with any set of the workers, the others live on;
  `Restart` and `AcknowledgeRecovery` are the operator. `started` and `faults` are
  history.
* **DirectController** is one run over the store: `run` is its row, `lease` the row of
  `run_leases`, and `stale` the controllers whose copy is behind the row, which is all
  that comparing revisions tells. Each controller has a place `pc`; every save that
  changes something kept is a step. `Begin` takes the lease, `Lapse` lets it run out
  under a controller that is still alive, `Kill` leaves it to expire. `Recover`
  and `Replay` treat an action found running by its contract: observations and
  idempotent mutations are performed again, an operation that must not be repeated is
  interrupted, unless its provider's answer was kept (`snapshot`). `StartAction`,
  `Perform`, `FinishAction` are an action; `CloseMenu` is the boundary after a repeated
  mutation; `AskLast` to `FailRun` are the last answer.
* **ActionLog** is what any number of controllers promise of a run together: a log of
  actions, begun one after the other and concluded once, success only after the effect,
  no second effect of what must happen once, and nothing after completion.
  `ControllersKeepALog` maps the row and the performed effects to it.
* **GoalLoop** is one run of the goal loop. The plan is a function of numbered steps,
  `evidence` completes them, `actions` with `observed` and `settled` is the history
  the loop derives its position from, `boundary` is the audit that waits,
  `reviewed`, `stageRepair` and `finalRepair` the outcomes of reviews, the counters the
  budgets. Its actions are grouped by the role that is asked (`Planner`, `Checker`,
  `Executor`, `Auditor`, `Finalizer`); each is one save, so `Kill` falls after any.
* **MC...** modules define the plans, checks, tasks, operations and batches of the
  instances. Operators whose comment begins with "Mutant:" are wrong versions
  of a definition; no specification uses them. They document which bug each
  property would catch (`PROJECT.json`, `mutants`).
* **...Proofs** modules hold the theorems of section 5. No module declares a
  `RECURSIVE` operator, so that theorems may use all of them.

Conventions. `None` is Python's None and an absent key. The status "absent" is a
key missing from `task_status`. A receipt's verdict of single checks is kept as
the set `failed`. `failures` is the set of (task, check) pairs for which some
receipt in evidence records a failure, which is all the replacement rule reads
from the evidence.

## 3. The runs

| Run | Instance | What it shows |
|---|---|---|
| `chain` | task b depends on a, one check each, two trees, one plan version, batches of one read, edits from outside | verified work is proven (`AcceptedWorkIsProven`) and so is a completed project (`CompletedIsProven`); receipts are current; Decision is never stuck; the ledger implements `ProofGatedDelivery` |
| `revise` | the chain, its second task checked or not; plans that reword, recheck, bind, drop, move or unprotect; three checks, also bound and replaced after the work | what is worked on keeps a standing contract with once-proven dependencies; identifiers keep their check; checks leave only after they failed; a change voids the proof of whatever depends on the task |
| `runtime` | the goal, nine calls, units of one call, two restarts | a tree without a receipt stays with the pending tool, its reply and its assignment, wherever the process dies; a tool starts once; unit overrun is bounded by restarts; every run ends; the loops of the contracts compute what their definitions say |
| `lease` | two processes, two calls, three seconds; kills and restarts | the call budget holds for all processes together; charged time never decreases as long as runs do not overlap |
| `native` | five requests, one text, tensors on disk, a restart; all operations but append | handles keep their tensors, also when they share a key; pending requests keep their inputs, candidates their parent; tensors are owned or queued; unknown commits and rollbacks freeze their State |
| `native_service` | three requests, one of them by a caller with two attempts; create, generate, commit and release, tensors in memory, errors, a restart | the service implements `AtMostOnce` and the client's server; every claim is resolved; verdicts stand whatever becomes of the inputs and however late a POST is; every call ends |
| `collection` | three tasks in two batches, a third batch that repeats a task; two workers, two failures in a row, one restart | tasks run once; batches left behind are whole; releases are planned; a fault stops the runner; every dispatch ends |
| `direct` | two controllers; a mutation, an operation that happens once, one with a snapshot; two actions, two calls, one lapse, limits of two | the controllers implement `ActionLog`, also beside a suspended one: once is once, successes happened; the model knows the earlier results; completion stands; every call ends |
| `goal_loop` | two stages, two obligations, two steps, two actions, two patches, two calls, eight transitions, limits of two | actions are judged; completed work is clean; completion is reviewed; stages are barriers; a resumed run goes on, below the limit on final answers; every call ends |
| `lease_race` (violation) | as `lease` | finding 1 |
| `collection_fault` (violation) | a batch of three | finding 2 |
| `goal_loop_resume` (violation) | one step and action, three rejected answers, three calls of `run()` | finding 3 |

The type invariants (`TypeOK`, `RunTypeOK`, `CollectionTypeOK`, `GoalTypeOK`, ...) are
in no configuration: those theorems that need them prove them for all instances.

Why these bounds are enough. Two trees suffice because the ledger only compares
a tree with another one: equal or not; with two, a write back to an earlier tree
is included. Two tasks in a chain give every relation the guards speak of
(dependency, dependent, unrelated when the second has none yet); a third task
would only lengthen the closure, which is declarative. Operation identifiers are
reused as soon as no acceptance holds them (`FreshId`), so two are enough.
`MaxVersion` bounds the plan revisions: one where the question is about work on a
standing plan, two where it is about revisions. `MaxReads` bounds a batch
of reads. Trees are symmetric in `chain`; `runtime` checks liveness
and uses no symmetry. `MaxCalls` of nine lets a run write, bind checks, verify
and accept, with a call to spare; `MaxRestarts` of two lets a unit overrun twice.

In the native runs a request makes at most one State, so the number of requests
bounds the length of a history: five hold two States of one key, an import, the release
of one and a request that races with it, or a State, two candidates and their decisions;
three are enough to have two wait for the lock that the third one holds. The keys a sweep
deletes are looked at only one by one and by membership, so their order is free. One
restart makes a request unknown; a second restart changes nothing for it (its owner is
then still not the process). Request names are symmetric in `native`; `native_service`
checks liveness and uses no symmetry. There two requests of others make the State the
caller names and then release, commit or branch off it, or the restart loses it, so an
input is found retired, being decided, and lost with the service. Rollback retires like
commit and release, and append adds a State like generate; `native` has rollback. One caller is enough: callers share nothing
but the service, and to each the others are requests like any. Two attempts let an
earlier POST arrive late, be claimed, and answer the later one's query.

In the collection, two slots let one task fault while another is in flight, the third
task is what must not be claimed then, and one restart brings a runner beside a worker
that outlived the last one. In the direct run, two calls are the most that can meet: the
controller that was suspended and its successor; a third would find the lease of one of
these. Two actions let the first be earlier than another one and let a limit of two fill.
`read` is left out because it differs from `mutation` in its limits only. In the goal
loop, two stages give a barrier to cross, a second patch a repair, and a second call of
`run()` everything that is derived anew; eight transitions are more than two actions,
two audits, two reviews and a final answer need. `goal_loop_resume` has one of everything,
enough turns to have three answers rejected, and calls of `run()` to spare.

Deadlock is not checked because the system stops: a project is completed,
blocked, out of budget or waiting for its owner; a service has nothing to do, a
call has ended, a campaign waits for a reviewer.

Fairness. `RunSpec` has weak fairness of `Work`, the union of the process's own
steps: as long as the process can take a step of its loop it takes one. The code
justifies it: the loop is sequential, every wait in it is a call that returns or
raises, and at the latest the wall-clock deadline ends it. Nothing is assumed of
`Start` (nobody must restart a run) or of `Interrupt`. The roles are free within
`Work`: a run ends whatever they answer, because every iteration pays for a call.

`FairSpec` of NativeRequests has strong fairness of `Serve(r)`: `request_lock` is an
`asyncio.Lock`, which wakes its waiters in order of arrival, so a request gets it
although it is taken again and again in between. Whoever holds it goes on (weak
fairness of `Proceed(r)` and `Sweep`): the worker answers or raises. Nothing forces a
client to send or the service to restart. `FairServiceSpec` of NativeService adds weak
fairness of each caller's own steps (`Call`), which the connect, read and recovery
timeouts justify: every wait ends, a recovery that is not over can always give up, and
every step leaves fewer to take. The network may do nothing at all.

Collection has weak fairness of the runner, which loops over `wait` on its pool, and of
each worker: a job has a wall-clock budget, and the release of its State a timeout.
Nothing is assumed of the campaign, its operator or the deadline. DirectController has
weak fairness of each controller and GoalLoop of its one: calls of models and operations
have time limits, and both loops are sequential. Kills, lapses and further calls of
`run()` are never fair.

## 4. Findings

1. `run()` reads the elapsed time before it holds the lease. A process that read it
   before another one stopped, and got the lease after, writes back less time than
   the ledger already charged. Run `lease_race`; `lease` shows that the code is
   right when runs do not overlap, and that the call budget, which is read under the
   lease, does not suffer.
2. After a storage fault `dispatch` fills the failure streak so that nothing is claimed
   before an operator acknowledges the recovery. A task that was in flight and ends well
   empties it again, and the next runner claims new work. Run `collection_fault`;
   `FaultsStopTheRunner` shows that the runner which saw the fault does stop.
3. `_block` records every blocked run as resumable by hand, and never as one that may be
   terminated. A run that is blocked because its final answers were rejected too often is
   not: a resume keeps their count, the work is done and reviewed, and the run is blocked
   again before anybody is asked. Run `goal_loop_resume`; `ResumedRunsGoOn` shows that a
   run blocked for anything else does go on, and `FinalLimitStays` (section 5) that this
   block is final for every limit.

Three more statements of the repository are false of the code. No configuration is kept
for them; each is defined beside its model, and TLC refutes it when it is put into the
named configuration as INVARIANT.

4. `BridgesNoFailure` (ProjectLedger, `MCLedgerChain.cfg`).
   `assignment_dependencies_resumable` decides from the *present* status of a
   dependency's receipt, but `invalidate` overwrites "failed" by "stale" at the next
   write. A dependency that failed its last verification and was written to and
   reported since lets the dependent resume without a new verification. The
   docstring and `docs/ARCHITECTURE.zh-CN.md:58` exclude failed dependencies. The
   final acceptance still needs current proof (`DeliveryIsGated` holds), so the
   consequence is work done on an unproven prerequisite, not a false delivery.
5. `NotRecordedLeavesNothing` (NativeService, `MCNativeService.cfg`).
   `RWKVRequestNotRecorded` is documented as proof that the request was never
   executed. Two queries without a record do not show that: a POST that is still on its
   way is claimed and executed afterwards. It stays harmless for a client that repeats
   the same name (`RequestsAreServedOnce`).
6. `RefusalsHoldWhileNeeded` (NativeRequests, `MCNativeDisk.cfg`).
   Every HTTP error is recorded as the result of its request, also a refusal that
   holds only for the moment. A release is named by the digest of its payload, so the
   same release gets the old refusal back when the State has become free.

Beside these, the models show histories that no statement of the repository excludes:

* *Ledger.* After an edit from outside every decision is refused until a verification or
  a review records the new tree: that is why `DecisionIsNeverStuck` speaks of a recorded
  tree. In a project of one process the loop does that before it asks.
* *State service.* `generate` accepts an undecided candidate as parent (append refuses
  one), and `rollback` does not ask whether another candidate branches off the State it
  drops. The child can then be neither committed (its parent answers 410) nor rolled back
  (the claim refuses a retired input), and its tensors stay. `ModelSession` branches only
  from committed States, so only other clients can get there.
* *Collection.* A crash after the first receipt leaves a sealed run whose State is never
  retired; a queue file that was created and not filled leaves its campaign in review.
* *Goal loop.* A step with a stray or interrupted command can never complete its
  revision; only a patch gets past it. A crash between the
  rejection of a final audit and the resolution of its boundary counts the rejection
  twice; one between the accepted reply and the start of its action loses the decision,
  and the executor is asked again; one between the READY resolution and `run_completed`
  has the finalizer asked again. A stage that was sent to repair is reviewed again only
  when its steps change.

## 5. What is proved

TLAPS proves the theorems for all values of the constants: any number of tasks,
plans, checks, trees, versions, calls, requests, workers, controllers and restarts. They
assume what the modules assume of their constants: the goal's identity is not a task's
(the code reserves it), plans and checks are well-typed, there are two operation
identifiers, `None` and `Nobody` are not values, limits are positive numbers, an
inventory names each task once. Every safety property of a passing run is proved, and so
is every refinement.

*The inductive invariants of the ledger* (ProjectLedgerProofs). The safety
properties are not inductive by themselves. `AcceptedWorkIsProven` needs
`ReceiptsAreCurrent` (a receipt that still says passed was not outlived by a
write), and both need to know that a task being worked on has lost its proof and
its acceptance (`ActiveIsExecuting`: the active assignment's task is "executing"; a
suspended assignment is filed under its own task), and that while a verification
is awaited the claim it verifies is still submitted, has checks, and nobody works
(`OperationsStand`). Together they are `IInv`: a step lemma per group of actions, then
`Inductive == IInv /\ [Next \/ ExternalEdit]_vars => IInv'`.

Revisions need a second invariant, `RInv`, over `IInv`. Candidates are validated when
they are proposed and not when they are accepted, so `CandidateStands` says that what was
shown then still holds; `WorkStands` that dependencies are work and acyclic, which makes
the closure of a change closed under dependents; `AssignmentsStand` and `BridgeStands`
that an assignment whose dependency has a stale receipt was once delegated on its proof;
`ChecksKeepTheirIdentity`; and `DecisionIsAlone` that Decision is asked only when nothing
is proposed and nobody works. `Revises(A)` describes what accepting a plan or checks does
to everything in the closure A and outside, and the step lemmas of both acceptances go
through it.

| Theorem | Statement |
|---|---|
| `TypeCorrect`, `AcceptanceIsProven`, `ReceiptsCurrent`, `CompletionIsProven` | `SharedSpec => []` of `TypeOK`, `AcceptedWorkIsProven`, `ReceiptsAreCurrent`, `CompletedIsProven`: also with outside edits at any time |
| `LedgerIsGated` | `SharedSpec => DeliveryIsGated`. Each step is an abstract one or a stutter; needs `IInv`, and that a candidate plan has work |
| `DecisionAlwaysHasADirection`, `AssignmentsAlwaysStand`, `ChecksAlwaysKeepTheirIdentity` | `SharedSpec => []` of `DecisionIsNeverStuck`, `AssignmentsStand`, `ChecksKeepTheirIdentity` |
| `RevisionsAlwaysVoidProof`, `ChecksLeaveOnlyAfterFailure` | `SharedSpec =>` the action properties `RevisionsVoidProof`, `ChecksAreNotWeakened` |
| `RunsCompleteProvenWork`, `RunsKeepThePromises` | `RunSpec =>` `CompletedIsProven`, the refinement `DeliveryIsGated` and the other safety properties of the ledger |
| `ExpansionComputesTheClosure`, `ExpansionEnds`, `ResolutionFindsCycles` | for every plan: where the loop of `affected_work` stops it holds the least closed set, after at most one round for each task; the topological validation leaves a task waiting exactly if the plan has a cycle |
| `UnrecordedTreesStayClaimed` | `RunSpec => []UnrecordedTreesAreClaimed`, from `ToolsAreCarried` (a pending tool has its assignment, its reply in the inbox, and a process in the operation or none) and `TreesAreTools` (a tree changes before its receipt only while a tool is pending, and published) |
| `ToolsStartOnce` | `RunSpec => ToolStartsOnce`, from `StartedIsSpent`: the reply whose tool was started is with that tool or gone |
| `BudgetsHold` | `RunSpec => [](RunTypeOK /\ UnitOverrunIsBounded)`, from `UnitHasRoom`: at the beginning of an iteration with the executor in control the unit has room, counting one call for each restart |
| `CallsAlwaysStayInBudget`, `SoleRunsKeepTime` (RunLeaseProofs) | the owner of the lease holds it, a request on its way has room in the budget, a sole run knows all charged time, clocks do not run back |
| `TensorsAreAlwaysKept`, `CandidatesAlwaysKeepTheirParent`, `TensorsAreAlwaysOwned`, `UncertainStatesStayFrozen`, `RequestsAreAlwaysServedOnce`, `ClaimsAreNeverOrphaned` (NativeRequestsProofs) | from `ServiceInv`: types, what each stage of a request has done, who holds the lock, what States are made of; a candidate's key is its own until it is committed, so that no sweep takes it; what a request needs keeps its tensors against a sweep already under way; at most one request changes a State; a load finds what it was promised |
| `ServiceServesTheClient` (NativeRequestsProofs) | `ServiceSpec => ServesTheClient`, from `LineageStands`: what a caller named was recorded, and so were its parents; an answer comes with its State. So what is gone for a caller stays gone (`GoneStays`), a restart included, and what arrives too late is never claimed |
| `ServiceVerdictsStand` (NativeRequestsProofs) | `ServiceSpec => []VerdictsStand`: the theorem `VerdictsAlwaysStand` of NativeClientProofs, instantiated. Its `ClientInv` says that what was returned is done on record; what was reported as failed is refused, or its input or State has expired. Such a request may have been executed, but its State is gone, and none appears later |
| `TasksRunOnceAlways`, `RecordedBatchesStayWhole`, `ReleasesArePlanned`, `FaultsStopClaims` (CollectionProofs) | batches share no task and rows exist only in a filled queue; a task that nobody claimed has left nothing anywhere; from its claim on, its receipt, outcome and result agree on the trace |
| `OnceActionsAlwaysRunOnce`, `SuccessesAlwaysHappened`, `ResultsAreAlwaysTold`, `CompletedRunsStand`, `ControllersAlwaysKeepALog` (DirectControllerProofs) | a save succeeds only for the controller whose copy is the row, and makes every other copy stale: what is known of the row is known to the controllers that are not stale; the effects of an action are counted by who may still perform it; so each save is a step of the log or a stutter |
| `ActionsAreAlwaysJudged`, `CompletedWorkStaysClean`, `CompletionsAreReviewed`, `StagesStayBarriers`, `ResumesGoOn`, `FinalLimitStays` (GoalLoopProofs) | from `GoalInv`: only the last action may be open, and it was chosen for the work that is next; the place of the controller says what was judged and reviewed; plans change, and the finalizer is asked, only when nothing is open; a call of `run()` begins with no turn taken, so a resumed run has somebody to ask, and at the limit on final answers nobody |

*The contract loops* are iterations, and the prover instantiates no theorem of induction.
Their rounds are a function of `0..k`; what must hold of every round is proved by looking
at the least round where it fails (`LeastNumber`, from the well-foundedness of the
naturals), which the round before it contradicts.

*Why the loops end.* Liveness under fairness, and ENABLED, are beyond the prover. What a
proof of it rests on is not: a quantity that every step of the process lowers, in an
order without infinite descent, whatever the roles, the workers and the network do. Each
is a vector of natural numbers in lexicographic order, and each theorem also says that
its numbers stay natural, so that no counter runs below zero.

| Theorem | What every step leaves less of |
|---|---|
| `RunsStayBounded` (ProjectRuntimeProofs) | the calls left in the budget; the stage of an iteration; the reads left of a batch; how far a tool is published |
| `DispatchesStayBounded` (CollectionProofs) | what is not claimed; whether the runner still claims; the jobs in flight, never more than `concurrency`; its place. Expiry, workers and a broken pool raise none of them |
| `CallsStayBounded` (NativeClientProofs) | the attempts left, the stage of an attempt, the confirmations and answers left; the server need not do anything. Each attempt is posted once |
| `CallsStayBounded`, `StepsStayBounded` (DirectControllerProofs) | of one controller: its phase (recovery, the loop, the last answer); its turns; the calls of the model it may still lose in a row; its place. No step of another controller gives anything back |
| `TurnsStayBounded`, `StepsStayBounded` (GoalLoopProofs) | of one call of `run()`: its phase; its turns, at most one more than `max_transitions`; its place; the calls of a role it may still lose in a row |
| `ClaimsAreNeverOrphaned` (NativeRequestsProofs) | of whoever holds `request_lock`: its stage, the keys a sweep has before it, those still stored. A claim of this process has a task that carries it, so that nobody waits for what nobody does; `gc` and the recorded States are finite, which a sweep needs. No step of anybody else touches lock or store meanwhile, but a restart, which frees the lock |

That a process which can take a step does take one is the fairness of section 3, and
stays with TLC: `RunsEnd`, `ClaimsAreResolved`, `CallsEnd`, `DispatchEnds`,
`ControllerEnds` and `RunEnds` are only model-checked.

## 6. What is not modelled, and why

The map names the lines the definitions translate: about a twelfth of the repository. The
rest is mostly code without protocol state (tools, prompts, rendering, parsing, training
and State tuning, retrieval, launch checks), and, as the one large part with such state,
the modes of the controller under a supervisor.

* What models answer and what tools do: free choices. Wording, prompts,
  rendering, evidence cursors and feedback text: they change what a role reads,
  never what a guard decides.
* Digest collisions, SQLite's own atomicity, and the event chain: relied on.
* Fields the guards do not read (timestamps, generation accounting, progress).
* In the State service: prefill and sampling; the worker's cache of resident tensors,
  which may evict at any time, so that every use may have to load from the store; `fork`,
  which differs from `append` only in its digest; the trimming of the disk store, which
  is off when a journal is required (capacity 0); weight updates, which clear all
  tensors and ask their caller to quiesce first; the capacity of the memory store (a
  failed write is `Break`); the digests that detect a damaged journal.
* Role sessions: their prepare, commit and rollback are sequences of requests of
  NativeRequests. A crash within leaves the pending model operation of the ledger, whose
  project never moves again by itself: `require_recoverable` refuses it, the guard of `Start`.
* In the collection: acceptance tables, the conversion of traces, the digests of jobs;
  the agent batch, whose jobs share nothing.
* In the direct controller: contract graphs, parallel atoms, the tool selector and the
  audits of a supervisor, which rest on the same lease, save and recovery; whether a run
  is a goal or bounded is chosen when it is created.
* In the goal loop: what the roles are given (facts, feedback, selector progress, prompt
  budgets) and the supervisor's cache, which repeats a reply it has already validated.
* The web manager and the start of processes: input and output around the leases above.

What could follow, in this order: the supervised modes with their parallel atoms over
DirectController; and role sessions as a composition of the ledger with AtMostOnce.

# Scriptase engine in TLA+

Scriptase turns a project (a script, a podcast, a documentary) into media by
running *workflows*: directed graphs of nodes whose adapters call language,
speech, image and video providers. The part of the repository with logic of its
own is the Python engine under `scriptase/engine/`, and above it the production
jobs (`scriptase/jobs/`) and the asynchronous provider jobs
(`scriptase/providers/`). This directory holds the TLA+ model of that engine,
the TLC configurations that check it, and the TLAPS proofs about it.

Run from this directory: `tlc -config manager_single.cfg MCExecutionManager`,
`tlapm ExecutionManagerProofs.tla`, and so on. `PROJECT.json` lists the runs,
the source lines of each definition, one mutant per property, the hazards and
the findings. Paths below are relative to `src/`.

## 1. Inventory

| Component | State it keeps | Operations | Hard behaviour |
|---|---|---|---|
| **Execution manager** `scriptase/engine/execution.py` | `active`, `_project_queues`, `_ready_projects`, `_running_projects`, `_running_count`, `_paused_reservations` (all under `_queue_lock`); execution and queue documents on disk | `start`, `stop`, `cancel_pending`, `pause`, `resume`, `approve`, `reject`, dispatch, worker exit, restore of paused reservations | requests read documents *without* the lock and act on them later; admission inside nested calls; a kill between any two documents |
| **Approval checkpoints, resume state** `engine/approval.py` | one checkpoint document per approval, one resume state per execution | create, decide (one section under `_LOCK`), expire on read, save, delete | two decisions racing; expiry racing an approval; checkpoint, resume state and execution are three writes |
| **Startup reconciliation** `engine/reconciliation.py` | none; repairs what is on disk | fail in-flight executions, queue documents, jobs; clear locks and staging | which of several documents was written before the kill |
| **Workflow scheduler** `engine/scheduler.py` `WorkflowScheduler` | per node status, outputs, attempts; `completed`, `remaining`, `ready`, `running`; flags; execution record | the coordinator loop, one thread per node, retries, cache, checkpoints, pauses, seeding from a resume state | results in any order and in batches; draining; exclusive nodes; what survives a pause |
| **Project lock** `engine/scheduler.py` `ProjectLock` | the lock file of a project, the process's `_held` set | acquire, reclaim, release, clear at startup | several processes on one output directory; the file is created before its owner is written; check and unlink are two steps |
| **Node cache** `engine/cache.py` | cached outputs by fingerprint | lookup, store, evict | a store may fail; a lookup may hit after a pause |
| **Event streams** `engine/events.py` | ring buffer per execution, subscribers | publish, replay, subscribe | gaps, the 64 broker limit |
| **Production jobs** `scriptase/jobs/` | one Job document (status, linked execution, spending), one lock per Job in `update_job`, a finalizer thread per order | `start_job`, link, sync from the execution, approve, resume, pause, reject, retry, finalise, reconcile | every route reads the Job without a lock, looks at the execution, writes later; a finalizer gives up after an hour; two starts; a kill between an end and its sync |
| **Asynchronous media jobs** `scriptase/providers/media_jobs.py`, `engine/adapters/media_job.py`, `modules/image/jobs.py` | live jobs in memory, `media_job.json`, the scene manifest, a cancellation token, a batch thread for a direct provider | run, poll, apply, save, time out, cancel callback, push, resume | worker, batch thread, push and cancel callback write the same status; files and memory are written one after the other; a late batch |
| **Provider fallback, selection, concurrency** `scriptase/providers/fallback.py`, `concurrency.py` | the units accumulated so far, semaphores | try the providers of a chain, keep what each brought, hand the rest on | one provider that raises after it produced; a failed unit handed on |
| **Review gates and repair** `scriptase/review/`, `jobs/orchestration.py` | ReviewIssues with their attempts, credits charged to the Job | plan, decide, repair, charge, review again, carry the attempts | a defect that returns as a new issue; a plan made from a snapshot; a credit read, then written |
| **Schedules, watch folders, webhooks** `engine/scheduled_runs.py`, `watch_folders.py`, `webhook_triggers.py`, `channels/cadence.py` | next fire time, seen files | turn a clock or an event into one start | a missed or doubled fire |
| **Registry, settings, secrets** `scriptase/providers/` | configuration documents | read, write | none spanning two operations |
| **Node types, validation, expressions** `engine/` | none | pure functions of a workflow document | - |
| **Artifact library, index, archive, collector** `engine/` | index files | promote, index, collect | partial promotion |
| **Media modules** `scriptase/modules/` | none | adapters | long calls |
| **HTTP routes, frontend** | none | translate requests | - |

### How the parts interact

A request thread calls the **manager**. `start` writes an execution and a queue
document, appends a handle to its project's queue and calls `_dispatch_locked`,
which admits at most `max_global_workers` executions and at most one per project.
Each admitted execution has a pool thread (`_pool_worker`, `_run`) that builds a
**scheduler**. The scheduler takes the **project lock**, runs its node threads
and writes the execution document. At a configured checkpoint, or on a user
pause, it drains, writes a **checkpoint** and a **resume state**, and returns;
the pool thread then releases its slot (approval) or keeps it as a reservation
(user pause). `approve` and `resume` build a new handle for the *same* execution
id, whose scheduler seeds itself from the resume state. On startup the
**reconciliation** restores the reservations and fails whatever was in flight.

A node that generates images or clips runs `run_manifest_job` on its node
thread: it submits to a **provider**, polls the scene manifest that the provider
fills from a thread or a process of its own, and saves what it learns in
`media_job.json`. When a provider leaves units open, `run_with_fallback` asks
the next of the **chain** for them. The scheduler sees one answer of an adapter.

A **Job** stands above an execution. `start_job` starts one and links it; each
order that lets it go on leaves a **finalizer** thread that waits for the
execution, **syncs** the Job from it and, when it ended, drives the **repair
cycles**. Between the orders the Production view polls, and each poll is a sync.

### What makes each part correct

* Manager: the pool counts every thread and reservation; no free slot beside a
  dispatchable run; no run without somebody to move it; a status that follows
  the documented life cycle; a pause point that is really on disk; a run that
  goes on only after an approval, once; under fair threads every run settles.
* Scheduler: exact dependency counts over skips, batches and resumes; no node
  runs before its data is there; exclusive nodes run alone; nothing behind a
  checkpoint runs before it is approved; settled work is neither repeated nor
  lost; "succeeded" means everything is done; the loop ends.
* Project lock: one holder per project among all threads and processes; no file
  and no key without an owner; a crash never blocks the project for ever.
* Media jobs and fallback: a verdict that claims no more than its units; a status
  that stays once it is terminal; a unit that stays once it is known; a record on
  disk that is never ahead of the worker; a run that ends whatever the provider
  does.
* Jobs and repairs: an end that no stale sync takes back; every rest and end of
  the execution reaching the Job; a defect repaired a bounded number of times
  under whatever issue it returns; no repair for which the spending so far leaves no
  room; orders and drivers that end.

## 2. Modules

| Module | Models | Role |
|---|---|---|
| `ExecutionLifecycle` | the status transitions the engine promises (`plans/contracts.md` 1.5, 11) | abstract specification |
| `ExecutionManager` | manager, approvals, durable documents, reconciliation | detailed specification; implements `ExecutionLifecycle` |
| `MCExecutionManager` | - | instances, symmetry, view |
| `ExecutionManagerProofs`, `ExecutionQueueProofs`, `ExecutionApprovalProofs` | - | theorems |
| `WorkflowScheduler` | one execution of a workflow over all its pauses and resumes | detailed specification |
| `MCWorkflowScheduler` | - | six small workflows |
| `WorkflowSchedulerProofs` | - | theorems |
| `ProjectLock` | lock file, `_held`, reclaim, startup cleanup, failing file operations, kills | detailed specification |
| `MCProjectLock` | - | instances |
| `ProjectLockProofs` | - | theorems |
| `GenerationPromise` | what the caller of `run_manifest_job` is promised | abstract specification |
| `MediaJob` | one media job: worker, provider, manifest, record, push, cancel, deadline, kill | component |
| `ProviderFallback` | the loop over the chain, composed with `MediaJob` | detailed specification; implements `GenerationPromise` |
| `MCProviderFallback` | - | the chains |
| `ProviderFallbackProofs` | - | theorems |
| `JobRun` | Job document, orders, sync, finalizers, restart | component; takes the actions of `ExecutionLifecycle` for the engine |
| `JobRepair` | repair cycles, composed with `JobRun` | detailed specification |
| `MCJobRepair` | - | instances |
| `JobRepairProofs`, `JobLimitsProofs` | - | theorems |

The manager treats the inside of a scheduler as a choice (it ends, raises, or
drains to a durable pause); the scheduler module treats the manager as the
operator that stops, pauses and continues it. They meet at the same operations:
`Commit` of the manager is `EnterApproval`, `EnterPause` or `Conclude` of the
scheduler, and `Resume` of the scheduler is `ApproveSave`/`ResumeSave` followed
by an admission. `ExecutionManager` uses the project lock only inside one
process, where `ProjectLock` shows `_held` alone decides.

`JobRun` does not repeat the manager: it instantiates `ExecutionLifecycle` over the
executions and takes its steps as the engine's. That is as good as the manager
itself for everything a Job reads, because the manager with one operator implements
`ExecutionLifecycle` (the theorem `ImplementsLifecycle`, checked by `manager_single`;
with two, a cancelled run can be revived, see section 5; `JobRun` leaves that out). A
whole run of `ProviderFallback` is one `Answer` of an adapter in `WorkflowScheduler`.

### ExecutionManager: state and steps

* `doc[e]` is the pair of documents of an execution: `status` (execution
  document), `queue` (queue document), `approval` (the checkpoint it names) and
  `resume` (which run wrote the resume state on disk). `partial` is folded into
  `succeeded`: both are terminal and nothing tells them apart here.
* `handle[h]` is an `ActiveExecution` with the execution and queue *records in
  memory*, which is why `rec`/`qrec` are separate from `doc`, the two events
  `stop` and `pause`, and the place of its pool thread.
* `request[r]` is an HTTP thread in the middle of an operation, with what it has
  read so far. The steps are exactly the lock sections and document writes of the
  code, in its order: e.g. `approve` is `ApproveRead`, `ApproveExpire`,
  `ApproveDecide`, `ApproveSave`, `ResumeRegister`, `ResumeSpawn`; `stop` of a paused
  run is `StopRead`, `CancelPaused`, `CancelMirror`, `CancelRelease`.
* `_dispatch_locked` is a loop under the lock: `DispatchNext` per admission and
  `DispatchDone`; no other section of `_queue_lock` runs meanwhile
  (`dispatching`), but document reads and writes do.
* `Crash` loses memory and keeps the documents; `Restore` and `Reconcile` are the
  two parts of a startup before requests are served.

### WorkflowScheduler: state and steps

* `ledger` is the coordinator's bookkeeping, with the code's names. `Poll`,
  `Skip`, `Submit`, `EndSubmit`, `Collect` are the parts of one turn of the loop;
  `EnterApproval`, `EnterPause`, `Conclude` are its three exits, `Raise` the
  exception path through `_run`.
* Each node thread has its cache lookup, its attempts, the adapter's answer and
  its backoff as separate steps, and the operator's events are read where the
  code reads them.
* `Resume` is `_seed_from_resume` together with what `_decide_and_resume` changes
  in the workflow (the approved node leaves `approval_checkpoints`). `attempts`
  are kept in the execution record over a pause, as in the code; `errors` are
  not.
* The workflow is a parameter, a record of what the loop reads. Outputs are the
  set of ports that carry a value. Connections between the same two ports are one
  edge. A successful adapter always yields a value on `out`, or on one of `out`
  and `alt` when outputs are conditional. A cache fingerprint is reduced to
  whether the lookup hits.

### ProjectLock: state and steps

* `file` is the lock file: absent, created and still empty, or naming its
  process. It remembers which `os.open` created it, because a thread goes on
  writing into a file that somebody unlinked. `os.open(O_CREAT | O_EXCL)` and the
  JSON are two steps, as are the staleness check and `os.unlink`.
* A process is an incarnation with a pid of its own (`is_pid_alive` calls itself
  best effort where pids are reused); `held` is the set of processes whose
  `_held` has the key. `Die` ends a process with its threads and leaves the file;
  `Launch`, `ClearList`, `ClearInspect`, `ClearUnlink` are a new one up to the point
  where it serves requests.
* `faulty` are the processes in which an operation on the file failed. Two exits
  of the code leave something behind then: an error in the *second* attempt keeps
  the key (`scheduler.py:270`), and a failing `fsync` keeps a file that names a
  live process. `FileHasOwner`, `HeldHasOwner` and `StartupClears` exempt these
  processes and hold for all others; `OnePerProcess` and `OneHolder` exempt none.

### MediaJob and ProviderFallback: state and steps

* `jobs[r]` is the status of the `LiveJob` object of rung `r` of the chain, with the
  `prior` units it was given; `live` is the store's registration of it. They are
  separate because the object outlives its registration: `_timeout` and the cancel
  callback still assign to it. A status is a state and the units it knows.
* `worker` is the thread in `_await_terminal`: `Submit`, `Register`, then `Sleep`,
  `StartPoll`, `Poll`, `Apply`, `SavePolled`, with `Timeout`, the poll failures and the
  two ways of noticing a stop. `ApplyStatus` is `apply_status` under the store's
  lock, `MergeUnits` its merge, `RederivedState` the verdict it derives again.
* `manifest` is the scene file. Each provider's poll is `ManifestStatus` of it. A
  direct provider writes it from a batch thread (`BatchScene`, `BatchRecord`), the
  extension by its routes (`ExtensionRecord`, `ExtensionDone`), a remote service
  elsewhere. A later submit seeds the same file again (`Seeded`), and the batch
  thread of an abandoned rung writes on into it, as in the code.
* `token[r]` is the cancellation token of a rung. Whoever first sees the stop runs
  the callback, which looks the job up, assigns and saves in three steps
  (`CancelGet`, `CancelAssign`, `CancelSave`), possibly on the batch thread while the
  worker has already raised.
* `Crash` keeps the files; `Resume`, `ResumeEnded` and `ResumeOrphaned` are the
  three answers of `resume()`, which knows one provider and not the chain. A
  resumed run therefore ends without fallback (`AfterKill`).
* `Advance`, `AdvanceOnError`, `Return`, `Raise` and `Cancel` are the turns of
  `run_with_fallback`. A chain of one is the path without it. `filter_request_units`
  returns a storyboard or animation request unchanged, so each rung is asked for
  every unit and the prior units are merged afterwards.

### JobRun and JobRepair: state and steps

* `job` is the Job document, `execution` the statuses of the execution documents,
  `generated` how many of its nodes hold a generation in their records (one per
  provider node that succeeded, `engine/cost_snapshot.py:137`), `thread` what each
  server thread is doing. A sync is `SyncRead`, `SyncWrite`, `SyncReload`: it reads the Job
  and then the execution without a lock (one step: the execution is read last, and
  the Job matters to the write only through whether it had ended), writes under
  the lock, and writes an end again when the Job does not show it.
* An order is `Begin`, a sync, `Continue`, `Reject` or `PauseRun`, and `Mark`. The
  thread of the request then becomes the finalizer it leaves behind; one thread
  fewer is alive, none of its steps is lost. Polls run on any idle thread.
* `Restart` is the kill and the startup: the life cycle's `Recover` for the
  executions, then `reconcile_jobs`.
* `JobRepair` has one step per document access of a cycle. The plan is a snapshot
  (open issues, their attempts, the spending) and its decisions are taken one by
  one when they are applied, from that snapshot: severity, confidence, mode and
  graph only choose among repair, accept and escalate, so each is allowed.
  `Regenerate` is the execution of the node and the read of the credit, `Charge` its
  write, `Review` and `Carry` the second opinion and the attempts it inherits.
* Generations are counted where the code makes them. A run makes one per provider
  node (`Generate`, up to `ProviderNodes`); `NextStageFits` is the check before a start and
  before a cycle, which looks at the first provider stage alone (`FirstStage`, since no
  caller says which stages are done), and nothing looks at the budget while the run
  goes on. A sync writes the spending it read with the status. A repair is estimated
  at one generation when a provider node is responsible for the defect (`Billed`), at
  none otherwise, and credited accordingly. What runs beside the node that is repaired
  (the forced `review.run` of each cycle, `orchestration.py:1202`, and nodes whose cache
  entry is gone) is neither checked nor credited by the code and not counted by the
  model: no property speaks of it.
* `driver[t].ran` counts, for each defect, what the driver at work on thread `t` has
  regenerated; `repairs` the generations of all repairs; `lost` the credits that a sync
  took back. The code has no such counters: they are what the limits are about.

## 3. Runs

| Run | Module | Shows | Expected |
|---|---|---|---|
| `manager_concurrent` | MCExecutionManager | two request threads, two executions of one project, one slot, one kill: `TypeOK`, `SlotsCovered`, `WorkConserving`, `NoOrphanRun`, `OnlyApprovedResumes` | pass |
| `manager_single` | MCExecutionManager | one operator, two projects on one slot, one kill: `PausePointOnDisk`, `ExecutingWithinCeiling`, refinement `LifecycleSpec`, `ApprovalGate`, liveness `EveryRunSettles` | pass |
| `reservation_leak` | MCExecutionManager | `ReservationBelongsToPaused` | violation |
| `approval_restart` | MCExecutionManager | `ApprovalSurvivesRestart` | violation |
| `scheduler` | MCWorkflowScheduler | `TypeOK`, `LedgerExact`, `InputsReady`, `RunsAlone`, `GateHolds`, `SuccessIsComplete`, `OnlyAskersRunOut`, `SettledIsFinal`, liveness `RunEnds` | pass |
| `second_checkpoint` | MCWorkflowScheduler | `GateHolds` with two checkpoints side by side | violation |
| `project_lock` | MCProjectLock | three processes, two alive together, kills and failing file operations: `TypeOK`, `OnePerProcess`, `FileHasOwner`, `HeldHasOwner`, liveness `StartupClears` | pass |
| `project_lock_reclaim` | MCProjectLock | `OneHolder` with two processes | violation |
| `media_job` | MCProviderFallback | two units, four chains, a push, a stop, deadlines, a kill and a resume: `FallbackTypeOK`, `ResultIsHonest`, `DirectSuccessIsComplete`, `RecordNeverAhead`, `RecordSettled`, `TerminalIsFinal`, `UnitsFinal`, refinement `PromiseSpec`, liveness `EveryRunEnds` | pass |
| `fallback_failed_unit` | MCProviderFallback | `FallbackReplacesFailed` with two direct providers | violation |
| `jobs` | MCJobRepair | one Job, two threads, two orders, polls, one kill: `TypeOK`, `RepairsBounded`, `EndStands`, liveness `RunIsNoticed`, `OrdersEnd` | pass |
| `repair_cycles` | MCJobRepair | two defects, two repairs each, a run of two provider nodes of which one is checked, one order or retry, polls, a tight budget: `RepairsBounded`, `RepairsAffordable` | pass |

### Bounds, and why they are enough

* `MaxCalls` (manager) bounds the requests that get past their first check, hence
  the handles. Four cover start, pause, resume, cancel, and the same with
  approve; each race found needs at most three. A request refused at its first
  check changes nothing and costs nothing.
* One slot and two executions: contention for the slot, a queue behind a running
  project, and (with two projects) the rotation. `MaxCrashes = 1`: a restart
  starts from the documents alone, so a second kill repeats the first from
  another reachable set of documents.
* `manager_concurrent` checks invariants only; it uses symmetry in executions and
  requests, and a view (`LiveView`) that forgets the two events of a handle whose
  thread has ended, which nothing reads again. `manager_single` has temporal
  properties and uses neither.
* `ExecutingWithinCeiling` is checked with one operator. With two it does not
  hold: a resume that finds no reservation counts a slot of its own without
  looking at the ceiling (`execution.py:874`), so a cancel of a paused run that
  races a resume lets one more project execute. `SlotsCovered`, the accounting,
  holds with any number.
* Scheduler: four nodes hold a diamond, two of everything that can meet (two
  checkpoints in a row, an error branch joined by a merge, a conditional branch
  with an optional and a disabled node, an exclusive retrying root beside other
  roots, a preseeded node before one that asks for an approval); two pool
  threads are the least that give batches; two resumes the least that carry a
  resume state written by a resumed run. `tries = 2` is one retry.
* Project lock: three pids give two processes that overlap and one that starts
  after a kill; two threads are what one guard has to separate; one faulty
  process, since a fault exempts only its own process. The violation needs two
  processes of one thread and no fault.
* Media jobs: two units give a partial result and a unit that comes after another;
  two rungs give every hand-over; two poll failures are one absorbed and one
  that gives up; one push is enough to be early, late, or beside a poll; one kill
  at any step. Nothing in the repository wires a push transport, so the provider
  that pushes is tried alone.
* `jobs` has one execution: what `RunIsNoticed` promises cannot hold of two starts,
  whose first execution belongs to no Job (section 5). Two orders and any
  number of polls on two threads give a sync that is stale against another, an order
  against a finalizer, and a repair driver against an order.
* `jobs` has no provider nodes and no billed defect, so its budget of one never binds:
  spending does not change what the status properties are about, and `repair_cycles`
  is there for it.
* `repair_cycles` has two threads, so that polls sync beside the one driver that one
  order allows, and take its credits back; it has no kill, which both properties
  exempt, and uses symmetry in the threads (it checks invariants only). Two defects and
  two repairs, with two issues, let a defect return once as a new issue. The run makes
  up to two generations of which one is checked, each repair one: a ceiling of three
  ends in the middle of a plan, or before it when the run was expensive. `lost` reaches
  two, and without it `RepairsAffordable` is violated.
* `Gated` has no two checkpoints that can hold in the same drain: that is
  `second_checkpoint`.

### Fairness

* Manager: weak fairness of `Dispatch`, `Boot`, each pool thread's next step and each
  request's next step: threads of the process are scheduled, and a node ends
  (adapters have timeouts). `NodePersist`, new requests and `Crash` owe nothing.
* Scheduler: weak fairness of the coordinator and of each node thread. Stop,
  Pause and Resume owe nothing.
* Project lock: weak fairness of the startup of each process that was launched:
  `clear_stale_project_locks` has no wait in it. Threads, launches and kills owe
  nothing.
* Media jobs: weak fairness of the worker, of the loop over the chain and of the
  cancel callback (threads of the process), and of `Expire`: each invocation has a
  deadline and time passes. The provider, the batch threads and the pushes owe
  nothing, so `EveryRunEnds` holds with a provider that never answers.
* Jobs: weak fairness of each thread's next step, of the workers (which take and
  end or rest what is queued), and of the poll of the Production view
  (`jobs/routes.py:338`), which is what makes a Job notice a run whose finalizer is
  gone. Orders, retries, `WaitTimesOut` and `Restart` owe nothing.

### Deadlock

Every configuration says `CHECK_DEADLOCK FALSE`: an execution that ended and an
operator that asks no more is where these systems stop.

## 4. Proofs

`ExecutionManagerProofs` proves `TypeCorrect == Spec => []TypeOK`: for every set of
executions, projects and request threads, every pool size and every number of
calls and kills. `TypeOK` is not inductive by itself: a request could hold a
handle nobody built, or a queue name one. The inductive invariant is

    Typed == TypeOK /\ HandlesBuilt /\ RequestsBuilt /\ QueuesBuilt /\ BootQuiet

(handles up to `issued` belong to an execution and the others are inert, a request
at work has its execution and its handle, only built handles are queued, a
process that is booting runs nothing). One lemma per group of actions shows the
next state typed; `NextTyped` collects them and `AlwaysTyped` is the invariance.

The same module proves `SlotsAlwaysCovered == Spec => []SlotsCovered` on top of it: the threads and the reservations together never exceed `_running_count`,
*whatever* requests race. The argument is an account: only an admission and a
resume create a thread, and each pays with a new slot or with a reservation; a
thread that ends turns its slot into a reservation or gives it back; a restart
counts exactly the reservations it restores; nothing else touches the account.
`Account` gives the finiteness the cardinalities need, `Quiet` and `OneHandle`
dispose of the steps that create no thread.

`ExecutionQueueProofs` proves two theorems about the queues and one about the ceiling.

* `NoLostWakeup == Spec => []WorkConserving`. With `Typed`, the property is almost
  inductive: each section of `_queue_lock` either leaves the rotation alone, opens a
  dispatch, or takes from the rotation a project that it occupies or that has
  nothing pending. What has to be added is `BootEmpty`: a process that is booting has
  empty queues, so what `Restore` occupies forgets nobody.
* `NobodyForgotten == Spec => []NoOrphanRun`. The property is not inductive: a
  pool thread past its last write still counts as somebody there, and when it exits
  nobody is left. The invariant `Moving` asks for more: a run in flight has a handle
  whose thread has *not yet* written how the run ends (`Early`), or that a request
  still carries to the queue or to its thread, or that is pending in its queue.
  `PendingWaits` (a pending handle has no thread, and a resume never carries a pending
  one) is what keeps an admission and a cancel from taking the handle away.
* `CeilingKept`: with `OneOperator`, `Spec => []ExecutingWithinCeiling`. `SlotsCovered`
  counts the slots; this one says that the count bounds what executes. The
  invariant `Slotted` counts *projects*: those in which a thread lives or a paused
  execution rests are no more than the pool has slots (`WithinCeiling`). A project
  has one such thread or one such execution (`Exclusive`), and a resting one keeps
  its slot by the thread that has yet to end or by a reservation of its project
  (`RestKept`), so that a resume starts its thread in a slot that was counted
  already; at a restart, while no thread lives, the reservations are rebuilt from
  the documents that say paused (`RestCounted`).

`ExecutionApprovalProofs` proves `ApprovedOnce == Spec => []OnlyApprovedResumes`, by
following a checkpoint id on its way. Its invariant `Traced` says that a document
that awaits approval, and every request still at work on it, names the checkpoint
of a built run of the same execution (`DocPoints`, `RequestPoints`); that the
request which will continue the run is the one that approved, alone, and has not
used the approval yet (`Granted`); and that a run which may still reach a checkpoint
has created none (`OneCheckpoint`, with `ResumesAlone`: the handle a resume built has
one request that starts it), so that no approval is ever overwritten by a second
checkpoint of the same run. The decision being one section under `_LOCK` is used in
exactly one place, `GrantedKept`.

The second half of the module is about what a pause leaves on disk and how it may be
left. With `OneOperator` it proves

* `PausePointStands`, `Spec => []PausePointOnDisk`;
* `GateStands`, `Spec => ApprovalGate`;
* `ImplementsLifecycle`, `Spec => LifecycleSpec`: the refinement of `ExecutionLifecycle`.

The common invariant `Steady` says who may still write the status of an execution. While
the document is in flight, it is the *latest* handle of the execution (`Latest`): the one
with a thread that has not written its end yet, or the one on its way to a thread;
`Held` says that its document is then running, or queued, so `LiveStable`: nobody else
writes it. While the document rests, it is the one request at work, and `StillFound` says
that what that request read is still so when it acts on it (`RestStable`): this is where
a second operator breaks all three. `SavedFirst` is the order of `_persist_resume_state`
and the durable status; with it a commit makes `PausePointOnDisk` true. For the
refinement, `WorkerDoc`, `RequestDoc`, `AdmitDoc` and `RestartDoc` state what each kind of
step writes into a document, `StatusMoves` turns it into one allowed move of one
execution, the recovery of all, or nothing, and `MoveImplements` names the action of
`ExecutionLifecycle`.

The theorems rest on the three ASSUMEs of `ExecutionManager` (`ProjectOf` is a
function into `Projects`, `Executions` is finite, the bounds are naturals and the
pool has a worker), and the four of them that say so on `OneOperator`: the set of
request threads has one element, so that requests are served one after the other,
each of them interleaved with every pool thread and cut short by a kill at any
step. The code serializes no requests: two of them that race make each of the four
false (sections 2 and 3), and the theorems say that nothing but such a race does.

`WorkflowSchedulerProofs` proves ten theorems about one execution, for every finite
set of nodes, every workflow over it, every pool size and every number of resumes:

* `TypeCorrect == Spec => []TypeOK`. The coordinator takes the least ready node;
  `LeastNode` shows there is one, by the well-foundedness of the naturals.
* `BooksExact == Spec => []LedgerExact`. The heart is `FinishExact`: the connections that
  lead to a node from an unfinished source before a batch of results are those that
  do so after it and those that leave the batch, two disjoint finite sets, so the
  subtraction of `finish` keeps the count exact; the node that is held for an
  approval is completed and yet goes on counting. It needs that a node in flight is
  not completed and waits for nothing (`InFlightApart`). A resume counts afresh.
* `ExclusiveAlone == Spec => []RunsAlone`, with `ExclusiveKnown`: `exclusive_running` is set
  while such a node is in flight.
* `SettledStays == Spec => SettledIsFinal`. A thread writes only what concerns its own
  node, and only nodes in flight have a thread at work (`ThreadsInFlight`), so no
  completed node is written; over a resume it takes that the resume state on disk is
  where the run stood (`RestWritten`) and that the node put back was awaiting an
  approval and not settled (`AwaitingRecorded`).

The invariant of these is `Sound == Books /\ ExclusiveKnown /\ RunsAlone /\
LedgerExact`, one lemma per group of actions. Three more invariants stand on it:

* `InputsStay == Spec => []InputsReady`, by `Ran`: a node that was *ever* attempted has
  its inputs (`Fed`), also one that failed or holds, and a node whose status is
  settled has no thread at work (`SettledApart`), so that no thread takes the inputs
  of another away.
* `SuccessComplete == Spec => []SuccessIsComplete`, by `Told`: what a thread answers
  agrees with the status it has written (`Answered`), what was collected is known to
  the coordinator (`Reported`), and the loop is left only when nothing is in flight
  and nothing is ready, unless a pause or an approval holds it back (`Leaving`). What
  remains is `NothingLeft`: when nothing runs and nothing is ready, everything is
  done. This is the one place where the workflow must have no cycle; `run` refuses
  one before anything starts (`scheduler.py:459`), hence `AcyclicAssumption`.
* `GatesStand == Spec /\ []HoldsAlone => []GateHolds` and `AttemptsLast == Spec /\
  []HoldsAlone => []OnlyAskersRunOut`, by `GInv`: a checkpoint is in force until its
  node is approved, and a node whose outputs are in the cache was approved or has its
  status to show for it (`Guarded`); a node that never asks has no more attempts
  behind it than its status says (`Frugal`). `HoldsAlone` says that no two nodes await
  an approval at once. The run `second_checkpoint` shows that without it both
  conclusions are false; the theorems show that this is the only way. `RowHoldsAlone`
  turns the hypothesis into one on the workflows: where of any two nodes that have a
  checkpoint, or may ask for an approval, one is connected to the other, `HoldsAlone`
  always holds, and so do the conclusions (`RowGatesStand`). The five workflows of the
  run `scheduler` are such.

`ProjectLockProofs` proves `TypeCorrect == Spec => []TypeOK`, `ProcessExclusion == Spec => []OnePerProcess`, and
`ExclusionAlone`: with `MaxAlive = 1`, `Spec => []OneHolder`. Together with
`project_lock_reclaim` they say where the lock's promise ends: exactly at a second
process alive on the same directory. The invariant `Guarded` is that a thread past
the guard has its key in `_held`, is the only one of its process there, and
belongs to a process that is up; `FewAlive` bounds the overlapping processes.
`NoFileForNothing == Spec => []FileHasOwner` and `NoKeyForNothing == Spec =>
[]HeldHasOwner` need that the lock file was made by a process that was started
(`FileOfStarted`): otherwise the launch of the process that a
file names would give the file a live owner without a thread.

`ProviderFallbackProofs` is about the media jobs under the loop over the chain. Its
first part proves three theorems, for every number of units, every set of chains, every number of
pushes and kills:

* `TypeCorrect == Spec => []FallbackTypeOK`;
* `Honest == Spec => []ResultIsHonest`: a result has a unit that succeeded, and says
  succeeded only when none failed;
* `ImplementsPromise == Spec => PromiseSpec`, the refinement of `GenerationPromise`.

All three rest on one invariant, `IInv`: the typing in which every place a status can
travel through (the poll at hand, the last one, the live jobs, the record, the
cancel callback, the push, the answer) holds an *honest* status, one whose verdict
claims no more than its units. Plain typing is not enough: a status that a push
applied reaches the caller through the live job, one that a kill left comes back
through the record. `Statuses` and `Applied` say that what a manifest yields and what
`apply_status` returns is honest; one lemma per group of actions carries the
invariant; `LoopKeeps` also shows each turn of the loop to be a step of the
promise, and every step of the service to be a stutter of it or a loss.

The second part of the module proves that what a job has learned stays: `EndsAreFinal == Spec
=> TerminalIsFinal`, `UnitsAreFinal == Spec => UnitsFinal`, and `RecordStaysBehind`,
`Spec => []RecordNeverAhead`. `IInv` says what a status may claim; these need where it
may come from. The invariant `Fin` adds that the store knows the job of the rung at
hand and no other, while its worker waits (`LiveNow`); that a poll which ended the
job ends the loop, so that no sleeping worker holds a terminal poll (`PolledNow`);
that a callback at work found a registered job and ends it (`TokensNow`); and that a
job not yet over knows at least the units it was given, which are lost only with
the process (`PriorNow`, `PriorLost`). `RecordStaysBehind` assumes `OnePusher`: no chain
asks two services that push. Without it a push meant for the first is applied to
the second of the same kind, and a record written for one speaks of the other.
Nothing in the repository wires a push transport, let alone two.

The third part proves what the caller and the disk are told.

* `RecordEndsSettled == Spec => []RecordSettled`: `AloneNow` says that, while nobody stopped
  the run and nothing was pushed, a job that is still waited for is not over and a
  status about to be saved is the job's own, since the worker alone writes; it needs
  `QuietNow` (no callback is at work before a stop, no push before one was sent).
* `DirectSuccess == Spec => []DirectSuccessIsComplete`, about a direct provider asked
  alone. The property speaks of the verdict; the invariant has to say why the first
  place a success can come from, the manifest, knows every unit: the scenes the batch
  thread has still to mark are open, so the manifest is not done before the last
  (`BatchNow`). `WholeNow` carries it along every way a status takes (`PollFull`,
  `ApplyWhole`): a status that ends a job knows every unit, unless the job had ended
  already, as when polling was given up. `OnceNow` says that a loop over one
  provider looks at one answer.

`JobRepairProofs` proves `TypesHold == Spec => []TypeOK` of Jobs and repairs, for any
number of executions, threads and defects. The types alone say too little: whether
a driver may look at the first of what it has to do depends on where it stands. The
invariant is `TInv == JobTypeOK /\ Linked /\ Repairing`. `Linked` says which execution
the Job, and each thread on its way, names; `Repairing` says, per place of a cycle, what the driver
knows there (what is to do was admitted, what was admitted was planned, what was
planned is an issue there is; nothing is carried between two cycles).

`JobLimitsProofs` proves the two limits.

* `BudgetHolds == Spec => []RepairsAffordable`: a repair is run only when the run,
  whatever it cost, and the repairs before it leave room for it, but for the credits
  that syncs took back. The invariant `BInv` is an account. Once the end of the run is
  known, or about to be written (`Due`), the run is over and the Job was charged for all
  that was generated but the repair being charged, or has lost the credit since (`Paid`);
  a sync that read an end read all that the run had generated (`Complete`); and what a
  plan read, with what it has admitted and still to do, stays within the ceiling
  (`InBudget`). The account balances while `Fair`: one driver, one execution, no restart.
  It does *not* say that a Job stays below its ceiling, because it does not: a run is
  checked before its first stage only, so it may exceed the ceiling by itself (then
  `repairs = 0`), and the credits in `lost` are spent again (section 5).
* `RepairsHold == Spec => []RepairsBounded`, by `RInv`. The code compares the attempts
  of an *issue* with the limit, and a defect has many issues. The invariant says
  that a defect has one open issue (`Distinct`), about the artifact as it is
  (`Fresh`), and counts cycles (`Tracked`): a cycle repairs a defect once at most;
  if every cycle so far did, the open issue has as many attempts, so that the limit
  bites; and if one did not, the limit on cycles, one more than the repairs, leaves
  enough room. `Ahead` and the rest of `Tracked` carry this through the middle of a
  cycle, where the new issue has not inherited the attempts yet. It holds while
  there is one driver and no restart (`Calm`).
* `EndsStand`: with `OneRun` (a Job has one execution), `Spec => EndStands`, with any number
  of threads, polls, drivers and restarts. The invariant `EInv` says that the end of a
  Job is `Backed`: its run has ended too, or a restart has failed the Job while its run
  rests. Each thread is `Informed`: a terminal status it has read is the run's, which
  never leaves it; if it read the Job as ended and the run as not, the run was at rest
  after a restart; and one that is about to continue the run does so only while the
  Job is open, or in vain. `StatusWriters` lists who writes the status of a Job;
  of the writes that reopen it, two are left: an escalation, and after a restart the
  sync that finds the run at rest. With two executions the conclusion is false: the end
  of the first is written over a Job that the second runs, and the next sync takes it
  back (three threads, and an escalation in between).

The manager's theorems need no assumption but its ASSUMEs; the lock's need
`PidsAssumption` (finitely many processes) and `BoundsAssumption`; those of the
media jobs `NumUnitsAssumption`, `ChainsAssumption` and `BoundsAssumption`; the
scheduler's `NodesAssumption`, `WorkflowsAssumption`, `LimitsAssumption` and, for
`SuccessComplete` alone, `AcyclicAssumption`; those of Jobs and repairs the ASSUMEs of
`JobRun` and `JobRepair`, which say that executions, threads and defects are finitely
many, the bounds are naturals, and the first provider stage holds some of the
provider nodes if there are any (`ProviderNodesAssumption`).

Only model-checked: liveness under fairness
(`EveryRunSettles`, `RunEnds`, `StartupClears`, `EveryRunEnds`, `RunIsNoticed`,
`OrdersEnd`) is out of the prover's reach and stays with TLC.

## 5. Findings

Each is a run that TLC finds violated; `PROJECT.json` quotes the line.

1. `reservation_leak` - a cancel between the paused document and the reservation
   of its worker leaves the slot and the project taken until a restart.
2. `approval_restart` - a kill after an approval is written and before the
   requeued execution is: the run awaits an approval it already has.
3. `second_checkpoint` - two checkpoints that hold in the same drain: only the first
   becomes a checkpoint, the other is replayed from the cache on resume and its
   dependents run without an approval. When its outputs could not be cached it is to
   be executed again instead, has no attempt left, and the closing assertion of
   `_execute_node` fails the run (the same workflow violates `OnlyAskersRunOut`).
4. `project_lock_reclaim` - two processes that find the same stale lock file, or one
   that finds a lock file created but not yet written, both hold the project.
5. `fallback_failed_unit` - a unit that the first provider failed is handed to the
   second as already known; the second produces it and the merge keeps the failure.

Met while modelling and left without a run of their own; the models contain
them, and the properties above are stated around them:

* Manager: a resume and a cancel that both read the paused document
  (`execution.py:869`) revive the cancelled run, against `plans/contracts.md:220-221`.
* Scheduler: attempts are kept over an approval (`scheduler.py:1115`), so a node that
  asked for one is not executed again when they are spent, against `approval.py:87-88`.
* Media jobs: `_timeout` writes from the status polled last, over a completion that
  a push brought; the poll-failure limit that races such a push raises although the
  job completed; the cancel callback assigns without the store's lock; the batch
  thread of a rung that timed out writes into the manifest of the next; the error
  of the last rung is raised even when an earlier rung had returned units.
* Jobs: an escalation sets a *finished* Job to `awaiting_approval`
  (`review/repair.py:1101`; `jobs/execution_modes.py:511` says "Manual/Assisted always
  pause") and the next poll writes `completed` over it; two starts leave an execution that no
  Job points at; a kill between the end of a run and its sync makes
  `reconcile_jobs` fail a Job whose run succeeded or waits for a human; a run longer
  than the finalizer's hour gets no repairs. The attempts at a defect live in its
  issues and are carried from one cycle to the next only (`orchestration.py:1240`):
  an accepted or escalated defect, and one that skips a review, comes back as a new
  issue with none, so `max_repairs` bounds what one driver does and not what the Job
  does; two retries give two drivers, each with limits of its own; and a kill between
  a repair and its record leaves the issue `repairing` beside the new issue of the
  same defect, so that the next driver repairs both.
* Budget: `plans/contracts.md:939-940` says "Budget is checked **pre-flight**: work that
  would exceed a Channel's or Job's ceiling is refused before the provider is called.
  Post-hoc reporting is not enforcement". The code refuses less than that. A start
  (`orchestration.py:567`) and a cycle (`orchestration.py:1067`) compare the estimate of
  the first provider stage alone, because `check_job_next_stage_budget` is never told
  which stages are done, and nothing checks between the stages of a run: with a
  ceiling of one, a run of voice, scenes, storyboard and animator is admitted, spends
  four, and is reported afterwards. The forced re-review of a cycle
  (`orchestration.py:1202`) calls a provider unchecked and uncredited. Any sync
  recomputes the spending from the linked execution and takes back the credits of
  repairs, and the credit itself is read and written in two steps
  (`orchestration.py:1283`). What remains is what `RepairsAffordable` states.
* Scheduler: `errors` starts empty after a resume (`scheduler.py:706`), so a failure
  that was handled before the pause no longer makes the run `partial`.

## 6. Not modelled, and why

* Event streams: the broker feeds the browser and nothing in the engine reads it.
  What it can do wrong is lose: the buffer of a run is dropped when 64 newer ones
  exist, and a restart numbers events from 1 again.
* Schedules, cadence, watch folders, webhooks: each turns one event into one
  `start`. The cursor or the file is moved first and the run started afterwards, so
  a kill in between loses a fire and never doubles one; there is no second actor.
* Artifact promotion, index, archive and collector: file bookkeeping, no shared
  protocol. Registry, settings, secrets: single-section documents. Validation,
  expressions, options: pure functions of a document; the models take a valid
  workflow. Media modules (the largest part of the repository by lines: video
  composition, scene templates, presets): they appear as the adapter's answers.
  Routes and frontend: they translate and render.
* Inside what is modelled:
  * manager and scheduler: queue positions sent to clients, overrides,
    notifications, logging; the lock that serialises one adapter type across
    executions; preview scopes; index and eviction of the cache; checkpoint ids
    chosen by the caller; the path of a pinned `stub.output`, which answers as a cache
    hit does; the stale status that a cache miss leaves before the first attempt;
  * atomic here and not in the code: admission (`AdmitFirst`) and the cancel of a queued
    run (`CancelPending`) write the execution and the queue document in one step, so a
    kill between the two is not explored; the seeding of a scene manifest and the
    registration of a job are one step each, although `seed` takes no lock
    (`modules/image/jobs.py:89`), so a batch thread's write inside a seeding is not;
  * media jobs: `retry()` (nothing in production calls it), fractions and messages,
    thumbnails; how a chain is chosen, the single-shot path of
    `run_with_fallback`, provenance stamps, the concurrency limits;
  * Jobs: tests of single nodes, how the workflow of a Job is prepared, harvested
    artifacts, the `wait=True` variants, export and duplication; what the review
    checks measure.

## 7. Plan

Done: manager and life cycle, scheduler, project lock, media jobs with the
fallback over them and the promise they implement, Jobs with their repair
cycles, and the theorems of section 4.

Next, in this order:

1. `EventStream`: ring buffer, broker limit, a subscriber that returns.
2. `Triggers`: schedules, cadence and watch folders over `start`, with a kill.
3. Checkpoint ids across executions, as an input of `approve`.

------------------------------- MODULE JobRun -------------------------------
(***************************************************************************)
(* One Job and the executions it is run by (scriptase/jobs/orchestration,  *)
(* jobs/store, reconcile_jobs).  The Job is a document of its own: every   *)
(* route that touches it reads it without a lock, looks at the execution,  *)
(* and writes it under the lock of update_job.  A request that lets the    *)
(* execution go on leaves a finalizer thread behind; the model lets the    *)
(* thread of the request become that thread.                               *)
(*                                                                         *)
(* The executions are those ExecutionLifecycle promises: this module takes *)
(* its actions for the engine.  Times, stages, artifacts and the reason of *)
(* a status are left out.                                                  *)
(***************************************************************************)
EXTENDS Naturals, FiniteSets

CONSTANTS
    Threads,        \* threads of the server that requests run on
    Executions,     \* executions that can be started
    NoExecution,
    Ceiling,        \* budget of the Channel: generations per Job
    ProviderNodes,  \* nodes of the workflow whose success is a generation
    FirstStage,     \* those of the first stage that has any
    MaxOps,         \* bound: requests other than the polls
    MaxCrashes      \* bound: kills of the process

Polls == {"get", "cost"}
Orders == {"start", "approve", "resume", "pause", "reject"}

ASSUME ExecutionsAssumption == NoExecution \notin Executions /\ IsFiniteSet(Executions)
ASSUME ThreadsAssumption == IsFiniteSet(Threads)
ASSUME CountsAssumption ==
    Ceiling \in Nat /\ MaxOps \in Nat /\ MaxCrashes \in Nat
ASSUME ProviderNodesAssumption ==
    /\ ProviderNodes \in Nat /\ FirstStage \in 0..ProviderNodes
    /\ FirstStage = 0 => ProviderNodes = 0

VARIABLES
    execution,   \* status of each execution document
    generated,   \* nodes of each execution whose records hold a generation
    job,         \* the Job document
    thread,      \* what each thread is doing
    ops, crashes

Runs == INSTANCE ExecutionLifecycle WITH status <- execution

engine == <<execution, generated>>
jobVars == <<engine, job, thread, ops, crashes>>

-----------------------------------------------------------------------------
TERMINAL_STATUSES == {"completed", "failed", "cancelled"}
Active == {"queued", "running", "paused", "awaiting_approval"}
Terminal(status) == status \in TERMINAL_STATUSES

\* Mutant: the words of the engine are taken over.
DeriveNothing(s) == s

\* _EXECUTION_TO_JOB_STATUS.  A run that is pausing or cancelling is running, a
\* partial one has succeeded: the life cycle does not tell them apart.
DeriveJobStatus(s) == IF s = "succeeded" THEN "completed" ELSE s

\* The statuses _wait_for_execution returns at.
Settled == Runs!Terminal \cup Runs!Durable

Links == Executions \cup {NoExecution}
Job == [status : TERMINAL_STATUSES \cup Active, execution : Links, spent : Nat]
Idle == [op |-> "none", pc |-> "idle", stage |-> "end", execution |-> NoExecution,
         terminal |-> FALSE, derived |-> "queued", spent |-> 0]

\* What the document of a run says it has generated so far: recomputed from scratch.
SpentBy(e) == generated[e]

\* check_job_next_stage_budget: nobody says which stages are done, so the next stage
\* is always the first, and all that comes after it goes unchecked.
NextStageFits == job.spent + FirstStage <= Ceiling

\* Every variable has its type.
JobTypeOK ==
    /\ execution \in [Executions -> Runs!Statuses]
    /\ generated \in [Executions -> 0..ProviderNodes]
    /\ job \in Job
    /\ thread \in [Threads ->
         [op : Orders \cup {"none", "finalize", "retry"},
          pc : {"idle", "launch", "link", "wait", "read", "write", "reload", "act",
                "mark", "plan", "apply", "regenerate", "charge", "record", "review", "carry"},
          stage : {"judge", "finish", "end"},
          execution : Links,
          terminal : BOOLEAN,
          derived : TERMINAL_STATUSES \cup Active,
          spent : 0..ProviderNodes]]
    /\ ops \in 0..MaxOps /\ crashes \in 0..MaxCrashes

JobInit ==
    /\ Runs!Init
    /\ generated = [e \in Executions |-> 0]
    /\ job = [status |-> "queued", execution |-> NoExecution, spent |-> 0]
    /\ thread = [t \in Threads |-> Idle]
    /\ ops = 0 /\ crashes = 0

Set(t, new) == thread' = [thread EXCEPT ![t] = new]
Goto(t, pc) == Set(t, [thread[t] EXCEPT !.pc = pc])
Done(t) == Set(t, Idle)
At(t, pc) == thread[t].pc = pc
\* A thread becomes the finalizer of e; one that only syncs is like a poll.
Finalize(t, e) == Set(t, [Idle EXCEPT !.op = "finalize", !.pc = "wait", !.execution = e])
LastSync(t) == Set(t, [Idle EXCEPT !.pc = "read"])

\* update_job, under the lock of the Job.
Write(status, e, spent) ==
    [status |-> status, execution |-> e, spent |-> spent]

Mutable == ~Terminal(job.status)

-----------------------------------------------------------------------------
(* Requests.                                                                *)

\* Mutant: a poll looks after a Job that runs only.
AcceptsRunning(op) ==
    CASE op = "start" -> job.status \notin {"running"} \cup TERMINAL_STATUSES /\ NextStageFits
      [] OTHER -> job.execution # NoExecution /\ job.status = "running"

\* get_job and the checks of each route, before it does anything.
Accepts(op) ==
    CASE op = "start" -> /\ ~Terminal(job.status)
                         /\ job.execution = NoExecution \/ job.status \notin Active
                         /\ NextStageFits
      [] op = "cost"  -> job.execution # NoExecution
      [] OTHER        -> job.execution # NoExecution /\ ~Terminal(job.status)

Begin(t, op) ==
    /\ At(t, "idle")
    /\ IF op \in Polls THEN UNCHANGED ops ELSE ops < MaxOps /\ ops' = ops + 1
    /\ op = "start" => Cardinality({u \in Threads : At(u, "launch")})
                        < Cardinality({e \in Executions : execution[e] = "none"})
    /\ Accepts(op)
    /\ Set(t, [Idle EXCEPT !.op = IF op \in Polls THEN "none" ELSE op,
                           !.pc = IF op = "start" THEN "launch" ELSE "read",
                           !.stage = IF op \in Polls THEN "end" ELSE "judge"])
    /\ UNCHANGED <<engine, job, crashes>>

\* start_job: manager.start ...
Launch(t) ==
    /\ At(t, "launch")
    /\ \E e \in Executions :
        /\ Runs!Submit(e)
        /\ Set(t, [thread[t] EXCEPT !.pc = "link", !.execution = e])
    /\ UNCHANGED <<generated, job, ops, crashes>>

\* ... and the link, which is refused when the Job has ended meanwhile: the
\* execution goes on and belongs to no Job.
Link(t) ==
    /\ At(t, "link")
    /\ IF Mutable
       THEN /\ job' = Write("queued", thread[t].execution, job.spent)
            /\ Finalize(t, thread[t].execution)
       ELSE UNCHANGED job /\ Done(t)
    /\ UNCHANGED <<engine, ops, crashes>>

\* Mutant: only an end ends the wait.
WaitOverEnd(t) ==
    /\ At(t, "wait")
    /\ execution[thread[t].execution] \in Runs!Terminal
    /\ IF thread[t].op = "pause" THEN LastSync(t)
       ELSE Set(t, [Idle EXCEPT !.op = "finalize", !.pc = "read", !.stage = "finish"])
    /\ UNCHANGED <<engine, job, ops, crashes>>

\* _wait_for_execution.
WaitOver(t) ==
    /\ At(t, "wait")
    /\ execution[thread[t].execution] \in Settled
    /\ IF thread[t].op = "pause" THEN LastSync(t)
       ELSE Set(t, [Idle EXCEPT !.op = "finalize", !.pc = "read", !.stage = "finish"])
    /\ UNCHANGED <<engine, job, ops, crashes>>

\* The run takes longer than the wait: a pause answers with an error, a finalizer
\* syncs once more and is gone.
WaitTimesOut(t) ==
    /\ At(t, "wait")
    /\ execution[thread[t].execution] \notin Settled
    /\ IF thread[t].op = "pause" THEN Done(t) ELSE LastSync(t)
    /\ UNCHANGED <<engine, job, ops, crashes>>

-----------------------------------------------------------------------------
(* sync_job_from_execution.                                                 *)

\* What it reads of the Job and then of the execution: its status and its spending.
SyncRead(t) ==
    /\ At(t, "read")
    /\ Set(t, [thread[t] EXCEPT !.pc = "write", !.execution = job.execution,
                                !.terminal = Terminal(job.status),
                                !.derived = DeriveJobStatus(execution[job.execution]),
                                !.spent = SpentBy(job.execution)])
    /\ UNCHANGED <<engine, job, ops, crashes>>

\* Mutant: the write takes the Job for what it was when it was read.
SyncWriteBlind(t) ==
    /\ At(t, "write")
    /\ job' = Write(thread[t].derived, thread[t].execution, thread[t].spent)
    /\ Set(t, [thread[t] EXCEPT !.pc = "reload", !.terminal = FALSE, !.spent = 0])
    /\ UNCHANGED <<engine, ops, crashes>>

\* A Job that has ended takes the status only from a sync that had read it as
\* ended; the spending that was read with it in any case, be it less than the Job's.
SyncWrite(t) ==
    /\ At(t, "write")
    /\ job' = IF thread[t].terminal \/ Mutable
              THEN Write(thread[t].derived, thread[t].execution, thread[t].spent)
              ELSE [job EXCEPT !.spent = thread[t].spent]
    /\ Set(t, [thread[t] EXCEPT !.pc = "reload", !.terminal = FALSE, !.spent = 0])
    /\ UNCHANGED <<engine, ops, crashes>>

\* What the caller of the sync gets, and does with it.
Wanted(op) == CASE op \in {"approve", "reject"} -> "awaiting_approval"
                [] op = "resume" -> "paused"
                [] OTHER -> "running"

\* An end is written again when the Job does not show it, over whatever it shows;
\* then the request goes on.
SyncReload(t) ==
    LET d == thread[t].derived
        status == IF Terminal(d) THEN d ELSE job.status
    IN  /\ At(t, "reload")
        /\ job' = [job EXCEPT !.status = status]
        /\ CASE thread[t].stage = "judge" /\ status = Wanted(thread[t].op) ->
                    Set(t, [Idle EXCEPT !.op = thread[t].op, !.pc = "act", !.execution = job.execution])
             [] thread[t].stage = "finish" /\ Terminal(status) ->
                    Set(t, [Idle EXCEPT !.op = "finalize", !.pc = "plan"])
             [] OTHER -> Done(t)
        /\ UNCHANGED <<engine, ops, crashes>>

-----------------------------------------------------------------------------
(* Decisions.                                                               *)

\* manager.approve and manager.resume: the run is queued again ...
Continue(t) ==
    LET e == thread[t].execution
    IN  /\ At(t, "act") /\ thread[t].op \in {"approve", "resume"}
        /\ execution[e] = Wanted(thread[t].op)
        /\ Runs!Requeue(e)
        /\ Goto(t, "mark")
        /\ UNCHANGED <<generated, job, ops, crashes>>

Reject(t) ==
    LET e == thread[t].execution
    IN  /\ At(t, "act") /\ thread[t].op = "reject"
        /\ Runs!Refuse(e) /\ execution'[e] = "failed"
        /\ LastSync(t)
        /\ UNCHANGED <<generated, job, ops, crashes>>

\* ... a running one is told to pause at its next node ...
PauseRun(t) ==
    /\ At(t, "act") /\ thread[t].op = "pause"
    /\ execution[thread[t].execution] = "running"
    /\ Goto(t, "wait")
    /\ UNCHANGED <<engine, job, ops, crashes>>

\* ... and one that is elsewhere by now refuses all of it.
Refused(t) ==
    /\ At(t, "act")
    /\ execution[thread[t].execution] # Wanted(thread[t].op)
    /\ Done(t)
    /\ UNCHANGED <<engine, job, ops, crashes>>

\* approve_job and resume_job say that the Job runs; when a sync has found its
\* end meanwhile the request fails and leaves no finalizer.
Mark(t) ==
    /\ At(t, "mark")
    /\ IF Mutable
       THEN /\ job' = Write("running", job.execution, job.spent)
            /\ Finalize(t, job.execution)
       ELSE UNCHANGED job /\ Done(t)
    /\ UNCHANGED <<engine, ops, crashes>>

-----------------------------------------------------------------------------
(* The engine, and kills of the process.                                    *)

\* A provider node of a run succeeds, and nothing looks at the budget (cost_snapshot).
Generate(e) ==
    /\ execution[e] = "running" /\ generated[e] < ProviderNodes
    /\ generated' = [generated EXCEPT ![e] = @ + 1]
    /\ UNCHANGED execution

\* A worker takes a run, runs its nodes, and ends it, or lets it rest: a pause can be
\* asked for by the queue view, too.
Work ==
    /\ \E e \in Executions :
        \/ (Runs!Admit(e) \/ Runs!Settle(e)) /\ UNCHANGED generated
        \/ Generate(e)
    /\ UNCHANGED <<job, thread, ops, crashes>>

\* A run is ended where no Job is involved: the queue view, an expiry.
EndElsewhere ==
    /\ \E e \in Executions : Runs!Withdraw(e) \/ Runs!Refuse(e) \/ Runs!Abandon(e)
    /\ UNCHANGED <<generated, job, thread, ops, crashes>>

\* reconcile_jobs.
Reconciled ==
    IF \/ job.status = "running"
       \/ job.status = "queued" /\ job.execution # NoExecution
    THEN [job EXCEPT !.status = "failed"] ELSE job

\* A kill and the startup after it: executions first, then the Jobs.
Restart ==
    /\ crashes < MaxCrashes
    /\ crashes' = crashes + 1
    /\ thread' = [t \in Threads |-> Idle]
    /\ \/ Runs!Recover
       \/ /\ \A e \in Executions : execution[e] \notin {"queued", "running"}
          /\ UNCHANGED execution
    /\ job' = Reconciled
    /\ UNCHANGED <<generated, ops>>

Request(t) == \/ Launch(t) \/ Link(t) \/ WaitOver(t)
              \/ SyncRead(t) \/ SyncWrite(t) \/ SyncReload(t)
              \/ Continue(t) \/ Reject(t) \/ PauseRun(t) \/ Refused(t) \/ Mark(t)

=============================================================================

-------------------------- MODULE ExecutionManager --------------------------
(***************************************************************************)
(* ExecutionManager (scriptase/engine/execution.py) with the documents it  *)
(* and its schedulers write (engine/persistence.py, engine/approval.py)    *)
(* and the startup repair (engine/reconciliation.py).                      *)
(*                                                                         *)
(* Actors: the threads serving HTTP requests, one pool worker per admitted *)
(* execution, and the process itself, which can be killed and restarted.   *)
(* Every section of code under _queue_lock, every section under approval's *)
(* _LOCK and every document write is one step; between two steps of one    *)
(* actor any other actor may run.  The workflow inside a scheduler is      *)
(* abstract here: a run ends, raises, or reaches a durable pause.          *)
(***************************************************************************)
EXTENDS Naturals, Sequences, FiniteSets

CONSTANTS
    Executions,   \* execution ids the operator may start
    NoExecution,  \* the execution of a handle or request that has none
    Projects,     \* project ids
    ProjectOf,    \* [Executions -> Projects]
    Requests,     \* threads that can serve a request at the same time
    Ops,          \* request kinds of this configuration
    MaxWorkers,   \* max_global_workers
    MaxCalls,     \* bound: requests that get past their first check
    MaxCrashes    \* bound: process kills

ASSUME ProjectOfAssumption == ProjectOf \in [Executions -> Projects]
ASSUME ExecutionsAssumption == IsFiniteSet(Executions) /\ NoExecution \notin Executions
ASSUME BoundsAssumption == MaxWorkers \in Nat \ {0} /\ MaxCalls \in Nat /\ MaxCrashes \in Nat

Terminal == {"succeeded", "failed", "cancelled"}   \* "partial" is a "succeeded" here
Durable  == {"awaiting_approval", "paused"}
ExecStatuses == {"none", "queued", "running"} \cup Durable \cup Terminal
QueueStatuses == {"none", "pending", "running", "done", "failed", "cancelled"} \cup Durable

Handles == 1..MaxCalls      \* ActiveExecution objects, in order of creation
NoHandle == 0

VARIABLES
    doc,                 \* per execution, on disk: [status, queue, approval, resume]
    checkpoints,         \* per handle: status of the approval checkpoint its run created
    handle,              \* [exec, rec, qrec, stop, pause, pc, from]
    issued,              \* handles created so far
    active,              \* manager.active: execution id -> handle
    projectQueues, readyProjects, runningProjects, runningCount, pausedReservations,
    dispatching,         \* _queue_lock is held by a thread inside _dispatch_locked
    projectLock,         \* in-process holder of the ProjectLock of each project
    request,             \* [pc, exec, handle, checkpoint, target] of each request thread
    calls,               \* requests begun so far
    phase, crashes

pool == <<projectQueues, readyProjects, runningProjects, runningCount, pausedReservations, dispatching>>
vars == <<doc, checkpoints, handle, issued, active, pool, projectLock, request, calls, phase, crashes>>

WorkerPcs == {"starting", "locking", "running", "finishing", "raised", "checkpoint", "save_resume",
              "commit", "mirror", "exit"}
RequestPcs == {"idle", "register", "enqueue", "signal", "pause_signal", "resume_save",
               "resume_register", "resume_spawn", "approve_expire", "approve_decide", "approve_save",
               "reject_decide", "cancel_decide", "settle", "cleanup",
               "cancel_paused", "cancel_mirror", "cancel_release"}

Idle == [pc |-> "idle", exec |-> NoExecution, handle |-> NoHandle,
         checkpoint |-> NoHandle, target |-> "none"]

DocRecord == [status : ExecStatuses, queue : QueueStatuses,
              approval : Handles \cup {NoHandle}, resume : Handles \cup {NoHandle}]
HandleRecord == [exec : Executions \cup {NoExecution}, rec : ExecStatuses, qrec : QueueStatuses,
                 stop : BOOLEAN, pause : BOOLEAN, pc : {"idle"} \cup WorkerPcs,
                 from : Handles \cup {NoHandle}]
RequestRecord == [pc : RequestPcs, exec : Executions \cup {NoExecution},
                  handle : Handles \cup {NoHandle}, checkpoint : Handles \cup {NoHandle},
                  target : {"none", "failed", "cancelled"}]

\* Every variable has its type.
TypeOK ==
    /\ doc \in [Executions -> DocRecord]
    /\ checkpoints \in [Handles -> {"none", "awaiting", "approved", "rejected", "expired"}]
    /\ handle \in [Handles -> HandleRecord]
    /\ issued \in 0..MaxCalls
    /\ active \in [Executions -> Handles \cup {NoHandle}]
    /\ projectQueues \in [Projects -> Seq(Handles)]
    /\ readyProjects \in Seq(Projects)
    /\ runningProjects \subseteq Projects
    /\ runningCount \in Nat
    /\ pausedReservations \subseteq Executions
    /\ dispatching \in BOOLEAN
    /\ projectLock \in [Projects -> Handles \cup {NoHandle}]
    /\ request \in [Requests -> RequestRecord]
    /\ calls \in 0..MaxCalls
    /\ phase \in {"up", "booting", "reconciling"}
    /\ crashes \in 0..MaxCrashes

Init ==
    /\ doc = [e \in Executions |->
                [status |-> "none", queue |-> "none", approval |-> NoHandle, resume |-> NoHandle]]
    /\ checkpoints = [h \in Handles |-> "none"]
    /\ handle = [h \in Handles |->
                   [exec |-> NoExecution, rec |-> "none", qrec |-> "none", stop |-> FALSE,
                    pause |-> FALSE, pc |-> "idle", from |-> NoHandle]]
    /\ issued = 0
    /\ active = [e \in Executions |-> NoHandle]
    /\ projectQueues = [p \in Projects |-> <<>>]
    /\ readyProjects = <<>>
    /\ runningProjects = {}
    /\ runningCount = 0
    /\ pausedReservations = {}
    /\ dispatching = FALSE
    /\ projectLock = [p \in Projects |-> NoHandle]
    /\ request = [r \in Requests |-> Idle]
    /\ calls = 0
    /\ phase = "up"
    /\ crashes = 0

-----------------------------------------------------------------------------
(* Helpers *)

ProjectFor(h) == ProjectOf[handle[h].exec]
InQueue(p) == {projectQueues[p][i] : i \in DOMAIN projectQueues[p]}
IsReady(p) == \E i \in DOMAIN readyProjects : readyProjects[i] = p

\* _mark_ready_locked, given the queue and the occupied projects it looks at.
MarkReady(p, queued, occupied) ==
    IF p \in occupied \/ IsReady(p) \/ ~\E h \in queued : handle[h].qrec = "pending"
    THEN readyProjects
    ELSE Append(readyProjects, p)

\* A scheduler and its ActiveExecution are built for e; its worker does not run yet.
NewHandle(e, qrec, from) ==
    /\ issued < MaxCalls
    /\ issued' = issued + 1
    /\ handle' = [handle EXCEPT ![issued + 1] =
                    [exec |-> e, rec |-> "queued", qrec |-> qrec, stop |-> FALSE,
                     pause |-> FALSE, pc |-> "idle", from |-> from]]

DocOf(h) == doc[handle[h].exec]
DocFor(r) == doc[request[r].exec]
SaveDoc(e, document) == doc' = [doc EXCEPT ![e] = document]
SetHandle(h, record) == handle' = [handle EXCEPT ![h] = record]

\* Request thread r: where it is, where it goes next, and its return.
At(r, pc) == phase = "up" /\ request[r].pc = pc
Goto(r, pc) == request' = [request EXCEPT ![r].pc = pc]
Return(r) == request' = [request EXCEPT ![r] = Idle]
\* A request of kind op begins and goes on in the state given by thread.
Enter(r, op, thread) ==
    /\ At(r, "idle")
    /\ op \in Ops
    /\ calls < MaxCalls
    /\ calls' = calls + 1
    /\ request' = [request EXCEPT ![r] = thread]

\* Mutant: the project is re-armed while it still counts as running.
ReleaseSlotArmedFirst(p) ==
    /\ runningProjects' = runningProjects \ {p}
    /\ runningCount' = IF runningCount = 0 THEN 0 ELSE runningCount - 1
    /\ readyProjects' = MarkReady(p, InQueue(p), runningProjects)
    /\ dispatching' = TRUE
    /\ UNCHANGED projectQueues

\* Mutant: the freed slot is not offered to the projects that wait.
ReleaseSlotUndispatched(p) ==
    /\ runningProjects' = runningProjects \ {p}
    /\ runningCount' = IF runningCount = 0 THEN 0 ELSE runningCount - 1
    /\ readyProjects' = MarkReady(p, InQueue(p), runningProjects \ {p})
    /\ UNCHANGED <<projectQueues, dispatching>>

\* A slot is given back, its project re-armed, and the pool refilled.
ReleaseSlot(p) ==
    /\ runningProjects' = runningProjects \ {p}
    /\ runningCount' = IF runningCount = 0 THEN 0 ELSE runningCount - 1
    /\ readyProjects' = MarkReady(p, InQueue(p), runningProjects \ {p})
    /\ dispatching' = TRUE
    /\ UNCHANGED projectQueues

-----------------------------------------------------------------------------
(* start: the execution document, then the queue document, then the pool.   *)

Start(r, e) ==
    /\ doc[e].status = "none"
    /\ Enter(r, "start", [Idle EXCEPT !.pc = "register", !.exec = e, !.handle = issued + 1])
    /\ NewHandle(e, "pending", NoHandle)
    /\ SaveDoc(e, [doc[e] EXCEPT !.status = "queued"])
    /\ UNCHANGED <<checkpoints, active, pool, projectLock, phase, crashes>>

Register(r) ==
    /\ At(r, "register")
    /\ SaveDoc(request[r].exec, [DocFor(r) EXCEPT !.queue = "pending"])
    /\ active' = [active EXCEPT ![request[r].exec] = request[r].handle]
    /\ Goto(r, "enqueue")
    /\ UNCHANGED <<checkpoints, handle, issued, pool, projectLock, calls, phase, crashes>>

Enqueue(r) ==
    LET h == request[r].handle
        p == ProjectFor(h)
    IN  /\ At(r, "enqueue")
        /\ ~dispatching
        /\ projectQueues' = [projectQueues EXCEPT ![p] = Append(@, h)]
        /\ readyProjects' = MarkReady(p, InQueue(p) \cup {h}, runningProjects)
        /\ dispatching' = TRUE
        /\ Return(r)
        /\ UNCHANGED <<doc, checkpoints, handle, issued, active, runningProjects, runningCount,
                       pausedReservations, projectLock, calls, phase, crashes>>

-----------------------------------------------------------------------------
(* _dispatch_locked: one turn of its loop, and the end of the loop.         *)

\* Mutant: one worker too many.
HasRoomOffByOne == runningCount <= MaxWorkers /\ readyProjects # <<>>

HasRoom == runningCount < MaxWorkers /\ readyProjects # <<>>

\* The first pending handle of the queue leaves it, with everything before it.
AdmitFirst(p, i) ==
    LET h == projectQueues[p][i] IN
    /\ handle[h].qrec = "pending"
    /\ \A j \in 1..(i - 1) : handle[projectQueues[p][j]].qrec # "pending"
    /\ projectQueues' = [projectQueues EXCEPT ![p] = SubSeq(@, i + 1, Len(@))]
    /\ SetHandle(h, [handle[h] EXCEPT !.qrec = "running", !.rec = "running", !.pc = "starting"])
    /\ SaveDoc(handle[h].exec, [DocOf(h) EXCEPT !.queue = "running", !.status = "running",
                                                !.approval = handle[h].from])
    /\ runningProjects' = runningProjects \cup {p}
    /\ runningCount' = runningCount + 1

DispatchNext ==
    LET p == Head(readyProjects) IN
    /\ dispatching
    /\ HasRoom
    /\ readyProjects' = Tail(readyProjects)
    /\ \/ /\ p \notin runningProjects
          /\ \E i \in DOMAIN projectQueues[p] : AdmitFirst(p, i)
       \/ /\ p \notin runningProjects
          /\ ~\E h \in InQueue(p) : handle[h].qrec = "pending"
          /\ projectQueues' = [projectQueues EXCEPT ![p] = <<>>]
          /\ UNCHANGED <<handle, doc, runningProjects, runningCount>>
       \/ /\ p \in runningProjects
          /\ UNCHANGED <<projectQueues, handle, doc, runningProjects, runningCount>>
    /\ UNCHANGED <<checkpoints, issued, active, pausedReservations, dispatching, projectLock,
                   request, calls, phase, crashes>>

DispatchDone ==
    /\ dispatching
    /\ ~HasRoom
    /\ dispatching' = FALSE
    /\ UNCHANGED <<doc, checkpoints, handle, issued, active, projectQueues, readyProjects,
                   runningProjects, runningCount, pausedReservations, projectLock, request,
                   calls, phase, crashes>>

-----------------------------------------------------------------------------
(* _pool_worker, _run and the durable edges of WorkflowScheduler.run.       *)

WorkerAt(h, pc) == phase = "up" /\ handle[h].pc = pc
Step(h, pc) == SetHandle(h, [handle[h] EXCEPT !.pc = pc])

\* The scheduler persists "running" and drops the approval it resumed from.
StartRun(h) ==
    /\ WorkerAt(h, "starting")
    /\ SetHandle(h, [handle[h] EXCEPT !.pc = "locking", !.rec = "running"])
    /\ SaveDoc(handle[h].exec, [DocOf(h) EXCEPT !.status = "running", !.approval = NoHandle])
    /\ UNCHANGED <<checkpoints, issued, active, pool, projectLock, request, calls, phase, crashes>>

AcquireLock(h) ==
    /\ WorkerAt(h, "locking")
    /\ projectLock[ProjectFor(h)] = NoHandle
    /\ projectLock' = [projectLock EXCEPT ![ProjectFor(h)] = h]
    /\ Step(h, "running")
    /\ UNCHANGED <<doc, checkpoints, issued, active, pool, request, calls, phase, crashes>>

LockRefused(h) ==
    /\ WorkerAt(h, "locking")
    /\ projectLock[ProjectFor(h)] # NoHandle
    /\ Step(h, "raised")
    /\ UNCHANGED <<doc, checkpoints, issued, active, pool, projectLock, request, calls, phase, crashes>>

\* Every node transition writes the whole execution document again.
NodePersist(h) ==
    /\ WorkerAt(h, "running")
    /\ SaveDoc(handle[h].exec, [DocOf(h) EXCEPT !.status = "running", !.approval = NoHandle])
    /\ UNCHANGED <<checkpoints, handle, issued, active, pool, projectLock, request, calls, phase, crashes>>

\* The coordinator loop ends: the lock is released, and the worker goes on at pc.
LeaveLoop(h, pc) ==
    /\ WorkerAt(h, "running")
    /\ projectLock' = [projectLock EXCEPT ![ProjectFor(h)] = NoHandle]
    /\ Step(h, pc)
    /\ UNCHANGED <<doc, checkpoints, issued, active, pool, request, calls, phase, crashes>>

RunToEnd(h)  == LeaveLoop(h, "finishing")
RunRaises(h) == LeaveLoop(h, "raised")
\* A stop that arrives while the last node answers "awaiting" is not read again.
DrainToApproval(h) == LeaveLoop(h, "checkpoint")
DrainToPause(h) == handle[h].pause /\ ~handle[h].stop /\ LeaveLoop(h, "save_resume")

\* A node or an adapter may cancel the run by itself; a stop always does.
Finish(h) ==
    /\ WorkerAt(h, "finishing")
    /\ \E s \in IF handle[h].stop THEN {"cancelled"} ELSE Terminal :
         /\ SetHandle(h, [handle[h] EXCEPT !.rec = s, !.pc = "mirror"])
         /\ SaveDoc(handle[h].exec, [DocOf(h) EXCEPT !.status = s, !.approval = NoHandle, !.resume = NoHandle])
    /\ UNCHANGED <<checkpoints, issued, active, pool, projectLock, request, calls, phase, crashes>>

Raised(h) ==
    LET s == IF handle[h].stop THEN "cancelled" ELSE "failed" IN
    /\ WorkerAt(h, "raised")
    /\ SetHandle(h, [handle[h] EXCEPT !.rec = s, !.pc = "mirror"])
    /\ SaveDoc(handle[h].exec, [DocOf(h) EXCEPT !.status = s, !.approval = NoHandle])
    /\ UNCHANGED <<checkpoints, issued, active, pool, projectLock, request, calls, phase, crashes>>

CreateCheckpoint(h) ==
    /\ WorkerAt(h, "checkpoint")
    /\ checkpoints' = [checkpoints EXCEPT ![h] = "awaiting"]
    /\ Step(h, "save_resume")
    /\ UNCHANGED <<doc, issued, active, pool, projectLock, request, calls, phase, crashes>>

\* Mutant: a resume state that is already on disk is kept.
SaveResumeOnce(h) ==
    /\ WorkerAt(h, "save_resume")
    /\ SaveDoc(handle[h].exec, [DocOf(h) EXCEPT !.resume = IF @ = NoHandle THEN h ELSE @])
    /\ Step(h, "commit")
    /\ UNCHANGED <<checkpoints, issued, active, pool, projectLock, request, calls, phase, crashes>>

SaveResume(h) ==
    /\ WorkerAt(h, "save_resume")
    /\ SaveDoc(handle[h].exec, [DocOf(h) EXCEPT !.resume = h])
    /\ Step(h, "commit")
    /\ UNCHANGED <<checkpoints, issued, active, pool, projectLock, request, calls, phase, crashes>>

\* A run that created a checkpoint rests in its approval, any other in a user pause.
PausedAs(h) == IF checkpoints[h] = "none" THEN "paused" ELSE "awaiting_approval"

Commit(h) ==
    /\ WorkerAt(h, "commit")
    /\ SetHandle(h, [handle[h] EXCEPT !.rec = PausedAs(h), !.pc = "mirror"])
    /\ SaveDoc(handle[h].exec, [DocOf(h) EXCEPT !.status = PausedAs(h),
                                           !.approval = IF checkpoints[h] = "none" THEN NoHandle ELSE h])
    /\ UNCHANGED <<checkpoints, issued, active, pool, projectLock, request, calls, phase, crashes>>

\* Mutant: the queue document takes the execution's own word for success.
QueueStatusVerbatim(status) == status

QueueStatusOf(status) == IF status = "succeeded" THEN "done" ELSE status

\* The queue document is written by the emit callback and again by _run.
Mirror(h) ==
    LET q == QueueStatusOf(handle[h].rec) IN
    /\ WorkerAt(h, "mirror")
    /\ SetHandle(h, [handle[h] EXCEPT !.qrec = q, !.pc = "exit"])
    /\ SaveDoc(handle[h].exec, [DocOf(h) EXCEPT !.queue = q])
    /\ UNCHANGED <<checkpoints, issued, active, pool, projectLock, request, calls, phase, crashes>>

ExitPaused(h) ==
    /\ WorkerAt(h, "exit")
    /\ handle[h].rec = "paused"
    /\ ~dispatching
    /\ pausedReservations' = pausedReservations \cup {handle[h].exec}
    /\ Step(h, "idle")
    /\ UNCHANGED <<doc, checkpoints, issued, active, projectQueues, readyProjects,
                   runningProjects, runningCount, dispatching, projectLock, request, calls, phase, crashes>>

ExitReleased(h) ==
    /\ WorkerAt(h, "exit")
    /\ handle[h].rec # "paused"
    /\ ~dispatching
    /\ ReleaseSlot(ProjectFor(h))
    /\ Step(h, "idle")
    /\ UNCHANGED <<doc, checkpoints, issued, active, pausedReservations, projectLock, request,
                   calls, phase, crashes>>

-----------------------------------------------------------------------------
(* stop, cancel_pending and pause.                                          *)

\* What stop goes on to do, by the status it read.
StopPath(status) ==
    CASE status = "awaiting_approval" -> "cancel_decide"
      [] status = "paused" -> "cancel_paused"
      [] OTHER -> "signal"

StopRead(r, e) ==
    /\ doc[e].status \notin {"none"} \cup Terminal
    /\ Enter(r, "stop", [Idle EXCEPT !.pc = StopPath(doc[e].status), !.exec = e,
                                     !.checkpoint = doc[e].approval, !.target = "cancelled"])
    /\ UNCHANGED <<doc, checkpoints, handle, issued, active, pool, projectLock, phase, crashes>>

\* Mutant: the cancelled run is withdrawn in memory only.
CancelPendingInMemory(h) ==
    /\ ~dispatching
    /\ handle[h].qrec = "pending"
    /\ SetHandle(h, [handle[h] EXCEPT !.stop = TRUE, !.qrec = "cancelled", !.rec = "cancelled"])
    /\ UNCHANGED doc

\* _cancel_pending_locked
CancelPending(h) ==
    /\ ~dispatching
    /\ handle[h].qrec = "pending"
    /\ SetHandle(h, [handle[h] EXCEPT !.stop = TRUE, !.qrec = "cancelled", !.rec = "cancelled"])
    /\ SaveDoc(handle[h].exec, [DocOf(h) EXCEPT !.queue = "cancelled", !.status = "cancelled",
                                                !.approval = handle[h].from])

StopSignal(r) ==
    LET h == active[request[r].exec] IN
    /\ At(r, "signal")
    /\ Return(r)
    /\ \/ h = NoHandle /\ UNCHANGED <<handle, doc>>
       \/ h # NoHandle /\ CancelPending(h)
       \/ /\ h # NoHandle
          /\ ~dispatching
          /\ handle[h].qrec # "pending"
          /\ SetHandle(h, [handle[h] EXCEPT !.stop = TRUE])
          /\ UNCHANGED doc
    /\ UNCHANGED <<checkpoints, issued, active, pool, projectLock, calls, phase, crashes>>

\* cancel_pending never looks at the document: it goes by the active handle.
CancelQueued(r, e) ==
    /\ active[e] # NoHandle
    /\ CancelPending(active[e])
    /\ Enter(r, "cancel_pending", Idle)
    /\ UNCHANGED <<checkpoints, issued, active, pool, projectLock, phase, crashes>>

PauseRead(r, e) ==
    /\ doc[e].status = "running"
    /\ Enter(r, "pause", [Idle EXCEPT !.pc = "pause_signal", !.exec = e])
    /\ UNCHANGED <<doc, checkpoints, handle, issued, active, pool, projectLock, phase, crashes>>

\* The handle has its thread once the worker is started.
Started(h) == handle[h].pc # "idle" \/ handle[h].rec # "queued"

PauseSignal(r) ==
    LET h == active[request[r].exec] IN
    /\ At(r, "pause_signal")
    /\ Return(r)
    /\ IF h # NoHandle /\ Started(h)
       THEN SetHandle(h, [handle[h] EXCEPT !.pause = TRUE])
       ELSE UNCHANGED handle
    /\ UNCHANGED <<doc, checkpoints, issued, active, pool, projectLock, calls, phase, crashes>>

-----------------------------------------------------------------------------
(* resume: a paused run continues in the slot it kept.                      *)

ResumeRead(r, e) ==
    /\ doc[e].status = "paused"
    /\ doc[e].resume # NoHandle
    /\ Enter(r, "resume", [Idle EXCEPT !.pc = "resume_save", !.exec = e])
    /\ UNCHANGED <<doc, checkpoints, handle, issued, active, pool, projectLock, phase, crashes>>

ResumeSave(r) ==
    LET e == request[r].exec IN
    /\ At(r, "resume_save")
    /\ NewHandle(e, "running", NoHandle)
    /\ SaveDoc(e, [doc[e] EXCEPT !.status = "queued", !.approval = NoHandle])
    /\ request' = [request EXCEPT ![r] = [@ EXCEPT !.pc = "resume_register", !.handle = issued + 1]]
    /\ UNCHANGED <<checkpoints, active, pool, projectLock, calls, phase, crashes>>

ResumeRegister(r) ==
    /\ At(r, "resume_register")
    /\ SaveDoc(request[r].exec, [DocFor(r) EXCEPT !.queue = "running"])
    /\ active' = [active EXCEPT ![request[r].exec] = request[r].handle]
    /\ Goto(r, "resume_spawn")
    /\ UNCHANGED <<checkpoints, handle, issued, pool, projectLock, calls, phase, crashes>>

\* Mutant: a resumed run is taken to have its slot already.
ResumeSpawnUncounted(r) ==
    /\ At(r, "resume_spawn")
    /\ ~dispatching
    /\ pausedReservations' = pausedReservations \ {request[r].exec}
    /\ Step(request[r].handle, "starting")
    /\ Return(r)
    /\ UNCHANGED <<doc, checkpoints, issued, active, projectQueues, readyProjects, runningProjects,
                   runningCount, dispatching, projectLock, calls, phase, crashes>>

\* A slot is counted only for a run that keeps no reservation.
ResumeSpawn(r) ==
    LET e == request[r].exec
        kept == e \in pausedReservations
    IN  /\ At(r, "resume_spawn")
        /\ ~dispatching
        /\ runningProjects' = IF kept THEN runningProjects ELSE runningProjects \cup {ProjectOf[e]}
        /\ runningCount' = IF kept THEN runningCount ELSE runningCount + 1
        /\ pausedReservations' = pausedReservations \ {e}
        /\ Step(request[r].handle, "starting")
        /\ Return(r)
        /\ UNCHANGED <<doc, checkpoints, issued, active, projectQueues, readyProjects, dispatching,
                       projectLock, calls, phase, crashes>>

-----------------------------------------------------------------------------
(* approve and reject: the decision, then the documents.                    *)

DecisionRead(r, e, op, pc) ==
    /\ doc[e].status = "awaiting_approval"
    /\ Enter(r, op, [Idle EXCEPT !.pc = pc, !.exec = e, !.checkpoint = doc[e].approval,
                                 !.target = "failed"])
    /\ UNCHANGED <<doc, checkpoints, handle, issued, active, pool, projectLock, phase, crashes>>

ApproveRead(r, e) == DecisionRead(r, e, "approve", "approve_expire")
RejectRead(r, e)  == DecisionRead(r, e, "reject", "reject_decide")

\* The checkpoint of request r takes the status decided, and r goes on at pc.
Decide(r, decided, pc) ==
    /\ checkpoints' = [checkpoints EXCEPT ![request[r].checkpoint] = decided]
    /\ Goto(r, pc)

\* Mutant: a decision does not look at an earlier one.
IsAwaitingUnchecked(r) == request[r].checkpoint # NoHandle

IsAwaiting(r) == checkpoints[request[r].checkpoint] = "awaiting"

\* expire_if_due: whether the deadline has passed is up to the clock.
ApproveExpire(r) ==
    /\ At(r, "approve_expire")
    /\ \/ IsAwaiting(r) /\ Decide(r, "expired", "settle")
       \/ checkpoints[request[r].checkpoint] = "expired" /\ Goto(r, "settle") /\ UNCHANGED checkpoints
       \/ checkpoints[request[r].checkpoint] # "expired" /\ Goto(r, "approve_decide") /\ UNCHANGED checkpoints
    /\ UNCHANGED <<doc, handle, issued, active, pool, projectLock, calls, phase, crashes>>

ApproveDecide(r) ==
    /\ At(r, "approve_decide")
    /\ \/ IsAwaiting(r) /\ Decide(r, "approved", "approve_save")
       \/ IsAwaiting(r) /\ Decide(r, "expired", "settle")
       \/ ~IsAwaiting(r) /\ Return(r) /\ UNCHANGED checkpoints
    /\ UNCHANGED <<doc, handle, issued, active, pool, projectLock, calls, phase, crashes>>

\* The run is rebuilt from its resume state and goes through the queue again.
ApproveSave(r) ==
    LET e == request[r].exec IN
    /\ At(r, "approve_save")
    /\ \/ /\ doc[e].resume # NoHandle
          /\ NewHandle(e, "pending", request[r].checkpoint)
          /\ SaveDoc(e, [doc[e] EXCEPT !.status = "queued", !.approval = request[r].checkpoint])
          /\ request' = [request EXCEPT ![r] = [@ EXCEPT !.pc = "register", !.handle = issued + 1]]
       \/ doc[e].resume = NoHandle /\ Return(r) /\ UNCHANGED <<doc, handle, issued>>
    /\ UNCHANGED <<checkpoints, active, pool, projectLock, calls, phase, crashes>>

RejectDecide(r) ==
    /\ At(r, "reject_decide")
    /\ \/ IsAwaiting(r) /\ Decide(r, "rejected", "settle")
       \/ ~IsAwaiting(r) /\ Return(r) /\ UNCHANGED checkpoints
    /\ UNCHANGED <<doc, handle, issued, active, pool, projectLock, calls, phase, crashes>>

\* Mutant: the cancel leaves the checkpoint open.
CancelUndecided(r) ==
    /\ At(r, "cancel_decide")
    /\ Goto(r, "settle")
    /\ UNCHANGED <<doc, checkpoints, handle, issued, active, pool, projectLock, calls, phase, crashes>>

\* _cancel_awaiting_approval goes on even when the checkpoint is already decided.
CancelDecide(r) ==
    /\ At(r, "cancel_decide")
    /\ \/ IsAwaiting(r) /\ Decide(r, "rejected", "settle")
       \/ ~IsAwaiting(r) /\ Goto(r, "settle") /\ UNCHANGED checkpoints
    /\ UNCHANGED <<doc, handle, issued, active, pool, projectLock, calls, phase, crashes>>

\* The document read at the start of the request is written back, now terminal.
Settle(r) ==
    /\ At(r, "settle")
    /\ SaveDoc(request[r].exec, [DocFor(r) EXCEPT !.status = request[r].target,
                                                  !.approval = request[r].checkpoint])
    /\ Goto(r, "cleanup")
    /\ UNCHANGED <<checkpoints, handle, issued, active, pool, projectLock, calls, phase, crashes>>

Cleanup(r) ==
    /\ At(r, "cleanup")
    /\ active' = [active EXCEPT ![request[r].exec] = NoHandle]
    /\ SaveDoc(request[r].exec, [DocFor(r) EXCEPT !.resume = NoHandle])
    /\ Return(r)
    /\ UNCHANGED <<checkpoints, handle, issued, pool, projectLock, calls, phase, crashes>>

-----------------------------------------------------------------------------
(* _cancel_user_pause: the documents, then the reservation.                 *)

CancelPaused(r) ==
    /\ At(r, "cancel_paused")
    /\ SaveDoc(request[r].exec, [DocFor(r) EXCEPT !.status = "cancelled", !.approval = NoHandle])
    /\ Goto(r, "cancel_mirror")
    /\ UNCHANGED <<checkpoints, handle, issued, active, pool, projectLock, calls, phase, crashes>>

CancelMirror(r) ==
    /\ At(r, "cancel_mirror")
    /\ SaveDoc(request[r].exec, [DocFor(r) EXCEPT !.queue = "cancelled", !.resume = NoHandle])
    /\ active' = [active EXCEPT ![request[r].exec] = NoHandle]
    /\ Goto(r, "cancel_release")
    /\ UNCHANGED <<checkpoints, handle, issued, pool, projectLock, calls, phase, crashes>>

CancelRelease(r) ==
    LET e == request[r].exec IN
    /\ At(r, "cancel_release")
    /\ ~dispatching
    /\ Return(r)
    /\ \/ e \notin pausedReservations /\ UNCHANGED pool
       \/ /\ e \in pausedReservations
          /\ pausedReservations' = pausedReservations \ {e}
          /\ ReleaseSlot(ProjectOf[e])
    /\ UNCHANGED <<doc, checkpoints, handle, issued, active, projectLock, calls, phase, crashes>>

-----------------------------------------------------------------------------
(* The process is killed; the next one restores the pool and the documents. *)

\* Memory is lost. A lock file left by a dead pid does not hold the project.
Crash ==
    /\ crashes < MaxCrashes
    /\ crashes' = crashes + 1
    /\ phase' = "booting"
    /\ handle' = [h \in Handles |-> [handle[h] EXCEPT !.pc = "idle"]]
    /\ active' = [e \in Executions |-> NoHandle]
    /\ projectQueues' = [p \in Projects |-> <<>>]
    /\ readyProjects' = <<>>
    /\ runningProjects' = {}
    /\ runningCount' = 0
    /\ pausedReservations' = {}
    /\ dispatching' = FALSE
    /\ projectLock' = [p \in Projects |-> NoHandle]
    /\ request' = [r \in Requests |-> Idle]
    /\ UNCHANGED <<doc, checkpoints, issued, calls>>

\* _restore_pause_reservations: either document may say "paused"; the queue
\* mirror is repaired from the execution; one reservation fits per project.
PausedOnDisk == {e \in Executions : doc[e].queue = "paused" \/ doc[e].status = "paused"}
OnePerProject(s) ==
    /\ \A e, f \in s : ProjectOf[e] = ProjectOf[f] => e = f
    /\ \A e \in PausedOnDisk : \E f \in s :
         ProjectOf[f] = ProjectOf[e] /\ (doc[e].queue = "paused" => doc[f].queue = "paused")

Restore ==
    /\ phase = "booting"
    /\ phase' = "reconciling"
    /\ \E s \in SUBSET PausedOnDisk :
         /\ OnePerProject(s)
         /\ pausedReservations' = s
         /\ runningProjects' = {ProjectOf[e] : e \in s}
         /\ runningCount' = Cardinality(s)
    /\ doc' = [e \in Executions |->
                 IF doc[e].status = "paused" THEN [doc[e] EXCEPT !.queue = "paused"] ELSE doc[e]]
    /\ UNCHANGED <<checkpoints, handle, issued, active, projectQueues, readyProjects, dispatching,
                   projectLock, request, calls, crashes>>

\* Mutant: a durable pause counts as interrupted.
InterruptedOrPaused(status) == status \in {"queued", "running"} \cup Durable

Interrupted(status) == status \in {"queued", "running"}

\* reconcile_executions: nothing that was in flight stays in flight.
Reconcile ==
    /\ phase = "reconciling"
    /\ phase' = "up"
    /\ doc' = [e \in Executions |->
                 [status |-> IF Interrupted(doc[e].status) THEN "failed" ELSE doc[e].status,
                  queue |-> IF doc[e].queue \in {"pending", "running"} THEN "failed" ELSE doc[e].queue,
                  approval |-> doc[e].approval, resume |-> doc[e].resume]]
    /\ UNCHANGED <<checkpoints, handle, issued, active, pool, projectLock, request, calls, crashes>>

-----------------------------------------------------------------------------
Dispatch == DispatchNext \/ DispatchDone

WorkerStep(h) ==
    \/ StartRun(h) \/ AcquireLock(h) \/ LockRefused(h)
    \/ RunToEnd(h) \/ RunRaises(h) \/ DrainToApproval(h) \/ DrainToPause(h)
    \/ Finish(h) \/ Raised(h)
    \/ CreateCheckpoint(h) \/ SaveResume(h) \/ Commit(h)
    \/ Mirror(h) \/ ExitPaused(h) \/ ExitReleased(h)

\* Steps that begin a request, and steps that carry it on.
NewRequest(r) ==
    \E e \in Executions :
        \/ Start(r, e) \/ StopRead(r, e) \/ CancelQueued(r, e) \/ PauseRead(r, e)
        \/ ResumeRead(r, e) \/ ApproveRead(r, e) \/ RejectRead(r, e)

RequestStep(r) ==
    \/ Register(r) \/ Enqueue(r) \/ StopSignal(r) \/ PauseSignal(r)
    \/ ResumeSave(r) \/ ResumeRegister(r) \/ ResumeSpawn(r)
    \/ ApproveExpire(r) \/ ApproveDecide(r) \/ ApproveSave(r)
    \/ RejectDecide(r) \/ CancelDecide(r) \/ Settle(r) \/ Cleanup(r)
    \/ CancelPaused(r) \/ CancelMirror(r) \/ CancelRelease(r)

Boot == Restore \/ Reconcile

Next ==
    \/ Dispatch
    \/ \E h \in Handles : WorkerStep(h) \/ NodePersist(h)
    \/ \E r \in Requests : NewRequest(r) \/ RequestStep(r)
    \/ Boot
    \/ Crash

Spec == Init /\ [][Next]_vars

\* Threads that can run do run, and nodes end; operators and kills owe nothing.
Fairness ==
    /\ WF_vars(Dispatch)
    /\ WF_vars(Boot)
    /\ \A h \in Handles : WF_vars(WorkerStep(h))
    /\ \A r \in Requests : WF_vars(RequestStep(r))

FairSpec == Spec /\ Fairness

-----------------------------------------------------------------------------
(* Properties that hold whatever requests run at the same time.             *)

Occupants == {h \in Handles : handle[h].pc # "idle"}

\* The pool never counts fewer slots than are taken: every live pool thread and
\* every paused reservation is counted (_dispatch_locked, resume, _pool_worker,
\* _cancel_user_pause), so max_global_workers cannot be overrun unnoticed.
SlotsCovered == Cardinality(Occupants) + Cardinality(pausedReservations) <= runningCount

\* No wake-up is lost: between lock sections a free slot leaves no project in the
\* rotation, and a project with a pending run holds a slot or is in the rotation
\* (_enqueue, _mark_ready_locked, _dispatch_locked, _pool_worker).
WorkConserving ==
    /\ ~dispatching => ~HasRoom
    /\ \A p \in Projects :
         (\E h \in InQueue(p) : handle[h].qrec = "pending") => p \in runningProjects \/ IsReady(p)

\* A run whose document says queued or running has somebody who will move it: a
\* request still building its handle, the queue of its project, or a pool thread.
NoOrphanRun ==
    phase = "up" =>
      \A e \in Executions : Interrupted(doc[e].status) =>
        \E h \in Handles :
          /\ handle[h].exec = e
          /\ \/ handle[h].pc # "idle"
             \/ \E r \in Requests : request[r].handle = h
             \/ handle[h].qrec = "pending" /\ h \in InQueue(ProjectOf[e])

\* A checkpoint starts at most one continuation, of its own execution, and only
\* once it is approved, whatever approvals, rejections, expiries and cancels race
\* (decide_checkpoint under _LOCK, _decide_and_resume).
OnlyApprovedResumes ==
    \A h \in Handles : handle[h].from # NoHandle =>
      /\ checkpoints[handle[h].from] = "approved"
      /\ handle[handle[h].from].exec = handle[h].exec
      /\ \A g \in Handles : handle[g].from = handle[h].from => g = h

\* The nodes of at most max_global_workers projects execute at the same time.
ExecutingWithinCeiling == Cardinality({p \in Projects : projectLock[p] # NoHandle}) <= MaxWorkers

-----------------------------------------------------------------------------
(* Properties of one operator at a time, with kills and restarts.           *)

\* The status of the execution documents follows the engine's promised life cycle.
Lifecycle == INSTANCE ExecutionLifecycle WITH status <- [e \in Executions |-> doc[e].status]
LifecycleSpec == Lifecycle!Spec

\* A durable pause can be resumed from exactly where it was left: its resume state
\* is on disk, written by the latest run of the execution, and for an approval by
\* the very run that created the checkpoint the document points to.
PausePointOnDisk ==
    \A e \in Executions :
      doc[e].status \in Durable =>
        /\ doc[e].resume # NoHandle
        /\ \A h \in Handles : handle[h].exec = e => h <= doc[e].resume
        /\ doc[e].status = "awaiting_approval" => doc[e].approval = doc[e].resume

\* Nothing leaves awaiting_approval before its checkpoint is decided, and nothing
\* is queued again from it unless the decision was approved.
ApprovalGate ==
    [][\A e \in Executions :
         doc[e].status = "awaiting_approval" /\ doc'[e].status # "awaiting_approval" =>
           /\ checkpoints'[doc[e].approval] # "awaiting"
           /\ doc'[e].status = "queued" => checkpoints'[doc[e].approval] = "approved"]_vars

\* A run in flight ends or rests, unless a paused run keeps the slots it waits for.
EveryRunSettles ==
    \A e \in Executions :
      Interrupted(doc[e].status) ~> (~Interrupted(doc[e].status) \/ pausedReservations # {})

-----------------------------------------------------------------------------
(* What the documentation says and the code does not keep.                  *)

Busy(e) == \/ \E r \in Requests : request[r].exec = e
           \/ \E h \in Occupants : handle[h].exec = e

\* Once its threads are gone, only a paused run keeps a reservation: cancelling a
\* pause is said to "release its retained pool slot".
ReservationBelongsToPaused ==
    phase = "up" => \A e \in pausedReservations : Busy(e) \/ doc[e].status = "paused"

\* An approval survives a restart: with no request or thread at work on it, a run
\* that still waits has not been approved already ("Survives process restart").
ApprovalSurvivesRestart ==
    phase = "up" => \A e \in Executions :
      doc[e].status = "awaiting_approval" /\ ~Busy(e) => checkpoints[doc[e].approval] # "approved"
=============================================================================

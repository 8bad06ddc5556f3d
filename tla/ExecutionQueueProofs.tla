------------------------ MODULE ExecutionQueueProofs ------------------------
(***************************************************************************)
(* The queues of ExecutionManager: no free slot beside a project that      *)
(* waits for one, and no run in flight that nobody will move.  Both are    *)
(* about what _enqueue, _dispatch_locked, _pool_worker, resume and cancel  *)
(* leave to each other between two sections of _queue_lock.  Then who      *)
(* writes an execution document, and with one operator at a time the       *)
(* ceiling on the runs that execute, which counts the slots taken.         *)
(***************************************************************************)
EXTENDS ExecutionManagerProofs

USE DEF Handles, NoHandle

-----------------------------------------------------------------------------
(* No wake-up is lost.                                                      *)

\* A process that is still booting has lost the queues.
BootEmpty == phase # "up" => \A p \in Projects : projectQueues[p] = <<>>

Conserved == WorkConserving /\ BootEmpty

\* What the pool's fields are, in the form the steps below use.
LEMMA PoolTypes ==
    ASSUME Typed
    PROVE  /\ handle \in [Handles -> HandleRecord]
           /\ projectQueues \in [Projects -> Seq(Handles)]
           /\ readyProjects \in Seq(Projects)
           /\ runningCount \in Nat /\ MaxWorkers \in Nat
           /\ issued \in Nat /\ dispatching \in BOOLEAN
           /\ \A p \in Projects : \A h \in InQueue(p) : h \in Handles /\ h <= issued
<1>1. \A p \in Projects : \A h \in InQueue(p) : h \in Handles /\ h <= issued
    BY QueuedHandle DEF InQueue
<1> QED BY <1>1, BoundsAssumption DEF Typed, TypeOK

\* A step that queues nothing and takes no slot away leaves nobody waiting.
LEMMA NothingToWake ==
    ASSUME Typed, Conserved,
           UNCHANGED <<projectQueues, readyProjects, dispatching, phase>>,
           runningProjects \subseteq runningProjects',
           runningCount' \in {runningCount, runningCount + 1},
           \A h \in Handles : h <= issued /\ handle'[h].qrec = "pending" => handle[h].qrec = "pending"
    PROVE  Conserved'
<1>1. BootEmpty'
    BY DEF Conserved, BootEmpty
<1>2. (~dispatching => ~HasRoom)'
    BY PoolTypes DEF Conserved, WorkConserving, HasRoom
<1>3. ASSUME NEW p \in Projects, (\E h \in InQueue(p) : handle[h].qrec = "pending")'
      PROVE  (p \in runningProjects \/ IsReady(p))'
  <2>1. InQueue(p)' = InQueue(p) /\ IsReady(p)' = IsReady(p)
      BY DEF InQueue, IsReady
  <2>2. \E h \in InQueue(p) : handle[h].qrec = "pending"
      BY <1>3, <2>1, PoolTypes
  <2> QED BY <2>1, <2>2 DEF Conserved, WorkConserving
<1> QED BY <1>1, <1>2, <1>3 DEF Conserved, WorkConserving

\* Appending p to the rotation makes it ready and keeps the others ready.
LEMMA MarkedReady ==
    ASSUME readyProjects \in Seq(Projects), NEW p \in Projects, NEW queued, NEW occupied,
           readyProjects' = MarkReady(p, queued, occupied)
    PROVE  /\ \A q : IsReady(q) => IsReady(q)'
           /\ (\E h \in queued : handle[h].qrec = "pending") => p \in occupied \/ IsReady(p)'
<1>1. CASE readyProjects' = readyProjects
    BY <1>1 DEF MarkReady, IsReady
<1>2. CASE readyProjects' = Append(readyProjects, p)
  <2>1. /\ Len(readyProjects) \in Nat /\ DOMAIN readyProjects = 1..Len(readyProjects)
        /\ Len(readyProjects') = Len(readyProjects) + 1
        /\ DOMAIN readyProjects' = 1..Len(readyProjects')
        /\ \A i \in 1..Len(readyProjects) : readyProjects'[i] = readyProjects[i]
        /\ readyProjects'[Len(readyProjects) + 1] = p
      BY <1>2, AppendProperties, LenProperties
  <2> QED BY <2>1 DEF IsReady
<1> QED BY <1>1, <1>2 DEF MarkReady

\* A slot given back re-arms its project and opens a dispatch.
LEMMA ReleaseWakes ==
    ASSUME Typed, Conserved, NEW p \in Projects, ReleaseSlot(p), phase' = phase,
           \A h \in Handles : handle'[h].qrec = handle[h].qrec
    PROVE  Conserved'
<1>1. BootEmpty' /\ (~dispatching => ~HasRoom)'
    BY DEF Conserved, BootEmpty, ReleaseSlot
<1>2. ASSUME NEW q \in Projects, (\E h \in InQueue(q) : handle[h].qrec = "pending")'
      PROVE  (q \in runningProjects \/ IsReady(q))'
  <2>1. InQueue(q)' = InQueue(q)
      BY DEF InQueue, ReleaseSlot
  <2>2. \E h \in InQueue(q) : handle[h].qrec = "pending"
      BY <1>2, <2>1, PoolTypes
  <2>3. q \in runningProjects \/ IsReady(q)
      BY <2>2 DEF Conserved, WorkConserving
  <2>4. /\ runningProjects' = runningProjects \ {p}
        /\ readyProjects' = MarkReady(p, InQueue(p), runningProjects \ {p})
      BY DEF ReleaseSlot
  <2>5. /\ IsReady(q) => IsReady(q)'
        /\ (\E h \in InQueue(p) : handle[h].qrec = "pending") => IsReady(p)'
    <3> HIDE DEF InQueue
    <3> QED BY <2>4, MarkedReady, PoolTypes
  <2> QED BY <2>2, <2>3, <2>4, <2>5
<1> QED BY <1>1, <1>2 DEF Conserved, WorkConserving

\* Taking the head off the rotation forgets no other project.
LEMMA StillReady ==
    ASSUME readyProjects \in Seq(Projects), readyProjects # <<>>, readyProjects' = Tail(readyProjects)
    PROVE  \A q : IsReady(q) => q = Head(readyProjects) \/ IsReady(q)'
<1>1. /\ Len(readyProjects) \in Nat /\ DOMAIN readyProjects = 1..Len(readyProjects)
      /\ Len(readyProjects') = Len(readyProjects) - 1
      /\ readyProjects' \in Seq(Projects)
      /\ \A i \in 1..Len(readyProjects') : readyProjects'[i] = readyProjects[i + 1]
    BY HeadTailProperties, LenProperties
<1>2. DOMAIN readyProjects' = 1..Len(readyProjects')
    BY <1>1, LenProperties
<1>3. ASSUME NEW q, NEW i \in DOMAIN readyProjects, readyProjects[i] = q
      PROVE  q = Head(readyProjects) \/ IsReady(q)'
  <2>1. CASE i = 1
      BY <1>3, <2>1
  <2>2. CASE i # 1
    <3>1. i - 1 \in DOMAIN readyProjects' /\ readyProjects'[i - 1] = q
        BY <1>1, <1>2, <1>3, <2>2
    <3> QED BY <3>1 DEF IsReady
  <2> QED BY <2>1, <2>2
<1> QED BY <1>3 DEF IsReady

\* Each turn of _dispatch_locked takes care of the project it removes from the
\* rotation, and the loop ends only when there is no room.
LEMMA DispatchConserves ==
    ASSUME Typed, Conserved, Dispatch
    PROVE  Conserved'
<1>1. CASE DispatchDone
    BY <1>1 DEF DispatchDone, Conserved, WorkConserving, BootEmpty, HasRoom, InQueue, IsReady
<1>2. CASE DispatchNext
  <2>1. readyProjects # <<>> /\ readyProjects \in Seq(Projects)
      BY <1>2, PoolTypes DEF DispatchNext, HasRoom
  <2>2. PICK p \in Projects : p = Head(readyProjects)
      BY <2>1
  <2>3. /\ dispatching' = TRUE /\ phase' = phase /\ dispatching /\ readyProjects' = Tail(readyProjects)
        /\ \/ p \notin runningProjects /\ \E i \in DOMAIN projectQueues[p] : AdmitFirst(p, i)
           \/ /\ ~\E h \in InQueue(p) : handle[h].qrec = "pending"
              /\ projectQueues' = [projectQueues EXCEPT ![p] = <<>>]
              /\ UNCHANGED <<handle, runningProjects>>
           \/ p \in runningProjects /\ UNCHANGED <<projectQueues, handle, runningProjects>>
      BY <1>2, <2>2, PoolTypes DEF DispatchNext
  <2>4. \A q : IsReady(q) => q = p \/ IsReady(q)'
      BY <2>1, <2>2, <2>3, StillReady
  <2>5. /\ runningProjects \subseteq runningProjects'
        /\ \A q \in Projects \ {p} : projectQueues'[q] = projectQueues[q]
        /\ \A h \in Handles : handle'[h].qrec = "pending" => handle[h].qrec = "pending"
    <3>1. ASSUME NEW i \in DOMAIN projectQueues[p], AdmitFirst(p, i)
          PROVE  \A h \in Handles : handle'[h].qrec = "pending" => handle[h].qrec = "pending"
      <4>1. handle[projectQueues[p][i]] \in HandleRecord
          BY <2>2, QueuedHandle, PoolTypes
      <4> QED BY <3>1, <4>1, PoolTypes DEF AdmitFirst, SetHandle, HandleRecord
    <3>2. \A q \in Projects \ {p} : projectQueues'[q] = projectQueues[q]
        BY <2>2, <2>3, PoolTypes DEF AdmitFirst
    <3> QED BY <2>3, <3>1, <3>2 DEF AdmitFirst
  <2>6. p \in runningProjects' \/ ~(\E h \in InQueue(p) : handle[h].qrec = "pending")'
    <3>1. CASE projectQueues' = [projectQueues EXCEPT ![p] = <<>>]
      <4>1. projectQueues'[p] = <<>>
          BY <2>2, <3>1, PoolTypes
      <4> QED BY <4>1 DEF InQueue
    <3> QED BY <2>3, <3>1 DEF AdmitFirst
  <2>7. ASSUME NEW q \in Projects, (\E h \in InQueue(q) : handle[h].qrec = "pending")'
        PROVE  (q \in runningProjects \/ IsReady(q))'
    <3>1. CASE q = p
        BY <2>6, <2>7, <3>1
    <3>2. CASE q # p
      <4>1. InQueue(q)' = InQueue(q)
          BY <2>5, <3>2 DEF InQueue
      <4>2. \E h \in InQueue(q) : handle[h].qrec = "pending"
          BY <2>5, <2>7, <4>1, PoolTypes
      <4> QED BY <2>4, <2>5, <3>2, <4>2 DEF Conserved, WorkConserving
    <3> QED BY <3>1, <3>2
  <2>8. phase = "up"
      BY <2>3 DEF Typed, BootQuiet
  <2> QED BY <2>3, <2>7, <2>8 DEF Conserved, WorkConserving, BootEmpty
<1> QED BY <1>1, <1>2 DEF Dispatch

\* A run that is queued makes its project ready unless the project is running.
LEMMA EnqueueConserves ==
    ASSUME Typed, Conserved, NEW r \in Requests, Enqueue(r)
    PROVE  Conserved'
<1>0. PICK h \in Handles : h = request[r].handle /\ h <= issued
  <2>1. request[r].handle \in 1..issued
      BY DEF Typed, RequestsBuilt, Enqueue, At
  <2> QED BY <2>1, BoundsAssumption DEF Typed, TypeOK
<1>1. PICK p \in Projects : p = ProjectFor(h)
    BY <1>0, ProjectOfAssumption DEF Typed, HandlesBuilt, ProjectFor
<1>2. /\ projectQueues' = [projectQueues EXCEPT ![p] = Append(@, h)]
      /\ readyProjects' = MarkReady(p, InQueue(p) \cup {h}, runningProjects)
      /\ dispatching' = TRUE
      /\ UNCHANGED <<handle, runningProjects, phase>>
    BY <1>0, <1>1 DEF Enqueue
<1>3. phase = "up"
    BY DEF Enqueue, At
<1>4. InQueue(p)' = InQueue(p) \cup {h}
  <2>1. projectQueues'[p] = Append(projectQueues[p], h) /\ projectQueues[p] \in Seq(Handles)
      BY <1>1, <1>2, PoolTypes
  <2>2. /\ Len(projectQueues[p]) \in Nat
        /\ DOMAIN projectQueues[p] = 1..Len(projectQueues[p])
        /\ DOMAIN projectQueues'[p] = 1..(Len(projectQueues[p]) + 1)
        /\ \A i \in 1..Len(projectQueues[p]) : projectQueues'[p][i] = projectQueues[p][i]
        /\ projectQueues'[p][Len(projectQueues[p]) + 1] = h
      BY <1>1, <2>1, AppendProperties, LenProperties
  <2> QED BY <2>2, SMTT(60) DEF InQueue
<1>5. \A q \in Projects \ {p} : InQueue(q)' = InQueue(q)
    BY <1>1, <1>2, PoolTypes DEF InQueue
<1>6. /\ \A q : IsReady(q) => IsReady(q)'
      /\ (\E g \in InQueue(p) \cup {h} : handle[g].qrec = "pending") => p \in runningProjects \/ IsReady(p)'
  <2> HIDE DEF InQueue
  <2> QED BY <1>1, <1>2, MarkedReady, PoolTypes
<1>7. ASSUME NEW q \in Projects, (\E g \in InQueue(q) : handle[g].qrec = "pending")'
      PROVE  (q \in runningProjects \/ IsReady(q))'
    BY <1>2, <1>4, <1>5, <1>6, <1>7 DEF Conserved, WorkConserving
<1> QED BY <1>2, <1>3, <1>7 DEF Conserved, WorkConserving, BootEmpty

\* A kill empties the queues with the rotation; a restart queues nothing.
LEMMA RestartConserves ==
    ASSUME Typed, Conserved, Crash \/ Restore \/ Reconcile
    PROVE  Conserved'
<1>1. CASE Crash
  <2>1. \A p \in Projects : projectQueues'[p] = <<>>
      BY <1>1 DEF Crash
  <2> QED BY <1>1, <2>1 DEF Crash, Conserved, WorkConserving, BootEmpty, InQueue, HasRoom
<1>2. CASE Restore
  <2>1. /\ readyProjects = <<>> /\ UNCHANGED <<readyProjects, projectQueues, handle>>
        /\ \A p \in Projects : projectQueues[p] = <<>>
      BY <1>2 DEF Restore, Typed, BootQuiet, Conserved, BootEmpty
  <2>2. \A p \in Projects : projectQueues'[p] = <<>>
      BY <2>1
  <2> QED BY <2>1, <2>2 DEF Conserved, WorkConserving, BootEmpty, InQueue, HasRoom
<1>3. CASE Reconcile
  <2>1. UNCHANGED <<handle, pool>> /\ phase' = "up"
      BY <1>3 DEF Reconcile
  <2> QED BY <2>1 DEF pool, Conserved, WorkConserving, BootEmpty, InQueue, HasRoom, IsReady
<1> QED BY <1>1, <1>2, <1>3

\* What a worker may do to a handle: its own, which it never makes pending.
LEMMA WorkerHandle ==
    ASSUME Typed, NEW h \in Handles, WorkerStep(h) \/ NodePersist(h)
    PROVE  /\ handle[h].pc # "idle" /\ phase = "up" /\ phase' = phase
           /\ UNCHANGED <<issued, request, projectQueues>>
           /\ \A g \in Handles \ {h} : handle'[g] = handle[g]
           /\ handle'[h].exec = handle[h].exec
           /\ \/ handle'[h].qrec = handle[h].qrec
              \/ handle[h].pc = "mirror" /\ handle'[h].qrec = QueueStatusOf(handle[h].rec)
<1>1. handle \in [Handles -> HandleRecord] /\ handle[h] \in HandleRecord
    BY PoolTypes
<1> DEFINE Kept(q) == /\ handle'[h].exec = handle[h].exec /\ handle'[h].qrec = q
                      /\ \A x \in Handles \ {h} : handle'[x] = handle[x]
<1>2. /\ \A c \in {"idle"} \cup WorkerPcs :
           SetHandle(h, [handle[h] EXCEPT !.pc = c]) => Kept(handle[h].qrec)
      /\ \A c \in {"idle"} \cup WorkerPcs, s \in ExecStatuses :
           SetHandle(h, [handle[h] EXCEPT !.rec = s, !.pc = c]) => Kept(handle[h].qrec)
      /\ \A c \in {"idle"} \cup WorkerPcs, s \in ExecStatuses :
           SetHandle(h, [handle[h] EXCEPT !.pc = c, !.rec = s]) => Kept(handle[h].qrec)
      /\ \A c \in {"idle"} \cup WorkerPcs, q \in QueueStatuses :
           SetHandle(h, [handle[h] EXCEPT !.qrec = q, !.pc = c]) => Kept(q)
    BY <1>1 DEF HandleRecord, SetHandle
<1>3. /\ {"idle", "locking", "running", "raised", "finishing", "checkpoint", "save_resume", "commit",
          "mirror", "exit"} \subseteq {"idle"} \cup WorkerPcs
      /\ {"running", "cancelled", "failed", "paused", "awaiting_approval"} \cup Terminal \subseteq ExecStatuses
    BY DEF WorkerPcs, ExecStatuses, Terminal, Durable
<1>5. handle[h].pc # "idle" /\ phase = "up" /\ phase' = phase
    BY DEF WorkerStep, NodePersist, StartRun, AcquireLock, LockRefused, RunToEnd, RunRaises,
           DrainToApproval, DrainToPause, LeaveLoop, Finish, Raised, CreateCheckpoint, SaveResume,
           Commit, Mirror, ExitPaused, ExitReleased, WorkerAt
<1>6. UNCHANGED <<issued, request, projectQueues>>
    BY DEF WorkerStep, NodePersist, StartRun, AcquireLock, LockRefused, RunToEnd, RunRaises,
           DrainToApproval, DrainToPause, LeaveLoop, Finish, Raised, CreateCheckpoint, SaveResume,
           Commit, Mirror, ExitPaused, ExitReleased, ReleaseSlot, pool
<1> HIDE DEF Kept
<1>4. ASSUME NEW q, Kept(q),
             \/ q = handle[h].qrec
             \/ handle[h].pc = "mirror" /\ q = QueueStatusOf(handle[h].rec)
      PROVE  /\ \A g \in Handles \ {h} : handle'[g] = handle[g]
             /\ handle'[h].exec = handle[h].exec
             /\ \/ handle'[h].qrec = handle[h].qrec
                \/ handle[h].pc = "mirror" /\ handle'[h].qrec = QueueStatusOf(handle[h].rec)
    BY <1>4 DEF Kept
<1>7. CASE NodePersist(h)
  <2>1. handle' = handle
      BY <1>7 DEF NodePersist
  <2> QED BY <1>5, <1>6, <2>1
<1>8. CASE Mirror(h)
  <2> DEFINE q == QueueStatusOf(handle[h].rec)
  <2>1. q \in QueueStatuses
      BY <1>8 DEF Mirror, WorkerAt, Typed, HandlesBuilt, QueueStatusOf, QueueStatuses, Terminal, Durable
  <2>2. SetHandle(h, [handle[h] EXCEPT !.qrec = q, !.pc = "exit"]) /\ handle[h].pc = "mirror"
      BY <1>8 DEF Mirror, WorkerAt
  <2>3. Kept(q)
    <3> HIDE DEF q
    <3> QED BY <1>2, <1>3, <2>1, <2>2
  <2>4. q = QueueStatusOf(handle[h].rec)
      OBVIOUS
  <2> HIDE DEF q
  <2> QED BY <1>4, <1>5, <1>6, <2>2, <2>3, <2>4
<1>9. CASE WorkerStep(h) /\ ~Mirror(h)
  <2>1. \/ \E c \in {"idle"} \cup WorkerPcs : SetHandle(h, [handle[h] EXCEPT !.pc = c])
        \/ \E c \in {"idle"} \cup WorkerPcs, s \in ExecStatuses :
             \/ SetHandle(h, [handle[h] EXCEPT !.rec = s, !.pc = c])
             \/ SetHandle(h, [handle[h] EXCEPT !.pc = c, !.rec = s])
    <3>1. CASE StartRun(h)
        BY <1>3, <3>1 DEF StartRun
    <3>2. CASE Finish(h)
        BY <1>3, <3>2 DEF Finish
    <3>3. CASE Raised(h)
        BY <1>3, <3>3 DEF Raised
    <3>4. CASE Commit(h)
      <4>1. PausedAs(h) \in ExecStatuses
          BY <1>3 DEF PausedAs
      <4> QED BY <1>3, <3>4, <4>1 DEF Commit
    <3>5. CASE \E c \in {"idle"} \cup WorkerPcs : Step(h, c)
        BY <3>5 DEF Step
    <3>6. CASE WorkerStep(h) /\ ~Mirror(h) /\ ~StartRun(h) /\ ~Finish(h) /\ ~Raised(h) /\ ~Commit(h)
      <4>1. \E c \in {"idle"} \cup WorkerPcs : Step(h, c)
          BY <1>3, <3>6 DEF WorkerStep, AcquireLock, LockRefused, RunToEnd, RunRaises, DrainToApproval,
                      DrainToPause, LeaveLoop, CreateCheckpoint, SaveResume, ExitPaused, ExitReleased
      <4> QED BY <3>5, <4>1
    <3> QED BY <1>9, <3>1, <3>2, <3>3, <3>4, <3>6
  <2>2. Kept(handle[h].qrec)
      BY <1>2, <2>1
  <2> QED BY <1>4, <1>5, <1>6, <2>2
<1> QED BY <1>7, <1>8, <1>9

\* A worker conserves: it takes no slot, and gives its own back only with a dispatch.
LEMMA WorkerConserves ==
    ASSUME Typed, Conserved, NEW h \in Handles, WorkerStep(h) \/ NodePersist(h)
    PROVE  Conserved'
<1>1. QueueStatusOf(handle[h].rec) # "pending" \/ handle[h].pc # "mirror"
    BY DEF Typed, HandlesBuilt, QueueStatusOf, Terminal, Durable
<1>2. \A g \in Handles : handle'[g].qrec = "pending" => handle[g].qrec = "pending"
    BY <1>1, WorkerHandle
<1>3. CASE ExitReleased(h)
  <2>1. ReleaseSlot(ProjectFor(h)) /\ Step(h, "idle") /\ phase' = phase
      BY <1>3 DEF ExitReleased
  <2>2. ProjectFor(h) \in Projects
    <3>1. h <= issued
        BY <1>3, PoolTypes DEF ExitReleased, WorkerAt, Typed, HandlesBuilt
    <3> QED BY <3>1, ProjectOfAssumption DEF Typed, HandlesBuilt, ProjectFor
  <2>3. \A g \in Handles : handle'[g].qrec = handle[g].qrec
    <3>1. handle[h] \in HandleRecord /\ handle \in [Handles -> HandleRecord]
        BY PoolTypes
    <3> QED BY <2>1, <3>1 DEF Step, SetHandle, HandleRecord
  <2> QED BY <2>1, <2>2, <2>3, ReleaseWakes
<1>4. CASE ~ExitReleased(h)
  <2>1. UNCHANGED <<projectQueues, readyProjects, dispatching, phase, runningProjects, runningCount>>
      BY <1>4 DEF WorkerStep, NodePersist, StartRun, AcquireLock, LockRefused, RunToEnd, RunRaises,
           DrainToApproval, DrainToPause, LeaveLoop, Finish, Raised, CreateCheckpoint, SaveResume,
           Commit, Mirror, ExitPaused, pool
  <2> QED BY <1>2, <2>1, NothingToWake
<1> QED BY <1>3, <1>4

\* What a request may do to a handle that is already built.
LEMMA RequestHandle ==
    ASSUME Typed, NEW r \in Requests, NewRequest(r) \/ RequestStep(r)
    PROVE  /\ phase = "up" /\ phase' = phase
           /\ \A q \in Requests \ {r} : request'[q] = request[q]
           /\ \A h \in Handles : h <= issued =>
                /\ handle'[h].exec = handle[h].exec
                /\ handle'[h].pc = handle[h].pc \/ (ResumeSpawn(r) /\ h = request[r].handle)
                /\ handle'[h].qrec = handle[h].qrec \/ CancelPending(h)
           /\ \A h \in Handles : h > issued => handle'[h].pc = "idle"
<1>1. /\ handle \in [Handles -> HandleRecord] /\ issued \in Nat
      /\ active \in [Executions -> Handles \cup {NoHandle}]
    BY PoolTypes DEF Typed, TypeOK
<1>2. phase = "up" /\ phase' = phase
    BY DEF NewRequest, Start, StopRead, CancelQueued, PauseRead, ResumeRead, ApproveRead, RejectRead,
           DecisionRead, Enter, RequestStep, Register, Enqueue, StopSignal, PauseSignal, ResumeSave,
           ResumeRegister, ResumeSpawn, ApproveExpire, ApproveDecide, ApproveSave, RejectDecide,
           CancelDecide, Settle, Cleanup, CancelPaused, CancelMirror, CancelRelease, At
<1>3. \A q \in Requests \ {r} : request'[q] = request[q]
  <2>1. request \in [Requests -> RequestRecord]
      BY DEF Typed, TypeOK
  <2>2. \E x : request' = [request EXCEPT ![r] = x]
    <3>1. CASE NewRequest(r)
        BY <3>1 DEF NewRequest, Start, StopRead, CancelQueued, PauseRead, ResumeRead, ApproveRead, RejectRead,
                    DecisionRead, Enter
    <3>2. CASE RequestStep(r)
        BY <3>2 DEF RequestStep, Register, Enqueue, StopSignal, PauseSignal, ResumeSave,
           ResumeRegister, ResumeSpawn, ApproveExpire, ApproveDecide, ApproveSave, RejectDecide,
           CancelDecide, Settle, Cleanup, CancelPaused, CancelMirror, CancelRelease, Goto, Return, Decide
    <3> QED BY <3>1, <3>2
  <2> QED BY <2>1, <2>2
<1>4. \/ handle' = handle
      \/ \E e, q, k : NewHandle(e, q, k)
      \/ \E h \in Handles : CancelPending(h)
      \/ \E h \in Handles : SetHandle(h, [handle[h] EXCEPT !.stop = TRUE])
      \/ \E h \in Handles : SetHandle(h, [handle[h] EXCEPT !.pause = TRUE])
      \/ ResumeSpawn(r)
  <2>1. CASE NewRequest(r)
      BY <1>1, <2>1 DEF NewRequest, Start, StopRead, CancelQueued, PauseRead, ResumeRead, ApproveRead,
                        RejectRead, DecisionRead
  <2>2. request[r].pc # "idle" => active[request[r].exec] \in Handles \cup {NoHandle}
      BY <1>1 DEF Typed, RequestsBuilt
  <2>3. CASE StopSignal(r)
      BY <2>2, <2>3 DEF StopSignal, At
  <2>4. CASE PauseSignal(r)
      BY <2>2, <2>4 DEF PauseSignal, At
  <2>5. CASE RequestStep(r) /\ ~StopSignal(r) /\ ~PauseSignal(r)
      BY <2>5 DEF RequestStep, Register, Enqueue, ResumeSave, ResumeRegister, ApproveExpire, ApproveDecide,
                  ApproveSave, RejectDecide, CancelDecide, Settle, Cleanup, CancelPaused, CancelMirror,
                  CancelRelease
  <2> QED BY <2>1, <2>3, <2>4, <2>5
<1>5. ASSUME NEW h \in Handles, h <= issued
      PROVE  /\ handle'[h].exec = handle[h].exec
             /\ handle'[h].pc = handle[h].pc \/ (ResumeSpawn(r) /\ h = request[r].handle)
             /\ handle'[h].qrec = handle[h].qrec \/ CancelPending(h)
  <2>1. CASE handle' = handle
      BY <2>1
  <2>2. CASE \E e, q, k : NewHandle(e, q, k)
      BY <1>1, <1>5, <2>2 DEF NewHandle
  <2>3. ASSUME NEW g \in Handles, CancelPending(g)
        PROVE  /\ handle'[h].exec = handle[h].exec /\ handle'[h].pc = handle[h].pc
               /\ handle'[h].qrec = handle[h].qrec \/ CancelPending(h)
    <3>1. SetHandle(g, [handle[g] EXCEPT !.stop = TRUE, !.qrec = "cancelled", !.rec = "cancelled"])
        BY <2>3 DEF CancelPending
    <3>2. handle[g] \in HandleRecord
        BY <1>1
    <3> QED BY <1>1, <2>3, <3>1, <3>2 DEF SetHandle, HandleRecord
  <2>4. ASSUME NEW g \in Handles,
               \/ SetHandle(g, [handle[g] EXCEPT !.stop = TRUE])
               \/ SetHandle(g, [handle[g] EXCEPT !.pause = TRUE])
        PROVE  /\ handle'[h].exec = handle[h].exec /\ handle'[h].pc = handle[h].pc
               /\ handle'[h].qrec = handle[h].qrec
    <3>1. handle[g] \in HandleRecord
        BY <1>1
    <3>2. CASE SetHandle(g, [handle[g] EXCEPT !.stop = TRUE])
        BY <1>1, <3>1, <3>2 DEF SetHandle, HandleRecord
    <3>3. CASE SetHandle(g, [handle[g] EXCEPT !.pause = TRUE])
        BY <1>1, <3>1, <3>3 DEF SetHandle, HandleRecord
    <3> QED BY <2>4, <3>2, <3>3
  <2>5. CASE ResumeSpawn(r)
    <3>1. SetHandle(request[r].handle, [handle[request[r].handle] EXCEPT !.pc = "starting"])
        BY <2>5 DEF ResumeSpawn, Step
    <3>2. handle[h] \in HandleRecord
        BY <1>1
    <3> QED BY <1>1, <2>5, <3>1, <3>2 DEF SetHandle, HandleRecord
  <2> QED BY <1>4, <2>1, <2>2, <2>3, <2>4, <2>5
<1>6. ASSUME NEW h \in Handles, h > issued
      PROVE  handle'[h].pc = "idle"
  <2>1. handle[h].pc = "idle" /\ handle[h] \in HandleRecord
      BY <1>1, <1>6 DEF Typed, HandlesBuilt
  <2>2. CASE \E e, q, k : NewHandle(e, q, k)
      BY <1>1, <1>6, <2>1, <2>2 DEF NewHandle
  <2>3. ASSUME NEW g \in Handles,
               \/ SetHandle(g, [handle[g] EXCEPT !.stop = TRUE])
               \/ SetHandle(g, [handle[g] EXCEPT !.pause = TRUE])
               \/ SetHandle(g, [handle[g] EXCEPT !.stop = TRUE, !.qrec = "cancelled", !.rec = "cancelled"])
        PROVE  handle'[h].pc = "idle"
    <3>1. handle[g] \in HandleRecord
        BY <1>1
    <3>2. /\ [handle[g] EXCEPT !.stop = TRUE].pc = handle[g].pc
          /\ [handle[g] EXCEPT !.pause = TRUE].pc = handle[g].pc
          /\ [handle[g] EXCEPT !.stop = TRUE, !.qrec = "cancelled", !.rec = "cancelled"].pc = handle[g].pc
        BY <3>1 DEF HandleRecord
    <3>3. PICK x : SetHandle(g, x) /\ x.pc = handle[g].pc
        BY <2>3, <3>2
    <3> QED BY <1>1, <2>1, <3>3 DEF SetHandle
  <2>4. CASE ResumeSpawn(r)
    <3>1. SetHandle(request[r].handle, [handle[request[r].handle] EXCEPT !.pc = "starting"])
        BY <2>4 DEF ResumeSpawn, Step
    <3>2. request[r].handle <= issued /\ request[r].handle \in Handles
        BY <1>1, <2>4, BoundsAssumption DEF ResumeSpawn, At, Typed, TypeOK, RequestsBuilt
    <3> QED BY <1>1, <1>6, <2>1, <3>1, <3>2 DEF SetHandle
  <2> QED BY <1>4, <2>1, <2>2, <2>3, <2>4 DEF CancelPending
<1> QED BY <1>2, <1>3, <1>5, <1>6

\* A request conserves: it queues with a dispatch, and frees a slot with one.
LEMMA RequestConserves ==
    ASSUME Typed, Conserved, NEW r \in Requests, NewRequest(r) \/ RequestStep(r)
    PROVE  Conserved'
<1>1. \A h \in Handles : h <= issued /\ handle'[h].qrec = "pending" => handle[h].qrec = "pending"
    BY RequestHandle DEF CancelPending
<1>2. CASE Enqueue(r)
    BY <1>2, EnqueueConserves
<1>3. CASE CancelRelease(r)
  <2>1. UNCHANGED <<handle, phase>>
      BY <1>3 DEF CancelRelease
  <2>2. CASE UNCHANGED pool
      BY <1>1, <2>1, <2>2, NothingToWake DEF pool
  <2>3. CASE request[r].exec \in pausedReservations /\ ReleaseSlot(ProjectOf[request[r].exec])
    <3>1. ProjectOf[request[r].exec] \in Projects
        BY <2>3, ProjectOfAssumption DEF Typed, TypeOK
    <3> QED BY <2>1, <2>3, <3>1, ReleaseWakes
  <2> QED BY <1>3, <2>2, <2>3 DEF CancelRelease
<1>4. CASE ~Enqueue(r) /\ ~CancelRelease(r)
  <2>1. /\ UNCHANGED <<projectQueues, readyProjects, dispatching, phase>>
        /\ runningProjects \subseteq runningProjects'
        /\ runningCount' \in {runningCount, runningCount + 1}
    <3>1. CASE ResumeSpawn(r)
        BY <3>1 DEF ResumeSpawn
    <3>2. CASE ~ResumeSpawn(r)
        BY <1>4, <3>2
           DEF NewRequest, Start, StopRead, CancelQueued, PauseRead, ResumeRead, ApproveRead, RejectRead,
           DecisionRead, RequestStep, Register, StopSignal, PauseSignal, ResumeSave,
           ResumeRegister, ApproveExpire, ApproveDecide, ApproveSave, RejectDecide,
           CancelDecide, Settle, Cleanup, CancelPaused, CancelMirror, pool
    <3> QED BY <3>1, <3>2
  <2> QED BY <1>1, <2>1, NothingToWake
<1> QED BY <1>2, <1>3, <1>4

\* For every pool size and any number of projects, runs, requests and kills: no
\* free slot is left beside a project of the rotation, and no project with a
\* pending run is left out of it (_enqueue, _dispatch_locked, _pool_worker).
THEOREM NoLostWakeup == Spec => []WorkConserving
<1>1. Init => Conserved
    BY DEF Init, Conserved, WorkConserving, BootEmpty, HasRoom, InQueue
<1>2. Typed /\ Conserved /\ [Next]_vars => Conserved'
  <2> SUFFICES ASSUME Typed, Conserved, [Next]_vars PROVE Conserved'
      OBVIOUS
  <2>1. CASE UNCHANGED vars
      BY <2>1 DEF vars, pool, Conserved, WorkConserving, BootEmpty, HasRoom, InQueue, IsReady
  <2> QED BY <2>1, DispatchConserves, WorkerConserves, RequestConserves, RestartConserves DEF Next, Boot
<1>3. Conserved => WorkConserving
    BY DEF Conserved
<1> QED BY <1>1, <1>2, <1>3, AlwaysTyped, PTL DEF Spec

-----------------------------------------------------------------------------
(* Nobody is forgotten.                                                     *)

\* The points of a pool thread before it wrote how its run ended or rests.
Early == WorkerPcs \ {"mirror", "exit"}

\* A request that will still queue or start the handle it built.
Carried(r, h) ==
    /\ request[r].handle = h
    /\ \/ request[r].pc \in {"register", "enqueue"} /\ handle[h].qrec = "pending"
       \/ request[r].pc \in {"resume_register", "resume_spawn"}

\* Handle h still has to write how e ends or rests.
Mover(e, h) ==
    /\ handle[h].exec = e
    /\ \/ handle[h].pc \in Early
       \/ \E r \in Requests : Carried(r, h)
       \/ handle[h].qrec = "pending" /\ h \in InQueue(ProjectOf[e])

\* A run in flight has a handle that still has to write its end: stronger than
\* NoOrphanRun, because a thread past that write moves nothing any more.
Attended ==
    phase = "up" =>
      \A e \in Executions : Interrupted(doc[e].status) => \E h \in Handles : Mover(e, h)

\* A pending handle has no thread, and resume never builds a pending one.
PendingWaits ==
    /\ \A h \in Handles : handle[h].qrec = "pending" => handle[h].pc = "idle"
    /\ \A r \in Requests : request[r].pc \in {"resume_register", "resume_spawn"} =>
         handle[request[r].handle].qrec # "pending"

Moving == Attended /\ PendingWaits

\* Only handles that were built are movers.
LEMMA MoverBuilt ==
    ASSUME Typed, NEW e \in Executions, NEW h \in Handles, Mover(e, h)
    PROVE  h <= issued
<1>1. CASE handle[h].pc \in Early
    BY <1>1, PoolTypes DEF Typed, HandlesBuilt, Early, WorkerPcs
<1>2. CASE \E r \in Requests : Carried(r, h)
    BY <1>2, PoolTypes DEF Typed, RequestsBuilt, Carried
<1>3. CASE handle[h].qrec = "pending"
    BY <1>3, PoolTypes DEF Typed, HandlesBuilt
<1> QED BY <1>1, <1>2, <1>3 DEF Mover

\* A built handle is some execution's.
LEMMA BuiltExec ==
    ASSUME Typed, NEW h \in Handles, handle[h].pc # "idle" \/ handle[h].qrec = "pending" \/ h <= issued
    PROVE  h <= issued /\ handle[h].exec \in Executions
<1>1. h <= issued
    BY PoolTypes DEF Typed, HandlesBuilt
<1> QED BY <1>1 DEF Typed, HandlesBuilt

\* A saved document is the one the execution has, and leaves the others alone.
LEMMA Saved ==
    ASSUME Typed, NEW e \in Executions, NEW d, SaveDoc(e, d)
    PROVE  doc'[e] = d /\ \A f \in Executions \ {e} : doc'[f] = doc[f]
BY DEF Typed, TypeOK, SaveDoc

\* What a pool thread writes, and where it stands then.
LEMMA WorkerWrites ==
    ASSUME Typed, NEW h \in Handles, WorkerStep(h) \/ NodePersist(h)
    PROVE  /\ \A f \in Executions \ {handle[h].exec} : doc'[f] = doc[f]
           /\ \/ handle'[h].pc \in Early
              \/ ~Interrupted(doc'[handle[h].exec].status)
              \/ /\ handle[h].pc \in {"mirror", "exit"}
                 /\ doc'[handle[h].exec].status = doc[handle[h].exec].status
<1> DEFINE e == handle[h].exec
<1>1. /\ e \in Executions /\ DocOf(h) \in DocRecord
      /\ handle \in [Handles -> HandleRecord] /\ handle[h] \in HandleRecord
      /\ doc \in [Executions -> DocRecord] /\ DocOf(h) = doc[e]
  <2>1. handle[h].pc # "idle"
      BY WorkerHandle
  <2> QED BY <2>1, BuiltExec, PoolTypes DEF Typed, TypeOK, DocOf
<1>2. \A d : SaveDoc(e, d) => doc'[e] = d /\ \A f \in Executions \ {e} : doc'[f] = doc[f]
    BY <1>1 DEF SaveDoc
<1>3. \A c : Step(h, c) => handle'[h].pc = c
    BY <1>1 DEF Step, SetHandle, HandleRecord
<1>4. CASE StartRun(h) \/ NodePersist(h)
  <2>1. /\ handle'[h].pc \in Early
        /\ SaveDoc(e, [DocOf(h) EXCEPT !.status = "running", !.approval = NoHandle])
    <3>1. CASE StartRun(h)
        BY <1>1, <3>1 DEF StartRun, SetHandle, HandleRecord, Early, WorkerPcs
    <3>2. CASE NodePersist(h)
        BY <1>1, <3>2 DEF NodePersist, WorkerAt, Early, WorkerPcs
    <3> QED BY <1>4, <3>1, <3>2
  <2> QED BY <1>2, <2>1
<1>5. CASE AcquireLock(h) \/ LockRefused(h) \/ RunToEnd(h) \/ RunRaises(h) \/ DrainToApproval(h)
           \/ DrainToPause(h) \/ CreateCheckpoint(h)
  <2>1. doc' = doc /\ \E c \in Early : Step(h, c)
      BY <1>5 DEF AcquireLock, LockRefused, RunToEnd, RunRaises, DrainToApproval, DrainToPause,
                  CreateCheckpoint, LeaveLoop, Early, WorkerPcs
  <2> QED BY <1>3, <2>1
<1>6. CASE SaveResume(h)
  <2>1. SaveDoc(e, [DocOf(h) EXCEPT !.resume = h]) /\ handle'[h].pc \in Early
      BY <1>3, <1>6 DEF SaveResume, Early, WorkerPcs
  <2> QED BY <1>2, <2>1
<1>7. CASE Finish(h) \/ Raised(h) \/ Commit(h)
  <2>1. \E s \in Terminal \cup Durable :
          \/ SaveDoc(e, [DocOf(h) EXCEPT !.status = s, !.approval = NoHandle, !.resume = NoHandle])
          \/ \E a : SaveDoc(e, [DocOf(h) EXCEPT !.status = s, !.approval = a])
      BY <1>7 DEF Finish, Raised, Commit, PausedAs, Terminal, Durable
  <2>2. \E s \in Terminal \cup Durable : doc'[e].status = s
    <3>1. /\ \A s : [DocOf(h) EXCEPT !.status = s, !.approval = NoHandle, !.resume = NoHandle].status = s
          /\ \A s, a : [DocOf(h) EXCEPT !.status = s, !.approval = a].status = s
        BY <1>1 DEF DocRecord
    <3>2. PICK s \in Terminal \cup Durable :
            \/ doc'[e] = [DocOf(h) EXCEPT !.status = s, !.approval = NoHandle, !.resume = NoHandle]
            \/ \E a : doc'[e] = [DocOf(h) EXCEPT !.status = s, !.approval = a]
        BY <1>2, <2>1
    <3>3. doc'[e].status = s
        BY <3>1, <3>2, ZenonT(60)
    <3> QED BY <3>3
  <2>3. \A f \in Executions \ {e} : doc'[f] = doc[f]
      BY <1>2, <2>1
  <2> QED BY <2>2, <2>3 DEF Interrupted, Terminal, Durable
<1>8. CASE Mirror(h)
  <2>1. PICK q : SaveDoc(e, [DocOf(h) EXCEPT !.queue = q])
      BY <1>8 DEF Mirror
  <2>2. handle[h].pc = "mirror"
      BY <1>8 DEF Mirror, WorkerAt
  <2>3. doc'[e] = [DocOf(h) EXCEPT !.queue = q] /\ \A f \in Executions \ {e} : doc'[f] = doc[f]
      BY <1>2, <2>1
  <2>4. [DocOf(h) EXCEPT !.queue = q].status = DocOf(h).status
      BY <1>1 DEF DocRecord
  <2> QED BY <1>1, <2>2, <2>3, <2>4
<1>9. CASE ExitPaused(h) \/ ExitReleased(h)
    BY <1>9 DEF ExitPaused, ExitReleased, WorkerAt
<1> QED BY <1>4, <1>5, <1>6, <1>7, <1>8, <1>9 DEF WorkerStep

\* A pool thread moves its run until it has written how the run ends or rests.
LEMMA WorkerMoves ==
    ASSUME Typed, Moving, NEW h \in Handles, WorkerStep(h) \/ NodePersist(h)
    PROVE  Moving'
<1>1. ASSUME NEW e \in Executions, Interrupted(doc'[e].status)
      PROVE  \E g \in Handles : Mover(e, g)'
  <2>1. CASE handle'[h].pc \in Early /\ handle[h].exec = e
    <3>1. Mover(e, h)'
        BY <2>1, WorkerHandle DEF Mover
    <3> QED BY <3>1
  <2>2. CASE ~(handle'[h].pc \in Early /\ handle[h].exec = e)
    <3>1. doc'[e].status = doc[e].status /\ (handle[h].exec = e => handle[h].pc \in {"mirror", "exit"})
        BY <1>1, <2>2, WorkerWrites
    <3>2. PICK g \in Handles : Mover(e, g)
        BY <1>1, <3>1, WorkerHandle DEF Moving, Attended
    <3>3. CASE g = h
      <4>1. handle[h].pc \notin Early \cup {"idle"}
          BY <3>1, <3>2, <3>3 DEF Mover, Early
      <4>2. PICK r \in Requests : Carried(r, h) /\ request[r].pc \in {"resume_register", "resume_spawn"}
          BY <3>2, <3>3, <4>1 DEF Mover, Carried, Moving, PendingWaits
      <4>3. Carried(r, h)' /\ handle'[h].exec = e
          BY <3>2, <3>3, <4>2, WorkerHandle DEF Carried, Mover
      <4>4. Mover(e, h)'
          BY <4>3 DEF Mover
      <4> QED BY <4>4
    <3>4. CASE g # h
      <4>1. handle'[g] = handle[g] /\ UNCHANGED <<request, projectQueues>>
          BY <3>4, WorkerHandle
      <4>2. Mover(e, g)'
          BY <3>2, <4>1 DEF Mover, Carried, InQueue
      <4> QED BY <4>2
    <3> QED BY <3>3, <3>4
  <2> QED BY <2>1, <2>2
<1>2. \A g \in Handles : handle'[g].qrec = "pending" => handle[g].qrec = "pending" /\ g # h
  <2>1. QueueStatusOf(handle[h].rec) # "pending" \/ handle[h].pc # "mirror"
      BY DEF Typed, HandlesBuilt, QueueStatusOf, Terminal, Durable
  <2>2. handle[h].qrec # "pending"
      BY WorkerHandle DEF Moving, PendingWaits
  <2> QED BY <2>1, <2>2, WorkerHandle
<1>3. PendingWaits'
  <2>1. \A g \in Handles : handle'[g].qrec = "pending" => handle'[g].pc = "idle"
      BY <1>2, WorkerHandle DEF Moving, PendingWaits
  <2>2. ASSUME NEW r \in Requests, request'[r].pc \in {"resume_register", "resume_spawn"}
        PROVE  handle'[request'[r].handle].qrec # "pending"
    <3>1. request' = request
        BY WorkerHandle
    <3>2. request[r].handle \in Handles
        BY <2>2, <3>1, PoolTypes, BoundsAssumption DEF Typed, TypeOK, RequestsBuilt
    <3> QED BY <1>2, <2>2, <3>1, <3>2 DEF Moving, PendingWaits
  <2> QED BY <2>1, <2>2 DEF PendingWaits
<1> QED BY <1>1, <1>3 DEF Moving, Attended

\* A request that carries a handle either leaves it where it is, hands it on, or
\* is another thread.
LEMMA CarriedOn ==
    ASSUME Typed, NEW r \in Requests, NewRequest(r) \/ RequestStep(r),
           request[r].pc \in {"register", "enqueue", "resume_register", "resume_spawn"}
    PROVE  \/ Register(r) /\ request[r].pc = "register"
           \/ Enqueue(r) /\ request[r].pc = "enqueue"
           \/ ResumeRegister(r) /\ request[r].pc = "resume_register"
           \/ ResumeSpawn(r) /\ request[r].pc = "resume_spawn"
<1>1. ~NewRequest(r)
    BY DEF NewRequest, Start, StopRead, CancelQueued, PauseRead, ResumeRead, ApproveRead, RejectRead,
           DecisionRead, Enter, At
<1>2. Register(r) \/ Enqueue(r) \/ ResumeRegister(r) \/ ResumeSpawn(r)
    BY <1>1 DEF RequestStep, StopSignal, PauseSignal, ResumeSave, ApproveExpire, ApproveDecide, ApproveSave,
           RejectDecide, CancelDecide, Settle, Cleanup, CancelPaused, CancelMirror, CancelRelease, At
<1> QED BY <1>2 DEF Register, Enqueue, ResumeRegister, ResumeSpawn, At

\* Requests only ever add to the queues.
LEMMA QueuesGrow ==
    ASSUME Typed, NEW r \in Requests, NewRequest(r) \/ RequestStep(r), NEW p \in Projects
    PROVE  /\ InQueue(p) \subseteq InQueue(p)'
           /\ Enqueue(r) /\ p = ProjectFor(request[r].handle) => request[r].handle \in InQueue(p)'
<1>1. CASE Enqueue(r)
  <2>1. PICK h : h = request[r].handle
      OBVIOUS
  <2>2. PICK q : q = ProjectFor(h)
      OBVIOUS
  <2>3. projectQueues' = [projectQueues EXCEPT ![q] = Append(@, h)] /\ h \in Handles
    <3>1. request[r].handle \in 1..issued
        BY <1>1 DEF Typed, RequestsBuilt, Enqueue, At
    <3> QED BY <1>1, <2>1, <2>2, <3>1, BoundsAssumption DEF Enqueue, Typed, TypeOK
  <2>4. p = q => /\ Len(projectQueues[p]) \in Nat
                 /\ DOMAIN projectQueues[p] = 1..Len(projectQueues[p])
                 /\ DOMAIN projectQueues'[p] = 1..(Len(projectQueues[p]) + 1)
                 /\ \A i \in 1..Len(projectQueues[p]) : projectQueues'[p][i] = projectQueues[p][i]
                 /\ projectQueues'[p][Len(projectQueues[p]) + 1] = h
    <3>1. projectQueues[p] \in Seq(Handles) /\ (p = q => projectQueues'[p] = Append(projectQueues[p], h))
        BY <2>3, PoolTypes
    <3> QED BY <2>3, <3>1, AppendProperties, LenProperties
  <2>5. CASE p = q
      BY <2>1, <2>4, <2>5 DEF InQueue
  <2>6. CASE p # q
    <3>1. projectQueues'[p] = projectQueues[p]
        BY <2>3, <2>6, PoolTypes
    <3> QED BY <2>1, <2>2, <2>6, <3>1 DEF InQueue
  <2> QED BY <2>5, <2>6
<1>2. CASE ~Enqueue(r)
  <2>1. projectQueues' = projectQueues
      BY <1>2 DEF NewRequest, Start, StopRead, CancelQueued, PauseRead, ResumeRead, ApproveRead, RejectRead,
           DecisionRead, RequestStep, Register, StopSignal, PauseSignal, ResumeSave,
           ResumeRegister, ResumeSpawn, ApproveExpire, ApproveDecide, ApproveSave, RejectDecide,
           CancelDecide, Settle, Cleanup, CancelPaused, CancelMirror, CancelRelease, ReleaseSlot, pool
  <2> QED BY <1>2, <2>1 DEF InQueue
<1> QED BY <1>1, <1>2

\* A request never drops a mover, unless it cancels it.
LEMMA MoverStays ==
    ASSUME Typed, NEW r \in Requests, NewRequest(r) \/ RequestStep(r),
           NEW e \in Executions, NEW g \in Handles, Mover(e, g), ~CancelPending(g)
    PROVE  Mover(e, g)'
<1>1. /\ handle'[g].exec = e /\ handle[g].exec = e
      /\ handle'[g].pc = handle[g].pc \/ (ResumeSpawn(r) /\ g = request[r].handle)
      /\ handle'[g].qrec = handle[g].qrec
      /\ \A q \in Requests \ {r} : request'[q] = request[q]
    BY MoverBuilt, RequestHandle DEF Mover
<1>2. ProjectOf[e] \in Projects
    BY ProjectOfAssumption
<1>3. CASE ResumeSpawn(r) /\ g = request[r].handle
  <2>1. handle \in [Handles -> HandleRecord]
      BY PoolTypes
  <2>2. handle'[g].pc = "starting"
      BY <1>3, <2>1 DEF ResumeSpawn, Step, SetHandle, HandleRecord
  <2> QED BY <1>1, <2>2 DEF Mover, Early, WorkerPcs
<1>4. CASE ~(ResumeSpawn(r) /\ g = request[r].handle)
  <2>1. CASE handle[g].pc \in Early
      BY <1>1, <1>4, <2>1 DEF Mover
  <2>2. CASE handle[g].qrec = "pending" /\ g \in InQueue(ProjectOf[e])
    <3>1. g \in InQueue(ProjectOf[e])'
        BY <1>2, <2>2, QueuesGrow
    <3> QED BY <1>1, <2>2, <3>1 DEF Mover
  <2>3. ASSUME NEW q \in Requests, Carried(q, g)
        PROVE  Mover(e, g)'
    <3>1. CASE q # r
      <4>1. Carried(q, g)'
          BY <1>1, <2>3, <3>1 DEF Carried
      <4> QED BY <1>1, <4>1 DEF Mover
    <3>2. CASE q = r
      <4>1. request \in [Requests -> RequestRecord]
          BY DEF Typed, TypeOK
      <4>2. CASE Register(r) \/ ResumeRegister(r)
        <5>1. /\ request'[r].handle = g
              /\ \/ Register(r) /\ request'[r].pc = "enqueue"
                 \/ ResumeRegister(r) /\ request'[r].pc = "resume_spawn"
            BY <2>3, <3>2, <4>1, <4>2 DEF Register, ResumeRegister, Goto, Carried, RequestRecord
        <5>2. Carried(r, g)'
            BY <1>1, <2>3, <3>2, <5>1 DEF Carried, Register, ResumeRegister, At
        <5> QED BY <1>1, <5>2 DEF Mover
      <4>3. CASE Enqueue(r)
        <5>1. g = request[r].handle /\ handle[g].qrec = "pending"
            BY <2>3, <3>2, <4>3 DEF Carried, Enqueue, At
        <5>2. g \in InQueue(ProjectOf[e])'
            BY <1>1, <1>2, <4>3, <5>1, QueuesGrow DEF ProjectFor
        <5> QED BY <1>1, <5>1, <5>2 DEF Mover
      <4> QED BY <1>4, <2>3, <3>2, <4>2, <4>3, CarriedOn DEF Carried
    <3> QED BY <3>1, <3>2
  <2> QED BY <2>1, <2>2, <2>3 DEF Mover
<1> QED BY <1>3, <1>4

\* A request that puts a run in flight built the handle that moves it; no other
\* request writes queued or running.
LEMMA RequestWrites ==
    ASSUME Typed, NEW r \in Requests, NewRequest(r) \/ RequestStep(r), NEW e \in Executions,
           Interrupted(doc'[e].status)
    PROVE  doc'[e].status = doc[e].status \/ \E h \in Handles : Mover(e, h)'
<1>1. /\ doc \in [Executions -> DocRecord] /\ handle \in [Handles -> HandleRecord]
      /\ request \in [Requests -> RequestRecord] /\ issued \in Nat /\ MaxCalls \in Nat
    BY PoolTypes, BoundsAssumption DEF Typed, TypeOK
<1>2. \A f \in Executions : \A d : SaveDoc(f, d) => doc'[e] = IF e = f THEN d ELSE doc[e]
    BY <1>1 DEF SaveDoc
<1>3. \A f \in Executions :
        /\ \A q : SaveDoc(f, [doc[f] EXCEPT !.queue = q]) => doc'[e].status = doc[e].status
        /\ \A q : SaveDoc(f, [doc[f] EXCEPT !.resume = q]) => doc'[e].status = doc[e].status
        /\ \A q, c : SaveDoc(f, [doc[f] EXCEPT !.queue = q, !.resume = c]) => doc'[e].status = doc[e].status
        /\ \A s, a : SaveDoc(f, [doc[f] EXCEPT !.status = s, !.approval = a]) =>
                       doc'[e].status = doc[e].status \/ doc'[e].status = s
        /\ \A q, s, a : SaveDoc(f, [doc[f] EXCEPT !.queue = q, !.status = s, !.approval = a]) =>
                       doc'[e].status = doc[e].status \/ doc'[e].status = s
  <2> SUFFICES ASSUME NEW f \in Executions
               PROVE  /\ \A q : SaveDoc(f, [doc[f] EXCEPT !.queue = q]) => doc'[e].status = doc[e].status
                      /\ \A q : SaveDoc(f, [doc[f] EXCEPT !.resume = q]) => doc'[e].status = doc[e].status
                      /\ \A q, c : SaveDoc(f, [doc[f] EXCEPT !.queue = q, !.resume = c])
                                      => doc'[e].status = doc[e].status
                      /\ \A s, a : SaveDoc(f, [doc[f] EXCEPT !.status = s, !.approval = a]) =>
                                       doc'[e].status = doc[e].status \/ doc'[e].status = s
                      /\ \A q, s, a : SaveDoc(f, [doc[f] EXCEPT !.queue = q, !.status = s, !.approval = a]) =>
                                       doc'[e].status = doc[e].status \/ doc'[e].status = s
      OBVIOUS
  <2>1. doc[f] \in DocRecord
      BY <1>1
  <2>2. \A q : [doc[f] EXCEPT !.queue = q].status = doc[f].status
      BY <2>1 DEF DocRecord
  <2>3. \A q : [doc[f] EXCEPT !.resume = q].status = doc[f].status
      BY <2>1 DEF DocRecord
  <2>4. \A q, c : [doc[f] EXCEPT !.queue = q, !.resume = c].status = doc[f].status
      BY <2>1 DEF DocRecord
  <2>5. \A s, a : [doc[f] EXCEPT !.status = s, !.approval = a].status = s
      BY <2>1 DEF DocRecord
  <2>6. \A q, s, a : [doc[f] EXCEPT !.queue = q, !.status = s, !.approval = a].status = s
      BY <2>1 DEF DocRecord
  <2>7. \A d : SaveDoc(f, d) => doc'[e].status = IF e = f THEN d.status ELSE doc[e].status
      BY <1>2
  <2>8. \A q : SaveDoc(f, [doc[f] EXCEPT !.queue = q]) => doc'[e].status = doc[e].status
      BY <2>2, <2>7
  <2>9. \A q : SaveDoc(f, [doc[f] EXCEPT !.resume = q]) => doc'[e].status = doc[e].status
      BY <2>3, <2>7
  <2>10. \A q, c : SaveDoc(f, [doc[f] EXCEPT !.queue = q, !.resume = c]) => doc'[e].status = doc[e].status
      BY <2>4, <2>7
  <2>11. \A s, a : SaveDoc(f, [doc[f] EXCEPT !.status = s, !.approval = a]) =>
                      doc'[e].status = doc[e].status \/ doc'[e].status = s
      BY <2>5, <2>7
  <2>12. \A q, s, a : SaveDoc(f, [doc[f] EXCEPT !.queue = q, !.status = s, !.approval = a]) =>
                      doc'[e].status = doc[e].status \/ doc'[e].status = s
    <3> TAKE q, s, a
    <3> HAVE SaveDoc(f, [doc[f] EXCEPT !.queue = q, !.status = s, !.approval = a])
    <3>1. doc'[e].status = IF e = f THEN [doc[f] EXCEPT !.queue = q, !.status = s, !.approval = a].status
                                    ELSE doc[e].status
        BY <2>7
    <3> QED BY <2>6, <3>1
  <2> QED BY <2>8, <2>9, <2>10, <2>11, <2>12
<1>4. request[r].pc # "idle" => request[r].exec \in Executions
    BY DEF Typed, RequestsBuilt
<1>5. ASSUME NEW f \in Executions, NEW qrec, NEW from, NewHandle(f, qrec, from),
             request'[r].handle = issued + 1,
             \/ request'[r].pc = "register" /\ qrec = "pending"
             \/ request'[r].pc = "resume_register"
      PROVE  \E h \in Handles : Mover(f, h)'
  <2>1. issued + 1 \in Handles
      BY <1>1, <1>5 DEF NewHandle
  <2>2. handle'[issued + 1].exec = f /\ handle'[issued + 1].qrec = qrec
      BY <1>1, <1>5, <2>1 DEF NewHandle
  <2>3. PICK h \in Handles : h = issued + 1
      BY <2>1
  <2>4. Carried(r, h)'
      BY <1>5, <2>2, <2>3 DEF Carried
  <2>5. Mover(f, h)'
      BY <2>2, <2>3, <2>4 DEF Mover
  <2> QED BY <2>5
<1>6. ASSUME NEW f \in Executions, Start(r, f)
      PROVE  doc'[e].status = doc[e].status \/ \E h \in Handles : Mover(e, h)'
  <2>1. /\ NewHandle(f, "pending", NoHandle)
        /\ request'[r].handle = issued + 1 /\ request'[r].pc = "register"
      BY <1>1, <1>6 DEF Start, Enter, Idle
  <2>2. e # f => doc'[e] = doc[e]
      BY <1>2, <1>6 DEF Start
  <2> QED BY <1>5, <2>1, <2>2
<1>7. CASE ResumeSave(r)
  <2>1. PICK f \in Executions : f = request[r].exec
      BY <1>4, <1>7 DEF ResumeSave, At
  <2>2. /\ NewHandle(f, "running", NoHandle)
        /\ request'[r].handle = issued + 1 /\ request'[r].pc = "resume_register"
      BY <1>1, <1>7, <2>1 DEF ResumeSave, RequestRecord
  <2>3. e # f => doc'[e] = doc[e]
      BY <1>2, <1>7, <2>1 DEF ResumeSave
  <2> QED BY <1>5, <2>2, <2>3
<1>8. CASE ApproveSave(r)
  <2>1. PICK f \in Executions : f = request[r].exec
      BY <1>4, <1>8 DEF ApproveSave, At
  <2>2. CASE doc' = doc
      BY <2>2
  <2>3. CASE doc' # doc
    <3>1. /\ NewHandle(f, "pending", request[r].checkpoint)
          /\ request'[r].handle = issued + 1 /\ request'[r].pc = "register"
        BY <1>1, <1>8, <2>1, <2>3 DEF ApproveSave, RequestRecord
    <3>2. e # f => doc'[e] = doc[e]
        BY <1>2, <1>8, <2>1, <2>3 DEF ApproveSave
    <3> QED BY <1>5, <3>1, <3>2
  <2> QED BY <2>2, <2>3
<1>9. CASE Register(r) \/ ResumeRegister(r) \/ Cleanup(r) \/ CancelMirror(r)
  <2>1. PICK f \in Executions : f = request[r].exec
      BY <1>4, <1>9 DEF Register, ResumeRegister, Cleanup, CancelMirror, At
  <2>2. \/ \E q : SaveDoc(f, [doc[f] EXCEPT !.queue = q])
        \/ \E q : SaveDoc(f, [doc[f] EXCEPT !.resume = q])
        \/ \E q, c : SaveDoc(f, [doc[f] EXCEPT !.queue = q, !.resume = c])
      BY <1>9, <2>1 DEF Register, ResumeRegister, Cleanup, CancelMirror, DocFor
  <2> QED BY <1>3, <2>2
<1>10. CASE Settle(r) \/ CancelPaused(r)
  <2>1. PICK f \in Executions : f = request[r].exec
      BY <1>4, <1>10 DEF Settle, CancelPaused, At
  <2>2. \E s \in {"none", "failed", "cancelled"} : \E a : SaveDoc(f, [doc[f] EXCEPT !.status = s, !.approval = a])
      BY <1>1, <1>10, <2>1 DEF Settle, CancelPaused, DocFor, RequestRecord
  <2>3. doc'[e].status = doc[e].status \/ doc'[e].status \in {"none", "failed", "cancelled"}
      BY <1>3, <2>2
  <2> QED BY <2>3 DEF Interrupted
<1>11. ASSUME NEW h \in Handles, CancelPending(h)
       PROVE  doc'[e].status = doc[e].status
  <2>1. PICK f \in Executions : f = handle[h].exec
      BY <1>11, BuiltExec DEF CancelPending
  <2>2. \E a : SaveDoc(f, [doc[f] EXCEPT !.queue = "cancelled", !.status = "cancelled", !.approval = a])
      BY <1>11, <2>1 DEF CancelPending, DocOf
  <2>3. doc'[e].status = doc[e].status \/ doc'[e].status = "cancelled"
      BY <1>3, <2>2
  <2> QED BY <2>3 DEF Interrupted
<1>12. CASE NewRequest(r)
  <2>1. \/ \E f \in Executions : Start(r, f)
        \/ \E h \in Handles : CancelPending(h)
        \/ doc' = doc
    <3>1. active \in [Executions -> Handles \cup {NoHandle}]
        BY DEF Typed, TypeOK
    <3> QED BY <1>12, <3>1 DEF NewRequest, StopRead, CancelQueued, PauseRead, ResumeRead, ApproveRead,
                  RejectRead, DecisionRead
  <2> QED BY <1>6, <1>11, <2>1
<1>13. CASE RequestStep(r) /\ ~ResumeSave(r) /\ ~ApproveSave(r) /\ ~Register(r) /\ ~ResumeRegister(r)
            /\ ~Cleanup(r) /\ ~CancelMirror(r) /\ ~Settle(r) /\ ~CancelPaused(r)
  <2>1. (\E h \in Handles : CancelPending(h)) \/ doc' = doc
    <3>1. request[r].pc # "idle" => active[request[r].exec] \in Handles \cup {NoHandle}
        BY <1>4 DEF Typed, TypeOK
    <3> QED BY <1>13, <3>1 DEF RequestStep, Enqueue, StopSignal, PauseSignal, ResumeSpawn, ApproveExpire,
                ApproveDecide, RejectDecide, CancelDecide, CancelRelease, At
  <2> QED BY <1>11, <2>1
<1> QED BY <1>7, <1>8, <1>9, <1>10, <1>12, <1>13

\* Requests keep every run in flight attended.
LEMMA RequestMoves ==
    ASSUME Typed, Moving, NEW r \in Requests, NewRequest(r) \/ RequestStep(r)
    PROVE  Moving'
<1>1. /\ doc \in [Executions -> DocRecord] /\ handle \in [Handles -> HandleRecord]
      /\ request \in [Requests -> RequestRecord] /\ issued \in Nat /\ MaxCalls \in Nat
    BY PoolTypes, BoundsAssumption DEF Typed, TypeOK
<1>2. ASSUME NEW e \in Executions, Interrupted(doc'[e].status)
      PROVE  \E h \in Handles : Mover(e, h)'
  <2>1. CASE doc'[e].status = doc[e].status
    <3>1. PICK g \in Handles : Mover(e, g)
        BY <1>2, <2>1, RequestHandle DEF Moving, Attended
    <3>2. ~CancelPending(g)
      <4>1. SUFFICES ASSUME CancelPending(g) PROVE FALSE
          OBVIOUS
      <4>2. SaveDoc(e, [doc[e] EXCEPT !.queue = "cancelled", !.status = "cancelled",
                                      !.approval = handle[g].from])
          BY <3>1, <4>1 DEF CancelPending, Mover, DocOf
      <4>3. doc'[e].status = "cancelled"
          BY <1>1, <4>2 DEF SaveDoc, DocRecord
      <4> QED BY <1>2, <4>3 DEF Interrupted
    <3>3. Mover(e, g)'
        BY <3>1, <3>2, MoverStays
    <3> QED BY <3>3
  <2>2. CASE doc'[e].status # doc[e].status
      BY <1>2, <2>2, RequestWrites
  <2> QED BY <2>1, <2>2
<1>3. ASSUME NEW h \in Handles, handle'[h].qrec = "pending"
      PROVE  handle'[h].pc = "idle"
  <2>1. CASE h > issued
      BY <2>1, RequestHandle
  <2>2. CASE h <= issued
    <3>1. handle[h].qrec = "pending" /\ handle[h].pc = "idle"
        BY <1>3, <2>2, RequestHandle DEF CancelPending, Moving, PendingWaits
    <3>2. ~(ResumeSpawn(r) /\ h = request[r].handle)
        BY <3>1 DEF ResumeSpawn, At, Moving, PendingWaits
    <3> QED BY <2>2, <3>1, <3>2, RequestHandle
  <2> QED BY <1>1, <2>1, <2>2
<1>4. ASSUME NEW q \in Requests, request'[q].pc \in {"resume_register", "resume_spawn"}
      PROVE  handle'[request'[q].handle].qrec # "pending"
  <2>1. CASE /\ request[q].pc \in {"resume_register", "resume_spawn"}
             /\ request'[q].handle = request[q].handle
    <3>1. request[q].handle \in Handles /\ request[q].handle <= issued /\ handle[request[q].handle].qrec # "pending"
        BY <1>1, <2>1, BoundsAssumption DEF Moving, PendingWaits, Typed, TypeOK, RequestsBuilt
    <3> QED BY <2>1, <3>1, RequestHandle DEF CancelPending
  <2>2. CASE q # r
      BY <1>4, <2>1, <2>2, RequestHandle
  <2>3. CASE q = r /\ ResumeSave(r)
    <3>1. /\ request'[r].handle = issued + 1 /\ issued + 1 \in Handles
          /\ NewHandle(request[r].exec, "running", NoHandle)
        BY <1>1, <2>3 DEF ResumeSave, NewHandle, RequestRecord
    <3>2. handle'[issued + 1].qrec = "running"
        BY <1>1, <3>1 DEF NewHandle
    <3> QED BY <2>3, <3>1, <3>2
  <2>4. CASE q = r /\ ~ResumeSave(r)
    <3>1. ResumeRegister(r)
      <4>1. ASSUME NEW c, request' = [request EXCEPT ![r].pc = c] PROVE request'[r].pc = c
          BY <1>1, <4>1 DEF RequestRecord
      <4>2. request' = [request EXCEPT ![r] = Idle] => request'[r].pc = "idle"
          BY <1>1 DEF Idle
      <4>3. CASE NewRequest(r)
        <5>1. \A op, x : Enter(r, op, x) => request'[r] = x
            BY <1>1 DEF Enter
        <5>2. PICK e \in Executions :
                \/ Start(r, e) \/ StopRead(r, e) \/ CancelQueued(r, e) \/ PauseRead(r, e)
                \/ ResumeRead(r, e) \/ ApproveRead(r, e) \/ RejectRead(r, e)
            BY <4>3 DEF NewRequest
        <5>3. CASE Start(r, e)
          <6>1. request'[r] = [Idle EXCEPT !.pc = "register", !.exec = e, !.handle = issued + 1]
              BY <5>1, <5>3 DEF Start
          <6> QED BY <1>4, <2>4, <6>1 DEF Idle
        <5>4. CASE StopRead(r, e)
          <6>1. request'[r] = [Idle EXCEPT !.pc = StopPath(doc[e].status), !.exec = e,
                                           !.checkpoint = doc[e].approval, !.target = "cancelled"]
              BY <5>1, <5>4 DEF StopRead
          <6>2. request'[r].pc = StopPath(doc[e].status)
              BY <6>1 DEF Idle
          <6> QED BY <1>4, <2>4, <6>2 DEF StopPath
        <5>5. CASE CancelQueued(r, e)
          <6>1. request'[r] = Idle
              BY <5>1, <5>5 DEF CancelQueued
          <6> QED BY <1>4, <2>4, <6>1 DEF Idle
        <5>6. CASE PauseRead(r, e) \/ ResumeRead(r, e)
          <6>1. \E c \in {"pause_signal", "resume_save"} : request'[r] = [Idle EXCEPT !.pc = c, !.exec = e]
              BY <5>1, <5>6 DEF PauseRead, ResumeRead
          <6> QED BY <1>4, <2>4, <6>1 DEF Idle
        <5>7. CASE ApproveRead(r, e) \/ RejectRead(r, e)
          <6>1. \E c \in {"approve_expire", "reject_decide"} :
                  request'[r] = [Idle EXCEPT !.pc = c, !.exec = e, !.checkpoint = doc[e].approval,
                                             !.target = "failed"]
              BY <5>1, <5>7 DEF ApproveRead, RejectRead, DecisionRead
          <6> QED BY <1>4, <2>4, <6>1 DEF Idle
        <5> QED BY <5>2, <5>3, <5>4, <5>5, <5>6, <5>7
      <4>4. CASE ApproveSave(r)
          BY <1>1, <1>4, <2>4, <4>2, <4>4 DEF ApproveSave, Return, RequestRecord
      <4>5. CASE Register(r) \/ Settle(r) \/ CancelPaused(r) \/ CancelMirror(r)
          BY <1>4, <2>4, <4>1, <4>5 DEF Register, Settle, CancelPaused, CancelMirror, Goto
      <4>6. CASE Enqueue(r) \/ StopSignal(r) \/ PauseSignal(r) \/ ResumeSpawn(r) \/ Cleanup(r) \/ CancelRelease(r)
          BY <1>4, <2>4, <4>2, <4>6 DEF Enqueue, StopSignal, PauseSignal, ResumeSpawn, Cleanup, CancelRelease, Return
      <4>7. CASE ApproveExpire(r) \/ ApproveDecide(r) \/ RejectDecide(r) \/ CancelDecide(r)
          BY <1>4, <2>4, <4>1, <4>2, <4>7 DEF ApproveExpire, ApproveDecide, RejectDecide, CancelDecide,
             Goto, Return, Decide
      <4> QED BY <2>4, <4>3, <4>4, <4>5, <4>6, <4>7 DEF RequestStep
    <3>2. request'[r].handle = request[r].handle /\ request[r].pc = "resume_register"
        BY <1>1, <3>1 DEF ResumeRegister, Goto, At, RequestRecord
    <3> QED BY <2>1, <2>4, <3>2
  <2> QED BY <2>2, <2>3, <2>4
<1> QED BY <1>2, <1>3, <1>4 DEF Moving, Attended, PendingWaits

\* _dispatch_locked starts the run it takes, and what it drops was not pending.
LEMMA DispatchMoves ==
    ASSUME Typed, Moving, Dispatch
    PROVE  Moving'
<1>1. /\ doc \in [Executions -> DocRecord] /\ handle \in [Handles -> HandleRecord]
      /\ \A p \in Projects : projectQueues[p] \in Seq(Handles)
    BY PoolTypes DEF Typed, TypeOK
<1>2. UNCHANGED <<request, phase>>
    BY DEF Dispatch, DispatchNext, DispatchDone
<1>3. CASE DispatchDone
    BY <1>3 DEF DispatchDone, Moving, Attended, PendingWaits, Mover, Carried, InQueue
<1>4. CASE DispatchNext
  <2>1. PICK p \in Projects : p = Head(readyProjects)
    <3>1. readyProjects # <<>> /\ readyProjects \in Seq(Projects)
        BY <1>4, PoolTypes DEF DispatchNext, HasRoom
    <3> QED BY <3>1
  <2>2. \/ \E i \in DOMAIN projectQueues[p] : AdmitFirst(p, i)
        \/ /\ ~\E h \in InQueue(p) : handle[h].qrec = "pending"
           /\ projectQueues' = [projectQueues EXCEPT ![p] = <<>>]
           /\ UNCHANGED <<handle, doc>>
        \/ UNCHANGED <<projectQueues, handle, doc>>
      BY <1>4, <2>1 DEF DispatchNext
  <2>3. CASE UNCHANGED <<projectQueues, handle, doc>>
      BY <1>2, <2>3 DEF Moving, Attended, PendingWaits, Mover, Carried, InQueue
  <2>4. CASE /\ ~\E h \in InQueue(p) : handle[h].qrec = "pending"
             /\ projectQueues' = [projectQueues EXCEPT ![p] = <<>>]
             /\ UNCHANGED <<handle, doc>>
    <3>1. \A q \in Projects \ {p} : InQueue(q)' = InQueue(q)
        BY <2>4, PoolTypes DEF InQueue
    <3>2. ASSUME NEW e \in Executions, NEW g \in Handles, Mover(e, g)
          PROVE  Mover(e, g)'
      <4>1. ProjectOf[e] \in Projects
          BY ProjectOfAssumption
      <4>2. handle[g].qrec = "pending" /\ g \in InQueue(ProjectOf[e]) => g \in InQueue(ProjectOf[e])'
          BY <2>4, <3>1, <4>1
      <4> QED BY <1>2, <2>4, <3>2, <4>2 DEF Mover, Carried
    <3>3. \A e \in Executions, g \in Handles : Mover(e, g) => Mover(e, g)'
        BY <3>2
    <3> QED BY <1>2, <2>4, <3>3 DEF Moving, Attended, PendingWaits
  <2>5. ASSUME NEW i \in DOMAIN projectQueues[p], AdmitFirst(p, i)
        PROVE  Moving'
    <3>1. PICK h \in Handles : h = projectQueues[p][i] /\ h <= issued
        BY QueuedHandle
    <3>2. PICK f \in Executions : f = handle[h].exec
        BY <3>1, BuiltExec
    <3>3. /\ handle'[h].exec = f /\ handle'[h].pc = "starting" /\ handle'[h].qrec = "running"
          /\ \A g \in Handles \ {h} : handle'[g] = handle[g]
        BY <1>1, <2>5, <3>1, <3>2 DEF AdmitFirst, SetHandle, HandleRecord
    <3>4. \A e \in Executions \ {f} : doc'[e] = doc[e]
        BY <1>1, <2>5, <3>1, <3>2 DEF AdmitFirst, SaveDoc
    <3>5. \A q \in Projects \ {p} : InQueue(q)' = InQueue(q)
        BY <2>5, PoolTypes DEF AdmitFirst, InQueue
    <3>6. \A g \in InQueue(p) : handle[g].qrec = "pending" /\ g # h => g \in InQueue(p)'
      <4>1. /\ Len(projectQueues[p]) \in Nat /\ DOMAIN projectQueues[p] = 1..Len(projectQueues[p])
            /\ projectQueues[p] \in Seq(Handles) /\ i \in 1..Len(projectQueues[p])
            /\ projectQueues'[p] = SubSeq(projectQueues[p], i + 1, Len(projectQueues[p]))
          BY <1>1, <2>5, LenProperties, PoolTypes DEF AdmitFirst
      <4>2. \A j \in (i + 1)..Len(projectQueues[p]) :
              j - i \in DOMAIN projectQueues'[p] /\ projectQueues'[p][j - i] = projectQueues[p][j]
        <5> DEFINE n == Len(projectQueues[p])
        <5>1. \A j \in (i + 1)..n : projectQueues[p][j] \in Handles
          <6>1. \A j \in 1..n : projectQueues[p][j] \in Handles
              BY <4>1, ElementOfSeq
          <6>2. n \in Nat /\ i \in 1..n
              BY <4>1
          <6> HIDE DEF n
          <6> QED BY <6>1, <6>2
        <5>2. /\ Len(projectQueues'[p]) = IF i + 1 <= n THEN n - (i + 1) + 1 ELSE 0
              /\ projectQueues'[p] \in Seq(Handles)
              /\ \A k \in 1..(n - (i + 1) + 1) : projectQueues'[p][k] = projectQueues[p][i + 1 + k - 1]
            BY <4>1, <5>1, SubSeqProperties, SMTT(60)
        <5>3. DOMAIN projectQueues'[p] = 1..Len(projectQueues'[p])
            BY <5>2, LenProperties
        <5> HIDE DEF n
        <5>4. n \in Nat /\ i \in 1..n
            BY <4>1 DEF n
        <5>5. ASSUME NEW j \in (i + 1)..n
              PROVE  j - i \in DOMAIN projectQueues'[p] /\ projectQueues'[p][j - i] = projectQueues[p][j]
          <6>1. j - i \in 1..(n - (i + 1) + 1) /\ i + 1 + (j - i) - 1 = j /\ i + 1 <= n
              BY <5>4, <5>5
          <6> QED BY <5>2, <5>3, <6>1
        <5> QED BY <5>5 DEF n
      <4>3. ASSUME NEW j \in 1..Len(projectQueues[p]), handle[projectQueues[p][j]].qrec = "pending",
                   projectQueues[p][j] # h
            PROVE  projectQueues[p][j] \in InQueue(p)'
        <5>1. j \notin 1..(i - 1) /\ j # i
            BY <2>5, <3>1, <4>3 DEF AdmitFirst
        <5>2. j \in (i + 1)..Len(projectQueues[p])
            BY <4>1, <5>1
        <5> QED BY <4>2, <5>2 DEF InQueue
      <4> QED BY <4>1, <4>3 DEF InQueue
    <3>7. ASSUME NEW e \in Executions, Interrupted(doc'[e].status), phase = "up"
          PROVE  \E g \in Handles : Mover(e, g)'
      <4>1. CASE e = f
        <5>1. Mover(e, h)'
            BY <3>3, <4>1 DEF Mover, Early, WorkerPcs
        <5> QED BY <5>1
      <4>2. CASE e # f
        <5>1. PICK g \in Handles : Mover(e, g)
            BY <3>4, <3>7, <4>2 DEF Moving, Attended
        <5>2. handle'[g] = handle[g] /\ g # h /\ ProjectOf[e] \in Projects
            BY <3>2, <3>3, <4>2, <5>1, ProjectOfAssumption DEF Mover
        <5>3. handle[g].qrec = "pending" /\ g \in InQueue(ProjectOf[e]) => g \in InQueue(ProjectOf[e])'
            BY <3>5, <3>6, <5>2
        <5>4. Mover(e, g)'
            BY <1>2, <5>1, <5>2, <5>3 DEF Mover, Carried
        <5> QED BY <5>4
      <4> QED BY <4>1, <4>2
    <3>8. PendingWaits'
      <4>1. ASSUME NEW r \in Requests, request[r].pc \in {"resume_register", "resume_spawn"}
            PROVE  handle'[request[r].handle].qrec # "pending"
        <5>1. request[r].handle \in Handles
            BY <4>1, BoundsAssumption DEF Typed, TypeOK, RequestsBuilt
        <5> QED BY <3>3, <4>1, <5>1 DEF Moving, PendingWaits
      <4> QED BY <1>2, <3>3, <4>1 DEF Moving, PendingWaits
    <3> QED BY <1>2, <3>7, <3>8 DEF Moving, Attended
  <2> QED BY <2>2, <2>3, <2>4, <2>5
<1> QED BY <1>3, <1>4 DEF Dispatch

\* After a restart nothing is in flight.
LEMMA RestartMoves ==
    ASSUME Typed, Moving, Crash \/ Restore \/ Reconcile
    PROVE  Moving'
<1>1. handle \in [Handles -> HandleRecord]
    BY PoolTypes
<1>2. CASE Crash
  <2>1. \A h \in Handles : handle'[h].pc = "idle"
      BY <1>1, <1>2 DEF Crash, HandleRecord
  <2>2. \A r \in Requests : request'[r].pc = "idle"
      BY <1>2 DEF Crash, Idle
  <2> QED BY <1>2, <2>1, <2>2 DEF Crash, Moving, Attended, PendingWaits
<1>3. CASE Restore
    BY <1>3 DEF Restore, Moving, Attended, PendingWaits
<1>4. CASE Reconcile
  <2>1. \A e \in Executions : ~Interrupted(doc'[e].status)
      BY <1>4 DEF Reconcile, Interrupted
  <2> QED BY <1>4, <2>1 DEF Reconcile, Moving, Attended, PendingWaits
<1> QED BY <1>2, <1>3, <1>4

\* Every run in flight is attended to from the first state on.
LEMMA AlwaysMoving == Spec => []Moving
<1>1. Init => Moving
  <2> SUFFICES ASSUME Init PROVE Moving
      OBVIOUS
  <2>1. \A e \in Executions : ~Interrupted(doc[e].status)
      BY DEF Init, Interrupted
  <2>2. PendingWaits
      BY DEF Init, PendingWaits, Idle
  <2> QED BY <2>1, <2>2 DEF Moving, Attended
<1>2. Typed /\ Moving /\ [Next]_vars => Moving'
  <2> SUFFICES ASSUME Typed, Moving, [Next]_vars PROVE Moving'
      OBVIOUS
  <2>1. CASE UNCHANGED vars
      BY <2>1 DEF vars, pool, Moving, Attended, PendingWaits, Mover, Carried, InQueue
  <2> QED BY <2>1, DispatchMoves, WorkerMoves, RequestMoves, RestartMoves DEF Next, Boot
<1> QED BY <1>1, <1>2, AlwaysTyped, PTL DEF Spec

\* For any number of runs, requests and kills, however they interleave: a run whose
\* document says queued or running is in the hands of a request, a queue or a pool
\* thread (start, approve, resume, _dispatch_locked, _run, reconcile_executions).
THEOREM NobodyForgotten == Spec => []NoOrphanRun
<1>1. Typed /\ Moving => NoOrphanRun
  <2> SUFFICES ASSUME Typed, Moving, phase = "up", NEW e \in Executions, Interrupted(doc[e].status)
               PROVE  \E h \in Handles :
                        /\ handle[h].exec = e
                        /\ \/ handle[h].pc # "idle"
                           \/ \E r \in Requests : request[r].handle = h
                           \/ handle[h].qrec = "pending" /\ h \in InQueue(ProjectOf[e])
      BY DEF NoOrphanRun
  <2>1. PICK h \in Handles : Mover(e, h)
      BY DEF Moving, Attended
  <2> QED BY <2>1 DEF Mover, Carried, Early, WorkerPcs
<1> QED BY <1>1, AlwaysMoving, AlwaysTyped, PTL

-----------------------------------------------------------------------------
(* Who writes an execution document.                                        *)

\* What a save that replaces some fields of a document leaves in the others.
LEMMA DocFields ==
    ASSUME NEW d \in DocRecord, NEW s, NEW a, NEW q, NEW k
    PROVE  /\ LET x == [d EXCEPT !.queue = q]
              IN  x.status = d.status /\ x.approval = d.approval /\ x.resume = d.resume
           /\ LET x == [d EXCEPT !.resume = k]
              IN  x.status = d.status /\ x.approval = d.approval /\ x.resume = k
           /\ LET x == [d EXCEPT !.queue = q, !.resume = k]
              IN  x.status = d.status /\ x.approval = d.approval
           /\ LET x == [d EXCEPT !.status = s]
              IN  x.status = s /\ x.approval = d.approval /\ x.resume = d.resume
           /\ LET x == [d EXCEPT !.status = s, !.approval = a]
              IN  x.status = s /\ x.approval = a /\ x.resume = d.resume
           /\ LET x == [d EXCEPT !.status = s, !.approval = a, !.resume = k]
              IN  x.status = s /\ x.approval = a /\ x.resume = k
           /\ LET x == [d EXCEPT !.queue = q, !.status = s, !.approval = a]
              IN  x.status = s /\ x.approval = a /\ x.resume = d.resume
BY DEF DocRecord

\* The step leaves the status of e, its approval and its resume state alone.
Unwritten(e) ==
    /\ doc'[e].status = doc[e].status
    /\ doc'[e].approval = doc[e].approval
    /\ doc'[e].resume = doc[e].resume

\* What a pool thread may write, by where it stands: it is "running" until the one
\* write that ends or rests the run, and after that only the queue mirror.
LEMMA WorkerDoc ==
    ASSUME Typed, NEW h \in Handles, WorkerStep(h) \/ NodePersist(h)
    PROVE  /\ h <= issued /\ handle[h].exec \in Executions
           /\ \A f \in Executions \ {handle[h].exec} : doc'[f] = doc[f]
           /\ \/ /\ handle[h].pc \in {"mirror", "exit"} /\ handle'[h].pc \in {"exit", "idle"}
                 /\ Unwritten(handle[h].exec) /\ handle'[h].rec = handle[h].rec
              \/ /\ handle[h].pc \in {"starting", "running"} /\ handle'[h].pc \in {"locking", "running"}
                 /\ doc'[handle[h].exec].status = "running"
                 /\ doc'[handle[h].exec].resume = doc[handle[h].exec].resume
              \/ /\ handle[h].pc \in {"locking", "running", "checkpoint"}
                 /\ handle'[h].pc \in {"running", "raised", "finishing", "checkpoint", "save_resume"}
                 /\ doc' = doc
              \/ /\ handle[h].pc = "save_resume" /\ handle'[h].pc = "commit"
                 /\ doc'[handle[h].exec].status = doc[handle[h].exec].status
                 /\ doc'[handle[h].exec].approval = doc[handle[h].exec].approval
                 /\ doc'[handle[h].exec].resume = h
              \/ /\ handle[h].pc \in {"finishing", "raised"} /\ handle'[h].pc = "mirror"
                 /\ doc'[handle[h].exec].status \in Terminal
                 /\ handle'[h].rec = doc'[handle[h].exec].status
              \/ /\ Commit(h) /\ handle[h].pc = "commit" /\ handle'[h].pc = "mirror"
                 /\ doc'[handle[h].exec].status = PausedAs(h) /\ handle'[h].rec = PausedAs(h)
                 /\ checkpoints[h] # "none" => doc'[handle[h].exec].approval = h
                 /\ doc'[handle[h].exec].resume = doc[handle[h].exec].resume
<1>1. PICK e \in Executions : e = handle[h].exec
    BY WorkerHandle, BuiltExec
<1>2. h <= issued
    BY WorkerHandle, BuiltExec
<1>3. /\ doc[e] \in DocRecord /\ DocOf(h) = doc[e]
      /\ handle \in [Handles -> HandleRecord] /\ handle[h] \in HandleRecord
      /\ doc \in [Executions -> DocRecord]
    BY <1>1, PoolTypes DEF Typed, TypeOK, DocOf
<1>4. \A c : Step(h, c) => handle'[h].pc = c /\ handle'[h].rec = handle[h].rec
    BY <1>3 DEF Step, SetHandle, HandleRecord
<1>5. \A s, c : SetHandle(h, [handle[h] EXCEPT !.rec = s, !.pc = c]) => handle'[h].pc = c /\ handle'[h].rec = s
    BY <1>3 DEF SetHandle, HandleRecord
<1>6. \A s, a, d : d = [doc[e] EXCEPT !.status = s, !.approval = a] /\ SaveDoc(e, d) =>
        /\ doc'[e].status = s /\ doc'[e].approval = a /\ doc'[e].resume = doc[e].resume
        /\ \A f \in Executions \ {e} : doc'[f] = doc[f]
  <2> TAKE s, a, d
  <2> HAVE d = [doc[e] EXCEPT !.status = s, !.approval = a] /\ SaveDoc(e, d)
  <2>1. d.status = s /\ d.approval = a /\ d.resume = doc[e].resume
      BY <1>3, DocFields
  <2> QED BY <2>1, Saved
<1> DEFINE Goal == /\ \A f \in Executions \ {e} : doc'[f] = doc[f]
                   /\ \/ /\ handle[h].pc \in {"mirror", "exit"} /\ handle'[h].pc \in {"exit", "idle"}
                         /\ Unwritten(e) /\ handle'[h].rec = handle[h].rec
                      \/ /\ handle[h].pc \in {"starting", "running"} /\ handle'[h].pc \in {"locking", "running"}
                         /\ doc'[e].status = "running" /\ doc'[e].resume = doc[e].resume
                      \/ /\ handle[h].pc \in {"locking", "running", "checkpoint"}
                         /\ handle'[h].pc \in {"running", "raised", "finishing", "checkpoint", "save_resume"}
                         /\ doc' = doc
                      \/ /\ handle[h].pc = "save_resume" /\ handle'[h].pc = "commit"
                         /\ doc'[e].status = doc[e].status /\ doc'[e].approval = doc[e].approval
                         /\ doc'[e].resume = h
                      \/ /\ handle[h].pc \in {"finishing", "raised"} /\ handle'[h].pc = "mirror"
                         /\ doc'[e].status \in Terminal /\ handle'[h].rec = doc'[e].status
                      \/ /\ Commit(h) /\ handle[h].pc = "commit" /\ handle'[h].pc = "mirror"
                         /\ doc'[e].status = PausedAs(h) /\ handle'[h].rec = PausedAs(h)
                         /\ checkpoints[h] # "none" => doc'[e].approval = h
                         /\ doc'[e].resume = doc[e].resume
<1>7. CASE StartRun(h) \/ NodePersist(h)
  <2>1. /\ handle[h].pc \in {"starting", "running"} /\ handle'[h].pc \in {"locking", "running"}
        /\ SaveDoc(e, [doc[e] EXCEPT !.status = "running", !.approval = NoHandle])
    <3>1. CASE StartRun(h)
      <4>1. handle'[h].pc = "locking"
          BY <1>3, <3>1 DEF StartRun, SetHandle, HandleRecord
      <4> QED BY <1>1, <1>3, <3>1, <4>1 DEF StartRun, WorkerAt
    <3>2. CASE NodePersist(h)
        BY <1>1, <1>3, <3>2 DEF NodePersist, WorkerAt
    <3> QED BY <1>7, <3>1, <3>2
  <2>2. /\ doc'[e].status = "running" /\ doc'[e].resume = doc[e].resume
        /\ \A f \in Executions \ {e} : doc'[f] = doc[f]
      BY <1>6, <2>1
  <2>3. Goal
      BY <2>1, <2>2
  <2> QED BY <1>1, <1>2, <2>3
<1>8. CASE AcquireLock(h) \/ LockRefused(h) \/ RunToEnd(h) \/ RunRaises(h) \/ DrainToApproval(h)
           \/ DrainToPause(h) \/ CreateCheckpoint(h)
  <2>1. /\ doc' = doc /\ handle[h].pc \in {"locking", "running", "checkpoint"}
        /\ \E c \in {"running", "raised", "finishing", "checkpoint", "save_resume"} : Step(h, c)
      BY <1>8 DEF AcquireLock, LockRefused, RunToEnd, RunRaises, DrainToApproval, DrainToPause,
                  CreateCheckpoint, LeaveLoop, WorkerAt
  <2>2. Goal
      BY <1>4, <2>1
  <2> QED BY <1>1, <1>2, <2>2
<1>9. CASE SaveResume(h)
  <2>1. SaveDoc(e, [doc[e] EXCEPT !.resume = h]) /\ handle[h].pc = "save_resume" /\ handle'[h].pc = "commit"
      BY <1>1, <1>3, <1>4, <1>9 DEF SaveResume, WorkerAt
  <2>2. LET d == [doc[e] EXCEPT !.resume = h]
        IN  d.status = doc[e].status /\ d.approval = doc[e].approval /\ d.resume = h
      BY <1>3, DocFields
  <2>3. Goal
      BY <2>1, <2>2, Saved
  <2> QED BY <1>1, <1>2, <2>3
<1>10. CASE Finish(h)
  <2>1. PICK s \in Terminal :
          /\ SetHandle(h, [handle[h] EXCEPT !.rec = s, !.pc = "mirror"])
          /\ SaveDoc(e, [doc[e] EXCEPT !.status = s, !.approval = NoHandle, !.resume = NoHandle])
          /\ handle[h].pc = "finishing"
      BY <1>1, <1>3, <1>10 DEF Finish, Terminal, WorkerAt
  <2>2. [doc[e] EXCEPT !.status = s, !.approval = NoHandle, !.resume = NoHandle].status = s
      BY <1>3, DocFields
  <2>3. /\ doc'[e].status = s /\ \A f \in Executions \ {e} : doc'[f] = doc[f]
    <3>1. PICK d : d = [doc[e] EXCEPT !.status = s, !.approval = NoHandle, !.resume = NoHandle]
        OBVIOUS
    <3>2. SaveDoc(e, d) /\ d.status = s
        BY <2>1, <2>2, <3>1
    <3> QED BY <3>2, Saved
  <2>4. handle'[h].pc = "mirror" /\ handle'[h].rec = s
      BY <1>5, <2>1
  <2>5. Goal
      BY <2>1, <2>3, <2>4
  <2> QED BY <1>1, <1>2, <2>5
<1>11. CASE Raised(h)
  <2>1. PICK s \in {"cancelled", "failed"} :
          /\ SetHandle(h, [handle[h] EXCEPT !.rec = s, !.pc = "mirror"])
          /\ SaveDoc(e, [doc[e] EXCEPT !.status = s, !.approval = NoHandle])
          /\ handle[h].pc = "raised"
      BY <1>1, <1>3, <1>11 DEF Raised, WorkerAt
  <2>2. Goal
      BY <1>5, <1>6, <2>1 DEF Terminal
  <2> QED BY <1>1, <1>2, <2>2
<1>12. CASE Commit(h)
  <2>1. PICK a : /\ SaveDoc(e, [doc[e] EXCEPT !.status = PausedAs(h), !.approval = a])
                 /\ checkpoints[h] # "none" => a = h
      BY <1>1, <1>3, <1>12 DEF Commit
  <2>2. /\ SetHandle(h, [handle[h] EXCEPT !.rec = PausedAs(h), !.pc = "mirror"])
        /\ handle[h].pc = "commit"
      BY <1>12 DEF Commit, WorkerAt
  <2>3. PICK s : s = PausedAs(h)
      OBVIOUS
  <2>4. /\ doc'[e].status = s /\ doc'[e].approval = a /\ doc'[e].resume = doc[e].resume
        /\ \A f \in Executions \ {e} : doc'[f] = doc[f]
      BY <1>6, <2>1, <2>3
  <2>5. handle'[h].pc = "mirror" /\ handle'[h].rec = s
      BY <1>5, <2>2, <2>3
  <2>6. Goal
      BY <1>12, <2>1, <2>2, <2>3, <2>4, <2>5
  <2> QED BY <1>1, <1>2, <2>6
<1>13. CASE Mirror(h)
  <2>1. PICK q : /\ SaveDoc(e, [doc[e] EXCEPT !.queue = q])
                 /\ SetHandle(h, [handle[h] EXCEPT !.qrec = q, !.pc = "exit"])
                 /\ handle[h].pc = "mirror"
      BY <1>1, <1>3, <1>13 DEF Mirror, WorkerAt
  <2>2. LET d == [doc[e] EXCEPT !.queue = q]
        IN  d.status = doc[e].status /\ d.approval = doc[e].approval /\ d.resume = doc[e].resume
      BY <1>3, DocFields
  <2>3. handle'[h].pc = "exit" /\ handle'[h].rec = handle[h].rec
      BY <1>3, <2>1 DEF SetHandle, HandleRecord
  <2>4. Unwritten(e) /\ \A f \in Executions \ {e} : doc'[f] = doc[f]
      BY <2>1, <2>2, Saved DEF Unwritten
  <2>5. Goal
      BY <2>1, <2>3, <2>4
  <2> QED BY <1>1, <1>2, <2>5
<1>14. CASE ExitPaused(h) \/ ExitReleased(h)
  <2>1. doc' = doc /\ Step(h, "idle") /\ handle[h].pc = "exit"
      BY <1>14 DEF ExitPaused, ExitReleased, WorkerAt
  <2>2. Goal
      BY <1>4, <2>1 DEF Unwritten
  <2> QED BY <1>1, <1>2, <2>2
<1> QED BY <1>7, <1>8, <1>9, <1>10, <1>11, <1>12, <1>13, <1>14 DEF WorkerStep

\* What a request may write, by the action that does it.
LEMMA RequestDoc ==
    ASSUME Typed, NEW r \in Requests, NewRequest(r) \/ RequestStep(r)
    PROVE  \/ \A f \in Executions : Unwritten(f)
           \/ \E e \in Executions :
                /\ Start(r, e) /\ doc'[e].status = "queued"
                /\ \A f \in Executions \ {e} : doc'[f] = doc[f]
           \/ \E h \in Handles :
                /\ CancelPending(h) /\ h <= issued /\ handle[h].exec \in Executions
                /\ \E e \in Executions : active[e] = h
                /\ doc'[handle[h].exec].status = "cancelled"
                /\ \A f \in Executions \ {handle[h].exec} : doc'[f] = doc[f]
           \/ /\ request[r].exec \in Executions
              /\ \A f \in Executions \ {request[r].exec} : doc'[f] = doc[f]
              /\ \/ (ApproveSave(r) \/ ResumeSave(r)) /\ doc'[request[r].exec].status = "queued"
                 \/ Settle(r) /\ doc'[request[r].exec].status = request[r].target
                 \/ Cleanup(r) /\ doc'[request[r].exec].status = doc[request[r].exec].status
                 \/ CancelPaused(r) /\ doc'[request[r].exec].status = "cancelled"
                 \/ CancelMirror(r) /\ doc'[request[r].exec].status = doc[request[r].exec].status
<1>1. /\ doc \in [Executions -> DocRecord] /\ handle \in [Handles -> HandleRecord]
      /\ active \in [Executions -> Handles \cup {NoHandle}]
    BY PoolTypes DEF Typed, TypeOK
<1>2. request[r].pc # "idle" =>
        request[r].exec \in Executions /\ active[request[r].exec] \in Handles \cup {NoHandle}
    BY <1>1 DEF Typed, RequestsBuilt
<1>3. doc' = doc => \A f \in Executions : Unwritten(f)
    BY DEF Unwritten
<1>4. ASSUME NEW e \in Executions, NEW s, NEW a,
             \/ SaveDoc(e, [doc[e] EXCEPT !.status = s, !.approval = a])
             \/ \E q : SaveDoc(e, [doc[e] EXCEPT !.queue = q, !.status = s, !.approval = a])
      PROVE  doc'[e].status = s /\ \A f \in Executions \ {e} : doc'[f] = doc[f]
  <2>1. doc[e] \in DocRecord
      BY <1>1
  <2>2. PICK d : SaveDoc(e, d) /\ d.status = s
    <3>1. CASE SaveDoc(e, [doc[e] EXCEPT !.status = s, !.approval = a])
      <4>1. [doc[e] EXCEPT !.status = s, !.approval = a].status = s
          BY <2>1, DocFields
      <4> QED BY <3>1, <4>1
    <3>2. ASSUME NEW q, SaveDoc(e, [doc[e] EXCEPT !.queue = q, !.status = s, !.approval = a])
          PROVE  \E d : SaveDoc(e, d) /\ d.status = s
      <4>1. [doc[e] EXCEPT !.queue = q, !.status = s, !.approval = a].status = s
          BY <2>1, DocFields
      <4> QED BY <3>2, <4>1
    <3> QED BY <1>4, <3>1, <3>2
  <2> QED BY <2>2, Saved
<1>5. ASSUME NEW e \in Executions, Start(r, e)
      PROVE  doc'[e].status = "queued" /\ \A f \in Executions \ {e} : doc'[f] = doc[f]
  <2>1. SaveDoc(e, [doc[e] EXCEPT !.status = "queued"]) /\ doc[e] \in DocRecord
      BY <1>1, <1>5 DEF Start
  <2>2. [doc[e] EXCEPT !.status = "queued"].status = "queued"
      BY <2>1, DocFields
  <2> QED BY <2>1, <2>2, Saved
<1>6. ASSUME NEW h \in Handles, CancelPending(h)
      PROVE  /\ h <= issued /\ handle[h].exec \in Executions
             /\ doc'[handle[h].exec].status = "cancelled"
             /\ \A f \in Executions \ {handle[h].exec} : doc'[f] = doc[f]
  <2>1. PICK e \in Executions : e = handle[h].exec /\ h <= issued
      BY <1>6, BuiltExec DEF CancelPending
  <2>2. SaveDoc(e, [doc[e] EXCEPT !.queue = "cancelled", !.status = "cancelled", !.approval = handle[h].from])
      BY <1>6, <2>1 DEF CancelPending, DocOf
  <2>3. doc'[e].status = "cancelled" /\ \A f \in Executions \ {e} : doc'[f] = doc[f]
      BY <1>4, <2>2
  <2> QED BY <2>1, <2>3
<1>7. CASE NewRequest(r)
  <2>1. \/ \E e \in Executions : Start(r, e)
        \/ \E e \in Executions : active[e] \in Handles /\ CancelPending(active[e])
        \/ doc' = doc
      BY <1>1, <1>7 DEF NewRequest, StopRead, CancelQueued, PauseRead, ResumeRead, ApproveRead,
                  RejectRead, DecisionRead
  <2> QED BY <1>3, <1>5, <1>6, <2>1
<1>8. CASE Register(r) \/ ResumeRegister(r) \/ Cleanup(r) \/ CancelMirror(r)
  <2>1. PICK e \in Executions : e = request[r].exec
      BY <1>2, <1>8 DEF Register, ResumeRegister, Cleanup, CancelMirror, At
  <2>2. doc[e] \in DocRecord
      BY <1>1
  <2>3. CASE Register(r) \/ ResumeRegister(r)
    <3>1. PICK q : SaveDoc(e, [doc[e] EXCEPT !.queue = q])
        BY <2>1, <2>3 DEF Register, ResumeRegister, DocFor
    <3>2. LET d == [doc[e] EXCEPT !.queue = q]
          IN  d.status = doc[e].status /\ d.approval = doc[e].approval /\ d.resume = doc[e].resume
        BY <2>2, DocFields
    <3>3. \A f \in Executions : Unwritten(f)
        BY <3>1, <3>2, Saved DEF Unwritten
    <3> QED BY <3>3
  <2>4. CASE Cleanup(r)
    <3>1. SaveDoc(e, [doc[e] EXCEPT !.resume = NoHandle])
        BY <2>1, <2>4 DEF Cleanup, DocFor
    <3>2. [doc[e] EXCEPT !.resume = NoHandle].status = doc[e].status
        BY <2>2, DocFields
    <3> QED BY <2>1, <2>4, <3>1, <3>2, Saved
  <2>5. CASE CancelMirror(r)
    <3>1. SaveDoc(e, [doc[e] EXCEPT !.queue = "cancelled", !.resume = NoHandle])
        BY <2>1, <2>5 DEF CancelMirror, DocFor
    <3>2. [doc[e] EXCEPT !.queue = "cancelled", !.resume = NoHandle].status = doc[e].status
        BY <2>2, DocFields
    <3> QED BY <2>1, <2>5, <3>1, <3>2, Saved
  <2> QED BY <1>8, <2>3, <2>4, <2>5
<1>9. CASE ApproveSave(r) \/ ResumeSave(r) \/ Settle(r) \/ CancelPaused(r)
  <2>1. PICK e \in Executions : e = request[r].exec
      BY <1>2, <1>9 DEF ApproveSave, ResumeSave, Settle, CancelPaused, At
  <2>2. CASE doc' = doc
      BY <1>3, <2>2
  <2>3. CASE (ApproveSave(r) \/ ResumeSave(r)) /\ doc' # doc
    <3>1. PICK a : SaveDoc(e, [doc[e] EXCEPT !.status = "queued", !.approval = a])
        BY <2>1, <2>3 DEF ApproveSave, ResumeSave
    <3> QED BY <1>4, <2>1, <2>3, <3>1
  <2>4. CASE Settle(r)
    <3>1. PICK s, a : s = request[r].target /\ a = request[r].checkpoint
        OBVIOUS
    <3>2. SaveDoc(e, [doc[e] EXCEPT !.status = s, !.approval = a])
        BY <2>1, <2>4, <3>1 DEF Settle, DocFor
    <3>3. doc'[e].status = s /\ \A f \in Executions \ {e} : doc'[f] = doc[f]
        BY <1>4, <3>2
    <3> QED BY <2>1, <2>4, <3>1, <3>3
  <2>5. CASE CancelPaused(r)
    <3>1. SaveDoc(e, [doc[e] EXCEPT !.status = "cancelled", !.approval = NoHandle])
        BY <2>1, <2>5 DEF CancelPaused, DocFor
    <3> QED BY <1>4, <2>1, <2>5, <3>1
  <2> QED BY <1>9, <2>2, <2>3, <2>4, <2>5
<1>10. CASE StopSignal(r)
  <2>1. doc' = doc \/ (active[request[r].exec] \in Handles /\ CancelPending(active[request[r].exec]))
      BY <1>2, <1>10 DEF StopSignal, At
  <2>2. request[r].exec \in Executions
      BY <1>2, <1>10 DEF StopSignal, At
  <2> QED BY <1>3, <1>6, <2>1, <2>2
<1>11. CASE Enqueue(r) \/ PauseSignal(r) \/ ResumeSpawn(r) \/ ApproveExpire(r) \/ ApproveDecide(r)
            \/ RejectDecide(r) \/ CancelDecide(r) \/ CancelRelease(r)
  <2>1. doc' = doc
      BY <1>11 DEF Enqueue, PauseSignal, ResumeSpawn, ApproveExpire, ApproveDecide, RejectDecide,
                   CancelDecide, CancelRelease
  <2> QED BY <1>3, <2>1
<1> QED BY <1>7, <1>8, <1>9, <1>10, <1>11 DEF RequestStep

\* The handle that is admitted, and what its admission does to it and its document.
LEMMA AdmitDoc ==
    ASSUME Typed, Dispatch
    PROVE  \/ doc' = doc /\ handle' = handle /\ runningProjects' = runningProjects
              /\ runningCount' = runningCount
           \/ \E p \in Projects : \E h \in InQueue(p) :
                /\ h \in Handles /\ h <= issued /\ handle[h].exec \in Executions
                /\ handle[h].qrec = "pending" /\ handle'[h].qrec = "running"
                /\ handle'[h].pc = "starting" /\ handle'[h].exec = handle[h].exec
                /\ \A g \in Handles \ {h} : handle'[g] = handle[g]
                /\ doc'[handle[h].exec].status = "running"
                /\ \A f \in Executions \ {handle[h].exec} : doc'[f] = doc[f]
                /\ p \notin runningProjects /\ runningProjects' = runningProjects \cup {p}
                /\ runningCount < MaxWorkers
<1> SUFFICES ASSUME ~(doc' = doc /\ handle' = handle /\ runningProjects' = runningProjects
                      /\ runningCount' = runningCount)
             PROVE  \E p \in Projects : \E h \in InQueue(p) :
                      /\ h \in Handles /\ h <= issued /\ handle[h].exec \in Executions
                      /\ handle[h].qrec = "pending" /\ handle'[h].qrec = "running"
                      /\ handle'[h].pc = "starting" /\ handle'[h].exec = handle[h].exec
                      /\ \A g \in Handles \ {h} : handle'[g] = handle[g]
                      /\ doc'[handle[h].exec].status = "running"
                      /\ \A f \in Executions \ {handle[h].exec} : doc'[f] = doc[f]
                      /\ p \notin runningProjects /\ runningProjects' = runningProjects \cup {p}
                      /\ runningCount < MaxWorkers
    OBVIOUS
<1>1. PICK p \in Projects : p = Head(readyProjects)
  <2>1. readyProjects # <<>> /\ readyProjects \in Seq(Projects)
      BY PoolTypes DEF Dispatch, DispatchNext, DispatchDone, HasRoom
  <2> QED BY <2>1
<1>2. PICK i \in DOMAIN projectQueues[p] : AdmitFirst(p, i)
    BY <1>1 DEF Dispatch, DispatchNext, DispatchDone
<1>3. p \notin runningProjects /\ runningCount < MaxWorkers
    BY <1>1 DEF Dispatch, DispatchNext, DispatchDone, HasRoom
<1>4. PICK h \in Handles : h = projectQueues[p][i] /\ h <= issued
    BY QueuedHandle
<1>5. h \in InQueue(p)
    BY <1>4 DEF InQueue
<1>6. PICK e \in Executions : e = handle[h].exec
    BY <1>4, BuiltExec
<1>7. handle \in [Handles -> HandleRecord] /\ handle[h] \in HandleRecord /\ doc[e] \in DocRecord
    BY PoolTypes DEF Typed, TypeOK
<1>8. /\ SetHandle(h, [handle[h] EXCEPT !.qrec = "running", !.rec = "running", !.pc = "starting"])
      /\ handle[h].qrec = "pending"
      /\ SaveDoc(e, [doc[e] EXCEPT !.queue = "running", !.status = "running", !.approval = handle[h].from])
      /\ runningProjects' = runningProjects \cup {p}
    BY <1>2, <1>4, <1>6 DEF AdmitFirst, DocOf
<1>9. /\ handle'[h].qrec = "running" /\ handle'[h].pc = "starting" /\ handle'[h].exec = e
      /\ \A g \in Handles \ {h} : handle'[g] = handle[g]
    BY <1>6, <1>7, <1>8 DEF SetHandle, HandleRecord
<1>10. [doc[e] EXCEPT !.queue = "running", !.status = "running", !.approval = handle[h].from].status = "running"
    BY <1>7, DocFields
<1>11. doc'[e].status = "running" /\ \A f \in Executions \ {e} : doc'[f] = doc[f]
    BY <1>8, <1>10, Saved
<1> QED BY <1>3, <1>4, <1>5, <1>6, <1>8, <1>9, <1>11

\* What a restart writes: the queue mirror of a paused run, and then the end of what
\* was in flight.
LEMMA RestartDoc ==
    ASSUME Typed, Crash \/ Restore \/ Reconcile, NEW e \in Executions
    PROVE  \/ ~Reconcile /\ Unwritten(e)
           \/ /\ Reconcile
              /\ doc'[e].status = IF Interrupted(doc[e].status) THEN "failed" ELSE doc[e].status
              /\ doc'[e].approval = doc[e].approval /\ doc'[e].resume = doc[e].resume
<1>1. doc[e] \in DocRecord
    BY DEF Typed, TypeOK
<1>2. CASE Crash
    BY <1>2 DEF Crash, Reconcile, Unwritten
<1>3. CASE Restore
  <2>1. LET x == [doc[e] EXCEPT !.queue = "paused"]
        IN  x.status = doc[e].status /\ x.approval = doc[e].approval /\ x.resume = doc[e].resume
      BY <1>1, DocFields
  <2>2. doc'[e] \in {doc[e], [doc[e] EXCEPT !.queue = "paused"]}
      BY <1>3 DEF Restore
  <2>3. ~Reconcile
      BY <1>3 DEF Restore, Reconcile
  <2> QED BY <2>1, <2>2, <2>3 DEF Unwritten
<1>4. CASE Reconcile
    BY <1>4 DEF Reconcile
<1> QED BY <1>2, <1>3, <1>4

\* Handles keep their execution; the one a step may add belongs to the execution
\* its request saves as queued.
LEMMA BuiltOnce ==
    ASSUME Typed, Next
    PROVE  \/ issued' = issued /\ \A h \in Handles : handle'[h].exec = handle[h].exec
           \/ /\ issued' = issued + 1 /\ issued + 1 \in Handles
              /\ \A h \in Handles \ {issued + 1} : handle'[h] = handle[h]
              /\ handle'[issued + 1].pc = "idle"
              /\ \E r \in Requests :
                   \/ Start(r, handle'[issued + 1].exec) /\ handle'[issued + 1].exec \in Executions
                   \/ /\ ApproveSave(r) \/ ResumeSave(r)
                      /\ handle'[issued + 1].exec = request[r].exec
                      /\ doc'[request[r].exec].status = "queued"
<1> DEFINE Kept == \A h \in Handles : handle'[h].exec = handle[h].exec
<1>1. /\ handle \in [Handles -> HandleRecord] /\ issued \in Nat
      /\ active \in [Executions -> Handles \cup {NoHandle}]
    BY PoolTypes DEF Typed, TypeOK
<1>2. CASE Dispatch
  <2>1. issued' = issued
      BY <1>2 DEF Dispatch, DispatchNext, DispatchDone
  <2>2. Kept
      BY <1>2, AdmitDoc
  <2> QED BY <2>1, <2>2
<1>3. ASSUME NEW g \in Handles, WorkerStep(g) \/ NodePersist(g)
      PROVE  issued' = issued /\ Kept
    BY <1>3, WorkerHandle
<1>4. CASE Boot \/ Crash
  <2>1. issued' = issued
      BY <1>4 DEF Boot, Crash, Restore, Reconcile
  <2>2. CASE handle' = handle
      BY <2>1, <2>2
  <2>3. CASE handle' # handle
    <3>1. \A h \in Handles : handle'[h] = [handle[h] EXCEPT !.pc = "idle"]
        BY <1>4, <2>3 DEF Boot, Crash, Restore, Reconcile
    <3>2. \A h \in Handles : [handle[h] EXCEPT !.pc = "idle"].exec = handle[h].exec
      <4> TAKE h \in Handles
      <4>1. handle[h] \in HandleRecord
          BY <1>1
      <4> QED BY <4>1 DEF HandleRecord
    <3> QED BY <2>1, <3>1, <3>2
  <2> QED BY <2>2, <2>3
<1>5. ASSUME NEW r \in Requests, NewRequest(r) \/ RequestStep(r)
      PROVE  \/ issued' = issued /\ Kept
             \/ /\ issued' = issued + 1 /\ issued + 1 \in Handles
                /\ \A h \in Handles \ {issued + 1} : handle'[h] = handle[h]
                /\ handle'[issued + 1].pc = "idle"
                /\ \/ Start(r, handle'[issued + 1].exec) /\ handle'[issued + 1].exec \in Executions
                   \/ /\ ApproveSave(r) \/ ResumeSave(r)
                      /\ handle'[issued + 1].exec = request[r].exec
                      /\ doc'[request[r].exec].status = "queued"
  <2>1. ASSUME NEW e, NEW q, NEW k, NewHandle(e, q, k)
        PROVE  /\ issued' = issued + 1 /\ issued + 1 \in Handles
               /\ \A h \in Handles \ {issued + 1} : handle'[h] = handle[h]
               /\ handle'[issued + 1].pc = "idle" /\ handle'[issued + 1].exec = e
      BY <1>1, <2>1, BoundsAssumption DEF NewHandle
  <2>2. ASSUME NEW e \in Executions, Start(r, e)
        PROVE  NewHandle(e, "pending", NoHandle)
      BY <2>2 DEF Start
  <2>3. CASE (ApproveSave(r) \/ ResumeSave(r)) /\ ~(UNCHANGED <<handle, issued>>)
    <3>1. \E q, k : NewHandle(request[r].exec, q, k)
        BY <2>3 DEF ApproveSave, ResumeSave
    <3>2. doc'[request[r].exec].status = "queued"
      <4>1. request[r].exec \in Executions
          BY <2>3 DEF Typed, RequestsBuilt, ApproveSave, ResumeSave, At
      <4>2. PICK e \in Executions : e = request[r].exec
          BY <4>1
      <4>3. PICK a : SaveDoc(e, [doc[e] EXCEPT !.status = "queued", !.approval = a])
          BY <2>3, <4>2 DEF ApproveSave, ResumeSave
      <4>4. [doc[e] EXCEPT !.status = "queued", !.approval = a].status = "queued"
        <5>1. doc[e] \in DocRecord
            BY DEF Typed, TypeOK
        <5> QED BY <5>1, DocFields
      <4> QED BY <4>2, <4>3, <4>4, Saved
    <3> QED BY <2>1, <2>3, <3>1, <3>2
  <2>4. ASSUME NEW g \in Handles, NEW x,
               SetHandle(g, x),
               \/ x = [handle[g] EXCEPT !.stop = TRUE, !.qrec = "cancelled", !.rec = "cancelled"]
               \/ x = [handle[g] EXCEPT !.stop = TRUE]
               \/ x = [handle[g] EXCEPT !.pause = TRUE]
               \/ x = [handle[g] EXCEPT !.pc = "starting"]
        PROVE  Kept
    <3>1. handle[g] \in HandleRecord
        BY <1>1
    <3>2. x.exec = handle[g].exec
        BY <2>4, <3>1 DEF HandleRecord
    <3> QED BY <1>1, <2>4, <3>2 DEF SetHandle
  <2>5. CASE NewRequest(r)
    <3>1. \/ \E e \in Executions : Start(r, e)
          \/ UNCHANGED <<handle, issued>>
          \/ issued' = issued /\ \E g \in Handles : CancelPending(g)
        BY <1>1, <2>5 DEF NewRequest, StopRead, CancelQueued, PauseRead, ResumeRead, ApproveRead,
                          RejectRead, DecisionRead
    <3>2. ASSUME NEW e \in Executions, Start(r, e)
          PROVE  /\ issued' = issued + 1 /\ issued + 1 \in Handles
                 /\ \A h \in Handles \ {issued + 1} : handle'[h] = handle[h]
                 /\ handle'[issued + 1].pc = "idle"
                 /\ Start(r, handle'[issued + 1].exec) /\ handle'[issued + 1].exec \in Executions
        BY <2>1, <2>2, <3>2
    <3> QED BY <2>4, <3>1, <3>2 DEF CancelPending
  <2>6. request[r].pc # "idle" => active[request[r].exec] \in Handles \cup {NoHandle}
      BY <1>1 DEF Typed, RequestsBuilt
  <2>7. CASE StopSignal(r) \/ PauseSignal(r)
    <3>1. issued' = issued
        BY <2>7 DEF StopSignal, PauseSignal
    <3>2. \/ handle' = handle
          \/ \E g \in Handles : \/ CancelPending(g)
                                \/ SetHandle(g, [handle[g] EXCEPT !.stop = TRUE])
                                \/ SetHandle(g, [handle[g] EXCEPT !.pause = TRUE])
        BY <2>6, <2>7 DEF StopSignal, PauseSignal, At
    <3> QED BY <2>4, <3>1, <3>2 DEF CancelPending
  <2>8. CASE ResumeSpawn(r)
    <3>1. request[r].handle \in Handles
        BY <1>1, <2>8, BoundsAssumption DEF ResumeSpawn, At, Typed, TypeOK, RequestsBuilt
    <3> QED BY <2>4, <2>8, <3>1 DEF ResumeSpawn, Step
  <2>9. CASE RequestStep(r) /\ ~(StopSignal(r) \/ PauseSignal(r) \/ ResumeSpawn(r))
    <3>1. UNCHANGED <<handle, issued>> \/ ApproveSave(r) \/ ResumeSave(r)
        BY <2>9 DEF RequestStep, Register, Enqueue, ResumeRegister, ApproveExpire, ApproveDecide,
                    RejectDecide, CancelDecide, Settle, Cleanup, CancelPaused, CancelMirror, CancelRelease
    <3> QED BY <2>3, <3>1
  <2> QED BY <1>5, <2>5, <2>7, <2>8, <2>9
<1> QED BY <1>2, <1>3, <1>4, <1>5 DEF Next

-----------------------------------------------------------------------------
(***************************************************************************)
(* The ceiling on projects whose nodes execute, for one operator at a      *)
(* time.  A pause turns a thread into a resting document, a resume turns   *)
(* it back, and between the two a project must stay counted although no    *)
(* thread runs in it: the argument follows, for each project, the one      *)
(* thread or resting execution that has its slot.                          *)
(***************************************************************************)

\* Requests are served one after the other.
OneOperator == \A r, q \in Requests : r = q

\* A pool thread has its project until it has written that its run is paused.
Holding(h) == handle[h].pc # "idle" /\ ~(handle[h].pc \in {"mirror", "exit"} /\ handle[h].rec = "paused")

\* A request that turns a paused execution into something else, and where it does
\* so the document no longer says "paused".
Turned == {"resume_register", "resume_spawn", "cancel_mirror", "cancel_release"}
Turning == Turned \cup {"resume_save", "cancel_paused"}

\* Execution e rests in a user pause, or is on its way out of it.
Rests(e) == \/ doc[e].status = "paused"
            \/ \E r \in Requests : request[r].exec = e /\ request[r].pc \in Turning

\* A project has one thread or one resting execution, and its slot is counted.
OneHolder == \A g, h \in Handles : Holding(g) /\ Holding(h) /\ ProjectFor(g) = ProjectFor(h) => g = h
OneResting == \A e, f \in Executions : Rests(e) /\ Rests(f) /\ ProjectOf[e] = ProjectOf[f] => e = f
HolderAlone == \A h \in Handles, e \in Executions : Holding(h) /\ Rests(e) => ProjectFor(h) # ProjectOf[e]
HolderCounted == \A h \in Handles : Holding(h) => ProjectFor(h) \in runningProjects
RestCounted == phase # "booting" =>
                 \A e \in Executions : Rests(e) => ProjectOf[e] \in runningProjects

\* What keeps the slot of a resting execution: the thread that still has to end,
\* or a reservation in its project.
RestKept ==
    phase # "booting" =>
      \A e \in Executions : Rests(e) =>
        \/ \E h \in Occupants : ProjectFor(h) = ProjectOf[e]
        \/ \E f \in pausedReservations : ProjectOf[f] = ProjectOf[e]

Exclusive == OneHolder /\ OneResting /\ HolderAlone /\ HolderCounted /\ RestCounted /\ RestKept

\* The projects in which a thread lives or an execution rests fit into the pool.
Resting == {e \in Executions : Rests(e)}
Taken == {ProjectFor(h) : h \in Occupants} \cup {ProjectOf[e] : e \in Resting}
WithinCeiling == Cardinality(Taken) <= MaxWorkers

\* A queue holds the handles of its own project, and a request starts the handle
\* it built for its execution.
OwnQueue == \A p \in Projects : \A h \in InQueue(p) : ProjectFor(h) = p
OwnHandle == \A r \in Requests :
               request[r].pc \in {"register", "enqueue", "resume_register", "resume_spawn"} =>
                 handle[request[r].handle].exec = request[r].exec

TurnedAway == \A r \in Requests : request[r].pc \in Turned => doc[request[r].exec].status # "paused"

\* The holder of a project lock is a thread of that project inside its loop.
LockHeld == \A p \in Projects, h \in Handles :
              projectLock[p] = h => handle[h].pc = "running" /\ ProjectFor(h) = p

\* No request survives into a process that still boots.
BootIdle == phase # "up" => \A r \in Requests : request[r].pc = "idle"

Slotted == Exclusive /\ WithinCeiling /\ OwnQueue /\ OwnHandle /\ TurnedAway /\ LockHeld /\ BootIdle

\* A finite set has at most as many images as elements.
LEMMA ImageBound ==
    ASSUME NEW S, IsFiniteSet(S), NEW f
    PROVE  LET T == {f[x] : x \in S}
           IN  IsFiniteSet(T) /\ Cardinality(T) \in Nat /\ Cardinality(T) <= Cardinality(S)
<1> DEFINE T == {f[x] : x \in S}
           g == [x \in S |-> f[x]]
<1>1. g \in Surjection(S, T)
    BY DEF Surjection
<1> QED BY <1>1, FS_Surjection, FS_CardinalityType

\* The projects that are taken are finitely many, and, outside a booting process,
\* no more than the slots that are counted.
LEMMA TakenCounted ==
    ASSUME Typed
    PROVE  /\ IsFiniteSet(Taken) /\ Cardinality(Taken) \in Nat
           /\ RestKept /\ SlotsCovered /\ phase # "booting" => Cardinality(Taken) <= runningCount
<1> DEFINE byThread == [h \in Occupants |-> ProjectFor(h)]
           A == {byThread[h] : h \in Occupants}
           B == {ProjectOf[e] : e \in Resting}
           C == {ProjectOf[e] : e \in pausedReservations}
<1>1. IsFiniteSet(A) /\ Cardinality(A) \in Nat /\ Cardinality(A) <= Cardinality(Occupants)
    BY Account, ImageBound
<1>2. Resting \in SUBSET Executions
    BY DEF Resting
<1>3. IsFiniteSet(Resting)
    BY <1>2, ExecutionsAssumption, FS_Subset
<1>4. IsFiniteSet(B)
    BY <1>3, ImageBound
<1>5. IsFiniteSet(C) /\ Cardinality(C) \in Nat /\ Cardinality(C) <= Cardinality(pausedReservations)
    BY Account, ImageBound
<1>6. Taken = A \cup B
    BY DEF Taken
<1>7. IsFiniteSet(Taken) /\ Cardinality(Taken) \in Nat
    BY <1>1, <1>4, <1>6, FS_Union, FS_CardinalityType
<1>8. ASSUME RestKept, SlotsCovered, phase # "booting"
      PROVE  Cardinality(Taken) <= runningCount
  <2>1. Taken \subseteq A \cup C
      BY <1>6, <1>8 DEF RestKept, Resting
  <2>2. /\ IsFiniteSet(A \cup C) /\ IsFiniteSet(A \cap C)
        /\ Cardinality(A \cup C) = Cardinality(A) + Cardinality(C) - Cardinality(A \cap C)
    <3>1. A \cap C \in SUBSET A
        OBVIOUS
    <3> QED BY <1>1, <1>5, <3>1, FS_Union, FS_Subset
  <2>3. Cardinality(A \cap C) \in Nat /\ Cardinality(A \cup C) \in Nat
      BY <2>2, FS_CardinalityType
  <2>4. Cardinality(Taken) <= Cardinality(A \cup C)
      BY <2>1, <2>2, FS_Subset
  <2> HIDE DEF A, B, C
  <2> QED BY <1>1, <1>5, <1>7, <1>8, <2>2, <2>3, <2>4, Account DEF SlotsCovered
<1> QED BY <1>7, <1>8

\* The projects that are taken do not grow beyond the pool when none is added.
LEMMA TakenShrinks ==
    ASSUME Typed, WithinCeiling, Taken' \subseteq Taken
    PROVE  WithinCeiling'
<1>1. Cardinality(Taken') <= Cardinality(Taken) /\ Cardinality(Taken') \in Nat
    BY TakenCounted, FS_Subset, FS_CardinalityType
<1> QED BY <1>1, TakenCounted, BoundsAssumption DEF WithinCeiling

\* A document begins to say "paused" or "awaiting_approval" only where a pool thread
\* commits the pause.
LEMMA PausedBy ==
    ASSUME Typed, Next, NEW e \in Executions, doc'[e].status \in Durable,
           doc'[e].status # doc[e].status
    PROVE  \E h \in Handles : Commit(h) /\ handle[h].exec = e /\ handle'[h].rec = doc'[e].status
<1>1. request \in [Requests -> RequestRecord] /\ doc \in [Executions -> DocRecord]
    BY DEF Typed, TypeOK
<1>2. CASE Dispatch
    BY <1>2, AdmitDoc DEF Durable
<1>3. ASSUME NEW h \in Handles, WorkerStep(h) \/ NodePersist(h)
      PROVE  Commit(h) /\ handle[h].exec = e /\ handle'[h].rec = doc'[e].status
    BY <1>3, WorkerDoc DEF Terminal, Durable, Unwritten
<1>4. ASSUME NEW r \in Requests, NewRequest(r) \/ RequestStep(r)
      PROVE  FALSE
  <2>1. request[r].target \notin Durable
      BY <1>1 DEF RequestRecord, Durable
  <2> QED BY <1>4, <2>1, RequestDoc DEF Unwritten, Durable
<1>5. CASE Crash \/ Boot
    BY <1>5, RestartDoc DEF Boot, Unwritten, Durable
<1> QED BY <1>2, <1>3, <1>4, <1>5 DEF Next

\* Where an execution begins to rest: its pool thread commits the pause.  Every
\* other step leaves it resting or takes it out.
LEMMA RestOrigin ==
    ASSUME Typed, Next, NEW e \in Executions, Rests(e)'
    PROVE  \/ Rests(e)
           \/ \E h \in Handles : Commit(h) /\ handle[h].exec = e /\ handle'[h].rec = "paused"
<1>1. request \in [Requests -> RequestRecord] /\ doc \in [Executions -> DocRecord]
    BY DEF Typed, TypeOK
<1>2. ASSUME doc'[e].status = "paused", doc[e].status # "paused"
      PROVE  \E h \in Handles : Commit(h) /\ handle[h].exec = e /\ handle'[h].rec = "paused"
    BY <1>2, PausedBy DEF Durable
<1>3. ASSUME NEW r \in Requests, request'[r].exec = e, request'[r].pc \in Turning
      PROVE  Rests(e)
  <2>1. CASE request'[r] = request[r]
      BY <1>3, <2>1 DEF Rests
  <2>2. CASE NewRequest(r)
    <3>1. PICK f \in Executions : ResumeRead(r, f) \/ StopRead(r, f)
      <4>1. \A f \in Executions : Start(r, f) => request'[r].pc = "register"
          BY <1>1 DEF Start, Enter, Idle
      <4>2. \A f \in Executions : CancelQueued(r, f) => request'[r].pc = "idle"
          BY <1>1 DEF CancelQueued, Enter, Idle
      <4>3. \A f \in Executions : PauseRead(r, f) => request'[r].pc = "pause_signal"
          BY <1>1 DEF PauseRead, Enter, Idle
      <4>4. \A f \in Executions : ApproveRead(r, f) => request'[r].pc = "approve_expire"
          BY <1>1 DEF ApproveRead, DecisionRead, Enter, Idle
      <4>5. \A f \in Executions : RejectRead(r, f) => request'[r].pc = "reject_decide"
          BY <1>1 DEF RejectRead, DecisionRead, Enter, Idle
      <4> QED BY <1>3, <2>2, <4>1, <4>2, <4>3, <4>4, <4>5 DEF NewRequest, Turning, Turned
    <3>2. CASE ResumeRead(r, f)
        BY <1>1, <1>3, <3>2 DEF ResumeRead, Enter, Idle, Rests
    <3>3. CASE StopRead(r, f)
      <4>1. request'[r].pc = StopPath(doc[f].status) /\ request'[r].exec = f
          BY <1>1, <3>3 DEF StopRead, Enter, Idle
      <4>2. doc[f].status = "paused"
          BY <1>3, <4>1 DEF StopPath, Turning, Turned
      <4> QED BY <1>3, <4>1, <4>2 DEF Rests
    <3> QED BY <3>1, <3>2, <3>3
  <2>3. CASE RequestStep(r)
    <3>1. \A c : Goto(r, c) => request'[r].pc = c /\ request'[r].exec = request[r].exec
        BY <1>1 DEF Goto, RequestRecord
    <3>2. Return(r) => request'[r].pc = "idle"
        BY <1>1 DEF Return, Idle
    <3>3. CASE Register(r) \/ Enqueue(r) \/ StopSignal(r) \/ PauseSignal(r) \/ ResumeSpawn(r)
               \/ Cleanup(r) \/ CancelRelease(r) \/ Settle(r)
      <4>1. request'[r].pc \in {"enqueue", "idle", "cleanup"}
          BY <3>1, <3>2, <3>3 DEF Register, Enqueue, StopSignal, PauseSignal, ResumeSpawn, Cleanup,
                                  CancelRelease, Settle
      <4> QED BY <1>3, <4>1 DEF Turning, Turned
    <3>4. CASE ResumeSave(r) \/ ResumeRegister(r) \/ CancelPaused(r) \/ CancelMirror(r)
      <4>1. ResumeSave(r) => request'[r].exec = request[r].exec
          BY <1>1 DEF ResumeSave, RequestRecord
      <4>2. request'[r].exec = request[r].exec
          BY <3>1, <3>4, <4>1 DEF ResumeRegister, CancelPaused, CancelMirror
      <4>3. request[r].pc \in Turning
          BY <3>4 DEF ResumeSave, ResumeRegister, CancelPaused, CancelMirror, At, Turning, Turned
      <4> QED BY <1>3, <4>2, <4>3 DEF Rests
    <3>5. CASE ApproveExpire(r) \/ ApproveDecide(r) \/ RejectDecide(r) \/ CancelDecide(r)
      <4>1. request'[r].pc \in {"settle", "approve_decide", "approve_save", "idle"}
          BY <3>1, <3>2, <3>5 DEF ApproveExpire, ApproveDecide, RejectDecide, CancelDecide, Decide
      <4> QED BY <1>3, <4>1 DEF Turning, Turned
    <3>6. CASE ApproveSave(r)
      <4>1. \A p : request' = [request EXCEPT ![r] = p] => request'[r] = p
          BY <1>1
      <4>2. [request[r] EXCEPT !.pc = "register", !.handle = issued + 1].pc = "register"
          BY <1>1 DEF RequestRecord
      <4>3. \/ request' = [request EXCEPT ![r] = [request[r] EXCEPT !.pc = "register", !.handle = issued + 1]]
            \/ Return(r)
          BY <3>6, Zenon DEF ApproveSave
      <4>4. request'[r].pc \in {"register", "idle"}
          BY <3>2, <4>1, <4>2, <4>3
      <4> QED BY <1>3, <4>4 DEF Turning, Turned
    <3> QED BY <2>3, <3>3, <3>4, <3>5, <3>6 DEF RequestStep
  <2>4. request'[r].pc # "idle"
      BY <1>3 DEF Turning, Turned
  <2>5. \/ request'[r] = request[r] \/ NewRequest(r) \/ RequestStep(r)
    <3>1. CASE \E q \in Requests : NewRequest(q) \/ RequestStep(q)
        BY <3>1, RequestHandle
    <3>2. CASE \E h \in Handles : WorkerStep(h) \/ NodePersist(h)
        BY <3>2, WorkerHandle
    <3>3. CASE Dispatch \/ Restore \/ Reconcile
        BY <3>3 DEF Dispatch, DispatchNext, DispatchDone, Restore, Reconcile
    <3>4. CASE Crash
        BY <2>4, <3>4 DEF Crash, Idle
    <3> QED BY <3>1, <3>2, <3>3, <3>4 DEF Next, Boot
  <2> QED BY <2>1, <2>2, <2>3, <2>5
<1>4. Rests(e)' = (doc'[e].status = "paused" \/ \E r \in Requests : request'[r].exec = e /\ request'[r].pc \in Turning)
    BY DEF Rests
<1> QED BY <1>2, <1>3, <1>4 DEF Rests

\* A request signals a thread without touching how its run was left.
LEMMA LeftAlone ==
    ASSUME Typed, PendingWaits, NEW r \in Requests, NewRequest(r) \/ RequestStep(r),
           NEW h \in Handles, handle[h].pc # "idle"
    PROVE  handle'[h].rec = handle[h].rec /\ handle'[h].exec = handle[h].exec
           /\ (handle'[h].pc = handle[h].pc \/ (ResumeSpawn(r) /\ h = request[r].handle))
<1>1. /\ handle \in [Handles -> HandleRecord] /\ handle[h] \in HandleRecord
      /\ active \in [Executions -> Handles \cup {NoHandle}]
      /\ issued \in Nat /\ h <= issued
    BY PoolTypes, BuiltExec DEF Typed, TypeOK
<1>2. /\ handle'[h].exec = handle[h].exec
      /\ handle'[h].pc = handle[h].pc \/ (ResumeSpawn(r) /\ h = request[r].handle)
    BY <1>1, RequestHandle
<1>3. ~CancelPending(h)
    BY DEF PendingWaits, CancelPending
<1>4. request[r].pc # "idle" => active[request[r].exec] \in Handles \cup {NoHandle}
    BY <1>1 DEF Typed, RequestsBuilt
<1>5. \A e, q, k : NewHandle(e, q, k) => handle'[h] = handle[h]
    BY <1>1 DEF NewHandle
<1>6. ASSUME NEW g \in Handles, NEW x, SetHandle(g, x), g # h
      PROVE  handle'[h] = handle[h]
    BY <1>1, <1>6 DEF SetHandle
<1>7. ASSUME NEW x, SetHandle(h, x),
             \/ x = [handle[h] EXCEPT !.stop = TRUE]
             \/ x = [handle[h] EXCEPT !.pause = TRUE]
             \/ x = [handle[h] EXCEPT !.pc = "starting"]
      PROVE  handle'[h].rec = handle[h].rec
    BY <1>1, <1>7 DEF SetHandle, HandleRecord
<1>8. ASSUME NEW g \in Handles, \/ CancelPending(g)
                                \/ SetHandle(g, [handle[g] EXCEPT !.stop = TRUE])
                                \/ SetHandle(g, [handle[g] EXCEPT !.pause = TRUE])
                                \/ SetHandle(g, [handle[g] EXCEPT !.pc = "starting"])
      PROVE  handle'[h].rec = handle[h].rec
  <2>1. CASE g = h
      BY <1>3, <1>7, <1>8, <2>1
  <2>2. CASE g # h
      BY <1>6, <1>8, <2>2 DEF CancelPending
  <2> QED BY <2>1, <2>2
<1>9. \/ handle' = handle
      \/ \E e, q, k : NewHandle(e, q, k)
      \/ \E g \in Handles : \/ CancelPending(g)
                            \/ SetHandle(g, [handle[g] EXCEPT !.stop = TRUE])
                            \/ SetHandle(g, [handle[g] EXCEPT !.pause = TRUE])
                            \/ SetHandle(g, [handle[g] EXCEPT !.pc = "starting"])
  <2>1. CASE NewRequest(r)
      BY <1>1, <2>1 DEF NewRequest, Start, StopRead, CancelQueued, PauseRead, ResumeRead, ApproveRead,
                        RejectRead, DecisionRead
  <2>2. CASE StopSignal(r)
      BY <1>4, <2>2 DEF StopSignal, At
  <2>3. CASE PauseSignal(r)
      BY <1>4, <2>3 DEF PauseSignal, At
  <2>4. CASE ResumeSpawn(r)
    <3>1. request[r].handle \in Handles
        BY <1>1, <2>4, BoundsAssumption DEF ResumeSpawn, At, Typed, TypeOK, RequestsBuilt
    <3> QED BY <2>4, <3>1 DEF ResumeSpawn, Step
  <2>5. CASE RequestStep(r) /\ ~StopSignal(r) /\ ~PauseSignal(r) /\ ~ResumeSpawn(r)
      BY <2>5 DEF RequestStep, Register, Enqueue, ResumeSave, ResumeRegister, ApproveExpire, ApproveDecide,
                  ApproveSave, RejectDecide, CancelDecide, Settle, Cleanup, CancelPaused, CancelMirror, CancelRelease
  <2> QED BY <2>1, <2>2, <2>3, <2>4, <2>5
<1> QED BY <1>2, <1>5, <1>8, <1>9

\* A pool thread holds its project until its last write says "paused".
LEMMA WorkerHolds ==
    ASSUME Typed, NEW h \in Handles, WorkerStep(h) \/ NodePersist(h), NEW g \in Handles
    PROVE  /\ Holding(g)' => Holding(g)
           /\ g # h => handle'[g] = handle[g]
           /\ ProjectFor(g)' = ProjectFor(g)
<1>1. CASE g # h
    BY <1>1, WorkerHandle DEF Holding, ProjectFor
<1>2. CASE g = h
  <2>1. handle[h].pc # "idle" /\ ProjectFor(h)' = ProjectFor(h)
      BY WorkerHandle DEF ProjectFor
  <2>2. CASE handle[h].pc \in {"mirror", "exit"}
    <3>1. handle'[h].pc \in {"exit", "idle"} /\ handle'[h].rec = handle[h].rec
        BY <2>2, WorkerDoc
    <3> QED BY <1>2, <2>1, <2>2, <3>1 DEF Holding
  <2>3. CASE handle[h].pc \notin {"mirror", "exit"}
      BY <1>2, <2>1, <2>3 DEF Holding
  <2> QED BY <1>2, <2>1, <2>2, <2>3
<1> QED BY <1>1, <1>2

\* A step that takes no thread in, frees no slot and changes no reservation keeps
\* the projects exclusive: a thread that pauses hands its project to its execution.
LEMMA HandedOn ==
    ASSUME Typed, Exclusive, WithinCeiling, Next,
           \A h \in Handles : Holding(h)' => Holding(h),
           \A h \in Occupants : ProjectFor(h)' = ProjectFor(h),
           Occupants' = Occupants,
           UNCHANGED <<runningProjects, pausedReservations>>,
           phase' # "booting" => phase # "booting"
    PROVE  Exclusive' /\ WithinCeiling'
<1>1. ASSUME NEW e \in Executions, Rests(e)'
      PROVE  \/ Rests(e)
             \/ \E h \in Handles : /\ Holding(h) /\ ~Holding(h)' /\ h \in Occupants
                                   /\ ProjectFor(h) = ProjectOf[e] /\ handle[h].exec = e
  <2> SUFFICES ASSUME NEW h \in Handles, Commit(h), handle[h].exec = e, handle'[h].rec = "paused"
               PROVE  /\ Holding(h) /\ ~Holding(h)' /\ h \in Occupants
                      /\ ProjectFor(h) = ProjectOf[e]
      BY <1>1, RestOrigin
  <2>1. handle[h].pc = "commit" /\ handle'[h].pc = "mirror"
    <3>1. handle[h].pc = "commit"
        BY DEF Commit, WorkerAt
    <3> QED BY <3>1, WorkerDoc DEF WorkerStep
  <2> QED BY <2>1 DEF Holding, Occupants, ProjectFor
<1>2. \A h \in Handles : Holding(h) => h \in Occupants
    BY DEF Holding, Occupants
<1>3. OneHolder'
    BY <1>2 DEF Exclusive, OneHolder
<1>4. HolderCounted'
    BY <1>2 DEF Exclusive, HolderCounted
<1>5. HolderAlone'
  <2> SUFFICES ASSUME NEW g \in Handles, NEW e \in Executions, Holding(g)', Rests(e)'
               PROVE  ProjectFor(g)' # ProjectOf[e]
      BY DEF HolderAlone
  <2>1. Holding(g) /\ ProjectFor(g)' = ProjectFor(g)
      BY <1>2
  <2>2. CASE Rests(e)
      BY <2>1, <2>2 DEF Exclusive, HolderAlone
  <2>3. CASE ~Rests(e)
    <3>1. PICK h \in Handles : Holding(h) /\ ~Holding(h)' /\ ProjectFor(h) = ProjectOf[e]
        BY <1>1, <2>3
    <3>2. ProjectFor(g) # ProjectFor(h)
        BY <2>1, <3>1 DEF Exclusive, OneHolder
    <3> QED BY <2>1, <3>1, <3>2
  <2> QED BY <2>2, <2>3
<1>6. OneResting'
  <2> SUFFICES ASSUME NEW e \in Executions, NEW f \in Executions, Rests(e)', Rests(f)',
                      ProjectOf[e] = ProjectOf[f]
               PROVE  e = f
      BY DEF OneResting
  <2>1. CASE Rests(e) /\ Rests(f)
      BY <2>1 DEF Exclusive, OneResting
  <2>2. ASSUME NEW h \in Handles, Holding(h), ProjectFor(h) = ProjectOf[e]
        PROVE  ~Rests(e) /\ ~Rests(f)
      BY <2>2 DEF Exclusive, HolderAlone
  <2>3. CASE ~Rests(e) \/ ~Rests(f)
    <3>1. ~Rests(e) /\ ~Rests(f)
        BY <1>1, <2>2, <2>3
    <3>2. PICK g \in Handles : Holding(g) /\ ProjectFor(g) = ProjectOf[e] /\ handle[g].exec = e
        BY <1>1, <3>1
    <3>3. PICK h \in Handles : Holding(h) /\ ProjectFor(h) = ProjectOf[f] /\ handle[h].exec = f
        BY <1>1, <3>1
    <3>4. g = h
        BY <3>2, <3>3 DEF Exclusive, OneHolder
    <3> QED BY <3>2, <3>3, <3>4
  <2> QED BY <2>1, <2>3
<1>7. RestCounted'
  <2> SUFFICES ASSUME phase # "booting", NEW e \in Executions, Rests(e)'
               PROVE  ProjectOf[e] \in runningProjects
      BY DEF RestCounted
  <2> QED BY <1>1 DEF Exclusive, RestCounted, HolderCounted
<1>8. RestKept'
  <2> SUFFICES ASSUME phase # "booting", NEW e \in Executions, Rests(e)'
               PROVE  \/ \E h \in Occupants : ProjectFor(h)' = ProjectOf[e]
                      \/ \E f \in pausedReservations : ProjectOf[f] = ProjectOf[e]
      BY DEF RestKept
  <2>1. CASE Rests(e)
      BY <2>1 DEF Exclusive, RestKept
  <2>2. CASE ~Rests(e)
      BY <1>1, <2>2
  <2> QED BY <2>1, <2>2
<1>9. WithinCeiling'
  <2>1. \A e \in Executions : Rests(e)' => Rests(e) \/ \E h \in Occupants : ProjectFor(h) = ProjectOf[e]
      BY <1>1
  <2>2. Taken' \subseteq Taken
    <3>1. \A p \in Taken' : \/ \E h \in Occupants' : p = ProjectFor(h)'
                            \/ \E e \in Executions : Rests(e)' /\ p = ProjectOf[e]
        BY DEF Taken, Resting
    <3>2. \A h \in Occupants : ProjectFor(h) \in Taken
        BY DEF Taken
    <3>3. \A e \in Executions : Rests(e) => ProjectOf[e] \in Taken
        BY DEF Taken, Resting
    <3> QED BY <2>1, <3>1, <3>2, <3>3
  <2> QED BY <2>2, TakenShrinks
<1> QED BY <1>3, <1>4, <1>5, <1>6, <1>7, <1>8, <1>9 DEF Exclusive

\* A thread that ends leaves its slot to its paused run, or gives it back when no
\* other thread and no resting execution is in its project.
LEMMA ExitSlots ==
    ASSUME Typed, Exclusive, WithinCeiling, Next, NEW h \in Handles, ExitPaused(h) \/ ExitReleased(h)
    PROVE  Exclusive' /\ WithinCeiling'
<1>1. /\ WorkerStep(h) /\ handle[h].pc = "exit" /\ phase = "up" /\ phase' = phase
      /\ handle[h].exec \in Executions
  <2>1. WorkerStep(h) /\ handle[h].pc = "exit"
      BY DEF WorkerStep, ExitPaused, ExitReleased, WorkerAt
  <2> QED BY <2>1, WorkerHandle, WorkerDoc
<1>2. /\ \A g \in Handles : /\ Holding(g)' => Holding(g)
                            /\ ProjectFor(g)' = ProjectFor(g)
                            /\ g # h => handle'[g] = handle[g]
    BY <1>1, WorkerHolds
<1>3. handle'[h].pc = "idle"
  <2>1. handle[h] \in HandleRecord /\ handle \in [Handles -> HandleRecord]
      BY PoolTypes
  <2> QED BY <2>1 DEF ExitPaused, ExitReleased, Step, SetHandle, HandleRecord
<1>4. Occupants' = Occupants \ {h} /\ ~Holding(h)'
    BY <1>2, <1>3 DEF Occupants, Holding
<1>5. \A e \in Executions : Rests(e)' => Rests(e)
  <2>1. \A g \in Handles : ~Commit(g)
    <3> SUFFICES ASSUME NEW g \in Handles, Commit(g) PROVE FALSE
        OBVIOUS
    <3>1. g # h
        BY <1>1 DEF Commit, WorkerAt
    <3>2. handle'[g].pc = "mirror" /\ handle[g].pc = "commit"
      <4>1. WorkerStep(g) /\ handle[g].pc = "commit"
          BY DEF WorkerStep, Commit, WorkerAt
      <4> QED BY <4>1, WorkerDoc
    <3> QED BY <1>2, <3>1, <3>2
  <2> QED BY <2>1, RestOrigin
<1>6. OneHolder' /\ OneResting' /\ HolderAlone'
    BY <1>2, <1>5 DEF Exclusive, OneHolder, OneResting, HolderAlone
<1>7. HolderCounted' /\ RestCounted'
  <2>1. CASE ExitPaused(h)
    <3>1. runningProjects' = runningProjects
        BY <2>1 DEF ExitPaused
    <3> QED BY <1>1, <1>2, <1>5, <3>1 DEF Exclusive, HolderCounted, RestCounted
  <2>2. CASE ExitReleased(h)
    <3>1. runningProjects' = runningProjects \ {ProjectFor(h)} /\ Holding(h)
        BY <1>1, <2>2 DEF ExitReleased, ReleaseSlot, Holding
    <3>2. \A g \in Handles : Holding(g)' => ProjectFor(g) # ProjectFor(h)
        BY <1>2, <1>4, <3>1 DEF Exclusive, OneHolder
    <3>3. \A e \in Executions : Rests(e) => ProjectOf[e] # ProjectFor(h)
        BY <3>1 DEF Exclusive, HolderAlone
    <3> QED BY <1>1, <1>2, <1>5, <3>1, <3>2, <3>3 DEF Exclusive, HolderCounted, RestCounted
  <2> QED BY <2>1, <2>2
<1>8. RestKept'
  <2> SUFFICES ASSUME NEW e \in Executions, Rests(e)'
               PROVE  \/ \E g \in Occupants' : ProjectFor(g)' = ProjectOf[e]
                      \/ \E f \in pausedReservations' : ProjectOf[f] = ProjectOf[e]
      BY DEF RestKept
  <2>1. pausedReservations \subseteq pausedReservations'
      BY DEF ExitPaused, ExitReleased
  <2>2. CASE \E f \in pausedReservations : ProjectOf[f] = ProjectOf[e]
      BY <2>1, <2>2
  <2>3. ASSUME NEW g \in Occupants, ProjectFor(g) = ProjectOf[e]
        PROVE  \/ \E x \in Occupants' : ProjectFor(x)' = ProjectOf[e]
               \/ \E f \in pausedReservations' : ProjectOf[f] = ProjectOf[e]
    <3>0. g \in Handles
        BY DEF Occupants
    <3>1. CASE g # h
        BY <1>2, <1>4, <2>3, <3>0, <3>1
    <3>2. CASE g = h /\ ExitPaused(h)
      <4>1. handle[h].exec \in pausedReservations' /\ ProjectOf[handle[h].exec] = ProjectOf[e]
          BY <2>3, <3>2 DEF ExitPaused, ProjectFor
      <4> QED BY <4>1
    <3>3. CASE g = h /\ ExitReleased(h)
      <4>1. Holding(h)
          BY <1>1, <3>3 DEF ExitReleased, Holding
      <4> QED BY <1>5, <2>3, <3>3, <4>1 DEF Exclusive, HolderAlone
    <3> QED BY <3>1, <3>2, <3>3
  <2>4. \/ \E g \in Occupants : ProjectFor(g) = ProjectOf[e]
        \/ \E f \in pausedReservations : ProjectOf[f] = ProjectOf[e]
      BY <1>1, <1>5 DEF Exclusive, RestKept
  <2> QED BY <2>2, <2>3, <2>4
<1>9. WithinCeiling'
  <2>1. Taken' \subseteq Taken
    <3>1. \A p \in Taken' : \/ \E g \in Occupants' : p = ProjectFor(g)'
                            \/ \E e \in Executions : Rests(e)' /\ p = ProjectOf[e]
        BY DEF Taken, Resting
    <3>2. \A g \in Occupants : g \in Handles /\ ProjectFor(g) \in Taken
        BY DEF Taken, Occupants
    <3>3. \A e \in Executions : Rests(e) => ProjectOf[e] \in Taken
        BY DEF Taken, Resting
    <3> QED BY <1>2, <1>4, <1>5, <3>1, <3>2, <3>3
  <2> QED BY <2>1, TakenShrinks
<1> QED BY <1>6, <1>7, <1>8, <1>9 DEF Exclusive

\* Every step of a pool thread keeps the projects exclusive and within the ceiling.
LEMMA WorkerSlots ==
    ASSUME Typed, Exclusive, WithinCeiling, Next, NEW h \in Handles, WorkerStep(h) \/ NodePersist(h)
    PROVE  Exclusive' /\ WithinCeiling'
<1>1. CASE ExitPaused(h) \/ ExitReleased(h)
    BY <1>1, ExitSlots
<1>2. CASE ~(ExitPaused(h) \/ ExitReleased(h))
  <2>1. UNCHANGED <<runningProjects, pausedReservations, phase>>
      BY <1>2 DEF WorkerStep, NodePersist, StartRun, AcquireLock, LockRefused, RunToEnd, RunRaises,
                  DrainToApproval, DrainToPause, LeaveLoop, Finish, Raised, CreateCheckpoint, SaveResume,
                  Commit, Mirror, pool
  <2>2. handle[h].pc # "idle" /\ handle'[h].pc # "idle"
    <3>1. handle[h].pc # "idle"
        BY WorkerHandle
    <3>2. Mirror(h) => handle'[h].pc = "exit"
      <4>1. handle[h] \in HandleRecord /\ handle \in [Handles -> HandleRecord]
          BY PoolTypes
      <4> QED BY <4>1 DEF Mirror, SetHandle, HandleRecord
    <3>3. handle[h].pc \in {"mirror", "exit"} => Mirror(h)
        BY <1>2 DEF WorkerStep, NodePersist, StartRun, AcquireLock, LockRefused, RunToEnd, RunRaises,
                  DrainToApproval, DrainToPause, LeaveLoop, Finish, Raised, CreateCheckpoint, SaveResume,
                  Commit, WorkerAt
    <3> QED BY <3>1, <3>2, <3>3, WorkerDoc
  <2>3. Occupants' = Occupants
      BY <2>2, WorkerHolds DEF Occupants
  <2>4. \A g \in Occupants : g \in Handles
      BY DEF Occupants
  <2> QED BY <2>1, <2>3, <2>4, WorkerHolds, HandedOn
<1> QED BY <1>1, <1>2

\* No rest begins but at the end of a thread.
LEMMA NoRestBegins ==
    ASSUME Typed, Next, \A h \in Handles : handle[h].pc # "idle" => handle'[h].pc = handle[h].pc
    PROVE  \A e \in Executions : Rests(e)' => Rests(e)
<1>1. ASSUME NEW h \in Handles, Commit(h)
      PROVE  FALSE
  <2>1. WorkerStep(h) /\ handle[h].pc = "commit"
      BY <1>1 DEF WorkerStep, Commit, WorkerAt
  <2>2. handle'[h].pc = "mirror"
      BY <2>1, WorkerDoc
  <2> QED BY <2>1, <2>2
<1> QED BY <1>1, RestOrigin

\* The way of a request, one line per action that leads to its next point: what it
\* carries from point to point, and the handle it builds on the way.
LEMMA RequestPath ==
    ASSUME Typed, NEW r \in Requests, NewRequest(r) \/ RequestStep(r)
    PROVE  \/ request'[r].pc = "idle"
           \/ \E e \in Executions :
                /\ request'[r].exec = e
                /\ \/ Start(r, e) /\ request'[r].pc = "register" /\ request'[r].handle = issued + 1
                   \/ StopRead(r, e) /\ request'[r].pc = StopPath(doc[e].status)
                      /\ request'[r].checkpoint = doc[e].approval /\ request'[r].target = "cancelled"
                   \/ PauseRead(r, e) /\ request'[r].pc = "pause_signal"
                   \/ ResumeRead(r, e) /\ request'[r].pc = "resume_save"
                   \/ ApproveRead(r, e) /\ request'[r].pc = "approve_expire"
                      /\ request'[r].checkpoint = doc[e].approval /\ request'[r].target = "failed"
                   \/ RejectRead(r, e) /\ request'[r].pc = "reject_decide"
                      /\ request'[r].checkpoint = doc[e].approval /\ request'[r].target = "failed"
           \/ /\ request'[r].exec = request[r].exec /\ request'[r].checkpoint = request[r].checkpoint
              /\ request'[r].target = request[r].target
              /\ \/ /\ request'[r].handle = request[r].handle
                    /\ \/ Register(r) /\ request'[r].pc = "enqueue"
                       \/ ResumeRegister(r) /\ request'[r].pc = "resume_spawn"
                       \/ ApproveExpire(r) /\ request'[r].pc \in {"approve_decide", "settle"}
                       \/ ApproveDecide(r) /\ request'[r].pc \in {"approve_save", "settle"}
                       \/ (RejectDecide(r) \/ CancelDecide(r)) /\ request'[r].pc = "settle"
                       \/ Settle(r) /\ request'[r].pc = "cleanup"
                       \/ CancelPaused(r) /\ request'[r].pc = "cancel_mirror"
                       \/ CancelMirror(r) /\ request'[r].pc = "cancel_release"
                 \/ /\ request'[r].handle = issued + 1
                    /\ \/ ResumeSave(r) /\ request'[r].pc = "resume_register"
                       \/ ApproveSave(r) /\ request'[r].pc = "register"
<1>1. request \in [Requests -> RequestRecord] /\ request[r] \in RequestRecord
    BY DEF Typed, TypeOK
<1>2. \A op, x : Enter(r, op, x) => request'[r] = x
    BY <1>1 DEF Enter
<1>3. \A c : Goto(r, c) => /\ request'[r].pc = c /\ request'[r].exec = request[r].exec
                           /\ request'[r].handle = request[r].handle
                           /\ request'[r].checkpoint = request[r].checkpoint
                           /\ request'[r].target = request[r].target
    BY <1>1 DEF Goto, RequestRecord
<1>4. Return(r) => request'[r].pc = "idle"
    BY <1>1 DEF Return, Idle
<1>5. \A e, c, k, t : LET x == [Idle EXCEPT !.pc = c, !.exec = e, !.checkpoint = k, !.target = t]
                      IN  x.pc = c /\ x.exec = e /\ x.checkpoint = k /\ x.target = t
    BY DEF Idle
<1>6. \A e, c : LET x == [Idle EXCEPT !.pc = c, !.exec = e] IN  x.pc = c /\ x.exec = e
    BY DEF Idle
<1>7. \A e, c, h : LET x == [Idle EXCEPT !.pc = c, !.exec = e, !.handle = h]
                   IN  x.pc = c /\ x.exec = e /\ x.handle = h
    BY DEF Idle
<1>8. CASE NewRequest(r)
  <2>1. PICK e \in Executions :
          \/ Start(r, e) \/ StopRead(r, e) \/ CancelQueued(r, e) \/ PauseRead(r, e)
          \/ ResumeRead(r, e) \/ ApproveRead(r, e) \/ RejectRead(r, e)
      BY <1>8 DEF NewRequest
  <2>2. CASE ApproveRead(r, e)
    <3>1. request'[r] = [Idle EXCEPT !.pc = "approve_expire", !.exec = e, !.checkpoint = doc[e].approval,
                                     !.target = "failed"]
        BY <1>2, <2>2 DEF ApproveRead, DecisionRead
    <3> QED BY <1>5, <2>2, <3>1
  <2>3. CASE RejectRead(r, e)
    <3>1. request'[r] = [Idle EXCEPT !.pc = "reject_decide", !.exec = e, !.checkpoint = doc[e].approval,
                                     !.target = "failed"]
        BY <1>2, <2>3 DEF RejectRead, DecisionRead
    <3> QED BY <1>5, <2>3, <3>1
  <2>4. CASE StopRead(r, e)
    <3>1. request'[r] = [Idle EXCEPT !.pc = StopPath(doc[e].status), !.exec = e,
                                     !.checkpoint = doc[e].approval, !.target = "cancelled"]
        BY <1>2, <2>4 DEF StopRead
    <3>2. /\ request'[r].pc = StopPath(doc[e].status) /\ request'[r].exec = e
          /\ request'[r].checkpoint = doc[e].approval /\ request'[r].target = "cancelled"
        BY <1>5, <3>1
    <3> QED BY <2>4, <3>2
  <2>5. CASE Start(r, e)
    <3>1. request'[r] = [Idle EXCEPT !.pc = "register", !.exec = e, !.handle = issued + 1]
        BY <1>2, <2>5 DEF Start
    <3> QED BY <1>7, <2>5, <3>1
  <2>6. CASE CancelQueued(r, e)
    <3>1. request'[r] = Idle
        BY <1>2, <2>6 DEF CancelQueued
    <3> QED BY <3>1 DEF Idle
  <2>7. CASE PauseRead(r, e)
    <3>1. request'[r] = [Idle EXCEPT !.pc = "pause_signal", !.exec = e]
        BY <1>2, <2>7 DEF PauseRead
    <3> QED BY <1>6, <2>7, <3>1
  <2>8. CASE ResumeRead(r, e)
    <3>1. request'[r] = [Idle EXCEPT !.pc = "resume_save", !.exec = e]
        BY <1>2, <2>8 DEF ResumeRead
    <3> QED BY <1>6, <2>8, <3>1
  <2> QED BY <2>1, <2>2, <2>3, <2>4, <2>5, <2>6, <2>7, <2>8
<1>9. CASE Enqueue(r) \/ StopSignal(r) \/ PauseSignal(r) \/ ResumeSpawn(r) \/ Cleanup(r) \/ CancelRelease(r)
    BY <1>4, <1>9 DEF Enqueue, StopSignal, PauseSignal, ResumeSpawn, Cleanup, CancelRelease
<1>10. CASE Register(r)
    BY <1>3, <1>10 DEF Register
<1>11. CASE ResumeRegister(r)
    BY <1>3, <1>11 DEF ResumeRegister
<1>12. CASE Settle(r)
    BY <1>3, <1>12 DEF Settle
<1>13. CASE CancelPaused(r)
    BY <1>3, <1>13 DEF CancelPaused
<1>14. CASE CancelMirror(r)
    BY <1>3, <1>14 DEF CancelMirror
<1>15. CASE ResumeSave(r) \/ ApproveSave(r)
  <2>1. \/ Return(r)
        \/ \E c \in {"resume_register", "register"} :
             /\ request' = [request EXCEPT ![r] = [@ EXCEPT !.pc = c, !.handle = issued + 1]]
             /\ ResumeSave(r) => c = "resume_register"
             /\ ApproveSave(r) => c = "register"
    <3>1. CASE ResumeSave(r)
      <4>1. ~ApproveSave(r)
          BY <3>1 DEF ResumeSave, ApproveSave, At
      <4> QED BY <3>1, <4>1 DEF ResumeSave
    <3>2. CASE ApproveSave(r)
      <4>1. ~ResumeSave(r)
          BY <3>2 DEF ResumeSave, ApproveSave, At
      <4> QED BY <3>2, <4>1 DEF ApproveSave
    <3> QED BY <1>15, <3>1, <3>2
  <2>2. ASSUME NEW c, request' = [request EXCEPT ![r] = [@ EXCEPT !.pc = c, !.handle = issued + 1]]
        PROVE  /\ request'[r].pc = c /\ request'[r].handle = issued + 1
               /\ request'[r].exec = request[r].exec /\ request'[r].checkpoint = request[r].checkpoint
               /\ request'[r].target = request[r].target
      BY <1>1, <2>2 DEF RequestRecord
  <2> QED BY <1>4, <1>15, <2>1, <2>2
<1>16. CASE ApproveExpire(r) \/ ApproveDecide(r) \/ RejectDecide(r) \/ CancelDecide(r)
  <2>1. \/ Return(r)
        \/ ApproveExpire(r) /\ (Goto(r, "approve_decide") \/ Goto(r, "settle"))
        \/ ApproveDecide(r) /\ (Goto(r, "approve_save") \/ Goto(r, "settle"))
        \/ (RejectDecide(r) \/ CancelDecide(r)) /\ Goto(r, "settle")
      BY <1>16 DEF ApproveExpire, ApproveDecide, RejectDecide, CancelDecide, Decide
  <2> QED BY <1>3, <1>4, <2>1
<1> QED BY <1>8, <1>9, <1>10, <1>11, <1>12, <1>13, <1>14, <1>15, <1>16 DEF RequestStep

\* The handle a request builds: for its own execution, and pending unless it resumes.
LEMMA RequestBuilds ==
    ASSUME Typed, NEW r \in Requests
    PROVE  /\ \A e \in Executions : Start(r, e) =>
                /\ issued + 1 \in Handles /\ issued' = issued + 1
                /\ handle'[issued + 1].exec = e /\ handle'[issued + 1].qrec = "pending"
           /\ ApproveSave(r) /\ request'[r].pc = "register" =>
                /\ issued + 1 \in Handles /\ issued' = issued + 1
                /\ handle'[issued + 1].exec = request[r].exec /\ handle'[issued + 1].qrec = "pending"
           /\ ResumeSave(r) =>
                /\ issued + 1 \in Handles /\ issued' = issued + 1
                /\ handle'[issued + 1].exec = request[r].exec /\ handle'[issued + 1].qrec = "running"
<1>1. handle \in [Handles -> HandleRecord] /\ issued \in Nat /\ request \in [Requests -> RequestRecord]
    BY PoolTypes DEF Typed, TypeOK
<1>2. ASSUME NEW e, NEW q, NEW k, NewHandle(e, q, k)
      PROVE  /\ issued + 1 \in Handles /\ issued' = issued + 1
             /\ handle'[issued + 1].exec = e /\ handle'[issued + 1].qrec = q
    BY <1>1, <1>2, BoundsAssumption DEF NewHandle
<1>3. \A e \in Executions : Start(r, e) => NewHandle(e, "pending", NoHandle)
    BY DEF Start
<1>4. ResumeSave(r) => NewHandle(request[r].exec, "running", NoHandle)
    BY DEF ResumeSave
<1>5. ApproveSave(r) /\ request'[r].pc = "register" =>
        NewHandle(request[r].exec, "pending", request[r].checkpoint)
  <2>1. Return(r) => request'[r].pc = "idle"
      BY <1>1 DEF Return, Idle
  <2> QED BY <2>1 DEF ApproveSave
<1> QED BY <1>2, <1>3, <1>4, <1>5

\* What any step leaves of the requests: one of them moves, or a kill ends all.
LEMMA OneRequestMoves ==
    ASSUME Typed, Next, NEW r \in Requests, request'[r].pc # "idle"
    PROVE  \/ request'[r] = request[r]
           \/ /\ NewRequest(r) \/ RequestStep(r)
              /\ \A q \in Requests \ {r} : request'[q] = request[q]
<1>1. CASE Dispatch \/ Boot
    BY <1>1 DEF Dispatch, DispatchNext, DispatchDone, Boot, Restore, Reconcile
<1>2. CASE Crash
    BY <1>2 DEF Crash, Idle
<1>3. ASSUME NEW h \in Handles, WorkerStep(h) \/ NodePersist(h)
      PROVE  request' = request
    BY <1>3, WorkerHandle
<1>4. ASSUME NEW q \in Requests, NewRequest(q) \/ RequestStep(q)
      PROVE  q = r \/ request'[r] = request[r]
    BY <1>4, RequestHandle
<1> QED BY <1>1, <1>2, <1>3, <1>4, RequestHandle DEF Next

\* What is in a queue was there before, or its request has just put it there.
LEMMA QueueFrom ==
    ASSUME Typed, Next, NEW p \in Projects, NEW h \in InQueue(p)'
    PROVE  \/ h \in InQueue(p)
           \/ \E r \in Requests : Enqueue(r) /\ h = request[r].handle /\ p = ProjectFor(h)
<1>1. projectQueues \in [Projects -> Seq(Handles)]
    BY PoolTypes
<1>2. CASE projectQueues' = projectQueues
    BY <1>2 DEF InQueue
<1>3. CASE DispatchNext
  <2>1. PICK q \in Projects : q = Head(readyProjects)
    <3>1. readyProjects # <<>> /\ readyProjects \in Seq(Projects)
        BY <1>3, PoolTypes DEF DispatchNext, HasRoom
    <3> QED BY <3>1
  <2>2. \/ projectQueues' = projectQueues
        \/ projectQueues' = [projectQueues EXCEPT ![q] = <<>>]
        \/ \E i \in DOMAIN projectQueues[q] :
             projectQueues' = [projectQueues EXCEPT ![q] = SubSeq(@, i + 1, Len(@))]
      BY <1>3, <2>1 DEF DispatchNext, AdmitFirst
  <2>3. CASE projectQueues' = [projectQueues EXCEPT ![q] = <<>>]
      BY <1>1, <2>3 DEF InQueue
  <2>4. ASSUME NEW i \in DOMAIN projectQueues[q],
               projectQueues' = [projectQueues EXCEPT ![q] = SubSeq(@, i + 1, Len(@))]
        PROVE  h \in InQueue(p)
    <3>1. CASE p # q
        BY <1>1, <2>4, <3>1 DEF InQueue
    <3>2. CASE p = q
      <4>1. projectQueues[q] \in Seq(Handles)
          BY <1>1
      <4>2. PICK t : t = SubSeq(projectQueues[q], i + 1, Len(projectQueues[q]))
          OBVIOUS
      <4>3. \A k \in DOMAIN t : i + k \in DOMAIN projectQueues[q] /\ t[k] = projectQueues[q][i + k]
          BY <4>1, <4>2, Rest
      <4>4. projectQueues'[p] = t
          BY <1>1, <2>4, <3>2, <4>2
      <4>5. PICK k \in DOMAIN t : h = t[k]
          BY <4>4 DEF InQueue
      <4> QED BY <3>2, <4>3, <4>5 DEF InQueue
    <3> QED BY <3>1, <3>2
  <2> QED BY <1>2, <2>2, <2>3, <2>4
<1>4. ASSUME NEW r \in Requests, Enqueue(r)
      PROVE  h \in InQueue(p) \/ (h = request[r].handle /\ p = ProjectFor(h))
  <2>1. PICK g, q : g = request[r].handle /\ q = ProjectFor(g)
      OBVIOUS
  <2>2. projectQueues' = [projectQueues EXCEPT ![q] = Append(@, g)]
      BY <1>4, <2>1 DEF Enqueue
  <2>3. CASE p # q
      BY <1>1, <2>2, <2>3 DEF InQueue
  <2>4. CASE p = q
    <3>1. projectQueues[p] \in Seq(Handles) /\ projectQueues'[p] = Append(projectQueues[p], g)
        BY <1>1, <2>2, <2>4
    <3>2. g \in Handles
        BY <1>4, <2>1, PoolTypes, BoundsAssumption DEF Enqueue, At, Typed, RequestsBuilt, TypeOK
    <3>3. \A k \in DOMAIN projectQueues'[p] : projectQueues'[p][k] = g
            \/ (k \in DOMAIN projectQueues[p] /\ projectQueues'[p][k] = projectQueues[p][k])
        BY <3>1, <3>2
    <3> QED BY <2>1, <2>4, <3>3 DEF InQueue
  <2> QED BY <2>3, <2>4
<1>5. ASSUME NEW r \in Requests, NewRequest(r) \/ RequestStep(r), ~Enqueue(r)
      PROVE  projectQueues' = projectQueues
    BY <1>5 DEF NewRequest, RequestStep, Start, StopRead, CancelQueued, PauseRead, ResumeRead, ApproveRead,
                RejectRead, DecisionRead, Register, StopSignal, PauseSignal, ResumeSave, ResumeRegister,
                ResumeSpawn, ApproveExpire, ApproveDecide, ApproveSave, RejectDecide, CancelDecide, Settle,
                Cleanup, CancelPaused, CancelMirror, CancelRelease, ReleaseSlot, pool
<1>6. CASE Crash
    BY <1>6 DEF Crash, InQueue
<1>7. CASE DispatchDone \/ Boot
    BY <1>2, <1>7 DEF DispatchDone, Boot, Restore, Reconcile, pool
<1>8. ASSUME NEW g \in Handles, WorkerStep(g) \/ NodePersist(g)
      PROVE  projectQueues' = projectQueues
    BY <1>8, WorkerHandle
<1> QED BY <1>2, <1>3, <1>4, <1>5, <1>6, <1>7, <1>8 DEF Next, Dispatch

\* A run is admitted into a project that nobody holds and that keeps nothing.
LEMMA DispatchSlots ==
    ASSUME Typed, Exclusive, WithinCeiling, SlotsCovered, OwnQueue, PendingWaits, Next, Dispatch
    PROVE  Exclusive' /\ WithinCeiling'
<1>1. UNCHANGED <<pausedReservations, phase, request>>
    BY DEF Dispatch, DispatchNext, DispatchDone
<1>2. CASE handle' = handle /\ runningProjects' = runningProjects
  <2>1. /\ \A h \in Handles : Holding(h)' => Holding(h)
        /\ \A h \in Occupants : ProjectFor(h)' = ProjectFor(h)
        /\ Occupants' = Occupants
      BY <1>2 DEF Holding, ProjectFor, Occupants
  <2> QED BY <1>1, <1>2, <2>1, HandedOn
<1>3. ASSUME NEW p \in Projects, NEW h \in InQueue(p),
             h \in Handles, handle[h].qrec = "pending",
             handle'[h].pc = "starting", handle'[h].exec = handle[h].exec,
             \A g \in Handles \ {h} : handle'[g] = handle[g],
             p \notin runningProjects, runningProjects' = runningProjects \cup {p},
             runningCount < MaxWorkers
      PROVE  Exclusive' /\ WithinCeiling'
  <2>1. /\ handle[h].pc = "idle" /\ ProjectFor(h) = p
        /\ \A g \in Handles : ProjectFor(g)' = ProjectFor(g)
      BY <1>3 DEF PendingWaits, OwnQueue, ProjectFor
  <2>2. \A g \in Handles : Holding(g)' => Holding(g) \/ g = h
      BY <1>3 DEF Holding
  <2>3. Occupants' = Occupants \cup {h}
      BY <1>3 DEF Occupants
  <2>4. phase = "up"
      BY DEF Typed, BootQuiet, Dispatch, DispatchNext, DispatchDone
  <2>5. \A e \in Executions : Rests(e)' => Rests(e)
      BY <1>3, <2>1, NoRestBegins
  <2>6. \A g \in Handles : Holding(g) => ProjectFor(g) # p
      BY <1>3 DEF Exclusive, HolderCounted
  <2>7. \A e \in Executions : Rests(e) => ProjectOf[e] # p
      BY <1>3, <2>4 DEF Exclusive, RestCounted
  <2>8. OneHolder' /\ OneResting' /\ HolderAlone'
      BY <2>1, <2>2, <2>5, <2>6, <2>7 DEF Exclusive, OneHolder, OneResting, HolderAlone
  <2>9. HolderCounted' /\ RestCounted'
      BY <1>1, <1>3, <2>1, <2>2, <2>5 DEF Exclusive, HolderCounted, RestCounted
  <2>10. RestKept'
    <3>1. \A g \in Occupants : g \in Handles
        BY DEF Occupants
    <3> QED BY <1>1, <2>1, <2>3, <2>5, <3>1 DEF Exclusive, RestKept
  <2>11. WithinCeiling'
    <3>1. Taken' \subseteq Taken \cup {p}
      <4>1. \A x \in Taken' : \/ \E g \in Occupants' : x = ProjectFor(g)'
                              \/ \E e \in Executions : Rests(e)' /\ x = ProjectOf[e]
          BY DEF Taken, Resting
      <4>2. \A g \in Occupants : g \in Handles /\ ProjectFor(g) \in Taken
          BY DEF Taken, Occupants
      <4>3. \A e \in Executions : Rests(e) => ProjectOf[e] \in Taken
          BY DEF Taken, Resting
      <4> QED BY <1>3, <2>1, <2>3, <2>5, <4>1, <4>2, <4>3
    <3>2. IsFiniteSet(Taken) /\ Cardinality(Taken) \in Nat /\ Cardinality(Taken) <= runningCount
        BY <2>4, TakenCounted DEF Exclusive
    <3>3. PICK T : T = Taken \cup {p}
        OBVIOUS
    <3>4. IsFiniteSet(T) /\ Cardinality(T) \in Nat /\ Cardinality(T) <= Cardinality(Taken) + 1
        BY <3>2, <3>3, OneElement, FS_AddElement
    <3>5. Cardinality(Taken') \in Nat /\ Cardinality(Taken') <= Cardinality(T)
        BY <3>1, <3>3, <3>4, FS_Subset, FS_CardinalityType
    <3> QED BY <1>3, <3>2, <3>4, <3>5, PoolTypes DEF WithinCeiling
  <2> QED BY <2>8, <2>9, <2>10, <2>11 DEF Exclusive
<1> QED BY <1>2, <1>3, AdmitDoc

\* A request that neither starts a resumed run nor releases a cancelled one moves
\* no slot.
LEMMA RequestSlots ==
    ASSUME Typed, Exclusive, WithinCeiling, PendingWaits, Next,
           NEW r \in Requests, NewRequest(r) \/ RequestStep(r), ~ResumeSpawn(r), ~CancelRelease(r)
    PROVE  Exclusive' /\ WithinCeiling'
<1>1. phase' = phase
    BY RequestHandle
<1>2. UNCHANGED <<runningProjects, pausedReservations>>
    BY DEF NewRequest, RequestStep, Start, StopRead, CancelQueued, PauseRead, ResumeRead, ApproveRead,
           RejectRead, DecisionRead, Register, Enqueue, StopSignal, PauseSignal, ResumeSave, ResumeRegister,
           ApproveExpire, ApproveDecide, ApproveSave, RejectDecide, CancelDecide, Settle,
           Cleanup, CancelPaused, CancelMirror, pool
<1>3. \A h \in Handles : handle[h].pc = "idle" => handle'[h].pc = "idle"
  <2> SUFFICES ASSUME NEW h \in Handles, handle[h].pc = "idle" PROVE handle'[h].pc = "idle"
      OBVIOUS
  <2>1. h <= issued \/ h > issued
      BY PoolTypes
  <2> QED BY <2>1, RequestHandle
<1>4. \A h \in Handles : handle[h].pc # "idle" =>
        handle'[h].pc = handle[h].pc /\ handle'[h].rec = handle[h].rec /\ handle'[h].exec = handle[h].exec
    BY LeftAlone
<1>5. /\ \A h \in Handles : Holding(h)' => Holding(h)
      /\ \A h \in Occupants : ProjectFor(h)' = ProjectFor(h)
      /\ Occupants' = Occupants
    BY <1>3, <1>4 DEF Holding, ProjectFor, Occupants
<1> QED BY <1>1, <1>2, <1>5, HandedOn

\* A resumed run takes over the place of its resting execution.
LEMMA SpawnSlots ==
    ASSUME Typed, Exclusive, WithinCeiling, OwnHandle, TurnedAway, PendingWaits, OneOperator, Next,
           NEW r \in Requests, ResumeSpawn(r)
    PROVE  Exclusive' /\ WithinCeiling'
<1>1. PICK e \in Executions : e = request[r].exec
    BY DEF Typed, RequestsBuilt, ResumeSpawn, At
<1>2. PICK h \in Handles : h = request[r].handle /\ h <= issued
    BY PoolTypes, BoundsAssumption DEF Typed, TypeOK, RequestsBuilt, ResumeSpawn, At
<1>3. PICK p : p = ProjectOf[e]
    OBVIOUS
<1>4. /\ phase = "up" /\ phase' = phase /\ request[r].pc = "resume_spawn"
      /\ doc' = doc
    BY DEF ResumeSpawn, At
<1>5. Rests(e)
    BY <1>1, <1>4 DEF Rests, Turning, Turned
<1>6. /\ \A g \in Handles \ {h} : handle'[g] = handle[g]
      /\ handle'[h].exec = e /\ handle[h].exec = e /\ handle'[h].pc = "starting"
  <2>1. handle \in [Handles -> HandleRecord] /\ handle[h] \in HandleRecord /\ handle[h].exec = e
      BY <1>1, <1>2, <1>4, PoolTypes DEF OwnHandle
  <2>2. SetHandle(h, [handle[h] EXCEPT !.pc = "starting"])
      BY <1>2 DEF ResumeSpawn, Step
  <2> QED BY <2>1, <2>2 DEF SetHandle, HandleRecord
<1>7. /\ \A g \in Handles : ProjectFor(g)' = ProjectFor(g)
      /\ \A g \in Handles : Holding(g)' => Holding(g) \/ g = h
      /\ ProjectFor(h) = p /\ Occupants' = Occupants \cup {h}
    BY <1>3, <1>6 DEF ProjectFor, Holding, Occupants
<1>8. \A f \in Executions : Rests(f)' => Rests(f) /\ f # e
  <2>1. request'[r].pc = "idle"
    <3>1. Return(r) /\ request \in [Requests -> RequestRecord]
        BY DEF ResumeSpawn, Typed, TypeOK
    <3> QED BY <3>1 DEF Return, Idle
  <2>2. \A q \in Requests : request'[q].pc = "idle"
      BY <2>1 DEF OneOperator
  <2>3. doc[e].status # "paused"
      BY <1>1, <1>4 DEF TurnedAway, Turned
  <2> QED BY <1>4, <2>2, <2>3 DEF Rests, Turning, Turned
<1>9. runningProjects' = runningProjects
  <2>1. p \in runningProjects
      BY <1>3, <1>4, <1>5 DEF Exclusive, RestCounted
  <2> QED BY <1>1, <1>3, <2>1 DEF ResumeSpawn
<1>10. \A g \in Handles : Holding(g) => ProjectFor(g) # p
    BY <1>3, <1>5 DEF Exclusive, HolderAlone
<1>11. \A f \in Executions : Rests(f)' => ProjectOf[f] # p
    BY <1>3, <1>5, <1>8 DEF Exclusive, OneResting
<1>12. OneHolder' /\ OneResting' /\ HolderAlone'
    BY <1>7, <1>8, <1>10, <1>11 DEF Exclusive, OneHolder, OneResting, HolderAlone
<1>13. HolderCounted' /\ RestCounted'
  <2>1. p \in runningProjects
      BY <1>3, <1>4, <1>5 DEF Exclusive, RestCounted
  <2> QED BY <1>4, <1>7, <1>8, <1>9, <2>1 DEF Exclusive, HolderCounted, RestCounted
<1>14. RestKept'
  <2> SUFFICES ASSUME NEW f \in Executions, Rests(f)'
               PROVE  \/ \E g \in Occupants' : ProjectFor(g)' = ProjectOf[f]
                      \/ \E x \in pausedReservations' : ProjectOf[x] = ProjectOf[f]
      BY DEF RestKept
  <2>1. \/ \E g \in Occupants : ProjectFor(g) = ProjectOf[f]
        \/ \E x \in pausedReservations : ProjectOf[x] = ProjectOf[f]
      BY <1>4, <1>8 DEF Exclusive, RestKept
  <2>2. pausedReservations' = pausedReservations \ {e}
      BY <1>1 DEF ResumeSpawn
  <2>3. \A g \in Occupants : g \in Handles
      BY DEF Occupants
  <2> QED BY <1>3, <1>7, <1>11, <2>1, <2>2, <2>3
<1>15. WithinCeiling'
  <2>1. Taken' \subseteq Taken
    <3>1. \A x \in Taken' : \/ \E g \in Occupants' : x = ProjectFor(g)'
                            \/ \E f \in Executions : Rests(f)' /\ x = ProjectOf[f]
        BY DEF Taken, Resting
    <3>2. \A g \in Occupants : g \in Handles /\ ProjectFor(g) \in Taken
        BY DEF Taken, Occupants
    <3>3. \A f \in Executions : Rests(f) => ProjectOf[f] \in Taken
        BY DEF Taken, Resting
    <3> QED BY <1>3, <1>5, <1>7, <1>8, <3>1, <3>2, <3>3
  <2> QED BY <2>1, TakenShrinks
<1> QED BY <1>12, <1>13, <1>14, <1>15 DEF Exclusive

\* A cancelled pause gives its slot back when its execution no longer rests: nothing
\* else was in its project.
LEMMA CancelReleaseSlots ==
    ASSUME Typed, Exclusive, WithinCeiling, TurnedAway, OneOperator, Next,
           NEW r \in Requests, CancelRelease(r)
    PROVE  Exclusive' /\ WithinCeiling'
<1>1. PICK e \in Executions : e = request[r].exec
    BY DEF Typed, RequestsBuilt, CancelRelease, At
<1>2. PICK p : p = ProjectOf[e]
    OBVIOUS
<1>3. /\ phase = "up" /\ phase' = phase /\ request[r].pc = "cancel_release"
      /\ doc' = doc /\ handle' = handle
    BY DEF CancelRelease, At
<1>4. Rests(e)
    BY <1>1, <1>3 DEF Rests, Turning, Turned
<1>5. /\ \A g \in Handles : ProjectFor(g)' = ProjectFor(g)
      /\ \A g \in Handles : Holding(g)' = Holding(g)
      /\ Occupants' = Occupants
    BY <1>3 DEF ProjectFor, Holding, Occupants
<1>6. \A f \in Executions : Rests(f)' => Rests(f) /\ f # e
  <2>1. request'[r].pc = "idle"
    <3>1. Return(r) /\ request \in [Requests -> RequestRecord]
        BY DEF CancelRelease, Typed, TypeOK
    <3> QED BY <3>1 DEF Return, Idle
  <2>2. \A q \in Requests : request'[q].pc = "idle"
      BY <2>1 DEF OneOperator
  <2>3. doc[e].status # "paused"
      BY <1>1, <1>3 DEF TurnedAway, Turned
  <2> QED BY <1>3, <2>2, <2>3 DEF Rests, Turning, Turned
<1>7. /\ \A g \in Handles : Holding(g) => ProjectFor(g) # p
      /\ \A f \in Executions : Rests(f)' => ProjectOf[f] # p
    BY <1>2, <1>4, <1>6 DEF Exclusive, HolderAlone, OneResting
<1>8. runningProjects \ {p} \subseteq runningProjects' /\ pausedReservations \ {e} \subseteq pausedReservations'
    BY <1>1, <1>2 DEF CancelRelease, ReleaseSlot, pool
<1>9. OneHolder' /\ OneResting' /\ HolderAlone'
    BY <1>5, <1>6 DEF Exclusive, OneHolder, OneResting, HolderAlone
<1>10. HolderCounted' /\ RestCounted'
    BY <1>3, <1>5, <1>6, <1>7, <1>8 DEF Exclusive, HolderCounted, RestCounted
<1>11. RestKept'
  <2> SUFFICES ASSUME NEW f \in Executions, Rests(f)'
               PROVE  \/ \E g \in Occupants' : ProjectFor(g)' = ProjectOf[f]
                      \/ \E x \in pausedReservations' : ProjectOf[x] = ProjectOf[f]
      BY DEF RestKept
  <2>1. \/ \E g \in Occupants : ProjectFor(g) = ProjectOf[f]
        \/ \E x \in pausedReservations : ProjectOf[x] = ProjectOf[f]
      BY <1>3, <1>6 DEF Exclusive, RestKept
  <2>2. \A g \in Occupants : g \in Handles
      BY DEF Occupants
  <2> QED BY <1>2, <1>5, <1>7, <1>8, <2>1, <2>2
<1>12. WithinCeiling'
  <2>1. Taken' \subseteq Taken
    <3>1. \A g \in Occupants : g \in Handles
        BY DEF Occupants
    <3> QED BY <1>5, <1>6, <3>1 DEF Taken, Resting
  <2> QED BY <2>1, TakenShrinks
<1> QED BY <1>9, <1>10, <1>11, <1>12 DEF Exclusive

\* A restart keeps one reservation for each project in which an execution rests.
LEMMA RestartSlots ==
    ASSUME Typed, Exclusive, WithinCeiling, BootIdle, Next, Crash \/ Restore \/ Reconcile
    PROVE  Exclusive' /\ WithinCeiling'
<1>1. handle \in [Handles -> HandleRecord] /\ doc \in [Executions -> DocRecord]
    BY PoolTypes DEF Typed, TypeOK
<1>2. ASSUME \A h \in Handles : handle'[h].pc = "idle",
             \A e \in Executions : Rests(e)' => Rests(e)
      PROVE  /\ OneHolder' /\ OneResting' /\ HolderAlone' /\ HolderCounted'
             /\ WithinCeiling'
  <2>1. OneHolder' /\ OneResting' /\ HolderAlone' /\ HolderCounted'
      BY <1>2 DEF Holding, Exclusive, OneHolder, OneResting, HolderAlone, HolderCounted
  <2>2. Occupants' = {}
      BY <1>2 DEF Occupants
  <2>3. Taken' \subseteq Taken
      BY <1>2, <2>2 DEF Taken, Resting
  <2> QED BY <2>1, <2>3, TakenShrinks
<1>3. CASE Crash
  <2>1. \A h \in Handles : handle'[h].pc = "idle"
      BY <1>1, <1>3 DEF Crash, HandleRecord
  <2>2. \A e \in Executions : Rests(e)' => Rests(e)
    <3>1. doc' = doc /\ \A r \in Requests : request'[r].pc = "idle"
        BY <1>3 DEF Crash, Idle
    <3> QED BY <3>1 DEF Rests, Turning, Turned
  <2>3. RestCounted' /\ RestKept'
      BY <1>3 DEF Crash, RestCounted, RestKept
  <2> QED BY <1>2, <2>1, <2>2, <2>3 DEF Exclusive
<1>4. CASE Restore
  <2>1. /\ \A h \in Handles : handle'[h].pc = "idle"
        /\ \A r \in Requests : request'[r].pc = "idle"
      BY <1>4 DEF Restore, Typed, BootQuiet, BootIdle
  <2>2. \A e \in Executions : doc'[e].status = doc[e].status
      BY <1>4, RestartDoc DEF Restore, Reconcile, Unwritten
  <2>3. \A e \in Executions : Rests(e)' => doc[e].status = "paused"
      BY <2>1, <2>2 DEF Rests, Turning, Turned
  <2>4. PICK s \in SUBSET PausedOnDisk :
          OnePerProject(s) /\ pausedReservations' = s /\ runningProjects' = {ProjectOf[e] : e \in s}
      BY <1>4 DEF Restore
  <2>5. \A e \in Executions : Rests(e)' => \E f \in s : ProjectOf[f] = ProjectOf[e]
      BY <2>3, <2>4 DEF OnePerProject, PausedOnDisk
  <2>6. RestCounted'
      BY <2>4, <2>5 DEF RestCounted
  <2>7. RestKept'
      BY <2>4, <2>5 DEF RestKept
  <2>8. \A e \in Executions : Rests(e)' => Rests(e)
      BY <2>3 DEF Rests
  <2> QED BY <1>2, <2>1, <2>6, <2>7, <2>8 DEF Exclusive
<1>5. CASE Reconcile
  <2>1. /\ UNCHANGED <<handle, runningProjects, pausedReservations>>
        /\ phase = "reconciling"
      BY <1>5 DEF Reconcile, pool
  <2>2. /\ \A h \in Handles : Holding(h)' => Holding(h)
        /\ \A h \in Occupants : ProjectFor(h)' = ProjectFor(h)
        /\ Occupants' = Occupants
      BY <2>1 DEF Holding, ProjectFor, Occupants
  <2> QED BY <2>1, <2>2, HandedOn
<1> QED BY <1>3, <1>4, <1>5

\* What was built keeps its execution.
LEMMA ExecKept ==
    ASSUME Typed, Next, NEW h \in Handles, h <= issued
    PROVE  handle'[h].exec = handle[h].exec /\ ProjectFor(h)' = ProjectFor(h)
<1>1. h # issued + 1
    BY PoolTypes
<1>2. handle'[h].exec = handle[h].exec
    BY <1>1, BuiltOnce
<1> QED BY <1>2 DEF ProjectFor

\* A handle waits in the queue of its own project.
LEMMA OwnQueueKept ==
    ASSUME Typed, OwnQueue, Next
    PROVE  OwnQueue'
<1> SUFFICES ASSUME NEW p \in Projects, NEW h \in InQueue(p)' PROVE ProjectFor(h)' = p
    BY DEF OwnQueue
<1>1. CASE h \in InQueue(p)
  <2>1. h \in Handles /\ h <= issued /\ ProjectFor(h) = p
      BY <1>1, PoolTypes DEF OwnQueue
  <2> QED BY <2>1, ExecKept
<1>2. ASSUME NEW r \in Requests, Enqueue(r), h = request[r].handle, p = ProjectFor(h)
      PROVE  ProjectFor(h)' = p
  <2>1. h \in Handles /\ h <= issued
      BY <1>2, PoolTypes, BoundsAssumption DEF Typed, TypeOK, RequestsBuilt, Enqueue, At
  <2> QED BY <1>2, <2>1, ExecKept
<1> QED BY <1>1, <1>2, QueueFrom

\* A request starts the handle it built for its own execution.
LEMMA OwnHandleKept ==
    ASSUME Typed, OwnHandle, Next
    PROVE  OwnHandle'
<1> DEFINE Building == {"register", "enqueue", "resume_register", "resume_spawn"}
<1> SUFFICES ASSUME NEW r \in Requests, request'[r].pc \in Building
             PROVE  handle'[request'[r].handle].exec = request'[r].exec
    BY DEF OwnHandle
<1>1. ASSUME request[r].pc \in Building,
             request'[r].handle = request[r].handle, request'[r].exec = request[r].exec
      PROVE  handle'[request'[r].handle].exec = request'[r].exec
  <2>1. PICK h : h = request[r].handle
      OBVIOUS
  <2>2. h \in Handles /\ h <= issued /\ handle[h].exec = request[r].exec
      BY <1>1, <2>1, PoolTypes, BoundsAssumption DEF Typed, TypeOK, RequestsBuilt, OwnHandle
  <2> QED BY <1>1, <2>1, <2>2, ExecKept
<1>2. CASE request'[r] = request[r]
    BY <1>1, <1>2
<1>3. CASE NewRequest(r) \/ RequestStep(r)
  <2>1. \A e \in Executions : StopPath(doc[e].status) \notin Building
      BY DEF StopPath
  <2>2. \/ \E e \in Executions : /\ Start(r, e) /\ request'[r].exec = e /\ request'[r].handle = issued + 1
        \/ /\ Register(r) \/ ResumeRegister(r)
           /\ request'[r].exec = request[r].exec /\ request'[r].handle = request[r].handle
        \/ /\ ResumeSave(r) \/ (ApproveSave(r) /\ request'[r].pc = "register")
           /\ request'[r].exec = request[r].exec /\ request'[r].handle = issued + 1
      BY <1>3, <2>1, RequestPath
  <2>3. CASE Register(r) \/ ResumeRegister(r)
    <3>1. request[r].pc \in Building
        BY <2>3 DEF Register, ResumeRegister, At
    <3>2. request'[r].exec = request[r].exec /\ request'[r].handle = request[r].handle
        BY <2>2, <2>3 DEF Register, ResumeRegister, ResumeSave, ApproveSave, Start, Enter, At
    <3> QED BY <1>1, <3>1, <3>2
  <2> QED BY <2>2, <2>3, RequestBuilds
<1> QED BY <1>2, <1>3, OneRequestMoves

\* Once a request took its execution out of the pause, nobody puts it back while the
\* project is still its own.
LEMMA TurnedAwayKept ==
    ASSUME Typed, Exclusive, TurnedAway, Next
    PROVE  TurnedAway'
<1> SUFFICES ASSUME NEW r \in Requests, request'[r].pc \in Turned, doc'[request'[r].exec].status = "paused"
             PROVE  FALSE
    BY DEF TurnedAway
<1>1. ASSUME request[r].pc \in Turned, request'[r].exec = request[r].exec
      PROVE  FALSE
  <2>1. PICK e \in Executions : e = request[r].exec
      BY <1>1 DEF Typed, RequestsBuilt, Turned
  <2>2. doc[e].status # "paused" /\ Rests(e)
      BY <1>1, <2>1 DEF TurnedAway, Rests, Turning
  <2>3. PICK h \in Handles : Commit(h) /\ handle[h].exec = e
      BY <1>1, <2>1, <2>2, PausedBy DEF Durable
  <2>4. Holding(h) /\ ProjectFor(h) = ProjectOf[e]
      BY <2>3 DEF Commit, WorkerAt, Holding, ProjectFor
  <2> QED BY <2>2, <2>4 DEF Exclusive, HolderAlone
<1>2. CASE request'[r] = request[r]
    BY <1>1, <1>2
<1>3. CASE NewRequest(r) \/ RequestStep(r)
  <2>1. \A e \in Executions : StopPath(doc[e].status) \notin Turned
      BY DEF StopPath, Turned
  <2>2. /\ request'[r].exec = request[r].exec
        /\ ResumeRegister(r) \/ CancelPaused(r) \/ CancelMirror(r) \/ ResumeSave(r)
      BY <1>3, <2>1, RequestPath DEF Turned
  <2>3. CASE ResumeRegister(r) \/ CancelMirror(r)
      BY <1>1, <2>2, <2>3 DEF ResumeRegister, CancelMirror, At, Turned
  <2>4. CASE CancelPaused(r) \/ ResumeSave(r)
    <3>1. PICK e \in Executions : e = request[r].exec
        BY <2>4 DEF Typed, RequestsBuilt, CancelPaused, ResumeSave, At
    <3>2. PICK s \in {"cancelled", "queued"} : SaveDoc(e, [doc[e] EXCEPT !.status = s, !.approval = NoHandle])
        BY <2>4, <3>1 DEF CancelPaused, ResumeSave, DocFor
    <3>3. [doc[e] EXCEPT !.status = s, !.approval = NoHandle].status = s
      <4>1. doc[e] \in DocRecord
          BY DEF Typed, TypeOK
      <4> QED BY <4>1, DocFields
    <3>4. doc'[e].status = s
        BY <3>2, <3>3, Saved
    <3> QED BY <2>2, <3>1, <3>4
  <2> QED BY <2>2, <2>3, <2>4
<1>4. request'[r].pc # "idle"
    BY DEF Turned
<1> QED BY <1>2, <1>3, <1>4, OneRequestMoves

\* The lock of a project is held by a thread of the project inside its loop.
LEMMA LockHeldKept ==
    ASSUME Typed, Exclusive, OwnHandle, LockHeld, PendingWaits, Next
    PROVE  LockHeld'
<1>1. /\ handle \in [Handles -> HandleRecord] /\ projectLock \in [Projects -> Handles \cup {NoHandle}]
    BY PoolTypes DEF Typed, TypeOK
<1>2. ASSUME NEW p \in Projects, NEW h \in Handles, projectLock[p] = h, handle'[h].pc = handle[h].pc
      PROVE  handle'[h].pc = "running" /\ ProjectFor(h)' = p
  <2>1. handle[h].pc = "running" /\ ProjectFor(h) = p
      BY <1>2 DEF LockHeld
  <2>2. h <= issued
      BY <2>1, BuiltExec
  <2> QED BY <1>2, <2>1, <2>2, ExecKept
<1>3. ASSUME projectLock' = projectLock,
             \A h \in Handles : handle[h].pc = "running" => handle'[h].pc = "running"
      PROVE  LockHeld'
  <2>1. \A p \in Projects, h \in Handles : projectLock[p] = h => handle'[h].pc = handle[h].pc
      BY <1>3 DEF LockHeld
  <2> QED BY <1>2, <1>3, <2>1 DEF LockHeld
<1>4. CASE Dispatch
  <2>1. projectLock' = projectLock
      BY <1>4 DEF Dispatch, DispatchNext, DispatchDone
  <2>2. \A h \in Handles : handle[h].pc = "running" => handle'[h].pc = "running"
      BY <1>4, AdmitDoc DEF PendingWaits
  <2> QED BY <1>3, <2>1, <2>2
<1>5. ASSUME NEW h \in Handles, WorkerStep(h) \/ NodePersist(h)
      PROVE  LockHeld'
  <2>1. PICK p \in Projects : p = ProjectFor(h) /\ ProjectFor(h)' = p
    <3>1. handle[h].exec \in Executions /\ handle'[h].exec = handle[h].exec
        BY <1>5, WorkerHandle, BuiltExec
    <3> QED BY <3>1, ProjectOfAssumption DEF ProjectFor
  <2>2. \A g \in Handles \ {h} : handle'[g] = handle[g]
      BY <1>5, WorkerHandle
  <2>3. handle[h] \in HandleRecord /\ \A c : Step(h, c) => handle'[h].pc = c
      BY <1>1 DEF Step, SetHandle, HandleRecord
  <2>4. CASE AcquireLock(h)
    <3>1. /\ projectLock' = [projectLock EXCEPT ![p] = h] /\ handle'[h].pc = "running"
          /\ handle[h].pc = "locking"
        BY <2>1, <2>3, <2>4 DEF AcquireLock, WorkerAt
    <3>2. \A q \in Projects : projectLock[q] # h
        BY <3>1 DEF LockHeld
    <3>3. \A q \in Projects \ {p}, g \in Handles : projectLock[q] = g =>
            handle'[g].pc = "running" /\ ProjectFor(g)' = q
      <4> TAKE q \in Projects \ {p}, g \in Handles
      <4> HAVE projectLock[q] = g
      <4>1. handle'[g] = handle[g]
          BY <2>2, <3>2
      <4> QED BY <1>2, <4>1
    <3>4. projectLock'[p] = h /\ \A q \in Projects \ {p} : projectLock'[q] = projectLock[q]
        BY <1>1, <3>1
    <3> QED BY <2>1, <3>1, <3>3, <3>4 DEF LockHeld
  <2>5. CASE RunToEnd(h) \/ RunRaises(h) \/ DrainToApproval(h) \/ DrainToPause(h)
    <3>1. projectLock' = [projectLock EXCEPT ![p] = NoHandle]
        BY <2>1, <2>5 DEF RunToEnd, RunRaises, DrainToApproval, DrainToPause, LeaveLoop
    <3>2. \A q \in Projects \ {p} : projectLock[q] # h
        BY <2>1 DEF LockHeld
    <3>3. \A q \in Projects \ {p}, g \in Handles : projectLock[q] = g =>
            handle'[g].pc = "running" /\ ProjectFor(g)' = q
      <4> TAKE q \in Projects \ {p}, g \in Handles
      <4> HAVE projectLock[q] = g
      <4>1. handle'[g] = handle[g]
          BY <2>2, <3>2
      <4> QED BY <1>2, <4>1
    <3>4. projectLock'[p] = NoHandle /\ \A q \in Projects \ {p} : projectLock'[q] = projectLock[q]
        BY <1>1, <3>1
    <3> QED BY <3>3, <3>4 DEF LockHeld
  <2>6. CASE ~(AcquireLock(h) \/ RunToEnd(h) \/ RunRaises(h) \/ DrainToApproval(h) \/ DrainToPause(h))
    <3>1. projectLock' = projectLock
        BY <1>5, <2>6 DEF WorkerStep, NodePersist, StartRun, LockRefused, Finish, Raised, CreateCheckpoint,
                          SaveResume, Commit, Mirror, ExitPaused, ExitReleased
    <3>2. handle[h].pc = "running" => handle'[h].pc = "running"
        BY <1>5, <2>6 DEF WorkerStep, NodePersist, StartRun, LockRefused, Finish, Raised, CreateCheckpoint,
                          SaveResume, Commit, Mirror, ExitPaused, ExitReleased, WorkerAt
    <3> QED BY <1>3, <2>2, <3>1, <3>2
  <2> QED BY <2>4, <2>5, <2>6
<1>6. ASSUME NEW r \in Requests, NewRequest(r) \/ RequestStep(r)
      PROVE  LockHeld'
  <2>1. projectLock' = projectLock
      BY <1>6 DEF NewRequest, RequestStep, Start, StopRead, CancelQueued, PauseRead, ResumeRead, ApproveRead,
           RejectRead, DecisionRead, Register, Enqueue, StopSignal, PauseSignal, ResumeSave, ResumeRegister,
           ResumeSpawn, ApproveExpire, ApproveDecide, ApproveSave, RejectDecide, CancelDecide, Settle,
           Cleanup, CancelPaused, CancelMirror, CancelRelease
  <2>2. ASSUME NEW h \in Handles, handle[h].pc = "running", ResumeSpawn(r), h = request[r].handle
        PROVE  FALSE
    <3>1. PICK e \in Executions : e = request[r].exec /\ request[r].pc = "resume_spawn"
        BY <2>2 DEF Typed, RequestsBuilt, ResumeSpawn, At
    <3>2. Rests(e) /\ Holding(h) /\ ProjectFor(h) = ProjectOf[e]
        BY <2>2, <3>1 DEF Rests, Turning, Turned, Holding, OwnHandle, ProjectFor
    <3> QED BY <3>2 DEF Exclusive, HolderAlone
  <2>3. \A h \in Handles : handle[h].pc = "running" => handle'[h].pc = "running"
      BY <1>6, <2>2, LeftAlone
  <2> QED BY <1>3, <2>1, <2>3
<1>7. CASE Crash
    BY <1>7 DEF Crash, LockHeld
<1>8. CASE Boot
    BY <1>3, <1>8 DEF Boot, Restore, Reconcile
<1> QED BY <1>4, <1>5, <1>6, <1>7, <1>8 DEF Next

\* A process that boots has no request.
LEMMA BootIdleKept ==
    ASSUME Typed, BootIdle, Next
    PROVE  BootIdle'
<1>1. CASE Dispatch \/ Boot
    BY <1>1 DEF Dispatch, DispatchNext, DispatchDone, Boot, Restore, Reconcile, BootIdle
<1>2. CASE Crash
    BY <1>2 DEF Crash, Idle, BootIdle
<1>3. ASSUME NEW h \in Handles, WorkerStep(h) \/ NodePersist(h)
      PROVE  BootIdle'
    BY <1>3, WorkerHandle DEF BootIdle
<1>4. ASSUME NEW r \in Requests, NewRequest(r) \/ RequestStep(r)
      PROVE  BootIdle'
    BY <1>4, RequestHandle DEF BootIdle
<1> QED BY <1>1, <1>2, <1>3, <1>4 DEF Next

\* Together these facts are inductive.
LEMMA AlwaysSlotted == ASSUME OneOperator PROVE Spec => []Slotted
<1>1. Init => Slotted
  <2> SUFFICES ASSUME Init PROVE Slotted
      OBVIOUS
  <2>1. /\ \A h \in Handles : handle[h].pc = "idle"
        /\ \A r \in Requests : request[r].pc = "idle"
        /\ \A e \in Executions : doc[e].status = "none"
        /\ \A p \in Projects : projectLock[p] = NoHandle /\ InQueue(p) = {}
      BY DEF Init, Idle, InQueue
  <2>2. \A e \in Executions : ~Rests(e)
      BY <2>1 DEF Rests, Turning, Turned
  <2>3. \A h \in Handles : ~Holding(h)
      BY <2>1 DEF Holding
  <2>4. Exclusive
      BY <2>2, <2>3 DEF Exclusive, OneHolder, OneResting, HolderAlone, HolderCounted, RestCounted, RestKept
  <2>5. WithinCeiling
    <3>1. Occupants = {} /\ Resting = {}
        BY <2>1, <2>2 DEF Occupants, Resting
    <3>2. Taken = {}
        BY <3>1 DEF Taken
    <3> QED BY <3>2, FS_EmptySet, BoundsAssumption DEF WithinCeiling
  <2>6. OwnQueue /\ OwnHandle /\ TurnedAway /\ LockHeld /\ BootIdle
      BY <2>1 DEF OwnQueue, OwnHandle, TurnedAway, Turned, LockHeld, BootIdle
  <2> QED BY <2>4, <2>5, <2>6 DEF Slotted
<1>2. Typed /\ Moving /\ SlotsCovered /\ Slotted /\ [Next]_vars => Slotted'
  <2> SUFFICES ASSUME Typed, Moving, SlotsCovered, Slotted, [Next]_vars PROVE Slotted'
      OBVIOUS
  <2>1. CASE UNCHANGED vars
    <3>1. /\ UNCHANGED <<doc, handle, runningProjects, pausedReservations, projectQueues, projectLock,
                         request, phase>>
        BY <2>1 DEF vars, pool
    <3>2. /\ \A e : Rests(e)' = Rests(e)
          /\ \A h : Holding(h)' = Holding(h) /\ ProjectFor(h)' = ProjectFor(h)
          /\ Occupants' = Occupants /\ \A p : InQueue(p)' = InQueue(p)
        BY <3>1 DEF Rests, Holding, ProjectFor, Occupants, InQueue
    <3>3. Taken' = Taken
        BY <3>2 DEF Taken, Resting
    <3>4. Exclusive'
        BY <3>1, <3>2 DEF Slotted, Exclusive, OneHolder, OneResting, HolderAlone, HolderCounted,
                          RestCounted, RestKept
    <3>5. WithinCeiling'
        BY <3>3 DEF Slotted, WithinCeiling
    <3>6. OwnQueue' /\ OwnHandle' /\ TurnedAway' /\ LockHeld' /\ BootIdle'
        BY <3>1, <3>2 DEF Slotted, OwnQueue, OwnHandle, TurnedAway, LockHeld, BootIdle
    <3> QED BY <3>4, <3>5, <3>6 DEF Slotted
  <2>2. CASE Next
    <3>1. Exclusive' /\ WithinCeiling'
      <4>1. CASE Dispatch
          BY <2>2, <4>1, DispatchSlots DEF Slotted, Moving
      <4>2. ASSUME NEW h \in Handles, WorkerStep(h) \/ NodePersist(h)
            PROVE  Exclusive' /\ WithinCeiling'
          BY <2>2, <4>2, WorkerSlots DEF Slotted
      <4>3. ASSUME NEW r \in Requests, NewRequest(r) \/ RequestStep(r)
            PROVE  Exclusive' /\ WithinCeiling'
          BY <2>2, <4>3, OneOperator, RequestSlots, SpawnSlots, CancelReleaseSlots DEF Slotted, Moving
      <4>4. CASE Boot \/ Crash
          BY <2>2, <4>4, RestartSlots DEF Slotted, Boot
      <4> QED BY <2>2, <4>1, <4>2, <4>3, <4>4 DEF Next
    <3>2. OwnQueue' /\ OwnHandle' /\ TurnedAway' /\ LockHeld' /\ BootIdle'
        BY <2>2, OwnQueueKept, OwnHandleKept, TurnedAwayKept, LockHeldKept, BootIdleKept DEF Slotted, Moving
    <3> QED BY <3>1, <3>2 DEF Slotted
  <2> QED BY <2>1, <2>2
<1> QED BY <1>1, <1>2, AlwaysTyped, AlwaysMoving, SlotsAlwaysCovered, PTL DEF Spec

\* For every pool size, with requests served one after the other, and with kills at
\* any point: the nodes of at most max_global_workers projects execute at the same
\* time (_dispatch_locked, resume, _cancel_user_pause, _restore_pause_reservations).
THEOREM CeilingKept == ASSUME OneOperator PROVE Spec => []ExecutingWithinCeiling
<1>1. Typed /\ Slotted => ExecutingWithinCeiling
  <2> SUFFICES ASSUME Typed, Slotted PROVE ExecutingWithinCeiling
      OBVIOUS
  <2> DEFINE Executing == {p \in Projects : projectLock[p] # NoHandle}
  <2>1. Executing \subseteq Taken
    <3> SUFFICES ASSUME NEW p \in Projects, projectLock[p] # NoHandle PROVE p \in Taken
        OBVIOUS
    <3>1. PICK h \in Handles : h = projectLock[p]
        BY DEF Typed, TypeOK
    <3>2. h \in Occupants /\ ProjectFor(h) = p
        BY <3>1 DEF Slotted, LockHeld, Occupants
    <3> QED BY <3>2 DEF Taken
  <2>2. Cardinality(Executing) \in Nat /\ Cardinality(Executing) <= Cardinality(Taken)
      BY <2>1, TakenCounted, FS_Subset, FS_CardinalityType
  <2> QED BY <2>2, TakenCounted, BoundsAssumption DEF Slotted, WithinCeiling, ExecutingWithinCeiling
<1> QED BY <1>1, AlwaysSlotted, AlwaysTyped, PTL
=============================================================================

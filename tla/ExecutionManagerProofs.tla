----------------------- MODULE ExecutionManagerProofs -----------------------
(***************************************************************************)
(* What holds of ExecutionManager for every set of executions, projects    *)
(* and request threads, every pool size and every number of calls and      *)
(* kills.                                                                  *)
(***************************************************************************)
EXTENDS ExecutionManager, FiniteSetTheorems, SequenceTheorems, TLAPS

\* A handle that was built belongs to an execution, one that was not is inert, and
\* a worker that has committed its run has something to write to the queue.
HandlesBuilt ==
    \A h \in Handles :
      /\ h <= issued => handle[h].exec \in Executions
      /\ h > issued => handle[h].pc = "idle" /\ handle[h].qrec # "pending"
      /\ handle[h].pc = "mirror" => handle[h].rec \in Terminal \cup Durable

\* A request at work has an execution, and its handle once it built one.
RequestsBuilt ==
    \A r \in Requests :
      /\ request[r].pc # "idle" => request[r].exec \in Executions
      /\ request[r].pc \in {"register", "enqueue", "resume_register", "resume_spawn"} =>
           request[r].handle \in 1..issued

\* Only built handles are queued.
QueuesBuilt == \A p \in Projects : \A i \in DOMAIN projectQueues[p] : projectQueues[p][i] <= issued

\* A process that is still booting runs nothing.
BootQuiet ==
    phase # "up" => /\ \A h \in Handles : handle[h].pc = "idle"
                    /\ ~dispatching
                    /\ readyProjects = <<>>

Typed == TypeOK /\ HandlesBuilt /\ RequestsBuilt /\ QueuesBuilt /\ BootQuiet

USE DEF Handles, NoHandle

\* The manager starts with empty queues and no document, so Typed holds.
LEMMA InitTyped == Init => Typed
<1> SUFFICES ASSUME Init PROVE Typed
    OBVIOUS
<1> USE BoundsAssumption DEF Init
<1>1. doc \in [Executions -> DocRecord]
    BY DEF DocRecord, ExecStatuses, QueueStatuses
<1>2. handle \in [Handles -> HandleRecord]
    BY DEF HandleRecord, ExecStatuses, QueueStatuses
<1>3. request \in [Requests -> RequestRecord]
    BY DEF RequestRecord, Idle, RequestPcs
<1>4. projectQueues \in [Projects -> Seq(Handles)] /\ readyProjects \in Seq(Projects)
    OBVIOUS
<1>5. checkpoints \in [Handles -> {"none", "awaiting", "approved", "rejected", "expired"}]
    OBVIOUS
<1>6. active \in [Executions -> Handles \cup {NoHandle}] /\ projectLock \in [Projects -> Handles \cup {NoHandle}]
    OBVIOUS
<1>7. issued \in 0..MaxCalls /\ calls \in 0..MaxCalls /\ crashes \in 0..MaxCrashes
    OBVIOUS
<1>8. TypeOK
    BY <1>1, <1>2, <1>3, <1>4, <1>5, <1>6, <1>7 DEF TypeOK
<1>9. HandlesBuilt /\ RequestsBuilt /\ QueuesBuilt /\ BootQuiet
    BY DEF HandlesBuilt, RequestsBuilt, QueuesBuilt, BootQuiet, Idle
<1> QED BY <1>8, <1>9 DEF Typed


\* A handle with some fields replaced by well-typed values is a handle.
LEMMA HandleFields ==
    ASSUME NEW g \in HandleRecord
    PROVE  /\ \A c \in {"idle"} \cup WorkerPcs : [g EXCEPT !.pc = c] \in HandleRecord
           /\ \A c \in {"idle"} \cup WorkerPcs, s \in ExecStatuses :
                /\ [g EXCEPT !.pc = c, !.rec = s] \in HandleRecord
                /\ [g EXCEPT !.rec = s, !.pc = c] \in HandleRecord
           /\ \A c \in {"idle"} \cup WorkerPcs, q \in QueueStatuses :
                [g EXCEPT !.qrec = q, !.pc = c] \in HandleRecord
           /\ \A c \in {"idle"} \cup WorkerPcs, q \in QueueStatuses, s \in ExecStatuses :
                [g EXCEPT !.qrec = q, !.rec = s, !.pc = c] \in HandleRecord
           /\ \A b \in BOOLEAN : [g EXCEPT !.stop = b] \in HandleRecord
           /\ \A b \in BOOLEAN : [g EXCEPT !.pause = b] \in HandleRecord
           /\ \A b \in BOOLEAN, q \in QueueStatuses, s \in ExecStatuses :
                [g EXCEPT !.stop = b, !.qrec = q, !.rec = s] \in HandleRecord
BY DEF HandleRecord

\* A document that is saved whole leaves the documents well typed.
LEMMA SaveDocTyped ==
    ASSUME doc \in [Executions -> DocRecord], NEW e, NEW d \in DocRecord, SaveDoc(e, d)
    PROVE  doc' \in [Executions -> DocRecord]
BY DEF SaveDoc

\* A worker step on handle h keeps everything well formed if what it writes is.
LEMMA WorkerEffect ==
    ASSUME Typed, phase = "up", NEW h \in Handles, h <= issued, NEW g \in HandleRecord,
           g.exec = handle[h].exec, g.pc = "mirror" => g.rec \in Terminal \cup Durable,
           SetHandle(h, g),
           doc' \in [Executions -> DocRecord],
           checkpoints' \in [Handles -> {"none", "awaiting", "approved", "rejected", "expired"}],
           projectLock' \in [Projects -> Handles \cup {NoHandle}],
           UNCHANGED <<issued, active, pool, request, calls, phase, crashes>>
    PROVE  Typed'
<1>1. handle' \in [Handles -> HandleRecord]
    BY DEF Typed, TypeOK, SetHandle
<1>2. TypeOK'
    BY <1>1 DEF Typed, TypeOK, pool
<1>3. HandlesBuilt'
    BY DEF Typed, TypeOK, HandlesBuilt, SetHandle
<1>4. RequestsBuilt' /\ QueuesBuilt' /\ BootQuiet'
    BY DEF Typed, RequestsBuilt, QueuesBuilt, BootQuiet, pool
<1> QED BY <1>2, <1>3, <1>4 DEF Typed

\* The same for a step that only moves the worker on, to any point but "mirror".
LEMMA StepEffect ==
    ASSUME Typed, phase = "up", NEW h \in Handles, handle[h].pc # "idle",
           NEW c \in {"idle"} \cup WorkerPcs, c # "mirror", Step(h, c),
           doc' \in [Executions -> DocRecord],
           checkpoints' \in [Handles -> {"none", "awaiting", "approved", "rejected", "expired"}],
           projectLock' \in [Projects -> Handles \cup {NoHandle}],
           UNCHANGED <<issued, active, pool, request, calls, phase, crashes>>
    PROVE  Typed'
<1> DEFINE g == [handle[h] EXCEPT !.pc = c]
<1>0. handle[h] \in HandleRecord /\ issued \in Nat
    BY BoundsAssumption DEF Typed, TypeOK
<1>1. handle[h] \in HandleRecord /\ h <= issued
    BY <1>0, BoundsAssumption DEF Typed, HandlesBuilt
<1>2. g \in HandleRecord
    BY <1>1, HandleFields
<1>3. g.exec = handle[h].exec /\ g.pc # "mirror"
    BY <1>1 DEF HandleRecord
<1>4. SetHandle(h, g)
    BY DEF Step
<1> QED BY <1>1, <1>2, <1>3, <1>4, WorkerEffect

\* Inside the pool every worker step keeps the invariant.
LEMMA WorkerTyped ==
    ASSUME Typed, NEW h \in Handles, handle[h].pc # "idle", phase = "up",
           WorkerStep(h) \/ NodePersist(h), ~ExitPaused(h), ~ExitReleased(h)
    PROVE  Typed'
<1>1. /\ doc \in [Executions -> DocRecord]
      /\ handle \in [Handles -> HandleRecord]
      /\ handle[h] \in HandleRecord
      /\ checkpoints \in [Handles -> {"none", "awaiting", "approved", "rejected", "expired"}]
      /\ projectLock \in [Projects -> Handles \cup {NoHandle}]
      /\ issued \in Nat
      /\ UNCHANGED doc => doc' \in [Executions -> DocRecord]
    BY BoundsAssumption DEF Typed, TypeOK
<1>2. /\ h <= issued
      /\ handle[h].exec \in Executions
      /\ DocOf(h) \in DocRecord
    BY <1>1 DEF Typed, TypeOK, HandlesBuilt, DocOf
<1>3. /\ {"running", "paused", "awaiting_approval"} \subseteq ExecStatuses
      /\ Terminal \cup Durable \subseteq ExecStatuses
      /\ "paused" \in Durable /\ "awaiting_approval" \in Durable
      /\ "cancelled" \in Terminal /\ "failed" \in Terminal
      /\ \A s \in Terminal \cup Durable : QueueStatusOf(s) \in QueueStatuses
    BY DEF ExecStatuses, QueueStatuses, QueueStatusOf, Terminal, Durable
<1>4. {"locking", "running", "finishing", "raised", "checkpoint", "save_resume", "commit", "mirror", "exit"}
        \subseteq WorkerPcs
    BY DEF WorkerPcs
\* What the steps write to disk is well typed.
<1>5. ASSUME NEW d \in DocRecord, SaveDoc(handle[h].exec, d)
      PROVE  doc' \in [Executions -> DocRecord]
    BY <1>1, <1>5, SaveDocTyped
<1>6. ASSUME NEW s \in Terminal \cup Durable, SetHandle(h, [handle[h] EXCEPT !.rec = s, !.pc = "mirror"]),
             doc' \in [Executions -> DocRecord],
             UNCHANGED <<checkpoints, issued, active, pool, projectLock, request, calls, phase, crashes>>
      PROVE  Typed'
  <2> DEFINE g == [handle[h] EXCEPT !.rec = s, !.pc = "mirror"]
  <2>1. g \in HandleRecord
      BY <1>1, <1>3, <1>4, HandleFields
  <2>2. g.exec = handle[h].exec /\ g.rec = s
      BY <1>1 DEF HandleRecord
  <2> QED BY <1>1, <1>2, <1>6, <2>1, <2>2, WorkerEffect
<1>7. CASE StartRun(h)
  <2> DEFINE g == [handle[h] EXCEPT !.pc = "locking", !.rec = "running"]
  <2>1. g \in HandleRecord
      BY <1>1, <1>3, <1>4, HandleFields
  <2>2. g.exec = handle[h].exec /\ g.pc = "locking"
      BY <1>1 DEF HandleRecord
  <2>3. [DocOf(h) EXCEPT !.status = "running", !.approval = NoHandle] \in DocRecord
      BY <1>2, <1>3 DEF DocRecord
  <2>4. doc' \in [Executions -> DocRecord]
      BY <1>5, <1>7, <2>3 DEF StartRun
  <2>5. SetHandle(h, g) /\ UNCHANGED <<checkpoints, issued, active, pool, projectLock, request, calls, phase, crashes>>
      BY <1>7 DEF StartRun
  <2> QED BY <1>1, <1>2, <2>1, <2>2, <2>4, <2>5, WorkerEffect
<1>8. CASE AcquireLock(h)
    BY <1>1, <1>4, <1>8, StepEffect DEF AcquireLock
<1>9. CASE LockRefused(h)
    BY <1>1, <1>4, <1>9, StepEffect DEF LockRefused
<1>10. CASE RunToEnd(h) \/ RunRaises(h) \/ DrainToApproval(h) \/ DrainToPause(h)
  <2>1. PICK c \in {"finishing", "raised", "checkpoint", "save_resume"} : LeaveLoop(h, c)
      BY <1>10 DEF RunToEnd, RunRaises, DrainToApproval, DrainToPause
  <2> QED BY <1>1, <1>4, <2>1, StepEffect DEF LeaveLoop
<1>11. CASE CreateCheckpoint(h)
    BY <1>1, <1>4, <1>11, StepEffect DEF CreateCheckpoint
<1>12. CASE SaveResume(h)
  <2>1. [DocOf(h) EXCEPT !.resume = h] \in DocRecord
      BY <1>2 DEF DocRecord
  <2>2. doc' \in [Executions -> DocRecord]
      BY <1>5, <1>12, <2>1 DEF SaveResume
  <2> QED BY <1>1, <1>4, <1>12, <2>2, StepEffect DEF SaveResume
<1>13. CASE Commit(h)
  <2>1. PausedAs(h) \in Terminal \cup Durable
      BY <1>3 DEF PausedAs
  <2>2. [DocOf(h) EXCEPT !.status = PausedAs(h),
                         !.approval = IF checkpoints[h] = "none" THEN NoHandle ELSE h] \in DocRecord
      BY <1>2, <1>3, <2>1 DEF DocRecord
  <2>3. doc' \in [Executions -> DocRecord]
      BY <1>5, <1>13, <2>2 DEF Commit
  <2> QED BY <1>6, <1>13, <2>1, <2>3 DEF Commit
<1>14. CASE Finish(h)
  <2>1. PICK s \in Terminal : /\ SetHandle(h, [handle[h] EXCEPT !.rec = s, !.pc = "mirror"])
                              /\ SaveDoc(handle[h].exec, [DocOf(h) EXCEPT !.status = s, !.approval = NoHandle,
                                                                          !.resume = NoHandle])
      BY <1>3, <1>14 DEF Finish
  <2>2. [DocOf(h) EXCEPT !.status = s, !.approval = NoHandle, !.resume = NoHandle] \in DocRecord
      BY <1>2, <1>3 DEF DocRecord
  <2>3. doc' \in [Executions -> DocRecord]
      BY <1>5, <2>1, <2>2
  <2> QED BY <1>6, <1>14, <2>1, <2>3 DEF Finish
<1>15. CASE Raised(h)
  <2> DEFINE s == IF handle[h].stop THEN "cancelled" ELSE "failed"
  <2>1. s \in Terminal
      BY <1>3
  <2>2. [DocOf(h) EXCEPT !.status = s, !.approval = NoHandle] \in DocRecord
      BY <1>2, <1>3, <2>1 DEF DocRecord
  <2>3. doc' \in [Executions -> DocRecord]
      BY <1>5, <1>15, <2>2 DEF Raised
  <2> QED BY <1>6, <1>15, <2>1, <2>3 DEF Raised
<1>16. CASE Mirror(h)
  <2> DEFINE q == QueueStatusOf(handle[h].rec)
             g == [handle[h] EXCEPT !.qrec = q, !.pc = "exit"]
  <2>1. q \in QueueStatuses
      BY <1>3, <1>16 DEF Mirror, WorkerAt, Typed, HandlesBuilt
  <2>2. g \in HandleRecord
      BY <1>1, <1>4, <2>1, HandleFields
  <2>3. g.exec = handle[h].exec /\ g.pc = "exit"
      BY <1>1 DEF HandleRecord
  <2>4. [DocOf(h) EXCEPT !.queue = q] \in DocRecord
      BY <1>2, <2>1 DEF DocRecord
  <2>5. doc' \in [Executions -> DocRecord]
      BY <1>5, <1>16, <2>4 DEF Mirror
  <2>6. SetHandle(h, g) /\ UNCHANGED <<checkpoints, issued, active, pool, projectLock, request, calls, phase, crashes>>
      BY <1>16 DEF Mirror
  <2> QED BY <1>1, <1>2, <2>2, <2>3, <2>5, <2>6, WorkerEffect
<1>17. CASE NodePersist(h)
  <2>1. [DocOf(h) EXCEPT !.status = "running", !.approval = NoHandle] \in DocRecord
      BY <1>2, <1>3 DEF DocRecord
  <2>2. doc' \in [Executions -> DocRecord]
      BY <1>5, <1>17, <2>1 DEF NodePersist
  <2>3. TypeOK'
      BY <1>17, <2>2 DEF NodePersist, pool, Typed, TypeOK
  <2> QED BY <1>17, <2>3 DEF NodePersist, pool, Typed, HandlesBuilt, RequestsBuilt, QueuesBuilt, BootQuiet
<1> QED BY <1>7, <1>8, <1>9, <1>10, <1>11, <1>12, <1>13, <1>14, <1>15, <1>16, <1>17 DEF WorkerStep

-----------------------------------------------------------------------------
(* Request steps.                                                           *)

\* A request step on thread r keeps the threads well formed if its new state is.
LEMMA RequestKeeps ==
    ASSUME Typed, NEW r \in Requests, NEW q \in RequestRecord,
           request' = [request EXCEPT ![r] = q],
           q.pc # "idle" => q.exec \in Executions,
           q.pc \in {"register", "enqueue", "resume_register", "resume_spawn"} => q.handle \in 1..issued',
           issued' \in {issued, issued + 1}
    PROVE  request' \in [Requests -> RequestRecord] /\ RequestsBuilt'
<1>1. request \in [Requests -> RequestRecord] /\ issued \in Nat
    BY BoundsAssumption DEF Typed, TypeOK
<1> QED BY <1>1 DEF Typed, RequestsBuilt

\* The same when neither the handles nor the pool change.
LEMMA ThreadEffect ==
    ASSUME Typed, phase = "up", NEW r \in Requests, NEW q \in RequestRecord,
           request' = [request EXCEPT ![r] = q],
           q.pc # "idle" => q.exec \in Executions,
           q.pc \in {"register", "enqueue", "resume_register", "resume_spawn"} => q.handle \in 1..issued,
           doc' \in [Executions -> DocRecord],
           checkpoints' \in [Handles -> {"none", "awaiting", "approved", "rejected", "expired"}],
           active' \in [Executions -> Handles \cup {NoHandle}],
           calls' \in 0..MaxCalls,
           UNCHANGED <<handle, issued, pool, projectLock, phase, crashes>>
    PROVE  Typed'
<1>1. request' \in [Requests -> RequestRecord] /\ RequestsBuilt'
    BY RequestKeeps
<1>2. TypeOK'
    BY <1>1 DEF Typed, TypeOK, pool
<1> QED BY <1>1, <1>2 DEF Typed, HandlesBuilt, QueuesBuilt, BootQuiet, pool

\* The states a request can be put in.
LEMMA ThreadStates ==
    /\ Idle \in RequestRecord /\ Idle.pc = "idle"
    /\ \A q \in RequestRecord, c \in RequestPcs :
         LET n == [q EXCEPT !.pc = c]
         IN  n \in RequestRecord /\ n.pc = c /\ n.exec = q.exec /\ n.handle = q.handle
    /\ \A q \in RequestRecord, c \in RequestPcs, h \in Handles :
         LET n == [q EXCEPT !.pc = c, !.handle = h]
         IN  n \in RequestRecord /\ n.pc = c /\ n.exec = q.exec /\ n.handle = h
<1>1. "idle" \in RequestPcs
    BY DEF RequestPcs
<1> QED BY <1>1 DEF Idle, RequestRecord

\* A request that only moves on, or begins, or returns, keeps the invariant.
LEMMA ThreadTyped ==
    ASSUME Typed, phase = "up", NEW r \in Requests,
           \/ \E e \in Executions : StopRead(r, e) \/ PauseRead(r, e) \/ ResumeRead(r, e)
                                    \/ ApproveRead(r, e) \/ RejectRead(r, e)
           \/ Register(r) \/ ResumeRegister(r) \/ Settle(r) \/ Cleanup(r)
           \/ CancelPaused(r) \/ CancelMirror(r)
           \/ ApproveExpire(r) \/ ApproveDecide(r) \/ RejectDecide(r) \/ CancelDecide(r)
    PROVE  Typed'
<1>1. /\ doc \in [Executions -> DocRecord]
      /\ checkpoints \in [Handles -> {"none", "awaiting", "approved", "rejected", "expired"}]
      /\ active \in [Executions -> Handles \cup {NoHandle}]
      /\ request[r] \in RequestRecord
      /\ calls \in 0..MaxCalls /\ calls \in Nat /\ issued \in Nat /\ MaxCalls \in Nat
      /\ issued <= MaxCalls
    BY BoundsAssumption DEF Typed, TypeOK
<1>2. /\ request[r].handle \in Handles \cup {NoHandle}
      /\ request[r].checkpoint \in Handles \cup {NoHandle}
      /\ request[r].target \in {"none"} \cup Terminal
    BY <1>1 DEF RequestRecord, Terminal
<1>3. {"idle", "enqueue", "signal", "pause_signal", "resume_save", "resume_spawn", "approve_expire",
       "approve_decide", "approve_save", "reject_decide", "cancel_decide", "settle", "cleanup",
       "cancel_paused", "cancel_mirror", "cancel_release"} \subseteq RequestPcs
    BY DEF RequestPcs
<1>4. /\ {"none"} \cup Terminal \cup Durable \subseteq ExecStatuses
      /\ "cancelled" \in Terminal
      /\ {"pending", "running", "cancelled"} \subseteq QueueStatuses
    BY DEF ExecStatuses, QueueStatuses, Terminal, Durable
<1>5. \A e \in Executions : StopPath(doc[e].status) \in {"cancel_decide", "cancel_paused", "signal"}
    BY DEF StopPath
<1>6. \A e \in Executions : doc[e].approval \in Handles \cup {NoHandle}
    BY <1>1 DEF DocRecord
\* A step that begins a request, in a state that needs no handle.
<1>7. ASSUME NEW q \in RequestRecord, q.pc # "idle" => q.exec \in Executions,
             q.pc \notin {"register", "enqueue", "resume_register", "resume_spawn"},
             calls < MaxCalls, calls' = calls + 1, request' = [request EXCEPT ![r] = q],
             UNCHANGED <<doc, checkpoints, handle, issued, active, pool, projectLock, phase, crashes>>
      PROVE  Typed'
  <2>1. calls' \in 0..MaxCalls
      BY <1>1, <1>7
  <2>2. /\ doc' \in [Executions -> DocRecord]
        /\ checkpoints' \in [Handles -> {"none", "awaiting", "approved", "rejected", "expired"}]
        /\ active' \in [Executions -> Handles \cup {NoHandle}]
      BY <1>1, <1>7
  <2> QED BY <1>7, <2>1, <2>2, ThreadEffect
\* A step that carries a request on to c.
<1>8. ASSUME NEW c \in RequestPcs, Goto(r, c), request[r].pc # "idle",
             c \notin {"register", "resume_register"},
             c = "enqueue" => request[r].pc = "register",
             c = "resume_spawn" => request[r].pc = "resume_register",
             doc' \in [Executions -> DocRecord],
             checkpoints' \in [Handles -> {"none", "awaiting", "approved", "rejected", "expired"}],
             active' \in [Executions -> Handles \cup {NoHandle}],
             UNCHANGED <<handle, issued, pool, projectLock, calls, phase, crashes>>
      PROVE  Typed'
  <2> DEFINE q == [request[r] EXCEPT !.pc = c]
  <2>1. q \in RequestRecord /\ q.pc = c /\ q.exec = request[r].exec /\ q.handle = request[r].handle
      BY <1>1, ThreadStates
  <2>2. request' = [request EXCEPT ![r] = q]
      BY <1>8 DEF Goto
  <2>3. q.exec \in Executions
      BY <1>8, <2>1 DEF Typed, RequestsBuilt
  <2>4. q.pc \in {"register", "enqueue", "resume_register", "resume_spawn"} => q.handle \in 1..issued
      BY <1>8, <2>1 DEF Typed, RequestsBuilt
  <2>5. calls' \in 0..MaxCalls
      BY <1>1, <1>8
  <2> QED BY <1>8, <2>1, <2>2, <2>3, <2>4, <2>5, ThreadEffect
\* A step that ends a request.
<1>9. ASSUME Return(r),
             doc' \in [Executions -> DocRecord],
             checkpoints' \in [Handles -> {"none", "awaiting", "approved", "rejected", "expired"}],
             active' \in [Executions -> Handles \cup {NoHandle}],
             UNCHANGED <<handle, issued, pool, projectLock, calls, phase, crashes>>
      PROVE  Typed'
  <2>1. Idle \in RequestRecord /\ Idle.pc = "idle" /\ calls' \in 0..MaxCalls
      BY <1>1, <1>9, ThreadStates
  <2>2. request' = [request EXCEPT ![r] = Idle]
      BY <1>9 DEF Return
  <2> QED BY <1>9, <2>1, <2>2, ThreadEffect
<1>10. CASE \E e \in Executions : StopRead(r, e) \/ ApproveRead(r, e) \/ RejectRead(r, e)
  <2>1. PICK e \in Executions, c \in RequestPcs \ {"idle", "register", "enqueue", "resume_register", "resume_spawn"},
             t \in {"failed", "cancelled"} :
          /\ request' = [request EXCEPT ![r] = [Idle EXCEPT !.pc = c, !.exec = e,
                                                  !.checkpoint = doc[e].approval, !.target = t]]
          /\ calls < MaxCalls /\ calls' = calls + 1
          /\ UNCHANGED <<doc, checkpoints, handle, issued, active, pool, projectLock, phase, crashes>>
      BY <1>3, <1>5, <1>10 DEF StopRead, ApproveRead, RejectRead, DecisionRead, Enter
  <2> DEFINE q == [Idle EXCEPT !.pc = c, !.exec = e, !.checkpoint = doc[e].approval, !.target = t]
  <2>2. c \in RequestPcs /\ doc[e].approval \in Handles \cup {NoHandle}
      BY <1>6
  <2>3. q \in RequestRecord /\ q.pc = c /\ q.exec = e
      BY <2>2 DEF RequestRecord, Idle
  <2> QED BY <1>7, <2>1, <2>3
<1>11. CASE \E e \in Executions : PauseRead(r, e) \/ ResumeRead(r, e)
  <2>1. PICK e \in Executions, c \in {"pause_signal", "resume_save"} :
          /\ request' = [request EXCEPT ![r] = [Idle EXCEPT !.pc = c, !.exec = e]]
          /\ calls < MaxCalls /\ calls' = calls + 1
          /\ UNCHANGED <<doc, checkpoints, handle, issued, active, pool, projectLock, phase, crashes>>
      BY <1>11 DEF PauseRead, ResumeRead, Enter
  <2> DEFINE q == [Idle EXCEPT !.pc = c, !.exec = e]
  <2>2. c \in RequestPcs
      BY <1>3
  <2>3. q \in RequestRecord /\ q.pc = c /\ q.exec = e
      BY <2>2 DEF RequestRecord, Idle
  <2> QED BY <1>7, <2>1, <2>3
\* What the steps write to the document of the request's execution is well typed.
<1>12. ASSUME NEW d \in DocRecord, SaveDoc(request[r].exec, d)
       PROVE  doc' \in [Executions -> DocRecord]
    BY <1>1, <1>12, SaveDocTyped
<1>13. request[r].pc # "idle" => request[r].exec \in Executions /\ DocFor(r) \in DocRecord
    BY <1>1 DEF Typed, RequestsBuilt, DocFor
<1>14. CASE Register(r) \/ ResumeRegister(r)
  <2>1. PICK s \in {"pending", "running"} : SaveDoc(request[r].exec, [DocFor(r) EXCEPT !.queue = s])
      BY <1>14 DEF Register, ResumeRegister
  <2>2. request[r].pc \in {"register", "resume_register"}
      BY <1>14 DEF Register, ResumeRegister, At
  <2>3. [DocFor(r) EXCEPT !.queue = s] \in DocRecord
      BY <1>4, <1>13, <2>2 DEF DocRecord
  <2>4. doc' \in [Executions -> DocRecord]
      BY <1>12, <2>1, <2>3
  <2>5. active' \in [Executions -> Handles \cup {NoHandle}]
      BY <1>1, <1>2, <1>14 DEF Register, ResumeRegister
  <2>6. CASE Register(r)
      BY <1>1, <1>3, <1>8, <2>4, <2>5, <2>6 DEF Register, At
  <2>7. CASE ResumeRegister(r)
      BY <1>1, <1>3, <1>8, <2>4, <2>5, <2>7 DEF ResumeRegister, At
  <2> QED BY <1>14, <2>6, <2>7
<1>15. CASE Settle(r)
  <2>1. request[r].pc = "settle"
      BY <1>15 DEF Settle, At
  <2>2. [DocFor(r) EXCEPT !.status = request[r].target, !.approval = request[r].checkpoint] \in DocRecord
      BY <1>2, <1>4, <1>13, <2>1 DEF DocRecord
  <2>3. doc' \in [Executions -> DocRecord]
      BY <1>12, <1>15, <2>2 DEF Settle
  <2> QED BY <1>1, <1>3, <1>8, <1>15, <2>1, <2>3 DEF Settle
<1>16. CASE Cleanup(r)
  <2>1. request[r].pc = "cleanup"
      BY <1>16 DEF Cleanup, At
  <2>2. [DocFor(r) EXCEPT !.resume = NoHandle] \in DocRecord
      BY <1>13, <2>1 DEF DocRecord
  <2>3. doc' \in [Executions -> DocRecord]
      BY <1>12, <1>16, <2>2 DEF Cleanup
  <2>4. active' \in [Executions -> Handles \cup {NoHandle}]
      BY <1>1, <1>16 DEF Cleanup
  <2> QED BY <1>1, <1>9, <1>16, <2>3, <2>4 DEF Cleanup
<1>17. CASE CancelPaused(r)
  <2>1. request[r].pc = "cancel_paused"
      BY <1>17 DEF CancelPaused, At
  <2>2. [DocFor(r) EXCEPT !.status = "cancelled", !.approval = NoHandle] \in DocRecord
      BY <1>4, <1>13, <2>1 DEF DocRecord
  <2>3. doc' \in [Executions -> DocRecord]
      BY <1>12, <1>17, <2>2 DEF CancelPaused
  <2> QED BY <1>1, <1>3, <1>8, <1>17, <2>1, <2>3 DEF CancelPaused
<1>18. CASE CancelMirror(r)
  <2>1. request[r].pc = "cancel_mirror"
      BY <1>18 DEF CancelMirror, At
  <2>2. [DocFor(r) EXCEPT !.queue = "cancelled", !.resume = NoHandle] \in DocRecord
      BY <1>4, <1>13, <2>1 DEF DocRecord
  <2>3. doc' \in [Executions -> DocRecord]
      BY <1>12, <1>18, <2>2 DEF CancelMirror
  <2>4. active' \in [Executions -> Handles \cup {NoHandle}]
      BY <1>1, <1>18 DEF CancelMirror
  <2> QED BY <1>1, <1>3, <1>8, <1>18, <2>1, <2>3, <2>4 DEF CancelMirror
<1>19. CASE ApproveExpire(r) \/ ApproveDecide(r) \/ RejectDecide(r) \/ CancelDecide(r)
  <2>1. /\ request[r].pc # "idle"
        /\ UNCHANGED <<doc, handle, issued, active, pool, projectLock, calls, phase, crashes>>
      BY <1>19 DEF ApproveExpire, ApproveDecide, RejectDecide, CancelDecide, At
  <2>2. doc' \in [Executions -> DocRecord] /\ active' \in [Executions -> Handles \cup {NoHandle}]
      BY <1>1, <2>1
  <2>3. \/ UNCHANGED checkpoints /\ Return(r)
        \/ \E c \in {"settle", "approve_decide"} : UNCHANGED checkpoints /\ Goto(r, c)
        \/ \E s \in {"approved", "rejected", "expired"}, c \in {"settle", "approve_save"} : Decide(r, s, c)
      BY <1>19 DEF ApproveExpire, ApproveDecide, RejectDecide, CancelDecide
  <2>4. CASE UNCHANGED checkpoints /\ Return(r)
      BY <1>1, <1>9, <2>1, <2>2, <2>4
  <2>5. ASSUME NEW c \in {"settle", "approve_decide"}, UNCHANGED checkpoints, Goto(r, c)
        PROVE  Typed'
      BY <1>1, <1>3, <1>8, <2>1, <2>2, <2>5
  <2>6. ASSUME NEW s \in {"approved", "rejected", "expired"}, NEW c \in {"settle", "approve_save"}, Decide(r, s, c)
        PROVE  Typed'
    <3>1. checkpoints' \in [Handles -> {"none", "awaiting", "approved", "rejected", "expired"}]
        BY <1>1, <2>6 DEF Decide
    <3> QED BY <1>3, <1>8, <2>1, <2>2, <2>6, <3>1 DEF Decide
  <2> QED BY <2>3, <2>4, <2>5, <2>6
<1> QED BY <1>10, <1>11, <1>14, <1>15, <1>16, <1>17, <1>18, <1>19

\* A step that builds a handle keeps the invariant.
LEMMA BuildTyped ==
    ASSUME Typed, phase = "up", NEW r \in Requests,
           (\E e \in Executions : Start(r, e)) \/ ResumeSave(r) \/ ApproveSave(r)
    PROVE  Typed'
<1>1. /\ doc \in [Executions -> DocRecord]
      /\ handle \in [Handles -> HandleRecord]
      /\ request[r] \in RequestRecord
      /\ calls \in 0..MaxCalls /\ calls \in Nat /\ issued \in Nat /\ MaxCalls \in Nat
    BY BoundsAssumption DEF Typed, TypeOK
<1>2. {"queued"} \subseteq ExecStatuses /\ {"pending", "running"} \subseteq QueueStatuses
    BY DEF ExecStatuses, QueueStatuses
\* The new handle, the document, and the thread that goes on with the handle.
<1>3. ASSUME NEW e \in Executions, NEW s \in QueueStatuses, NEW k \in Handles \cup {NoHandle}, NewHandle(e, s, k),
             NEW d \in DocRecord, SaveDoc(e, d), NEW q \in RequestRecord, q.exec = e, q.handle = issued + 1,
             request' = [request EXCEPT ![r] = q], calls' \in 0..MaxCalls,
             UNCHANGED <<checkpoints, active, pool, projectLock, phase, crashes>>
      PROVE  Typed'
  <2> DEFINE g == [exec |-> e, rec |-> "queued", qrec |-> s, stop |-> FALSE,
                   pause |-> FALSE, pc |-> "idle", from |-> k]
  <2>1. /\ g \in HandleRecord /\ g.exec \in Executions /\ g.pc = "idle"
      BY <1>2, <1>3 DEF HandleRecord
  <2>2. issued < MaxCalls /\ issued' = issued + 1 /\ handle' = [handle EXCEPT ![issued + 1] = g]
      BY <1>3 DEF NewHandle
  <2> HIDE DEF g
  <2>3. handle' \in [Handles -> HandleRecord] /\ issued' \in 0..MaxCalls /\ issued' \in Nat
      BY <1>1, <2>1, <2>2
  <2>4. HandlesBuilt'
      BY <1>1, <2>1, <2>2 DEF HandlesBuilt, Typed
  <2>5. doc' \in [Executions -> DocRecord]
      BY <1>1, <1>3, SaveDocTyped
  <2>6. request' \in [Requests -> RequestRecord] /\ RequestsBuilt'
    <3>1. issued' \in {issued, issued + 1} /\ q.handle \in 1..issued'
        BY <1>1, <1>3, <2>2
    <3> QED BY <1>3, <3>1, RequestKeeps
  <2>7. TypeOK'
      BY <1>3, <2>3, <2>5, <2>6 DEF TypeOK, Typed, pool
  <2>8. QueuesBuilt'
    <3>1. projectQueues \in [Projects -> Seq(Handles)] /\ projectQueues' = projectQueues
        BY <1>3 DEF Typed, TypeOK, pool
    <3>2. ASSUME NEW p \in Projects, NEW i \in DOMAIN projectQueues[p]
          PROVE  projectQueues[p][i] <= issued'
      <4>1. projectQueues[p] \in Seq(Handles)
          BY <3>1
      <4>2. projectQueues[p][i] \in Nat
          BY <1>1, <4>1
      <4> QED BY <1>1, <2>2, <4>2 DEF QueuesBuilt, Typed
    <3> QED BY <3>1, <3>2 DEF QueuesBuilt
  <2>9. BootQuiet'
      BY <1>3 DEF BootQuiet, Typed, pool
  <2> QED BY <2>4, <2>6, <2>7, <2>8, <2>9 DEF Typed
<1>4. CASE \E e \in Executions : Start(r, e)
  <2>1. PICK e \in Executions : Start(r, e)
      BY <1>4
  <2> DEFINE q == [Idle EXCEPT !.pc = "register", !.exec = e, !.handle = issued + 1]
  <2>2. issued + 1 \in Handles
    <3>1. issued < MaxCalls
        BY <2>1 DEF Start, NewHandle
    <3> QED BY <1>1, <3>1
  <2>3. q \in RequestRecord /\ q.exec = e /\ q.handle = issued + 1
      BY <2>2 DEF RequestRecord, RequestPcs, Idle
  <2>4. [doc[e] EXCEPT !.status = "queued"] \in DocRecord
      BY <1>1, <1>2 DEF DocRecord
  <2>5. request' = [request EXCEPT ![r] = q] /\ calls' \in 0..MaxCalls
    <3>1. request' = [request EXCEPT ![r] = q] /\ calls < MaxCalls /\ calls' = calls + 1
        BY <2>1 DEF Start, Enter
    <3> QED BY <1>1, <3>1
  <2> HIDE DEF q
  <2> QED BY <1>2, <1>3, <2>1, <2>3, <2>4, <2>5 DEF Start
<1>5. CASE ResumeSave(r)
  <2> DEFINE e == request[r].exec
             q == [request[r] EXCEPT !.pc = "resume_register", !.handle = issued + 1]
  <2>1. e \in Executions
      BY <1>5 DEF Typed, RequestsBuilt, ResumeSave, At
  <2>2. issued + 1 \in Handles
      BY <1>1, <1>5 DEF ResumeSave, NewHandle
  <2>3. q \in RequestRecord /\ q.exec = e /\ q.handle = issued + 1
      BY <1>1, <2>2 DEF RequestRecord, RequestPcs
  <2>4. [doc[e] EXCEPT !.status = "queued", !.approval = NoHandle] \in DocRecord
      BY <1>1, <1>2, <2>1 DEF DocRecord
  <2>5. request' = [request EXCEPT ![r] = q] /\ calls' \in 0..MaxCalls
      BY <1>1, <1>5 DEF ResumeSave
  <2> HIDE DEF q
  <2> QED BY <1>2, <1>3, <1>5, <2>1, <2>3, <2>4, <2>5 DEF ResumeSave
<1>6. CASE ApproveSave(r)
  <2> DEFINE e == request[r].exec
             k == request[r].checkpoint
             q == [request[r] EXCEPT !.pc = "register", !.handle = issued + 1]
  <2>1. e \in Executions /\ k \in Handles \cup {NoHandle}
      BY <1>1, <1>6 DEF Typed, RequestsBuilt, ApproveSave, At, RequestRecord
  <2>2. [doc[e] EXCEPT !.status = "queued", !.approval = k] \in DocRecord
      BY <1>1, <1>2, <2>1 DEF DocRecord
  <2>3. calls' \in 0..MaxCalls /\ UNCHANGED <<checkpoints, active, pool, projectLock, calls, phase, crashes>>
      BY <1>1, <1>6 DEF ApproveSave
  <2>4. CASE /\ NewHandle(e, "pending", k)
             /\ SaveDoc(e, [doc[e] EXCEPT !.status = "queued", !.approval = k])
             /\ request' = [request EXCEPT ![r] = q]
    <3>1. issued + 1 \in Handles
        BY <1>1, <2>4 DEF NewHandle
    <3>2. q \in RequestRecord /\ q.exec = e /\ q.handle = issued + 1
        BY <1>1, <3>1 DEF RequestRecord, RequestPcs
    <3> HIDE DEF q
    <3> QED BY <1>2, <1>3, <2>1, <2>2, <2>3, <2>4, <3>2
  <2>5. CASE Return(r) /\ UNCHANGED <<doc, handle, issued>>
    <3>1. Idle \in RequestRecord /\ Idle.pc = "idle" /\ request' = [request EXCEPT ![r] = Idle]
        BY <2>5, ThreadStates DEF Return
    <3>2. /\ doc' \in [Executions -> DocRecord]
          /\ checkpoints' \in [Handles -> {"none", "awaiting", "approved", "rejected", "expired"}]
          /\ active' \in [Executions -> Handles \cup {NoHandle}]
        BY <2>3, <2>5 DEF Typed, TypeOK
    <3> QED BY <2>3, <2>5, <3>1, <3>2, ThreadEffect
  <2> QED BY <1>6, <2>4, <2>5 DEF ApproveSave
<1> QED BY <1>4, <1>5, <1>6

\* A signal to a handle keeps the invariant.
LEMMA SignalTyped ==
    ASSUME Typed, phase = "up", NEW r \in Requests,
           (\E e \in Executions : CancelQueued(r, e)) \/ StopSignal(r) \/ PauseSignal(r)
    PROVE  Typed'
<1>1. /\ doc \in [Executions -> DocRecord]
      /\ handle \in [Handles -> HandleRecord]
      /\ active \in [Executions -> Handles \cup {NoHandle}]
      /\ request[r] \in RequestRecord
      /\ calls \in 0..MaxCalls /\ calls \in Nat /\ issued \in Nat /\ MaxCalls \in Nat
    BY BoundsAssumption DEF Typed, TypeOK
<1>2. "cancelled" \in ExecStatuses /\ "cancelled" \in QueueStatuses /\ "cancelled" \in Terminal
    BY DEF ExecStatuses, QueueStatuses, Terminal
\* A handle that keeps its execution, its place, and is not put back into the queue.
<1>3. ASSUME \/ UNCHANGED handle
             \/ \E h \in Handles, g \in HandleRecord :
                  /\ SetHandle(h, g) /\ g.exec = handle[h].exec /\ g.pc = handle[h].pc
                  /\ g.qrec \in {handle[h].qrec, "cancelled"} /\ g.rec \in {handle[h].rec, "cancelled"},
             doc' \in [Executions -> DocRecord], calls' \in 0..MaxCalls,
             request' = [request EXCEPT ![r] = Idle],
             UNCHANGED <<checkpoints, issued, active, pool, projectLock, phase, crashes>>
      PROVE  Typed'
  <2>1. handle' \in [Handles -> HandleRecord]
      BY <1>1, <1>3 DEF SetHandle
  <2>2. HandlesBuilt'
      BY <1>1, <1>2, <1>3 DEF SetHandle, HandlesBuilt, Typed
  <2>3. Idle \in RequestRecord /\ Idle.pc = "idle"
      BY ThreadStates
  <2>4. request' \in [Requests -> RequestRecord] /\ RequestsBuilt'
      BY <1>3, <2>3, RequestKeeps
  <2>5. TypeOK'
      BY <1>3, <2>1, <2>4 DEF TypeOK, Typed, pool
  <2>6. QueuesBuilt' /\ BootQuiet'
      BY <1>3 DEF QueuesBuilt, BootQuiet, Typed, pool
  <2> QED BY <2>2, <2>4, <2>5, <2>6 DEF Typed
\* The withdrawal of a pending run.
<1>4. ASSUME NEW h \in Handles, CancelPending(h)
      PROVE  /\ doc' \in [Executions -> DocRecord]
             /\ \E g \in HandleRecord :
                  /\ SetHandle(h, g) /\ g.exec = handle[h].exec /\ g.pc = handle[h].pc
                  /\ g.qrec \in {handle[h].qrec, "cancelled"} /\ g.rec \in {handle[h].rec, "cancelled"}
  <2> DEFINE g == [handle[h] EXCEPT !.stop = TRUE, !.qrec = "cancelled", !.rec = "cancelled"]
  <2>1. handle[h] \in HandleRecord
      BY <1>1
  <2>2. /\ g \in HandleRecord /\ g.exec = handle[h].exec /\ g.pc = handle[h].pc
        /\ g.qrec = "cancelled" /\ g.rec = "cancelled"
      BY <1>2, <2>1 DEF HandleRecord
  <2>3. handle[h].exec \in Executions
      BY <1>1, <1>4 DEF CancelPending, HandlesBuilt, Typed
  <2>4. handle[h].from \in Handles \cup {NoHandle} /\ DocOf(h) \in DocRecord
      BY <1>1, <2>1, <2>3 DEF HandleRecord, DocOf
  <2>5. [DocOf(h) EXCEPT !.queue = "cancelled", !.status = "cancelled", !.approval = handle[h].from] \in DocRecord
      BY <1>2, <2>4 DEF DocRecord
  <2>6. doc' \in [Executions -> DocRecord]
      BY <1>1, <1>4, <2>5, SaveDocTyped DEF CancelPending
  <2>7. SetHandle(h, g)
      BY <1>4 DEF CancelPending
  <2> HIDE DEF g
  <2> QED BY <2>2, <2>6, <2>7
<1>5. CASE \E e \in Executions : CancelQueued(r, e)
  <2>1. PICK e \in Executions : CancelQueued(r, e)
      BY <1>5
  <2>2. active[e] \in Handles /\ CancelPending(active[e])
      BY <1>1, <2>1 DEF CancelQueued
  <2>3. calls' \in 0..MaxCalls /\ request' = [request EXCEPT ![r] = Idle]
      BY <1>1, <2>1 DEF CancelQueued, Enter
  <2> QED BY <1>3, <1>4, <2>1, <2>2, <2>3 DEF CancelQueued
<1>6. CASE StopSignal(r)
  <2> DEFINE h == active[request[r].exec]
  <2>1. request[r].exec \in Executions /\ h \in Handles \cup {NoHandle}
      BY <1>1, <1>6 DEF StopSignal, At, Typed, RequestsBuilt
  <2>2. /\ calls' \in 0..MaxCalls /\ request' = [request EXCEPT ![r] = Idle]
        /\ UNCHANGED <<checkpoints, issued, active, pool, projectLock, phase, crashes>>
      BY <1>1, <1>6 DEF StopSignal, Return
  <2>3. CASE UNCHANGED <<handle, doc>>
      BY <1>1, <1>3, <2>2, <2>3
  <2>4. CASE h # NoHandle /\ CancelPending(h)
      BY <1>3, <1>4, <2>1, <2>2, <2>4
  <2>5. CASE h # NoHandle /\ SetHandle(h, [handle[h] EXCEPT !.stop = TRUE]) /\ UNCHANGED doc
    <3> DEFINE g == [handle[h] EXCEPT !.stop = TRUE]
    <3>1. handle[h] \in HandleRecord /\ h \in Handles
        BY <1>1, <2>1, <2>5
    <3>2. /\ g \in HandleRecord /\ g.exec = handle[h].exec /\ g.pc = handle[h].pc
          /\ g.qrec = handle[h].qrec /\ g.rec = handle[h].rec
        BY <3>1 DEF HandleRecord
    <3>3. SetHandle(h, g)
        BY <2>5
    <3> HIDE DEF g
    <3> QED BY <1>1, <1>3, <2>2, <2>5, <3>1, <3>2, <3>3
  <2> QED BY <1>6, <2>3, <2>4, <2>5 DEF StopSignal
<1>7. CASE PauseSignal(r)
  <2> DEFINE h == active[request[r].exec]
  <2>1. request[r].exec \in Executions /\ h \in Handles \cup {NoHandle}
      BY <1>1, <1>7 DEF PauseSignal, At, Typed, RequestsBuilt
  <2>2. /\ calls' \in 0..MaxCalls /\ request' = [request EXCEPT ![r] = Idle] /\ UNCHANGED doc
        /\ UNCHANGED <<checkpoints, issued, active, pool, projectLock, phase, crashes>>
      BY <1>1, <1>7 DEF PauseSignal, Return
  <2>3. CASE UNCHANGED handle
      BY <1>1, <1>3, <2>2, <2>3
  <2>4. CASE h # NoHandle /\ SetHandle(h, [handle[h] EXCEPT !.pause = TRUE])
    <3> DEFINE g == [handle[h] EXCEPT !.pause = TRUE]
    <3>1. handle[h] \in HandleRecord /\ h \in Handles
        BY <1>1, <2>1, <2>4
    <3>2. /\ g \in HandleRecord /\ g.exec = handle[h].exec /\ g.pc = handle[h].pc
          /\ g.qrec = handle[h].qrec /\ g.rec = handle[h].rec
        BY <3>1 DEF HandleRecord
    <3>3. SetHandle(h, g)
        BY <2>4
    <3> HIDE DEF g
    <3> QED BY <1>1, <1>3, <2>2, <3>1, <3>2, <3>3
  <2> QED BY <1>7, <2>3, <2>4 DEF PauseSignal
<1> QED BY <1>5, <1>6, <1>7

-----------------------------------------------------------------------------
(* Pool steps.                                                              *)

\* _mark_ready_locked keeps the rotation a sequence of projects.
LEMMA MarkReadyTyped ==
    ASSUME readyProjects \in Seq(Projects), NEW p \in Projects, NEW queued, NEW occupied
    PROVE  MarkReady(p, queued, occupied) \in Seq(Projects)
BY DEF MarkReady

\* The end of _pool_worker keeps the pool counters and sets in their types.
LEMMA ReleaseTyped ==
    ASSUME Typed, NEW p \in Projects, ReleaseSlot(p)
    PROVE  /\ projectQueues' = projectQueues /\ dispatching' \in BOOLEAN
           /\ readyProjects' \in Seq(Projects)
           /\ runningProjects' \subseteq Projects
           /\ runningCount' \in Nat
BY MarkReadyTyped DEF ReleaseSlot, Typed, TypeOK

\* A pool thread that ends keeps the invariant.
LEMMA ExitTyped ==
    ASSUME Typed, phase = "up", NEW h \in Handles, ExitPaused(h) \/ ExitReleased(h)
    PROVE  Typed'
<1> DEFINE g == [handle[h] EXCEPT !.pc = "idle"]
<1>1. handle \in [Handles -> HandleRecord] /\ handle[h] \in HandleRecord
    BY DEF Typed, TypeOK
<1>2. handle[h].pc = "exit"
    BY DEF ExitPaused, ExitReleased, WorkerAt
<1>3. handle[h].exec \in Executions /\ ProjectFor(h) \in Projects
  <2>1. h <= issued
      BY <1>2, BoundsAssumption DEF Typed, TypeOK, HandlesBuilt
  <2> QED BY <2>1, ProjectOfAssumption DEF Typed, HandlesBuilt, ProjectFor
<1>4. g \in HandleRecord /\ g.exec = handle[h].exec /\ g.pc = "idle" /\ g.qrec = handle[h].qrec
    BY <1>1 DEF HandleRecord
<1>5. SetHandle(h, g)
    BY DEF ExitPaused, ExitReleased, Step
<1> HIDE DEF g
<1>6. handle' \in [Handles -> HandleRecord]
    BY <1>1, <1>4, <1>5 DEF SetHandle
<1>7. UNCHANGED <<doc, checkpoints, issued, active, projectLock, request, calls, phase, crashes>>
    BY DEF ExitPaused, ExitReleased
<1>8. HandlesBuilt'
    BY <1>1, <1>4, <1>5, <1>7 DEF HandlesBuilt, Typed, SetHandle
<1>9. RequestsBuilt' /\ BootQuiet'
    BY <1>7 DEF RequestsBuilt, BootQuiet, Typed
<1>10. /\ projectQueues' = projectQueues /\ dispatching' \in BOOLEAN
       /\ readyProjects' \in Seq(Projects)
       /\ runningProjects' \subseteq Projects
       /\ runningCount' \in Nat
       /\ pausedReservations' \subseteq Executions
  <2>1. CASE ExitPaused(h)
      BY <1>3, <2>1 DEF ExitPaused, Typed, TypeOK
  <2>2. CASE ExitReleased(h)
      BY <1>3, <2>2, ReleaseTyped DEF ExitReleased, Typed, TypeOK
  <2> QED BY <2>1, <2>2
<1>11. TypeOK'
    BY <1>6, <1>7, <1>10 DEF TypeOK, Typed
<1>12. QueuesBuilt'
    BY <1>7, <1>10 DEF QueuesBuilt, Typed
<1> QED BY <1>8, <1>9, <1>11, <1>12 DEF Typed

\* A request that spawns a pool thread, or gives a reservation back, does too.
LEMMA SlotTyped ==
    ASSUME Typed, phase = "up", NEW r \in Requests, ResumeSpawn(r) \/ CancelRelease(r)
    PROVE  Typed'
<1>1. /\ handle \in [Handles -> HandleRecord]
      /\ pausedReservations \subseteq Executions /\ runningProjects \subseteq Projects
      /\ runningCount \in Nat /\ issued \in Nat
    BY BoundsAssumption DEF Typed, TypeOK
<1>2. request[r].exec \in Executions /\ ProjectOf[request[r].exec] \in Projects
    BY ProjectOfAssumption DEF Typed, RequestsBuilt, ResumeSpawn, CancelRelease, At
<1>3. UNCHANGED <<doc, checkpoints, issued, active, projectLock, calls, phase, crashes>>
    BY DEF ResumeSpawn, CancelRelease
<1>4. request' \in [Requests -> RequestRecord] /\ RequestsBuilt'
  <2>1. Idle \in RequestRecord /\ Idle.pc = "idle" /\ request' = [request EXCEPT ![r] = Idle]
      BY ThreadStates DEF ResumeSpawn, CancelRelease, Return
  <2> QED BY <1>3, <2>1, RequestKeeps
<1>5. BootQuiet'
    BY <1>3 DEF BootQuiet
<1>6. CASE ResumeSpawn(r)
  <2> DEFINE h == request[r].handle
             g == [handle[h] EXCEPT !.pc = "starting"]
  <2>1. h \in 1..issued
      BY <1>6 DEF Typed, RequestsBuilt, ResumeSpawn, At
  <2>2. h \in Handles /\ h <= issued
      BY <2>1, BoundsAssumption DEF Typed, TypeOK
  <2>3. handle[h] \in HandleRecord
      BY <1>1, <2>2
  <2>4. g \in HandleRecord /\ g.exec = handle[h].exec /\ g.pc = "starting" /\ g.qrec = handle[h].qrec
      BY <2>3 DEF HandleRecord, WorkerPcs
  <2>5. SetHandle(h, g)
      BY <1>6 DEF ResumeSpawn, Step
  <2> HIDE DEF g
  <2>6. handle' \in [Handles -> HandleRecord]
      BY <1>1, <2>4, <2>5 DEF SetHandle
  <2>7. HandlesBuilt'
      BY <1>1, <1>3, <2>2, <2>4, <2>5 DEF HandlesBuilt, Typed, SetHandle
  <2>8. /\ projectQueues' = projectQueues /\ readyProjects' = readyProjects /\ dispatching' = dispatching
        /\ runningProjects' \subseteq Projects /\ runningCount' \in Nat /\ pausedReservations' \subseteq Executions
      BY <1>1, <1>2, <1>6 DEF ResumeSpawn
  <2>9. TypeOK'
      BY <1>3, <1>4, <2>6, <2>8 DEF TypeOK, Typed
  <2>10. QueuesBuilt'
      BY <1>3, <2>8 DEF QueuesBuilt, Typed
  <2> QED BY <1>4, <1>5, <2>7, <2>9, <2>10 DEF Typed
<1>7. CASE CancelRelease(r)
  <2>1. handle' = handle
      BY <1>7 DEF CancelRelease
  <2>2. /\ projectQueues' = projectQueues /\ dispatching' \in BOOLEAN
        /\ readyProjects' \in Seq(Projects)
        /\ runningProjects' \subseteq Projects
        /\ runningCount' \in Nat
        /\ pausedReservations' \subseteq Executions
    <3>1. CASE UNCHANGED pool
        BY <3>1 DEF pool, Typed, TypeOK
    <3>2. CASE ReleaseSlot(ProjectOf[request[r].exec]) /\ pausedReservations' = pausedReservations \ {request[r].exec}
        BY <1>1, <1>2, <3>2, ReleaseTyped
    <3> QED BY <1>7, <3>1, <3>2 DEF CancelRelease
  <2>3. TypeOK'
      BY <1>3, <1>4, <2>1, <2>2 DEF TypeOK, Typed
  <2>4. HandlesBuilt' /\ QueuesBuilt'
      BY <1>3, <2>1, <2>2 DEF HandlesBuilt, QueuesBuilt, Typed
  <2> QED BY <1>4, <1>5, <2>3, <2>4 DEF Typed
<1> QED BY <1>6, <1>7

\* A run that joins the queue of its project keeps the invariant.
LEMMA EnqueueTyped ==
    ASSUME Typed, phase = "up", NEW r \in Requests, Enqueue(r)
    PROVE  Typed'
<1> DEFINE h == request[r].handle
           p == ProjectFor(h)
<1>1. h \in 1..issued
    BY DEF Typed, RequestsBuilt, Enqueue, At
<1>2. h \in Handles /\ h <= issued /\ issued \in Nat
    BY <1>1, BoundsAssumption DEF Typed, TypeOK
<1>3. p \in Projects
    BY <1>2, ProjectOfAssumption DEF Typed, HandlesBuilt, ProjectFor
<1>4. projectQueues \in [Projects -> Seq(Handles)] /\ projectQueues' = [projectQueues EXCEPT ![p] = Append(@, h)]
    BY DEF Typed, TypeOK, Enqueue
<1>5. UNCHANGED <<doc, checkpoints, handle, issued, active, runningProjects, runningCount,
                  pausedReservations, projectLock, calls, phase, crashes>>
    BY DEF Enqueue
<1>6. readyProjects' \in Seq(Projects) /\ dispatching' \in BOOLEAN
    BY <1>3, MarkReadyTyped DEF Enqueue, Typed, TypeOK
<1>7. request' \in [Requests -> RequestRecord] /\ RequestsBuilt'
  <2>1. Idle \in RequestRecord /\ Idle.pc = "idle" /\ request' = [request EXCEPT ![r] = Idle]
      BY ThreadStates DEF Enqueue, Return
  <2> QED BY <1>5, <2>1, RequestKeeps
<1> HIDE DEF h, p
<1>8. projectQueues' \in [Projects -> Seq(Handles)]
    BY <1>2, <1>3, <1>4
<1>9. TypeOK'
    BY <1>5, <1>6, <1>7, <1>8 DEF TypeOK, Typed
<1>10. QueuesBuilt'
  <2> SUFFICES ASSUME NEW x \in Projects, NEW i \in DOMAIN projectQueues'[x]
               PROVE  projectQueues'[x][i] <= issued
      BY <1>5 DEF QueuesBuilt
  <2>1. projectQueues[x] \in Seq(Handles)
      BY <1>4
  <2>2. CASE x = p /\ i = Len(projectQueues[x]) + 1
      BY <1>2, <1>4, <2>1, <2>2
  <2>3. CASE ~(x = p /\ i = Len(projectQueues[x]) + 1)
    <3>1. i \in DOMAIN projectQueues[x] /\ projectQueues'[x][i] = projectQueues[x][i]
        BY <1>2, <1>3, <1>4, <2>1, <2>3
    <3> QED BY <3>1 DEF Typed, QueuesBuilt
  <2> QED BY <2>2, <2>3
<1>11. HandlesBuilt' /\ BootQuiet'
    BY <1>5 DEF HandlesBuilt, BootQuiet, Typed
<1> QED BY <1>7, <1>9, <1>10, <1>11 DEF Typed

\* The handle that is admitted was built, and lies in a queue of its own project's kind.
LEMMA QueuedHandle ==
    ASSUME Typed, NEW p \in Projects, NEW i \in DOMAIN projectQueues[p]
    PROVE  projectQueues[p][i] \in Handles /\ projectQueues[p][i] <= issued
<1>1. projectQueues[p] \in Seq(Handles)
    BY DEF Typed, TypeOK
<1>2. projectQueues[p][i] \in Handles
    BY <1>1, LenProperties, ElementOfSeq
<1> QED BY <1>2 DEF Typed, QueuesBuilt

\* What is left of a sequence once its first i elements are gone.
LEMMA Rest ==
    ASSUME NEW S, NEW s \in Seq(S), NEW i \in DOMAIN s
    PROVE  LET t == SubSeq(s, i + 1, Len(s))
           IN  t \in Seq(S) /\ \A k \in DOMAIN t : i + k \in DOMAIN s /\ t[k] = s[i + k]
<1> DEFINE t == SubSeq(s, i + 1, Len(s))
<1>1. Len(s) \in Nat /\ DOMAIN s = 1..Len(s) /\ i \in 1..Len(s)
    BY LenProperties
<1>2. i + 1 \in Int /\ Len(s) \in Int /\ \A k \in (i + 1)..Len(s) : s[k] \in S
    BY <1>1, ElementOfSeq
<1>3. /\ t \in Seq(S)
      /\ Len(t) = IF i + 1 <= Len(s) THEN Len(s) - (i + 1) + 1 ELSE 0
      /\ \A k \in 1..(Len(s) - (i + 1) + 1) : t[k] = s[i + 1 + k - 1]
    BY <1>2, SubSeqProperties
<1>4. DOMAIN t = 1..Len(t)
    BY <1>3, LenProperties
<1> HIDE DEF t
<1>5. \A k \in DOMAIN t : i + k \in DOMAIN s /\ t[k] = s[i + k]
    BY <1>1, <1>3, <1>4, SMTT(60)
<1> QED BY <1>3, <1>5 DEF t

\* A dispatch step keeps the invariant.
LEMMA DispatchTyped ==
    ASSUME Typed, Dispatch
    PROVE  Typed'
<1>1. phase = "up"
    BY DEF Typed, BootQuiet, Dispatch, DispatchNext, DispatchDone, TypeOK
<1>2. /\ doc \in [Executions -> DocRecord]
      /\ handle \in [Handles -> HandleRecord]
      /\ projectQueues \in [Projects -> Seq(Handles)]
      /\ readyProjects \in Seq(Projects)
      /\ runningProjects \subseteq Projects /\ runningCount \in Nat
      /\ issued \in Nat
    BY BoundsAssumption DEF Typed, TypeOK
<1>3. CASE DispatchDone
  <2>1. TypeOK'
      BY <1>3 DEF DispatchDone, Typed, TypeOK
  <2> QED BY <1>1, <1>3, <2>1 DEF DispatchDone, Typed, HandlesBuilt, RequestsBuilt, QueuesBuilt, BootQuiet
<1>4. CASE DispatchNext
  <2> DEFINE p == Head(readyProjects)
  <2>1. readyProjects # <<>>
      BY <1>4 DEF DispatchNext, HasRoom
  <2>2. p \in Projects /\ readyProjects' \in Seq(Projects)
      BY <1>2, <1>4, <2>1 DEF DispatchNext
  <2>3. UNCHANGED <<checkpoints, issued, active, pausedReservations, dispatching, projectLock,
                    request, calls, phase, crashes>>
      BY <1>4 DEF DispatchNext
  <2>4. RequestsBuilt' /\ BootQuiet'
      BY <1>1, <2>3 DEF RequestsBuilt, BootQuiet, Typed
  <2>5. \/ \E i \in DOMAIN projectQueues[p] : AdmitFirst(p, i)
        \/ /\ projectQueues' \in {projectQueues, [projectQueues EXCEPT ![p] = <<>>]}
           /\ UNCHANGED <<handle, doc, runningProjects, runningCount>>
      BY <1>4 DEF DispatchNext
  <2> HIDE DEF p
  <2>6. ASSUME NEW i \in DOMAIN projectQueues[p], AdmitFirst(p, i)
        PROVE  Typed'
    <3> DEFINE h == projectQueues[p][i]
               g == [handle[h] EXCEPT !.qrec = "running", !.rec = "running", !.pc = "starting"]
    <3>1. h \in Handles /\ h <= issued
        BY <2>2, QueuedHandle
    <3>2. projectQueues[p] \in Seq(Handles) /\ handle[h] \in HandleRecord
        BY <1>2, <2>2, <3>1
    <3>3. "running" \in QueueStatuses /\ "running" \in ExecStatuses /\ "starting" \in WorkerPcs
        BY DEF QueueStatuses, ExecStatuses, WorkerPcs
    <3>4. g \in HandleRecord /\ g.exec = handle[h].exec /\ g.pc = "starting" /\ g.qrec = "running"
        BY <3>2, <3>3 DEF HandleRecord
    <3>5. handle[h].exec \in Executions /\ handle[h].from \in Handles \cup {NoHandle}
        BY <3>1, <3>2 DEF Typed, HandlesBuilt, HandleRecord
    <3>6. [DocOf(h) EXCEPT !.queue = "running", !.status = "running", !.approval = handle[h].from] \in DocRecord
      <4>1. DocOf(h) \in DocRecord
          BY <1>2, <3>5 DEF DocOf
      <4> QED BY <3>3, <3>5, <4>1 DEF DocRecord
    <3>7. doc' \in [Executions -> DocRecord]
        BY <1>2, <2>6, <3>6, SaveDocTyped DEF AdmitFirst
    <3>8. SetHandle(h, g)
        BY <2>6 DEF AdmitFirst
    <3>9. /\ projectQueues' = [projectQueues EXCEPT ![p] = SubSeq(@, i + 1, Len(@))]
          /\ runningProjects' \subseteq Projects /\ runningCount' \in Nat
        BY <1>2, <2>2, <2>6 DEF AdmitFirst
    <3>10. /\ SubSeq(projectQueues[p], i + 1, Len(projectQueues[p])) \in Seq(Handles)
           /\ \A k \in DOMAIN SubSeq(projectQueues[p], i + 1, Len(projectQueues[p])) :
                /\ i + k \in DOMAIN projectQueues[p]
                /\ SubSeq(projectQueues[p], i + 1, Len(projectQueues[p]))[k] = projectQueues[p][i + k]
        BY <3>2, Rest
    <3> HIDE DEF g, h
    <3>11. handle' \in [Handles -> HandleRecord]
        BY <1>2, <3>4, <3>8 DEF SetHandle
    <3>12. HandlesBuilt'
        BY <1>2, <2>3, <3>1, <3>4, <3>8 DEF HandlesBuilt, Typed, SetHandle
    <3>13. projectQueues' \in [Projects -> Seq(Handles)]
        BY <1>2, <3>9, <3>10
    <3>14. QueuesBuilt'
        BY <1>2, <2>3, <3>9, <3>10 DEF QueuesBuilt, Typed
    <3>15. TypeOK'
        BY <2>2, <2>3, <3>7, <3>9, <3>11, <3>13 DEF TypeOK, Typed
    <3> QED BY <2>4, <3>12, <3>14, <3>15 DEF Typed
  <2>7. ASSUME projectQueues' \in {projectQueues, [projectQueues EXCEPT ![p] = <<>>]},
               UNCHANGED <<handle, doc, runningProjects, runningCount>>
        PROVE  Typed'
    <3>1. projectQueues' \in [Projects -> Seq(Handles)]
      <4>1. <<>> \in Seq(Handles)
          OBVIOUS
      <4> QED BY <1>2, <2>7, <4>1
    <3>2. QueuesBuilt'
        BY <1>2, <2>3, <2>7 DEF QueuesBuilt, Typed
    <3>3. HandlesBuilt'
        BY <2>3, <2>7 DEF HandlesBuilt, Typed
    <3>4. TypeOK'
        BY <2>2, <2>3, <2>7, <3>1 DEF TypeOK, Typed
    <3> QED BY <2>4, <3>2, <3>3, <3>4 DEF Typed
  <2> QED BY <2>5, <2>6, <2>7
<1> QED BY <1>3, <1>4 DEF Dispatch

-----------------------------------------------------------------------------
(* Kills and restarts.                                                      *)

\* A kill, _restore_pause_reservations and reconcile_on_startup keep Typed.
LEMMA RestartTyped ==
    ASSUME Typed, Crash \/ Restore \/ Reconcile
    PROVE  Typed'
<1>1. /\ doc \in [Executions -> DocRecord]
      /\ handle \in [Handles -> HandleRecord]
      /\ crashes \in 0..MaxCrashes /\ crashes \in Nat /\ MaxCrashes \in Nat
    BY BoundsAssumption DEF Typed, TypeOK
<1>2. CASE Crash
  <2>1. handle' = [h \in Handles |-> [handle[h] EXCEPT !.pc = "idle"]]
      BY <1>2 DEF Crash
  <2>2. handle' \in [Handles -> HandleRecord]
      BY <1>1, <2>1 DEF HandleRecord
  <2>3. request' \in [Requests -> RequestRecord] /\ RequestsBuilt'
      BY <1>2, ThreadStates DEF Crash, RequestsBuilt
  <2>4. crashes' \in 0..MaxCrashes
      BY <1>1, <1>2 DEF Crash
  <2>5. /\ projectQueues' \in [Projects -> Seq(Handles)] /\ readyProjects' \in Seq(Projects)
        /\ projectLock' \in [Projects -> Handles \cup {NoHandle}]
        /\ active' \in [Executions -> Handles \cup {NoHandle}]
      BY <1>2 DEF Crash
  <2>6. TypeOK'
      BY <1>2, <2>2, <2>3, <2>4, <2>5 DEF Crash, Typed, TypeOK
  <2>7. HandlesBuilt'
      BY <1>1, <1>2, <2>1 DEF Crash, Typed, HandlesBuilt, HandleRecord
  <2>8. QueuesBuilt'
      BY <1>2 DEF Crash, QueuesBuilt
  <2>9. BootQuiet'
      BY <1>1, <1>2, <2>1 DEF Crash, BootQuiet, HandleRecord
  <2> QED BY <2>3, <2>6, <2>7, <2>8, <2>9 DEF Typed
<1>3. CASE Restore
  <2>1. PICK s \in SUBSET PausedOnDisk : /\ pausedReservations' = s
                                         /\ runningProjects' = {ProjectOf[e] : e \in s}
                                         /\ runningCount' = Cardinality(s)
      BY <1>3 DEF Restore
  <2>2. s \subseteq Executions /\ IsFiniteSet(s)
      BY ExecutionsAssumption, FS_Subset DEF PausedOnDisk
  <2>3. runningCount' \in Nat /\ runningProjects' \subseteq Projects
      BY <2>1, <2>2, FS_CardinalityType, ProjectOfAssumption
  <2>4. doc' \in [Executions -> DocRecord]
    <3>1. \A e \in Executions : [doc[e] EXCEPT !.queue = "paused"] \in DocRecord
        BY <1>1 DEF DocRecord, QueueStatuses, Durable
    <3> QED BY <1>1, <1>3, <3>1 DEF Restore
  <2>5. TypeOK'
      BY <1>3, <2>1, <2>2, <2>3, <2>4 DEF Restore, Typed, TypeOK
  <2> QED BY <1>3, <2>5 DEF Restore, Typed, HandlesBuilt, RequestsBuilt, QueuesBuilt, BootQuiet
<1>4. CASE Reconcile
  <2>1. doc' \in [Executions -> DocRecord]
    <3>1. \A e \in Executions :
            /\ doc[e].status \in ExecStatuses /\ doc[e].queue \in QueueStatuses
            /\ doc[e].approval \in Handles \cup {NoHandle} /\ doc[e].resume \in Handles \cup {NoHandle}
        BY <1>1 DEF DocRecord
    <3>2. "failed" \in ExecStatuses /\ "failed" \in QueueStatuses
        BY DEF ExecStatuses, QueueStatuses, Terminal
    <3> QED BY <1>4, <3>1, <3>2 DEF Reconcile, DocRecord
  <2>2. TypeOK'
      BY <1>4, <2>1 DEF Reconcile, pool, Typed, TypeOK
  <2> QED BY <1>4, <2>2 DEF Reconcile, pool, Typed, HandlesBuilt, RequestsBuilt, QueuesBuilt, BootQuiet
<1> QED BY <1>2, <1>3, <1>4

-----------------------------------------------------------------------------
(* Type correctness.                                                        *)

\* Every step of every thread, request and restart keeps Typed.
LEMMA NextTyped == Typed /\ [Next]_vars => Typed'
<1> SUFFICES ASSUME Typed, [Next]_vars PROVE Typed'
    OBVIOUS
<1>1. CASE UNCHANGED vars
  <2>1. TypeOK'
      BY <1>1 DEF vars, pool, Typed, TypeOK
  <2> QED BY <1>1, <2>1 DEF vars, pool, Typed, HandlesBuilt, RequestsBuilt, QueuesBuilt, BootQuiet
<1>2. CASE Dispatch
    BY <1>2, DispatchTyped
<1>3. ASSUME NEW h \in Handles, WorkerStep(h) \/ NodePersist(h)
      PROVE  Typed'
  <2>1. phase = "up" /\ handle[h].pc # "idle"
      BY <1>3 DEF WorkerStep, NodePersist, StartRun, AcquireLock, LockRefused, RunToEnd, RunRaises,
                  DrainToApproval, DrainToPause, LeaveLoop, Finish, Raised, CreateCheckpoint, SaveResume,
                  Commit, Mirror, ExitPaused, ExitReleased, WorkerAt
  <2> QED BY <1>3, <2>1, WorkerTyped, ExitTyped
<1>4. ASSUME NEW r \in Requests, NewRequest(r) \/ RequestStep(r)
      PROVE  Typed'
  <2>1. phase = "up"
      BY <1>4 DEF NewRequest, Start, StopRead, CancelQueued, PauseRead, ResumeRead, ApproveRead, RejectRead,
                  DecisionRead, Enter, RequestStep, Register, Enqueue, StopSignal, PauseSignal, ResumeSave,
                  ResumeRegister, ResumeSpawn, ApproveExpire, ApproveDecide, ApproveSave, RejectDecide,
                  CancelDecide, Settle, Cleanup, CancelPaused, CancelMirror, CancelRelease, At
  <2>2. CASE NewRequest(r)
      BY <2>1, <2>2, ThreadTyped, BuildTyped, SignalTyped DEF NewRequest
  <2>3. CASE RequestStep(r)
      BY <2>1, <2>3, ThreadTyped, BuildTyped, SignalTyped, SlotTyped, EnqueueTyped DEF RequestStep
  <2> QED BY <1>4, <2>2, <2>3
<1>5. CASE Boot \/ Crash
    BY <1>5, RestartTyped DEF Boot
<1> QED BY <1>1, <1>2, <1>3, <1>4, <1>5 DEF Next

\* Typed holds in every state the manager can reach.
LEMMA AlwaysTyped == Spec => []Typed
BY InitTyped, NextTyped, PTL DEF Spec

\* Every variable keeps its type, whatever the threads, the kills and the restarts do.
THEOREM TypeCorrect == Spec => []TypeOK
<1>1. Typed => TypeOK
    BY DEF Typed
<1> QED BY <1>1, AlwaysTyped, PTL

-----------------------------------------------------------------------------
(***************************************************************************)
(* The accounting of the pool: every live pool thread and every paused     *)
(* reservation is covered by a counted slot.  The argument: only an        *)
(* admission and a resume create a thread, and both pay with a slot or a   *)
(* reservation; a thread that ends turns its slot into a reservation or    *)
(* gives it back; no other step touches the account.                       *)
(***************************************************************************)

USE DEF Handles, NoHandle

\* One element more or less changes a cardinality by at most one.
LEMMA OneElement ==
    ASSUME NEW S, IsFiniteSet(S), NEW x, NEW T \in {S \cup {x}, S \ {x}}
    PROVE  Cardinality(T) \in Nat /\ Cardinality(T) <= Cardinality(S) + 1
<1>1. Cardinality(S) \in Nat
    BY FS_CardinalityType
<1>2. CASE T = S \cup {x}
  <2>1. IsFiniteSet(T) /\ Cardinality(T) = IF x \in S THEN Cardinality(S) ELSE Cardinality(S) + 1
      BY <1>2, FS_AddElement
  <2> QED BY <1>1, <2>1
<1>3. CASE T = S \ {x}
  <2>1. IsFiniteSet(T) /\ Cardinality(T) = IF x \in S THEN Cardinality(S) - 1 ELSE Cardinality(S)
      BY <1>3, FS_RemoveElement
  <2>2. Cardinality(T) \in Nat
      BY <2>1, FS_CardinalityType
  <2> QED BY <1>1, <2>1, <2>2
<1> QED BY <1>2, <1>3

\* Both sides of the account are finite.
LEMMA Account ==
    ASSUME Typed
    PROVE  /\ IsFiniteSet(Occupants) /\ Cardinality(Occupants) \in Nat
           /\ IsFiniteSet(pausedReservations) /\ Cardinality(pausedReservations) \in Nat
           /\ runningCount \in Nat
<1>1. IsFiniteSet(Handles)
    BY BoundsAssumption, FS_Interval
<1>2. Occupants \in SUBSET Handles
    BY DEF Occupants
<1>3. pausedReservations \in SUBSET Executions /\ runningCount \in Nat
    BY DEF Typed, TypeOK
<1> QED BY <1>1, <1>2, <1>3, ExecutionsAssumption, FS_Subset, FS_CardinalityType

\* A step that starts no thread and leaves the account alone keeps it balanced.
LEMMA Quiet ==
    ASSUME Typed, SlotsCovered, Occupants' \subseteq Occupants,
           UNCHANGED <<runningCount, pausedReservations>>
    PROVE  SlotsCovered'
<1>1. Cardinality(Occupants') <= Cardinality(Occupants) /\ Cardinality(Occupants') \in Nat
    BY Account, FS_Subset, FS_CardinalityType
<1>2. Cardinality(pausedReservations') = Cardinality(pausedReservations)
    OBVIOUS
<1> QED BY <1>1, <1>2, Account DEF SlotsCovered

\* Only h can join or leave the threads when only h's handle is replaced.
LEMMA OneHandle ==
    ASSUME Typed, NEW h \in Handles, NEW g, SetHandle(h, g)
    PROVE  Occupants' = IF g.pc = "idle" THEN Occupants \ {h} ELSE Occupants \cup {h}
<1>1. handle \in [Handles -> HandleRecord]
    BY DEF Typed, TypeOK
<1>2. \A x \in Handles : handle'[x] = IF x = h THEN g ELSE handle[x]
    BY <1>1 DEF SetHandle
<1> QED BY <1>2 DEF Occupants

\* A thread that moves on, or ends, is one of the threads there were.
LEMMA NoNewThread ==
    ASSUME Typed, SlotsCovered, NEW h \in Handles, handle[h].pc # "idle",
           handle' = handle \/ \E g : SetHandle(h, g), UNCHANGED <<runningCount, pausedReservations>>
    PROVE  SlotsCovered'
<1>1. h \in Occupants
    BY DEF Occupants
<1>2. CASE handle' = handle
    BY <1>2, Quiet DEF Occupants
<1>3. CASE \E g : SetHandle(h, g)
  <2>1. Occupants' \subseteq Occupants
      BY <1>1, <1>3, OneHandle
  <2> QED BY <2>1, Quiet
<1> QED BY <1>2, <1>3

\* _dispatch_locked takes a slot for each worker it starts and so keeps the account.
LEMMA DispatchCovered ==
    ASSUME Typed, SlotsCovered, Dispatch
    PROVE  SlotsCovered'
<1>1. pausedReservations' = pausedReservations
    BY DEF Dispatch, DispatchNext, DispatchDone
<1>2. CASE UNCHANGED <<handle, runningCount>>
    BY <1>1, <1>2, Quiet DEF Occupants
<1>3. CASE DispatchNext
  <2> DEFINE p == Head(readyProjects)
  <2>1. p \in Projects
    <3>1. readyProjects # <<>> /\ readyProjects \in Seq(Projects)
        BY <1>3 DEF DispatchNext, HasRoom, Typed, TypeOK
    <3> QED BY <3>1
  <2>2. \/ UNCHANGED <<handle, runningCount>>
        \/ \E i \in DOMAIN projectQueues[p] : AdmitFirst(p, i)
      BY <1>3 DEF DispatchNext
  <2> HIDE DEF p
  <2>3. ASSUME NEW i \in DOMAIN projectQueues[p], AdmitFirst(p, i)
        PROVE  SlotsCovered'
    <3> DEFINE h == projectQueues[p][i]
               g == [handle[h] EXCEPT !.qrec = "running", !.rec = "running", !.pc = "starting"]
    <3>1. h \in Handles /\ handle[h] \in HandleRecord
        BY <2>1, QueuedHandle DEF Typed, TypeOK
    <3>2. SetHandle(h, g) /\ runningCount' = runningCount + 1
        BY <2>3 DEF AdmitFirst
    <3> HIDE DEF g, h
    <3>3. Occupants' \in {Occupants \ {h}, Occupants \cup {h}}
        BY <3>1, <3>2, OneHandle
    <3>4. Cardinality(Occupants') <= Cardinality(Occupants) + 1 /\ Cardinality(Occupants') \in Nat
        BY <3>3, Account, OneElement
    <3>5. Cardinality(pausedReservations') = Cardinality(pausedReservations)
        BY <1>1
    <3> QED BY <3>2, <3>4, <3>5, Account DEF SlotsCovered
  <2> QED BY <1>2, <2>2, <2>3
<1> QED BY <1>2, <1>3 DEF Dispatch, DispatchDone

\* A thread that ends turns its slot into a reservation or gives it back.
LEMMA ExitCovered ==
    ASSUME Typed, SlotsCovered, NEW h \in Handles, ExitPaused(h) \/ ExitReleased(h)
    PROVE  SlotsCovered'
<1> DEFINE g == [handle[h] EXCEPT !.pc = "idle"]
<1>1. h \in Occupants
    BY DEF ExitPaused, ExitReleased, WorkerAt, Occupants
<1>2. handle[h] \in HandleRecord
    BY DEF Typed, TypeOK
<1>3. SetHandle(h, g) /\ g.pc = "idle"
    BY <1>2 DEF ExitPaused, ExitReleased, Step, HandleRecord
<1> HIDE DEF g
<1>4. Occupants' = Occupants \ {h}
    BY <1>3, OneHandle
<1>5. Cardinality(Occupants') = Cardinality(Occupants) - 1 /\ Cardinality(Occupants) \in Nat \ {0}
    BY <1>1, <1>4, Account, FS_RemoveElement, FS_EmptySet
<1>6. CASE ExitPaused(h)
  <2>1. runningCount' = runningCount /\ pausedReservations' = pausedReservations \cup {handle[h].exec}
      BY <1>6 DEF ExitPaused
  <2>2. Cardinality(pausedReservations') <= Cardinality(pausedReservations) + 1
        /\ Cardinality(pausedReservations') \in Nat
      BY <2>1, Account, OneElement
  <2> QED BY <1>5, <2>1, <2>2, Account DEF SlotsCovered
<1>7. CASE ExitReleased(h)
  <2>1. /\ runningCount' = IF runningCount = 0 THEN 0 ELSE runningCount - 1
        /\ pausedReservations' = pausedReservations
      BY <1>7 DEF ExitReleased, ReleaseSlot
  <2>2. Cardinality(pausedReservations') = Cardinality(pausedReservations)
      BY <2>1
  <2> QED BY <1>5, <2>1, <2>2, Account DEF SlotsCovered
<1> QED BY <1>6, <1>7

\* A resumed run takes over its reservation or is counted anew.
LEMMA ResumeCovered ==
    ASSUME Typed, SlotsCovered, NEW r \in Requests, ResumeSpawn(r)
    PROVE  SlotsCovered'
<1> DEFINE h == request[r].handle
           e == request[r].exec
           g == [handle[h] EXCEPT !.pc = "starting"]
<1>1. h \in Handles
  <2>1. h \in 1..issued
      BY DEF Typed, RequestsBuilt, ResumeSpawn, At
  <2> QED BY <2>1, BoundsAssumption DEF Typed, TypeOK
<1>2. SetHandle(h, g)
    BY DEF ResumeSpawn, Step
<1>3. /\ runningCount' = IF e \in pausedReservations THEN runningCount ELSE runningCount + 1
      /\ pausedReservations' = pausedReservations \ {e}
    BY DEF ResumeSpawn
<1> HIDE DEF g, h, e
<1>4. Occupants' \in {Occupants \ {h}, Occupants \cup {h}}
    BY <1>1, <1>2, OneHandle
<1>5. Cardinality(Occupants') <= Cardinality(Occupants) + 1 /\ Cardinality(Occupants') \in Nat
    BY <1>4, Account, OneElement
<1>6. Cardinality(pausedReservations') = IF e \in pausedReservations THEN Cardinality(pausedReservations) - 1
                                         ELSE Cardinality(pausedReservations)
    BY <1>3, Account, FS_RemoveElement
<1> QED BY <1>3, <1>5, <1>6, Account DEF SlotsCovered

\* A cancelled pause gives back the slot its reservation held, or nothing.
LEMMA CancelCovered ==
    ASSUME Typed, SlotsCovered, NEW r \in Requests, CancelRelease(r)
    PROVE  SlotsCovered'
<1>1. Occupants' = Occupants
    BY DEF CancelRelease, Occupants
<1>2. CASE UNCHANGED pool
    BY <1>1, <1>2, Quiet DEF pool
<1>3. CASE /\ request[r].exec \in pausedReservations
           /\ pausedReservations' = pausedReservations \ {request[r].exec}
           /\ ReleaseSlot(ProjectOf[request[r].exec])
  <2>1. runningCount' = IF runningCount = 0 THEN 0 ELSE runningCount - 1
      BY <1>3 DEF ReleaseSlot
  <2>2. Cardinality(pausedReservations') = Cardinality(pausedReservations) - 1
        /\ Cardinality(pausedReservations) \in Nat \ {0}
      BY <1>3, Account, FS_RemoveElement, FS_EmptySet
  <2>3. Cardinality(Occupants') = Cardinality(Occupants)
      BY <1>1
  <2> QED BY <2>1, <2>2, <2>3, Account DEF SlotsCovered
<1> QED BY <1>2, <1>3 DEF CancelRelease

\* A kill empties the account; a restart reserves and counts the same runs.
LEMMA RestartCovered ==
    ASSUME Typed, SlotsCovered, Crash \/ Restore \/ Reconcile
    PROVE  SlotsCovered'
<1>1. handle \in [Handles -> HandleRecord]
    BY DEF Typed, TypeOK
<1>2. CASE Crash
  <2>1. \A h \in Handles : handle'[h].pc = "idle"
      BY <1>1, <1>2 DEF Crash, HandleRecord
  <2>2. Occupants' = {} /\ pausedReservations' = {} /\ runningCount' = 0
      BY <1>2, <2>1 DEF Crash, Occupants
  <2> QED BY <2>2, FS_EmptySet DEF SlotsCovered
<1>3. CASE Restore
  <2>1. Occupants' = {}
      BY <1>3 DEF Restore, Occupants, Typed, BootQuiet
  <2>2. runningCount' = Cardinality(pausedReservations') /\ pausedReservations' \in SUBSET Executions
      BY <1>3 DEF Restore, PausedOnDisk
  <2>3. Cardinality(pausedReservations') \in Nat
      BY <2>2, ExecutionsAssumption, FS_Subset, FS_CardinalityType
  <2> QED BY <2>1, <2>2, <2>3, FS_EmptySet DEF SlotsCovered
<1>4. CASE Reconcile
    BY <1>4, Quiet DEF Reconcile, pool, Occupants
<1> QED BY <1>2, <1>3, <1>4

\* A request that builds a handle, or signals one, starts no thread.
LEMMA RequestCovered ==
    ASSUME Typed, SlotsCovered, NEW r \in Requests, NewRequest(r) \/ RequestStep(r),
           ~ResumeSpawn(r), ~CancelRelease(r)
    PROVE  SlotsCovered'
<1>1. handle \in [Handles -> HandleRecord] /\ issued \in Nat
      /\ active \in [Executions -> Handles \cup {NoHandle}]
    BY BoundsAssumption DEF Typed, TypeOK
<1>2. UNCHANGED <<runningCount, pausedReservations>>
    BY DEF NewRequest, Start, StopRead, CancelQueued, PauseRead, ResumeRead, ApproveRead, RejectRead,
           DecisionRead, RequestStep, Register, Enqueue, StopSignal, PauseSignal, ResumeSave,
           ResumeRegister, ApproveExpire, ApproveDecide, ApproveSave, RejectDecide,
           CancelDecide, Settle, Cleanup, CancelPaused, CancelMirror, pool
<1>3. \/ handle' = handle
      \/ \E e, q, k : NewHandle(e, q, k)
      \/ \E h \in Handles : CancelPending(h)
      \/ \E h \in Handles : SetHandle(h, [handle[h] EXCEPT !.stop = TRUE])
      \/ \E h \in Handles : SetHandle(h, [handle[h] EXCEPT !.pause = TRUE])
  <2>1. CASE NewRequest(r)
      BY <1>1, <2>1 DEF NewRequest, Start, StopRead, CancelQueued, PauseRead, ResumeRead, ApproveRead,
                        RejectRead, DecisionRead
  <2>2. request[r].pc # "idle" => active[request[r].exec] \in Handles \cup {NoHandle}
      BY <1>1 DEF Typed, RequestsBuilt
  <2>3. CASE StopSignal(r)
      BY <2>2, <2>3 DEF StopSignal, At
  <2>4. CASE PauseSignal(r)
      BY <2>2, <2>4 DEF PauseSignal, At
  <2>5. CASE RequestStep(r) /\ ~StopSignal(r) /\ ~PauseSignal(r)
      BY <2>5 DEF RequestStep, Register, Enqueue, ResumeSave, ResumeRegister, ApproveExpire, ApproveDecide,
                  ApproveSave, RejectDecide, CancelDecide, Settle, Cleanup, CancelPaused, CancelMirror
  <2> QED BY <2>1, <2>3, <2>4, <2>5
<1>4. \A x \in Handles : handle'[x].pc # "idle" => handle[x].pc # "idle"
  <2>1. CASE \E e, q, k : NewHandle(e, q, k)
      BY <1>1, <2>1 DEF NewHandle
  <2>2. ASSUME NEW h \in Handles, NEW g, SetHandle(h, g), g.pc = handle[h].pc
        PROVE  \A x \in Handles : handle'[x].pc = handle[x].pc
      BY <1>1, <2>2 DEF SetHandle
  <2>3. ASSUME NEW h \in Handles
        PROVE  /\ [handle[h] EXCEPT !.stop = TRUE].pc = handle[h].pc
               /\ [handle[h] EXCEPT !.pause = TRUE].pc = handle[h].pc
               /\ [handle[h] EXCEPT !.stop = TRUE, !.qrec = "cancelled", !.rec = "cancelled"].pc = handle[h].pc
    <3>1. handle[h] \in HandleRecord
        BY <1>1
    <3> QED BY <3>1 DEF HandleRecord
  <2> QED BY <1>3, <2>1, <2>2, <2>3 DEF CancelPending
<1>5. Occupants' \subseteq Occupants
    BY <1>4 DEF Occupants
<1> QED BY <1>2, <1>5, Quiet

\* For every pool size and every number of runs, requests and kills, no thread and
\* no paused run goes uncounted.
THEOREM SlotsAlwaysCovered == Spec => []SlotsCovered
<1>1. Init => SlotsCovered
  <2> SUFFICES ASSUME Init PROVE SlotsCovered
      OBVIOUS
  <2>1. Occupants = {} /\ pausedReservations = {} /\ runningCount = 0
      BY DEF Init, Occupants
  <2> QED BY <2>1, FS_EmptySet DEF SlotsCovered
<1>2. Typed /\ SlotsCovered /\ [Next]_vars => SlotsCovered'
  <2> SUFFICES ASSUME Typed, SlotsCovered, [Next]_vars PROVE SlotsCovered'
      OBVIOUS
  <2>1. CASE UNCHANGED vars
      BY <2>1, Quiet DEF vars, pool, Occupants
  <2>2. CASE Dispatch
      BY <2>2, DispatchCovered
  <2>3. ASSUME NEW h \in Handles, WorkerStep(h) \/ NodePersist(h)
        PROVE  SlotsCovered'
    <3>1. CASE ExitPaused(h) \/ ExitReleased(h)
        BY <3>1, ExitCovered
    <3>2. CASE ~(ExitPaused(h) \/ ExitReleased(h))
      <4>1. handle[h].pc # "idle"
          BY <2>3, <3>2 DEF WorkerStep, NodePersist, StartRun, AcquireLock, LockRefused, RunToEnd, RunRaises,
                      DrainToApproval, DrainToPause, LeaveLoop, Finish, Raised, CreateCheckpoint, SaveResume,
                      Commit, Mirror, WorkerAt
      <4>2. UNCHANGED <<runningCount, pausedReservations>>
          BY <2>3, <3>2 DEF WorkerStep, NodePersist, StartRun, AcquireLock, LockRefused, RunToEnd, RunRaises,
                      DrainToApproval, DrainToPause, LeaveLoop, Finish, Raised, CreateCheckpoint, SaveResume,
                      Commit, Mirror, pool
      <4>3. handle' = handle \/ \E g : SetHandle(h, g)
          BY <2>3, <3>2 DEF WorkerStep, NodePersist, StartRun, AcquireLock, LockRefused, RunToEnd, RunRaises,
                      DrainToApproval, DrainToPause, LeaveLoop, Finish, Raised, CreateCheckpoint, SaveResume,
                      Commit, Mirror, Step
      <4> QED BY <4>1, <4>2, <4>3, NoNewThread
    <3> QED BY <3>1, <3>2
  <2>4. ASSUME NEW r \in Requests, NewRequest(r) \/ RequestStep(r)
        PROVE  SlotsCovered'
      BY <2>4, RequestCovered, ResumeCovered, CancelCovered
  <2>5. CASE Boot \/ Crash
      BY <2>5, RestartCovered DEF Boot
  <2> QED BY <2>1, <2>2, <2>3, <2>4, <2>5 DEF Next
<1> QED BY <1>1, <1>2, AlwaysTyped, PTL DEF Spec
=============================================================================

----------------------- MODULE ExecutionApprovalProofs -----------------------
(***************************************************************************)
(* What the two durable pauses of ExecutionManager are worth.  First the   *)
(* approvals, however many requests race: a checkpoint starts at most one  *)
(* continuation, of its own execution, and only once approved.  The        *)
(* argument follows a checkpoint id on its way: a run creates it once and  *)
(* commits it to the document, a request reads it there, one request       *)
(* decides it, and that request alone builds the continuation.  Then, for  *)
(* one operator at a time, what is left on disk: a pause can be taken up   *)
(* where its run left it, an approval is only left by a decision, and the  *)
(* status of an execution follows the promised life cycle.                 *)
(***************************************************************************)
EXTENDS ExecutionQueueProofs

USE DEF Handles, NoHandle

\* A document that awaits approval names the checkpoint of a run of its execution.
DocPoints ==
    \A e \in Executions : doc[e].status = "awaiting_approval" =>
      /\ doc[e].approval \in Handles /\ doc[e].approval <= issued
      /\ handle[doc[e].approval].exec = e

Deciding == {"approve_expire", "approve_decide", "approve_save", "reject_decide", "cancel_decide"}

\* So does every request that still works with the checkpoint it read.
RequestPoints ==
    \A r \in Requests : request[r].pc \in Deciding =>
      /\ request[r].checkpoint \in Handles /\ request[r].checkpoint <= issued
      /\ handle[request[r].checkpoint].exec = request[r].exec

\* The request that will continue the run is the one that approved, and it has
\* not continued it yet.
Granted ==
    \A r \in Requests : request[r].pc = "approve_save" =>
      /\ checkpoints[request[r].checkpoint] = "approved"
      /\ \A h \in Handles : handle[h].from # request[r].checkpoint
      /\ \A q \in Requests \ {r} :
           request[q].pc = "approve_save" => request[q].checkpoint # request[r].checkpoint

\* A run that may still reach a checkpoint has created none so far.
Unreached(h) ==
    \/ h > issued
    \/ handle[h].qrec = "pending"
    \/ handle[h].pc \in {"starting", "locking", "running", "checkpoint"}
    \/ \E r \in Requests : request[r].handle = h /\ request[r].pc \in {"resume_register", "resume_spawn"}

OneCheckpoint == \A h \in Handles : Unreached(h) => checkpoints[h] = "none"

\* A resumed handle has one request that will start it, and no thread before that.
ResumesAlone ==
    \A r \in Requests : request[r].pc \in {"resume_register", "resume_spawn"} =>
      /\ handle[request[r].handle].pc = "idle"
      /\ \A q \in Requests \ {r} :
           request[q].pc \in {"resume_register", "resume_spawn"} => request[q].handle # request[r].handle

\* A handle that is not built continues nothing.
Fresh == \A h \in Handles : h > issued => handle[h].from = NoHandle

Traced ==
    /\ OnlyApprovedResumes /\ DocPoints /\ RequestPoints /\ Granted
    /\ OneCheckpoint /\ ResumesAlone /\ Fresh

-----------------------------------------------------------------------------
(* What a step leaves as it is.                                             *)

\* A handle keeps its execution and the checkpoint it continues from; only an
\* approval gives a new handle a checkpoint.
LEMMA OriginKept ==
    ASSUME Typed, Next
    PROVE  /\ issued' \in {issued, issued + 1}
           /\ \A h \in Handles : h <= issued =>
                handle'[h].exec = handle[h].exec /\ handle'[h].from = handle[h].from
           /\ \A h \in Handles : h > issued =>
                \/ handle'[h].from \in {handle[h].from, NoHandle}
                \/ \E r \in Requests : /\ ApproveSave(r) /\ request'[r].pc = "register"
                                       /\ h = issued + 1 /\ issued' = issued + 1
                                       /\ handle'[h].from = request[r].checkpoint
                                       /\ handle'[h].exec = request[r].exec
<1>1. /\ handle \in [Handles -> HandleRecord] /\ issued \in Nat
      /\ request \in [Requests -> RequestRecord]
      /\ active \in [Executions -> Handles \cup {NoHandle}]
    BY PoolTypes DEF Typed, TypeOK
<1> DEFINE Same == \A h \in Handles : handle'[h].exec = handle[h].exec /\ handle'[h].from = handle[h].from
<1>3. ASSUME NEW g \in Handles, NEW x, SetHandle(g, x), x.exec = handle[g].exec, x.from = handle[g].from
      PROVE  Same
    BY <1>1, <1>3 DEF SetHandle
<1>4. ASSUME NEW g \in Handles
      PROVE  /\ \A c : SetHandle(g, [handle[g] EXCEPT !.pc = c]) => Same
             /\ \A c, s : SetHandle(g, [handle[g] EXCEPT !.rec = s, !.pc = c]) => Same
             /\ \A c, s : SetHandle(g, [handle[g] EXCEPT !.pc = c, !.rec = s]) => Same
             /\ \A c, q : SetHandle(g, [handle[g] EXCEPT !.qrec = q, !.pc = c]) => Same
             /\ \A c, q, s : SetHandle(g, [handle[g] EXCEPT !.qrec = q, !.rec = s, !.pc = c]) => Same
             /\ \A b, q, s : SetHandle(g, [handle[g] EXCEPT !.stop = b, !.qrec = q, !.rec = s]) => Same
             /\ \A b : SetHandle(g, [handle[g] EXCEPT !.stop = b]) => Same
             /\ \A b : SetHandle(g, [handle[g] EXCEPT !.pause = b]) => Same
  <2>0. handle[g] \in HandleRecord
      BY <1>1
  <2> HIDE DEF Same
  <2>1. \A c : SetHandle(g, [handle[g] EXCEPT !.pc = c]) => Same
    <3> TAKE c
    <3>1. LET x == [handle[g] EXCEPT !.pc = c] IN x.exec = handle[g].exec /\ x.from = handle[g].from
        BY <2>0 DEF HandleRecord
    <3> QED BY <1>3, <3>1
  <2>2. \A c, s : SetHandle(g, [handle[g] EXCEPT !.rec = s, !.pc = c]) => Same
    <3> TAKE c, s
    <3>1. LET x == [handle[g] EXCEPT !.rec = s, !.pc = c] IN x.exec = handle[g].exec /\ x.from = handle[g].from
        BY <2>0 DEF HandleRecord
    <3> QED BY <1>3, <3>1
  <2>3. \A c, s : SetHandle(g, [handle[g] EXCEPT !.pc = c, !.rec = s]) => Same
    <3> TAKE c, s
    <3>1. LET x == [handle[g] EXCEPT !.pc = c, !.rec = s] IN x.exec = handle[g].exec /\ x.from = handle[g].from
        BY <2>0 DEF HandleRecord
    <3> QED BY <1>3, <3>1
  <2>4. \A c, q : SetHandle(g, [handle[g] EXCEPT !.qrec = q, !.pc = c]) => Same
    <3> TAKE c, q
    <3>1. LET x == [handle[g] EXCEPT !.qrec = q, !.pc = c] IN x.exec = handle[g].exec /\ x.from = handle[g].from
        BY <2>0 DEF HandleRecord
    <3> QED BY <1>3, <3>1
  <2>5. \A c, q, s : SetHandle(g, [handle[g] EXCEPT !.qrec = q, !.rec = s, !.pc = c]) => Same
    <3> TAKE c, q, s
    <3>1. LET x == [handle[g] EXCEPT !.qrec = q, !.rec = s, !.pc = c]
          IN  x.exec = handle[g].exec /\ x.from = handle[g].from
        BY <2>0 DEF HandleRecord
    <3> QED BY <1>3, <3>1
  <2>6. \A b, q, s : SetHandle(g, [handle[g] EXCEPT !.stop = b, !.qrec = q, !.rec = s]) => Same
    <3> TAKE b, q, s
    <3>1. LET x == [handle[g] EXCEPT !.stop = b, !.qrec = q, !.rec = s]
          IN  x.exec = handle[g].exec /\ x.from = handle[g].from
        BY <2>0 DEF HandleRecord
    <3> QED BY <1>3, <3>1
  <2>7. \A b : SetHandle(g, [handle[g] EXCEPT !.stop = b]) => Same
    <3> TAKE b
    <3>1. LET x == [handle[g] EXCEPT !.stop = b] IN x.exec = handle[g].exec /\ x.from = handle[g].from
        BY <2>0 DEF HandleRecord
    <3> QED BY <1>3, <3>1
  <2>8. \A b : SetHandle(g, [handle[g] EXCEPT !.pause = b]) => Same
    <3> TAKE b
    <3>1. LET x == [handle[g] EXCEPT !.pause = b] IN x.exec = handle[g].exec /\ x.from = handle[g].from
        BY <2>0 DEF HandleRecord
    <3> QED BY <1>3, <3>1
  <2> QED BY <2>1, <2>2, <2>3, <2>4, <2>5, <2>6, <2>7, <2>8
<1> HIDE DEF Same
<1>2. handle' = handle => Same
    BY DEF Same
<1>5. CASE Dispatch
  <2>1. issued' = issued
      BY <1>5 DEF Dispatch, DispatchNext, DispatchDone
  <2>2. CASE handle' = handle
      BY <1>2, <2>1, <2>2 DEF Same
  <2>3. CASE handle' # handle
    <3>1. PICK p \in Projects : p = Head(readyProjects)
      <4>1. readyProjects # <<>> /\ readyProjects \in Seq(Projects)
          BY <1>5, <2>3, PoolTypes DEF Dispatch, DispatchNext, DispatchDone, HasRoom
      <4> QED BY <4>1
    <3>2. PICK i \in DOMAIN projectQueues[p] : AdmitFirst(p, i)
        BY <1>5, <2>3, <3>1 DEF Dispatch, DispatchNext, DispatchDone
    <3>3. PICK g \in Handles : g = projectQueues[p][i]
        BY QueuedHandle
    <3>4. SetHandle(g, [handle[g] EXCEPT !.qrec = "running", !.rec = "running", !.pc = "starting"])
        BY <3>2, <3>3 DEF AdmitFirst
    <3>5. Same
        BY <1>4, <3>4
    <3> QED BY <2>1, <3>5 DEF Same
  <2> QED BY <2>2, <2>3
<1>6. ASSUME NEW g \in Handles, WorkerStep(g) \/ NodePersist(g)
      PROVE  issued' = issued /\ Same
  <2>1. issued' = issued
      BY <1>6, WorkerHandle
  <2>2. \/ handle' = handle
        \/ \E c : SetHandle(g, [handle[g] EXCEPT !.pc = c])
        \/ \E c, s : SetHandle(g, [handle[g] EXCEPT !.rec = s, !.pc = c])
        \/ \E c, s : SetHandle(g, [handle[g] EXCEPT !.pc = c, !.rec = s])
        \/ \E c, q : SetHandle(g, [handle[g] EXCEPT !.qrec = q, !.pc = c])
      BY <1>6 DEF WorkerStep, NodePersist, StartRun, AcquireLock, LockRefused, RunToEnd, RunRaises,
                  DrainToApproval, DrainToPause, LeaveLoop, Finish, Raised, CreateCheckpoint, SaveResume,
                  Commit, Mirror, ExitPaused, ExitReleased, Step
  <2> QED BY <1>2, <1>4, <2>1, <2>2
<1>7. CASE Boot \/ Crash
  <2>1. issued' = issued
      BY <1>7 DEF Boot, Crash, Restore, Reconcile
  <2>2. CASE handle' = handle
      BY <1>2, <2>1, <2>2 DEF Same
  <2>3. CASE handle' # handle
    <3>1. \A h \in Handles : handle'[h] = [handle[h] EXCEPT !.pc = "idle"]
        BY <1>7, <2>3 DEF Boot, Crash, Restore, Reconcile
    <3>2. \A h \in Handles : /\ [handle[h] EXCEPT !.pc = "idle"].exec = handle[h].exec
                             /\ [handle[h] EXCEPT !.pc = "idle"].from = handle[h].from
      <4> TAKE h \in Handles
      <4>1. handle[h] \in HandleRecord
          BY <1>1
      <4> QED BY <4>1 DEF HandleRecord
    <3> QED BY <2>1, <3>1, <3>2
  <2> QED BY <2>2, <2>3
<1>8. ASSUME NEW r \in Requests, NewRequest(r) \/ RequestStep(r)
      PROVE  /\ issued' \in {issued, issued + 1}
             /\ \A h \in Handles : h <= issued =>
                  handle'[h].exec = handle[h].exec /\ handle'[h].from = handle[h].from
             /\ \A h \in Handles : h > issued =>
                  \/ handle'[h].from \in {handle[h].from, NoHandle}
                  \/ /\ ApproveSave(r) /\ request'[r].pc = "register"
                     /\ h = issued + 1 /\ issued' = issued + 1
                     /\ handle'[h].from = request[r].checkpoint
                     /\ handle'[h].exec = request[r].exec
  <2>1. ASSUME NEW e, NEW q, NEW k, NewHandle(e, q, k)
        PROVE  /\ issued' = issued + 1
               /\ \A h \in Handles : h # issued + 1 => handle'[h] = handle[h]
               /\ \A h \in Handles : h = issued + 1 => handle'[h].exec = e /\ handle'[h].from = k
      BY <1>1, <2>1 DEF NewHandle
  <2>2. ASSUME NEW e, NEW q, NewHandle(e, q, NoHandle)
        PROVE  /\ issued' = issued + 1
               /\ \A h \in Handles : h <= issued => handle'[h] = handle[h]
               /\ \A h \in Handles : h > issued => handle'[h].from \in {handle[h].from, NoHandle}
      BY <1>1, <2>1, <2>2
  <2>3. CASE ApproveSave(r)
    <3>1. CASE UNCHANGED <<handle, issued>>
        BY <3>1
    <3>2. CASE ~UNCHANGED <<handle, issued>>
      <4>1. NewHandle(request[r].exec, "pending", request[r].checkpoint) /\ request'[r].pc = "register"
          BY <1>1, <2>3, <3>2 DEF ApproveSave, RequestRecord
      <4>2. /\ issued' = issued + 1
            /\ \A h \in Handles : h <= issued => handle'[h] = handle[h]
            /\ \A h \in Handles : h > issued =>
                 \/ handle'[h].from = handle[h].from
                 \/ /\ h = issued + 1 /\ handle'[h].from = request[r].checkpoint
                    /\ handle'[h].exec = request[r].exec
          BY <1>1, <2>1, <4>1
      <4> QED BY <2>3, <4>1, <4>2
    <3> QED BY <3>1, <3>2
  <2>4. CASE \E g \in Handles : \/ CancelPending(g)
                                \/ SetHandle(g, [handle[g] EXCEPT !.stop = TRUE])
                                \/ SetHandle(g, [handle[g] EXCEPT !.pause = TRUE])
                                \/ SetHandle(g, [handle[g] EXCEPT !.pc = "starting"])
    <3>1. CASE issued' = issued
      <4>1. Same
          BY <1>4, <2>4 DEF CancelPending
      <4> QED BY <3>1, <4>1 DEF Same
    <3>2. CASE issued' # issued
      <4>1. (\E e \in Executions : Start(r, e)) \/ ResumeSave(r) \/ ApproveSave(r)
          BY <1>8, <3>2 DEF NewRequest, StopRead, CancelQueued, PauseRead, ResumeRead, ApproveRead, RejectRead,
             DecisionRead, RequestStep, Register, Enqueue, StopSignal, PauseSignal,
             ResumeRegister, ResumeSpawn, ApproveExpire, ApproveDecide, RejectDecide,
             CancelDecide, Settle, Cleanup, CancelPaused, CancelMirror, CancelRelease
      <4> QED BY <2>2, <2>3, <4>1 DEF Start, ResumeSave
    <3> QED BY <3>1, <3>2
  <2>5. \/ UNCHANGED <<handle, issued>>
        \/ \E e, q : NewHandle(e, q, NoHandle)
        \/ ApproveSave(r)
        \/ \E g \in Handles : \/ CancelPending(g)
                              \/ SetHandle(g, [handle[g] EXCEPT !.stop = TRUE])
                              \/ SetHandle(g, [handle[g] EXCEPT !.pause = TRUE])
                              \/ SetHandle(g, [handle[g] EXCEPT !.pc = "starting"])
    <3>1. CASE NewRequest(r)
        BY <1>1, <3>1 DEF NewRequest, Start, StopRead, CancelQueued, PauseRead, ResumeRead, ApproveRead,
                          RejectRead, DecisionRead
    <3>2. request[r].pc # "idle" => active[request[r].exec] \in Handles \cup {NoHandle}
        BY <1>1 DEF Typed, RequestsBuilt
    <3>3. CASE StopSignal(r)
        BY <3>2, <3>3 DEF StopSignal, At
    <3>4. CASE PauseSignal(r)
        BY <3>2, <3>4 DEF PauseSignal, At
    <3>5. CASE ResumeSpawn(r)
      <4>1. request[r].handle \in Handles
          BY <1>1, <3>5, BoundsAssumption DEF ResumeSpawn, At, Typed, TypeOK, RequestsBuilt
      <4> QED BY <3>5, <4>1 DEF ResumeSpawn, Step
    <3>6. CASE RequestStep(r) /\ ~StopSignal(r) /\ ~PauseSignal(r) /\ ~ResumeSpawn(r)
        BY <3>6 DEF RequestStep, Register, Enqueue, ResumeSave, ResumeRegister, ApproveExpire, ApproveDecide,
                    RejectDecide, CancelDecide, Settle, Cleanup, CancelPaused, CancelMirror, CancelRelease
    <3> QED BY <1>8, <3>1, <3>3, <3>4, <3>5, <3>6
  <2> QED BY <2>2, <2>3, <2>4, <2>5
<1> QED BY <1>1, <1>5, <1>6, <1>7, <1>8 DEF Next, Same

\* A checkpoint changes when its run creates it, and once more while it waits.
LEMMA CheckpointsKept ==
    ASSUME Typed, Next
    PROVE  \A c \in Handles :
             \/ checkpoints'[c] = checkpoints[c]
             \/ checkpoints[c] = "awaiting"
             \/ CreateCheckpoint(c) /\ checkpoints'[c] = "awaiting"
<1>1. checkpoints \in [Handles -> {"none", "awaiting", "approved", "rejected", "expired"}]
    BY DEF Typed, TypeOK
<1>2. CASE UNCHANGED checkpoints
    BY <1>2
<1>3. ASSUME NEW h \in Handles, CreateCheckpoint(h)
      PROVE  \A c \in Handles : checkpoints'[c] = checkpoints[c] \/ (c = h /\ checkpoints'[c] = "awaiting")
    BY <1>1, <1>3 DEF CreateCheckpoint
<1>4. ASSUME NEW r \in Requests, NEW d, NEW pc, IsAwaiting(r), Decide(r, d, pc)
      PROVE  \A c \in Handles : checkpoints'[c] = checkpoints[c] \/ checkpoints[c] = "awaiting"
    BY <1>1, <1>4 DEF IsAwaiting, Decide
<1>5. \/ UNCHANGED checkpoints
      \/ \E h \in Handles : CreateCheckpoint(h)
      \/ \E r \in Requests : \E d : \E pc \in RequestPcs : IsAwaiting(r) /\ Decide(r, d, pc)
  <2>1. CASE Dispatch \/ Boot \/ Crash
      BY <2>1 DEF Dispatch, DispatchNext, DispatchDone, Boot, Restore, Reconcile, Crash
  <2>2. CASE \E h \in Handles : WorkerStep(h) \/ NodePersist(h)
      BY <2>2 DEF WorkerStep, NodePersist, StartRun, AcquireLock, LockRefused, RunToEnd, RunRaises,
                  DrainToApproval, DrainToPause, LeaveLoop, Finish, Raised, SaveResume,
                  Commit, Mirror, ExitPaused, ExitReleased
  <2>3. ASSUME NEW r \in Requests, NewRequest(r) \/ RequestStep(r)
        PROVE  UNCHANGED checkpoints \/ \E d : \E pc \in RequestPcs : IsAwaiting(r) /\ Decide(r, d, pc)
    <3>1. CASE ApproveExpire(r) \/ ApproveDecide(r) \/ RejectDecide(r) \/ CancelDecide(r)
        BY <3>1 DEF ApproveExpire, ApproveDecide, RejectDecide, CancelDecide, RequestPcs
    <3>2. CASE ~(ApproveExpire(r) \/ ApproveDecide(r) \/ RejectDecide(r) \/ CancelDecide(r))
        BY <2>3, <3>2 DEF NewRequest, Start, StopRead, CancelQueued, PauseRead, ResumeRead, ApproveRead,
           RejectRead, DecisionRead, RequestStep, Register, Enqueue, StopSignal, PauseSignal, ResumeSave,
           ResumeRegister, ResumeSpawn, ApproveSave, Settle, Cleanup, CancelPaused, CancelMirror, CancelRelease
    <3> QED BY <3>1, <3>2
  <2> QED BY <2>1, <2>2, <2>3 DEF Next
<1> QED BY <1>2, <1>3, <1>4, <1>5

\* Where a request is after its step: what it decides on is what it read, what it
\* was granted is what it decided, and what it resumes is what it built.
LEMMA RequestGoes ==
    ASSUME Typed, NEW r \in Requests, NewRequest(r) \/ RequestStep(r)
    PROVE  /\ request'[r].pc \in Deciding =>
                \/ /\ request[r].pc \in Deciding
                   /\ request'[r].checkpoint = request[r].checkpoint /\ request'[r].exec = request[r].exec
                \/ /\ request'[r].exec \in Executions
                   /\ doc[request'[r].exec].status = "awaiting_approval"
                   /\ request'[r].checkpoint = doc[request'[r].exec].approval
           /\ request'[r].pc = "approve_save" =>
                /\ IsAwaiting(r) /\ request[r].pc = "approve_decide"
                /\ request'[r].checkpoint = request[r].checkpoint
                /\ checkpoints' = [checkpoints EXCEPT ![request[r].checkpoint] = "approved"]
           /\ request'[r].pc \in {"resume_register", "resume_spawn"} =>
                \/ /\ request[r].pc = "resume_register" /\ request'[r].handle = request[r].handle
                   /\ ResumeRegister(r)
                \/ ResumeSave(r) /\ request'[r].handle = issued + 1
<1>1. request \in [Requests -> RequestRecord] /\ request[r] \in RequestRecord
    BY DEF Typed, TypeOK
<1>2. \A op, x : Enter(r, op, x) => request'[r] = x
    BY <1>1 DEF Enter
<1>3. \A c : Goto(r, c) => /\ request'[r].pc = c /\ request'[r].exec = request[r].exec
                           /\ request'[r].handle = request[r].handle
                           /\ request'[r].checkpoint = request[r].checkpoint
    BY <1>1 DEF Goto, RequestRecord
<1>4. Return(r) => request'[r].pc = "idle"
    BY <1>1 DEF Return, Idle
<1>5. \A e, c, k, t : LET x == [Idle EXCEPT !.pc = c, !.exec = e, !.checkpoint = k, !.target = t]
                      IN  x.pc = c /\ x.exec = e /\ x.checkpoint = k
    BY DEF Idle
<1>6. ASSUME NEW e \in Executions, ApproveRead(r, e) \/ RejectRead(r, e)
      PROVE  /\ request'[r].exec = e /\ request'[r].checkpoint = doc[e].approval
             /\ doc[e].status = "awaiting_approval"
             /\ request'[r].pc \in {"approve_expire", "reject_decide"}
  <2>1. \E c \in {"approve_expire", "reject_decide"} :
          request'[r] = [Idle EXCEPT !.pc = c, !.exec = e, !.checkpoint = doc[e].approval, !.target = "failed"]
      BY <1>2, <1>6 DEF ApproveRead, RejectRead, DecisionRead
  <2> QED BY <1>5, <1>6, <2>1 DEF ApproveRead, RejectRead, DecisionRead
<1>7. ASSUME NEW e \in Executions, StopRead(r, e)
      PROVE  /\ request'[r].pc = StopPath(doc[e].status)
             /\ request'[r].exec = e /\ request'[r].checkpoint = doc[e].approval
  <2>1. request'[r] = [Idle EXCEPT !.pc = StopPath(doc[e].status), !.exec = e,
                                   !.checkpoint = doc[e].approval, !.target = "cancelled"]
      BY <1>2, <1>7 DEF StopRead
  <2> QED BY <1>5, <2>1
<1>8. ASSUME NEW e \in Executions, Start(r, e) \/ CancelQueued(r, e) \/ PauseRead(r, e) \/ ResumeRead(r, e)
      PROVE  request'[r].pc \in {"register", "idle", "pause_signal", "resume_save"}
  <2>1. CASE Start(r, e)
    <3>1. request'[r] = [Idle EXCEPT !.pc = "register", !.exec = e, !.handle = issued + 1]
        BY <1>2, <2>1 DEF Start
    <3> QED BY <3>1 DEF Idle
  <2>2. CASE CancelQueued(r, e)
    <3>1. request'[r] = Idle
        BY <1>2, <2>2 DEF CancelQueued
    <3> QED BY <3>1 DEF Idle
  <2>3. CASE PauseRead(r, e) \/ ResumeRead(r, e)
    <3>1. \E c \in {"pause_signal", "resume_save"} : request'[r] = [Idle EXCEPT !.pc = c, !.exec = e]
        BY <1>2, <2>3 DEF PauseRead, ResumeRead
    <3> QED BY <3>1 DEF Idle
  <2> QED BY <1>8, <2>1, <2>2, <2>3
<1>9. CASE NewRequest(r)
  <2>1. PICK e \in Executions :
          \/ Start(r, e) \/ StopRead(r, e) \/ CancelQueued(r, e) \/ PauseRead(r, e)
          \/ ResumeRead(r, e) \/ ApproveRead(r, e) \/ RejectRead(r, e)
      BY <1>9 DEF NewRequest
  <2>2. CASE ApproveRead(r, e) \/ RejectRead(r, e)
      BY <1>6, <2>2
  <2>3. CASE StopRead(r, e)
      BY <1>7, <2>3 DEF StopPath, Deciding
  <2>4. CASE Start(r, e) \/ CancelQueued(r, e) \/ PauseRead(r, e) \/ ResumeRead(r, e)
      BY <1>8, <2>4 DEF Deciding
  <2> QED BY <2>1, <2>2, <2>3, <2>4
<1>10. CASE Enqueue(r) \/ StopSignal(r) \/ PauseSignal(r) \/ ResumeSpawn(r) \/ Cleanup(r) \/ CancelRelease(r)
    BY <1>4, <1>10 DEF Enqueue, StopSignal, PauseSignal, ResumeSpawn, Cleanup, CancelRelease, Deciding
<1>11. CASE Register(r) \/ Settle(r) \/ CancelPaused(r) \/ CancelMirror(r)
  <2>1. \E c \in {"enqueue", "cleanup", "cancel_mirror", "cancel_release"} : Goto(r, c)
      BY <1>11 DEF Register, Settle, CancelPaused, CancelMirror
  <2> QED BY <1>3, <2>1 DEF Deciding
<1>12. CASE ResumeRegister(r)
    BY <1>3, <1>12 DEF ResumeRegister, At, Deciding
<1>13. CASE ResumeSave(r)
    BY <1>1, <1>13 DEF ResumeSave, RequestRecord, Deciding
<1>14. CASE ApproveSave(r)
  <2>1. request'[r].pc \in {"idle", "register"}
      BY <1>1, <1>4, <1>14 DEF ApproveSave, RequestRecord
  <2> QED BY <2>1 DEF Deciding
<1>15. CASE ApproveDecide(r)
  <2>1. CASE IsAwaiting(r) /\ Decide(r, "approved", "approve_save")
      BY <1>3, <1>15, <2>1 DEF ApproveDecide, Decide, At, Deciding
  <2>2. CASE Goto(r, "settle") \/ Return(r)
      BY <1>3, <1>4, <2>2 DEF Deciding
  <2> QED BY <1>15, <2>1, <2>2 DEF ApproveDecide, Decide
<1>16. CASE ApproveExpire(r) \/ RejectDecide(r) \/ CancelDecide(r)
  <2>1. Goto(r, "settle") \/ Return(r) \/ (Goto(r, "approve_decide") /\ request[r].pc \in Deciding)
      BY <1>16 DEF ApproveExpire, RejectDecide, CancelDecide, Decide, At, Deciding
  <2> QED BY <1>3, <1>4, <2>1 DEF Deciding
<1> QED BY <1>9, <1>10, <1>11, <1>12, <1>13, <1>14, <1>15, <1>16 DEF RequestStep

\* Only a run that rests in its own checkpoint makes a document await approval.
LEMMA ApprovalWritten ==
    ASSUME Typed, Next, NEW e \in Executions, doc'[e].status = "awaiting_approval"
    PROVE  \/ doc[e].status = "awaiting_approval" /\ doc'[e].approval = doc[e].approval
           \/ \E h \in Handles : h <= issued /\ handle[h].exec = e /\ doc'[e].approval = h
<1>1. /\ doc \in [Executions -> DocRecord] /\ handle \in [Handles -> HandleRecord]
      /\ request \in [Requests -> RequestRecord]
      /\ active \in [Executions -> Handles \cup {NoHandle}]
    BY PoolTypes DEF Typed, TypeOK
<1> DEFINE Kept == doc'[e].status = doc[e].status /\ doc'[e].approval = doc[e].approval
           Other == doc'[e].status # "awaiting_approval"
<1>2. ASSUME NEW f \in Executions, NEW d, SaveDoc(f, d)
      PROVE  doc'[e] = IF e = f THEN d ELSE doc[e]
    BY <1>1, <1>2 DEF SaveDoc
<1>3. ASSUME NEW f \in Executions
      PROVE  /\ \A q : SaveDoc(f, [doc[f] EXCEPT !.queue = q]) => Kept
             /\ \A q : SaveDoc(f, [doc[f] EXCEPT !.resume = q]) => Kept
             /\ \A q, c : SaveDoc(f, [doc[f] EXCEPT !.queue = q, !.resume = c]) => Kept
  <2>0. doc[f] \in DocRecord
      BY <1>1
  <2>1. ASSUME NEW d, SaveDoc(f, d), d.status = doc[f].status, d.approval = doc[f].approval
        PROVE  Kept
      BY <1>2, <2>1
  <2> HIDE DEF Kept
  <2>2. \A q : SaveDoc(f, [doc[f] EXCEPT !.queue = q]) => Kept
    <3> TAKE q
    <3>1. LET d == [doc[f] EXCEPT !.queue = q] IN d.status = doc[f].status /\ d.approval = doc[f].approval
        BY <2>0 DEF DocRecord
    <3> QED BY <2>1, <3>1
  <2>3. \A q : SaveDoc(f, [doc[f] EXCEPT !.resume = q]) => Kept
    <3> TAKE q
    <3>1. LET d == [doc[f] EXCEPT !.resume = q] IN d.status = doc[f].status /\ d.approval = doc[f].approval
        BY <2>0 DEF DocRecord
    <3> QED BY <2>1, <3>1
  <2>4. \A q, c : SaveDoc(f, [doc[f] EXCEPT !.queue = q, !.resume = c]) => Kept
    <3> TAKE q, c
    <3>1. LET d == [doc[f] EXCEPT !.queue = q, !.resume = c]
          IN  d.status = doc[f].status /\ d.approval = doc[f].approval
        BY <2>0 DEF DocRecord
    <3> QED BY <2>1, <3>1
  <2> QED BY <2>2, <2>3, <2>4
<1>4. ASSUME NEW f \in Executions
      PROVE  /\ \A s, a : SaveDoc(f, [doc[f] EXCEPT !.status = s, !.approval = a]) /\ s # "awaiting_approval"
                            => Kept \/ Other
             /\ \A s, a, k : SaveDoc(f, [doc[f] EXCEPT !.status = s, !.approval = a, !.resume = k])
                             /\ s # "awaiting_approval" => Kept \/ Other
             /\ \A q, s, a : SaveDoc(f, [doc[f] EXCEPT !.queue = q, !.status = s, !.approval = a])
                             /\ s # "awaiting_approval" => Kept \/ Other
             /\ \A s : SaveDoc(f, [doc[f] EXCEPT !.status = s]) /\ s # "awaiting_approval" => Kept \/ Other
  <2>0. doc[f] \in DocRecord
      BY <1>1
  <2>1. ASSUME NEW d, SaveDoc(f, d), d.status # "awaiting_approval"
        PROVE  Kept \/ Other
      BY <1>2, <2>1
  <2> HIDE DEF Kept, Other
  <2>2. \A s, a : [doc[f] EXCEPT !.status = s, !.approval = a].status = s
      BY <2>0 DEF DocRecord
  <2>3. \A s, a, k : [doc[f] EXCEPT !.status = s, !.approval = a, !.resume = k].status = s
      BY <2>0 DEF DocRecord
  <2>4. \A q, s, a : [doc[f] EXCEPT !.queue = q, !.status = s, !.approval = a].status = s
      BY <2>0 DEF DocRecord
  <2>5. \A s : [doc[f] EXCEPT !.status = s].status = s
      BY <2>0 DEF DocRecord
  <2>6. \A s, a : SaveDoc(f, [doc[f] EXCEPT !.status = s, !.approval = a]) /\ s # "awaiting_approval"
                    => Kept \/ Other
      BY <2>1, <2>2
  <2>7. \A s, a, k : SaveDoc(f, [doc[f] EXCEPT !.status = s, !.approval = a, !.resume = k])
                     /\ s # "awaiting_approval" => Kept \/ Other
      BY <2>1, <2>3
  <2>8. \A q, s, a : SaveDoc(f, [doc[f] EXCEPT !.queue = q, !.status = s, !.approval = a])
                     /\ s # "awaiting_approval" => Kept \/ Other
    <3> TAKE q, s, a
    <3> HAVE SaveDoc(f, [doc[f] EXCEPT !.queue = q, !.status = s, !.approval = a]) /\ s # "awaiting_approval"
    <3>1. [doc[f] EXCEPT !.queue = q, !.status = s, !.approval = a].status # "awaiting_approval"
        BY <2>4
    <3> QED BY <2>1, <3>1
  <2>9. \A s : SaveDoc(f, [doc[f] EXCEPT !.status = s]) /\ s # "awaiting_approval" => Kept \/ Other
      BY <2>1, <2>5
  <2> QED BY <2>6, <2>7, <2>8, <2>9
<1>5. doc' = doc => Kept
    OBVIOUS
<1> HIDE DEF Kept, Other
<1>6. CASE Dispatch
  <2>1. CASE doc' = doc
      BY <1>5, <2>1 DEF Kept
  <2>2. CASE doc' # doc
    <3>1. PICK p \in Projects : p = Head(readyProjects)
      <4>1. readyProjects # <<>> /\ readyProjects \in Seq(Projects)
          BY <1>6, <2>2, PoolTypes DEF Dispatch, DispatchNext, DispatchDone, HasRoom
      <4> QED BY <4>1
    <3>2. PICK i \in DOMAIN projectQueues[p] : AdmitFirst(p, i)
        BY <1>6, <2>2, <3>1 DEF Dispatch, DispatchNext, DispatchDone
    <3>3. PICK g \in Handles : g = projectQueues[p][i] /\ g <= issued
        BY QueuedHandle
    <3>4. PICK f \in Executions : f = handle[g].exec
        BY <3>3, BuiltExec
    <3>5. SaveDoc(f, [doc[f] EXCEPT !.queue = "running", !.status = "running", !.approval = handle[g].from])
        BY <3>2, <3>3, <3>4 DEF AdmitFirst, DocOf
    <3>6. Kept \/ Other
        BY <1>4, <3>5
    <3> QED BY <3>6 DEF Kept, Other
  <2> QED BY <2>1, <2>2
<1>7. ASSUME NEW h \in Handles, WorkerStep(h) \/ NodePersist(h)
      PROVE  Kept \/ Other \/ (handle[h].exec = e /\ doc'[e].approval = h)
  <2>1. PICK f \in Executions : f = handle[h].exec
      BY <1>7, WorkerHandle, BuiltExec
  <2>2. CASE StartRun(h) \/ NodePersist(h) \/ Raised(h)
    <3>1. CASE StartRun(h) \/ NodePersist(h)
      <4>1. SaveDoc(f, [doc[f] EXCEPT !.status = "running", !.approval = NoHandle])
          BY <2>1, <3>1 DEF StartRun, NodePersist, DocOf
      <4> QED BY <1>4, <4>1
    <3>2. CASE Raised(h)
      <4>1. PICK s \in {"cancelled", "failed"} :
              SaveDoc(f, [doc[f] EXCEPT !.status = s, !.approval = NoHandle])
          BY <2>1, <3>2 DEF Raised, DocOf
      <4>2. s # "awaiting_approval"
          OBVIOUS
      <4> QED BY <1>4, <4>1, <4>2
    <3> QED BY <2>2, <3>1, <3>2
  <2>3. CASE Finish(h)
    <3>1. \E s : /\ SaveDoc(f, [doc[f] EXCEPT !.status = s, !.approval = NoHandle, !.resume = NoHandle])
                 /\ s # "awaiting_approval"
        BY <2>1, <2>3 DEF Finish, DocOf, Terminal
    <3> QED BY <1>4, <3>1
  <2>4. CASE SaveResume(h) \/ Mirror(h)
    <3>1. (\E q : SaveDoc(f, [doc[f] EXCEPT !.queue = q])) \/ \E q : SaveDoc(f, [doc[f] EXCEPT !.resume = q])
        BY <2>1, <2>4 DEF SaveResume, Mirror, DocOf
    <3> QED BY <1>3, <3>1
  <2>5. CASE Commit(h)
    <3>1. CASE checkpoints[h] = "none"
      <4>1. SaveDoc(f, [doc[f] EXCEPT !.status = "paused", !.approval = NoHandle])
          BY <2>1, <2>5, <3>1 DEF Commit, PausedAs, DocOf
      <4> QED BY <1>4, <4>1
    <3>2. CASE checkpoints[h] # "none"
      <4>1. SaveDoc(f, [doc[f] EXCEPT !.status = "awaiting_approval", !.approval = h])
          BY <2>1, <2>5, <3>2 DEF Commit, PausedAs, DocOf
      <4>2. [doc[f] EXCEPT !.status = "awaiting_approval", !.approval = h].approval = h
        <5>1. doc[f] \in DocRecord
            BY <1>1
        <5> QED BY <5>1 DEF DocRecord
      <4>3. e # f => doc'[e] = doc[e]
          BY <1>2, <4>1
      <4>4. e = f => doc'[e].approval = h
          BY <1>2, <4>1, <4>2
      <4> QED BY <2>1, <4>3, <4>4 DEF Kept
    <3> QED BY <3>1, <3>2
  <2>6. CASE doc' = doc
      BY <1>5, <2>6
  <2> QED BY <1>7, <2>2, <2>3, <2>4, <2>5, <2>6 DEF WorkerStep, AcquireLock, LockRefused, RunToEnd, RunRaises,
          DrainToApproval, DrainToPause, LeaveLoop, CreateCheckpoint, ExitPaused, ExitReleased
<1>8. ASSUME NEW r \in Requests, NewRequest(r) \/ RequestStep(r)
      PROVE  Kept \/ Other
  <2>1. request[r].pc # "idle" =>
          request[r].exec \in Executions /\ active[request[r].exec] \in Handles \cup {NoHandle}
      BY <1>1 DEF Typed, RequestsBuilt
  <2>2. ASSUME NEW f \in Executions, Start(r, f)
        PROVE  Kept \/ Other
    <3>1. SaveDoc(f, [doc[f] EXCEPT !.status = "queued"])
        BY <2>2 DEF Start
    <3> QED BY <1>4, <3>1
  <2>3. CASE ResumeSave(r) \/ ApproveSave(r) \/ Settle(r) \/ CancelPaused(r)
    <3>1. PICK f \in Executions : f = request[r].exec
        BY <2>1, <2>3 DEF ResumeSave, ApproveSave, Settle, CancelPaused, At
    <3>2. CASE doc' = doc
        BY <1>5, <3>2
    <3>3. CASE ResumeSave(r)
      <4>1. SaveDoc(f, [doc[f] EXCEPT !.status = "queued", !.approval = NoHandle])
          BY <3>1, <3>3 DEF ResumeSave
      <4> QED BY <1>4, <4>1
    <3>4. CASE ApproveSave(r) /\ doc' # doc
      <4>1. PICK a : a = request[r].checkpoint
          OBVIOUS
      <4>2. SaveDoc(f, [doc[f] EXCEPT !.status = "queued", !.approval = a])
          BY <3>1, <3>4, <4>1 DEF ApproveSave
      <4> QED BY <1>4, <4>2
    <3>5. CASE Settle(r)
      <4>1. PICK s \in {"none", "failed", "cancelled"}, a \in Handles \cup {NoHandle} :
              s = request[r].target /\ a = request[r].checkpoint
          BY <1>1 DEF RequestRecord
      <4>2. SaveDoc(f, [doc[f] EXCEPT !.status = s, !.approval = a])
          BY <3>1, <3>5, <4>1 DEF Settle, DocFor
      <4>3. s # "awaiting_approval"
          OBVIOUS
      <4> QED BY <1>4, <4>2, <4>3
    <3>6. CASE CancelPaused(r)
      <4>1. SaveDoc(f, [doc[f] EXCEPT !.status = "cancelled", !.approval = NoHandle])
          BY <3>1, <3>6 DEF CancelPaused, DocFor
      <4> QED BY <1>4, <4>1
    <3> QED BY <2>3, <3>2, <3>3, <3>4, <3>5, <3>6
  <2>4. CASE Register(r) \/ ResumeRegister(r) \/ Cleanup(r) \/ CancelMirror(r)
    <3>1. PICK f \in Executions : f = request[r].exec
        BY <2>1, <2>4 DEF Register, ResumeRegister, Cleanup, CancelMirror, At
    <3>2. \/ \E q : SaveDoc(f, [doc[f] EXCEPT !.queue = q])
          \/ \E q : SaveDoc(f, [doc[f] EXCEPT !.resume = q])
          \/ \E q, c : SaveDoc(f, [doc[f] EXCEPT !.queue = q, !.resume = c])
        BY <2>4, <3>1 DEF Register, ResumeRegister, Cleanup, CancelMirror, DocFor
    <3> QED BY <1>3, <3>2
  <2>5. ASSUME NEW h \in Handles, CancelPending(h)
        PROVE  Kept \/ Other
    <3>1. PICK f \in Executions : f = handle[h].exec
        BY <2>5, BuiltExec DEF CancelPending
    <3>2. SaveDoc(f, [doc[f] EXCEPT !.queue = "cancelled", !.status = "cancelled", !.approval = handle[h].from])
        BY <2>5, <3>1 DEF CancelPending, DocOf
    <3> QED BY <1>4, <3>2
  <2>6. CASE NewRequest(r)
    <3>1. \/ \E f \in Executions : Start(r, f)
          \/ \E h \in Handles : CancelPending(h)
          \/ doc' = doc
        BY <1>1, <2>6 DEF NewRequest, StopRead, CancelQueued, PauseRead, ResumeRead, ApproveRead,
                    RejectRead, DecisionRead
    <3> QED BY <1>5, <2>2, <2>5, <3>1
  <2>7. CASE RequestStep(r)
    <3>1. \/ ResumeSave(r) \/ ApproveSave(r) \/ Settle(r) \/ CancelPaused(r)
          \/ Register(r) \/ ResumeRegister(r) \/ Cleanup(r) \/ CancelMirror(r)
          \/ \E h \in Handles : CancelPending(h)
          \/ doc' = doc
        BY <2>1, <2>7 DEF RequestStep, Enqueue, StopSignal, PauseSignal, ResumeSpawn, ApproveExpire,
                ApproveDecide, RejectDecide, CancelDecide, CancelRelease, At
    <3> QED BY <1>5, <2>3, <2>4, <2>5, <3>1
  <2> QED BY <1>8, <2>6, <2>7
<1>9. CASE Boot \/ Crash
  <2>1. CASE Crash
      BY <1>5, <2>1 DEF Crash, Kept
  <2>2. CASE Restore
    <3>1. doc'[e] = IF doc[e].status = "paused" THEN [doc[e] EXCEPT !.queue = "paused"] ELSE doc[e]
        BY <2>2 DEF Restore
    <3>2. doc[e] \in DocRecord
        BY <1>1
    <3> QED BY <3>1, <3>2 DEF DocRecord
  <2>3. CASE Reconcile
    <3>1. /\ doc'[e].status = IF Interrupted(doc[e].status) THEN "failed" ELSE doc[e].status
          /\ doc'[e].approval = doc[e].approval
        BY <2>3 DEF Reconcile
    <3> QED BY <3>1
  <2> QED BY <1>9, <2>1, <2>2, <2>3 DEF Boot
<1>10. \A h \in Handles : (WorkerStep(h) \/ NodePersist(h)) => h <= issued
    BY WorkerHandle, BuiltExec
<1> QED BY <1>6, <1>7, <1>8, <1>9, <1>10 DEF Next, Kept, Other

-----------------------------------------------------------------------------
(* Each part of Traced is kept.                                             *)

\* A run that may still reach a checkpoint could reach it before, and has not.
LEMMA UnreachedBefore ==
    ASSUME Typed, PendingWaits, ResumesAlone, Next, NEW h \in Handles, Unreached(h)'
    PROVE  Unreached(h) /\ ~CreateCheckpoint(h)
<1>1. handle \in [Handles -> HandleRecord] /\ issued \in Nat
    BY PoolTypes
<1>2. issued' \in {issued, issued + 1}
    BY OriginKept
<1>3. ASSUME CreateCheckpoint(h)
      PROVE  FALSE
  <2>1. WorkerStep(h) /\ handle[h].pc = "checkpoint"
      BY <1>3 DEF WorkerStep, CreateCheckpoint, WorkerAt
  <2>2. handle'[h].pc = "save_resume" /\ handle'[h].qrec = handle[h].qrec
      BY <1>1, <1>3 DEF CreateCheckpoint, Step, SetHandle, HandleRecord
  <2>3. UNCHANGED <<issued, request>> /\ h <= issued
      BY <2>1, WorkerHandle, BuiltExec
  <2>4. handle[h].qrec # "pending"
      BY <2>1 DEF PendingWaits
  <2> QED BY <1>1, <2>1, <2>2, <2>3, <2>4 DEF Unreached, ResumesAlone
<1> SUFFICES Unreached(h)
    BY <1>3
<1>4. CASE Dispatch
  <2>1. UNCHANGED <<issued, request>>
      BY <1>4 DEF Dispatch, DispatchNext, DispatchDone
  <2>2. handle'[h] = handle[h] \/ handle[h].qrec = "pending"
    <3>1. CASE handle' = handle
        BY <3>1
    <3>2. CASE handle' # handle
      <4>1. PICK p \in Projects : p = Head(readyProjects)
        <5>1. readyProjects # <<>> /\ readyProjects \in Seq(Projects)
            BY <1>4, <3>2, PoolTypes DEF Dispatch, DispatchNext, DispatchDone, HasRoom
        <5> QED BY <5>1
      <4>2. PICK i \in DOMAIN projectQueues[p] : AdmitFirst(p, i)
          BY <1>4, <3>2, <4>1 DEF Dispatch, DispatchNext, DispatchDone
      <4>3. PICK g \in Handles : g = projectQueues[p][i]
          BY QueuedHandle
      <4> QED BY <1>1, <4>2, <4>3 DEF AdmitFirst, SetHandle
    <3> QED BY <3>1, <3>2
  <2> QED BY <2>1, <2>2 DEF Unreached
<1>5. ASSUME NEW g \in Handles, WorkerStep(g) \/ NodePersist(g)
      PROVE  Unreached(h)
  <2>1. /\ UNCHANGED <<issued, request>> /\ handle[g] \in HandleRecord
        /\ \A x \in Handles \ {g} : handle'[x] = handle[x]
      BY <1>1, <1>5, WorkerHandle
  <2>2. CASE h # g
      BY <2>1, <2>2 DEF Unreached
  <2>3. CASE h = g /\ handle[g].pc \in {"starting", "locking", "running", "checkpoint"}
      BY <2>3 DEF Unreached
  <2>4. CASE h = g /\ handle[g].pc \notin {"starting", "locking", "running", "checkpoint"}
    <3>1. handle'[g].pc \notin {"starting", "locking", "running", "checkpoint"}
      <4>1. \A c, s : SetHandle(g, [handle[g] EXCEPT !.rec = s, !.pc = c]) => handle'[g].pc = c
          BY <1>1, <2>1 DEF HandleRecord, SetHandle
      <4>2. \A c, q : SetHandle(g, [handle[g] EXCEPT !.qrec = q, !.pc = c]) => handle'[g].pc = c
          BY <1>1, <2>1 DEF HandleRecord, SetHandle
      <4>3. \A c : SetHandle(g, [handle[g] EXCEPT !.pc = c]) => handle'[g].pc = c
          BY <1>1, <2>1 DEF HandleRecord, SetHandle
      <4>4. \E c \in {"mirror", "commit", "exit", "idle"} :
              \/ \E s : SetHandle(g, [handle[g] EXCEPT !.rec = s, !.pc = c])
              \/ \E q : SetHandle(g, [handle[g] EXCEPT !.qrec = q, !.pc = c])
              \/ SetHandle(g, [handle[g] EXCEPT !.pc = c])
          BY <1>5, <2>4 DEF WorkerStep, NodePersist, StartRun, AcquireLock, LockRefused, RunToEnd, RunRaises,
             DrainToApproval, DrainToPause, LeaveLoop, Finish, Raised, CreateCheckpoint, SaveResume, Commit,
             Mirror, ExitPaused, ExitReleased, WorkerAt, Step
      <4>5. handle'[g].pc \in {"mirror", "commit", "exit", "idle"}
          BY <4>1, <4>2, <4>3, <4>4
      <4> QED BY <4>5
    <3>2. handle'[g].qrec = "pending" => handle[g].qrec = "pending"
      <4>1. handle[g].pc = "mirror" => QueueStatusOf(handle[g].rec) # "pending"
          BY DEF Typed, HandlesBuilt, QueueStatusOf, Terminal, Durable
      <4> QED BY <1>5, <4>1, WorkerHandle
    <3> QED BY <2>1, <2>4, <3>1, <3>2 DEF Unreached
  <2> QED BY <2>2, <2>3, <2>4
<1>6. ASSUME NEW r \in Requests, NewRequest(r) \/ RequestStep(r)
      PROVE  Unreached(h)
  <2>1. CASE h > issued
      BY <2>1 DEF Unreached
  <2>2. CASE h <= issued /\ handle'[h].pc # handle[h].pc
      BY <1>6, <2>2, RequestHandle DEF Unreached, ResumeSpawn, At
  <2>3. CASE h <= issued /\ handle'[h].pc = handle[h].pc
    <3>1. handle'[h].qrec = "pending" => handle[h].qrec = "pending"
        BY <1>6, <2>3, RequestHandle DEF CancelPending
    <3>2. ASSUME NEW q \in Requests, request'[q].handle = h,
                 request'[q].pc \in {"resume_register", "resume_spawn"}
          PROVE  Unreached(h)
      <4>1. CASE q # r
          BY <1>6, <3>2, <4>1, RequestHandle DEF Unreached
      <4>2. CASE q = r
          BY <1>1, <1>6, <2>3, <3>2, <4>2, RequestGoes DEF Unreached
      <4> QED BY <4>1, <4>2
    <3> QED BY <1>1, <1>2, <2>3, <3>1, <3>2 DEF Unreached
  <2> QED BY <1>1, <2>1, <2>2, <2>3
<1>7. CASE Crash
  <2>1. \A r \in Requests : request'[r].pc = "idle"
      BY <1>7 DEF Crash, Idle
  <2>2. issued' = issued /\ handle'[h].pc = "idle" /\ handle'[h].qrec = handle[h].qrec
      BY <1>1, <1>7 DEF Crash, HandleRecord
  <2> QED BY <2>1, <2>2 DEF Unreached
<1>8. CASE Restore \/ Reconcile
    BY <1>8 DEF Restore, Reconcile, Unreached
<1> QED BY <1>4, <1>5, <1>6, <1>7, <1>8 DEF Next, Boot

\* An approval is not taken back, and no run gets a second checkpoint.
LEMMA CheckpointsFinal ==
    ASSUME Typed, PendingWaits, ResumesAlone, OneCheckpoint, Next
    PROVE  /\ OneCheckpoint'
           /\ \A c \in Handles : checkpoints[c] = "approved" => checkpoints'[c] = "approved" /\ c <= issued
<1>1. OneCheckpoint'
    BY UnreachedBefore, CheckpointsKept DEF OneCheckpoint
<1>2. ASSUME NEW c \in Handles, checkpoints[c] = "approved"
      PROVE  checkpoints'[c] = "approved" /\ c <= issued
  <2>1. ~Unreached(c)
      BY <1>2 DEF OneCheckpoint
  <2>2. ~CreateCheckpoint(c) /\ c <= issued
      BY <2>1, PoolTypes DEF Unreached, CreateCheckpoint, WorkerAt
  <2> QED BY <1>2, <2>2, CheckpointsKept
<1> QED BY <1>1, <1>2

\* The handle a resume built keeps waiting for that request alone.
LEMMA ResumesAloneKept ==
    ASSUME Typed, PendingWaits, ResumesAlone, Next
    PROVE  ResumesAlone'
<1> SUFFICES ASSUME NEW r \in Requests, request'[r].pc \in {"resume_register", "resume_spawn"}
             PROVE  /\ handle'[request'[r].handle].pc = "idle"
                    /\ \A q \in Requests \ {r} :
                         request'[q].pc \in {"resume_register", "resume_spawn"} =>
                           request'[q].handle # request'[r].handle
    BY DEF ResumesAlone
<1>1. handle \in [Handles -> HandleRecord] /\ issued \in Nat /\ MaxCalls \in Nat
      /\ issued' \in 0..MaxCalls
  <2>1. Typed'
      BY NextTyped
  <2> QED BY <2>1, PoolTypes, BoundsAssumption DEF Typed, TypeOK
<1>2. \A q \in Requests : request[q].pc \in {"resume_register", "resume_spawn"} =>
        request[q].handle \in Handles /\ request[q].handle <= issued
    BY <1>1 DEF Typed, TypeOK, RequestsBuilt
<1>3. CASE Dispatch
  <2>1. request' = request
      BY <1>3 DEF Dispatch, DispatchNext, DispatchDone
  <2>2. ASSUME NEW h \in Handles, handle[h].pc = "idle", handle[h].qrec # "pending"
        PROVE  handle'[h] = handle[h]
    <3>1. CASE handle' # handle
      <4>1. PICK p \in Projects : p = Head(readyProjects)
        <5>1. readyProjects # <<>> /\ readyProjects \in Seq(Projects)
            BY <1>3, <3>1, PoolTypes DEF Dispatch, DispatchNext, DispatchDone, HasRoom
        <5> QED BY <5>1
      <4>2. PICK i \in DOMAIN projectQueues[p] : AdmitFirst(p, i)
          BY <1>3, <3>1, <4>1 DEF Dispatch, DispatchNext, DispatchDone
      <4>3. PICK g \in Handles : g = projectQueues[p][i]
          BY QueuedHandle
      <4> QED BY <1>1, <2>2, <4>2, <4>3 DEF AdmitFirst, SetHandle
    <3> QED BY <3>1
  <2> QED BY <1>2, <2>1, <2>2 DEF ResumesAlone, PendingWaits
<1>4. ASSUME NEW g \in Handles, WorkerStep(g) \/ NodePersist(g)
      PROVE  /\ handle'[request'[r].handle].pc = "idle"
             /\ \A q \in Requests \ {r} :
                  request'[q].pc \in {"resume_register", "resume_spawn"} =>
                    request'[q].handle # request'[r].handle
    BY <1>2, <1>4, WorkerHandle DEF ResumesAlone
<1>5. ASSUME NEW s \in Requests, NewRequest(s) \/ RequestStep(s)
      PROVE  /\ handle'[request'[r].handle].pc = "idle"
             /\ \A q \in Requests \ {r} :
                  request'[q].pc \in {"resume_register", "resume_spawn"} =>
                    request'[q].handle # request'[r].handle
  <2>1. /\ \A q \in Requests \ {s} : request'[q] = request[q]
        /\ \A h \in Handles : h <= issued =>
             handle'[h].pc = handle[h].pc \/ (ResumeSpawn(s) /\ h = request[s].handle)
        /\ \A h \in Handles : h > issued => handle'[h].pc = "idle"
      BY <1>5, RequestHandle
  <2>2. request'[s].pc \in {"resume_register", "resume_spawn"} =>
          \/ /\ request[s].pc = "resume_register" /\ request'[s].handle = request[s].handle
             /\ ResumeRegister(s)
          \/ ResumeSave(s) /\ request'[s].handle = issued + 1
      BY <1>5, RequestGoes
  <2>3. ResumeSave(s) => issued + 1 \in Handles
      BY <1>1 DEF ResumeSave, NewHandle
  <2>4. ResumeRegister(s) => handle' = handle
      BY DEF ResumeRegister
  <2>5. CASE s = r
    <3>1. CASE ResumeSave(r) /\ request'[r].handle = issued + 1
        BY <1>1, <1>2, <2>1, <2>3, <2>5, <3>1
    <3>2. CASE /\ request[r].pc = "resume_register" /\ request'[r].handle = request[r].handle
               /\ ResumeRegister(r)
        BY <2>1, <2>4, <2>5, <3>2 DEF ResumesAlone
    <3> QED BY <2>2, <2>5, <3>1, <3>2
  <2>6. CASE s # r
    <3>1. request'[r] = request[r]
        BY <2>1, <2>6
    <3>2. handle'[request[r].handle].pc = "idle"
      <4>1. ResumeSpawn(s) => request[s].handle # request[r].handle
          BY <2>6, <3>1 DEF ResumesAlone, ResumeSpawn, At
      <4> QED BY <1>2, <2>1, <3>1, <4>1 DEF ResumesAlone
    <3>3. ASSUME NEW q \in Requests \ {r}, request'[q].pc \in {"resume_register", "resume_spawn"}
          PROVE  request'[q].handle # request[r].handle
      <4>1. CASE q # s
          BY <2>1, <3>1, <3>3, <4>1 DEF ResumesAlone
      <4>2. CASE q = s
          BY <1>1, <1>2, <2>2, <3>1, <3>3, <4>2 DEF ResumesAlone
      <4> QED BY <4>1, <4>2
    <3> QED BY <3>1, <3>2, <3>3
  <2> QED BY <2>5, <2>6
<1>6. CASE Restore \/ Reconcile
    BY <1>6 DEF Restore, Reconcile, ResumesAlone
<1>7. CASE Crash
    BY <1>7 DEF Crash, Idle
<1> QED BY <1>3, <1>4, <1>5, <1>6, <1>7 DEF Next, Boot

\* The checkpoint a document or a request names stays one of a run of its execution.
LEMMA PointsKept ==
    ASSUME Typed, DocPoints, RequestPoints, Next
    PROVE  DocPoints' /\ RequestPoints'
<1>1. issued \in Nat /\ issued' \in Nat /\ issued <= issued'
    BY PoolTypes, OriginKept
<1>2. \A h \in Handles : h <= issued => h <= issued' /\ handle'[h].exec = handle[h].exec
    BY <1>1, OriginKept
<1>3. ASSUME NEW e \in Executions, doc'[e].status = "awaiting_approval"
      PROVE  /\ doc'[e].approval \in Handles /\ doc'[e].approval <= issued'
             /\ handle'[doc'[e].approval].exec = e
  <2>1. CASE doc[e].status = "awaiting_approval" /\ doc'[e].approval = doc[e].approval
      BY <1>2, <2>1 DEF DocPoints
  <2>2. CASE \E h \in Handles : h <= issued /\ handle[h].exec = e /\ doc'[e].approval = h
      BY <1>2, <2>2
  <2> QED BY <1>3, <2>1, <2>2, ApprovalWritten
<1>4. ASSUME NEW r \in Requests, request'[r].pc \in Deciding
      PROVE  /\ request'[r].checkpoint \in Handles /\ request'[r].checkpoint <= issued'
             /\ handle'[request'[r].checkpoint].exec = request'[r].exec
  <2>1. CASE request'[r] = request[r]
      BY <1>2, <1>4, <2>1 DEF RequestPoints
  <2>2. CASE NewRequest(r) \/ RequestStep(r)
    <3>1. CASE /\ request[r].pc \in Deciding
               /\ request'[r].checkpoint = request[r].checkpoint /\ request'[r].exec = request[r].exec
        BY <1>2, <3>1 DEF RequestPoints
    <3>2. CASE /\ request'[r].exec \in Executions
               /\ doc[request'[r].exec].status = "awaiting_approval"
               /\ request'[r].checkpoint = doc[request'[r].exec].approval
        BY <1>2, <3>2 DEF DocPoints
    <3> QED BY <1>4, <2>2, <3>1, <3>2, RequestGoes
  <2> QED BY <1>4, <2>1, <2>2, OneRequestMoves DEF Deciding
<1> QED BY <1>3, <1>4 DEF DocPoints, RequestPoints

\* An approval is granted to one request, and stays unused until that one uses it.
LEMMA GrantedKept ==
    ASSUME Typed, PendingWaits, Traced, Next
    PROVE  Granted'
<1> SUFFICES ASSUME NEW r \in Requests, request'[r].pc = "approve_save"
             PROVE  /\ checkpoints'[request'[r].checkpoint] = "approved"
                    /\ \A h \in Handles : handle'[h].from # request'[r].checkpoint
                    /\ \A q \in Requests \ {r} :
                         request'[q].pc = "approve_save" => request'[q].checkpoint # request'[r].checkpoint
    BY DEF Granted
<1>1. /\ checkpoints \in [Handles -> {"none", "awaiting", "approved", "rejected", "expired"}]
      /\ issued \in Nat
    BY DEF Typed, TypeOK
<1>2. ASSUME NEW s \in Requests, ApproveSave(s), request'[s].pc = "register"
      PROVE  s # r
    BY <1>2
<1>3. CASE request'[r] = request[r]
  <2>1. PICK c \in Handles : c = request[r].checkpoint
      BY <1>3 DEF Traced, RequestPoints, Deciding
  <2>2. /\ checkpoints[c] = "approved"
        /\ \A h \in Handles : handle[h].from # c
        /\ \A q \in Requests \ {r} : request[q].pc = "approve_save" => request[q].checkpoint # c
      BY <1>3, <2>1 DEF Traced, Granted
  <2>3. checkpoints'[c] = "approved"
      BY <2>2, CheckpointsFinal DEF Traced
  <2>4. ASSUME NEW h \in Handles
        PROVE  handle'[h].from # c
    <3>1. \/ handle'[h].from \in {handle[h].from, NoHandle}
          \/ \E s \in Requests : /\ ApproveSave(s) /\ request'[s].pc = "register"
                                 /\ handle'[h].from = request[s].checkpoint
        BY <1>1, OriginKept
    <3>2. \A s \in Requests : ApproveSave(s) /\ request'[s].pc = "register" => request[s].checkpoint # c
        BY <1>2, <2>2 DEF ApproveSave, At
    <3> QED BY <2>2, <3>1, <3>2
  <2>5. ASSUME NEW q \in Requests \ {r}, request'[q].pc = "approve_save"
        PROVE  request'[q].checkpoint # c
    <3>1. CASE request'[q] = request[q]
        BY <2>2, <2>5, <3>1
    <3>2. CASE NewRequest(q) \/ RequestStep(q)
        BY <2>2, <2>5, <3>2, RequestGoes DEF IsAwaiting
    <3> QED BY <2>5, <3>1, <3>2, OneRequestMoves
  <2> QED BY <1>3, <2>1, <2>3, <2>4, <2>5
<1>4. CASE /\ NewRequest(r) \/ RequestStep(r)
           /\ \A q \in Requests \ {r} : request'[q] = request[q]
  <2>1. /\ IsAwaiting(r) /\ request[r].pc = "approve_decide"
        /\ request'[r].checkpoint = request[r].checkpoint
        /\ checkpoints' = [checkpoints EXCEPT ![request[r].checkpoint] = "approved"]
      BY <1>4, RequestGoes
  <2>2. PICK c \in Handles : c = request[r].checkpoint
      BY <2>1 DEF Traced, RequestPoints, Deciding
  <2>3. checkpoints[c] = "awaiting" /\ checkpoints'[c] = "approved"
      BY <1>1, <2>1, <2>2 DEF IsAwaiting
  <2>4. ASSUME NEW h \in Handles
        PROVE  handle'[h].from # c
    <3>1. \/ handle'[h].from \in {handle[h].from, NoHandle}
          \/ \E s \in Requests : ApproveSave(s) /\ request'[s].pc = "register"
        BY <1>1, OriginKept
    <3>2. \A s \in Requests : ~(ApproveSave(s) /\ request'[s].pc = "register")
        BY <1>2, <1>4 DEF ApproveSave, At
    <3>3. handle[h].from # c
        BY <2>3 DEF Traced, OnlyApprovedResumes
    <3> QED BY <3>1, <3>2, <3>3
  <2>5. ASSUME NEW q \in Requests \ {r}, request'[q].pc = "approve_save"
        PROVE  request'[q].checkpoint # c
      BY <1>4, <2>3, <2>5 DEF Traced, Granted
  <2> QED BY <2>1, <2>2, <2>3, <2>4, <2>5
<1> QED BY <1>3, <1>4, OneRequestMoves

\* A continuation is built once, for the checkpoint its request got approved.
LEMMA ResumesKept ==
    ASSUME Typed, PendingWaits, Traced, Next
    PROVE  OnlyApprovedResumes' /\ Fresh'
<1>1. issued \in Nat /\ issued' \in {issued, issued + 1}
    BY PoolTypes, OriginKept
<1>2. ASSUME NEW h \in Handles, handle'[h].from # NoHandle
      PROVE  \/ h <= issued /\ handle[h].from = handle'[h].from
             \/ \E r \in Requests : /\ ApproveSave(r) /\ h = issued + 1 /\ issued' = issued + 1
                                    /\ handle'[h].from = request[r].checkpoint
                                    /\ handle'[h].exec = request[r].exec
    BY <1>1, <1>2, OriginKept DEF Traced, Fresh
<1>3. Fresh'
    BY <1>1, <1>2 DEF Fresh
<1>4. ASSUME NEW c \in Handles, checkpoints[c] = "approved"
      PROVE  checkpoints'[c] = "approved" /\ handle'[c].exec = handle[c].exec
    BY <1>4, CheckpointsFinal, OriginKept DEF Traced
<1>5. ASSUME NEW r \in Requests, ApproveSave(r)
      PROVE  /\ request[r].checkpoint \in Handles
             /\ checkpoints[request[r].checkpoint] = "approved"
             /\ handle[request[r].checkpoint].exec = request[r].exec
             /\ \A h \in Handles : handle[h].from # request[r].checkpoint
    BY <1>5 DEF ApproveSave, At, Traced, RequestPoints, Granted, Deciding
<1>6. ASSUME NEW h \in Handles, handle'[h].from # NoHandle
      PROVE  /\ checkpoints'[handle'[h].from] = "approved"
             /\ handle'[handle'[h].from].exec = handle'[h].exec
             /\ \A g \in Handles : handle'[g].from = handle'[h].from => g = h
  <2>1. CASE h <= issued /\ handle[h].from = handle'[h].from
    <3>1. /\ checkpoints[handle[h].from] = "approved"
          /\ handle[handle[h].from].exec = handle[h].exec
          /\ \A g \in Handles : handle[g].from = handle[h].from => g = h
        BY <1>6, <2>1 DEF Traced, OnlyApprovedResumes
    <3>2. handle[h].from \in Handles /\ handle'[h].exec = handle[h].exec
      <4>1. handle[h].from \in Handles \cup {NoHandle}
          BY PoolTypes DEF HandleRecord
      <4> QED BY <1>6, <2>1, <4>1, OriginKept
    <3>3. \A g \in Handles : handle'[g].from = handle'[h].from => g = h
        BY <1>2, <1>5, <1>6, <2>1, <3>1
    <3> QED BY <1>4, <2>1, <3>1, <3>2, <3>3
  <2>2. ASSUME NEW r \in Requests, ApproveSave(r), h = issued + 1,
               handle'[h].from = request[r].checkpoint, handle'[h].exec = request[r].exec
        PROVE  /\ checkpoints'[handle'[h].from] = "approved"
               /\ handle'[handle'[h].from].exec = handle'[h].exec
               /\ \A g \in Handles : handle'[g].from = handle'[h].from => g = h
    <3>1. \A g \in Handles : handle'[g].from = handle'[h].from => g = h
        BY <1>2, <1>5, <1>6, <2>2
    <3> QED BY <1>4, <1>5, <2>2, <3>1
  <2> QED BY <1>2, <1>6, <2>1, <2>2
<1> QED BY <1>3, <1>6 DEF OnlyApprovedResumes

\* These facts hold together in every state.
LEMMA AlwaysTraced == Spec => []Traced
<1>1. Init => Traced
  <2> SUFFICES ASSUME Init PROVE Traced
      OBVIOUS
  <2>1. OnlyApprovedResumes /\ Fresh
      BY DEF Init, OnlyApprovedResumes, Fresh
  <2>2. DocPoints
      BY DEF Init, DocPoints
  <2>3. RequestPoints /\ Granted /\ ResumesAlone
      BY DEF Init, RequestPoints, Granted, ResumesAlone, Deciding, Idle
  <2>4. OneCheckpoint
      BY DEF Init, OneCheckpoint
  <2> QED BY <2>1, <2>2, <2>3, <2>4 DEF Traced
<1>2. Typed /\ Moving /\ Traced /\ [Next]_vars => Traced'
  <2> SUFFICES ASSUME Typed, Moving, Traced, [Next]_vars PROVE Traced'
      OBVIOUS
  <2>1. CASE UNCHANGED vars
      BY <2>1 DEF vars, pool, Traced, OnlyApprovedResumes, DocPoints, RequestPoints, Granted,
                  OneCheckpoint, ResumesAlone, Fresh, Unreached
  <2>2. CASE Next
    <3>1. PendingWaits
        BY DEF Moving
    <3> QED BY <2>2, <3>1, ResumesKept, GrantedKept, PointsKept, CheckpointsFinal, ResumesAloneKept DEF Traced
  <2> QED BY <2>1, <2>2
<1> QED BY <1>1, <1>2, AlwaysTyped, AlwaysMoving, PTL DEF Spec

\* Whatever approvals, rejections, expiries, cancels, resumes and kills race: a run
\* continues from a checkpoint only once that one is approved, in the execution whose
\* run created it, and no second run continues from it (decide_checkpoint under
\* _LOCK, _decide_and_resume, _create_awaiting_checkpoint).
THEOREM ApprovedOnce == Spec => []OnlyApprovedResumes
<1>1. Traced => OnlyApprovedResumes
    BY DEF Traced
<1> QED BY <1>1, AlwaysTraced, PTL

-----------------------------------------------------------------------------
(***************************************************************************)
(* A durable pause, for one operator at a time.  Whoever may still write   *)
(* the status of an execution is its latest handle, while the document is  *)
(* in flight, or the one request at work, while it rests: so a pause that  *)
(* is on disk stays what its run left until a request takes it up.         *)
(***************************************************************************)

\* A handle on its way to a thread: in a queue, known as the active one, or in the
\* hands of the request that built it.
Waits(h) == /\ handle[h].qrec = "pending"
            /\ (\E p \in Projects : h \in InQueue(p)) \/ \E e \in Executions : active[e] = h
Coming(h) == Waits(h) \/ \E r \in Requests : Carried(r, h)

\* A handle that may still write how its execution ends or rests.
Live(h) == handle[h].pc \in Early \/ Coming(h)

\* It is the last one of its execution.
Latest == \A h \in Handles : Live(h) =>
            \A g \in Handles : handle[g].exec = handle[h].exec => g <= h

\* Its document is in flight.
Held == \A h \in Handles :
          /\ handle[h].pc \in Early =>
               \/ DocOf(h).status = "running"
               \/ handle[h].pc = "starting" /\ DocOf(h).status = "queued"
          /\ Coming(h) => DocOf(h).status = "queued"

\* A handle that was not built has no execution.
Unbuilt == \A h \in Handles : h > issued => handle[h].exec = NoExecution

\* A process that boots has no handle on its way.
BootDead == phase # "up" => \A h \in Handles : ~Coming(h)

\* What a request found on disk is still there when it acts on it.
Judging == Deciding \cup {"settle"}
Found(r) ==
    /\ request[r].pc \in Judging =>
         /\ DocFor(r).status = "awaiting_approval"
         /\ DocFor(r).approval = request[r].checkpoint
         /\ request[r].target \in {"failed", "cancelled"}
    /\ request[r].pc = "settle" => checkpoints[request[r].checkpoint] # "awaiting"
    /\ request[r].pc \in {"resume_save", "cancel_paused"} => DocFor(r).status = "paused"
    /\ request[r].pc \in {"cancel_mirror", "cancel_release"} => DocFor(r).status = "cancelled"
    /\ request[r].pc = "cleanup" => DocFor(r).status \in Terminal
StillFound == \A r \in Requests : Found(r)

\* A run saves its resume state before it commits the pause.
SavedFirst == \A h \in Handles : handle[h].pc = "commit" => DocOf(h).resume = h

Steady ==
    /\ Latest /\ Held /\ Unbuilt /\ BootDead /\ StillFound
    /\ SavedFirst /\ PausePointOnDisk

\* A handle on its way was built and has no thread.
LEMMA ComingIdle ==
    ASSUME Typed, PendingWaits, ResumesAlone, NEW h \in Handles, Coming(h)
    PROVE  handle[h].pc = "idle" /\ h <= issued /\ handle[h].exec \in Executions
<1>1. CASE handle[h].qrec = "pending"
    BY <1>1, BuiltExec DEF PendingWaits
<1>2. ASSUME NEW r \in Requests, request[r].handle = h, request[r].pc \in {"resume_register", "resume_spawn"}
      PROVE  handle[h].pc = "idle" /\ h <= issued /\ handle[h].exec \in Executions
  <2>1. h <= issued
      BY <1>2, PoolTypes DEF Typed, RequestsBuilt
  <2> QED BY <1>2, <2>1, BuiltExec DEF ResumesAlone
<1> QED BY <1>1, <1>2 DEF Coming, Waits, Carried

\* A live handle was built.
LEMMA LiveBuilt ==
    ASSUME Typed, PendingWaits, ResumesAlone, NEW h \in Handles, Live(h)
    PROVE  h <= issued /\ handle[h].exec \in Executions
BY ComingIdle, BuiltExec DEF Live, Early, WorkerPcs

\* No two live handles belong to one execution.
LEMMA OneLive ==
    ASSUME Typed, Latest, NEW g \in Handles, NEW h \in Handles, Live(g), Live(h),
           handle[g].exec = handle[h].exec
    PROVE  g = h
<1>1. g <= h /\ h <= g
    BY DEF Latest
<1>2. g \in Nat /\ h \in Nat
    BY BoundsAssumption
<1> QED BY <1>1, <1>2

\* A step changes a document only through its live handle, through the request that
\* starts, continues or ends it, or at a restart.
LEMMA Writers ==
    ASSUME Typed, Next, NEW e \in Executions, ~Unwritten(e)
    PROVE  \/ \E h \in Handles : /\ handle[h].exec = e /\ handle[h].pc \in Early
                                 /\ WorkerStep(h) \/ NodePersist(h)
           \/ \E h \in Handles : /\ handle[h].exec = e /\ Waits(h) /\ handle'[h].qrec # "pending"
                                 /\ \/ doc'[e].status = "running" /\ handle'[h].pc = "starting"
                                    \/ doc'[e].status = "cancelled" /\ handle'[h].pc = handle[h].pc
           \/ Reconcile /\ Interrupted(doc[e].status)
           \/ \E r \in Requests :
                \/ Start(r, e) /\ doc'[e].status = "queued"
                \/ /\ request[r].exec = e
                   /\ \/ (ApproveSave(r) \/ ResumeSave(r)) /\ doc'[e].status = "queued"
                      \/ Settle(r) /\ doc'[e].status = request[r].target
                      \/ Cleanup(r) /\ doc'[e].status = doc[e].status
                      \/ CancelPaused(r) /\ doc'[e].status = "cancelled"
                      \/ CancelMirror(r) /\ doc'[e].status = doc[e].status
<1>1. handle \in [Handles -> HandleRecord]
    BY PoolTypes
<1>2. doc'[e] # doc[e]
    BY DEF Unwritten
<1>3. CASE Dispatch
  <2>1. PICK p \in Projects : \E h \in InQueue(p) :
          /\ h \in Handles /\ handle[h].exec = e /\ handle[h].qrec = "pending"
          /\ handle'[h].qrec = "running" /\ handle'[h].pc = "starting" /\ doc'[e].status = "running"
      BY <1>2, <1>3, AdmitDoc
  <2>2. \A h \in InQueue(p) : handle[h].qrec = "pending" => Waits(h)
      BY DEF Waits
  <2> QED BY <2>1, <2>2
<1>4. ASSUME NEW h \in Handles, WorkerStep(h) \/ NodePersist(h)
      PROVE  handle[h].exec = e /\ handle[h].pc \in Early
  <2>1. handle[h].exec = e /\ handle[h].pc \notin {"mirror", "exit"}
      BY <1>2, <1>4, WorkerDoc
  <2>2. handle[h].pc \in WorkerPcs
      BY <1>1, <1>4, WorkerHandle DEF HandleRecord
  <2> QED BY <2>1, <2>2 DEF Early
<1>5. ASSUME NEW r \in Requests, NewRequest(r) \/ RequestStep(r)
      PROVE  \/ \E h \in Handles : /\ handle[h].exec = e /\ Waits(h) /\ handle'[h].qrec # "pending"
                                   /\ doc'[e].status = "cancelled" /\ handle'[h].pc = handle[h].pc
             \/ Start(r, e) /\ doc'[e].status = "queued"
             \/ /\ request[r].exec = e
                /\ \/ (ApproveSave(r) \/ ResumeSave(r)) /\ doc'[e].status = "queued"
                   \/ Settle(r) /\ doc'[e].status = request[r].target
                   \/ Cleanup(r) /\ doc'[e].status = doc[e].status
                   \/ CancelPaused(r) /\ doc'[e].status = "cancelled"
                   \/ CancelMirror(r) /\ doc'[e].status = doc[e].status
  <2>1. CASE \E h \in Handles : /\ CancelPending(h) /\ \E f \in Executions : active[f] = h
                                /\ handle[h].exec = e /\ doc'[e].status = "cancelled"
    <3>1. PICK h \in Handles : /\ CancelPending(h) /\ \E f \in Executions : active[f] = h
                               /\ handle[h].exec = e /\ doc'[e].status = "cancelled"
        BY <2>1
    <3>2. Waits(h)
        BY <3>1 DEF Waits, CancelPending
    <3>3. handle'[h].qrec = "cancelled" /\ handle'[h].pc = handle[h].pc
        BY <1>1, <3>1 DEF CancelPending, SetHandle, HandleRecord
    <3> QED BY <3>1, <3>2, <3>3
  <2>2. CASE \E f \in Executions : Start(r, f) /\ doc'[f].status = "queued" /\ f = e
      BY <2>2
  <2> QED BY <1>2, <1>5, <2>1, <2>2, RequestDoc
<1>6. CASE Crash \/ Boot
    BY <1>6, RestartDoc DEF Boot, Unwritten
<1> QED BY <1>3, <1>4, <1>5, <1>6 DEF Next

\* A document at rest is changed by a request that works on it, and by nobody else.
LEMMA RestStable ==
    ASSUME Typed, Held, Next, NEW e \in Executions, ~Interrupted(doc[e].status), ~Unwritten(e)
    PROVE  \E r \in Requests :
                \/ Start(r, e) /\ doc'[e].status = "queued"
                \/ /\ request[r].exec = e
                   /\ \/ (ApproveSave(r) \/ ResumeSave(r)) /\ doc'[e].status = "queued"
                      \/ Settle(r) /\ doc'[e].status = request[r].target
                      \/ Cleanup(r) /\ doc'[e].status = doc[e].status
                      \/ CancelPaused(r) /\ doc'[e].status = "cancelled"
                      \/ CancelMirror(r) /\ doc'[e].status = doc[e].status
<1>1. ASSUME NEW h \in Handles, handle[h].exec = e
      PROVE  handle[h].pc \notin Early /\ ~Waits(h)
    BY <1>1 DEF Held, Coming, DocOf, Interrupted
<1> QED BY <1>1, Writers

\* A document in flight is changed by its one live handle, and by nobody else.
LEMMA LiveStable ==
    ASSUME Typed, PendingWaits, ResumesAlone, Latest, Held, BootDead, StillFound, Next,
           NEW h \in Handles, Live(h), ~Unwritten(handle[h].exec)
    PROVE  \/ handle[h].pc \in Early /\ (WorkerStep(h) \/ NodePersist(h))
           \/ /\ Waits(h) /\ handle'[h].qrec # "pending"
              /\ \/ doc'[handle[h].exec].status = "running" /\ handle'[h].pc = "starting"
                 \/ doc'[handle[h].exec].status = "cancelled" /\ handle'[h].pc = handle[h].pc
<1>1. PICK e \in Executions : e = handle[h].exec
    BY LiveBuilt
<1>2. Interrupted(doc[e].status)
    BY <1>1 DEF Live, Held, DocOf, Interrupted
<1>3. ASSUME NEW g \in Handles, handle[g].exec = e, Live(g)
      PROVE  g = h
    BY <1>1, <1>3, OneLive
<1>4. ~Reconcile
  <2>1. handle[h].pc = "idle" => Coming(h)
      BY DEF Live, Early, WorkerPcs
  <2> QED BY <2>1 DEF Reconcile, Typed, BootQuiet, BootDead
<1>5. ASSUME NEW r \in Requests, Start(r, e) \/ (request[r].exec = e /\
               (ApproveSave(r) \/ ResumeSave(r) \/ Settle(r) \/ Cleanup(r) \/ CancelPaused(r) \/ CancelMirror(r)))
      PROVE  FALSE
  <2>1. ~Start(r, e)
      BY <1>2 DEF Start, Interrupted
  <2>2. request[r].pc \in {"approve_save", "resume_save", "settle", "cleanup", "cancel_paused", "cancel_mirror"}
      BY <1>5, <2>1 DEF ApproveSave, ResumeSave, Settle, Cleanup, CancelPaused, CancelMirror, At
  <2>3. doc[e].status \in {"awaiting_approval", "paused", "cancelled"} \cup Terminal
      BY <1>5, <2>1, <2>2 DEF StillFound, Found, Judging, Deciding, DocFor
  <2> QED BY <1>2, <2>3 DEF Interrupted, Terminal
<1>6. \A g \in Handles : handle[g].pc \in Early \/ Waits(g) => Live(g)
    BY DEF Live, Coming
<1> QED BY <1>1, <1>3, <1>4, <1>5, <1>6, Writers

\* A handle is pending from the moment it is built, or never.
LEMMA PendingFrom ==
    ASSUME Typed, Next, NEW h \in Handles, handle'[h].qrec = "pending"
    PROVE  handle[h].qrec = "pending" \/ (h = issued + 1 /\ issued' = issued + 1)
<1>1. handle \in [Handles -> HandleRecord] /\ issued \in Nat
    BY PoolTypes
<1>2. CASE h > issued
  <2>1. Typed'
      BY NextTyped
  <2>2. h <= issued'
      BY <2>1, PoolTypes DEF Typed, HandlesBuilt, TypeOK
  <2> QED BY <1>1, <1>2, <2>2, OriginKept
<1>3. CASE h <= issued
  <2>1. CASE Dispatch
      BY <2>1, AdmitDoc
  <2>2. ASSUME NEW g \in Handles, WorkerStep(g) \/ NodePersist(g)
        PROVE  handle[h].qrec = "pending"
    <3>1. handle[h].pc = "mirror" => QueueStatusOf(handle[h].rec) # "pending"
        BY DEF Typed, HandlesBuilt, Terminal, Durable, QueueStatusOf
    <3> QED BY <2>2, <3>1, WorkerHandle
  <2>3. ASSUME NEW r \in Requests, NewRequest(r) \/ RequestStep(r)
        PROVE  handle[h].qrec = "pending"
      BY <1>3, <2>3, RequestHandle DEF CancelPending
  <2>4. CASE Crash
    <3>1. handle'[h] = [handle[h] EXCEPT !.pc = "idle"]
        BY <2>4 DEF Crash
    <3> QED BY <1>1, <3>1 DEF HandleRecord
  <2>5. CASE Boot
      BY <2>5 DEF Boot, Restore, Reconcile
  <2> QED BY <2>1, <2>2, <2>3, <2>4, <2>5 DEF Next
<1> QED BY <1>1, <1>2, <1>3

\* The active handle of an execution is the one its request registered.
LEMMA ActiveFrom ==
    ASSUME Typed, Next, NEW e \in Executions, NEW h \in Handles, active'[e] = h
    PROVE  \/ active[e] = h
           \/ \E r \in Requests : (Register(r) \/ ResumeRegister(r)) /\ request[r].handle = h
<1>1. active \in [Executions -> Handles \cup {NoHandle}]
    BY DEF Typed, TypeOK
<1>2. CASE active' = active
    BY <1>2
<1>3. CASE Dispatch \/ Boot
    BY <1>2, <1>3 DEF Dispatch, DispatchNext, DispatchDone, Boot, Restore, Reconcile
<1>4. CASE Crash
    BY <1>4 DEF Crash
<1>5. ASSUME NEW g \in Handles, WorkerStep(g) \/ NodePersist(g)
      PROVE  active' = active
    BY <1>5 DEF WorkerStep, NodePersist, StartRun, AcquireLock, LockRefused, RunToEnd, RunRaises,
                DrainToApproval, DrainToPause, LeaveLoop, Finish, Raised, CreateCheckpoint, SaveResume,
                Commit, Mirror, ExitPaused, ExitReleased
<1>6. ASSUME NEW r \in Requests, NewRequest(r) \/ RequestStep(r)
      PROVE  \/ active' = active
             \/ \E x : active' = [active EXCEPT ![x] = NoHandle]
             \/ (Register(r) \/ ResumeRegister(r))
                  /\ active' = [active EXCEPT ![request[r].exec] = request[r].handle]
    BY <1>6 DEF NewRequest, RequestStep, Start, StopRead, CancelQueued, PauseRead, ResumeRead, ApproveRead,
                RejectRead, DecisionRead, Register, Enqueue, StopSignal, PauseSignal, ResumeSave,
                ResumeRegister, ResumeSpawn, ApproveExpire, ApproveDecide, ApproveSave, RejectDecide,
                CancelDecide, Settle, Cleanup, CancelPaused, CancelMirror, CancelRelease
<1> QED BY <1>1, <1>2, <1>3, <1>4, <1>5, <1>6 DEF Next

\* A handle is on its way from the moment it is built, or never.
LEMMA ComingBefore ==
    ASSUME Typed, Next, NEW h \in Handles, Coming(h)'
    PROVE  Coming(h) \/ (h = issued + 1 /\ issued' = issued + 1)
<1>1. SUFFICES ASSUME ~(h = issued + 1 /\ issued' = issued + 1)
               PROVE  Coming(h)
    OBVIOUS
<1>2. handle'[h].qrec = "pending" => handle[h].qrec = "pending"
    BY <1>1, PendingFrom
<1>3. ASSUME handle'[h].qrec = "pending", NEW p \in Projects, h \in InQueue(p)'
      PROVE  Coming(h)
  <2>1. CASE h \in InQueue(p)
      BY <1>2, <1>3, <2>1 DEF Coming, Waits
  <2>2. ASSUME NEW r \in Requests, Enqueue(r), h = request[r].handle
        PROVE  Coming(h)
      BY <1>2, <1>3, <2>2 DEF Enqueue, At, Coming, Carried
  <2> QED BY <1>3, <2>1, <2>2, QueueFrom
<1>4. ASSUME handle'[h].qrec = "pending", NEW e \in Executions, active'[e] = h
      PROVE  Coming(h)
  <2>1. CASE active[e] = h
      BY <1>2, <1>4, <2>1 DEF Coming, Waits
  <2>2. ASSUME NEW r \in Requests, Register(r) \/ ResumeRegister(r), request[r].handle = h
        PROVE  Coming(h)
      BY <1>2, <1>4, <2>2 DEF Register, ResumeRegister, At, Coming, Carried
  <2> QED BY <1>4, <2>1, <2>2, ActiveFrom
<1>5. ASSUME NEW r \in Requests, request'[r].handle = h,
             \/ request'[r].pc \in {"register", "enqueue"} /\ handle'[h].qrec = "pending"
             \/ request'[r].pc \in {"resume_register", "resume_spawn"}
      PROVE  Coming(h)
  <2>1. CASE request'[r] = request[r]
      BY <1>2, <1>5, <2>1 DEF Coming, Carried
  <2>2. CASE NewRequest(r) \/ RequestStep(r)
    <3>1. \A e \in Executions : StopPath(doc[e].status) \notin
            {"register", "enqueue", "resume_register", "resume_spawn"}
        BY DEF StopPath
    <3>2. \/ \E e \in Executions : Start(r, e) /\ h = issued + 1
          \/ Register(r) /\ request'[r].pc = "enqueue" /\ request[r].handle = h
          \/ ResumeRegister(r) /\ request[r].handle = h
          \/ h = issued + 1 /\ (ResumeSave(r) \/ (ApproveSave(r) /\ request'[r].pc = "register"))
        BY <1>5, <2>2, <3>1, RequestPath
    <3>3. CASE Register(r) /\ request'[r].pc = "enqueue" /\ request[r].handle = h
        BY <1>2, <1>5, <3>3 DEF Register, At, Coming, Carried
    <3>4. CASE ResumeRegister(r) /\ request[r].handle = h
        BY <3>4 DEF ResumeRegister, At, Coming, Carried
    <3> QED BY <1>1, <3>2, <3>3, <3>4, RequestBuilds
  <2> QED BY <1>5, <2>1, <2>2, OneRequestMoves
<1>6. Coming(h)' = \/ /\ handle'[h].qrec = "pending"
                      /\ \/ \E p \in Projects : h \in InQueue(p)'
                         \/ \E e \in Executions : active'[e] = h
                   \/ \E r \in Requests :
                        /\ request'[r].handle = h
                        /\ \/ request'[r].pc \in {"register", "enqueue"} /\ handle'[h].qrec = "pending"
                           \/ request'[r].pc \in {"resume_register", "resume_spawn"}
    BY DEF Coming, Waits, Carried
<1> QED BY <1>3, <1>4, <1>5, <1>6

\* A thread begins with a handle that was on its way.
LEMMA EarlyBefore ==
    ASSUME Typed, Next, NEW h \in Handles, handle'[h].pc \in Early
    PROVE  handle[h].pc \in Early \/ (Coming(h) /\ handle'[h].pc = "starting")
<1>1. handle \in [Handles -> HandleRecord]
    BY PoolTypes
<1>2. "idle" \notin Early /\ "mirror" \notin Early /\ "exit" \notin Early
    BY DEF Early, WorkerPcs
<1>3. CASE Dispatch
  <2>1. CASE handle'[h] = handle[h]
      BY <2>1
  <2>2. ASSUME NEW p \in Projects, h \in InQueue(p), handle[h].qrec = "pending"
        PROVE  Coming(h)
      BY <2>2 DEF Coming, Waits
  <2> QED BY <1>3, <2>1, <2>2, AdmitDoc
<1>4. ASSUME NEW g \in Handles, WorkerStep(g) \/ NodePersist(g)
      PROVE  handle[h].pc \in Early
  <2>1. CASE g # h
      BY <1>4, <2>1, WorkerHandle
  <2>2. CASE g = h
    <3>1. handle[h].pc # "idle" /\ handle[h].pc \in {"idle"} \cup WorkerPcs
        BY <1>1, <1>4, <2>2, WorkerHandle DEF HandleRecord
    <3>2. handle[h].pc \notin {"mirror", "exit"}
      <4>1. handle[h].pc \in {"mirror", "exit"} => handle'[h].pc \in {"exit", "idle"}
          BY <1>4, <2>2, WorkerDoc
      <4> QED BY <1>2, <4>1
    <3> QED BY <3>1, <3>2 DEF Early
  <2> QED BY <2>1, <2>2
<1>5. ASSUME NEW r \in Requests, NewRequest(r) \/ RequestStep(r)
      PROVE  handle[h].pc \in Early \/ (Coming(h) /\ handle'[h].pc = "starting")
  <2>1. h <= issued /\ (handle'[h].pc = handle[h].pc \/ (ResumeSpawn(r) /\ h = request[r].handle))
    <3>1. h <= issued \/ h > issued
        BY PoolTypes
    <3> QED BY <1>2, <1>5, <3>1, RequestHandle
  <2>2. CASE ResumeSpawn(r) /\ h = request[r].handle
    <3>1. Coming(h)
        BY <2>2 DEF ResumeSpawn, At, Coming, Carried
    <3>2. handle'[h].pc = "starting"
      <4>1. handle[h] \in HandleRecord
          BY <1>1
      <4> QED BY <1>1, <2>2, <4>1 DEF ResumeSpawn, Step, SetHandle, HandleRecord
    <3> QED BY <3>1, <3>2
  <2> QED BY <2>1, <2>2
<1>6. CASE Crash
  <2>1. handle'[h].pc = "idle"
    <3>1. handle[h] \in HandleRecord
        BY <1>1
    <3> QED BY <1>6, <3>1 DEF Crash, HandleRecord
  <2> QED BY <1>2, <2>1
<1>7. CASE Boot
    BY <1>7 DEF Boot, Restore, Reconcile
<1> QED BY <1>3, <1>4, <1>5, <1>6, <1>7 DEF Next

\* A thread at work moves by its own steps.
LEMMA ThreadKept ==
    ASSUME Typed, PendingWaits, ResumesAlone, Next, NEW h \in Handles,
           handle[h].pc \in Early, handle'[h].pc \in Early
    PROVE  handle'[h].pc = handle[h].pc \/ WorkerStep(h) \/ NodePersist(h)
<1>1. handle[h].pc # "idle" /\ handle'[h].pc # "idle"
    BY DEF Early, WorkerPcs
<1>2. CASE Dispatch
    BY <1>1, <1>2, AdmitDoc DEF PendingWaits
<1>3. ASSUME NEW g \in Handles, WorkerStep(g) \/ NodePersist(g), g # h
      PROVE  handle'[h].pc = handle[h].pc
    BY <1>3, WorkerHandle
<1>4. ASSUME NEW r \in Requests, NewRequest(r) \/ RequestStep(r)
      PROVE  handle'[h].pc = handle[h].pc
    BY <1>1, <1>4, LeftAlone DEF ResumesAlone, ResumeSpawn, At
<1>5. CASE Crash \/ Boot
  <2>1. CASE Crash
    <3>1. handle'[h] = [handle[h] EXCEPT !.pc = "idle"] /\ handle[h] \in HandleRecord
        BY <2>1, PoolTypes DEF Crash
    <3> QED BY <1>1, <3>1 DEF HandleRecord
  <2>2. CASE Boot
      BY <2>2 DEF Boot, Restore, Reconcile
  <2> QED BY <1>5, <2>1, <2>2
<1> QED BY <1>2, <1>3, <1>4, <1>5 DEF Next

\* A run is built for an execution that was not started yet or rests in a pause, and
\* saved as queued.
LEMMA NewQueued ==
    ASSUME Typed, StillFound, Next, issued' = issued + 1
    PROVE  /\ issued + 1 \in Handles
           /\ \A h \in Handles \ {issued + 1} : handle'[h] = handle[h]
           /\ handle'[issued + 1].pc = "idle" /\ handle'[issued + 1].exec \in Executions
           /\ doc'[handle'[issued + 1].exec].status = "queued"
           /\ doc[handle'[issued + 1].exec].status \in {"none"} \cup Durable
<1>1. issued \in Nat
    BY PoolTypes
<1>2. /\ issued + 1 \in Handles
      /\ \A h \in Handles \ {issued + 1} : handle'[h] = handle[h]
      /\ handle'[issued + 1].pc = "idle"
    BY <1>1, BuiltOnce
<1>3. PICK e : e = handle'[issued + 1].exec
    OBVIOUS
<1>4. PICK r \in Requests :
        \/ Start(r, e) /\ e \in Executions
        \/ (ApproveSave(r) \/ ResumeSave(r)) /\ e = request[r].exec /\ doc'[e].status = "queued"
    BY <1>1, <1>3, BuiltOnce
<1>5. CASE Start(r, e) /\ e \in Executions
  <2>1. doc[e] \in DocRecord /\ SaveDoc(e, [doc[e] EXCEPT !.status = "queued"]) /\ doc[e].status = "none"
      BY <1>5 DEF Start, Typed, TypeOK
  <2>2. [doc[e] EXCEPT !.status = "queued"].status = "queued"
      BY <2>1, DocFields
  <2> QED BY <1>2, <1>3, <1>5, <2>1, <2>2, Saved
<1>6. CASE (ApproveSave(r) \/ ResumeSave(r)) /\ e = request[r].exec /\ doc'[e].status = "queued"
  <2>1. request[r].pc \in {"approve_save", "resume_save"}
      BY <1>6 DEF ApproveSave, ResumeSave, At
  <2>2. e \in Executions /\ doc[e].status \in Durable
      BY <1>6, <2>1 DEF Typed, RequestsBuilt, StillFound, Found, Judging, Deciding, DocFor, Durable
  <2> QED BY <1>2, <1>3, <1>6, <2>2
<1> QED BY <1>4, <1>5, <1>6

\* The live handle of an execution stays the last one built for it.
LEMMA LatestKept ==
    ASSUME Typed, PendingWaits, ResumesAlone, Latest, Held, Unbuilt, StillFound, Next
    PROVE  Latest' /\ Unbuilt'
<1>1. issued \in Nat /\ issued' \in {issued, issued + 1} /\ \A h \in Handles : h \in Nat
    BY PoolTypes, OriginKept, BoundsAssumption
<1>2. ASSUME NEW g \in Handles, g > issued, ~(g = issued + 1 /\ issued' = issued + 1)
      PROVE  handle'[g].exec = NoExecution
    BY <1>1, <1>2, BuiltOnce DEF Unbuilt
<1>3. Unbuilt'
    BY <1>1, <1>2 DEF Unbuilt
<1>4. ASSUME NEW h \in Handles, Live(h)', NEW g \in Handles, handle'[g].exec = handle'[h].exec
      PROVE  g <= h
  <2>1. CASE Live(h)
    <3>1. h <= issued /\ handle[h].exec \in Executions /\ handle'[h].exec = handle[h].exec
        BY <2>1, LiveBuilt, ExecKept
    <3>2. CASE g <= issued
        BY <1>4, <2>1, <3>1, <3>2, ExecKept DEF Latest
    <3>3. CASE g > issued
      <4>1. g = issued + 1 /\ issued' = issued + 1
          BY <1>2, <1>4, <3>1, <3>3, ExecutionsAssumption
      <4>2. doc[handle[h].exec].status \in {"none"} \cup Durable
          BY <1>4, <3>1, <4>1, NewQueued
      <4> QED BY <2>1, <4>2 DEF Live, Held, DocOf, Durable
    <3> QED BY <1>1, <3>2, <3>3
  <2>2. CASE h = issued + 1 /\ issued' = issued + 1
    <3>1. handle'[h].exec \in Executions
        BY <2>2, NewQueued
    <3> QED BY <1>1, <1>2, <1>4, <2>2, <3>1, ExecutionsAssumption
  <2> QED BY <1>4, <2>1, <2>2, ComingBefore, EarlyBefore DEF Live
<1> QED BY <1>3, <1>4 DEF Latest

\* The document of a live handle stays in flight.
LEMMA HeldKept ==
    ASSUME Typed, PendingWaits, ResumesAlone, Latest, Held, BootDead, StillFound, Next
    PROVE  Held'
<1> SUFFICES ASSUME NEW h \in Handles
             PROVE  /\ handle'[h].pc \in Early =>
                         \/ doc'[handle'[h].exec].status = "running"
                         \/ handle'[h].pc = "starting" /\ doc'[handle'[h].exec].status = "queued"
                    /\ Coming(h)' => doc'[handle'[h].exec].status = "queued"
    BY DEF Held, DocOf
<1>1. issued \in Nat /\ h \in Nat
    BY PoolTypes, BoundsAssumption
<1>2. CASE h = issued + 1 /\ issued' = issued + 1
  <2>1. doc'[handle'[h].exec].status = "queued" /\ handle'[h].pc = "idle"
      BY <1>2, NewQueued
  <2> QED BY <2>1 DEF Early, WorkerPcs
<1>3. CASE ~(h = issued + 1 /\ issued' = issued + 1) /\ ~Live(h)
    BY <1>3, ComingBefore, EarlyBefore DEF Live
<1>4. CASE ~(h = issued + 1 /\ issued' = issued + 1) /\ Live(h)
  <2>1. PICK e \in Executions : e = handle[h].exec /\ e = handle'[h].exec /\ h <= issued
      BY <1>4, LiveBuilt, ExecKept
  <2>2. Coming(h) => handle[h].pc \notin Early
      BY ComingIdle DEF Early, WorkerPcs
  <2>3. /\ handle[h].pc \in Early =>
             doc[e].status = "running" \/ (handle[h].pc = "starting" /\ doc[e].status = "queued")
        /\ Coming(h) => doc[e].status = "queued"
      BY <2>1 DEF Held, DocOf
  <2>4. Coming(h)' => Coming(h)
      BY <1>4, ComingBefore
  <2>5. CASE Unwritten(e)
    <3>1. ASSUME handle'[h].pc \in Early
          PROVE  \/ doc'[e].status = "running"
                 \/ handle'[h].pc = "starting" /\ doc'[e].status = "queued"
      <4>1. CASE Coming(h) /\ handle'[h].pc = "starting"
          BY <2>3, <2>5, <4>1 DEF Unwritten
      <4>2. CASE handle[h].pc \in Early /\ handle'[h].pc = handle[h].pc
          BY <2>3, <2>5, <4>2 DEF Unwritten
      <4>3. CASE handle[h].pc \in Early /\ (WorkerStep(h) \/ NodePersist(h))
        <5>1. doc[e].status = "queued" /\ handle[h].pc = "starting" => doc'[e].status = "running"
            BY <2>1, <4>3, WorkerDoc
        <5> QED BY <2>3, <2>5, <4>3, <5>1 DEF Unwritten
      <4> QED BY <3>1, <4>1, <4>2, <4>3, EarlyBefore, ThreadKept
    <3> QED BY <2>1, <2>3, <2>4, <2>5, <3>1 DEF Unwritten
  <2>6. CASE ~Unwritten(e) /\ handle[h].pc \in Early /\ (WorkerStep(h) \/ NodePersist(h))
    <3>1. ~Coming(h)'
        BY <2>2, <2>4, <2>6
    <3>2. ASSUME handle'[h].pc \in Early
          PROVE  doc'[e].status = "running"
      <4>1. handle'[h].pc # "mirror" /\ handle'[h].pc # "exit" /\ handle'[h].pc # "idle"
          BY <3>2 DEF Early, WorkerPcs
      <4>2. doc'[e].status = "running" \/ doc' = doc
              \/ (handle[h].pc = "save_resume" /\ doc'[e].status = doc[e].status)
        <5>1. \/ handle'[h].pc \in {"exit", "idle"}
              \/ doc'[handle[h].exec].status = "running"
              \/ doc' = doc
              \/ /\ handle[h].pc = "save_resume"
                 /\ doc'[handle[h].exec].status = doc[handle[h].exec].status
              \/ handle'[h].pc = "mirror"
            BY <2>6, WorkerDoc
        <5> QED BY <2>1, <4>1, <5>1
      <4> QED BY <2>3, <2>6, <4>2 DEF Unwritten
    <3> QED BY <2>1, <3>1, <3>2
  <2>7. CASE /\ Waits(h) /\ handle'[h].qrec # "pending"
             /\ \/ doc'[e].status = "running" /\ handle'[h].pc = "starting"
                \/ doc'[e].status = "cancelled" /\ handle'[h].pc = handle[h].pc
    <3>1. handle[h].pc \notin Early /\ handle[h].qrec = "pending"
        BY <2>2, <2>7 DEF Coming, Waits
    <3>2. ~Coming(h)'
      <4> SUFFICES ASSUME NEW r \in Requests, request'[r].handle = h,
                          request'[r].pc \in {"resume_register", "resume_spawn"}
                   PROVE  FALSE
          BY <2>7 DEF Coming, Waits, Carried
      <4>1. CASE request'[r] = request[r]
          BY <3>1, <4>1 DEF PendingWaits
      <4>2. CASE NewRequest(r) \/ RequestStep(r)
        <5>1. request[r].pc = "resume_register" /\ request[r].handle = h
            BY <1>1, <2>1, <4>2, RequestGoes
        <5> QED BY <3>1, <5>1 DEF PendingWaits
      <4> QED BY <4>1, <4>2, OneRequestMoves
    <3> QED BY <2>1, <2>7, <3>1, <3>2
  <2> QED BY <1>4, <2>1, <2>5, <2>6, <2>7, LiveStable
<1> QED BY <1>2, <1>3, <1>4

\* A process that boots has nothing on its way.
LEMMA BootDeadKept ==
    ASSUME Typed, BootDead, Next
    PROVE  BootDead'
<1>1. CASE Crash
    BY <1>1 DEF Crash, BootDead, Coming, Waits, Carried, InQueue, Idle
<1>2. CASE Boot
  <2>1. phase # "up" /\ issued' = issued /\ issued \in Nat
      BY <1>2, PoolTypes DEF Boot, Restore, Reconcile
  <2> QED BY <2>1, ComingBefore DEF BootDead
<1>3. CASE Dispatch
    BY <1>3 DEF Dispatch, DispatchNext, DispatchDone, Typed, BootQuiet, BootDead
<1>4. ASSUME NEW h \in Handles, WorkerStep(h) \/ NodePersist(h)
      PROVE  BootDead'
    BY <1>4, WorkerHandle DEF BootDead
<1>5. ASSUME NEW r \in Requests, NewRequest(r) \/ RequestStep(r)
      PROVE  BootDead'
    BY <1>5, RequestHandle DEF BootDead
<1> QED BY <1>1, <1>2, <1>3, <1>4, <1>5 DEF Next

\* Where a request decides a checkpoint, it is decided when the request goes on to
\* write the end of the run.
LEMMA DecidedFirst ==
    ASSUME Typed, RequestPoints, NEW r \in Requests,
           ApproveExpire(r) \/ ApproveDecide(r) \/ RejectDecide(r) \/ CancelDecide(r),
           request'[r].pc = "settle"
    PROVE  checkpoints'[request[r].checkpoint] # "awaiting"
<1>1. /\ checkpoints \in [Handles -> {"none", "awaiting", "approved", "rejected", "expired"}]
      /\ request \in [Requests -> RequestRecord] /\ request[r] \in RequestRecord
    BY DEF Typed, TypeOK
<1>2. PICK c \in Handles : c = request[r].checkpoint
    BY DEF RequestPoints, Deciding, ApproveExpire, ApproveDecide, RejectDecide, CancelDecide, At
<1>3. \A x : Goto(r, x) => request'[r].pc = x
    BY <1>1 DEF Goto, RequestRecord
<1>4. ~Return(r)
    BY <1>1 DEF Return, Idle
<1>5. \A d, x : Decide(r, d, x) => checkpoints'[c] = d /\ request'[r].pc = x
    BY <1>1, <1>2, <1>3 DEF Decide
<1>6. CASE ApproveExpire(r)
    BY <1>2, <1>3, <1>5, <1>6 DEF ApproveExpire
<1>7. CASE ApproveDecide(r)
    BY <1>2, <1>4, <1>5, <1>7 DEF ApproveDecide
<1>8. CASE RejectDecide(r)
    BY <1>2, <1>4, <1>5, <1>8 DEF RejectDecide
<1>9. CASE CancelDecide(r)
    BY <1>2, <1>5, <1>9 DEF CancelDecide, IsAwaiting
<1> QED BY <1>6, <1>7, <1>8, <1>9

\* The request at work finds its document as it read it, and leaves it so for its
\* own next step.
LEMMA OwnFound ==
    ASSUME Typed, RequestPoints, StillFound, NEW r \in Requests, NewRequest(r) \/ RequestStep(r)
    PROVE  Found(r)'
<1>1. /\ doc \in [Executions -> DocRecord] /\ request \in [Requests -> RequestRecord]
      /\ request[r] \in RequestRecord
    BY DEF Typed, TypeOK
<1>2. Found(r)' =
        /\ request'[r].pc \in Judging =>
             /\ doc'[request'[r].exec].status = "awaiting_approval"
             /\ doc'[request'[r].exec].approval = request'[r].checkpoint
             /\ request'[r].target \in {"failed", "cancelled"}
        /\ request'[r].pc = "settle" => checkpoints'[request'[r].checkpoint] # "awaiting"
        /\ request'[r].pc \in {"resume_save", "cancel_paused"} => doc'[request'[r].exec].status = "paused"
        /\ request'[r].pc \in {"cancel_mirror", "cancel_release"} => doc'[request'[r].exec].status = "cancelled"
        /\ request'[r].pc = "cleanup" => doc'[request'[r].exec].status \in Terminal
    BY DEF Found, DocFor
<1>3. CASE request'[r].pc \in {"idle", "register", "enqueue", "pause_signal", "signal", "resume_register",
                               "resume_spawn"}
    BY <1>2, <1>3 DEF Judging, Deciding
<1>4. ASSUME NEW e \in Executions, request'[r].exec = e,
             \/ StopRead(r, e) /\ request'[r].pc = StopPath(doc[e].status)
                /\ request'[r].checkpoint = doc[e].approval /\ request'[r].target = "cancelled"
             \/ ResumeRead(r, e) /\ request'[r].pc = "resume_save"
             \/ ApproveRead(r, e) /\ request'[r].pc = "approve_expire"
                /\ request'[r].checkpoint = doc[e].approval /\ request'[r].target = "failed"
             \/ RejectRead(r, e) /\ request'[r].pc = "reject_decide"
                /\ request'[r].checkpoint = doc[e].approval /\ request'[r].target = "failed"
      PROVE  Found(r)'
  <2>1. doc' = doc
      BY <1>4 DEF StopRead, ResumeRead, ApproveRead, RejectRead, DecisionRead
  <2>2. CASE ResumeRead(r, e) /\ request'[r].pc = "resume_save"
      BY <1>2, <1>4, <2>1, <2>2 DEF ResumeRead, Judging, Deciding
  <2>3. CASE /\ (ApproveRead(r, e) /\ request'[r].pc = "approve_expire") \/
                (RejectRead(r, e) /\ request'[r].pc = "reject_decide")
             /\ request'[r].checkpoint = doc[e].approval /\ request'[r].target = "failed"
    <3>1. doc[e].status = "awaiting_approval"
        BY <2>3 DEF ApproveRead, RejectRead, DecisionRead
    <3> QED BY <1>2, <1>4, <2>1, <2>3, <3>1
  <2>4. CASE /\ request'[r].pc = StopPath(doc[e].status)
             /\ request'[r].checkpoint = doc[e].approval /\ request'[r].target = "cancelled"
    <3>1. CASE doc[e].status = "awaiting_approval"
      <4>1. request'[r].pc = "cancel_decide"
          BY <2>4, <3>1 DEF StopPath
      <4> QED BY <1>2, <1>4, <2>1, <2>4, <3>1, <4>1
    <3>2. CASE doc[e].status = "paused"
      <4>1. request'[r].pc = "cancel_paused"
          BY <2>4, <3>2 DEF StopPath
      <4> QED BY <1>2, <1>4, <2>1, <3>2, <4>1 DEF Judging, Deciding
    <3>3. CASE doc[e].status \notin {"awaiting_approval", "paused"}
      <4>1. request'[r].pc = "signal"
          BY <2>4, <3>3 DEF StopPath
      <4> QED BY <1>3, <4>1
    <3> QED BY <3>1, <3>2, <3>3
  <2> QED BY <1>4, <2>2, <2>3, <2>4
<1>5. ASSUME request'[r].exec = request[r].exec, request'[r].checkpoint = request[r].checkpoint,
             request'[r].target = request[r].target,
             \/ ApproveExpire(r) /\ request'[r].pc \in {"approve_decide", "settle"}
             \/ ApproveDecide(r) /\ request'[r].pc \in {"approve_save", "settle"}
             \/ (RejectDecide(r) \/ CancelDecide(r)) /\ request'[r].pc = "settle"
      PROVE  Found(r)'
  <2>1. doc' = doc /\ request[r].pc \in Judging
      BY <1>5 DEF ApproveExpire, ApproveDecide, RejectDecide, CancelDecide, At, Judging, Deciding
  <2>2. /\ doc[request[r].exec].status = "awaiting_approval"
        /\ doc[request[r].exec].approval = request[r].checkpoint
        /\ request[r].target \in {"failed", "cancelled"}
      BY <2>1 DEF StillFound, Found, DocFor
  <2>3. request'[r].pc = "settle" => checkpoints'[request'[r].checkpoint] # "awaiting"
      BY <1>5, DecidedFirst
  <2>4. request'[r].pc \in {"approve_decide", "approve_save", "settle"}
      BY <1>5
  <2> QED BY <1>2, <1>5, <2>1, <2>2, <2>3, <2>4
<1>6. ASSUME request'[r].exec = request[r].exec,
             \/ Settle(r) /\ request'[r].pc = "cleanup"
             \/ CancelPaused(r) /\ request'[r].pc = "cancel_mirror"
             \/ CancelMirror(r) /\ request'[r].pc = "cancel_release"
      PROVE  Found(r)'
  <2>1. PICK e \in Executions : e = request[r].exec
      BY <1>6 DEF Typed, RequestsBuilt, Settle, CancelPaused, CancelMirror, At
  <2>2. doc[e] \in DocRecord
      BY <1>1
  <2>3. CASE Settle(r) /\ request'[r].pc = "cleanup"
    <3>1. PICK s, a : s = request[r].target /\ a = request[r].checkpoint
        OBVIOUS
    <3>2. s \in Terminal
        BY <2>3, <3>1 DEF Settle, At, StillFound, Found, Judging, Terminal
    <3>3. SaveDoc(e, [doc[e] EXCEPT !.status = s, !.approval = a])
        BY <2>1, <2>3, <3>1 DEF Settle, DocFor
    <3>4. [doc[e] EXCEPT !.status = s, !.approval = a].status = s
        BY <2>2, DocFields
    <3>5. doc'[e].status \in Terminal
        BY <3>2, <3>3, <3>4, Saved
    <3> QED BY <1>2, <1>6, <2>1, <2>3, <3>5 DEF Judging, Deciding
  <2>4. CASE CancelPaused(r) /\ request'[r].pc = "cancel_mirror"
    <3>1. SaveDoc(e, [doc[e] EXCEPT !.status = "cancelled", !.approval = NoHandle])
        BY <2>1, <2>4 DEF CancelPaused, DocFor
    <3>2. [doc[e] EXCEPT !.status = "cancelled", !.approval = NoHandle].status = "cancelled"
        BY <2>2, DocFields
    <3>3. doc'[e].status = "cancelled"
        BY <3>1, <3>2, Saved
    <3> QED BY <1>2, <1>6, <2>1, <2>4, <3>3 DEF Judging, Deciding
  <2>5. CASE CancelMirror(r) /\ request'[r].pc = "cancel_release"
    <3>1. SaveDoc(e, [doc[e] EXCEPT !.queue = "cancelled", !.resume = NoHandle])
        BY <2>1, <2>5 DEF CancelMirror, DocFor
    <3>2. [doc[e] EXCEPT !.queue = "cancelled", !.resume = NoHandle].status = doc[e].status
        BY <2>2, DocFields
    <3>3. doc[e].status = "cancelled"
        BY <2>1, <2>5 DEF CancelMirror, At, StillFound, Found, DocFor
    <3>4. doc'[e].status = "cancelled"
        BY <3>1, <3>2, <3>3, Saved
    <3> QED BY <1>2, <1>6, <2>1, <2>5, <3>4 DEF Judging, Deciding
  <2> QED BY <1>6, <2>3, <2>4, <2>5
<1> QED BY <1>3, <1>4, <1>5, <1>6, RequestPath

\* What a request found on disk is still there at its next step.
LEMMA StillFoundKept ==
    ASSUME OneOperator, Typed, DocPoints, RequestPoints, Held, StillFound, Next
    PROVE  StillFound'
<1> SUFFICES ASSUME NEW r \in Requests PROVE Found(r)'
    BY DEF StillFound
<1>1. CASE NewRequest(r) \/ RequestStep(r)
    BY <1>1, OwnFound
<1>2. CASE request'[r].pc = "idle"
    BY <1>2 DEF Found, Judging, Deciding
<1>3. CASE request'[r] = request[r] /\ request[r].pc # "idle" /\ ~(NewRequest(r) \/ RequestStep(r))
  <2>1. PICK e \in Executions : e = request[r].exec
      BY <1>3 DEF Typed, RequestsBuilt
  <2>2. Found(r)
      BY DEF StillFound
  <2>3. ~Interrupted(doc[e].status) => Unwritten(e)
    <3>1. ASSUME NEW q \in Requests, \/ Start(q, e)
                                     \/ ApproveSave(q) \/ ResumeSave(q) \/ Settle(q) \/ Cleanup(q)
                                     \/ CancelPaused(q) \/ CancelMirror(q)
          PROVE  NewRequest(r) \/ RequestStep(r)
      <4>1. q = r
          BY OneOperator DEF OneOperator
      <4> QED BY <3>1, <4>1 DEF NewRequest, RequestStep
    <3> QED BY <1>3, <3>1, RestStable
  <2>4. ASSUME request[r].pc = "settle"
        PROVE  checkpoints'[request[r].checkpoint] # "awaiting"
    <3>1. PICK c \in Handles : c = request[r].checkpoint /\ handle[c].exec = e
        BY <2>1, <2>2, <2>4 DEF Found, Judging, DocFor, DocPoints
    <3>2. doc[e].status = "awaiting_approval" /\ checkpoints[c] # "awaiting"
        BY <2>1, <2>2, <2>4, <3>1 DEF Found, Judging, DocFor
    <3>3. ~CreateCheckpoint(c)
        BY <3>1, <3>2 DEF CreateCheckpoint, WorkerAt, Held, DocOf, Early, WorkerPcs
    <3> QED BY <3>1, <3>2, <3>3, CheckpointsKept
  <2>5. Found(r)' =
        /\ request[r].pc \in Judging =>
             /\ doc'[e].status = "awaiting_approval"
             /\ doc'[e].approval = request[r].checkpoint
             /\ request[r].target \in {"failed", "cancelled"}
        /\ request[r].pc = "settle" => checkpoints'[request[r].checkpoint] # "awaiting"
        /\ request[r].pc \in {"resume_save", "cancel_paused"} => doc'[e].status = "paused"
        /\ request[r].pc \in {"cancel_mirror", "cancel_release"} => doc'[e].status = "cancelled"
        /\ request[r].pc = "cleanup" => doc'[e].status \in Terminal
      BY <1>3, <2>1 DEF Found, DocFor
  <2>6. /\ request[r].pc \in Judging =>
             /\ doc[e].status = "awaiting_approval"
             /\ doc[e].approval = request[r].checkpoint
             /\ request[r].target \in {"failed", "cancelled"}
        /\ request[r].pc \in {"resume_save", "cancel_paused"} => doc[e].status = "paused"
        /\ request[r].pc \in {"cancel_mirror", "cancel_release"} => doc[e].status = "cancelled"
        /\ request[r].pc = "cleanup" => doc[e].status \in Terminal
      BY <2>1, <2>2 DEF Found, DocFor
  <2> QED BY <2>3, <2>4, <2>5, <2>6 DEF Unwritten, Interrupted, Terminal
<1> QED BY <1>1, <1>2, <1>3, OneRequestMoves

\* A run that is about to commit its pause has saved its resume state, and nobody
\* has removed or replaced it.
LEMMA SavedFirstKept ==
    ASSUME Typed, PendingWaits, ResumesAlone, Latest, Held, BootDead, StillFound, SavedFirst, Next
    PROVE  SavedFirst'
<1> SUFFICES ASSUME NEW h \in Handles, handle'[h].pc = "commit"
             PROVE  doc'[handle'[h].exec].resume = h
    BY DEF SavedFirst, DocOf
<1>1. handle[h].pc \in Early
    BY EarlyBefore DEF Early, WorkerPcs
<1>2. PICK e \in Executions : e = handle[h].exec /\ e = handle'[h].exec
    BY <1>1, LiveBuilt, ExecKept DEF Live
<1>3. CASE WorkerStep(h) \/ NodePersist(h)
  <2>1. /\ handle'[h].pc \notin {"exit", "idle", "locking", "running", "mirror"}
        /\ handle'[h].pc \notin {"running", "raised", "finishing", "checkpoint", "save_resume"}
      OBVIOUS
  <2>2. handle[h].pc = "save_resume" /\ doc'[handle[h].exec].resume = h
      BY <1>3, <2>1, WorkerDoc
  <2> QED BY <1>2, <2>2
<1>4. CASE ~(WorkerStep(h) \/ NodePersist(h))
  <2>1. handle[h].pc = "commit"
      BY <1>1, <1>4, ThreadKept DEF Early, WorkerPcs
  <2>2. doc[e].resume = h
      BY <1>2, <2>1 DEF SavedFirst, DocOf
  <2>3. ~Waits(h)
      BY <2>1 DEF Waits, PendingWaits
  <2>4. Unwritten(e)
      BY <1>1, <1>2, <1>4, <2>3, LiveStable DEF Live
  <2> QED BY <1>2, <2>2, <2>4 DEF Unwritten
<1> QED BY <1>3, <1>4

\* A pause that is on disk can be taken up where its run left it.
LEMMA PausePointKept ==
    ASSUME Typed, PendingWaits, ResumesAlone, Latest, Held, StillFound, SavedFirst,
           PausePointOnDisk, Next
    PROVE  PausePointOnDisk'
<1> SUFFICES ASSUME NEW e \in Executions, doc'[e].status \in Durable
             PROVE  /\ doc'[e].resume # NoHandle
                    /\ \A h \in Handles : handle'[h].exec = e => h <= doc'[e].resume
                    /\ doc'[e].status = "awaiting_approval" => doc'[e].approval = doc'[e].resume
    BY DEF PausePointOnDisk
<1>1. \A g \in Handles : handle'[g].exec = e => handle[g].exec = e
  <2> SUFFICES ASSUME NEW g \in Handles, handle'[g].exec = e, handle[g].exec # e PROVE FALSE
      OBVIOUS
  <2>1. issued' = issued + 1 /\ g = issued + 1
      BY BuiltOnce
  <2> QED BY <2>1, NewQueued DEF Durable
<1>2. CASE doc'[e].status # doc[e].status
  <2>1. PICK h \in Handles : Commit(h) /\ handle[h].exec = e
      BY <1>2, PausedBy
  <2>2. handle[h].pc = "commit" /\ WorkerStep(h)
      BY <2>1 DEF Commit, WorkerAt, WorkerStep
  <2>3. \A g \in Handles : handle[g].exec = e => g <= h
      BY <2>1, <2>2 DEF Latest, Live, Early, WorkerPcs
  <2>4. doc[e].resume = h
      BY <2>1, <2>2 DEF SavedFirst, DocOf
  <2>5. /\ doc'[e].resume = doc[e].resume /\ doc'[e].status = PausedAs(h)
        /\ checkpoints[h] # "none" => doc'[e].approval = h
      BY <2>1, <2>2, WorkerDoc
  <2>6. doc'[e].status = "awaiting_approval" => checkpoints[h] # "none"
      BY <2>5 DEF PausedAs
  <2> QED BY <1>1, <2>3, <2>4, <2>5, <2>6, BoundsAssumption
<1>3. CASE doc'[e].status = doc[e].status
  <2>1. Unwritten(e)
    <3> SUFFICES ASSUME ~Unwritten(e) PROVE FALSE
        OBVIOUS
    <3>1. PICK r \in Requests : request[r].exec = e /\ (Cleanup(r) \/ CancelMirror(r) \/ Settle(r))
      <4>1. ~Interrupted(doc[e].status) /\ doc'[e].status \notin {"queued", "cancelled"}
          BY <1>3 DEF Durable, Interrupted
      <4>2. \A r \in Requests : ~(Start(r, e) /\ doc'[e].status = "queued")
          BY <4>1
      <4> QED BY <4>1, <4>2, RestStable
    <3>2. CASE Settle(r)
      <4>1. request[r].target \in {"failed", "cancelled"}
          BY <3>2 DEF Settle, At, StillFound, Found, Judging
      <4>2. doc'[e].status = request[r].target
        <5>1. doc[e] \in DocRecord /\ SaveDoc(e, [doc[e] EXCEPT !.status = request[r].target,
                                                                !.approval = request[r].checkpoint])
            BY <3>1, <3>2 DEF Settle, DocFor, Typed, TypeOK
        <5>2. [doc[e] EXCEPT !.status = request[r].target, !.approval = request[r].checkpoint].status
                 = request[r].target
            BY <5>1, DocFields
        <5> QED BY <5>1, <5>2, Saved
      <4> QED BY <4>1, <4>2 DEF Durable
    <3>3. CASE Cleanup(r) \/ CancelMirror(r)
      <4>1. doc[e].status \in Terminal \cup {"cancelled"}
          BY <3>1, <3>3 DEF Cleanup, CancelMirror, At, StillFound, Found, DocFor
      <4> QED BY <1>3, <4>1 DEF Terminal, Durable
    <3> QED BY <3>1, <3>2, <3>3
  <2> QED BY <1>1, <1>3, <2>1 DEF Unwritten, PausePointOnDisk
<1> QED BY <1>2, <1>3

\* Together these facts are inductive.
LEMMA AlwaysSteady == ASSUME OneOperator PROVE Spec => []Steady
<1>1. Init => Steady
  <2> SUFFICES ASSUME Init PROVE Steady
      OBVIOUS
  <2>1. /\ \A h \in Handles : /\ handle[h].pc = "idle" /\ handle[h].qrec = "none"
                              /\ handle[h].exec = NoExecution
        /\ \A r \in Requests : request[r].pc = "idle"
        /\ \A e \in Executions : doc[e].status = "none"
      BY DEF Init, Idle
  <2>2. \A h \in Handles : ~Coming(h) /\ ~Live(h)
      BY <2>1 DEF Coming, Live, Waits, Carried, Early, WorkerPcs
  <2>3. Latest /\ Held /\ Unbuilt /\ BootDead
      BY <2>1, <2>2 DEF Latest, Held, Unbuilt, BootDead, Early, WorkerPcs
  <2>4. StillFound /\ SavedFirst /\ PausePointOnDisk
      BY <2>1 DEF StillFound, Found, Judging, Deciding, SavedFirst, PausePointOnDisk, Durable
  <2> QED BY <2>3, <2>4 DEF Steady
<1>2. Typed /\ Moving /\ Traced /\ Steady /\ [Next]_vars => Steady'
  <2> SUFFICES ASSUME Typed, Moving, Traced, Steady, [Next]_vars PROVE Steady'
      OBVIOUS
  <2>1. CASE UNCHANGED vars
    <3>1. UNCHANGED <<doc, checkpoints, handle, issued, active, projectQueues, request, phase>>
        BY <2>1 DEF vars, pool
    <3>2. \A h : Coming(h)' = Coming(h) /\ Live(h)' = Live(h)
        BY <3>1 DEF Coming, Live, Waits, Carried, InQueue
    <3>3. Latest' /\ Held' /\ Unbuilt' /\ BootDead'
        BY <3>1, <3>2 DEF Steady, Latest, Held, DocOf, Unbuilt, BootDead
    <3>4. StillFound' /\ SavedFirst' /\ PausePointOnDisk'
        BY <3>1 DEF Steady, StillFound, Found, DocFor, SavedFirst, DocOf, PausePointOnDisk
    <3> QED BY <3>3, <3>4 DEF Steady
  <2>2. CASE Next
      BY <2>2, OneOperator, LatestKept, HeldKept, BootDeadKept, StillFoundKept, SavedFirstKept,
         PausePointKept DEF Steady, Moving, Traced
  <2> QED BY <2>1, <2>2
<1> QED BY <1>1, <1>2, AlwaysTyped, AlwaysMoving, AlwaysTraced, PTL DEF Spec

\* With requests served one after the other, and with kills at any point: a run that
\* rests in a durable pause has its resume state on disk, written by its latest run,
\* and one that awaits approval by the run whose checkpoint its document names
\* (_persist_resume_state before the durable status, approve, resume, stop).
THEOREM PausePointStands == ASSUME OneOperator PROVE Spec => []PausePointOnDisk
<1>1. Steady => PausePointOnDisk
    BY DEF Steady
<1> QED BY <1>1, AlwaysSteady, PTL

-----------------------------------------------------------------------------
(* What a pause needs to be left.                                           *)

\* Only a decision makes a run leave its approval, and only a grant queues it again.
LEMMA GateKept ==
    ASSUME Typed, RequestPoints, Granted, Held, StillFound, Next, NEW e \in Executions,
           doc[e].status = "awaiting_approval", doc'[e].status # "awaiting_approval"
    PROVE  /\ checkpoints'[doc[e].approval] # "awaiting"
           /\ doc'[e].status = "queued" => checkpoints'[doc[e].approval] = "approved"
<1>1. ~Interrupted(doc[e].status) /\ ~Unwritten(e)
    BY DEF Interrupted, Unwritten
<1>2. PICK r \in Requests :
        \/ Start(r, e)
        \/ /\ request[r].exec = e
           /\ \/ ApproveSave(r) \/ ResumeSave(r) \/ CancelPaused(r)
              \/ Settle(r) /\ doc'[e].status = request[r].target
              \/ (Cleanup(r) \/ CancelMirror(r)) /\ doc'[e].status = doc[e].status
    BY <1>1, RestStable
<1>3. ~Start(r, e) /\ doc'[e].status # doc[e].status
    BY DEF Start
<1>4. request[r].exec = e
    BY <1>2, <1>3
<1>5. Found(r)
    BY DEF StillFound
<1>6. CASE ResumeSave(r) \/ CancelPaused(r)
  <2>1. request[r].pc \in {"resume_save", "cancel_paused"}
      BY <1>6 DEF ResumeSave, CancelPaused, At
  <2> QED BY <1>4, <1>5, <2>1 DEF Found, DocFor
<1>7. CASE ApproveSave(r)
  <2>1. request[r].pc = "approve_save" /\ checkpoints' = checkpoints
      BY <1>7 DEF ApproveSave, At
  <2>2. doc[e].approval = request[r].checkpoint
      BY <1>4, <1>5, <2>1 DEF Found, DocFor, Judging, Deciding
  <2> QED BY <2>1, <2>2 DEF Granted
<1>8. CASE Settle(r) /\ doc'[e].status = request[r].target
  <2>1. request[r].pc = "settle" /\ checkpoints' = checkpoints
      BY <1>8 DEF Settle, At
  <2>2. /\ doc[e].approval = request[r].checkpoint /\ request[r].target \in {"failed", "cancelled"}
        /\ checkpoints[request[r].checkpoint] # "awaiting"
      BY <1>4, <1>5, <2>1 DEF Found, DocFor, Judging
  <2> QED BY <1>8, <2>1, <2>2
<1> QED BY <1>2, <1>3, <1>6, <1>7, <1>8

\* With requests served one after the other, and with kills at any point: an
\* execution leaves awaiting_approval only when the checkpoint its document names has
\* been decided, and it is queued again only when the decision was approved
\* (approve, reject, _cancel_awaiting_approval).
THEOREM GateStands == ASSUME OneOperator PROVE Spec => ApprovalGate
<1>1. Typed /\ Traced /\ Steady /\ [Next]_vars =>
        [\A e \in Executions :
           doc[e].status = "awaiting_approval" /\ doc'[e].status # "awaiting_approval" =>
             /\ checkpoints'[doc[e].approval] # "awaiting"
             /\ doc'[e].status = "queued" => checkpoints'[doc[e].approval] = "approved"]_vars
    BY GateKept DEF Traced, Steady
<1> QED BY <1>1, AlwaysTyped, AlwaysTraced, AlwaysSteady, PTL DEF Spec, ApprovalGate

-----------------------------------------------------------------------------
(* The promised life cycle.                                                 *)

\* The moves a status may make outside of a restart.
Allowed(from, to) ==
    \/ from = "none" /\ to = "queued"
    \/ from = "queued" /\ to \in {"running", "cancelled"}
    \/ from = "running" /\ to \in Terminal \cup Durable
    \/ from \in Durable /\ to = "queued"
    \/ from = "awaiting_approval" /\ to \in {"failed", "cancelled"}
    \/ from = "paused" /\ to = "cancelled"

StatusStays(e) == doc'[e].status = doc[e].status
MovesAlone(e) == /\ StatusStays(e) \/ Allowed(doc[e].status, doc'[e].status)
                 /\ \A f \in Executions \ {e} : StatusStays(f)

\* Of a pool thread: its document is running until the one write that ends it.
LEMMA WorkerStatus ==
    ASSUME Typed, Held, NEW h \in Handles, WorkerStep(h) \/ NodePersist(h)
    PROVE  \E e \in Executions : MovesAlone(e)
<1>1. PICK e \in Executions : e = handle[h].exec
    BY WorkerDoc
<1>2. \A f \in Executions \ {e} : StatusStays(f)
    BY <1>1, WorkerDoc DEF StatusStays
<1>3. handle[h].pc \in Early => \/ doc[e].status = "running"
                                \/ handle[h].pc = "starting" /\ doc[e].status = "queued"
    BY <1>1 DEF Held, DocOf
<1>4. {"starting", "running", "finishing", "raised", "commit"} \subseteq Early
    BY DEF Early, WorkerPcs
<1>5. ASSUME handle[h].pc \in {"starting", "running"}, doc'[e].status = "running"
      PROVE  StatusStays(e) \/ Allowed(doc[e].status, doc'[e].status)
    BY <1>3, <1>4, <1>5 DEF StatusStays, Allowed
<1>6. ASSUME handle[h].pc \in {"finishing", "raised", "commit"}, doc'[e].status \in Terminal \cup Durable
      PROVE  Allowed(doc[e].status, doc'[e].status)
    BY <1>3, <1>4, <1>6 DEF Allowed
<1>7. PausedAs(h) \in Durable
    BY DEF PausedAs, Durable
<1>8. StatusStays(e) \/ Allowed(doc[e].status, doc'[e].status)
    BY <1>1, <1>5, <1>6, <1>7, WorkerDoc DEF StatusStays, Unwritten
<1> QED BY <1>2, <1>8 DEF MovesAlone

\* Of a request: what it found on disk is what its move starts from.
LEMMA RequestStatus ==
    ASSUME Typed, Held, StillFound, NEW r \in Requests, NewRequest(r) \/ RequestStep(r)
    PROVE  (\A e \in Executions : StatusStays(e)) \/ \E e \in Executions : MovesAlone(e)
<1>1. CASE \A f \in Executions : Unwritten(f)
    BY <1>1 DEF Unwritten, StatusStays
<1>2. ASSUME NEW e \in Executions, Start(r, e), doc'[e].status = "queued",
             \A f \in Executions \ {e} : doc'[f] = doc[f]
      PROVE  MovesAlone(e)
    BY <1>2 DEF MovesAlone, Start, Allowed, StatusStays
<1>3. ASSUME NEW h \in Handles, CancelPending(h), NEW e \in Executions, e = handle[h].exec,
             \E f \in Executions : active[f] = h, doc'[e].status = "cancelled",
             \A f \in Executions \ {e} : doc'[f] = doc[f]
      PROVE  MovesAlone(e)
  <2>1. Coming(h)
      BY <1>3 DEF CancelPending, Coming, Waits
  <2>2. doc[e].status = "queued"
      BY <1>3, <2>1 DEF Held, DocOf
  <2> QED BY <1>3, <2>2 DEF MovesAlone, Allowed, StatusStays
<1>4. ASSUME NEW e \in Executions, e = request[r].exec, \A f \in Executions \ {e} : doc'[f] = doc[f],
             \/ (ApproveSave(r) \/ ResumeSave(r)) /\ doc'[e].status = "queued"
             \/ Settle(r) /\ doc'[e].status = request[r].target
             \/ (Cleanup(r) \/ CancelMirror(r)) /\ doc'[e].status = doc[e].status
             \/ CancelPaused(r) /\ doc'[e].status = "cancelled"
      PROVE  MovesAlone(e)
  <2>1. Found(r) /\ DocFor(r) = doc[e]
      BY <1>4 DEF StillFound, DocFor
  <2>2. StatusStays(e) \/ Allowed(doc[e].status, doc'[e].status)
    <3>1. CASE ApproveSave(r) /\ doc'[e].status = "queued"
        BY <2>1, <3>1 DEF ApproveSave, At, Found, Judging, Deciding, Allowed, Durable
    <3>2. CASE ResumeSave(r) /\ doc'[e].status = "queued"
        BY <2>1, <3>2 DEF ResumeSave, At, Found, Allowed, Durable
    <3>3. CASE Settle(r) /\ doc'[e].status = request[r].target
        BY <2>1, <3>3 DEF Settle, At, Found, Judging, Allowed
    <3>4. CASE CancelPaused(r) /\ doc'[e].status = "cancelled"
        BY <2>1, <3>4 DEF CancelPaused, At, Found, Allowed
    <3> QED BY <1>4, <3>1, <3>2, <3>3, <3>4 DEF StatusStays
  <2> QED BY <1>4, <2>2 DEF MovesAlone, StatusStays
<1> QED BY <1>1, <1>2, <1>3, <1>4, RequestDoc

\* Every step makes one allowed move, or fails all that is in flight, or none.
LEMMA StatusMoves ==
    ASSUME Typed, Held, StillFound, Next
    PROVE  \/ \A e \in Executions : StatusStays(e)
           \/ \E e \in Executions : MovesAlone(e)
           \/ \A e \in Executions :
                doc'[e].status = IF Interrupted(doc[e].status) THEN "failed" ELSE doc[e].status
<1>1. CASE Dispatch
  <2>1. ASSUME NEW p \in Projects, NEW h \in InQueue(p), h \in Handles, handle[h].qrec = "pending",
               NEW e \in Executions, e = handle[h].exec, doc'[e].status = "running",
               \A f \in Executions \ {e} : doc'[f] = doc[f]
        PROVE  MovesAlone(e)
    <3>1. Coming(h)
        BY <2>1 DEF Coming, Waits
    <3>2. doc[e].status = "queued"
        BY <2>1, <3>1 DEF Held, DocOf
    <3> QED BY <2>1, <3>2 DEF MovesAlone, Allowed, StatusStays
  <2> QED BY <1>1, <2>1, AdmitDoc DEF StatusStays
<1>2. ASSUME NEW h \in Handles, WorkerStep(h) \/ NodePersist(h)
      PROVE  \E e \in Executions : MovesAlone(e)
    BY <1>2, WorkerStatus
<1>3. CASE Crash \/ Boot
  <2>1. CASE Reconcile
      BY <2>1, RestartDoc DEF Reconcile
  <2>2. CASE ~Reconcile
      BY <1>3, <2>2, RestartDoc DEF Boot, Unwritten, StatusStays
  <2> QED BY <2>1, <2>2
<1> QED BY <1>1, <1>2, <1>3, RequestStatus DEF Next

\* One allowed move is a step of the life cycle.
LEMMA MoveImplements ==
    ASSUME Typed, NEW e \in Executions, MovesAlone(e), ~StatusStays(e)
    PROVE  Lifecycle!Next
<1> DEFINE st == [f \in Executions |-> doc[f].status]
           nx == [f \in Executions |-> doc'[f].status]
<1>1. nx = [st EXCEPT ![e] = doc'[e].status] /\ st[e] = doc[e].status
  <2>1. \A f \in Executions : f # e => doc'[f].status = doc[f].status
      BY DEF MovesAlone, StatusStays
  <2> QED BY <2>1
<1>2. ASSUME NEW F, NEW T, doc[e].status \in F, doc'[e].status \in T
      PROVE  Lifecycle!Move(e, F, T)
    BY <1>1, <1>2 DEF Lifecycle!Move
<1>3. Allowed(doc[e].status, doc'[e].status)
    BY DEF MovesAlone
<1>4. CASE doc[e].status = "none" /\ doc'[e].status = "queued"
    BY <1>2, <1>4 DEF Lifecycle!Next, Lifecycle!Submit
<1>5. CASE doc[e].status = "queued" /\ doc'[e].status = "running"
    BY <1>2, <1>5 DEF Lifecycle!Next, Lifecycle!Admit
<1>6. CASE doc[e].status = "queued" /\ doc'[e].status = "cancelled"
    BY <1>2, <1>6 DEF Lifecycle!Next, Lifecycle!Withdraw
<1>7. CASE doc[e].status = "running" /\ doc'[e].status \in Terminal \cup Durable
  <2>1. doc'[e].status \in Lifecycle!Terminal \cup Lifecycle!Durable
      BY <1>7 DEF Lifecycle!Terminal, Lifecycle!Durable, Terminal, Durable
  <2>2. Lifecycle!Settle(e)
      BY <1>2, <1>7, <2>1 DEF Lifecycle!Settle
  <2> QED BY <2>2 DEF Lifecycle!Next
<1>8. CASE doc[e].status \in Durable /\ doc'[e].status = "queued"
  <2>1. doc[e].status \in Lifecycle!Durable
      BY <1>8 DEF Lifecycle!Durable, Durable
  <2>2. Lifecycle!Requeue(e)
      BY <1>2, <1>8, <2>1 DEF Lifecycle!Requeue
  <2> QED BY <2>2 DEF Lifecycle!Next
<1>9. CASE doc[e].status = "awaiting_approval" /\ doc'[e].status \in {"failed", "cancelled"}
    BY <1>2, <1>9 DEF Lifecycle!Next, Lifecycle!Refuse
<1>10. CASE doc[e].status = "paused" /\ doc'[e].status = "cancelled"
    BY <1>2, <1>10 DEF Lifecycle!Next, Lifecycle!Abandon
<1> QED BY <1>3, <1>4, <1>5, <1>6, <1>7, <1>8, <1>9, <1>10 DEF Allowed

\* So is the restart, unless it finds nothing in flight.
LEMMA RestartImplements ==
    ASSUME \A e \in Executions :
             doc'[e].status = IF Interrupted(doc[e].status) THEN "failed" ELSE doc[e].status
    PROVE  Lifecycle!Next \/ \A e \in Executions : StatusStays(e)
<1>1. CASE \A e \in Executions : ~Interrupted(doc[e].status)
    BY <1>1 DEF StatusStays
<1>2. CASE \E e \in Executions : Interrupted(doc[e].status)
  <2>1. Lifecycle!Recover
      BY <1>2 DEF Lifecycle!Recover, Interrupted
  <2> QED BY <2>1 DEF Lifecycle!Next
<1> QED BY <1>1, <1>2

\* With requests served one after the other, and with kills at any point: the status
\* of the execution documents follows the life cycle of contracts.md, that is, whatever
\* thread, request or restart writes it, it makes one of the promised moves, and a
\* terminal status is never changed.
THEOREM ImplementsLifecycle == ASSUME OneOperator PROVE Spec => LifecycleSpec
<1>1. Init => Lifecycle!Init
    BY DEF Init, Lifecycle!Init
<1>2. Typed /\ Steady /\ [Next]_vars => [Lifecycle!Next]_([e \in Executions |-> doc[e].status])
  <2> SUFFICES ASSUME Typed, Steady, [Next]_vars
               PROVE  Lifecycle!Next \/ \A e \in Executions : StatusStays(e)
      BY DEF StatusStays
  <2>1. CASE UNCHANGED vars
      BY <2>1 DEF vars, StatusStays
  <2>2. CASE Next
    <3>1. ASSUME NEW e \in Executions, MovesAlone(e)
          PROVE  Lifecycle!Next \/ \A f \in Executions : StatusStays(f)
      <4>1. CASE StatusStays(e)
          BY <3>1, <4>1 DEF MovesAlone
      <4>2. CASE ~StatusStays(e)
          BY <3>1, <4>2, MoveImplements
      <4> QED BY <4>1, <4>2
    <3> QED BY <2>2, <3>1, StatusMoves, RestartImplements DEF Steady
  <2> QED BY <2>1, <2>2
<1> QED BY <1>1, <1>2, AlwaysTyped, AlwaysSteady, PTL DEF Spec, LifecycleSpec, Lifecycle!Spec
=============================================================================

------------------------------ MODULE MediaJob ------------------------------
(***************************************************************************)
(* MediaJobService and MediaJobStore (scriptase/providers/media_jobs.py)   *)
(* over the scene manifest the image and video providers write: one        *)
(* generation job of several units, submitted, polled, pushed, cancelled,  *)
(* timed out, killed with its process and resumed from its record.         *)
(*                                                                         *)
(* Actors: the worker (the thread of the node that waits), the provider    *)
(* (the batch thread of a direct provider, the browser extension, a remote *)
(* service that pushes), the thread that delivers a push, and whichever    *)
(* thread first sees the stop and runs the cancel callback.  Every lock    *)
(* region, file access and provider call is a step of its own.             *)
(*                                                                         *)
(* One run() or resume() of the service is a rung: ProviderFallback climbs *)
(* from one to the next.  Counters, fractions and messages of a status are *)
(* left out: what a status says is its state and its units.                *)
(***************************************************************************)
EXTENDS Naturals, Sequences, FiniteSets

CONSTANTS
    NumUnits,      \* units (scenes) of the request, 1..NumUnits
    Chains,        \* chains of providers a request may be given to
    MaxRungs,      \* length of the longest chain
    MAX_CONSECUTIVE_POLL_FAILURES,
    MaxPushes,     \* bound: pushes sent for one request
    MaxCrashes     \* bound: kills of the process

Units == 1..NumUnits
Rungs == 1..MaxRungs
NoRung == 0

\* How a provider works: a batch thread in this process; the extension, which
\* reports into the manifest; a remote service that also pushes to the service.
Kinds == {"direct", "extension", "pushed"}

ASSUME NumUnitsAssumption == NumUnits \in Nat \ {0}
ASSUME ChainsAssumption ==
    /\ MaxRungs \in Nat \ {0}
    /\ Chains \subseteq {c \in Seq(Kinds) : Len(c) \in Rungs}
ASSUME BoundsAssumption ==
    /\ MAX_CONSECUTIVE_POLL_FAILURES \in Nat \ {0}
    /\ MaxPushes \in Nat /\ MaxCrashes \in Nat

VARIABLES
    chain,      \* the provider of each rung
    rung,       \* the rung the worker is on
    manifest,   \* storyboard.json / grabber_job.json
    batch,      \* per rung: the batch thread of a direct provider
    stop,       \* the stop event of the execution
    token,      \* per rung: the CancellationToken and its one callback
    jobs,       \* per rung: the status of its LiveJob object
    prior,      \* per rung: LiveJob.prior_units
    live,       \* MediaJobStore._live: provider kind -> rung of the LiveJob
    record,     \* media_job.json
    worker,     \* the thread in _await_terminal
    expired,    \* the deadline of the invocation has passed
    push,       \* the push in flight
    pushes, crashes,
    outcome     \* what run() or resume() gave to its caller

env == <<chain, crashes>>
provider == <<manifest, batch>>
memory == <<jobs, prior, live>>
vars == <<env, rung, provider, stop, token, memory, record, worker, expired, push, pushes, outcome>>

-----------------------------------------------------------------------------
(* Units and statuses.                                                      *)

UnitStates == {"none", "succeeded", "failed"}
UnitMap == [Units -> UnitStates]
NoUnits == [u \in Units |-> "none"]
InState(units, s) == {u \in Units : units[u] = s}

TERMINAL_STATES == {"succeeded", "partial", "failed", "cancelled", "timed_out"}
JOB_STATES == {"submitted", "running"} \cup TERMINAL_STATES
JobStatus == [state : JOB_STATES, units : UnitMap]
Terminal(status) == status.state \in TERMINAL_STATES
Submitted == [state |-> "submitted", units |-> NoUnits]

\* Mutant: the last report of a unit wins.
MergeLast(existing, incoming) ==
    [u \in Units |-> IF incoming[u] # "none" THEN incoming[u] ELSE existing[u]]

\* _merge_units_idempotent: what the job already has of a unit stays.
MergeUnits(existing, incoming) ==
    [u \in Units |-> IF existing[u] # "none" THEN existing[u] ELSE incoming[u]]

\* settled_state: the verdict over a manifest that was declared done.
SettledState(units, total) ==
    IF InState(units, "succeeded") = {} THEN "failed"
    ELSE IF InState(units, "failed") # {} \/ Cardinality(InState(units, "succeeded")) < total
    THEN "partial" ELSE "succeeded"

\* The verdict apply_status derives again from the units it has merged.
RederivedState(units) ==
    IF InState(units, "succeeded") = {} THEN "failed"
    ELSE IF InState(units, "failed") # {} THEN "partial" ELSE "succeeded"

\* Mutant: a terminal status takes another.
ApplyAlways(r, incoming) ==
    [state |-> incoming.state,
     units |-> MergeUnits(prior[r], MergeUnits(jobs[r].units, incoming.units))]

\* MediaJobStore.apply_status, under the lock of the store.
ApplyStatus(r, incoming) ==
    LET current == jobs[r]
        units == MergeUnits(prior[r], MergeUnits(current.units, incoming.units))
        rederived == /\ units # NoUnits
                     /\ incoming.state \in TERMINAL_STATES \ {"cancelled", "timed_out"}
    IN  IF Terminal(current) THEN current
        ELSE [state |-> IF rederived THEN RederivedState(units) ELSE incoming.state,
              units |-> units]

-----------------------------------------------------------------------------
(* The manifest.                                                            *)

SceneStates == {"absent", "pending", "succeeded", "failed"}
Manifest == [scenes : [Units -> SceneStates], done : BOOLEAN, provider : Kinds \cup {"nobody"}]
NoManifest == [scenes |-> [u \in Units |-> "absent"], done |-> FALSE, provider |-> "nobody"]

\* Mutant: the scenes enter the manifest when they are reached.
SeededEmpty(kind) == [NoManifest EXCEPT !.provider = kind]

\* seed: every scene of the request is pending again, whoever had produced it.
Seeded(kind) == [scenes |-> [u \in Units |-> "pending"], done |-> FALSE, provider |-> kind]

\* mark_scene: one scene changes; _recount closes a manifest without open scenes.
MarkScene(m, u, s) ==
    LET scenes == [m.scenes EXCEPT ![u] = s]
    IN  [m EXCEPT !.scenes = scenes,
                  !.done = @ \/ \A v \in Units : scenes[v] \in {"succeeded", "failed"}]

\* status: what every provider's poll answers.
ManifestStatus(m) ==
    LET units == [u \in Units |-> IF m.scenes[u] \in {"succeeded", "failed"}
                                  THEN m.scenes[u] ELSE "none"]
        total == Cardinality({u \in Units : m.scenes[u] # "absent"})
        settled == total > 0 /\ \A u \in Units : m.scenes[u] # "pending"
    IN  [state |-> IF settled \/ m.done THEN SettledState(units, total) ELSE "running",
         units |-> units]

-----------------------------------------------------------------------------
Workers == [pc : {"submit", "register", "top", "callback", "woke", "poll", "apply", "save",
                  "end", "down"},
            status : JobStatus,          \* the status at hand
            last : JobStatus,            \* last_status; Submitted while None
            fails : 0..MAX_CONSECUTIVE_POLL_FAILURES]

NewWorker == [pc |-> "submit", status |-> Submitted, last |-> Submitted, fails |-> 0]
NoBatch == [pc |-> "none", at |-> 1]
Over == [pc |-> "end", at |-> 1]
Quiet == [latched |-> FALSE, callback |-> "unbound", by |-> "nobody", job |-> NoRung,
          status |-> Submitted]
NoPush == [pc |-> "none", status |-> Submitted]
NoRecord == [rung |-> NoRung, status |-> Submitted]
NoOutcome == [kind |-> "none", state |-> "submitted", units |-> NoUnits]

\* Every variable has its type.
TypeOK ==
    /\ chain \in Chains
    /\ rung \in Rungs
    /\ manifest \in Manifest
    /\ batch \in [Rungs -> [pc : {"none", "check", "generate", "end"}, at : Units]]
    /\ stop \in BOOLEAN
    /\ token \in [Rungs -> [latched : BOOLEAN,
                            callback : {"unbound", "bound", "get", "assign", "save", "over"},
                            by : {"nobody", "worker", "batch"},
                            job : Rungs \cup {NoRung},
                            status : JobStatus]]
    /\ jobs \in [Rungs -> JobStatus]
    /\ prior \in [Rungs -> UnitMap]
    /\ live \in [Kinds -> Rungs \cup {NoRung}]
    /\ record \in [rung : Rungs \cup {NoRung}, status : JobStatus]
    /\ worker \in Workers
    /\ expired \in BOOLEAN
    /\ push \in [pc : {"none", "sent", "applied"}, status : JobStatus]
    /\ pushes \in 0..MaxPushes
    /\ crashes \in 0..MaxCrashes
    /\ outcome \in [kind : {"none", "result", "error", "cancelled"}, state : JOB_STATES,
                    units : UnitMap]

Init ==
    /\ chain \in Chains
    /\ rung = 1
    /\ manifest = NoManifest
    /\ batch = [r \in Rungs |-> NoBatch]
    /\ stop = FALSE
    /\ token = [r \in Rungs |-> Quiet]
    /\ jobs = [r \in Rungs |-> Submitted]
    /\ prior = [r \in Rungs |-> NoUnits]
    /\ live = [k \in Kinds |-> NoRung]
    /\ record = NoRecord
    /\ worker = NewWorker
    /\ expired = FALSE
    /\ push = NoPush
    /\ pushes = 0
    /\ crashes = 0
    /\ outcome = NoOutcome

Kind == chain[rung]
LiveJob == live[Kind]          \* the correlation of every rung of one kind is the same

-----------------------------------------------------------------------------
(* The outcome of run() and resume().                                       *)

\* Mutant: a run that timed out with units is a result.
ResultOfTimeout(status) ==
    [kind |-> IF status.state = "cancelled" THEN "cancelled"
              ELSE IF InState(status.units, "succeeded") = {} THEN "error" ELSE "result",
     state |-> status.state, units |-> status.units]

\* result_from_status: no unit produced is never a success, and a failure
\* carries the units as a diagnostic.
ResultOf(status) ==
    LET barren == \/ status.state \in {"timed_out", "failed"}
                  \/ status.units # NoUnits /\ InState(status.units, "succeeded") = {}
    IN  [kind |-> IF status.state = "cancelled" THEN "cancelled"
                  ELSE IF barren THEN "error" ELSE "result",
         state |-> status.state, units |-> status.units]

Cancelled == [kind |-> "cancelled", state |-> "cancelled", units |-> NoUnits]
Raised == [kind |-> "error", state |-> "failed", units |-> NoUnits]

Become(pc) == worker' = [worker EXCEPT !.pc = pc]

\* The finally of run() and resume(): the live job is dropped, whoever still needs it.
Finish(result) ==
    /\ outcome' = result
    /\ live' = [live EXCEPT ![Kind] = NoRung]
    /\ worker' = [NewWorker EXCEPT !.pc = "end"]

Save(status) == record' = [rung |-> rung, status |-> status]

-----------------------------------------------------------------------------
(* The worker: run().                                                       *)

\* provider.submit: the manifest is seeded and the batch thread started.
Submit ==
    /\ worker.pc = "submit"
    /\ manifest' = Seeded(Kind)
    /\ batch' = [batch EXCEPT ![rung] = IF Kind = "direct" THEN [pc |-> "check", at |-> 1] ELSE @]
    /\ Become("register")
    /\ UNCHANGED <<env, rung, stop, token, memory, record, expired, push, pushes, outcome>>

\* submit raises (no credentials, no transport): nothing is live, nothing is saved.
SubmitFails ==
    /\ worker.pc = "submit"
    /\ Finish(Raised)
    /\ UNCHANGED <<env, rung, provider, stop, token, jobs, prior, record, expired, push, pushes>>

\* register, save, _bind_cancel.  on_cancel runs the callback at once when the
\* batch thread has already seen the stop.
Register ==
    LET initial == [state |-> "submitted", units |-> prior[rung]]
        fired == token[rung].latched
    IN  /\ worker.pc = "register"
        /\ jobs' = [jobs EXCEPT ![rung] = initial]
        /\ live' = [live EXCEPT ![Kind] = rung]
        /\ Save(initial)
        /\ token' = [token EXCEPT ![rung] = [@ EXCEPT !.callback = IF fired THEN "get" ELSE "bound",
                                                      !.by = IF fired THEN "worker" ELSE "nobody"]]
        /\ Become(IF fired THEN "callback" ELSE "top")
        /\ UNCHANGED <<env, rung, provider, stop, prior, expired, push, pushes, outcome>>

SeesStop(r) == stop \/ token[r].latched
AtCheck == worker.pc \in {"top", "woke"}

\* raise_if_cancelled when this thread is the first to see the stop: it runs
\* the callback before it raises.
NoticeStop ==
    /\ AtCheck
    /\ stop /\ ~token[rung].latched
    /\ token' = [token EXCEPT ![rung] = [@ EXCEPT !.latched = TRUE, !.callback = "get",
                                                  !.by = "worker"]]
    /\ Become("callback")
    /\ UNCHANGED <<env, rung, provider, stop, memory, record, expired, push, pushes, outcome>>

\* ... and when the batch thread saw it first: it raises at once, while that
\* thread may still be in the callback.
RaiseCancelled ==
    /\ \/ AtCheck /\ token[rung].latched
       \/ worker.pc = "callback" /\ token[rung].callback = "over"
    /\ Finish(Cancelled)
    /\ UNCHANGED <<env, rung, provider, stop, token, jobs, prior, record, expired, push, pushes>>

\* The top of the loop, and the way through the sleep.
Sleep ==
    /\ worker.pc = "top" /\ ~SeesStop(rung)
    /\ ~Terminal(jobs[LiveJob])
    /\ Become("woke")
    /\ UNCHANGED <<env, rung, provider, stop, token, memory, record, expired, push, pushes, outcome>>

\* A push or a cancel has completed the job meanwhile.
FindCompleted ==
    /\ \/ worker.pc = "top"
       \/ worker.pc = "woke" /\ ~expired
    /\ ~SeesStop(rung)
    /\ Terminal(jobs[LiveJob])
    /\ Finish(ResultOf(jobs[LiveJob]))
    /\ UNCHANGED <<env, rung, provider, stop, token, jobs, prior, record, expired, push, pushes>>

StartPoll ==
    /\ worker.pc = "woke" /\ ~SeesStop(rung) /\ ~expired
    /\ ~Terminal(jobs[LiveJob])
    /\ Become("poll")
    /\ UNCHANGED <<env, rung, provider, stop, token, memory, record, expired, push, pushes, outcome>>

\* Mutant: the polled status is saved before it is applied.
PollSaving ==
    /\ worker.pc = "poll"
    /\ Save(ManifestStatus(manifest))
    /\ worker' = [pc |-> "apply", status |-> ManifestStatus(manifest),
                  last |-> ManifestStatus(manifest), fails |-> 0]
    /\ UNCHANGED <<env, rung, provider, stop, token, memory, expired, push, pushes, outcome>>

Poll ==
    /\ worker.pc = "poll"
    /\ worker' = [pc |-> "apply", status |-> ManifestStatus(manifest),
                  last |-> ManifestStatus(manifest), fails |-> 0]
    /\ UNCHANGED <<env, rung, provider, stop, token, memory, record, expired, push, pushes, outcome>>

\* Mutant: poll failures are absorbed without a limit.
PollFailsAlways ==
    /\ worker.pc = "poll"
    /\ worker' = [worker EXCEPT !.pc = "top", !.fails = @ + 1]
    /\ UNCHANGED <<env, rung, provider, stop, token, memory, record, expired, push, pushes, outcome>>

\* _record_poll_failure below the limit: the loop goes on.
PollFails ==
    /\ worker.pc = "poll"
    /\ worker.fails + 1 < MAX_CONSECUTIVE_POLL_FAILURES
    /\ worker' = [worker EXCEPT !.pc = "top", !.fails = @ + 1]
    /\ UNCHANGED <<env, rung, provider, stop, token, memory, record, expired, push, pushes, outcome>>

\* ... and at the limit: the job has failed, and goes through apply_status as such.
PollGivesUp ==
    LET failed == [jobs[LiveJob] EXCEPT !.state = "failed"]
    IN  /\ worker.pc = "poll"
        /\ worker.fails + 1 = MAX_CONSECUTIVE_POLL_FAILURES
        /\ ~Terminal(jobs[LiveJob])
        /\ jobs' = [jobs EXCEPT ![LiveJob] = failed]
        /\ Save(failed)
        /\ worker' = [pc |-> "apply", status |-> failed, last |-> failed,
                      fails |-> MAX_CONSECUTIVE_POLL_FAILURES]
        /\ UNCHANGED <<env, rung, provider, stop, token, prior, live, expired, push, pushes, outcome>>

\* ... unless it completed while it was polled: advance refuses, and the error
\* of a job that is complete goes to the caller.
PollGivesUpLate ==
    /\ worker.pc = "poll"
    /\ worker.fails + 1 = MAX_CONSECUTIVE_POLL_FAILURES
    /\ Terminal(jobs[LiveJob])
    /\ Finish(Raised)
    /\ UNCHANGED <<env, rung, provider, stop, token, jobs, prior, record, expired, push, pushes>>

Apply ==
    LET applied == ApplyStatus(LiveJob, worker.status)
    IN  /\ worker.pc = "apply"
        /\ jobs' = [jobs EXCEPT ![LiveJob] = applied]
        /\ worker' = [worker EXCEPT !.pc = "save", !.status = applied]
        /\ UNCHANGED <<env, rung, provider, stop, token, prior, live, record, expired, push, pushes, outcome>>

\* Mutant: a status that ends the job is returned before it is saved.
SaveUnlessOver ==
    /\ worker.pc = "save" /\ (Terminal(worker.status) \/ ~expired)
    /\ IF Terminal(worker.status)
       THEN Finish(ResultOf(worker.status)) /\ UNCHANGED record
       ELSE /\ Save(worker.status)
            /\ worker' = [worker EXCEPT !.pc = "top", !.status = Submitted]
            /\ UNCHANGED <<live, outcome>>
    /\ UNCHANGED <<env, rung, provider, stop, token, jobs, prior, expired, push, pushes>>

\* The record gets what this poll applied, whatever was applied since.
SavePolled ==
    /\ worker.pc = "save"
    /\ Terminal(worker.status) \/ ~expired
    /\ Save(worker.status)
    /\ IF Terminal(worker.status)
       THEN Finish(ResultOf(worker.status))
       ELSE /\ worker' = [worker EXCEPT !.pc = "top", !.status = Submitted]
            /\ UNCHANGED <<live, outcome>>
    /\ UNCHANGED <<env, rung, provider, stop, token, jobs, prior, expired, push, pushes>>

\* _timeout, after a save or after the sleep: the status is made from the one at
\* hand (None: the live one), not from what was applied since.
TimedOut(base) == IF Terminal(base) THEN base ELSE [base EXCEPT !.state = "timed_out"]

\* Mutant: the deadline is looked at only after a poll.
TimeoutAfterPoll ==
    /\ expired /\ worker.pc = "save" /\ ~Terminal(worker.status)
    /\ jobs' = [jobs EXCEPT ![LiveJob] = TimedOut(worker.status)]
    /\ Save(TimedOut(worker.status))
    /\ Finish(ResultOf(TimedOut(worker.status)))
    /\ UNCHANGED <<env, rung, provider, stop, token, prior, expired, push, pushes>>

Timeout ==
    LET base == IF worker.pc = "save" THEN worker.status
                ELSE IF worker.last # Submitted THEN worker.last ELSE jobs[LiveJob]
        timed == TimedOut(base)
    IN  /\ expired
        /\ \/ worker.pc = "save" /\ ~Terminal(worker.status)
           \/ worker.pc = "woke" /\ ~SeesStop(rung)
        /\ jobs' = [jobs EXCEPT ![LiveJob] = timed]
        /\ Save(timed)
        /\ Finish(ResultOf(timed))
        /\ UNCHANGED <<env, rung, provider, stop, token, prior, expired, push, pushes>>

-----------------------------------------------------------------------------
(* resume(), after the process was killed.                                  *)

\* rehydrate: a record that is not terminal is polled again, without prior units.
Resume ==
    /\ worker.pc = "down"
    /\ record # NoRecord /\ ~Terminal(record.status)
    /\ rung' = record.rung
    /\ jobs' = [jobs EXCEPT ![record.rung] = record.status]
    /\ live' = [live EXCEPT ![chain[record.rung]] = record.rung]
    /\ token' = [token EXCEPT ![record.rung].callback = "bound"]
    /\ worker' = [NewWorker EXCEPT !.pc = "top"]
    /\ UNCHANGED <<env, provider, stop, prior, record, expired, push, pushes, outcome>>

\* The outcome of a job that had ended before the kill is read from its record.
ResumeEnded ==
    /\ worker.pc = "down"
    /\ IF record = NoRecord THEN outcome' = Raised
       ELSE Terminal(record.status) /\ outcome' = ResultOf(record.status)
    /\ Become("end")
    /\ UNCHANGED <<env, rung, provider, stop, token, memory, record, expired, push, pushes>>

\* The provider is no longer registered.
ResumeOrphaned ==
    LET failed == [record.status EXCEPT !.state = "failed"]
    IN  /\ worker.pc = "down"
        /\ record # NoRecord /\ ~Terminal(record.status)
        /\ record' = [record EXCEPT !.status = failed]
        /\ outcome' = ResultOf(failed)
        /\ Become("end")
        /\ UNCHANGED <<env, rung, provider, stop, token, memory, expired, push, pushes>>

-----------------------------------------------------------------------------
(* The cancel callback of _bind_cancel, on the thread that saw the stop.    *)

\* It looks for the live job and prepares the cancelled status.
CancelGet(r) ==
    LET found == live[chain[r]]
    IN  /\ token[r].callback = "get"
        /\ token' = IF found = NoRung \/ Terminal(jobs[found])
                    THEN [token EXCEPT ![r].callback = "over"]
                    ELSE [token EXCEPT ![r] = [@ EXCEPT
                             !.callback = "assign", !.job = found,
                             !.status = [jobs[found] EXCEPT !.state = "cancelled"]]]
        /\ UNCHANGED <<env, rung, provider, stop, memory, record, worker, expired, push, pushes, outcome>>

\* It assigns without the lock of the store: what was applied in between is lost.
CancelAssign(r) ==
    /\ token[r].callback = "assign"
    /\ jobs' = [jobs EXCEPT ![token[r].job] = token[r].status]
    /\ token' = [token EXCEPT ![r].callback = "save"]
    /\ UNCHANGED <<env, rung, provider, stop, prior, live, record, worker, expired, push, pushes, outcome>>

CancelSave(r) ==
    /\ token[r].callback = "save"
    /\ record' = [rung |-> r, status |-> jobs[token[r].job]]
    /\ token' = [token EXCEPT ![r] = [Quiet EXCEPT !.latched = TRUE, !.callback = "over"]]
    /\ UNCHANGED <<env, rung, provider, stop, memory, worker, expired, push, pushes, outcome>>

-----------------------------------------------------------------------------
(* The provider.                                                            *)

BatchIn(r, pc) == batch[r].pc = pc

\* run_batch looks for the stop before each scene, then marks the scene.
BatchScene(r) ==
    /\ BatchIn(r, "check") /\ ~SeesStop(r)
    /\ manifest' = MarkScene(manifest, batch[r].at, "pending")
    /\ batch' = [batch EXCEPT ![r].pc = "generate"]
    /\ UNCHANGED <<env, rung, stop, token, memory, record, worker, expired, push, pushes, outcome>>

BatchRecord(r) ==
    /\ BatchIn(r, "generate")
    /\ \E s \in {"succeeded", "failed"} : manifest' = MarkScene(manifest, batch[r].at, s)
    /\ batch' = [batch EXCEPT ![r] = IF @.at = NumUnits THEN Over ELSE [pc |-> "check", at |-> @.at + 1]]
    /\ UNCHANGED <<env, rung, stop, token, memory, record, worker, expired, push, pushes, outcome>>

\* is_cancelled on the batch thread: when it is the first, it runs the callback.
BatchCancelled(r) ==
    /\ BatchIn(r, "check") /\ SeesStop(r)
    /\ batch' = [batch EXCEPT ![r] = Over]
    /\ token' = IF token[r].latched THEN token
                ELSE [token EXCEPT ![r] = [@ EXCEPT
                         !.latched = TRUE, !.by = "batch",
                         !.callback = IF token[r].callback = "bound" THEN "get" ELSE token[r].callback]]
    /\ UNCHANGED <<env, rung, manifest, stop, memory, record, worker, expired, push, pushes, outcome>>

\* The extension reports a scene; accept_legacy_job drops what comes for a
\* manifest another provider has seeded since.
ExtensionRecord(u) ==
    /\ manifest.provider \in {"extension", "pushed"}
    /\ \E s \in {"succeeded", "failed"} : manifest' = MarkScene(manifest, u, s)
    /\ UNCHANGED <<env, rung, batch, stop, token, memory, record, worker, expired, push, pushes, outcome>>

\* mark_done: the scenes that are still open never arrive.
ExtensionDone ==
    /\ manifest.provider = "extension"
    /\ manifest' = [manifest EXCEPT !.done = TRUE]
    /\ UNCHANGED <<env, rung, batch, stop, token, memory, record, worker, expired, push, pushes, outcome>>

\* A remote service sends a status, which may arrive late.
PushSend ==
    /\ manifest.provider = "pushed"
    /\ push.pc = "none" /\ pushes < MaxPushes
    /\ push' = [pc |-> "sent", status |-> ManifestStatus(manifest)]
    /\ pushes' = pushes + 1
    /\ UNCHANGED <<env, rung, provider, stop, token, memory, record, worker, expired, outcome>>

\* apply_callback: dropped without a live job, else merged like a poll.
PushApply ==
    LET r == live["pushed"]
        applied == ApplyStatus(r, push.status)
    IN  /\ push.pc = "sent"
        /\ IF r = NoRung
           THEN push' = NoPush /\ UNCHANGED jobs
           ELSE /\ jobs' = [jobs EXCEPT ![r] = applied]
                /\ push' = [pc |-> "applied", status |-> applied]
        /\ UNCHANGED <<env, rung, provider, stop, token, prior, live, record, worker, expired, pushes, outcome>>

\* It is saved only while the job is still live.
PushSave ==
    LET r == live["pushed"]
    IN  /\ push.pc = "applied"
        /\ record' = IF r = NoRung THEN record ELSE [rung |-> r, status |-> push.status]
        /\ push' = NoPush
        /\ UNCHANGED <<env, rung, provider, stop, token, memory, worker, expired, pushes, outcome>>

-----------------------------------------------------------------------------
(* The environment.                                                         *)

\* The operator stops the execution.
Stop ==
    /\ ~stop /\ worker.pc \notin {"down", "end"}
    /\ stop' = TRUE
    /\ UNCHANGED <<env, rung, provider, token, memory, record, worker, expired, push, pushes, outcome>>

\* Time passes: the deadline of this rung is over.
Expire ==
    /\ ~expired /\ worker.pc \notin {"down", "end", "submit", "register"}
    /\ expired' = TRUE
    /\ UNCHANGED <<env, rung, provider, stop, token, memory, record, worker, push, pushes, outcome>>

\* The process is killed: threads and memory are gone, the files and whatever
\* works elsewhere remain.
Crash ==
    /\ worker.pc \notin {"down", "end"} /\ crashes < MaxCrashes
    /\ crashes' = crashes + 1
    /\ worker' = [NewWorker EXCEPT !.pc = "down"]
    /\ batch' = [r \in Rungs |-> NoBatch]
    /\ token' = [r \in Rungs |-> Quiet]
    /\ jobs' = [r \in Rungs |-> Submitted]
    /\ prior' = [r \in Rungs |-> NoUnits]
    /\ live' = [k \in Kinds |-> NoRung]
    /\ push' = IF push.pc = "applied" THEN NoPush ELSE push
    /\ stop' = FALSE /\ expired' = FALSE
    /\ UNCHANGED <<chain, rung, manifest, record, pushes, outcome>>

Run == Submit \/ SubmitFails \/ Register
Await == \/ NoticeStop \/ RaiseCancelled \/ Sleep \/ FindCompleted \/ StartPoll
         \/ Poll \/ PollFails \/ PollGivesUp \/ PollGivesUpLate
         \/ Apply \/ SavePolled \/ Timeout
Restart == Resume \/ ResumeEnded \/ ResumeOrphaned
Callback == \E r \in Rungs : CancelGet(r) \/ CancelAssign(r) \/ CancelSave(r)
Batches == \E r \in Rungs : \/ BatchScene(r) \/ BatchRecord(r) \/ BatchCancelled(r)
Outside == \/ (\E u \in Units : ExtensionRecord(u)) \/ ExtensionDone
           \/ PushSend \/ PushApply \/ PushSave
           \/ Stop \/ Expire \/ Crash

ServiceNext == Run \/ Await \/ Restart \/ Callback \/ Batches \/ Outside
=============================================================================

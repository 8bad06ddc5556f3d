----------------------- MODULE ProviderFallbackProofs -----------------------
(***************************************************************************)
(* What ProviderFallback keeps for any number of units, any chains of      *)
(* providers and any number of pushes and kills: its types, the honesty of *)
(* every result, and the promise made to the node that waits.              *)
(*                                                                         *)
(* The inductive invariant is a typing in which every status there is,     *)
(* wherever it travels, is an honest one: it claims success only over      *)
(* units that succeeded.  The parts after it prove that what a job has     *)
(* learned stays, and what the record and the caller are told in the end.  *)
(***************************************************************************)
EXTENDS ProviderFallback, SequenceTheorems, FiniteSetTheorems, TLAPS

Claims(state, units) ==
    state \in Good =>
        /\ \E u \in Units : units[u] = "succeeded"
        /\ state = "succeeded" => \A u \in Units : units[u] # "failed"
HonestStatus == {s \in JobStatus : Claims(s.state, s.units)}
HonestOutcome ==
    {o \in [kind : {"none", "result", "error", "cancelled"}, state : JOB_STATES, units : UnitMap] :
        o.kind = "result" => o.state \in Good /\ Claims(o.state, o.units)}

Steps == 1..Len(chain)
BatchType == [pc : {"none", "check", "generate", "end"}, at : Units]
TokenType == [latched : BOOLEAN,
              callback : {"unbound", "bound", "get", "assign", "save", "over"},
              by : {"nobody", "worker", "batch"},
              job : Rungs \cup {NoRung},
              status : HonestStatus]
WorkerType == [pc : {"submit", "register", "top", "callback", "woke", "poll", "apply", "save",
                     "end", "down"},
               status : HonestStatus, last : HonestStatus,
               fails : 0..MAX_CONSECUTIVE_POLL_FAILURES]
RecordType == [rung : Rungs \cup {NoRung}, status : HonestStatus]
PushType == [pc : {"none", "sent", "applied"}, status : HonestStatus]

\* The variables a provider, a worker and the store share.
StoreInv ==
    /\ jobs \in [Rungs -> HonestStatus]
    /\ prior \in [Rungs -> UnitMap]
    /\ live \in [Kinds -> Rungs \cup {NoRung}]
    /\ \A k \in Kinds : live[k] # NoRung => live[k] \in Steps
    /\ record \in RecordType
    /\ record # NoRecord => record.rung \in Steps
    /\ push \in PushType
ProviderInv ==
    /\ manifest \in Manifest
    /\ batch \in [Rungs -> BatchType]
TokenInv ==
    /\ token \in [Rungs -> TokenType]
    /\ \A r \in Rungs : /\ token[r].callback # "unbound" => r \in Steps
                        /\ token[r].callback \in {"assign", "save"} => token[r].job \in Rungs
WorkerInv ==
    /\ chain \in Chains
    /\ rung \in Steps
    /\ worker \in WorkerType
    /\ worker.pc \in {"top", "callback", "woke", "poll", "apply", "save"} => live[chain[rung]] = rung
    /\ outcome \in HonestOutcome
SwitchInv ==
    /\ stop \in BOOLEAN /\ expired \in BOOLEAN
    /\ pushes \in 0..MaxPushes /\ crashes \in 0..MaxCrashes
ServiceInv == StoreInv /\ ProviderInv /\ TokenInv /\ WorkerInv /\ SwitchInv
FallbackInv ==
    /\ accumulated \in [Units -> [state : UnitStates, from : Rungs \cup {NoRung}]]
    /\ returned \in BOOLEAN
    /\ verdict \in Verdicts \cup {"none"}
    /\ verdict # "none" => worker.pc = "end"
IInv == ServiceInv /\ FallbackInv

-----------------------------------------------------------------------------
\* Every status that is made is honest, whatever it is made of.
LEMMA Statuses ==
    /\ Submitted \in HonestStatus
    /\ \A s \in HonestStatus, x \in {"submitted", "running", "failed", "cancelled", "timed_out"} :
        [s EXCEPT !.state = x] \in HonestStatus
    /\ \A units \in UnitMap : [state |-> "submitted", units |-> units] \in HonestStatus
    /\ \A m \in Manifest : ManifestStatus(m) \in HonestStatus
    /\ \A s \in HonestStatus : TimedOut(s) \in HonestStatus /\ Terminal(TimedOut(s))
    /\ \A s \in HonestStatus : Terminal(s) => ResultOf(s) \in HonestOutcome
    /\ {Raised, Cancelled, NoOutcome} \subseteq HonestOutcome
    /\ \A pc \in {"submit", "top", "end", "down"} : [NewWorker EXCEPT !.pc = pc] \in WorkerType
<1> USE DEF HonestStatus, Claims, JobStatus, JOB_STATES, TERMINAL_STATES, Good, UnitMap, UnitStates
<1>1. Submitted \in HonestStatus
  BY DEF Submitted, NoUnits
<1>2. \A s \in HonestStatus, x \in {"submitted", "running", "failed", "cancelled", "timed_out"} :
        [s EXCEPT !.state = x] \in HonestStatus
  OBVIOUS
<1>3. \A units \in UnitMap : [state |-> "submitted", units |-> units] \in HonestStatus
  OBVIOUS
<1>4. ASSUME NEW m \in Manifest PROVE ManifestStatus(m) \in HonestStatus
  <2> DEFINE units == [u \in Units |-> IF m.scenes[u] \in {"succeeded", "failed"}
                                       THEN m.scenes[u] ELSE "none"]
             total == Cardinality({u \in Units : m.scenes[u] # "absent"})
  <2>1. units \in UnitMap
    BY DEF Manifest, SceneStates
  <2>2. /\ SettledState(units, total) \in {"failed", "partial", "succeeded"}
        /\ Claims(SettledState(units, total), units)
    BY DEF SettledState, InState
  <2>3. \/ ManifestStatus(m) = [state |-> "running", units |-> units]
        \/ ManifestStatus(m) = [state |-> SettledState(units, total), units |-> units]
    BY DEF ManifestStatus
  <2> HIDE DEF units, total
  <2> QED BY <2>1, <2>2, <2>3
<1>5. \A s \in HonestStatus : TimedOut(s) \in HonestStatus /\ Terminal(TimedOut(s))
  BY DEF TimedOut, Terminal
<1>6. ASSUME NEW s \in HonestStatus, Terminal(s) PROVE ResultOf(s) \in HonestOutcome
  <2> DEFINE o == ResultOf(s)
  <2>1. s.state \in JOB_STATES /\ s.units \in UnitMap /\ Claims(s.state, s.units)
    OBVIOUS
  <2>2. o.state = s.state /\ o.units = s.units /\ o = [kind |-> o.kind, state |-> s.state, units |-> s.units]
    BY DEF ResultOf
  <2>3. o.kind \in {"none", "result", "error", "cancelled"}
    BY DEF ResultOf
  <2>4. o.kind = "result" => s.state \notin {"cancelled", "timed_out", "failed"}
    BY DEF ResultOf
  <2>5. o.kind = "result" => s.state \in Good
    BY <1>6, <2>4 DEF Terminal
  <2> HIDE DEF o, Claims, UnitMap, JOB_STATES
  <2>6. o \in HonestOutcome
    BY <2>1, <2>2, <2>3, <2>5 DEF HonestOutcome
  <2> QED BY <2>6 DEF o
<1>7. {Raised, Cancelled, NoOutcome} \subseteq HonestOutcome
  BY DEF Raised, Cancelled, NoOutcome, HonestOutcome, NoUnits
<1>8. \A pc \in {"submit", "top", "end", "down"} : [NewWorker EXCEPT !.pc = pc] \in WorkerType
  <2> HIDE DEF HonestStatus
  <2> QED BY <1>1, BoundsAssumption DEF NewWorker, WorkerType
<1> QED BY <1>1, <1>2, <1>3, <1>4, <1>5, <1>6, <1>7, <1>8

\* apply_status makes an honest status of honest ones: its verdict is derived again
\* from the units that it merged.
LEMMA Applied ==
    ASSUME jobs \in [Rungs -> HonestStatus], prior \in [Rungs -> UnitMap],
           NEW r \in Rungs, NEW s \in HonestStatus
    PROVE  ApplyStatus(r, s) \in HonestStatus
<1> DEFINE units == MergeUnits(prior[r], MergeUnits(jobs[r].units, s.units))
           rederived == units # NoUnits /\ s.state \in TERMINAL_STATES \ {"cancelled", "timed_out"}
<1>1. jobs[r] \in JobStatus /\ s \in JobStatus /\ prior[r] \in UnitMap
  BY DEF HonestStatus
<1>2. units \in UnitMap
  BY <1>1 DEF MergeUnits, UnitMap, UnitStates, JobStatus
<1>3. ASSUME NEW v \in UnitMap
      PROVE  /\ RederivedState(v) \in {"failed", "partial", "succeeded"}
             /\ Claims(RederivedState(v), v)
  BY DEF RederivedState, InState, Claims, Good
<1>4. ~rederived => Claims(s.state, units)
  <2> SUFFICES ASSUME ~rederived, s.state \in Good PROVE FALSE
    BY DEF Claims
  <2>1. units = NoUnits
    BY DEF Good, TERMINAL_STATES
  <2>2. PICK u \in Units : s.units[u] = "succeeded"
    BY DEF HonestStatus, Claims
  <2>3. units[u] # "none"
    BY <2>2 DEF MergeUnits
  <2> QED BY <2>1, <2>3 DEF NoUnits
<1>5. ApplyStatus(r, s) \in {jobs[r], [state |-> RederivedState(units), units |-> units],
                             [state |-> s.state, units |-> units]}
  BY DEF ApplyStatus
<1>6. ~rederived \/ ApplyStatus(r, s) # [state |-> s.state, units |-> units]
      \/ ApplyStatus(r, s) = jobs[r] \/ s.state = RederivedState(units)
  BY DEF ApplyStatus
<1> HIDE DEF units, rederived
<1>7. [state |-> RederivedState(units), units |-> units] \in HonestStatus
  BY <1>2, <1>3 DEF HonestStatus, JobStatus, JOB_STATES, TERMINAL_STATES
<1>8. s.state \in JOB_STATES
  BY <1>1 DEF JobStatus
<1>9. Claims(s.state, units) => [state |-> s.state, units |-> units] \in HonestStatus
  BY <1>2, <1>8 DEF HonestStatus, JobStatus
<1> QED BY <1>4, <1>5, <1>6, <1>7, <1>9

-----------------------------------------------------------------------------
\* The rung is one of the chain, and every rung of the chain has a provider.
LEMMA Chained ==
    ASSUME WorkerInv
    PROVE  /\ Len(chain) \in Rungs /\ Steps \subseteq Rungs /\ rung \in Rungs /\ rung \in Nat
           /\ \A r \in Steps : chain[r] \in Kinds
           /\ Kind \in Kinds
<1>1. chain \in Seq(Kinds) /\ Len(chain) \in Rungs
  BY ChainsAssumption DEF WorkerInv
<1>2. Len(chain) \in Nat /\ MaxRungs \in Nat /\ Len(chain) <= MaxRungs
  BY <1>1, ChainsAssumption DEF Rungs
<1>3. \A r \in Steps : r \in Rungs /\ r \in Nat /\ chain[r] \in Kinds
  BY <1>1, <1>2, ElementOfSeq DEF Steps, Rungs
<1> QED BY <1>1, <1>3 DEF WorkerInv, Kind

\* The worker starts, and a restarted process takes up the record.
LEMMA StartKeeps ==
    ASSUME ServiceInv, Run \/ Restart
    PROVE  ServiceInv'
<1> USE DEF ServiceInv
<1>0. /\ rung \in Rungs /\ Steps \subseteq Rungs /\ Kind \in Kinds
      /\ \A r \in Steps : chain[r] \in Kinds
  BY Chained
<1>1. CASE Submit
  <2> USE <1>1 DEF Submit, env, memory, Become
  <2>1. manifest' \in Manifest
    BY <1>0 DEF Seeded, Manifest, SceneStates
  <2>2. batch' \in [Rungs -> BatchType]
    BY <1>0, NumUnitsAssumption DEF ProviderInv, BatchType, Units
  <2>3. WorkerInv' /\ Steps' = Steps
    BY DEF WorkerInv, WorkerType, Steps
  <2>4. StoreInv' /\ TokenInv' /\ SwitchInv'
    BY <2>3 DEF StoreInv, TokenInv, SwitchInv
  <2> QED BY <2>1, <2>2, <2>3, <2>4 DEF ProviderInv
<1>2. CASE SubmitFails
  <2> USE <1>2 DEF SubmitFails, Finish, env, provider
  <2>1. outcome' \in HonestOutcome
    BY Statuses
  <2>2. live' \in [Kinds -> Rungs \cup {NoRung}] /\ \A k \in Kinds : live'[k] # NoRung => live'[k] \in Steps
    BY <1>0 DEF StoreInv
  <2>3. WorkerInv' /\ Steps' = Steps
    BY <2>1, Statuses DEF WorkerInv, WorkerType, Steps
  <2>4. StoreInv' /\ ProviderInv' /\ TokenInv' /\ SwitchInv'
    BY <2>2, <2>3 DEF StoreInv, ProviderInv, TokenInv, SwitchInv
  <2> QED BY <2>3, <2>4
<1>3. CASE Register
  <2> DEFINE initial == [state |-> "submitted", units |-> prior[rung]]
  <2> USE <1>3 DEF Register, Save, Become, env, provider
  <2>1. initial \in HonestStatus
    BY <1>0, Statuses DEF StoreInv
  <2>2. WorkerInv' /\ Steps' = Steps
    <3>1. live'[chain'[rung']] = rung' /\ worker'.pc \in {"callback", "top"}
      BY <1>0 DEF StoreInv, Kind, WorkerInv, WorkerType
    <3> QED BY <3>1 DEF WorkerInv, WorkerType, Steps
  <2>3. StoreInv'
    <3>1. jobs' \in [Rungs -> HonestStatus]
      BY <1>0, <2>1 DEF StoreInv
    <3>2. live' \in [Kinds -> Rungs \cup {NoRung}] /\ \A k \in Kinds : live'[k] # NoRung => live'[k] \in Steps
      BY <1>0 DEF StoreInv, WorkerInv
    <3>3. record' \in RecordType /\ record'.rung = rung
      BY <1>0, <2>1 DEF RecordType
    <3>4. UNCHANGED <<prior, push>>
      OBVIOUS
    <3> QED BY <2>2, <3>1, <3>2, <3>3, <3>4 DEF StoreInv, WorkerInv
  <2>4. TokenInv'
    <3> DEFINE bound == [token[rung] EXCEPT
                           !.callback = IF token[rung].latched THEN "get" ELSE "bound",
                           !.by = IF token[rung].latched THEN "worker" ELSE "nobody"]
    <3>1. token' = [token EXCEPT ![rung] = bound]
      OBVIOUS
    <3> HIDE DEF Register, initial
    <3>2. token[rung] \in TokenType /\ rung \in Steps
      BY <1>0 DEF TokenInv, WorkerInv
    <3>3. bound \in TokenType /\ bound.callback \in {"get", "bound"}
      BY <3>2 DEF TokenType
    <3> HIDE DEF bound
    <3> QED BY <1>0, <2>2, <3>1, <3>2, <3>3 DEF TokenInv
  <2> QED BY <2>2, <2>3, <2>4 DEF ProviderInv, SwitchInv
<1>4. CASE Resume
  <2> USE <1>4 DEF Resume, env, provider
  <2>1. record.rung \in Steps /\ record.rung \in Rungs /\ record.status \in HonestStatus
    BY <1>0 DEF StoreInv, RecordType
  <2>2. WorkerInv' /\ Steps' = Steps
    <3>1. live'[chain'[rung']] = rung'
      BY <1>0, <2>1 DEF StoreInv
    <3>2. worker' \in WorkerType
      BY Statuses
    <3> QED BY <2>1, <3>1, <3>2 DEF WorkerInv, Steps
  <2>3. StoreInv'
    BY <1>0, <2>1, <2>2 DEF StoreInv
  <2>4. TokenInv'
    BY <1>0, <2>1, <2>2 DEF TokenInv, TokenType
  <2> QED BY <2>2, <2>3, <2>4 DEF ProviderInv, SwitchInv
<1>5. CASE ResumeEnded
  <2> USE <1>5 DEF ResumeEnded, env, provider, memory, Become
  <2>1. outcome' \in HonestOutcome
    BY Statuses DEF StoreInv, RecordType
  <2>2. WorkerInv' /\ Steps' = Steps
    BY <2>1 DEF WorkerInv, WorkerType, Steps
  <2> QED BY <2>2 DEF StoreInv, TokenInv, ProviderInv, SwitchInv
<1>6. CASE ResumeOrphaned
  <2> DEFINE failed == [record.status EXCEPT !.state = "failed"]
  <2>0. failed \in HonestStatus /\ Terminal(failed)
    <3>1. record.status \in HonestStatus
      BY DEF StoreInv, RecordType
    <3> QED BY <3>1, Statuses DEF Terminal, TERMINAL_STATES, HonestStatus, JobStatus
  <2> HIDE DEF failed
  <2>1. /\ outcome' = ResultOf(failed) /\ record' = [record EXCEPT !.status = failed]
        /\ worker' = [worker EXCEPT !.pc = "end"] /\ record # NoRecord
        /\ UNCHANGED <<env, rung, provider, stop, token, memory, expired, push, pushes>>
    BY <1>6 DEF ResumeOrphaned, Become, failed
  <2>2. WorkerInv' /\ Steps' = Steps
    BY <2>0, <2>1, Statuses, ZenonT(60) DEF WorkerInv, WorkerType, Steps, env
  <2>3. StoreInv'
    BY <2>0, <2>1, <2>2 DEF StoreInv, RecordType, memory
  <2> QED BY <2>1, <2>2, <2>3 DEF TokenInv, ProviderInv, SwitchInv, provider, env
<1> QED BY <1>1, <1>2, <1>3, <1>4, <1>5, <1>6 DEF Run, Restart

\* The worker waits for its job: the stop, the sleep, the poll, the deadline.
LEMMA AwaitKeeps ==
    ASSUME ServiceInv, Await
    PROVE  ServiceInv'
<1> DEFINE LiveType(f) == f \in [Kinds -> Rungs \cup {NoRung}] /\ \A k \in Kinds : f[k] # NoRung => f[k] \in Steps
           Awaiting == {"top", "callback", "woke", "poll", "apply", "save"}
<1>0. /\ rung \in Rungs /\ rung \in Steps /\ Kind \in Kinds
      /\ LiveType(live) /\ jobs \in [Rungs -> HonestStatus] /\ record \in RecordType
      /\ worker \in WorkerType
      /\ worker.pc \in Awaiting => LiveJob = rung
  BY Chained DEF ServiceInv, StoreInv, WorkerInv, LiveJob, Kind
<1>a. ASSUME NEW w \in WorkerType, worker' = w, w.pc \in Awaiting => worker.pc \in Awaiting,
             UNCHANGED <<chain, rung, live, outcome>>
      PROVE  WorkerInv' /\ Steps' = Steps
  BY <1>a DEF ServiceInv, WorkerInv, Steps
<1>b. ASSUME NEW o \in HonestOutcome, Finish(o), UNCHANGED <<chain, rung>>
      PROVE  WorkerInv' /\ Steps' = Steps /\ LiveType(live')
  <2>1. LiveType(live')
    BY <1>0, <1>b DEF Finish
  <2>2. worker' \in WorkerType /\ worker'.pc = "end"
    BY <1>b, Statuses DEF Finish, NewWorker
  <2> QED BY <1>b, <2>1, <2>2 DEF Finish, ServiceInv, WorkerInv, Steps
<1>c. ASSUME NEW s \in HonestStatus, Save(s) PROVE record' \in RecordType /\ record'.rung = rung
  BY <1>0, <1>c DEF Save, RecordType
<1>d. ASSUME NEW s \in HonestStatus, jobs' = [jobs EXCEPT ![rung] = s] PROVE jobs' \in [Rungs -> HonestStatus]
  BY <1>0, <1>d
<1>e. ASSUME WorkerInv', Steps' = Steps, LiveType(live'), UNCHANGED <<prior, push, manifest, batch, stop, pushes, crashes, rung, token>>,
             jobs' \in [Rungs -> HonestStatus],
             UNCHANGED record \/ (record' \in RecordType /\ record'.rung = rung),
             UNCHANGED expired
      PROVE  ServiceInv'
  <2>1. StoreInv'
    BY <1>0, <1>e DEF ServiceInv, StoreInv
  <2> QED BY <2>1, <1>e DEF ServiceInv, ProviderInv, TokenInv, SwitchInv
<1> HIDE DEF LiveType, Awaiting
<1>1. CASE Sleep \/ StartPoll
  <2> DEFINE w == [worker EXCEPT !.pc = IF worker.pc = "top" THEN "woke" ELSE "poll"]
  <2>1. worker.pc \in Awaiting /\ worker' = w
        /\ UNCHANGED <<chain, rung, live, outcome, prior, push, manifest, batch, stop, pushes, crashes, token, record, jobs, expired>>
    BY <1>1 DEF Sleep, StartPoll, Become, env, provider, memory, Awaiting
  <2>2. w \in WorkerType
    BY <1>0 DEF WorkerType
  <2> QED BY <1>0, <1>a, <1>e, <2>1, <2>2
<1>2. CASE Poll \/ PollFails
  <2>1. ManifestStatus(manifest) \in HonestStatus
    BY Statuses DEF ServiceInv, ProviderInv
  <2>2. worker.pc \in Awaiting
        /\ UNCHANGED <<chain, rung, live, outcome, prior, push, manifest, batch, stop, pushes, crashes, token, record, jobs, expired>>
    BY <1>2 DEF Poll, PollFails, env, provider, memory, Awaiting
  <2>3. worker' \in WorkerType
    <3>1. CASE Poll
      BY <2>1, <3>1, BoundsAssumption DEF Poll, WorkerType
    <3>2. CASE PollFails
      <4>1. worker.fails + 1 \in 0..MAX_CONSECUTIVE_POLL_FAILURES
        BY <1>0, <3>2, BoundsAssumption DEF PollFails, WorkerType
      <4> QED BY <1>0, <3>2, <4>1 DEF PollFails, WorkerType
    <3> QED BY <1>2, <3>1, <3>2
  <2> QED BY <1>0, <1>a, <1>e, <2>2, <2>3
<1>3. CASE FindCompleted
  <2>1. jobs[rung] \in HonestStatus
    BY <1>0
  <2>2. LiveJob = rung
    BY <1>0, <1>3 DEF FindCompleted, Awaiting
  <2>3. ResultOf(jobs[rung]) \in HonestOutcome
    BY <1>3, <2>1, <2>2, Statuses DEF FindCompleted
  <2>4. /\ Finish(ResultOf(jobs[rung]))
        /\ UNCHANGED <<chain, rung, prior, push, manifest, batch, stop, pushes, crashes, token, record, jobs, expired>>
    BY <1>3, <2>2 DEF FindCompleted, env, provider
  <2> QED BY <1>0, <1>b, <1>e, <2>3, <2>4
<1>4. CASE RaiseCancelled \/ PollGivesUpLate
  <2> DEFINE o == IF RaiseCancelled THEN Cancelled ELSE Raised
  <2>1. o \in HonestOutcome
    BY Statuses
  <2>2. /\ Finish(o)
        /\ UNCHANGED <<chain, rung, prior, push, manifest, batch, stop, pushes, crashes, token, record, jobs, expired>>
    BY <1>4 DEF RaiseCancelled, PollGivesUpLate, env, provider
  <2> HIDE DEF o
  <2> QED BY <1>0, <1>b, <1>e, <2>1, <2>2
<1>5. CASE PollGivesUp
  <2> DEFINE failed == [jobs[rung] EXCEPT !.state = "failed"]
             w == [pc |-> "apply", status |-> failed, last |-> failed, fails |-> MAX_CONSECUTIVE_POLL_FAILURES]
  <2>1. failed \in HonestStatus
    BY <1>0, Statuses
  <2>2. LiveJob = rung /\ worker.pc \in Awaiting
    BY <1>0, <1>5 DEF PollGivesUp, Awaiting
  <2>3. /\ jobs' = [jobs EXCEPT ![rung] = failed] /\ Save(failed) /\ worker' = w
        /\ UNCHANGED <<chain, rung, live, outcome, prior, push, manifest, batch, stop, pushes, crashes, token, expired>>
    BY <1>5, <2>2 DEF PollGivesUp, env, provider
  <2> HIDE DEF failed
  <2>4. w \in WorkerType
    BY <2>1, BoundsAssumption DEF WorkerType
  <2> HIDE DEF w
  <2> QED BY <1>0, <1>a, <1>c, <1>d, <1>e, <2>1, <2>2, <2>3, <2>4
<1>6. CASE Apply
  <2> DEFINE s == ApplyStatus(rung, worker.status)
             w == [worker EXCEPT !.pc = "save", !.status = s]
  <2>1. s \in HonestStatus
    BY <1>0, Applied DEF ServiceInv, StoreInv, WorkerType
  <2>2. LiveJob = rung /\ worker.pc \in Awaiting
    BY <1>0, <1>6 DEF Apply, Awaiting
  <2>3. /\ jobs' = [jobs EXCEPT ![rung] = s] /\ worker' = w
        /\ UNCHANGED <<chain, rung, live, outcome, prior, push, manifest, batch, stop, pushes, crashes, token, expired, record>>
    BY <1>6, <2>2 DEF Apply, env, provider
  <2> HIDE DEF s
  <2>4. w \in WorkerType
    BY <1>0, <2>1 DEF WorkerType
  <2> HIDE DEF w
  <2> QED BY <1>0, <1>a, <1>d, <1>e, <2>1, <2>2, <2>3, <2>4
<1>7. CASE SavePolled
  <2>1. worker.status \in HonestStatus /\ worker.pc \in Awaiting
    BY <1>0, <1>7 DEF SavePolled, WorkerType, Awaiting
  <2>2. /\ Save(worker.status)
        /\ UNCHANGED <<chain, rung, prior, push, manifest, batch, stop, pushes, crashes, token, expired, jobs>>
    BY <1>7 DEF SavePolled, env, provider
  <2>3. record' \in RecordType /\ record'.rung = rung
    BY <1>c, <2>1, <2>2
  <2>4. CASE Terminal(worker.status)
    <3>1. ResultOf(worker.status) \in HonestOutcome
      BY <2>1, <2>4, Statuses
    <3>2. Finish(ResultOf(worker.status))
      BY <1>7, <2>4 DEF SavePolled
    <3> QED BY <1>0, <1>b, <1>e, <2>2, <2>3, <3>1, <3>2
  <2>5. CASE ~Terminal(worker.status)
    <3> DEFINE w == [worker EXCEPT !.pc = "top", !.status = Submitted]
    <3>1. worker' = w /\ UNCHANGED <<live, outcome>>
      BY <1>7, <2>5 DEF SavePolled
    <3>2. w \in WorkerType
      BY <1>0, Statuses DEF WorkerType
    <3> HIDE DEF w
    <3> QED BY <1>0, <1>a, <1>e, <2>1, <2>2, <2>3, <3>1, <3>2
  <2> QED BY <2>4, <2>5
<1>8. CASE Timeout
  <2> DEFINE base == IF worker.pc = "save" THEN worker.status
                     ELSE IF worker.last # Submitted THEN worker.last ELSE jobs[rung]
             timed == TimedOut(base)
  <2>1. LiveJob = rung
    BY <1>0, <1>8 DEF Timeout, Awaiting
  <2>2. base \in HonestStatus
    BY <1>0 DEF WorkerType
  <2>3. /\ jobs' = [jobs EXCEPT ![rung] = timed] /\ Save(timed) /\ Finish(ResultOf(timed))
        /\ UNCHANGED <<chain, rung, prior, push, manifest, batch, stop, pushes, crashes, token, expired>>
    BY <1>8, <2>1 DEF Timeout, env, provider
  <2> HIDE DEF base
  <2>4. timed \in HonestStatus /\ Terminal(timed)
    BY <2>2, Statuses
  <2> HIDE DEF timed
  <2>5. ResultOf(timed) \in HonestOutcome
    BY <2>4, Statuses
  <2> QED BY <1>b, <1>c, <1>d, <1>e, <2>3, <2>4, <2>5
<1>9. CASE NoticeStop
  <2> DEFINE t == [token[rung] EXCEPT !.latched = TRUE, !.callback = "get", !.by = "worker"]
             w == [worker EXCEPT !.pc = "callback"]
  <2>1. /\ token' = [token EXCEPT ![rung] = t] /\ worker' = w /\ worker.pc \in Awaiting
        /\ UNCHANGED <<chain, rung, live, outcome, prior, push, manifest, batch, stop, pushes, crashes, record, jobs, expired>>
    BY <1>9 DEF NoticeStop, AtCheck, Become, env, provider, memory, Awaiting
  <2>2. w \in WorkerType
    BY <1>0 DEF WorkerType
  <2>3. token \in [Rungs -> TokenType]
    BY DEF ServiceInv, TokenInv
  <2>4. t \in TokenType /\ t.callback = "get"
    BY <1>0, <2>3 DEF TokenType
  <2> HIDE DEF t, w
  <2>5. WorkerInv' /\ Steps' = Steps
    BY <1>a, <2>1, <2>2
  <2>6. TokenInv'
    BY <1>0, <2>1, <2>4, <2>5 DEF ServiceInv, TokenInv
  <2> QED BY <2>1, <2>5, <2>6 DEF ServiceInv, StoreInv, ProviderInv, SwitchInv
<1> QED BY <1>1, <1>2, <1>3, <1>4, <1>5, <1>6, <1>7, <1>8, <1>9 DEF Await

\* The cancel callback and the batch threads, whatever the worker does meanwhile.
LEMMA ThreadsKeep ==
    ASSUME ServiceInv, Callback \/ Batches
    PROVE  ServiceInv'
<1>0. /\ jobs \in [Rungs -> HonestStatus] /\ record \in RecordType
      /\ token \in [Rungs -> TokenType] /\ batch \in [Rungs -> BatchType] /\ manifest \in Manifest
      /\ Steps \subseteq Rungs /\ \A r \in Steps : chain[r] \in Kinds
      /\ live \in [Kinds -> Rungs \cup {NoRung}]
      /\ \A r \in Rungs : /\ token[r].callback # "unbound" => r \in Steps
                          /\ token[r].callback \in {"assign", "save"} => token[r].job \in Rungs
  BY Chained DEF ServiceInv, StoreInv, TokenInv, ProviderInv
<1>a. ASSUME NEW r \in Rungs, NEW t \in TokenType, token' = [token EXCEPT ![r] = t],
             t.callback # "unbound" => r \in Steps,
             t.callback \in {"assign", "save"} => t.job \in Rungs, UNCHANGED chain
      PROVE  TokenInv'
  BY <1>0, <1>a DEF TokenInv, Steps
<1>b. ASSUME NEW u \in Units, NEW s \in SceneStates PROVE MarkScene(manifest, u, s) \in Manifest
  BY <1>0 DEF MarkScene, Manifest
<1>c. ASSUME UNCHANGED <<chain, rung, worker, outcome>> PROVE WorkerInv' \/ live' # live
  BY <1>c DEF ServiceInv, WorkerInv, Steps
<1>1. ASSUME NEW r \in Rungs, CancelGet(r) PROVE ServiceInv'
  <2> DEFINE found == live[chain[r]]
             bound == IF found = NoRung \/ Terminal(jobs[found])
                      THEN [token[r] EXCEPT !.callback = "over"]
                      ELSE [token[r] EXCEPT !.callback = "assign", !.job = found,
                                            !.status = [jobs[found] EXCEPT !.state = "cancelled"]]
  <2>1. /\ token[r].callback = "get" /\ token' = [token EXCEPT ![r] = bound]
        /\ UNCHANGED <<env, rung, provider, stop, memory, record, worker, expired, push, pushes, outcome>>
    BY <1>1 DEF CancelGet
  <2>2. r \in Steps /\ found \in Rungs \cup {NoRung}
    BY <1>0, <2>1
  <2>3. found # NoRung => [jobs[found] EXCEPT !.state = "cancelled"] \in HonestStatus
    BY <1>0, <2>2, Statuses
  <2> HIDE DEF found
  <2>4. bound \in TokenType /\ bound.callback \in {"over", "assign"}
        /\ (bound.callback = "assign" => bound.job \in Rungs)
    <3>1. token[r] \in TokenType
      BY <1>0
    <3>2. CASE found = NoRung \/ Terminal(jobs[found])
      <4>1. bound = [token[r] EXCEPT !.callback = "over"]
        BY <3>2
      <4> QED BY <3>1, <4>1 DEF TokenType
    <3>3. CASE ~(found = NoRung \/ Terminal(jobs[found]))
      <4> DEFINE s == [jobs[found] EXCEPT !.state = "cancelled"]
      <4>1. bound = [token[r] EXCEPT !.callback = "assign", !.job = found, !.status = s]
        BY <3>3
      <4>2. s \in HonestStatus /\ found \in Rungs
        BY <2>2, <2>3, <3>3
      <4> HIDE DEF s
      <4> QED BY <3>1, <4>1, <4>2 DEF TokenType
    <3> QED BY <3>2, <3>3
  <2> HIDE DEF bound
  <2>5. TokenInv'
    BY <1>a, <2>1, <2>2, <2>4 DEF env
  <2> QED BY <1>c, <2>1, <2>5 DEF ServiceInv, StoreInv, ProviderInv, SwitchInv, env, provider, memory, Steps
<1>2. ASSUME NEW r \in Rungs, CancelAssign(r) PROVE ServiceInv'
  <2> DEFINE bound == [token[r] EXCEPT !.callback = "save"]
  <2>1. /\ token[r].callback = "assign" /\ token' = [token EXCEPT ![r] = bound]
        /\ jobs' = [jobs EXCEPT ![token[r].job] = token[r].status]
        /\ UNCHANGED <<env, rung, provider, stop, prior, live, record, worker, expired, push, pushes, outcome>>
    BY <1>0, <1>2 DEF CancelAssign
  <2>2. bound \in TokenType /\ bound.callback = "save" /\ bound.job = token[r].job
    BY <1>0 DEF TokenType
  <2>3. r \in Steps /\ token[r].job \in Rungs /\ token[r].status \in HonestStatus
    BY <1>0, <2>1 DEF TokenType
  <2> HIDE DEF bound
  <2>4. TokenInv'
    BY <1>a, <2>1, <2>2, <2>3 DEF env
  <2>5. jobs' \in [Rungs -> HonestStatus]
    BY <1>0, <2>1, <2>3
  <2> QED BY <1>c, <2>1, <2>4, <2>5 DEF ServiceInv, StoreInv, ProviderInv, SwitchInv, env, provider, Steps
<1>3. ASSUME NEW r \in Rungs, CancelSave(r) PROVE ServiceInv'
  <2> DEFINE bound == [Quiet EXCEPT !.latched = TRUE, !.callback = "over"]
             saved == [rung |-> r, status |-> jobs[token[r].job]]
  <2>1. /\ token[r].callback = "save" /\ token' = [token EXCEPT ![r] = bound] /\ record' = saved
        /\ UNCHANGED <<env, rung, provider, stop, memory, worker, expired, push, pushes, outcome>>
    BY <1>3 DEF CancelSave
  <2>2. bound \in TokenType /\ bound.callback = "over"
    BY Statuses DEF TokenType, Quiet
  <2>3. r \in Steps /\ saved \in RecordType /\ saved.rung = r
    BY <1>0, <2>1 DEF RecordType
  <2> HIDE DEF bound, saved
  <2>4. TokenInv'
    BY <1>a, <2>1, <2>2, <2>3 DEF env
  <2> QED BY <1>c, <2>1, <2>3, <2>4 DEF ServiceInv, StoreInv, ProviderInv, SwitchInv, env, provider, memory, Steps
<1>4. ASSUME NEW r \in Rungs, BatchScene(r) \/ BatchRecord(r) PROVE ServiceInv'
  <2>1. manifest' \in Manifest
    BY <1>0, <1>b, <1>4 DEF BatchScene, BatchRecord, BatchType, SceneStates
  <2>2. batch' \in [Rungs -> BatchType]
    BY <1>0, <1>4, NumUnitsAssumption, SMTT(60) DEF BatchScene, BatchRecord, BatchType, Over, Units
  <2>3. UNCHANGED <<env, rung, stop, token, memory, record, worker, expired, push, pushes, outcome>>
    BY <1>4 DEF BatchScene, BatchRecord
  <2> QED BY <1>c, <2>1, <2>2, <2>3 DEF ServiceInv, StoreInv, TokenInv, ProviderInv, SwitchInv, env, memory, Steps
<1>5. ASSUME NEW r \in Rungs, BatchCancelled(r) PROVE ServiceInv'
  <2> DEFINE seen == [token[r] EXCEPT
                        !.latched = TRUE, !.by = "batch",
                        !.callback = IF token[r].callback = "bound" THEN "get" ELSE token[r].callback]
             bound == IF token[r].latched THEN token[r] ELSE seen
  <2>1. /\ token' = [token EXCEPT ![r] = bound] /\ batch' = [batch EXCEPT ![r] = Over]
        /\ UNCHANGED <<env, rung, manifest, stop, memory, record, worker, expired, push, pushes, outcome>>
    <3>1. token[r].latched => token = [token EXCEPT ![r] = token[r]]
      BY <1>0
    <3>2. token[r].latched => token' = token
      BY <1>5 DEF BatchCancelled
    <3>3. ~token[r].latched => token' = [token EXCEPT ![r] = seen]
      BY <1>5 DEF BatchCancelled
    <3>4. token' = [token EXCEPT ![r] = bound]
      BY <3>1, <3>2, <3>3
    <3> QED BY <1>5, <3>4 DEF BatchCancelled
  <2>2. seen \in TokenType /\ seen.job = token[r].job
        /\ seen.callback = IF token[r].callback = "bound" THEN "get" ELSE token[r].callback
    <3>1. token[r] \in TokenType
      BY <1>0
    <3> QED BY <3>1 DEF TokenType
  <2> HIDE DEF seen
  <2>3. bound \in TokenType /\ (bound.callback # "unbound" => r \in Steps)
        /\ (bound.callback \in {"assign", "save"} => bound.job \in Rungs)
    BY <1>0, <2>2
  <2> HIDE DEF bound
  <2>4. TokenInv'
    BY <1>a, <2>1, <2>3 DEF env
  <2>5. batch' \in [Rungs -> BatchType]
    BY <1>0, <2>1, NumUnitsAssumption DEF BatchType, Over, Units
  <2> QED BY <1>c, <2>1, <2>4, <2>5 DEF ServiceInv, StoreInv, ProviderInv, SwitchInv, env, memory, Steps
<1> QED BY <1>1, <1>2, <1>3, <1>4, <1>5 DEF Callback, Batches

\* The extension, the remote service, the operator, the clock and the kill.
LEMMA OutsideKeeps ==
    ASSUME ServiceInv, Outside
    PROVE  ServiceInv'
<1>0. /\ jobs \in [Rungs -> HonestStatus] /\ record \in RecordType /\ push \in PushType
      /\ manifest \in Manifest /\ Steps \subseteq Rungs
      /\ live \in [Kinds -> Rungs \cup {NoRung}]
      /\ \A k \in Kinds : live[k] # NoRung => live[k] \in Steps
  BY Chained DEF ServiceInv, StoreInv, ProviderInv
<1>c. ASSUME UNCHANGED <<chain, rung, worker, outcome, live>> PROVE WorkerInv' /\ Steps' = Steps
  BY <1>c DEF ServiceInv, WorkerInv, Steps
<1>1. CASE (\E u \in Units : ExtensionRecord(u)) \/ ExtensionDone
  <2>1. manifest' \in Manifest
    <3>1. ASSUME NEW u \in Units, NEW s \in SceneStates PROVE MarkScene(manifest, u, s) \in Manifest
      BY <1>0 DEF MarkScene, Manifest
    <3>2. CASE \E u \in Units : ExtensionRecord(u)
      BY <3>1, <3>2 DEF ExtensionRecord, SceneStates
    <3>3. CASE ExtensionDone
      BY <1>0, <3>3 DEF ExtensionDone, Manifest
    <3> QED BY <1>1, <3>2, <3>3
  <2>2. UNCHANGED <<env, rung, batch, stop, token, memory, record, worker, expired, push, pushes, outcome>>
    BY <1>1 DEF ExtensionRecord, ExtensionDone
  <2> QED BY <1>c, <2>1, <2>2 DEF ServiceInv, StoreInv, ProviderInv, TokenInv, SwitchInv, env, memory
<1>2. CASE PushSend
  <2>1. ManifestStatus(manifest) \in HonestStatus
    BY <1>0, Statuses
  <2>2. push' \in PushType /\ pushes' \in 0..MaxPushes
    BY <1>2, <2>1, BoundsAssumption DEF PushSend, PushType, ServiceInv, SwitchInv
  <2>3. UNCHANGED <<env, rung, provider, stop, token, memory, record, worker, expired, outcome>>
    BY <1>2 DEF PushSend
  <2> QED BY <1>c, <2>2, <2>3
       DEF ServiceInv, StoreInv, ProviderInv, TokenInv, SwitchInv, env, memory, provider
<1>3. CASE PushApply
  <2> DEFINE r == live["pushed"]
             applied == ApplyStatus(r, push.status)
  <2>1. r \in Rungs \cup {NoRung} /\ push.status \in HonestStatus
    BY <1>0 DEF Kinds, PushType
  <2>2. r \in Rungs => applied \in HonestStatus
    BY <2>1, Applied DEF ServiceInv, StoreInv
  <2>3. UNCHANGED <<env, rung, provider, stop, token, prior, live, record, worker, expired, pushes, outcome>>
    BY <1>3 DEF PushApply
  <2>4. \/ r = NoRung /\ push' = NoPush /\ UNCHANGED jobs
        \/ r # NoRung /\ jobs' = [jobs EXCEPT ![r] = applied] /\ push' = [pc |-> "applied", status |-> applied]
    BY <1>3 DEF PushApply
  <2> HIDE DEF r, applied
  <2>5. jobs' \in [Rungs -> HonestStatus] /\ push' \in PushType
    <3>0. NoPush \in PushType
      BY Statuses DEF PushType, NoPush
    <3>1. CASE r = NoRung
      BY <1>0, <2>4, <3>0, <3>1
    <3>2. CASE r # NoRung
      BY <1>0, <2>1, <2>2, <2>4, <3>2 DEF PushType
    <3> QED BY <3>1, <3>2
  <2> QED BY <1>c, <2>3, <2>5
       DEF ServiceInv, StoreInv, ProviderInv, TokenInv, SwitchInv, env, provider
<1>4. CASE PushSave
  <2> DEFINE r == live["pushed"]
  <2>1. r # NoRung => r \in Steps /\ r \in Rungs
    BY <1>0 DEF Kinds
  <2>2. /\ record' = (IF r = NoRung THEN record ELSE [rung |-> r, status |-> push.status])
        /\ push' = NoPush
        /\ UNCHANGED <<env, rung, provider, stop, token, memory, worker, expired, pushes, outcome>>
    BY <1>4 DEF PushSave
  <2> HIDE DEF r
  <2>3. push' \in PushType
    BY <2>2, Statuses DEF PushType, NoPush
  <2>4. record' \in RecordType /\ (UNCHANGED record \/ record'.rung \in Steps)
    BY <1>0, <2>1, <2>2 DEF RecordType, PushType
  <2> QED BY <1>c, <2>2, <2>3, <2>4
       DEF ServiceInv, StoreInv, ProviderInv, TokenInv, SwitchInv, env, memory, provider
<1>5. CASE Stop \/ Expire
  BY <1>c, <1>5 DEF Stop, Expire, ServiceInv, StoreInv, ProviderInv, TokenInv, SwitchInv, env, memory, provider
<1>6. CASE Crash
  <2>1. Submitted \in HonestStatus /\ NoUnits \in UnitMap
    BY Statuses DEF NoUnits, UnitMap, UnitStates
  <2>2. UNCHANGED <<chain, rung, manifest, record, pushes, outcome>>
    BY <1>6 DEF Crash
  <2>3. /\ jobs' \in [Rungs -> HonestStatus] /\ prior' \in [Rungs -> UnitMap]
        /\ live' \in [Kinds -> Rungs \cup {NoRung}] /\ \A k \in Kinds : live'[k] = NoRung
        /\ push' \in PushType
    BY <1>0, <1>6, <2>1 DEF Crash, PushType, NoPush
  <2>4. batch' \in [Rungs -> BatchType]
    BY <1>6, NumUnitsAssumption DEF Crash, NoBatch, BatchType, Units
  <2>5. token' \in [Rungs -> TokenType] /\ \A r \in Rungs : token'[r].callback = "unbound"
    BY <1>6, <2>1 DEF Crash, Quiet, TokenType
  <2>6. worker' \in WorkerType /\ worker'.pc = "down"
    BY <1>6, Statuses DEF Crash, NewWorker
  <2>7. SwitchInv'
    <3>1. /\ crashes < MaxCrashes /\ crashes' = crashes + 1 /\ stop' = FALSE /\ expired' = FALSE
          /\ pushes' = pushes
      BY <1>6 DEF Crash
    <3>2. crashes \in 0..MaxCrashes /\ pushes \in 0..MaxPushes
      BY DEF ServiceInv, SwitchInv
    <3>3. stop' \in BOOLEAN /\ expired' \in BOOLEAN
      BY <3>1, Zenon
    <3>4. pushes' \in 0..MaxPushes /\ crashes' \in 0..MaxCrashes
      BY <3>1, <3>2, BoundsAssumption
    <3> QED BY <3>3, <3>4 DEF SwitchInv
  <2>8. WorkerInv' /\ Steps' = Steps
    BY <2>2, <2>6 DEF ServiceInv, WorkerInv, Steps
  <2>9. StoreInv'
    BY <2>2, <2>3, <2>8 DEF ServiceInv, StoreInv
  <2> QED BY <2>2, <2>4, <2>5, <2>7, <2>8, <2>9 DEF ServiceInv, ProviderInv, TokenInv
<1> QED BY <1>1, <1>2, <1>3, <1>4, <1>5, <1>6 DEF Outside

\* The loop over the chain: units are merged, the next rung starts, or a verdict falls.
LEMMA LoopKeeps ==
    ASSUME IInv, Loop
    PROVE  IInv' /\ Promise!Next
<1> USE DEF IInv
<1>0. /\ outcome \in HonestOutcome /\ outcome.units \in UnitMap
      /\ rung \in Rungs /\ rung \in Nat /\ Len(chain) \in Rungs /\ verdict = "none"
      /\ worker.pc = "end"
  BY Chained DEF ServiceInv, WorkerInv, HonestOutcome, Loop, Advance, AdvanceOnError, Return, Raise,
     Cancel, Answered
<1> DEFINE acc == MergePriorUnits(outcome.units)
           AccType == [Units -> [state : UnitStates, from : Rungs \cup {NoRung}]]
<1>1. /\ acc \in AccType /\ accumulated \in AccType
      /\ Succeeded(accumulated) \subseteq Succeeded(acc)
      /\ \A u \in Units : outcome.units[u] = "succeeded" => u \in Succeeded(acc)
  BY <1>0 DEF FallbackInv, MergePriorUnits, Succeeded, UnitMap, UnitStates
<1>2. accumulated' = acc => /\ Succeeded(accumulated') = Succeeded(accumulated) \cup Succeeded(acc)
                            /\ Succeeded(acc) \in SUBSET Units
  BY <1>1 DEF Succeeded
<1> HIDE DEF acc
<1>3. CASE Advance \/ AdvanceOnError
  <2>1. /\ accumulated' = acc /\ returned' \in BOOLEAN /\ HasMore /\ NextRung(acc)
    BY <1>3 DEF Advance, AdvanceOnError, acc, FallbackInv
  <2>2. rung + 1 \in Steps /\ rung + 1 \in Rungs
    BY <1>0, <2>1, ChainsAssumption DEF HasMore, Steps, Rungs
  <2>3. UnitStatesOf(acc) \in UnitMap
    BY <1>1 DEF UnitStatesOf, UnitMap
  <2>4. prior' \in [Rungs -> UnitMap]
    BY <2>1, <2>2, <2>3 DEF NextRung, ServiceInv, StoreInv
  <2>5. worker' \in WorkerType /\ worker'.pc = "submit" /\ outcome' \in HonestOutcome
    <3>1. NewWorker = [NewWorker EXCEPT !.pc = "submit"]
      BY DEF NewWorker
    <3> QED BY <2>1, <3>1, Statuses DEF NextRung, NewWorker
  <2>6. WorkerInv' /\ Steps' = Steps
    BY <2>1, <2>2, <2>5 DEF NextRung, ServiceInv, WorkerInv, Steps, env
  <2>7. ServiceInv'
    BY <2>1, <2>4, <2>6 DEF NextRung, ServiceInv, StoreInv, ProviderInv, TokenInv, SwitchInv, env, provider
  <2>8. FallbackInv'
    BY <1>0, <1>1, <2>1 DEF NextRung, FallbackInv
  <2>9. Promise!Gain
    BY <1>0, <1>2, <2>1 DEF NextRung, Promise!Gain
  <2> QED BY <2>7, <2>8, <2>9 DEF Promise!Next
<1>4. CASE Return \/ Raise \/ Cancel
  <2>1. UNCHANGED vars /\ returned' \in BOOLEAN
    BY <1>4 DEF Return, Raise, Cancel, Conclude, FallbackInv
  <2>2. ServiceInv' /\ worker'.pc = "end"
    BY <1>0, <2>1 DEF vars, env, provider, memory, ServiceInv, StoreInv, ProviderInv, TokenInv, WorkerInv,
       SwitchInv, Steps
  <2>3. accumulated' = acc \/ (accumulated' = accumulated /\ verdict' = "cancelled")
    BY <1>4 DEF Return, Raise, Cancel, Conclude, acc
  <2>4. verdict' \in Verdicts /\ (verdict' \in Good => accumulated' = acc /\ Succeeded(acc) # {})
    <3>1. CASE Return
      <4>1. /\ accumulated' = acc /\ outcome.kind = "result"
            /\ verdict' = outcome.state \/ verdict' = DeriveStatus(acc)
        BY <3>1 DEF Return, Conclude, Answered, acc
      <4>2. outcome.state \in Good /\ \E u \in Units : outcome.units[u] = "succeeded"
        BY <1>0, <4>1 DEF HonestOutcome, Claims
      <4>3. Succeeded(acc) # {}
        BY <1>1, <4>2
      <4>4. DeriveStatus(acc) \in Verdicts
        BY DEF DeriveStatus, Verdicts, Good
      <4> QED BY <4>1, <4>2, <4>3, <4>4 DEF Verdicts
    <3>2. CASE Raise \/ Cancel
      BY <3>2 DEF Raise, Cancel, Conclude, Verdicts, Good
    <3> QED BY <1>4, <3>1, <3>2
  <2>5. FallbackInv'
    BY <1>1, <2>1, <2>2, <2>3, <2>4 DEF FallbackInv
  <2>6. Promise!Conclude
    <3>1. \E new \in SUBSET Units : Succeeded(accumulated') = Succeeded(accumulated) \cup new
      <4>1. CASE accumulated' = acc
        BY <1>2, <4>1
      <4>2. CASE accumulated' = accumulated
        <5>1. {} \in SUBSET Units /\ Succeeded(accumulated') = Succeeded(accumulated) \cup {}
          BY <4>2
        <5> QED BY <5>1
      <4> QED BY <2>3, <4>1, <4>2
    <3> QED BY <1>0, <2>4, <3>1 DEF Promise!Conclude, Promise!Verdicts, Promise!Good, Verdicts, Good
  <2> QED BY <2>2, <2>5, <2>6 DEF Promise!Next
<1> QED BY <1>3, <1>4 DEF Loop

\* The invariant is inductive, and every step is one of the promise or none.
LEMMA Inductive ==
    /\ FallbackInit => IInv /\ Promise!Init
    /\ IInv /\ [Next]_allVars => IInv' /\ [Promise!Next]_<<Succeeded(accumulated), verdict>>
<1>1. ASSUME FallbackInit PROVE IInv /\ Promise!Init
  <2> USE <1>1 DEF FallbackInit, Init
  <2>1. chain \in Seq(Kinds) /\ Len(chain) \in Rungs
    BY ChainsAssumption
  <2>2. rung \in Steps /\ rung \in Rungs
    BY <2>1, ChainsAssumption DEF Steps, Rungs
  <2>3. Submitted \in HonestStatus /\ NoUnits \in UnitMap
    BY Statuses DEF NoUnits, UnitMap, UnitStates
  <2>4. worker \in WorkerType /\ worker.pc = "submit" /\ outcome \in HonestOutcome
    <3>1. NewWorker = [NewWorker EXCEPT !.pc = "submit"]
      BY DEF NewWorker
    <3> QED BY <3>1, Statuses DEF NewWorker
  <2>5. WorkerInv
    BY <2>2, <2>4 DEF WorkerInv
  <2>6. StoreInv
    BY <2>3 DEF StoreInv, RecordType, NoRecord, PushType, NoPush
  <2>7. ProviderInv
    BY NumUnitsAssumption DEF ProviderInv, Manifest, NoManifest, SceneStates, BatchType, NoBatch, Units
  <2>8. TokenInv
    BY <2>3 DEF TokenInv, TokenType, Quiet
  <2>9. SwitchInv
    <3>1. stop = FALSE /\ expired = FALSE /\ pushes = 0 /\ crashes = 0
      OBVIOUS
    <3> HIDE DEF FallbackInit, Init
    <3>2. stop \in BOOLEAN /\ expired \in BOOLEAN
      BY <3>1, Zenon
    <3>3. pushes \in 0..MaxPushes /\ crashes \in 0..MaxCrashes
      BY <3>1, BoundsAssumption
    <3> QED BY <3>2, <3>3 DEF SwitchInv
  <2>10. FallbackInv
    BY DEF FallbackInv, NoUnit, UnitStates
  <2>11. Promise!Init
    BY DEF Promise!Init, Succeeded, NoUnit
  <2> QED BY <2>5, <2>6, <2>7, <2>8, <2>9, <2>10, <2>11 DEF IInv, ServiceInv
<1>2. ASSUME IInv, Service PROVE IInv' /\ [Promise!Next]_<<Succeeded(accumulated), verdict>>
  <2>1. ServiceInv'
    BY <1>2, StartKeeps, AwaitKeeps, ThreadsKeep, OutsideKeeps DEF IInv, Service, ServiceNext
  <2>2. worker.pc = "end" => UNCHANGED <<worker, crashes>>
    <3>1. CASE Run \/ Restart
      BY <3>1 DEF Run, Restart, Submit, SubmitFails, Register, Resume, ResumeEnded, ResumeOrphaned
    <3>2. CASE Await
      BY <3>2 DEF Await, NoticeStop, AtCheck, RaiseCancelled, Sleep, FindCompleted, StartPoll, Poll,
         PollFails, PollGivesUp, PollGivesUpLate, Apply, SavePolled, Timeout
    <3>3. CASE Callback \/ Batches
      BY <3>3 DEF Callback, Batches, CancelGet, CancelAssign, CancelSave, BatchScene, BatchRecord,
         BatchCancelled, env
    <3>4. CASE Outside
      BY <3>4 DEF Outside, ExtensionRecord, ExtensionDone, PushSend, PushApply, PushSave, Stop, Expire,
         Crash, env
    <3> QED BY <1>2, <3>1, <3>2, <3>3, <3>4 DEF Service, ServiceNext
  <2>3. CASE crashes' # crashes
    <3>1. verdict' = "none" /\ verdict = "none" /\ worker.pc # "end"
      BY <1>2, <2>2, <2>3 DEF IInv, FallbackInv, Service, Verdicts
    <3>2. accumulated' = [u \in Units |-> NoUnit] /\ returned' = FALSE
      BY <1>2, <2>3 DEF Service
    <3>3. FallbackInv'
      BY <3>1, <3>2 DEF FallbackInv, NoUnit, UnitStates
    <3>4. Promise!Lose
      BY <3>1, <3>2 DEF Promise!Lose, Succeeded, NoUnit
    <3> QED BY <2>1, <3>3, <3>4 DEF IInv, Promise!Next
  <2>4. CASE crashes' = crashes
    <3>1. UNCHANGED <<accumulated, returned, verdict>>
      BY <1>2, <2>4 DEF Service
    <3> QED BY <1>2, <2>1, <2>2, <3>1 DEF IInv, FallbackInv, Succeeded
  <2> QED BY <2>3, <2>4
<1>3. ASSUME IInv, UNCHANGED allVars PROVE IInv' /\ [Promise!Next]_<<Succeeded(accumulated), verdict>>
  BY <1>3 DEF allVars, vars, fallback, env, provider, memory, IInv, FallbackInv, ServiceInv, StoreInv,
     ProviderInv, TokenInv, WorkerInv, SwitchInv, Steps, Succeeded
<1> QED BY <1>1, <1>2, <1>3, LoopKeeps DEF Next

-----------------------------------------------------------------------------
\* Every variable has its type: worker, cancel callbacks, batch threads and pushes
\* of media_jobs.py, and the loop of fallback.py over them.
THEOREM TypeCorrect == Spec => []FallbackTypeOK
<1>1. IInv => FallbackTypeOK
  <2> SUFFICES ASSUME IInv PROVE FallbackTypeOK
    OBVIOUS
  <2>1. HonestStatus \subseteq JobStatus
    BY DEF HonestStatus
  <2>2. rung \in Rungs
    BY Chained DEF IInv, ServiceInv
  <2>3. worker \in Workers
    BY <2>1 DEF IInv, ServiceInv, WorkerInv, WorkerType, Workers
  <2>4. jobs \in [Rungs -> JobStatus]
    BY <2>1 DEF IInv, ServiceInv, StoreInv
  <2>5. token \in [Rungs -> [latched : BOOLEAN,
                            callback : {"unbound", "bound", "get", "assign", "save", "over"},
                            by : {"nobody", "worker", "batch"},
                            job : Rungs \cup {NoRung},
                            status : JobStatus]]
    BY <2>1 DEF IInv, ServiceInv, TokenInv, TokenType
  <2>6. /\ push \in [pc : {"none", "sent", "applied"}, status : JobStatus]
        /\ record \in [rung : Rungs \cup {NoRung}, status : JobStatus]
    BY <2>1 DEF IInv, ServiceInv, StoreInv, PushType, RecordType
  <2>7. outcome \in [kind : {"none", "result", "error", "cancelled"}, state : JOB_STATES, units : UnitMap]
    BY DEF IInv, ServiceInv, WorkerInv, HonestOutcome
  <2>8. TypeOK
    BY <2>2, <2>3, <2>4, <2>5, <2>6, <2>7
       DEF TypeOK, IInv, ServiceInv, StoreInv, ProviderInv, WorkerInv, SwitchInv, BatchType
  <2> QED BY <2>8 DEF FallbackTypeOK, IInv, FallbackInv
<1> QED BY <1>1, Inductive, PTL DEF Spec

\* A result has a unit that succeeded, and says succeeded only when none failed,
\* whatever polls, pushes, late batches, timeouts and kills came before it
\* (result_from_status of media_jobs.py over apply_status and settled_state).
THEOREM Honest == Spec => []ResultIsHonest
<1>1. IInv => ResultIsHonest
  BY DEF IInv, ServiceInv, WorkerInv, HonestOutcome, Claims, ResultIsHonest, InState
<1> QED BY <1>1, Inductive, PTL DEF Spec

\* However many providers the chain has, run_with_fallback keeps the promise made
\* to its node: units are only gained, only a kill loses them, and a verdict that
\* is good has a unit.
THEOREM ImplementsPromise == Spec => PromiseSpec
<1>1. FallbackInit => Promise!Init
  BY Inductive
<1> QED BY <1>1, Inductive, PTL DEF Spec, PromiseSpec, Promise!Spec

-----------------------------------------------------------------------------
(***************************************************************************)
(* What a media job has learned stays, for any number of units, any        *)
(* chains, any number of pushes and kills: a terminal status, a unit, and  *)
(* a record on disk that is never ahead of the job it records.             *)
(***************************************************************************)

Waiting == worker.pc \in {"top", "callback", "woke", "poll", "apply", "save"}
Before == worker.pc \in {"submit", "register"}

\* The store knows the job of the rung at hand and no other, while somebody waits.
LiveNow == \A k \in Kinds : live[k] # NoRung => live[k] = rung /\ chain[rung] = k /\ Waiting

\* A poll that ended the job ends the loop: nobody sleeps on it.
PolledNow ==
    /\ worker.pc \notin {"apply", "save"} => ~Terminal(worker.last)
    /\ worker.pc \in {"apply", "save"} => (Terminal(worker.last) => Terminal(worker.status))

\* A callback at work has found a job that somebody registered, and ends it.
CallbackNow(r) ==
    /\ token[r].callback # "unbound" => r <= rung /\ worker.pc # "down"
    /\ token[r].callback \in {"assign", "save"} =>
         /\ token[r].job \in Rungs /\ token[r].job <= rung
         /\ token[r].job = rung => ~Before
         /\ r = rung => token[r].job = r
    /\ token[r].callback = "assign" => token[r].status.state = "cancelled"
    /\ token[r].callback = "save" => Terminal(jobs[token[r].job])
TokensNow == \A r \in Rungs : CallbackNow(r)

\* A job that is not over knows at least the units it was given.
PriorNow ==
    Waiting /\ ~Terminal(jobs[rung]) =>
        \A u \in Units : prior[rung][u] # "none" => jobs[rung].units[u] = prior[rung][u]

\* What a job was given is gone with the process.
PriorLost == worker.pc = "down" => \A r \in Rungs, u \in Units : prior[r][u] = "none"

Fin == IInv /\ LiveNow /\ PolledNow /\ TokensNow /\ PriorNow /\ PriorLost

\* What no step but a registration, a resume or a kill may do to a job.
Kept(r) ==
    /\ Terminal(jobs[r]) => jobs'[r] = jobs[r] \/ jobs'[r].state \in {"timed_out", "cancelled"}
    /\ \A u \in Units : jobs[r].units[u] # "none" =>
         jobs'[r].units[u] = jobs[r].units[u] \/ jobs'[r].state \in {"timed_out", "cancelled"}

-----------------------------------------------------------------------------
\* What the invariant of ProviderFallbackProofs says of the places used below.
LEMMA Places ==
    ASSUME IInv
    PROVE  /\ rung \in Rungs /\ rung \in Nat /\ chain[rung] \in Kinds /\ rung \in Steps
           /\ jobs \in [Rungs -> HonestStatus] /\ prior \in [Rungs -> UnitMap]
           /\ live \in [Kinds -> Rungs \cup {NoRung}]
           /\ token \in [Rungs -> TokenType] /\ worker \in WorkerType
           /\ push \in PushType /\ record \in RecordType
           /\ Waiting => live[chain[rung]] = rung
<1>1. rung \in Rungs /\ chain[rung] \in Kinds
    BY Chained DEF IInv, ServiceInv, Kind
<1>2. rung \in Nat /\ rung \in Steps
    BY <1>1, ChainsAssumption DEF Rungs, IInv, ServiceInv, WorkerInv
<1> QED BY <1>1, <1>2 DEF IInv, ServiceInv, StoreInv, TokenInv, WorkerInv, Waiting

\* apply_status: an end stays, an end that comes is taken, a unit stays that the
\* job was given or has learned.
LEMMA ApplyKeeps ==
    ASSUME NEW r \in Rungs, jobs[r] \in HonestStatus, NEW s \in HonestStatus, prior[r] \in UnitMap
    PROVE  LET new == ApplyStatus(r, s)
           IN  /\ Terminal(jobs[r]) => new = jobs[r]
               /\ Terminal(s) => Terminal(new)
               /\ ~Terminal(jobs[r]) => \A u \in Units : prior[r][u] # "none" => new.units[u] = prior[r][u]
               /\ \A u \in Units :
                    /\ jobs[r].units[u] # "none"
                    /\ ~Terminal(jobs[r]) /\ prior[r][u] # "none" => jobs[r].units[u] = prior[r][u]
                    => new.units[u] = jobs[r].units[u]
<1> DEFINE units == MergeUnits(prior[r], MergeUnits(jobs[r].units, s.units))
           new == ApplyStatus(r, s)
<1>1. \A u \in Units : units[u] = IF prior[r][u] # "none" THEN prior[r][u]
                                  ELSE IF jobs[r].units[u] # "none" THEN jobs[r].units[u] ELSE s.units[u]
    BY DEF MergeUnits
<1>2. Terminal(jobs[r]) => new = jobs[r]
    BY DEF ApplyStatus
<1>3. ~Terminal(jobs[r]) => new.units = units
    BY DEF ApplyStatus
<1>4. Terminal(s) => Terminal(new)
    BY DEF ApplyStatus, Terminal, RederivedState, TERMINAL_STATES
<1> HIDE DEF units, new
<1>5. \A u \in Units :
        /\ jobs[r].units[u] # "none"
        /\ ~Terminal(jobs[r]) /\ prior[r][u] # "none" => jobs[r].units[u] = prior[r][u]
        => new.units[u] = jobs[r].units[u]
    BY <1>1, <1>2, <1>3
<1> QED BY <1>1, <1>2, <1>3, <1>4, <1>5 DEF new

\* The steps of the service that take no job into the store and lose none.
Plain == \/ Submit \/ SubmitFails \/ Await \/ ResumeEnded \/ ResumeOrphaned
         \/ Callback \/ Batches
         \/ (\E u \in Units : ExtensionRecord(u)) \/ ExtensionDone
         \/ PushSend \/ PushApply \/ PushSave \/ Stop \/ Expire

\* They keep what every job has learned.
LEMMA JobsKept ==
    ASSUME Fin, Plain
    PROVE  \A r \in Rungs : Kept(r)
<1> USE Places DEF Fin
<1>1. UNCHANGED jobs => \A r \in Rungs : Kept(r)
    BY DEF Kept
<1>2. CASE PollGivesUp
    BY <1>2 DEF PollGivesUp, Kept, Waiting, LiveJob, Kind, HonestStatus, JobStatus
<1>3. CASE Apply
  <2>1. LiveJob = rung /\ worker.status \in HonestStatus /\ Waiting
      BY <1>3 DEF Apply, Waiting, LiveJob, Kind, WorkerType
  <2>2. jobs' = [jobs EXCEPT ![rung] = ApplyStatus(rung, worker.status)]
      BY <1>3, <2>1 DEF Apply
  <2>3. Kept(rung)
      BY <2>1, <2>2, ApplyKeeps DEF Kept, PriorNow
  <2>4. \A r \in Rungs : r # rung => jobs'[r] = jobs[r]
      BY <2>2
  <2> QED BY <2>3, <2>4 DEF Kept
<1>4. CASE PushApply
  <2>1. CASE live["pushed"] = NoRung
      BY <1>1, <1>4, <2>1 DEF PushApply
  <2>2. CASE live["pushed"] # NoRung
    <3>1. live["pushed"] = rung /\ Waiting /\ push.status \in HonestStatus
        BY <2>2 DEF LiveNow, Kinds, PushType
    <3>2. jobs' = [jobs EXCEPT ![rung] = ApplyStatus(rung, push.status)]
        BY <1>4, <2>2, <3>1 DEF PushApply
    <3>3. Kept(rung)
        BY <3>1, <3>2, ApplyKeeps DEF Kept, PriorNow
    <3>4. \A r \in Rungs : r # rung => jobs'[r] = jobs[r]
        BY <3>2
    <3> QED BY <3>3, <3>4 DEF Kept
  <2> QED BY <2>1, <2>2
<1>5. CASE Timeout
  <2>1. LiveJob = rung
      BY <1>5 DEF Timeout, Waiting, LiveJob, Kind
  <2>2. PICK timed : /\ jobs' = [jobs EXCEPT ![rung] = timed]
                     /\ timed.state = "timed_out" \/ timed = jobs[rung]
    <3>1. \A s \in HonestStatus : ~Terminal(s) => TimedOut(s).state = "timed_out"
        BY DEF TimedOut, HonestStatus, JobStatus
    <3>2. \A s : Terminal(s) => TimedOut(s) = s
        BY DEF TimedOut
    <3>3. worker.status \in HonestStatus /\ worker.last \in HonestStatus /\ jobs[rung] \in HonestStatus
        BY DEF WorkerType
    <3> QED BY <1>5, <2>1, <3>1, <3>2, <3>3 DEF Timeout, PolledNow
  <2> QED BY <2>2 DEF Kept
<1>6. ASSUME NEW r \in Rungs, CancelAssign(r) PROVE \A q \in Rungs : Kept(q)
    BY <1>6 DEF CancelAssign, TokensNow, CallbackNow, Kept
<1>7. CASE \/ NoticeStop \/ RaiseCancelled \/ Sleep \/ FindCompleted \/ StartPoll \/ Poll \/ PollFails
           \/ PollGivesUpLate \/ SavePolled
    BY <1>1, <1>7 DEF NoticeStop, RaiseCancelled, Sleep, FindCompleted, StartPoll, Poll, PollFails,
       PollGivesUpLate, SavePolled, memory
<1>8. CASE Submit \/ SubmitFails \/ ResumeEnded \/ ResumeOrphaned \/ Batches
    BY <1>1, <1>8 DEF Submit, SubmitFails, ResumeEnded, ResumeOrphaned, Batches, BatchScene, BatchRecord,
       BatchCancelled, memory
<1>9. CASE \/ (\E u \in Units : ExtensionRecord(u)) \/ ExtensionDone \/ PushSend \/ PushSave \/ Stop \/ Expire
           \/ \E r \in Rungs : CancelGet(r) \/ CancelSave(r)
    BY <1>1, <1>9 DEF ExtensionRecord, ExtensionDone, PushSend, PushSave, Stop, Expire, CancelGet,
       CancelSave, memory
<1> QED BY <1>2, <1>3, <1>4, <1>5, <1>6, <1>7, <1>8, <1>9 DEF Plain, Await, Callback

-----------------------------------------------------------------------------
(* The invariant, first over the steps that go on with the rung they found. *)

Same ==
    /\ UNCHANGED <<rung, chain, prior>>
    /\ worker'.pc = "down" => worker.pc = "down"
    /\ Waiting' => Waiting
    /\ Before' => Before

\* What is known of the units and of the callbacks follows when every job is kept.
LEMMA Onward ==
    ASSUME Fin, Same, \A r \in Rungs : Kept(r), jobs' \in [Rungs -> HonestStatus]
    PROVE  PriorNow' /\ PriorLost' /\ (UNCHANGED token => TokensNow')
<1> USE Places DEF Fin, Same
<1>1. \A r \in Rungs : Terminal(jobs[r]) => Terminal(jobs'[r])
    BY DEF Kept, Terminal, TERMINAL_STATES
<1>2. \A r \in Rungs : jobs'[r].state \in {"timed_out", "cancelled"} => Terminal(jobs'[r])
    BY DEF Terminal, TERMINAL_STATES
<1>3. PriorNow'
    BY <1>1, <1>2 DEF PriorNow, Kept
<1>4. ASSUME UNCHANGED token, NEW r \in Rungs PROVE CallbackNow(r)'
    BY <1>1, <1>4 DEF TokensNow, CallbackNow
<1>5. PriorLost'
    BY DEF PriorLost
<1> QED BY <1>3, <1>4, <1>5 DEF TokensNow

\* A worker that has its answer leaves nothing in the store.
LEMMA Finished ==
    ASSUME Fin, NEW o, Finish(o)
    PROVE  LiveNow' /\ PolledNow' /\ ~Waiting' /\ ~Before' /\ worker'.pc = "end"
<1>1. worker'.pc = "end" /\ live' = [live EXCEPT ![chain[rung]] = NoRung]
    BY DEF Finish, NewWorker, Kind
<1>2. ~Terminal(worker'.last)
    BY DEF Finish, NewWorker, Submitted, Terminal, TERMINAL_STATES
<1>3. \A k \in Kinds : live'[k] = NoRung
    BY <1>1, Places DEF Fin, LiveNow
<1> QED BY <1>1, <1>2, <1>3 DEF LiveNow, PolledNow, Waiting, Before

\* A worker that goes on finds its job where it was.
LEMMA Going ==
    ASSUME Fin, UNCHANGED <<rung, chain, live>>, Waiting \/ ~Waiting', Waiting => Waiting'
    PROVE  LiveNow'
BY DEF Fin, LiveNow

\* The worker's loop.
LEMMA AwaitFin ==
    ASSUME Fin, IInv', Await
    PROVE  Fin'
<1> USE Places DEF Fin
<1>0. /\ \A r \in Rungs : Kept(r)
      /\ jobs' \in [Rungs -> HonestStatus]
    BY JobsKept DEF Plain, IInv, ServiceInv, StoreInv
<1>1. CASE NoticeStop
  <2>1. /\ UNCHANGED <<rung, chain, live, prior, jobs>> /\ worker.pc \in {"top", "woke"}
        /\ worker'.pc = "callback" /\ worker'.last = worker.last
        /\ \A r \in Rungs : r # rung => token'[r] = token[r]
        /\ token'[rung].callback = "get"
      BY <1>1 DEF NoticeStop, AtCheck, Become, env, memory, WorkerType, TokenType
  <2>2. Same /\ LiveNow' /\ PolledNow'
      BY <2>1, Going DEF Same, PolledNow, Waiting, Before
  <2>3. ASSUME NEW r \in Rungs PROVE CallbackNow(r)'
      BY <2>1, <2>2 DEF TokensNow, CallbackNow, Same
  <2> QED BY <1>0, <2>2, <2>3, Onward DEF TokensNow
<1>2. CASE RaiseCancelled \/ FindCompleted \/ PollGivesUpLate \/ Timeout
  <2>1. UNCHANGED <<rung, chain, prior, token>> /\ Waiting /\ \E o : Finish(o)
      BY <1>2 DEF RaiseCancelled, FindCompleted, PollGivesUpLate, Timeout, env, Waiting, AtCheck
  <2>2. LiveNow' /\ PolledNow' /\ ~Waiting' /\ ~Before' /\ worker'.pc = "end"
      BY <2>1, Finished
  <2>3. Same
      BY <2>1, <2>2 DEF Same, Waiting
  <2> QED BY <1>0, <2>1, <2>2, <2>3, Onward
<1>3. CASE Sleep \/ StartPoll \/ Poll \/ PollFails \/ PollGivesUp
  <2>1. /\ UNCHANGED <<rung, chain, live, prior, token>> /\ Waiting /\ Waiting'
        /\ worker.pc \notin {"apply", "save"}
        /\ worker'.pc \notin {"apply", "save"} => worker'.last = worker.last
        /\ worker'.pc \in {"apply", "save"} => worker'.last = worker'.status
    <3>1. CASE Sleep \/ StartPoll
        BY <3>1 DEF Sleep, StartPoll, Become, env, memory, Waiting, WorkerType
    <3>2. CASE Poll
        BY <3>2 DEF Poll, env, memory, Waiting
    <3>3. CASE PollFails
        BY <3>3 DEF PollFails, env, memory, Waiting, WorkerType
    <3>4. CASE PollGivesUp
        BY <3>4 DEF PollGivesUp, env, Waiting
    <3> QED BY <1>3, <3>1, <3>2, <3>3, <3>4
  <2>2. LiveNow' /\ PolledNow'
      BY <2>1, Going DEF PolledNow
  <2>3. Same
      BY <2>1 DEF Same, Waiting, Before
  <2> QED BY <1>0, <2>1, <2>2, <2>3, Onward
<1>4. CASE Apply
  <2>1. /\ UNCHANGED <<rung, chain, live, prior, token>> /\ worker.pc = "apply" /\ worker'.pc = "save"
        /\ worker'.last = worker.last /\ worker'.status = ApplyStatus(LiveJob, worker.status)
      BY <1>4 DEF Apply, env, WorkerType
  <2>2. LiveJob = rung /\ worker.status \in HonestStatus
      BY <2>1 DEF LiveJob, Kind, Waiting, WorkerType
  <2>3. Terminal(worker.status) => Terminal(worker'.status)
      BY <2>1, <2>2, ApplyKeeps
  <2>4. LiveNow' /\ PolledNow' /\ Same
      BY <2>1, <2>3, Going DEF PolledNow, Same, Waiting, Before
  <2> QED BY <1>0, <2>1, <2>4, Onward
<1>5. CASE SavePolled
  <2>1. /\ UNCHANGED <<rung, chain, prior, token>> /\ worker.pc = "save"
        /\ IF Terminal(worker.status) THEN Finish(ResultOf(worker.status))
           ELSE worker'.pc = "top" /\ worker'.last = worker.last /\ UNCHANGED live
      BY <1>5 DEF SavePolled, env, WorkerType
  <2>2. CASE Terminal(worker.status)
    <3>1. LiveNow' /\ PolledNow' /\ ~Waiting' /\ ~Before' /\ worker'.pc = "end"
        BY <2>1, <2>2, Finished
    <3>2. Same
        BY <2>1, <3>1 DEF Same, Waiting
    <3> QED BY <1>0, <2>1, <3>1, <3>2, Onward
  <2>3. CASE ~Terminal(worker.status)
    <3>1. LiveNow' /\ PolledNow' /\ Same
        BY <2>1, <2>3, Going DEF PolledNow, Same, Waiting, Before
    <3> QED BY <1>0, <2>1, <3>1, Onward
  <2> QED BY <2>2, <2>3
<1> QED BY <1>1, <1>2, <1>3, <1>4, <1>5 DEF Await

\* The start of a run, and the end of one that a kill left behind.
LEMMA StartFin ==
    ASSUME Fin, IInv', Submit \/ SubmitFails \/ ResumeEnded \/ ResumeOrphaned
    PROVE  Fin'
<1> USE Places DEF Fin
<1>0. /\ \A r \in Rungs : Kept(r)
      /\ jobs' \in [Rungs -> HonestStatus]
    BY JobsKept DEF Plain, IInv, ServiceInv, StoreInv
<1>1. CASE Submit \/ ResumeEnded \/ ResumeOrphaned
  <2>1. /\ UNCHANGED <<rung, chain, live, prior, token>> /\ ~Waiting
        /\ \/ worker.pc = "submit" /\ worker'.pc = "register"
           \/ worker.pc = "down" /\ worker'.pc = "end"
        /\ worker'.last = worker.last
      BY <1>1 DEF Submit, ResumeEnded, ResumeOrphaned, Become, env, memory, Waiting, WorkerType
  <2>2. LiveNow' /\ PolledNow' /\ Same
      BY <2>1, Going DEF PolledNow, Same, Waiting, Before
  <2> QED BY <1>0, <2>1, <2>2, Onward
<1>2. CASE SubmitFails
  <2>1. UNCHANGED <<rung, chain, prior, token>> /\ Finish(Raised)
      BY <1>2 DEF SubmitFails, env
  <2>2. LiveNow' /\ PolledNow' /\ ~Waiting' /\ ~Before' /\ worker'.pc = "end"
      BY <2>1, Finished
  <2> QED BY <1>0, <2>1, <2>2, Onward DEF Same
<1> QED BY <1>1, <1>2

\* A registration: nobody waited, and no callback is about this job.
LEMMA RegisterFin ==
    ASSUME Fin, IInv', Register
    PROVE  Fin'
<1> USE Places DEF Fin
<1>1. /\ worker.pc = "register" /\ worker'.pc \in {"top", "callback"} /\ worker'.last = worker.last
      /\ UNCHANGED <<rung, chain, prior>>
      /\ jobs' = [jobs EXCEPT ![rung] = [state |-> "submitted", units |-> prior[rung]]]
      /\ live' = [live EXCEPT ![chain[rung]] = rung]
      /\ \A r \in Rungs : r # rung => token'[r] = token[r]
      /\ token'[rung].callback \in {"get", "bound"}
    BY DEF Register, Become, env, Kind, WorkerType, TokenType
<1>2. LiveNow'
    BY <1>1 DEF LiveNow, Waiting
<1>3. PolledNow'
    BY <1>1 DEF PolledNow
<1>4. PriorNow' /\ PriorLost'
    BY <1>1 DEF PriorNow, PriorLost
<1>5. ASSUME NEW r \in Rungs PROVE CallbackNow(r)'
  <2>1. CASE r = rung
      BY <1>1, <2>1 DEF CallbackNow
  <2>2. CASE r # rung
      BY <1>1, <2>2 DEF TokensNow, CallbackNow, Before
  <2> QED BY <2>1, <2>2
<1> QED BY <1>2, <1>3, <1>4, <1>5 DEF TokensNow

\* The threads beside the worker: cancel callbacks and batches.
LEMMA ThreadsFin ==
    ASSUME Fin, IInv', Callback \/ Batches
    PROVE  Fin'
<1> USE Places DEF Fin
<1>0. /\ \A r \in Rungs : Kept(r)
      /\ jobs' \in [Rungs -> HonestStatus]
    BY JobsKept DEF Plain, IInv, ServiceInv, StoreInv
<1>1. UNCHANGED <<rung, chain, live, prior, worker>>
    BY DEF Callback, CancelGet, CancelAssign, CancelSave, Batches, BatchScene, BatchRecord,
       BatchCancelled, env, memory
<1>2. LiveNow' /\ PolledNow' /\ Same
    BY <1>1, Going DEF PolledNow, Same, Waiting, Before
<1>3. PriorNow' /\ PriorLost' /\ (UNCHANGED token => TokensNow')
    BY <1>0, <1>2, Onward
<1>4. \A q \in Rungs : Terminal(jobs[q]) => Terminal(jobs'[q])
    BY <1>0 DEF Kept, Terminal, TERMINAL_STATES
<1>a. ASSUME NEW r \in Rungs, \A q \in Rungs : q # r => token'[q] = token[q], CallbackNow(r)'
      PROVE  TokensNow'
  <2>1. ASSUME NEW q \in Rungs, q # r PROVE CallbackNow(q)'
      BY <1>1, <1>4, <1>a, <2>1 DEF TokensNow, CallbackNow, Before
  <2> QED BY <1>a, <2>1 DEF TokensNow
<1>5. ASSUME NEW r \in Rungs, CancelGet(r) PROVE TokensNow'
  <2>1. /\ \A q \in Rungs : q # r => token'[q] = token[q]
        /\ token[r].callback = "get"
        /\ \/ token'[r].callback = "over"
           \/ /\ token'[r].callback = "assign" /\ token'[r].job = live[chain[r]]
              /\ live[chain[r]] # NoRung /\ token'[r].status.state = "cancelled"
    <3> DEFINE found == live[chain[r]]
    <3>1. CASE found = NoRung \/ Terminal(jobs[found])
        BY <1>5, <3>1 DEF CancelGet, TokenType
    <3>2. CASE ~(found = NoRung \/ Terminal(jobs[found]))
      <4>1. PICK s \in HonestStatus : s = jobs[found]
          BY <3>2, <1>5 DEF IInv, ServiceInv, TokenInv, StoreInv, CancelGet, LiveNow
      <4>2. [jobs[found] EXCEPT !.state = "cancelled"].state = "cancelled"
          BY <4>1 DEF HonestStatus, JobStatus
      <4>3. token' = [token EXCEPT ![r] = [@ EXCEPT
                             !.callback = "assign", !.job = found,
                             !.status = [jobs[found] EXCEPT !.state = "cancelled"]]]
          BY <1>5, <3>2 DEF CancelGet
      <4> HIDE DEF found
      <4> DEFINE c == [jobs[found] EXCEPT !.state = "cancelled"]
      <4>4. token' = [token EXCEPT ![r] = [@ EXCEPT !.callback = "assign", !.job = found, !.status = c]]
          BY <4>3
      <4> HIDE DEF c
      <4>5. token'[r].status = c /\ token'[r].callback = "assign" /\ token'[r].job = found
          BY <4>4 DEF TokenType
      <4>6. \A q \in Rungs : q # r => token'[q] = token[q]
          BY <4>4
      <4> QED BY <1>5, <3>2, <4>2, <4>5, <4>6 DEF CancelGet, c, found
    <3> QED BY <3>1, <3>2
  <2>2. r <= rung /\ worker.pc # "down"
      BY <2>1 DEF TokensNow, CallbackNow
  <2>3. live[chain[r]] # NoRung => live[chain[r]] = rung /\ Waiting
    <3>1. chain[r] \in Kinds
        BY <2>1, Chained DEF IInv, ServiceInv, TokenInv
    <3> QED BY <3>1 DEF LiveNow
  <2>4. CallbackNow(r)'
      BY <1>1, <2>1, <2>2, <2>3 DEF CallbackNow, Waiting, Before
  <2> QED BY <1>a, <2>1, <2>4
<1>6. ASSUME NEW r \in Rungs, CancelAssign(r) PROVE TokensNow'
  <2>1. /\ \A q \in Rungs : q # r => token'[q] = token[q]
        /\ token[r].callback = "assign" /\ token'[r].callback = "save" /\ token'[r].job = token[r].job
        /\ jobs' = [jobs EXCEPT ![token[r].job] = token[r].status]
      BY <1>6 DEF CancelAssign, TokenType
  <2>2. token[r].job \in Rungs /\ token[r].status.state = "cancelled"
      BY <2>1 DEF TokensNow, CallbackNow
  <2>3. Terminal(jobs'[token[r].job])
      BY <2>1, <2>2 DEF Terminal, TERMINAL_STATES
  <2>4. CallbackNow(r)'
      BY <1>1, <2>1, <2>3 DEF TokensNow, CallbackNow, Before
  <2> QED BY <1>a, <2>1, <2>4
<1>7. ASSUME NEW r \in Rungs, CancelSave(r) PROVE TokensNow'
  <2>1. /\ \A q \in Rungs : q # r => token'[q] = token[q]
        /\ token[r].callback = "save" /\ token'[r].callback = "over"
      BY <1>7 DEF CancelSave, Quiet
  <2>2. CallbackNow(r)'
      BY <1>1, <2>1 DEF TokensNow, CallbackNow
  <2> QED BY <1>a, <2>1, <2>2
<1>8. ASSUME NEW r \in Rungs, BatchCancelled(r) PROVE TokensNow'
  <2>1. \/ UNCHANGED token
        \/ /\ \A q \in Rungs : q # r => token'[q] = token[q]
           /\ token'[r].callback = IF token[r].callback = "bound" THEN "get" ELSE token[r].callback
           /\ token'[r].job = token[r].job /\ token'[r].status = token[r].status
      BY <1>8 DEF BatchCancelled, TokenType
  <2>2. CallbackNow(r)' \/ UNCHANGED token
      BY <1>1, <1>4, <2>1 DEF TokensNow, CallbackNow, Before
  <2> QED BY <1>3, <1>a, <2>1, <2>2
<1>9. ASSUME NEW r \in Rungs, BatchScene(r) \/ BatchRecord(r) PROVE TokensNow'
    BY <1>3, <1>9 DEF BatchScene, BatchRecord
<1> QED BY <1>2, <1>3, <1>5, <1>6, <1>7, <1>8, <1>9 DEF Callback, Batches

\* The provider elsewhere, pushes, the operator and the clock.
LEMMA OutsideFin ==
    ASSUME Fin, IInv', Plain,
           \/ (\E u \in Units : ExtensionRecord(u)) \/ ExtensionDone
           \/ PushSend \/ PushApply \/ PushSave \/ Stop \/ Expire
    PROVE  Fin'
<1> USE Places DEF Fin
<1>0. /\ \A r \in Rungs : Kept(r)
      /\ jobs' \in [Rungs -> HonestStatus]
    BY JobsKept DEF IInv, ServiceInv, StoreInv
<1>1. UNCHANGED <<rung, chain, live, prior, worker, token>>
    BY DEF ExtensionRecord, ExtensionDone, PushSend, PushApply, PushSave, Stop, Expire, env, memory
<1>2. LiveNow' /\ PolledNow' /\ Same
    BY <1>1, Going DEF PolledNow, Same, Waiting, Before
<1> QED BY <1>0, <1>1, <1>2, Onward

\* A kill leaves no job and no callback, and a resume takes up one job.
LEMMA RestartFin ==
    ASSUME Fin, IInv', Crash \/ Resume
    PROVE  Fin'
<1> USE Places DEF Fin
<1>1. CASE Crash
  <2>1. /\ worker'.pc = "down" /\ ~Terminal(worker'.last)
        /\ \A k \in Kinds : live'[k] = NoRung
        /\ \A r \in Rungs : token'[r].callback = "unbound"
        /\ \A r \in Rungs, u \in Units : prior'[r][u] = "none"
      BY <1>1 DEF Crash, NewWorker, Quiet, NoUnits, Submitted, Terminal, TERMINAL_STATES
  <2> QED BY <2>1 DEF LiveNow, PolledNow, TokensNow, CallbackNow, PriorNow, PriorLost, Waiting
<1>2. CASE Resume
  <2>1. record.rung \in Rungs /\ record.rung \in Steps /\ chain[record.rung] \in Kinds
    <3>1. record.rung \in Steps
        BY <1>2 DEF Resume, IInv, ServiceInv, StoreInv
    <3> QED BY <3>1, Chained DEF IInv, ServiceInv
  <2>2. /\ worker.pc = "down" /\ worker'.pc = "top" /\ ~Terminal(worker'.last)
        /\ UNCHANGED <<chain, prior>> /\ rung' = record.rung
        /\ live' = [live EXCEPT ![chain[record.rung]] = record.rung]
        /\ jobs' = [jobs EXCEPT ![record.rung] = record.status]
      BY <1>2 DEF Resume, NewWorker, Submitted, Terminal, TERMINAL_STATES, env
  <2>3. /\ token'[record.rung].callback = "bound"
        /\ \A r \in Rungs : r # record.rung => token'[r] = token[r]
      BY <1>2, <2>1 DEF Resume, TokenType
  <2>4. \A k \in Kinds : live[k] = NoRung
      BY <2>2 DEF LiveNow, Waiting
  <2>5. \A r \in Rungs : token[r].callback = "unbound"
      BY <2>2 DEF TokensNow, CallbackNow
  <2>6. LiveNow' /\ PolledNow'
      BY <2>1, <2>2, <2>4 DEF LiveNow, PolledNow, Waiting
  <2>7. ASSUME NEW r \in Rungs PROVE CallbackNow(r)'
    <3>1. record.rung \in Nat
        BY <2>1, ChainsAssumption DEF Rungs
    <3>2. CASE r = record.rung
        BY <2>2, <2>3, <3>1, <3>2 DEF CallbackNow
    <3>3. CASE r # record.rung
        BY <2>3, <2>5, <3>3 DEF CallbackNow
    <3> QED BY <3>2, <3>3
  <2>8. PriorNow'
    <3>1. \A u \in Units : prior[record.rung][u] = "none"
        BY <2>1, <2>2 DEF PriorLost
    <3> QED BY <2>2, <3>1 DEF PriorNow
  <2>9. PriorLost'
      BY <2>2 DEF PriorLost
  <2> QED BY <2>6, <2>7, <2>8, <2>9 DEF TokensNow
<1> QED BY <1>1, <1>2

\* The loop over the chain: the next rung has no job and no callback yet.
LEMMA LoopFin ==
    ASSUME Fin, IInv', Loop
    PROVE  Fin'
<1> USE Places DEF Fin
<1>1. worker.pc = "end"
    BY DEF Loop, Advance, AdvanceOnError, Return, Raise, Cancel, Answered
<1>2. \A k \in Kinds : live[k] = NoRung
    BY <1>1 DEF LiveNow, Waiting
<1>3. CASE Advance \/ AdvanceOnError
  <2>1. /\ rung' = rung + 1 /\ UNCHANGED <<chain, live, token, jobs>>
        /\ worker'.pc = "submit" /\ ~Terminal(worker'.last)
      BY <1>3 DEF Advance, AdvanceOnError, NextRung, NewWorker, Submitted, Terminal, TERMINAL_STATES, env
  <2>2. ASSUME NEW r \in Rungs PROVE CallbackNow(r)'
    <3>1. CallbackNow(r) /\ r \in Nat
        BY ChainsAssumption DEF TokensNow, Rungs
    <3>2. token[r].job \in Rungs => token[r].job \in Nat
        BY ChainsAssumption DEF Rungs
    <3> QED BY <2>1, <3>1, <3>2 DEF CallbackNow, Before
  <2> QED BY <1>2, <2>1, <2>2 DEF LiveNow, PolledNow, TokensNow, PriorNow, PriorLost, Waiting
<1>4. CASE Return \/ Raise \/ Cancel
  <2>1. UNCHANGED <<rung, chain, live, token, jobs, worker, prior>>
      BY <1>4 DEF Return, Raise, Cancel, Conclude, vars, env, memory
  <2> QED BY <2>1 DEF LiveNow, PolledNow, TokensNow, CallbackNow, PriorNow, PriorLost, Waiting, Before
<1> QED BY <1>3, <1>4 DEF Loop

\* Every step is one of the loop, or one of the service.
LEMMA Split ==
    ASSUME Next
    PROVE  Plain \/ Register \/ Resume \/ Crash \/ Loop
BY DEF Next, Service, ServiceNext, Run, Restart, Outside, Plain

\* Fin is an invariant.
LEMMA AlwaysFin == Spec => []Fin
<1>1. FallbackInit => Fin
  <2> SUFFICES ASSUME FallbackInit PROVE LiveNow /\ PolledNow /\ TokensNow /\ PriorNow /\ PriorLost
      BY Inductive DEF Fin
  <2>1. /\ \A k \in Kinds : live[k] = NoRung
        /\ worker.pc = "submit" /\ ~Terminal(worker.last)
        /\ \A r \in Rungs : token[r].callback = "unbound"
      BY DEF FallbackInit, Init, NewWorker, Quiet, Submitted, Terminal, TERMINAL_STATES
  <2> QED BY <2>1 DEF LiveNow, PolledNow, TokensNow, CallbackNow, PriorNow, PriorLost, Waiting
<1>2. Fin /\ [Next]_allVars => Fin'
  <2> SUFFICES ASSUME Fin, [Next]_allVars PROVE Fin'
      OBVIOUS
  <2>1. IInv'
      BY Inductive DEF Fin
  <2>2. CASE UNCHANGED allVars
      BY <2>1, <2>2 DEF allVars, vars, env, memory, Fin, LiveNow, PolledNow, TokensNow, CallbackNow,
         PriorNow, PriorLost, Waiting, Before
  <2>3. CASE Plain
      BY <2>1, <2>3, StartFin, AwaitFin, ThreadsFin, OutsideFin DEF Plain
  <2>4. CASE Register \/ Resume \/ Crash \/ Loop
      BY <2>1, <2>4, RegisterFin, RestartFin, LoopFin
  <2> QED BY <2>2, <2>3, <2>4, Split
<1> QED BY <1>1, <1>2, PTL DEF Spec

\* What a step may do to a job, when it is neither a registration nor a kill nor the
\* step of a process that restarts.
LEMMA StepKept ==
    ASSUME Fin, [Next]_allVars, crashes' = crashes, worker.pc \notin {"register", "down"}
    PROVE  \A r \in Rungs : Kept(r)
<1>1. UNCHANGED jobs => \A r \in Rungs : Kept(r)
    BY DEF Kept
<1>2. CASE UNCHANGED allVars
    BY <1>1, <1>2 DEF allVars, vars, memory
<1>3. CASE Plain
    BY <1>3, JobsKept
<1>4. CASE Loop
    BY <1>1, <1>4 DEF Loop, Advance, AdvanceOnError, Return, Raise, Cancel, NextRung, Conclude, vars, memory
<1>5. ~Register /\ ~Resume
    BY DEF Register, Resume
<1>6. ~Crash
    BY Places DEF Crash, Fin, IInv, ServiceInv, SwitchInv
<1> QED BY <1>2, <1>3, <1>4, <1>5, <1>6, Split

-----------------------------------------------------------------------------
\* A status, once terminal, is final, whatever polls and pushes apply later: only a
\* timeout or a cancel puts its own over it (media_jobs.py:186).
THEOREM EndsAreFinal == Spec => TerminalIsFinal
<1> DEFINE A == \A r \in Rungs :
                  Terminal(jobs[r]) /\ crashes' = crashes /\ worker.pc \notin {"register", "down"}
                  => jobs'[r] = jobs[r] \/ jobs'[r].state \in {"timed_out", "cancelled"}
<1>1. Fin /\ [Next]_allVars => A
    BY StepKept DEF Kept
<1> QED BY <1>1, AlwaysFin, PTL DEF Spec, TerminalIsFinal

\* What a job has learned of a unit stays, though late batches rewrite the manifest
\* and the next rung seeds it anew: only a timeout or a cancel forgets
\* (_merge_units_idempotent, media_jobs.py:332).
THEOREM UnitsAreFinal == Spec => UnitsFinal
<1> DEFINE A == \A r \in Rungs, u \in Units :
                  jobs[r].units[u] # "none" /\ crashes' = crashes /\ worker.pc \notin {"register", "down"}
                  => \/ jobs'[r].units[u] = jobs[r].units[u]
                     \/ jobs'[r].state \in {"timed_out", "cancelled"}
<1>1. Fin /\ [Next]_allVars => A
    BY StepKept DEF Kept
<1> QED BY <1>1, AlwaysFin, PTL DEF Spec, UnitsFinal

-----------------------------------------------------------------------------
(* The record on disk.                                                      *)

\* A service that pushes is asked once: a second rung of the same kind would get the
\* push that the first one applied.
OnePusher ==
    \A c \in Chains : \A i, j \in 1..Len(c) : c[i] = "pushed" /\ c[j] = "pushed" => i = j

\* A push that ended a job and is not saved yet ended the job it will be saved for.
PushNow ==
    push.pc = "applied" =>
      /\ worker.pc # "down"
      /\ Terminal(push.status) =>
           \A r \in Steps : chain[r] = "pushed" =>
               r \in Rungs /\ r <= rung /\ (r = rung => ~Before) /\ Terminal(jobs[r])

Rec == Fin /\ PushNow /\ RecordNeverAhead

\* A step that keeps the record and the push keeps what they say of the job.
LEMMA Recorded ==
    ASSUME Rec, Fin', UNCHANGED <<rung, chain>>, (Waiting' => Waiting), (Before' => Before),
           worker'.pc = "down" => worker.pc = "down",
           \A r \in Rungs : Terminal(jobs[r]) => Terminal(jobs'[r])
    PROVE  /\ UNCHANGED push => PushNow'
           /\ UNCHANGED record => RecordNeverAhead'
<1> USE Places DEF Rec, Fin
<1>1. UNCHANGED push => PushNow'
    BY DEF PushNow, Steps
<1>2. Running <=> Waiting
    BY DEF Running, Waiting, WorkerType
<1>3. Running' => Waiting'
  <2>1. worker' \in WorkerType
      BY DEF IInv, ServiceInv, WorkerInv
  <2> QED BY <2>1 DEF Running, Waiting, WorkerType
<1>4. UNCHANGED record => RecordNeverAhead'
    BY <1>2, <1>3 DEF RecordNeverAhead
<1> QED BY <1>1, <1>4

\* Every write of the record but those of a registration and of a callback.
LEMMA PlainRec ==
    ASSUME OnePusher, Rec, Fin', Plain
    PROVE  Rec'
<1> USE Places DEF Rec, Fin
<1>0. \A r \in Rungs : Terminal(jobs[r]) => Terminal(jobs'[r])
    BY JobsKept DEF Kept, Terminal, TERMINAL_STATES
<1>1. CASE PollGivesUp
  <2>1. /\ UNCHANGED <<rung, chain, push>> /\ worker.pc = "poll" /\ worker'.pc = "apply"
        /\ jobs' = [jobs EXCEPT ![rung] = [jobs[LiveJob] EXCEPT !.state = "failed"]]
      BY <1>1 DEF PollGivesUp, env, LiveJob, Kind, Waiting
  <2>2. LiveJob = rung
      BY <2>1 DEF LiveJob, Kind, Waiting
  <2>3. Terminal(jobs'[rung])
      BY <2>1, <2>2 DEF Terminal, TERMINAL_STATES, HonestStatus, JobStatus
  <2> QED BY <1>0, <2>1, <2>3, Recorded DEF RecordNeverAhead, Waiting, Before
<1>2. CASE SavePolled \/ Timeout
  <2>1. /\ UNCHANGED <<rung, chain, push>> /\ Waiting /\ worker'.pc \in {"top", "end"}
        /\ worker'.pc # "end" => ~Terminal(record'.status)
    <3>1. \A o : Finish(o) => worker'.pc = "end"
        BY DEF Finish, NewWorker
    <3>2. CASE SavePolled
      <4>1. CASE Terminal(worker.status)
          BY <3>1, <3>2, <4>1 DEF SavePolled, Waiting, env
      <4>2. CASE ~Terminal(worker.status)
          BY <3>2, <4>2 DEF SavePolled, Save, Waiting, WorkerType, env
      <4> QED BY <4>1, <4>2
    <3>3. CASE Timeout
        BY <3>1, <3>3 DEF Timeout, Waiting, env
    <3> QED BY <1>2, <3>2, <3>3
  <2> QED BY <1>0, <2>1, Recorded DEF RecordNeverAhead, Running, Before
<1>3. CASE Submit \/ SubmitFails \/ ResumeEnded \/ ResumeOrphaned
  <2>1. /\ UNCHANGED <<rung, chain, push>> /\ worker'.pc \in {"register", "end"}
        /\ worker'.pc = "register" => worker.pc = "submit"
      BY <1>3 DEF Submit, SubmitFails, ResumeEnded, ResumeOrphaned, Become, Finish, NewWorker, WorkerType, env
  <2> QED BY <1>0, <2>1, Recorded DEF RecordNeverAhead, Running, Waiting, Before
<1>4. CASE \/ NoticeStop \/ RaiseCancelled \/ Sleep \/ FindCompleted \/ StartPoll \/ Poll \/ PollFails
           \/ PollGivesUpLate \/ Apply
  <2>1. UNCHANGED <<rung, chain, push, record>>
      BY <1>4 DEF NoticeStop, RaiseCancelled, Sleep, FindCompleted, StartPoll, Poll, PollFails,
         PollGivesUpLate, Apply, env
  <2>2. Waiting
      BY <1>4 DEF NoticeStop, RaiseCancelled, Sleep, FindCompleted, StartPoll, Poll, PollFails,
         PollGivesUpLate, Apply, AtCheck, Waiting
  <2>3. worker'.pc \notin {"submit", "register", "down"}
    <3>1. \A o : Finish(o) => worker'.pc = "end"
        BY DEF Finish, NewWorker
    <3>2. CASE RaiseCancelled \/ FindCompleted \/ PollGivesUpLate
        BY <3>1, <3>2 DEF RaiseCancelled, FindCompleted, PollGivesUpLate
    <3>3. CASE NoticeStop \/ Sleep \/ StartPoll
        BY <3>3 DEF NoticeStop, Sleep, StartPoll, Become, WorkerType
    <3>4. CASE Poll
        BY <3>4 DEF Poll
    <3>5. CASE PollFails
        BY <3>5 DEF PollFails, WorkerType
    <3>6. CASE Apply
      <4>1. worker'.pc = "save"
          BY <3>6 DEF Apply, WorkerType
      <4> QED BY <4>1
    <3> QED BY <1>4, <3>2, <3>3, <3>4, <3>5, <3>6
  <2> QED BY <1>0, <2>1, <2>2, <2>3, Recorded DEF Before
<1>5. CASE \/ Batches \/ (\E u \in Units : ExtensionRecord(u)) \/ ExtensionDone \/ Stop \/ Expire
           \/ \E r \in Rungs : CancelGet(r) \/ CancelAssign(r)
  <2>1. UNCHANGED <<rung, chain, push, record, worker>>
      BY <1>5 DEF Batches, BatchScene, BatchRecord, BatchCancelled, ExtensionRecord, ExtensionDone, Stop,
         Expire, CancelGet, CancelAssign, env
  <2> QED BY <1>0, <2>1, Recorded DEF Waiting, Before
<1>6. ASSUME NEW r \in Rungs, CancelSave(r) PROVE Rec'
  <2>1. /\ UNCHANGED <<rung, chain, push, worker, jobs>>
        /\ token[r].callback = "save" /\ record' = [rung |-> r, status |-> jobs[token[r].job]]
      BY <1>6 DEF CancelSave, env, memory
  <2>2. r = rung => Terminal(jobs[rung])
      BY <2>1 DEF TokensNow, CallbackNow
  <2>3. RecordNeverAhead'
      BY <2>1, <2>2 DEF RecordNeverAhead
  <2> QED BY <1>0, <2>1, <2>3, Recorded DEF Waiting, Before
<1>7. CASE PushSend
  <2>1. UNCHANGED <<rung, chain, record, worker>> /\ push'.pc = "sent"
      BY <1>7 DEF PushSend, env
  <2> QED BY <1>0, <2>1, Recorded DEF Waiting, Before, PushNow
<1>8. CASE PushApply
  <2>1. UNCHANGED <<rung, chain, record, worker>>
      BY <1>8 DEF PushApply, env
  <2>2. CASE live["pushed"] = NoRung
      BY <1>0, <1>8, <2>1, <2>2, Recorded DEF PushApply, NoPush, PushNow, Waiting, Before
  <2>3. CASE live["pushed"] # NoRung
    <3>1. live["pushed"] = rung /\ chain[rung] = "pushed" /\ Waiting
        BY <2>3 DEF LiveNow, Kinds
    <3>2. push'.status = jobs'[rung]
        BY <1>8, <2>3, <3>1 DEF PushApply
    <3>3. \A q \in Steps : chain[q] = "pushed" => q = rung
      <4>1. chain \in Chains /\ Steps = 1..Len(chain)
          BY DEF IInv, ServiceInv, WorkerInv, Steps
      <4> QED BY <3>1, <4>1 DEF OnePusher
    <3>4. PushNow'
        BY <2>1, <3>1, <3>2, <3>3 DEF PushNow, Waiting, Before, Steps
    <3> QED BY <1>0, <2>1, <3>4, Recorded DEF Waiting, Before
  <2> QED BY <2>2, <2>3
<1>9. CASE PushSave
  <2>1. /\ UNCHANGED <<rung, chain, worker, jobs>> /\ push.pc = "applied" /\ push'.pc = "none"
        /\ \/ UNCHANGED record
           \/ /\ live["pushed"] # NoRung
              /\ record' = [rung |-> live["pushed"], status |-> push.status]
      BY <1>9 DEF PushSave, NoPush, env, memory
  <2>2. live["pushed"] # NoRung /\ Terminal(push.status) => Terminal(jobs[rung])
    <3>1. live["pushed"] # NoRung => chain[rung] = "pushed"
        BY DEF LiveNow, Kinds
    <3> QED BY <2>1, <3>1 DEF PushNow
  <2>3. RecordNeverAhead' /\ PushNow'
      BY <2>1, <2>2 DEF RecordNeverAhead, PushNow, Running
  <2> QED BY <2>3
<1> QED BY <1>1, <1>2, <1>3, <1>4, <1>5, <1>6, <1>7, <1>8, <1>9 DEF Plain, Await, Callback

\* A registration and a resume leave a record of a job that goes on; a kill and the
\* loop over the chain leave nobody who waits.
LEMMA OtherRec ==
    ASSUME Rec, Fin', Register \/ Resume \/ Crash \/ Loop
    PROVE  Rec'
<1> USE Places DEF Rec, Fin
<1>1. CASE Register
  <2>1. /\ worker.pc = "register" /\ worker'.pc \in {"top", "callback"} /\ UNCHANGED <<rung, chain, push>>
        /\ jobs' = [jobs EXCEPT ![rung] = [state |-> "submitted", units |-> prior[rung]]]
        /\ record'.status.state = "submitted"
      BY <1>1 DEF Register, Become, Save, WorkerType, env
  <2>2. ~Terminal(record'.status)
      BY <2>1 DEF Terminal, TERMINAL_STATES
  <2>3. PushNow'
      BY <2>1 DEF PushNow, Before, Steps
  <2> QED BY <2>2, <2>3 DEF RecordNeverAhead
<1>2. CASE Resume
    BY <1>2 DEF Resume, PushNow, RecordNeverAhead
<1>3. CASE Crash
    BY <1>3 DEF Crash, NoPush, NewWorker, PushNow, RecordNeverAhead, Running
<1>4. CASE Advance \/ AdvanceOnError
  <2>1. /\ rung' = rung + 1 /\ UNCHANGED <<chain, push, jobs>> /\ worker'.pc = "submit"
      BY <1>4 DEF Advance, AdvanceOnError, NextRung, NewWorker, env
  <2>2. PushNow'
    <3>1. \A r \in Rungs : r \in Nat
        BY ChainsAssumption DEF Rungs
    <3> QED BY <2>1, <3>1 DEF PushNow, Before, Steps
  <2> QED BY <2>1, <2>2 DEF RecordNeverAhead, Running
<1>5. CASE Return \/ Raise \/ Cancel
    BY <1>5 DEF Return, Raise, Cancel, Conclude, vars, env, memory, PushNow, RecordNeverAhead, Running,
       Before, Steps
<1> QED BY <1>1, <1>2, <1>3, <1>4, <1>5 DEF Loop

\* The record never says that a job is over while its worker still waits for it, so a
\* resume after a kill never reports an end that did not come (media_jobs.py:227), as
\* long as no chain asks two services that push.
THEOREM RecordStaysBehind == ASSUME OnePusher PROVE Spec => []RecordNeverAhead
<1>1. FallbackInit => PushNow /\ RecordNeverAhead
    BY DEF FallbackInit, Init, NoPush, NewWorker, PushNow, RecordNeverAhead, Running
<1>2. Fin /\ Fin' /\ (PushNow /\ RecordNeverAhead) /\ [Next]_allVars => (PushNow /\ RecordNeverAhead)'
  <2> SUFFICES ASSUME Rec, Fin', [Next]_allVars PROVE Rec'
      BY DEF Rec
  <2>1. CASE UNCHANGED allVars
      BY <2>1 DEF allVars, vars, env, memory, Rec, PushNow, RecordNeverAhead, Running, Before, Steps
  <2>2. CASE Plain
      BY <2>2, PlainRec
  <2>3. CASE Register \/ Resume \/ Crash \/ Loop
      BY <2>3, OtherRec
  <2> QED BY <2>1, <2>2, <2>3, Split
<1> QED BY <1>1, <1>2, AlwaysFin, PTL DEF Spec

-----------------------------------------------------------------------------
(* What the record ends with.                                               *)

\* Nobody stopped the run and nothing was pushed.
Undisturbed == ~stop /\ pushes = 0

\* No callback is at work before a stop, and no push before one was sent.
QuietNow ==
    /\ ~stop => \A r \in Rungs : token[r].callback \in {"unbound", "bound"} /\ ~token[r].latched
    /\ pushes = 0 => push.pc = "none"

\* Then nobody but the worker writes a status: a job that is over is not waited for.
AloneNow ==
    Undisturbed =>
      /\ worker.pc # "callback"
      /\ worker.pc \in {"top", "woke", "poll"} => ~Terminal(jobs[rung])
      /\ worker.pc = "save" => worker.status = jobs[rung]
      /\ worker.pc = "end" /\ outcome.kind = "result" =>
           record.status = [state |-> outcome.state, units |-> outcome.units]

\* A stop sets the callbacks to work, and a kill ends both.
LEMMA QuietStays ==
    ASSUME Fin, QuietNow, Next
    PROVE  QuietNow'
<1> USE Places DEF Fin
<1>0. /\ pushes \in Nat /\ stop \in BOOLEAN
      /\ ~stop => \A r \in Rungs : token[r].callback \in {"unbound", "bound"} /\ ~token[r].latched
      /\ pushes = 0 => push.pc = "none"
    BY BoundsAssumption DEF IInv, ServiceInv, SwitchInv, QuietNow
<1>1. CASE Register
  <2>1. /\ UNCHANGED <<stop, push, pushes>> /\ \A r \in Rungs : r # rung => token'[r] = token[r]
        /\ token'[rung].latched = token[rung].latched
        /\ ~token[rung].latched => token'[rung].callback = "bound"
      BY <1>1 DEF Register, TokenType
  <2> QED BY <1>0, <2>1 DEF QuietNow
<1>2. CASE Resume
  <2>1. /\ push' = push /\ pushes' = pushes /\ stop' = stop
        /\ \A r \in Rungs : token'[r].latched = token[r].latched
                            /\ token'[r].callback \in {token[r].callback, "bound"}
      BY <1>2 DEF Resume, TokenType
  <2> QED BY <1>0, <2>1 DEF QuietNow
<1>3. CASE Crash
    BY <1>0, <1>3 DEF Crash, Quiet, NoPush, QuietNow
<1>4. CASE NoticeStop
    BY <1>0, <1>4 DEF NoticeStop, QuietNow
<1>5. CASE Stop
    BY <1>0, <1>5 DEF Stop, QuietNow
<1>6. ASSUME NEW r \in Rungs, CancelGet(r) \/ CancelAssign(r) \/ CancelSave(r) PROVE QuietNow'
  <2>1. stop /\ UNCHANGED <<stop, push, pushes>>
      BY <1>0, <1>6 DEF CancelGet, CancelAssign, CancelSave
  <2> QED BY <1>0, <2>1 DEF QuietNow
<1>7. ASSUME NEW r \in Rungs, BatchCancelled(r) PROVE QuietNow'
  <2>1. stop /\ UNCHANGED <<stop, push, pushes>>
      BY <1>0, <1>7 DEF BatchCancelled, SeesStop
  <2> QED BY <1>0, <2>1 DEF QuietNow
<1>8. CASE PushSend \/ PushApply \/ PushSave
  <2>1. UNCHANGED <<stop, token>> /\ pushes' # 0
      BY <1>0, <1>8 DEF PushSend, PushApply, PushSave
  <2> QED BY <1>0, <2>1 DEF QuietNow
<1>9. CASE \/ RaiseCancelled \/ Sleep \/ FindCompleted \/ StartPoll \/ Poll \/ PollFails
           \/ PollGivesUp \/ PollGivesUpLate \/ Apply \/ SavePolled \/ Timeout \/ Submit \/ SubmitFails
  <2>1. UNCHANGED <<stop, token, push, pushes>>
      BY <1>9 DEF RaiseCancelled, Sleep, FindCompleted, StartPoll, Poll, PollFails, PollGivesUp,
         PollGivesUpLate, Apply, SavePolled, Timeout, Submit, SubmitFails
  <2> QED BY <1>0, <2>1 DEF QuietNow
<1>10. CASE \/ ResumeEnded \/ ResumeOrphaned \/ (\E u \in Units : ExtensionRecord(u)) \/ ExtensionDone \/ Expire
            \/ Loop \/ \E r \in Rungs : BatchScene(r) \/ BatchRecord(r)
  <2>1. UNCHANGED <<stop, token, push, pushes>>
      BY <1>10 DEF ResumeEnded, ResumeOrphaned, ExtensionRecord, ExtensionDone, Expire, BatchScene, BatchRecord,
         Loop, Advance, AdvanceOnError, Return, Raise, Cancel, NextRung, Conclude, vars
  <2> QED BY <1>0, <2>1 DEF QuietNow
<1> QED BY <1>1, <1>2, <1>3, <1>4, <1>5, <1>6, <1>7, <1>8, <1>9, <1>10
    DEF Next, Service, ServiceNext, Run, Await, Restart, Callback, Batches, Outside

\* An answer says what its status says.
LEMMA ResultSays ==
    \A s \in HonestStatus : s = [state |-> ResultOf(s).state, units |-> ResultOf(s).units]
BY DEF ResultOf, HonestStatus, JobStatus

\* Undisturbed, the worker alone decides what the record ends with.
LEMMA AloneStays ==
    ASSUME Fin, QuietNow, AloneNow, Next
    PROVE  AloneNow'
<1> USE Places DEF Fin
<1>0. pushes \in Nat /\ stop \in BOOLEAN
    BY BoundsAssumption DEF IInv, ServiceInv, SwitchInv
<1>1. CASE Crash
  <2>1. worker'.pc = "down"
      BY <1>1 DEF Crash, NewWorker
  <2> QED BY <2>1 DEF AloneNow
<1>2. CASE Stop \/ PushSend
  <2>1. stop' \/ pushes' # 0
      BY <1>0, <1>2 DEF Stop, PushSend
  <2> QED BY <2>1 DEF AloneNow, Undisturbed
<1> SUFFICES ASSUME Undisturbed', ~Crash, ~Stop, ~PushSend PROVE AloneNow'
    BY <1>1, <1>2 DEF AloneNow
<1>3. Undisturbed /\ UNCHANGED <<stop, pushes>>
  <2>1. UNCHANGED <<stop, pushes>>
      BY DEF Next, Service, ServiceNext, Run, Submit, SubmitFails, Register, Await, NoticeStop, RaiseCancelled, Sleep,
         FindCompleted, StartPoll, Poll, PollFails, PollGivesUp, PollGivesUpLate, Apply, SavePolled, Timeout,
         Restart, Resume, ResumeEnded, ResumeOrphaned, Callback, CancelGet, CancelAssign, CancelSave, Batches,
         BatchScene, BatchRecord, BatchCancelled, Outside, ExtensionRecord, ExtensionDone, PushApply, PushSave,
         Expire, Loop, Advance, AdvanceOnError, Return, Raise, Cancel, NextRung, Conclude, vars
  <2> QED BY <2>1 DEF Undisturbed
<1>4. /\ worker.pc # "callback"
      /\ worker.pc \in {"top", "woke", "poll"} => ~Terminal(jobs[rung])
      /\ worker.pc = "save" => worker.status = jobs[rung]
      /\ \A r \in Rungs : token[r].callback \in {"unbound", "bound"} /\ ~token[r].latched
      /\ push.pc = "none" /\ ~stop
    BY <1>3 DEF AloneNow, QuietNow, Undisturbed
<1>5. CASE Submit \/ SubmitFails
  <2>1. worker'.pc = "register" \/ (worker'.pc = "end" /\ outcome'.kind = "error")
      BY <1>5 DEF Submit, SubmitFails, Become, Finish, Raised, NewWorker, WorkerType
  <2> QED BY <2>1 DEF AloneNow
<1>6. CASE Register
  <2>1. /\ worker'.pc = "top" /\ rung' = rung
        /\ jobs' = [jobs EXCEPT ![rung] = [state |-> "submitted", units |-> prior[rung]]]
      BY <1>4, <1>6 DEF Register, Become, WorkerType
  <2>2. ~Terminal(jobs'[rung])
      BY <2>1 DEF Terminal, TERMINAL_STATES
  <2> QED BY <2>1, <2>2 DEF AloneNow
<1>7. CASE NoticeStop \/ RaiseCancelled \/ FindCompleted
  <2>1. LiveJob = rung \/ worker.pc \notin {"top", "woke"}
      BY DEF LiveJob, Kind, Waiting
  <2> QED BY <1>4, <1>7, <2>1 DEF NoticeStop, RaiseCancelled, FindCompleted, AtCheck
<1>8. CASE Sleep \/ StartPoll \/ PollFails
  <2>1. UNCHANGED <<rung, jobs>> /\ worker.pc \in {"top", "woke", "poll"} /\ worker'.pc \in {"top", "woke", "poll"}
      BY <1>8 DEF Sleep, StartPoll, PollFails, Become, memory, WorkerType
  <2> QED BY <1>4, <2>1 DEF AloneNow
<1>9. CASE Poll \/ PollGivesUp \/ PollGivesUpLate
  <2>1. worker'.pc = "apply" \/ (worker'.pc = "end" /\ outcome'.kind = "error")
      BY <1>9 DEF Poll, PollGivesUp, PollGivesUpLate, Finish, Raised, NewWorker
  <2> QED BY <2>1 DEF AloneNow
<1>10. CASE Apply
  <2>1. LiveJob = rung
      BY <1>10 DEF Apply, LiveJob, Kind, Waiting
  <2>2. worker'.pc = "save" /\ rung' = rung /\ worker'.status = jobs'[rung]
      BY <1>10, <2>1 DEF Apply, WorkerType
  <2> QED BY <2>2 DEF AloneNow
<1>11. CASE SavePolled
  <2>1. record'.status = worker.status /\ worker.status \in HonestStatus /\ worker.pc = "save"
      BY <1>11 DEF SavePolled, Save, WorkerType
  <2>2. CASE Terminal(worker.status)
    <3>1. worker'.pc = "end" /\ outcome' = ResultOf(worker.status)
        BY <1>11, <2>2 DEF SavePolled, Finish, NewWorker
    <3> QED BY <2>1, <3>1, ResultSays DEF AloneNow
  <2>3. CASE ~Terminal(worker.status)
    <3>1. worker'.pc = "top" /\ UNCHANGED <<rung, jobs>>
        BY <1>11, <2>3 DEF SavePolled, WorkerType
    <3> QED BY <1>4, <2>1, <2>3, <3>1 DEF AloneNow
  <2> QED BY <2>2, <2>3
<1>12. CASE Timeout
  <2>1. PICK base \in HonestStatus : record'.status = TimedOut(base) /\ outcome' = ResultOf(TimedOut(base))
    <3>1. LiveJob \in Rungs /\ worker.status \in HonestStatus /\ worker.last \in HonestStatus
        BY <1>12 DEF Timeout, LiveJob, Kind, Waiting, WorkerType
    <3> QED BY <1>12, <3>1 DEF Timeout, Save, Finish
  <2>2. worker'.pc = "end"
      BY <1>12 DEF Timeout, Finish, NewWorker
  <2> QED BY <2>1, <2>2, ResultSays, Statuses DEF AloneNow
<1>13. CASE Resume
  <2>1. record.rung \in Rungs
      BY <1>13, Chained DEF Resume, IInv, ServiceInv, StoreInv
  <2>2. worker'.pc = "top" /\ rung' = record.rung /\ jobs'[record.rung] = record.status /\ ~Terminal(record.status)
      BY <1>13, <2>1 DEF Resume, NewWorker
  <2> QED BY <2>2 DEF AloneNow
<1>14. CASE ResumeEnded
  <2>1. worker'.pc = "end" /\ record' = record /\ record.status \in HonestStatus
      BY <1>14 DEF ResumeEnded, Become, WorkerType, RecordType
  <2>2. outcome'.kind = "error" \/ outcome' = ResultOf(record.status)
      BY <1>14 DEF ResumeEnded, Raised
  <2> QED BY <2>1, <2>2, ResultSays DEF AloneNow
<1>15. CASE ResumeOrphaned
  <2>1. worker'.pc = "end" /\ outcome'.kind = "error"
    <3>1. [record.status EXCEPT !.state = "failed"].state = "failed"
        BY DEF RecordType, HonestStatus, JobStatus
    <3>2. \A s : s.state = "failed" => ResultOf(s).kind = "error"
        BY DEF ResultOf
    <3> QED BY <1>15, <3>1, <3>2 DEF ResumeOrphaned, Become, WorkerType
  <2> QED BY <2>1 DEF AloneNow
<1>16. CASE Callback \/ PushApply \/ PushSave
    BY <1>4, <1>16 DEF Callback, CancelGet, CancelAssign, CancelSave, PushApply, PushSave
<1>17. CASE Batches \/ (\E u \in Units : ExtensionRecord(u)) \/ ExtensionDone \/ Expire \/ Return \/ Raise \/ Cancel
  <2>1. UNCHANGED <<rung, jobs, worker, record, outcome>>
      BY <1>17 DEF Batches, BatchScene, BatchRecord, BatchCancelled, ExtensionRecord, ExtensionDone, Expire,
         Return, Raise, Cancel, Conclude, vars, memory
  <2> QED BY <1>3, <2>1 DEF AloneNow
<1>18. CASE Advance \/ AdvanceOnError
  <2>1. worker'.pc = "submit"
      BY <1>18 DEF Advance, AdvanceOnError, NextRung, NewWorker
  <2> QED BY <2>1 DEF AloneNow
<1> QED BY <1>5, <1>6, <1>7, <1>8, <1>9, <1>10, <1>11, <1>12, <1>13, <1>14, <1>15, <1>16, <1>17, <1>18
    DEF Next, Service, ServiceNext, Run, Await, Restart, Outside, Loop

\* When nobody stopped the run and nothing was pushed, the record ends with what the caller
\* was told, so that a later resume tells the same, over every chain, kill and resume
\* (media_jobs.py:227).
THEOREM RecordEndsSettled == Spec => []RecordSettled
<1>1. FallbackInit => QuietNow /\ AloneNow
  <2> SUFFICES ASSUME FallbackInit PROVE QuietNow /\ AloneNow
      OBVIOUS
  <2>1. worker.pc = "submit" /\ push.pc = "none" /\ \A r \in Rungs : token[r] = Quiet
      BY DEF FallbackInit, Init, NewWorker, NoPush
  <2> QED BY <2>1 DEF QuietNow, AloneNow, Quiet
<1>2. Fin /\ (QuietNow /\ AloneNow) /\ [Next]_allVars => (QuietNow /\ AloneNow)'
  <2>1. UNCHANGED allVars /\ QuietNow /\ AloneNow => (QuietNow /\ AloneNow)'
      BY DEF allVars, vars, env, memory, QuietNow, AloneNow, Undisturbed
  <2> QED BY <2>1, QuietStays, AloneStays
<1>3. AloneNow => RecordSettled
    BY DEF AloneNow, Undisturbed, RecordSettled
<1> QED BY <1>1, <1>2, <1>3, AlwaysFin, PTL DEF Spec

-----------------------------------------------------------------------------
(* A direct provider that is asked alone.                                   *)

Solo == chain = <<"direct">>
Full(units) == \A u \in Units : units[u] # "none"
Whole(s) == s.state = "succeeded" => Full(s.units)
Settled(m, u) == m.scenes[u] \in {"succeeded", "failed"}
Busy(r) == batch[r].pc \in {"check", "generate"}

\* The batch thread marks one scene after the other, the open ones are still to come, and
\* the manifest is done when none is open.
BatchNow ==
    /\ manifest.provider \in {"nobody", "direct"}
    /\ \/ \A u \in Units : manifest.scenes[u] = "absent"
       \/ \A u \in Units : manifest.scenes[u] # "absent"
    /\ manifest.done => \A u \in Units : Settled(manifest, u)
    /\ \A r \in Rungs : Busy(r) =>
         r = 1 /\ \A u \in Units : u >= batch[r].at => manifest.scenes[u] = "pending"

\* Wherever a status travels, it claims success only when it knows every unit; one that is
\* about to be applied knows every unit, or does not end the job.
WholeNow ==
    /\ \A r \in Rungs : Whole(jobs[r])
    /\ Whole(record.status) /\ Whole(worker.last) /\ Whole(outcome)
    /\ worker.pc = "apply" /\ worker.status.state \in {"succeeded", "partial", "failed"} =>
         Full(worker.status.units) \/ Terminal(jobs[rung])
    /\ worker.pc = "save" => Whole(worker.status)

\* The loop over a chain of one looks at one answer.
OnceNow ==
    /\ verdict = "none" => \A u \in Units : accumulated[u].state = "none"
    /\ verdict = "succeeded" => Succeeded(accumulated) = Units

SoloNow == Solo => BatchNow /\ WholeNow /\ OnceNow

-----------------------------------------------------------------------------
\* With one direct provider there is one rung, one job, and nobody who pushes.
LEMMA SoloPlaces ==
    ASSUME Fin, Solo
    PROVE  /\ rung = 1 /\ 1 \in Rungs /\ Kind = "direct" /\ Alone /\ ~HasMore
           /\ \A r \in Steps : r = 1
           /\ live["pushed"] = NoRung
           /\ Waiting => LiveJob = rung
<1>1. Len(chain) = 1 /\ chain[1] = "direct"
    BY DEF Solo
<1>2. Steps = {1} /\ rung = 1
    BY <1>1, Places DEF Fin, Steps
<1>3. Kind = "direct" /\ rung \in Rungs /\ (Waiting => LiveJob = rung)
    BY <1>1, <1>2, Places DEF Fin, Kind, LiveJob
<1>4. live["pushed"] = NoRung
    BY <1>1, <1>2 DEF Fin, LiveNow, Kinds
<1> QED BY <1>1, <1>2, <1>3, <1>4 DEF Alone, HasMore

\* A manifest that ends the job knows every unit.
LEMMA PollFull ==
    ASSUME manifest \in Manifest, BatchNow
    PROVE  LET s == ManifestStatus(manifest)
           IN  s.state # "running" => s.state \in {"succeeded", "partial", "failed"} /\ Full(s.units)
<1> DEFINE units == [u \in Units |-> IF manifest.scenes[u] \in {"succeeded", "failed"}
                                     THEN manifest.scenes[u] ELSE "none"]
           seen == {u \in Units : manifest.scenes[u] # "absent"}
           settled == Cardinality(seen) > 0 /\ \A u \in Units : manifest.scenes[u] # "pending"
           state == SettledState(units, Cardinality(seen))
<1>1. /\ ManifestStatus(manifest).units = units
      /\ ManifestStatus(manifest).state = IF settled \/ manifest.done THEN state ELSE "running"
    BY DEF ManifestStatus
<1>2. state \in {"succeeded", "partial", "failed"}
    BY DEF SettledState
<1>3. seen = {} => ~settled
    BY FS_EmptySet
<1> HIDE DEF settled, state
<1>4. settled \/ manifest.done => \A u \in Units : manifest.scenes[u] \in {"succeeded", "failed"}
  <2>1. CASE manifest.done
      BY <2>1 DEF BatchNow, Settled
  <2>2. CASE settled
    <3>1. \A u \in Units : manifest.scenes[u] # "absent"
        BY <1>3, <2>2 DEF BatchNow
    <3> QED BY <2>2, <3>1 DEF settled, Manifest, SceneStates
  <2> QED BY <2>1, <2>2
<1> QED BY <1>1, <1>2, <1>4 DEF Full

\* apply_status derives success from the units it was given and those that came.
LEMMA ApplyWhole ==
    ASSUME NEW r \in Rungs, jobs[r] \in HonestStatus, Whole(jobs[r]), NEW s \in HonestStatus,
           s.state \in {"succeeded", "partial", "failed"} => Full(s.units) \/ Terminal(jobs[r])
    PROVE  Whole(ApplyStatus(r, s))
<1> DEFINE units == MergeUnits(prior[r], MergeUnits(jobs[r].units, s.units))
           new == ApplyStatus(r, s)
<1>1. Full(s.units) => Full(units)
    BY DEF Full, MergeUnits
<1>2. Terminal(jobs[r]) => new = jobs[r]
    BY DEF ApplyStatus
<1>3. ~Terminal(jobs[r]) => /\ new.units = units
                            /\ \/ s.state \in TERMINAL_STATES \ {"cancelled", "timed_out"}
                               \/ new.state = s.state
    BY DEF ApplyStatus
<1> HIDE DEF units, new
<1>4. Whole(new)
    BY <1>1, <1>2, <1>3 DEF Whole, TERMINAL_STATES
<1> QED BY <1>4 DEF new

-----------------------------------------------------------------------------
\* The batch thread and the seed are alone with the manifest.
LEMMA BatchStays ==
    ASSUME Fin, Solo, BatchNow, Next
    PROVE  BatchNow'
<1> USE Places, SoloPlaces DEF Fin
<1>0. /\ manifest \in Manifest /\ batch \in [Rungs -> BatchType] /\ 1 \in Units
      /\ \A u \in Units : u \in Nat /\ u <= NumUnits
      /\ NumUnits \in Units
    BY NumUnitsAssumption DEF IInv, ServiceInv, ProviderInv, Units
<1>1. CASE Submit
  <2>1. /\ manifest' = [scenes |-> [u \in Units |-> "pending"], done |-> FALSE, provider |-> "direct"]
        /\ batch' = [batch EXCEPT ![1] = [pc |-> "check", at |-> 1]]
      BY <1>1 DEF Submit, Seeded
  <2>2. \A r \in Rungs : Busy(r)' => r = 1
      BY <1>0, <2>1 DEF Busy, BatchNow
  <2> QED BY <2>1, <2>2 DEF BatchNow, Settled
<1>2. CASE Crash
    BY <1>2 DEF Crash, NoBatch, Busy, BatchNow, Settled
<1>3. ASSUME NEW r \in Rungs, BatchScene(r) PROVE BatchNow'
  <2> DEFINE at == batch[r].at
  <2>1. r = 1 /\ at \in Units /\ \A u \in Units : u >= at => manifest.scenes[u] = "pending"
      BY <1>0, <1>3 DEF BatchScene, BatchIn, Busy, BatchNow, BatchType
  <2>2. /\ manifest'.scenes = [manifest.scenes EXCEPT ![at] = "pending"]
        /\ manifest'.provider = manifest.provider
        /\ manifest'.done => manifest.done \/ \A v \in Units : manifest'.scenes[v] \in {"succeeded", "failed"}
      BY <1>0, <1>3 DEF BatchScene, MarkScene, Manifest
  <2>3. manifest'.scenes = manifest.scenes
    <3>1. at >= at /\ manifest.scenes[at] = "pending" /\ manifest.scenes \in [Units -> SceneStates]
        BY <1>0, <2>1 DEF Manifest
    <3> QED BY <2>2, <3>1
  <2>4. \A q \in Rungs : batch'[q].at = batch[q].at /\ (Busy(q)' => Busy(q))
      BY <1>0, <1>3 DEF BatchScene, BatchIn, Busy, BatchType
  <2> QED BY <2>2, <2>3, <2>4 DEF BatchNow, Settled
<1>4. ASSUME NEW r \in Rungs, BatchRecord(r) PROVE BatchNow'
  <2> DEFINE at == batch[r].at
  <2>1. r = 1 /\ at \in Units /\ at \in Nat /\ \A u \in Units : u >= at => manifest.scenes[u] = "pending"
      BY <1>0, <1>4 DEF BatchRecord, BatchIn, Busy, BatchNow, BatchType
  <2>2. PICK s \in {"succeeded", "failed"} :
           /\ manifest'.scenes = [manifest.scenes EXCEPT ![at] = s]
           /\ manifest'.provider = manifest.provider
           /\ manifest'.done => manifest.done \/ \A v \in Units : manifest'.scenes[v] \in {"succeeded", "failed"}
      BY <1>0, <1>4 DEF BatchRecord, MarkScene, Manifest
  <2>3. manifest.scenes \in [Units -> SceneStates] /\ at >= at
      BY <1>0, <2>1 DEF Manifest
  <2>4. \A u \in Units : manifest'.scenes[u] = IF u = at THEN s ELSE manifest.scenes[u]
      BY <2>2, <2>3
  <2>5. ~manifest.done /\ \A u \in Units : manifest.scenes[u] # "absent"
      BY <2>1, <2>3 DEF BatchNow, Settled
  <2>6. batch' = [batch EXCEPT ![r] = IF at = NumUnits THEN Over ELSE [pc |-> "check", at |-> at + 1]]
      BY <1>4 DEF BatchRecord
  <2>7. ASSUME NEW q \in Rungs, Busy(q)'
        PROVE  q = 1 /\ \A u \in Units : u >= batch'[q].at => manifest'.scenes[u] = "pending"
    <3>1. CASE q # r
        BY <1>0, <2>1, <2>6, <2>7, <3>1 DEF Busy, BatchNow
    <3>2. CASE q = r
      <4>1. batch'[r].at = at + 1
          BY <1>0, <2>6, <2>7, <3>2 DEF Busy, Over
      <4>2. \A u \in Units : u >= at + 1 => u >= at /\ u # at
          BY <1>0, <2>1
      <4> QED BY <2>1, <2>4, <3>2, <4>1, <4>2
    <3> QED BY <3>1, <3>2
  <2> QED BY <2>2, <2>4, <2>5, <2>7 DEF BatchNow, Settled
<1>5. ASSUME NEW r \in Rungs, BatchCancelled(r) PROVE BatchNow'
    BY <1>0, <1>5 DEF BatchCancelled, Over, Busy, BatchNow, Settled
<1>6. CASE (\E u \in Units : ExtensionRecord(u)) \/ ExtensionDone
    BY <1>6 DEF ExtensionRecord, ExtensionDone, BatchNow
<1>7. UNCHANGED provider => BatchNow'
    BY DEF provider, BatchNow, Busy, Settled
<1>8. CASE SubmitFails \/ Register \/ Await \/ Restart
    BY <1>7, <1>8 DEF SubmitFails, Register, Await, NoticeStop, RaiseCancelled, Sleep,
       FindCompleted, StartPoll, Poll, PollFails, PollGivesUp, PollGivesUpLate, Apply, SavePolled, Timeout,
       Restart, Resume, ResumeEnded, ResumeOrphaned
<1>9. CASE Callback \/ PushSend \/ PushApply \/ PushSave \/ Stop \/ Expire \/ Loop
    BY <1>7, <1>9 DEF Callback, CancelGet, CancelAssign, CancelSave, PushSend, PushApply, PushSave, Stop,
       Expire, Loop, Advance, AdvanceOnError, Return, Raise, Cancel, NextRung, Conclude, vars
<1> QED BY <1>1, <1>2, <1>3, <1>4, <1>5, <1>6, <1>8, <1>9
    DEF Next, Service, ServiceNext, Run, Batches, Outside

-----------------------------------------------------------------------------
\* Only an applied status brings a success, and it is a whole one.
LEMMA WholeStays ==
    ASSUME Fin, Solo, BatchNow, WholeNow, Next
    PROVE  WholeNow'
<1> USE Places, SoloPlaces DEF Fin
<1>0. /\ \A r \in Rungs : Whole(jobs[r])
      /\ Whole(record.status) /\ Whole(worker.last) /\ Whole(outcome)
      /\ worker.pc = "apply" /\ worker.status.state \in {"succeeded", "partial", "failed"} =>
           Full(worker.status.units) \/ Terminal(jobs[1])
      /\ worker.pc = "save" => Whole(worker.status)
    BY DEF WholeNow
<1>1. /\ Whole(Submitted) /\ Whole(Raised) /\ Whole(Cancelled)
      /\ \A units : Whole([state |-> "submitted", units |-> units])
    BY DEF Whole, Submitted, Raised, Cancelled
<1>2. \A s \in HonestStatus : /\ Whole([s EXCEPT !.state = "failed"])
                              /\ Terminal([s EXCEPT !.state = "failed"])
                              /\ Whole(s) => Whole(TimedOut(s)) /\ Whole(ResultOf(s))
    BY DEF HonestStatus, JobStatus, Whole, TimedOut, ResultOf, Terminal, TERMINAL_STATES
<1>3. \A o : Finish(o) => worker'.pc = "end" /\ worker'.last = Submitted /\ outcome' = o
    BY DEF Finish, NewWorker
<1>4. CASE Submit \/ Poll \/ NoticeStop \/ Sleep \/ StartPoll \/ PollFails
  <2>1. UNCHANGED <<rung, jobs, record, outcome>>
      BY <1>4 DEF Submit, Poll, NoticeStop, Sleep, StartPoll, PollFails, memory
  <2>2. CASE Poll
    <3> DEFINE s == ManifestStatus(manifest)
    <3>1. worker'.pc = "apply" /\ worker'.status = s /\ worker'.last = s
        BY <2>2 DEF Poll
    <3>2. Whole(s) /\ (s.state \in {"succeeded", "partial", "failed"} => Full(s.units))
        BY PollFull DEF Whole, IInv, ServiceInv, ProviderInv
    <3> HIDE DEF s
    <3> QED BY <1>0, <2>1, <3>1, <3>2 DEF WholeNow
  <2>3. CASE ~Poll
    <3>1. worker'.pc \notin {"apply", "save"} /\ worker'.last = worker.last
        BY <1>4, <2>3 DEF Submit, NoticeStop, Sleep, StartPoll, PollFails, Become, WorkerType
    <3> QED BY <1>0, <2>1, <3>1 DEF WholeNow
  <2> QED BY <2>2, <2>3
<1>5. CASE SubmitFails \/ RaiseCancelled \/ PollGivesUpLate \/ FindCompleted
  <2>1. UNCHANGED <<rung, jobs, record>>
      BY <1>5 DEF SubmitFails, RaiseCancelled, PollGivesUpLate, FindCompleted
  <2>2. \E o \in {Raised, Cancelled, ResultOf(jobs[rung])} : Finish(o)
    <3>1. FindCompleted => LiveJob = rung
        BY DEF FindCompleted, Waiting
    <3>2. RaiseCancelled => Finish(Cancelled)
        BY DEF RaiseCancelled
    <3>3. SubmitFails \/ PollGivesUpLate => Finish(Raised)
        BY DEF SubmitFails, PollGivesUpLate
    <3>4. FindCompleted => Finish(ResultOf(jobs[rung]))
        BY <3>1 DEF FindCompleted
    <3> QED BY <1>5, <3>2, <3>3, <3>4
  <2>3. Whole(ResultOf(jobs[rung]))
    <3>1. jobs[rung] \in HonestStatus /\ Whole(jobs[rung])
        BY <1>0
    <3> QED BY <1>2, <3>1
  <2>4. worker'.pc = "end" /\ worker'.last = Submitted /\ Whole(outcome')
    <3>1. PICK o \in {Raised, Cancelled, ResultOf(jobs[rung])} : Finish(o)
        BY <2>2
    <3>2. Whole(o)
        BY <1>1, <2>3
    <3> QED BY <1>3, <3>1, <3>2
  <2> QED BY <1>0, <1>1, <2>1, <2>4 DEF WholeNow
<1>6. CASE Register
  <2> DEFINE initial == [state |-> "submitted", units |-> prior[rung]]
  <2>1. /\ jobs' = [jobs EXCEPT ![rung] = initial] /\ record'.status = initial
        /\ UNCHANGED <<rung, outcome>> /\ worker'.last = worker.last
        /\ worker'.pc \notin {"apply", "save"}
      BY <1>6 DEF Register, Save, Become, WorkerType
  <2>2. Whole(initial)
      BY <1>1
  <2> HIDE DEF initial
  <2> QED BY <1>0, <2>1, <2>2 DEF WholeNow
<1>7. CASE PollGivesUp
  <2> DEFINE failed == [jobs[rung] EXCEPT !.state = "failed"]
  <2>1. LiveJob = rung
      BY <1>7 DEF PollGivesUp, Waiting
  <2>2. /\ jobs' = [jobs EXCEPT ![rung] = failed] /\ record'.status = failed
        /\ UNCHANGED <<rung, outcome>> /\ worker'.last = failed /\ worker'.pc = "apply"
      BY <1>7, <2>1 DEF PollGivesUp, Save
  <2>3. Whole(failed) /\ Terminal(failed)
      BY <1>2
  <2> HIDE DEF failed
  <2>4. \A r \in Rungs : Whole(jobs'[r])
      BY <1>0, <2>2, <2>3
  <2> QED BY <1>0, <2>2, <2>3, <2>4 DEF WholeNow
<1>8. CASE Apply
  <2> DEFINE applied == ApplyStatus(rung, worker.status)
  <2>1. LiveJob = rung /\ worker.status \in HonestStatus
      BY <1>8 DEF Apply, Waiting, WorkerType
  <2>2. /\ jobs' = [jobs EXCEPT ![rung] = applied] /\ UNCHANGED <<rung, outcome, record>>
        /\ worker'.last = worker.last /\ worker'.pc = "save" /\ worker'.status = applied
      BY <1>8, <2>1 DEF Apply, WorkerType
  <2>3. Whole(applied)
      BY <1>0, <1>8, <2>1, ApplyWhole DEF Apply
  <2> HIDE DEF applied
  <2> QED BY <1>0, <2>2, <2>3 DEF WholeNow
<1>9. CASE SavePolled
  <2>1. /\ record'.status = worker.status /\ Whole(worker.status) /\ worker.status \in HonestStatus
        /\ UNCHANGED <<rung, jobs>>
      BY <1>0, <1>9 DEF SavePolled, Save, WorkerType
  <2>2. /\ worker'.pc \in {"end", "top"} /\ worker'.last \in {Submitted, worker.last}
        /\ outcome' \in {outcome, ResultOf(worker.status)}
      BY <1>9, <1>3 DEF SavePolled, WorkerType
  <2> QED BY <1>0, <1>1, <1>2, <2>1, <2>2 DEF WholeNow
<1>10. CASE Timeout
  <2>1. PICK base \in HonestStatus : /\ Whole(base)
                                     /\ jobs' = [jobs EXCEPT ![rung] = TimedOut(base)]
                                     /\ record'.status = TimedOut(base)
                                     /\ Finish(ResultOf(TimedOut(base)))
    <3>1. LiveJob = rung /\ worker.status \in HonestStatus /\ worker.last \in HonestStatus
        BY <1>10 DEF Timeout, Waiting, WorkerType
    <3> QED BY <1>0, <1>10, <3>1 DEF Timeout, Save
  <2>2. Whole(TimedOut(base)) /\ Whole(ResultOf(TimedOut(base)))
      BY <1>2, <2>1, Statuses
  <2>3. worker'.pc = "end" /\ worker'.last = Submitted /\ outcome' = ResultOf(TimedOut(base))
      BY <1>3, <2>1
  <2> QED BY <1>0, <1>1, <2>1, <2>2, <2>3 DEF WholeNow
<1>11. CASE Resume
  <2>1. record.rung \in Rungs
      BY <1>11, Chained DEF Resume, IInv, ServiceInv, StoreInv
  <2>2. /\ jobs' = [jobs EXCEPT ![record.rung] = record.status] /\ UNCHANGED <<record, outcome>>
        /\ worker'.pc = "top" /\ worker'.last = Submitted
      BY <1>11 DEF Resume, NewWorker
  <2> QED BY <1>0, <1>1, <2>2 DEF WholeNow
<1>12. CASE ResumeEnded \/ ResumeOrphaned
  <2>1. /\ UNCHANGED <<rung, jobs>> /\ worker'.pc = "end" /\ worker'.last = worker.last
        /\ record.status \in HonestStatus
      BY <1>12 DEF ResumeEnded, ResumeOrphaned, Become, memory, WorkerType, RecordType
  <2>2. Whole(record'.status) /\ Whole(outcome')
    <3>1. CASE ResumeEnded
        BY <1>0, <1>1, <1>2, <2>1, <3>1 DEF ResumeEnded
    <3>2. CASE ResumeOrphaned
      <4> DEFINE failed == [record.status EXCEPT !.state = "failed"]
      <4>1. record' = [record EXCEPT !.status = failed] /\ outcome' = ResultOf(failed)
          BY <3>2 DEF ResumeOrphaned
      <4>2. Whole(failed) /\ failed \in HonestStatus
          BY <1>2, <2>1, Statuses
      <4> HIDE DEF failed
      <4>3. record'.status = failed
          BY <4>1 DEF RecordType
      <4> QED BY <1>2, <4>1, <4>2, <4>3
    <3> QED BY <1>12, <3>1, <3>2
  <2> QED BY <1>0, <2>1, <2>2 DEF WholeNow
<1>13. ASSUME NEW r \in Rungs, CancelGet(r) \/ CancelAssign(r) \/ CancelSave(r) PROVE WholeNow'
  <2>1. UNCHANGED <<rung, worker, outcome>>
      BY <1>13 DEF CancelGet, CancelAssign, CancelSave
  <2>2. CASE CancelGet(r)
      BY <1>0, <2>1, <2>2 DEF CancelGet, memory, WholeNow
  <2>3. CASE CancelAssign(r)
    <3>1. /\ token[r].job \in Rungs /\ token[r].status.state = "cancelled" /\ record' = record
          /\ jobs' = [jobs EXCEPT ![token[r].job] = token[r].status]
        BY <2>3 DEF CancelAssign, TokensNow, CallbackNow
    <3>2. Whole(token[r].status) /\ Terminal(token[r].status)
        BY <3>1 DEF Whole, Terminal, TERMINAL_STATES
    <3> QED BY <1>0, <2>1, <3>1, <3>2 DEF WholeNow
  <2>4. CASE CancelSave(r)
    <3>1. token[r].job \in Rungs /\ record'.status = jobs[token[r].job] /\ jobs' = jobs
        BY <2>4 DEF CancelSave, TokensNow, CallbackNow, memory
    <3> QED BY <1>0, <2>1, <3>1 DEF WholeNow
  <2> QED BY <1>13, <2>2, <2>3, <2>4
<1>14. CASE PushApply \/ PushSave
    BY <1>0, <1>14 DEF PushApply, PushSave, memory, WholeNow
<1>15. CASE Crash
  <2>1. /\ \A r \in Rungs : jobs'[r] = Submitted
        /\ UNCHANGED <<record, outcome>> /\ worker'.pc = "down" /\ worker'.last = Submitted
      BY <1>15 DEF Crash, NewWorker
  <2> QED BY <1>0, <1>1, <2>1 DEF WholeNow
<1>16. CASE Batches \/ (\E u \in Units : ExtensionRecord(u)) \/ ExtensionDone \/ PushSend \/ Stop \/ Expire
            \/ Return \/ Raise \/ Cancel
  <2>1. UNCHANGED <<rung, jobs, worker, record, outcome>>
      BY <1>16 DEF Batches, BatchScene, BatchRecord, BatchCancelled, ExtensionRecord, ExtensionDone, PushSend,
         Stop, Expire, Return, Raise, Cancel, Conclude, vars, memory
  <2> QED BY <1>0, <2>1 DEF WholeNow
<1>17. ~Advance /\ ~AdvanceOnError
    BY DEF Advance, AdvanceOnError
<1> QED BY <1>4, <1>5, <1>6, <1>7, <1>8, <1>9, <1>10, <1>11, <1>12, <1>13, <1>14, <1>15, <1>16, <1>17
    DEF Next, Service, ServiceNext, Run, Await, Restart, Callback, Outside, Loop

\* The verdict is the first and only answer, and a kill comes before it.
LEMMA OnceStays ==
    ASSUME Fin, Solo, WholeNow, OnceNow, Next
    PROVE  OnceNow'
<1> USE Places, SoloPlaces DEF Fin
<1>1. CASE Service
  <2>1. verdict' = verdict
      BY <1>1 DEF Service
  <2>2. CASE crashes' = crashes
      BY <1>1, <2>1, <2>2 DEF Service, OnceNow
  <2>3. CASE crashes' # crashes
    <3>1. Crash
      <4>1. Plain \/ Register \/ Resume \/ Crash
          BY <1>1 DEF Service, ServiceNext, Run, Restart, Outside, Plain
      <4>2. Plain \/ Register \/ Resume => crashes' = crashes
          BY DEF Plain, Register, Resume, Submit, SubmitFails, Await, NoticeStop, RaiseCancelled, Sleep,
             FindCompleted, StartPoll, Poll, PollFails, PollGivesUp, PollGivesUpLate, Apply, SavePolled, Timeout,
             ResumeEnded, ResumeOrphaned, Callback, CancelGet, CancelAssign, CancelSave, Batches,
             BatchScene, BatchRecord, BatchCancelled, ExtensionRecord, ExtensionDone, PushSend, PushApply,
             PushSave, Stop, Expire, env
      <4> QED BY <2>3, <4>1, <4>2
    <3>2. verdict = "none"
        BY <3>1 DEF Crash, IInv, FallbackInv
    <3>3. accumulated' = [u \in Units |-> NoUnit]
        BY <1>1, <2>3 DEF Service
    <3> QED BY <2>1, <3>2, <3>3 DEF OnceNow, NoUnit
  <2> QED BY <2>2, <2>3
<1>2. CASE Return
  <2>1. /\ verdict = "none" /\ outcome.kind = "result" /\ verdict' = outcome.state
        /\ accumulated' = MergePriorUnits(outcome.units)
      BY <1>2 DEF Return, Answered, Conclude
  <2>2. outcome \in HonestOutcome /\ outcome.state \in Good
      BY <2>1 DEF IInv, ServiceInv, WorkerInv, HonestOutcome
  <2>3. \A u \in Units : accumulated'[u].state = outcome.units[u]
    <3>1. \A u \in Units : accumulated[u].state = "none"
        BY <2>1 DEF OnceNow
    <3>2. accumulated \in [Units -> [state : UnitStates, from : Rungs \cup {NoRung}]]
        BY DEF IInv, FallbackInv
    <3> QED BY <2>1, <3>1, <3>2 DEF MergePriorUnits
  <2>4. verdict' = "succeeded" => \A u \in Units : outcome.units[u] = "succeeded"
      BY <2>1, <2>2 DEF WholeNow, Whole, Full, HonestOutcome, Claims, Good, UnitMap, UnitStates
  <2> QED BY <2>1, <2>2, <2>3, <2>4 DEF OnceNow, Succeeded, Good
<1>3. CASE Raise \/ Cancel
    BY <1>3 DEF Raise, Cancel, Conclude, OnceNow
<1>4. ~Advance /\ ~AdvanceOnError
    BY DEF Advance, AdvanceOnError
<1> QED BY <1>1, <1>2, <1>3, <1>4 DEF Next, Loop

\* A direct provider that is asked alone reports success only for all the units, whatever
\* the clock, the operator and the kills do meanwhile (image/jobs.py:325: the manifest is
\* closed when no scene is open).
THEOREM DirectSuccess == Spec => []DirectSuccessIsComplete
<1>1. FallbackInit => SoloNow
  <2> SUFFICES ASSUME FallbackInit PROVE BatchNow /\ WholeNow /\ OnceNow
      BY DEF SoloNow
  <2> USE DEF FallbackInit, Init
  <2>1. BatchNow
      BY DEF BatchNow, NoManifest, NoBatch, Busy, Settled
  <2>2. WholeNow
      BY DEF WholeNow, Whole, NewWorker, NoRecord, NoOutcome, Submitted
  <2>3. OnceNow
      BY DEF OnceNow, NoUnit
  <2> QED BY <2>1, <2>2, <2>3
<1>2. Fin /\ SoloNow /\ [Next]_allVars => SoloNow'
  <2> SUFFICES ASSUME Fin, SoloNow, [Next]_allVars PROVE SoloNow'
      OBVIOUS
  <2>1. CASE UNCHANGED allVars
      BY <2>1 DEF allVars, vars, env, provider, memory, fallback, SoloNow, Solo, BatchNow, Busy, Settled,
         WholeNow, OnceNow
  <2>2. CASE Next
    <3>1. chain' = chain
        BY <2>2 DEF Next, Service, ServiceNext, Run, Submit, SubmitFails, Register, Await, NoticeStop,
           RaiseCancelled, Sleep, FindCompleted, StartPoll, Poll, PollFails, PollGivesUp, PollGivesUpLate, Apply,
           SavePolled, Timeout, Restart, Resume, ResumeEnded, ResumeOrphaned, Callback, CancelGet, CancelAssign,
           CancelSave, Batches, BatchScene, BatchRecord, BatchCancelled, Outside, ExtensionRecord,
           ExtensionDone, PushSend, PushApply, PushSave, Stop, Expire, Crash, Loop, Advance, AdvanceOnError,
           Return, Raise, Cancel, NextRung, Conclude, vars, env
    <3> QED BY <2>2, <3>1, BatchStays, WholeStays, OnceStays DEF SoloNow, Solo
  <2> QED BY <2>1, <2>2
<1>3. SoloNow => DirectSuccessIsComplete
    BY DEF SoloNow, Solo, OnceNow, DirectSuccessIsComplete
<1> QED BY <1>1, <1>2, <1>3, AlwaysFin, PTL DEF Spec
=============================================================================

------------------------- MODULE WorkflowScheduler -------------------------
(***************************************************************************)
(* WorkflowScheduler.run and _execute_node (scriptase/engine/scheduler.py):*)
(* one execution of a workflow over all its pauses and resumes.            *)
(*                                                                         *)
(* Actors: the coordinator thread, one pool thread per node in flight, and *)
(* the operator, who may set the stop and pause events at any time and     *)
(* continues a run that rests.  A node is a worker thread of its own: its  *)
(* cache lookup, each attempt, the adapter's answer and each backoff are   *)
(* separate steps.  Queueing and the project lock are ExecutionManager's.  *)
(***************************************************************************)
EXTENDS Integers, FiniteSets, FiniteSetsExt

CONSTANTS
    Nodes,        \* node ids: their positions in the saved workflow
    Workflows,    \* the workflows a run may be started on
    MaxWorkers,   \* max_workers of the node pool
    MaxResumes    \* bound: times one run is continued

NoNode == 0
Ports == {"out", "alt", "error"}
Policies == {"stop", "retry", "continue_error", "skip_optional"}

EdgeRecord == [from : Nodes, port : Ports, to : Nodes]
WorkflowRecord ==
    [edges : SUBSET EdgeRecord,
     policy : [Nodes -> Policies],
     tries : Nat \ {0},            \* max_attempts of the nodes that retry
     merge : SUBSET Nodes,         \* utility.merge
     branch : SUBSET Nodes,        \* outputs are conditional: one of "out" and "alt"
     exclusive : SUBSET Nodes,     \* not parallel_safe
     disabled : SUBSET Nodes,
     preseeded : SUBSET Nodes,
     expressions : SUBSET Nodes,   \* configuration may fail to resolve
     asks : SUBSET Nodes,          \* adapter may raise ApprovalRequired
     gates : SUBSET Nodes,         \* extensions.approval_checkpoints
     cacheable : SUBSET Nodes,
     cached : SUBSET Nodes]        \* hit the cache of an earlier run

ASSUME NodesAssumption == Nodes \subseteq Nat \ {0} /\ IsFiniteSet(Nodes)
ASSUME WorkflowsAssumption == Workflows \subseteq WorkflowRecord
ASSUME LimitsAssumption == MaxWorkers \in Nat \ {0} /\ MaxResumes \in Nat
\* A workflow with a cycle is refused before any of it runs (deterministic_order).
ASSUME AcyclicAssumption ==
    \A w \in Workflows : \A S \in SUBSET Nodes \ {{}} :
      \E n \in S : \A e \in w.edges : e.to = n => e.from \notin S

VARIABLES
    wf,
    statuses, outputs, attempts,     \* per node; attempts live in the execution record
    errors,                          \* nodes with a recorded error
    completed, remaining, ready,
    running, exclusiveRunning,
    stopped, cancelled, userPaused, approvalNode,
    worker,                          \* per node: [pc, outcome]
    pc, progress,                    \* coordinator; progress is made_progress
    stop, pause,                     \* the two events
    cache,                           \* nodes whose outputs the cache holds
    resume,                          \* resume state on disk
    overall,                         \* status of the execution
    gates, approved, resumes

node == <<statuses, outputs, attempts, errors, worker, cache>>
ledger == <<completed, remaining, ready, running, exclusiveRunning, stopped, cancelled, userPaused, approvalNode>>
rest == <<wf, resume, gates, approved, resumes>>
vars == <<node, ledger, rest, pc, progress, stop, pause, overall>>

Settled == {"succeeded", "skipped", "failed", "cancelled"}
NodeStatuses == {"idle", "running", "awaiting_approval"} \cup Settled
Resting == {"awaiting_approval", "paused"}
Ended == {"succeeded", "partial", "failed", "cancelled"}
Outcomes == {"none", "ok", "stop", "cancelled", "awaiting", "raised"}

\* Every variable has its type.
TypeOK ==
    /\ wf \in Workflows
    /\ statuses \in [Nodes -> NodeStatuses]
    /\ outputs \in [Nodes -> SUBSET Ports]
    /\ attempts \in [Nodes -> Nat]
    /\ errors \subseteq Nodes
    /\ completed \subseteq Nodes
    /\ remaining \in [Nodes -> Int]
    /\ ready \subseteq Nodes
    /\ running \subseteq Nodes
    /\ {exclusiveRunning, stopped, cancelled, userPaused, progress, stop, pause} \subseteq BOOLEAN
    /\ approvalNode \in Nodes \cup {NoNode}
    /\ worker \in [Nodes -> [pc : {"idle", "lookup", "attempt", "calling", "backoff", "done"},
                             outcome : Outcomes]]
    /\ pc \in {"poll", "submit", "wait", "leave", "raise", "rest", "ended"}
    /\ cache \subseteq Nodes
    /\ resume \in [node : Nodes \cup {NoNode}, statuses : [Nodes -> NodeStatuses],
                   outputs : [Nodes -> SUBSET Ports]]
    /\ overall \in {"running"} \cup Resting \cup Ended
    /\ gates \subseteq Nodes
    /\ approved \subseteq Nodes
    /\ resumes \in 0..MaxResumes

-----------------------------------------------------------------------------
(* The graph.                                                               *)

Into(n) == {e \in wf.edges : e.to = n}
InFrom(n, sources) == {e \in Into(n) : e.from \in sources}

\* _edge_was_activated
Activated(e) ==
    IF e.port = "error"
    THEN statuses[e.from] = "failed" /\ "error" \in outputs[e.from]
    ELSE statuses[e.from] \in {"succeeded", "skipped"} /\ e.port \in outputs[e.from]

IncomingActive(n) ==
    LET active == {e \in Into(n) : Activated(e)}
    IN  IF n \in wf.merge
        THEN /\ active # {}
             /\ \A e \in Into(n) \ active : statuses[e.from] \in {"succeeded", "skipped"}
        ELSE active = Into(n)

\* How many times a node may be attempted, over the whole run.
MaxAttempts(n) == IF wf.policy[n] = "retry" THEN wf.tries ELSE 1

Roots(done, count) == {n \in Nodes \ done : count[n] = 0}
IdleWorkers == [n \in Nodes |-> [pc |-> "idle", outcome |-> "none"]]

\* A preseeded node counts as done from the start, whatever it depends on.
PreseededCounts(w) ==
    [n \in Nodes |-> Cardinality({e \in w.edges : e.to = n /\ e.from \notin w.preseeded})]

Init ==
    /\ wf \in Workflows
    /\ statuses = [n \in Nodes |-> IF n \in wf.preseeded THEN "skipped" ELSE "idle"]
    /\ outputs = [n \in Nodes |-> IF n \in wf.preseeded THEN {"out"} ELSE {}]
    /\ attempts = [n \in Nodes |-> 0]
    /\ errors = {}
    /\ completed = wf.preseeded
    /\ remaining = PreseededCounts(wf)
    /\ ready = Roots(completed, remaining)
    /\ running = {}
    /\ exclusiveRunning = FALSE
    /\ stopped = FALSE /\ cancelled = FALSE /\ userPaused = FALSE
    /\ approvalNode = NoNode
    /\ worker = IdleWorkers
    /\ pc = "poll" /\ progress = FALSE
    /\ stop = FALSE /\ pause = FALSE
    /\ cache = wf.cached
    /\ resume = [node |-> NoNode, statuses |-> statuses, outputs |-> outputs]
    /\ overall = "running"
    /\ gates = wf.gates
    /\ approved = {}
    /\ resumes = 0

-----------------------------------------------------------------------------
(* The coordinator.                                                         *)

\* The head of the loop: the events, then whether to drain or to admit.
Poll ==
    /\ pc = "poll"
    /\ progress' = FALSE
    /\ IF ready = {} /\ running = {}
       THEN pc' = "leave" /\ UNCHANGED <<cancelled, userPaused>>
       ELSE /\ cancelled' = (cancelled \/ stop)
            /\ userPaused' = (userPaused \/ pause)
            /\ pc' = IF approvalNode = NoNode /\ ~userPaused' THEN "submit"
                     ELSE IF running = {} THEN "leave" ELSE "wait"
    /\ UNCHANGED <<node, completed, remaining, ready, running, exclusiveRunning, stopped,
                   approvalNode, rest, stop, pause, overall>>

\* Mutant: a batch of results counts once for a dependent they share.
FinishOncePerBatch(finished, done) ==
    /\ completed' = completed \cup done
    /\ remaining' = [n \in Nodes |-> remaining[n] - IF InFrom(n, finished) = {} THEN 0 ELSE 1]
    /\ ready' = (ready \ done) \cup
                {n \in Nodes \ completed' : remaining'[n] = 0 /\ InFrom(n, finished) # {}}

\* A node has finished: its dependents have one dependency less, and those left
\* with none are ready.
Finish(finished, done) ==
    /\ completed' = completed \cup done
    /\ remaining' = [n \in Nodes |-> remaining[n] - Cardinality(InFrom(n, finished))]
    /\ ready' = (ready \ done) \cup
                {n \in Nodes \ completed' : remaining'[n] = 0 /\ InFrom(n, finished) # {}}

NextReady == Min(ready)
MustSkip(n) == cancelled \/ stopped \/ n \in wf.disabled \/ ~IncomingActive(n)

\* Mutant: a node that cannot share the pool joins the nodes in flight.
AdmitsShared ==
    /\ ready # {}
    /\ Cardinality(running) < MaxWorkers
    /\ ~exclusiveRunning
    /\ completed # {} \/ running = {}

\* The inner loop goes on: until a first node has completed, one at a time.
Admits ==
    /\ ready # {}
    /\ Cardinality(running) < MaxWorkers
    /\ ~exclusiveRunning
    /\ completed # {} \/ running = {}
    /\ MustSkip(NextReady) \/ NextReady \notin wf.exclusive \/ running = {}

Skip ==
    LET n == NextReady IN
    /\ pc = "submit" /\ Admits
    /\ MustSkip(n)
    /\ statuses' = [statuses EXCEPT ![n] = IF cancelled THEN "cancelled" ELSE "skipped"]
    /\ Finish({n}, {n})
    /\ progress' = TRUE
    /\ UNCHANGED <<outputs, attempts, errors, worker, cache, running, exclusiveRunning, stopped,
                   cancelled, userPaused, approvalNode, rest, pc, stop, pause, overall>>

Submit ==
    LET n == NextReady IN
    /\ pc = "submit" /\ Admits
    /\ ~MustSkip(n)
    /\ ready' = ready \ {n}
    /\ running' = running \cup {n}
    /\ exclusiveRunning' = (n \in wf.exclusive)
    /\ worker' = [worker EXCEPT ![n] = [pc |-> "lookup", outcome |-> "none"]]
    /\ progress' = TRUE
    /\ UNCHANGED <<statuses, outputs, attempts, errors, cache, completed, remaining, stopped,
                   cancelled, userPaused, approvalNode, rest, pc, stop, pause, overall>>

\* Mutant: the loop waits although everything it took was skipped.
EndSubmitWaiting ==
    /\ pc = "submit" /\ ~Admits
    /\ pc' = "wait"
    /\ UNCHANGED <<node, ledger, rest, progress, stop, pause, overall>>

EndSubmit ==
    /\ pc = "submit" /\ ~Admits
    /\ pc' = IF running # {} THEN "wait" ELSE IF progress THEN "poll" ELSE "leave"
    /\ UNCHANGED <<node, ledger, rest, progress, stop, pause, overall>>

Done == {n \in running : worker[n].pc = "done"}
With(outcome) == {n \in Done : worker[n].outcome = outcome}

\* Every future that is done, in saved order.  The first that awaits approval is
\* completed and unlocks nothing; all others finish.
Collect ==
    LET asked == With("awaiting")
        held == IF approvalNode = NoNode /\ asked # {} THEN {Min(asked)} ELSE {}
    IN  /\ pc = "wait"
        /\ Done # {} /\ With("raised") = {}
        /\ Finish(Done \ held, Done)
        /\ approvalNode' = IF held = {} THEN approvalNode ELSE Min(asked)
        /\ running' = running \ Done
        /\ exclusiveRunning' = (exclusiveRunning /\ Done \cap wf.exclusive = {})
        /\ stopped' = (stopped \/ With("stop") # {})
        /\ cancelled' = (cancelled \/ With("cancelled") # {})
        /\ pc' = "poll"
        /\ UNCHANGED <<node, userPaused, rest, progress, stop, pause, overall>>

\* future.result() raises; leaving the pool waits for the nodes in flight.
CollectRaised ==
    /\ pc = "wait"
    /\ With("raised") # {}
    /\ pc' = "raise"
    /\ UNCHANGED <<node, ledger, rest, progress, stop, pause, overall>>

\* ExecutionManager._run ends a run whose scheduler raised.
Raise ==
    /\ pc = "raise"
    /\ Done = running
    /\ overall' = IF stop THEN "cancelled" ELSE "failed"
    /\ pc' = "ended"
    /\ UNCHANGED <<node, ledger, rest, progress, stop, pause>>

\* The resume state, then the document.
Rest(status) ==
    /\ overall' = status
    /\ pc' = "rest"
    /\ resume' = [node |-> approvalNode, statuses |-> statuses, outputs |-> outputs]

\* _enter_awaiting_approval
EnterApproval ==
    /\ pc = "leave"
    /\ approvalNode # NoNode /\ ~cancelled /\ ~stopped
    /\ Rest("awaiting_approval")
    /\ UNCHANGED <<node, ledger, wf, gates, approved, resumes, progress, stop, pause>>

Unfinished == completed # Nodes

\* _enter_user_pause
EnterPause ==
    /\ pc = "leave"
    /\ approvalNode = NoNode /\ userPaused /\ ~cancelled /\ ~stopped
    /\ Unfinished
    /\ Rest("paused")
    /\ UNCHANGED <<node, ledger, wf, gates, approved, resumes, progress, stop, pause>>

Handled == \E n \in errors : wf.policy[n] \in {"continue_error", "skip_optional"}

\* Mutant: a handled error outweighs the error that stopped the run.
VerdictUnstopped ==
    IF cancelled \/ stop THEN "cancelled"
    ELSE IF errors = {} THEN "succeeded"
    ELSE IF Handled THEN "partial" ELSE "failed"

\* The stop event is read once more.
Verdict ==
    IF cancelled \/ stop THEN "cancelled"
    ELSE IF errors = {} THEN "succeeded"
    ELSE IF Handled /\ ~stopped THEN "partial" ELSE "failed"

Conclude ==
    /\ pc = "leave"
    /\ \/ cancelled \/ stopped
       \/ approvalNode = NoNode /\ ~(userPaused /\ Unfinished)
    /\ overall' = Verdict
    /\ pc' = "ended"
    /\ UNCHANGED <<node, ledger, rest, progress, stop, pause>>

Coordinator ==
    \/ Poll \/ Skip \/ Submit \/ EndSubmit \/ Collect \/ CollectRaised \/ Raise
    \/ EnterApproval \/ EnterPause \/ Conclude

-----------------------------------------------------------------------------
(* _execute_node: the thread of node n.                                     *)

InFlight(n, step) == worker[n].pc = step /\ pc \notin {"rest", "ended"}
Go(n, step) == worker' = [worker EXCEPT ![n].pc = step]
\* _status, where it is the last thing the thread does.
Answer(n, status, outcome) ==
    /\ statuses' = [statuses EXCEPT ![n] = status]
    /\ worker' = [worker EXCEPT ![n] = [pc |-> "done", outcome |-> outcome]]
Produces(n) == IF n \in wf.branch THEN {{"out"}, {"alt"}} ELSE {{"out"}}
aside == <<ledger, rest, pc, progress, stop, pause, overall>>

CacheHit(n) ==
    /\ InFlight(n, "lookup")
    /\ n \in cache
    /\ \E ports \in Produces(n) : outputs' = [outputs EXCEPT ![n] = ports]
    /\ Answer(n, "succeeded", "ok")
    /\ UNCHANGED <<attempts, errors, cache, aside>>

CacheMiss(n) ==
    /\ InFlight(n, "lookup")
    /\ n \notin cache
    /\ Go(n, "attempt")
    /\ UNCHANGED <<statuses, outputs, attempts, errors, cache, aside>>

\* A configuration that does not resolve is raised to the coordinator.
Unresolved(n) ==
    /\ InFlight(n, "lookup")
    /\ n \in wf.expressions
    /\ worker' = [worker EXCEPT ![n] = [pc |-> "done", outcome |-> "raised"]]
    /\ UNCHANGED <<statuses, outputs, attempts, errors, cache, aside>>

Attempt(n) ==
    /\ InFlight(n, "attempt")
    /\ attempts[n] < MaxAttempts(n)
    /\ attempts' = [attempts EXCEPT ![n] = @ + 1]
    /\ statuses' = [statuses EXCEPT ![n] = "running"]
    /\ Go(n, "calling")
    /\ UNCHANGED <<outputs, errors, cache, aside>>

\* raise AssertionError("node attempt loop exited without a terminal outcome")
NoAttemptLeft(n) ==
    /\ InFlight(n, "attempt")
    /\ attempts[n] >= MaxAttempts(n)
    /\ worker' = [worker EXCEPT ![n] = [pc |-> "done", outcome |-> "raised"]]
    /\ UNCHANGED <<statuses, outputs, attempts, errors, cache, aside>>

Held(n) == n \in gates

\* The adapter returned and nobody asked to stop: outputs, cache, checkpoint.
Succeed(n) ==
    /\ InFlight(n, "calling")
    /\ ~stop
    /\ \E ports \in Produces(n) : outputs' = [outputs EXCEPT ![n] = ports]
    /\ cache' \in {cache, cache \cup ({n} \cap wf.cacheable)}
    /\ IF Held(n) THEN Answer(n, "awaiting_approval", "awaiting") ELSE Answer(n, "succeeded", "ok")
    /\ UNCHANGED <<attempts, errors, aside>>

\* A stop seen after the call, or an adapter that reports its own cancellation.
Cancel(n) ==
    /\ InFlight(n, "calling")
    /\ Answer(n, "cancelled", "cancelled")
    /\ UNCHANGED <<outputs, attempts, errors, cache, aside>>

\* The adapter asks for an approval; it has produced nothing.
Ask(n) ==
    /\ InFlight(n, "calling")
    /\ n \in wf.asks
    /\ Answer(n, "awaiting_approval", "awaiting")
    /\ UNCHANGED <<outputs, attempts, errors, cache, aside>>

\* Mutant: the last attempt is retried too.
RetryPastLast(n) ==
    /\ InFlight(n, "calling")
    /\ wf.policy[n] = "retry" /\ attempts[n] <= MaxAttempts(n)
    /\ Go(n, "backoff")
    /\ UNCHANGED <<statuses, outputs, attempts, errors, cache, aside>>

\* Whether the failure can be retried is the adapter's word.
Retry(n) ==
    /\ InFlight(n, "calling")
    /\ wf.policy[n] = "retry" /\ attempts[n] < MaxAttempts(n)
    /\ Go(n, "backoff")
    /\ UNCHANGED <<statuses, outputs, attempts, errors, cache, aside>>

Fail(n) ==
    /\ InFlight(n, "calling")
    /\ errors' = errors \cup {n}
    /\ CASE wf.policy[n] = "continue_error" ->
              Answer(n, "failed", "ok") /\ outputs' = [outputs EXCEPT ![n] = {"error"}]
         [] wf.policy[n] = "skip_optional" -> Answer(n, "skipped", "ok") /\ UNCHANGED outputs
         [] OTHER -> Answer(n, "failed", "stop") /\ UNCHANGED outputs
    /\ UNCHANGED <<attempts, cache, aside>>

Backoff(n) ==
    /\ InFlight(n, "backoff")
    /\ IF stop THEN Answer(n, "cancelled", "cancelled") ELSE Go(n, "attempt") /\ UNCHANGED statuses
    /\ UNCHANGED <<outputs, attempts, errors, cache, aside>>

NodeThread(n) ==
    \/ CacheHit(n) \/ CacheMiss(n) \/ Unresolved(n) \/ Attempt(n) \/ NoAttemptLeft(n)
    \/ Succeed(n) \/ Cancel(n) \/ Ask(n) \/ Retry(n) \/ Fail(n) \/ Backoff(n)

-----------------------------------------------------------------------------
(* The operator.                                                            *)

Stop ==
    /\ pc \notin {"rest", "ended"}
    /\ stop' = TRUE
    /\ UNCHANGED <<node, ledger, rest, pc, progress, pause, overall>>

Pause ==
    /\ pc \notin {"rest", "ended"}
    /\ pause' = TRUE
    /\ UNCHANGED <<node, ledger, rest, pc, progress, stop, overall>>

\* Mutant: a failed node is not restored.
SeededUnfailed(n) ==
    IF n = resume.node
    THEN IF resume.outputs[n] # {} THEN "succeeded" ELSE "idle"
    ELSE IF resume.statuses[n] \in Settled \ {"failed"} THEN resume.statuses[n] ELSE "idle"

\* Mutant: the approved node takes the status of its checkpoint.
SeededAsDecided(n) ==
    IF n = resume.node
    THEN IF resume.outputs[n] # {} THEN "approved" ELSE "idle"
    ELSE IF resume.statuses[n] \in Settled THEN resume.statuses[n] ELSE "idle"

\* _seed_from_resume: the approved node is done if it held outputs; every other
\* node is what it had settled to, or starts again.
Seeded(n) ==
    IF n = resume.node
    THEN IF resume.outputs[n] # {} THEN "succeeded" ELSE "idle"
    ELSE IF resume.statuses[n] \in Settled THEN resume.statuses[n] ELSE "idle"

\* Mutant: the error port of a handled failure is not restored.
SeededOutputsOfSuccess(n) ==
    IF Seeded(n) \in {"succeeded", "skipped"} THEN resume.outputs[n] ELSE {}

SeededOutputs(n) == IF Seeded(n) \in Settled THEN resume.outputs[n] ELSE {}

\* Mutant: an approval clears the list of checkpoints.
NoGatesLeft == gates \cap {resume.node}

\* The approved node is dropped from extensions.approval_checkpoints.
GatesLeft == gates \ {resume.node}

\* approve or resume, and the start of the next run of the same execution.
Resume ==
    LET done == {n \in Nodes : Seeded(n) \in Settled}
        left == [n \in Nodes |-> IF n \in done THEN 0 ELSE Cardinality(InFrom(n, Nodes \ done))]
    IN  /\ pc = "rest"
        /\ resumes < MaxResumes
        /\ resumes' = resumes + 1
        /\ approved' = approved \cup ({resume.node} \ {NoNode})
        /\ gates' = GatesLeft
        /\ statuses' = [n \in Nodes |-> Seeded(n)]
        /\ outputs' = [n \in Nodes |-> SeededOutputs(n)]
        /\ errors' = {}
        /\ completed' = done
        /\ remaining' = left
        /\ ready' = Roots(done, left)
        /\ running' = {} /\ worker' = IdleWorkers
        /\ exclusiveRunning' = FALSE
        /\ stopped' = FALSE /\ cancelled' = FALSE /\ userPaused' = FALSE
        /\ approvalNode' = NoNode
        /\ pc' = "poll" /\ progress' = FALSE
        /\ stop' = FALSE /\ pause' = FALSE
        /\ overall' = "running"
        /\ UNCHANGED <<wf, attempts, cache, resume>>

Next == Coordinator \/ (\E n \in Nodes : NodeThread(n)) \/ Stop \/ Pause \/ Resume

Spec == Init /\ [][Next]_vars

\* The threads run and every call ends; the operator owes nothing.
Fairness == WF_vars(Coordinator) /\ \A n \in Nodes : WF_vars(NodeThread(n))

FairSpec == Spec /\ Fairness

-----------------------------------------------------------------------------
(* Properties.                                                              *)

\* The books of the coordinator are exact, over skips, batches of results and
\* resumes: a node waits for as many connections as have an unfinished source, and
\* is ready exactly when it waits for none (finish, _seed_from_resume).
LedgerExact ==
    /\ \A n \in Nodes \ completed :
         remaining[n] = Cardinality(InFrom(n, (Nodes \ completed) \cup {approvalNode}))
    /\ ready = {n \in Nodes \ (completed \cup running) : remaining[n] = 0}

\* What a node ran on stays true: while it runs, and once it has succeeded, every
\* connection it needs is active and its value is there, even in the record of a
\* run that was paused and continued (_resolve_inputs, _seed_from_resume).
InputsReady ==
    \A n \in running \cup {m \in Nodes \ wf.preseeded : statuses[m] = "succeeded"} : IncomingActive(n)

\* A node that cannot share the pool runs alone, and nothing runs beside the first
\* node of a run ("establish the first root successfully before opening the pool").
RunsAlone ==
    \A m, n \in running : m # n => m \notin wf.exclusive /\ completed # {}

\* Nothing downstream of a configured checkpoint runs before the node that holds
\* there is approved, unless the node itself was skipped, failed or replayed from
\* an earlier run (_execute_node, _decide_and_resume).
GateHolds ==
    \A e \in wf.edges :
      /\ e.from \in wf.gates \ wf.cached
      /\ attempts[e.to] > 0
      => e.from \in approved \/ statuses[e.from] \in {"skipped", "failed"}

\* Work that is done is kept: a completed node that settled never changes its
\* status and is never attempted again, whatever pauses and resumes follow.
SettledIsFinal ==
    [][\A n \in completed : statuses[n] \in Settled =>
         statuses'[n] = statuses[n] /\ attempts'[n] = attempts[n]]_vars

\* A run that reports success, in part or in full, left nothing undone, awaits
\* nothing, and hides no error its policy does not handle.
SuccessIsComplete ==
    overall \in {"succeeded", "partial"} =>
      /\ completed = Nodes
      /\ \A n \in Nodes : \/ statuses[n] \in {"succeeded", "skipped"}
                          \/ statuses[n] = "failed" /\ wf.policy[n] = "continue_error"

\* Only a node that was put back by an approval can be out of attempts, as long as no
\* two checkpoints hold at once (the attempt loop of _execute_node).
OnlyAskersRunOut ==
    \A n \in Nodes : worker[n].pc = "attempt" /\ attempts[n] >= MaxAttempts(n) => n \in wf.asks

\* The loop never hangs: a run comes to rest or ends.
RunEnds == pc \notin {"rest", "ended"} ~> pc \in {"rest", "ended"}
=============================================================================

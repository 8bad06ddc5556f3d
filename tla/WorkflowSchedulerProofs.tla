---------------------- MODULE WorkflowSchedulerProofs ----------------------
(***************************************************************************)
(* What holds of WorkflowScheduler for every set of workflows, any number  *)
(* of nodes, any size of the node pool and any number of resumes, however  *)
(* the node threads, the coordinator and the operator interleave.          *)
(***************************************************************************)
EXTENDS WorkflowScheduler, FiniteSetTheorems, WellFoundedInduction, TLAPS

-----------------------------------------------------------------------------
(* The nodes and connections of a workflow.                                 *)

\* The first of some nodes in saved order.
LEMMA LeastNode ==
    ASSUME NEW S \in SUBSET Nodes, S # {}
    PROVE  Min(S) \in S /\ \A m \in S : Min(S) <= m
<1>1. S \subseteq Nat
    BY NodesAssumption
<1> DEFINE R == OpToRel(<, Nat)
<1>2. IsWellFoundedOn(R, Nat)
    BY NatLessThanWellFounded
<1> HIDE DEF R
<1>3. \E x \in S : \A y \in S : ~ (<<y, x>> \in R)
    BY <1>1, <1>2, WFMin
<1>4. \A x, y \in Nat : y < x => <<y, x>> \in R
    BY DEF R, OpToRel
<1>5. \E x \in S : \A y \in S : x <= y
  <2>1. PICK x \in S : \A y \in S : ~ (<<y, x>> \in R)
      BY <1>3
  <2>2. \A y \in S : x \in Nat /\ y \in Nat /\ ~(y < x)
      BY <1>1, <1>4, <2>1
  <2> QED BY <2>2
<1> QED BY <1>5 DEF Min

\* There are finitely many connections.
LEMMA EdgesFinite == IsFiniteSet(EdgeRecord)
<1>1. IsFiniteSet(Ports)
  <2>1. IsFiniteSet({"out"} \cup {"alt"})
      BY FS_Singleton, FS_Union
  <2>2. IsFiniteSet(({"out"} \cup {"alt"}) \cup {"error"})
      BY <2>1, FS_Singleton, FS_Union
  <2> QED BY <2>2, Zenon DEF Ports
<1>2. IsFiniteSet((Nodes \X Ports) \X Nodes)
    BY <1>1, NodesAssumption, FS_Product
<1> DEFINE f == [e \in EdgeRecord |-> <<<<e.from, e.port>>, e.to>>]
<1>3. f \in Injection(EdgeRecord, (Nodes \X Ports) \X Nodes)
  <2>1. f \in [EdgeRecord -> (Nodes \X Ports) \X Nodes]
      BY DEF EdgeRecord
  <2>2. ASSUME NEW a \in EdgeRecord, NEW b \in EdgeRecord, f[a] = f[b]
        PROVE  a = b
      BY <2>2 DEF EdgeRecord
  <2> QED BY <2>1, <2>2 DEF Injection, IsInjective
<1> QED BY <1>2, <1>3, FS_Injection

\* What a workflow is.
LEMMA WorkflowFields ==
    ASSUME NEW w \in Workflows
    PROVE  /\ w.edges \subseteq EdgeRecord
           /\ w.policy \in [Nodes -> Policies] /\ w.tries \in Nat \ {0}
           /\ w.exclusive \subseteq Nodes /\ w.preseeded \subseteq Nodes
           /\ w.gates \subseteq Nodes /\ w.cacheable \subseteq Nodes /\ w.cached \subseteq Nodes
BY WorkflowsAssumption DEF WorkflowRecord

\* Counting connections.
LEMMA EdgesCount ==
    ASSUME NEW w \in Workflows, NEW T \in SUBSET w.edges
    PROVE  IsFiniteSet(T) /\ Cardinality(T) \in Nat /\ (Cardinality(T) = 0 <=> T = {})
<1>1. T \in SUBSET EdgeRecord
    BY WorkflowFields
<1> QED BY <1>1, EdgesFinite, FS_Subset, FS_CardinalityType, FS_EmptySet

\* A number of connections that lead to a node.
LEMMA InFromCount ==
    ASSUME wf \in Workflows, NEW n, NEW S
    PROVE  /\ InFrom(n, S) \subseteq wf.edges
           /\ IsFiniteSet(InFrom(n, S)) /\ Cardinality(InFrom(n, S)) \in Nat
           /\ Cardinality(InFrom(n, S)) = 0 <=> InFrom(n, S) = {}
<1>1. InFrom(n, S) \subseteq wf.edges
    BY DEF InFrom, Into
<1> HIDE DEF InFrom
<1> QED BY <1>1, EdgesCount

-----------------------------------------------------------------------------
(* Types.                                                                   *)

\* A new run is typed.
LEMMA InitTyped == Init => TypeOK
<1> SUFFICES ASSUME Init PROVE TypeOK
    OBVIOUS
<1>1. wf \in Workflows
    BY DEF Init
<1>2. /\ wf.preseeded \subseteq Nodes /\ wf.gates \subseteq Nodes /\ wf.cached \subseteq Nodes
    BY <1>1, WorkflowFields
<1>3. PreseededCounts(wf) \in [Nodes -> Int]
  <2>1. \A n \in Nodes : Cardinality({e \in wf.edges : e.to = n /\ e.from \notin wf.preseeded}) \in Int
    <3> TAKE n \in Nodes
    <3> DEFINE T == {e \in wf.edges : e.to = n /\ e.from \notin wf.preseeded}
    <3>1. T \in SUBSET wf.edges
        OBVIOUS
    <3> HIDE DEF T
    <3>2. Cardinality(T) \in Int
        BY <1>1, <3>1, EdgesCount
    <3> QED BY <3>2 DEF T
  <2> QED BY <2>1 DEF PreseededCounts
<1>4. statuses \in [Nodes -> NodeStatuses] /\ outputs \in [Nodes -> SUBSET Ports]
    BY DEF Init, NodeStatuses, Settled, Ports
<1>5. /\ attempts \in [Nodes -> Nat] /\ errors \subseteq Nodes /\ remaining \in [Nodes -> Int]
      /\ completed \subseteq Nodes /\ ready \subseteq Nodes /\ running \subseteq Nodes
      /\ cache \subseteq Nodes /\ gates \subseteq Nodes /\ approved \subseteq Nodes
    BY <1>2, <1>3 DEF Init, Roots
<1>6. worker \in [Nodes -> [pc : {"idle", "lookup", "attempt", "calling", "backoff", "done"},
                             outcome : Outcomes]]
    BY DEF Init, IdleWorkers, Outcomes
<1>7. /\ {exclusiveRunning, stopped, cancelled, userPaused, progress, stop, pause} \subseteq BOOLEAN
      /\ approvalNode \in Nodes \cup {NoNode}
      /\ pc \in {"poll", "submit", "wait", "leave", "raise", "rest", "ended"}
      /\ overall \in {"running"} \cup Resting \cup Ended
      /\ resumes \in 0..MaxResumes
  <2>1. \A b \in {exclusiveRunning, stopped, cancelled, userPaused, progress, stop, pause} : b = FALSE
      BY Zenon DEF Init
  <2>2. {exclusiveRunning, stopped, cancelled, userPaused, progress, stop, pause} \subseteq BOOLEAN
      BY <2>1, Zenon
  <2>3. resumes \in 0..MaxResumes
      BY LimitsAssumption DEF Init
  <2> QED BY <2>2, <2>3, Zenon DEF Init
<1>8. resume \in [node : Nodes \cup {NoNode}, statuses : [Nodes -> NodeStatuses],
                  outputs : [Nodes -> SUBSET Ports]]
  <2>1. resume = [node |-> NoNode, statuses |-> statuses, outputs |-> outputs]
      BY DEF Init
  <2> QED BY <1>4, <2>1
<1> QED BY <1>1, <1>4, <1>5, <1>6, <1>7, <1>8 DEF TypeOK

\* A node that finished leaves the books typed.
LEMMA FinishTyped ==
    ASSUME TypeOK, NEW finished \in SUBSET Nodes, NEW done \in SUBSET Nodes, Finish(finished, done)
    PROVE  completed' \subseteq Nodes /\ remaining' \in [Nodes -> Int] /\ ready' \subseteq Nodes
<1>1. \A n \in Nodes : Cardinality(InFrom(n, finished)) \in Nat
    BY InFromCount DEF TypeOK
<1>2. remaining' \in [Nodes -> Int]
    BY <1>1 DEF Finish, TypeOK
<1> QED BY <1>2 DEF Finish, TypeOK

\* The coordinator keeps every type.
LEMMA CoordinatorTyped ==
    ASSUME TypeOK, Coordinator
    PROVE  TypeOK'
<1>1. CASE Poll
    BY <1>1 DEF Poll, TypeOK, node, rest
<1>2. CASE Skip \/ Submit
  <2>1. NextReady \in Nodes
      BY <1>2, LeastNode DEF Skip, Submit, Admits, NextReady, TypeOK
  <2>2. CASE Skip
    <3>1. completed' \subseteq Nodes /\ remaining' \in [Nodes -> Int] /\ ready' \subseteq Nodes
        BY <2>1, <2>2, FinishTyped DEF Skip
    <3>2. statuses' \in [Nodes -> NodeStatuses]
        BY <2>1, <2>2 DEF Skip, TypeOK, NodeStatuses, Settled
    <3> QED BY <2>2, <3>1, <3>2 DEF Skip, TypeOK, rest
  <2>3. CASE Submit
    <3>1. worker' \in [Nodes -> [pc : {"idle", "lookup", "attempt", "calling", "backoff", "done"},
                                  outcome : Outcomes]]
        BY <2>1, <2>3 DEF Submit, TypeOK, Outcomes
    <3>2. ready' \subseteq Nodes /\ running' \subseteq Nodes /\ exclusiveRunning' \in BOOLEAN /\ progress' \in BOOLEAN
        BY <2>1, <2>3 DEF Submit, TypeOK
    <3> QED BY <2>3, <3>1, <3>2 DEF Submit, TypeOK, rest
  <2> QED BY <1>2, <2>2, <2>3
<1>3. CASE EndSubmit \/ CollectRaised \/ Conclude \/ Raise
  <2>1. Verdict \in Ended
      BY DEF Verdict, Ended
  <2> QED BY <1>3, <2>1 DEF EndSubmit, CollectRaised, Conclude, Raise, TypeOK, node, ledger, rest, Ended
<1>4. CASE Collect
  <2>1. Done \subseteq Nodes /\ With("awaiting") \subseteq Done
      BY DEF Done, With, TypeOK
  <2>2. With("awaiting") # {} => Min(With("awaiting")) \in With("awaiting")
      BY <2>1, LeastNode
  <2>3. PICK held \in SUBSET Done : Finish(Done \ held, Done)
      BY <1>4, <2>2, <2>1 DEF Collect
  <2>4. completed' \subseteq Nodes /\ remaining' \in [Nodes -> Int] /\ ready' \subseteq Nodes
      BY <2>1, <2>3, FinishTyped
  <2>5. approvalNode' \in Nodes \cup {NoNode}
      BY <1>4, <2>1, <2>2 DEF Collect, TypeOK
  <2>6. running' \subseteq Nodes /\ exclusiveRunning' \in BOOLEAN /\ stopped' \in BOOLEAN /\ cancelled' \in BOOLEAN
      BY <1>4 DEF Collect, TypeOK
  <2> QED BY <1>4, <2>4, <2>5, <2>6 DEF Collect, TypeOK, node, rest
<1>5. CASE EnterApproval \/ EnterPause
  <2>1. resume' \in [node : Nodes \cup {NoNode}, statuses : [Nodes -> NodeStatuses],
                     outputs : [Nodes -> SUBSET Ports]]
      BY <1>5 DEF EnterApproval, EnterPause, Rest, TypeOK
  <2> QED BY <1>5, <2>1 DEF EnterApproval, EnterPause, Rest, TypeOK, node, ledger, Resting
<1> QED BY <1>1, <1>2, <1>3, <1>4, <1>5 DEF Coordinator

\* The thread of a node writes what concerns its node.
LEMMA NodeTyped ==
    ASSUME TypeOK, NEW n \in Nodes, NodeThread(n)
    PROVE  TypeOK'
<1> DEFINE Workers == [Nodes -> [pc : {"idle", "lookup", "attempt", "calling", "backoff", "done"},
                                 outcome : Outcomes]]
<1>1. \A s \in NodeStatuses, o \in Outcomes :
        Answer(n, s, o) => statuses' \in [Nodes -> NodeStatuses] /\ worker' \in Workers
    BY DEF Answer, TypeOK
<1>2. \A c \in {"attempt", "calling", "backoff"} : Go(n, c) => worker' \in Workers
    BY DEF Go, TypeOK
<1>3. \A o \in Outcomes :
        worker' = [worker EXCEPT ![n] = [pc |-> "done", outcome |-> o]] => worker' \in Workers
    BY DEF TypeOK
<1>4. \A p \in Produces(n) : p \in SUBSET Ports
    BY DEF Produces, Ports
<1>5. \A p \in SUBSET Ports : outputs' = [outputs EXCEPT ![n] = p] => outputs' \in [Nodes -> SUBSET Ports]
    BY DEF TypeOK
<1>6. {"ok", "stop", "cancelled", "awaiting", "raised"} \subseteq Outcomes
      /\ {"succeeded", "skipped", "failed", "cancelled", "awaiting_approval", "running"} \subseteq NodeStatuses
      /\ {"error"} \in SUBSET Ports
    BY DEF Outcomes, NodeStatuses, Settled, Ports
<1>7. UNCHANGED aside
    BY DEF NodeThread, CacheHit, CacheMiss, Unresolved, Attempt, NoAttemptLeft, Succeed, Cancel, Ask, Retry,
           Fail, Backoff
<1> HIDE DEF Workers
<1>8. statuses' \in [Nodes -> NodeStatuses] /\ worker' \in Workers
  <2>1. CASE CacheHit(n)
      BY <1>1, <1>6, <2>1 DEF CacheHit
  <2>2. CASE CacheMiss(n) \/ Retry(n)
      BY <1>2, <2>2 DEF CacheMiss, Retry, TypeOK
  <2>3. CASE Unresolved(n) \/ NoAttemptLeft(n)
      BY <1>3, <1>6, <2>3 DEF Unresolved, NoAttemptLeft, TypeOK
  <2>4. CASE Attempt(n)
      BY <1>2, <1>6, <2>4 DEF Attempt, TypeOK
  <2>5. CASE Succeed(n)
      BY <1>1, <1>6, <2>5 DEF Succeed
  <2>6. CASE Cancel(n) \/ Ask(n)
      BY <1>1, <1>6, <2>6 DEF Cancel, Ask
  <2>7. CASE Fail(n)
      BY <1>1, <1>6, <2>7 DEF Fail
  <2>8. CASE Backoff(n)
      BY <1>1, <1>2, <1>6, <2>8 DEF Backoff, TypeOK
  <2> QED BY <2>1, <2>2, <2>3, <2>4, <2>5, <2>6, <2>7, <2>8 DEF NodeThread
<1>9. outputs' \in [Nodes -> SUBSET Ports]
  <2>1. CASE CacheHit(n)
      BY <1>4, <1>5, <2>1 DEF CacheHit
  <2>2. CASE Succeed(n)
      BY <1>4, <1>5, <2>2 DEF Succeed
  <2>3. CASE Fail(n)
      BY <1>5, <1>6, <2>3 DEF Fail, TypeOK
  <2>4. CASE outputs' = outputs
      BY <2>4 DEF TypeOK
  <2> QED BY <2>1, <2>2, <2>3, <2>4 DEF NodeThread, CacheMiss, Unresolved, Attempt, NoAttemptLeft, Cancel,
          Ask, Retry, Backoff
<1>10. attempts' \in [Nodes -> Nat]
  <2>1. CASE Attempt(n)
      BY <2>1 DEF Attempt, TypeOK
  <2>2. CASE attempts' = attempts
      BY <2>2 DEF TypeOK
  <2> QED BY <2>1, <2>2 DEF NodeThread, CacheHit, CacheMiss, Unresolved, NoAttemptLeft, Succeed, Cancel,
          Ask, Retry, Fail, Backoff
<1>11. errors' \subseteq Nodes /\ cache' \subseteq Nodes
  <2>1. errors' = errors \/ errors' = errors \cup {n}
      BY DEF NodeThread, CacheHit, CacheMiss, Unresolved, Attempt, NoAttemptLeft, Succeed, Cancel, Ask, Retry,
             Fail, Backoff
  <2>2. cache' \in {cache, cache \cup ({n} \cap wf.cacheable)}
      BY DEF NodeThread, CacheHit, CacheMiss, Unresolved, Attempt, NoAttemptLeft, Succeed, Cancel, Ask, Retry,
             Fail, Backoff
  <2> QED BY <2>1, <2>2 DEF TypeOK
<1> QED BY <1>7, <1>8, <1>9, <1>10, <1>11 DEF aside, ledger, rest, TypeOK, Workers

\* What a resume seeds is typed.
LEMMA ResumeTyped ==
    ASSUME TypeOK, Resume
    PROVE  TypeOK'
<1> DEFINE done == {n \in Nodes : Seeded(n) \in Settled}
           left == [n \in Nodes |-> IF n \in done THEN 0 ELSE Cardinality(InFrom(n, Nodes \ done))]
<1>1. \A n \in Nodes : Seeded(n) \in NodeStatuses
    BY DEF Seeded, NodeStatuses, Settled
<1>2. \A n \in Nodes : SeededOutputs(n) \in SUBSET Ports
    BY DEF SeededOutputs, TypeOK
<1>3. left \in [Nodes -> Int]
  <2>1. \A n \in Nodes : Cardinality(InFrom(n, Nodes \ done)) \in Nat
      BY InFromCount DEF TypeOK
  <2> HIDE DEF done
  <2> QED BY <2>1
<1>4. /\ statuses' = [n \in Nodes |-> Seeded(n)] /\ outputs' = [n \in Nodes |-> SeededOutputs(n)]
      /\ completed' = done /\ remaining' = left /\ ready' = Roots(done, left)
      /\ running' = {} /\ errors' = {} /\ worker' = IdleWorkers
      /\ gates' = GatesLeft /\ approved' = approved \cup ({resume.node} \ {NoNode})
      /\ resumes < MaxResumes /\ resumes' = resumes + 1
    BY DEF Resume
<1>5. /\ statuses' \in [Nodes -> NodeStatuses] /\ outputs' \in [Nodes -> SUBSET Ports]
      /\ remaining' \in [Nodes -> Int]
    BY <1>1, <1>2, <1>3, <1>4
<1>6. /\ completed' \subseteq Nodes /\ ready' \subseteq Nodes /\ running' \subseteq Nodes /\ errors' \subseteq Nodes
      /\ gates' \subseteq Nodes /\ approved' \subseteq Nodes /\ resumes' \in 0..MaxResumes
    BY <1>4, LimitsAssumption DEF Roots, GatesLeft, TypeOK
<1>7. worker' \in [Nodes -> [pc : {"idle", "lookup", "attempt", "calling", "backoff", "done"},
                              outcome : Outcomes]]
    BY <1>4 DEF IdleWorkers, Outcomes
<1> QED BY <1>5, <1>6, <1>7 DEF Resume, TypeOK

\* Types are inductive.
LEMMA NextTyped == TypeOK /\ [Next]_vars => TypeOK'
<1> SUFFICES ASSUME TypeOK, [Next]_vars PROVE TypeOK'
    OBVIOUS
<1>1. CASE UNCHANGED vars
    BY <1>1 DEF vars, node, ledger, rest, TypeOK
<1>2. CASE Stop \/ Pause
    BY <1>2 DEF Stop, Pause, node, ledger, rest, TypeOK
<1> QED BY <1>1, <1>2, CoordinatorTyped, NodeTyped, ResumeTyped DEF Next

\* Types hold in every reachable state.
LEMMA AlwaysTyped == Spec => []TypeOK
BY InitTyped, NextTyped, PTL DEF Spec

\* Every variable of the scheduler keeps its type, over all pauses and resumes.
THEOREM TypeCorrect == Spec => []TypeOK
BY AlwaysTyped

-----------------------------------------------------------------------------
(* The coordinator's books.                                                 *)

\* A node in flight is not completed and waits for nothing.
InFlightApart == running \cap completed = {} /\ \A n \in running : remaining[n] = 0

\* Only the threads of nodes in flight are at work.
ThreadsInFlight == \A n \in Nodes : worker[n].pc \notin {"idle", "done"} => n \in running

\* A node that awaits approval is recorded as such: its thread says so, and then
\* the coordinator, which counts the one it holds as completed.
AwaitingRecorded ==
    /\ \A n \in running : worker[n].pc = "done" /\ worker[n].outcome = "awaiting" =>
         statuses[n] = "awaiting_approval"
    /\ approvalNode # NoNode => approvalNode \in completed /\ statuses[approvalNode] = "awaiting_approval"

ExclusiveKnown == running \cap wf.exclusive # {} => exclusiveRunning

\* A run that rests has written where it stands.
RestWritten ==
    pc = "rest" => resume = [node |-> approvalNode, statuses |-> statuses, outputs |-> outputs]

Books == TypeOK /\ InFlightApart /\ ThreadsInFlight /\ AwaitingRecorded /\ RestWritten
Sound == Books /\ ExclusiveKnown /\ RunsAlone /\ LedgerExact

\* When nodes finish, each connection that counted before counts still or leads from
\* one of them; the node that is held for an approval goes on counting.
LEMMA FinishExact ==
    ASSUME TypeOK, LedgerExact, InFlightApart, approvalNode # NoNode => approvalNode \in completed,
           NEW done \in SUBSET (running \cup ready), NEW held \in SUBSET done,
           Finish(done \ held, done),
           \/ held = {} /\ approvalNode' = approvalNode
           \/ approvalNode = NoNode /\ held = {approvalNode'},
           wf' = wf, running' = running \ done
    PROVE  LedgerExact' /\ InFlightApart'
<1> DEFINE Open(n) == InFrom(n, (Nodes \ completed) \cup {approvalNode})
           Left(n) == InFrom(n, (Nodes \ completed') \cup {approvalNode'})
           Gone(n) == InFrom(n, done \ held)
<1>1. /\ ready = {n \in Nodes \ (completed \cup running) : remaining[n] = 0}
      /\ running \subseteq Nodes /\ running \cap completed = {} /\ completed \subseteq Nodes
      /\ wf \in Workflows /\ remaining \in [Nodes -> Int]
      /\ \A n \in Nodes \ completed : remaining[n] = Cardinality(Open(n))
      /\ \A n \in running : remaining[n] = 0
    BY DEF TypeOK, LedgerExact, InFlightApart
<1>2. done \subseteq Nodes /\ done \cap completed = {} /\ completed' = completed \cup done
    BY <1>1 DEF Finish
<1>3. ASSUME NEW n \in Nodes
      PROVE  Open(n) = Left(n) \cup Gone(n) /\ Left(n) \cap Gone(n) = {}
  <2>1. \A e \in wf.edges : e.from \in Nodes
      BY <1>1, WorkflowFields DEF EdgeRecord
  <2>2. NoNode \notin Nodes
      BY NodesAssumption DEF NoNode
  <2>3. \A x \in Nodes : (x \in (Nodes \ completed) \cup {approvalNode}) <=>
                            (x \in ((Nodes \ completed') \cup {approvalNode'}) \cup (done \ held))
      BY <1>2, <2>2
  <2>4. ((Nodes \ completed') \cup {approvalNode'}) \cap (done \ held) \cap Nodes = {}
      BY <1>2, <2>2
  <2> QED BY <2>1, <2>3, <2>4 DEF InFrom, Into
<1>4. ASSUME NEW n \in Nodes
      PROVE  /\ Cardinality(Open(n)) = Cardinality(Left(n)) + Cardinality(Gone(n))
             /\ Cardinality(Left(n)) \in Nat /\ Cardinality(Gone(n)) \in Nat
             /\ Cardinality(Gone(n)) = 0 <=> Gone(n) = {}
  <2>1. /\ IsFiniteSet(Left(n)) /\ Cardinality(Left(n)) \in Nat
        /\ IsFiniteSet(Gone(n)) /\ Cardinality(Gone(n)) \in Nat
        /\ Cardinality(Gone(n)) = 0 <=> Gone(n) = {}
      BY <1>1, InFromCount
  <2>2. Open(n) = Left(n) \cup Gone(n) /\ Left(n) \cap Gone(n) = {}
      BY <1>3
  <2> HIDE DEF Open, Left, Gone
  <2>3. Cardinality(Open(n)) = Cardinality(Left(n)) + Cardinality(Gone(n)) - 0
      BY <2>1, <2>2, FS_Union, FS_EmptySet
  <2> QED BY <2>1, <2>3
<1>5. /\ \A n \in Nodes : remaining'[n] = remaining[n] - Cardinality(Gone(n))
      /\ ready' = (ready \ done) \cup {n \in Nodes \ completed' : remaining'[n] = 0 /\ Gone(n) # {}}
    BY <1>1 DEF Finish
<1>6. \A n \in Nodes : Left(n) = InFrom(n, (Nodes \ completed) \cup {approvalNode})'
    BY DEF InFrom, Into
<1> HIDE DEF Open, Left, Gone
<1>7. \A n \in Nodes \ completed' : remaining'[n] = Cardinality(Left(n))
    BY <1>1, <1>2, <1>4, <1>5
<1>8. \A n \in running' : remaining'[n] = 0 /\ Gone(n) = {} /\ n \notin completed'
    BY <1>1, <1>2, <1>4, <1>5
<1>9. ready' = {n \in Nodes \ (completed' \cup running') : remaining'[n] = 0}
  <2>1. ASSUME NEW n \in ready'
        PROVE  n \in Nodes \ (completed' \cup running') /\ remaining'[n] = 0
    <3>1. CASE n \in ready \ done
        BY <1>1, <1>2, <1>4, <1>5, <1>7, <3>1
    <3>2. CASE n \in Nodes \ completed' /\ remaining'[n] = 0 /\ Gone(n) # {}
        BY <1>8, <3>2
    <3> QED BY <1>5, <2>1, <3>1, <3>2
  <2>2. ASSUME NEW n \in Nodes \ (completed' \cup running'), remaining'[n] = 0
        PROVE  n \in ready'
    <3>1. CASE Gone(n) # {}
        BY <1>5, <2>2, <3>1
    <3>2. CASE Gone(n) = {}
        BY <1>1, <1>2, <1>4, <1>5, <2>2, <3>2
    <3> QED BY <3>1, <3>2
  <2> QED BY <2>1, <2>2
<1>10. LedgerExact'
    BY <1>6, <1>7, <1>9 DEF LedgerExact
<1> QED BY <1>8, <1>10 DEF InFlightApart

\* What the thread of a node changes: what is recorded of its own node, in flight.
LEMMA ThreadWrites ==
    ASSUME TypeOK, NEW n \in Nodes, NodeThread(n)
    PROVE  /\ worker[n].pc \notin {"idle", "done"} /\ pc \notin {"rest", "ended"}
           /\ UNCHANGED aside
           /\ \A m \in Nodes \ {n} : /\ worker'[m] = worker[m] /\ statuses'[m] = statuses[m]
                                     /\ attempts'[m] = attempts[m]
           /\ worker'[n].pc = "done" /\ worker'[n].outcome = "awaiting" => statuses'[n] = "awaiting_approval"
<1>1. /\ statuses \in [Nodes -> NodeStatuses] /\ attempts \in [Nodes -> Nat]
      /\ worker \in [Nodes -> [pc : {"idle", "lookup", "attempt", "calling", "backoff", "done"},
                                outcome : Outcomes]]
    BY DEF TypeOK
<1>2. UNCHANGED aside
    BY DEF NodeThread, CacheHit, CacheMiss, Unresolved, Attempt, NoAttemptLeft, Succeed, Cancel, Ask, Retry,
           Fail, Backoff
<1>3. worker[n].pc \notin {"idle", "done"} /\ pc \notin {"rest", "ended"}
    BY DEF NodeThread, CacheHit, CacheMiss, Unresolved, Attempt, NoAttemptLeft, Succeed, Cancel, Ask, Retry,
           Fail, Backoff, InFlight
<1>4. attempts' = attempts \/ attempts' = [attempts EXCEPT ![n] = @ + 1]
    BY DEF NodeThread, CacheHit, CacheMiss, Unresolved, Attempt, NoAttemptLeft, Succeed, Cancel, Ask, Retry,
           Fail, Backoff
<1> DEFINE Own == /\ \A m \in Nodes \ {n} : worker'[m] = worker[m] /\ statuses'[m] = statuses[m]
                  /\ worker'[n].pc = "done" /\ worker'[n].outcome = "awaiting" =>
                       statuses'[n] = "awaiting_approval"
<1>5. \A st, o : Answer(n, st, o) /\ (o = "awaiting" => st = "awaiting_approval") => Own
    BY <1>1 DEF Answer
<1>6. \A c, st : /\ Go(n, c) /\ c # "done"
                 /\ statuses' = statuses \/ statuses' = [statuses EXCEPT ![n] = st]
                 => Own
    BY <1>1 DEF Go
<1>7. \A o : /\ worker' = [worker EXCEPT ![n] = [pc |-> "done", outcome |-> o]]
             /\ o # "awaiting" /\ statuses' = statuses
             => Own
    BY <1>1
<1> HIDE DEF Own
<1>8. Own
  <2>1. CASE CacheHit(n)
      BY <1>5, <2>1 DEF CacheHit
  <2>2. CASE CacheMiss(n) \/ Retry(n) \/ Attempt(n)
      BY <1>6, <2>2 DEF CacheMiss, Retry, Attempt
  <2>3. CASE Unresolved(n) \/ NoAttemptLeft(n)
      BY <1>7, <2>3 DEF Unresolved, NoAttemptLeft
  <2>4. CASE Succeed(n)
      BY <1>5, <2>4 DEF Succeed
  <2>5. CASE Cancel(n) \/ Ask(n)
      BY <1>5, <2>5 DEF Cancel, Ask
  <2>6. CASE Fail(n)
    <3>1. Answer(n, "failed", "ok") \/ Answer(n, "skipped", "ok") \/ Answer(n, "failed", "stop")
        BY <2>6 DEF Fail
    <3> QED BY <1>5, <3>1
  <2>7. CASE Backoff(n)
      BY <1>5, <1>6, <2>7 DEF Backoff
  <2> QED BY <2>1, <2>2, <2>3, <2>4, <2>5, <2>6, <2>7 DEF NodeThread
<1> QED BY <1>1, <1>2, <1>3, <1>4, <1>8 DEF Own

\* The books of a new run are exact, preseeded nodes counted as done.
LEMMA InitSound == Init => Sound
<1> SUFFICES ASSUME Init PROVE Sound
    OBVIOUS
<1>1. TypeOK
    BY InitTyped
<1>2. InFlightApart /\ ExclusiveKnown /\ RunsAlone /\ RestWritten
    BY DEF Init, InFlightApart, ExclusiveKnown, RunsAlone, RestWritten
<1>3. ThreadsInFlight /\ AwaitingRecorded
    BY DEF Init, ThreadsInFlight, AwaitingRecorded, IdleWorkers
<1>4. LedgerExact
  <2>1. ASSUME NEW n \in Nodes
        PROVE  {e \in wf.edges : e.to = n /\ e.from \notin wf.preseeded}
                 = InFrom(n, (Nodes \ completed) \cup {approvalNode})
    <3>1. \A e \in wf.edges : e.from \in Nodes
        BY WorkflowFields DEF Init, EdgeRecord
    <3>2. approvalNode \notin Nodes /\ completed = wf.preseeded
        BY NodesAssumption DEF Init, NoNode
    <3> QED BY <3>1, <3>2 DEF InFrom, Into
  <2>2. \A n \in Nodes : remaining[n] = Cardinality(InFrom(n, (Nodes \ completed) \cup {approvalNode}))
      BY <2>1 DEF Init, PreseededCounts
  <2>3. ready = {n \in Nodes \ (completed \cup running) : remaining[n] = 0}
      BY DEF Init, Roots
  <2> QED BY <2>2, <2>3 DEF LedgerExact
<1> QED BY <1>1, <1>2, <1>3, <1>4 DEF Sound, Books

\* The turns of the loop that move no node.
LEMMA TurnSound ==
    ASSUME Sound, Poll \/ EndSubmit \/ CollectRaised \/ Raise \/ Conclude \/ EnterApproval \/ EnterPause
    PROVE  Sound'
<1>1. TypeOK'
    BY CoordinatorTyped DEF Coordinator, Sound, Books
<1>2. UNCHANGED <<node, completed, remaining, ready, running, exclusiveRunning, approvalNode, wf>>
    BY DEF Poll, EndSubmit, CollectRaised, Raise, Conclude, EnterApproval, EnterPause, ledger, rest
<1>3. RestWritten'
    BY <1>2 DEF Poll, EndSubmit, CollectRaised, Raise, Conclude, EnterApproval, EnterPause, Rest, RestWritten, node
<1>4. InFlightApart' /\ ThreadsInFlight' /\ AwaitingRecorded' /\ ExclusiveKnown' /\ RunsAlone'
    BY <1>2 DEF node, Sound, Books, InFlightApart, ThreadsInFlight, AwaitingRecorded, ExclusiveKnown, RunsAlone
<1>5. LedgerExact'
    BY <1>2 DEF node, Sound, LedgerExact, InFrom, Into
<1> QED BY <1>1, <1>3, <1>4, <1>5 DEF Sound, Books

\* A skipped node finishes without having been in flight.
LEMMA SkipSound ==
    ASSUME Sound, Skip
    PROVE  Sound'
<1>1. TypeOK' /\ TypeOK
    BY CoordinatorTyped DEF Coordinator, Sound, Books
<1>2. PICK n \in Nodes : n = NextReady /\ n \in ready
    BY <1>1, LeastNode DEF Skip, Admits, NextReady, TypeOK
<1>3. n \notin running /\ n \notin completed
    BY <1>2 DEF Sound, LedgerExact
<1>4. /\ Finish({n}, {n}) /\ statuses' = [statuses EXCEPT ![n] = IF cancelled THEN "cancelled" ELSE "skipped"]
      /\ UNCHANGED <<worker, running, exclusiveRunning, approvalNode, wf, pc, resume>> /\ pc = "submit"
    BY <1>2 DEF Skip, rest
<1>5. completed' = completed \cup {n}
    BY <1>4 DEF Finish
<1>6. LedgerExact' /\ InFlightApart'
  <2>1. approvalNode # NoNode => approvalNode \in completed
      BY DEF Sound, Books, AwaitingRecorded
  <2>2. LedgerExact /\ InFlightApart
      BY DEF Sound, Books
  <2>3. PICK done \in SUBSET (running \cup ready) : done = {n}
      BY <1>2
  <2>4. PICK held \in SUBSET done : held = {}
      OBVIOUS
  <2>5. Finish(done \ held, done) /\ running' = running \ done
    <3>1. done \ held = {n} /\ running \ done = running
        BY <1>3, <2>3, <2>4
    <3> QED BY <1>4, <2>3, <3>1
  <2> QED BY <1>1, <1>4, <2>1, <2>2, <2>4, <2>5, FinishExact
<1>7. ThreadsInFlight' /\ RestWritten' /\ ExclusiveKnown' /\ RunsAlone'
    BY <1>4, <1>5 DEF Sound, Books, ThreadsInFlight, RestWritten, ExclusiveKnown, RunsAlone
<1>8. AwaitingRecorded'
    BY <1>1, <1>3, <1>4, <1>5 DEF Sound, Books, AwaitingRecorded, TypeOK
<1> QED BY <1>1, <1>6, <1>7, <1>8 DEF Sound, Books

\* A submitted node moves from the ready ones to those in flight.
LEMMA SubmitSound ==
    ASSUME Sound, Submit
    PROVE  Sound'
<1>1. TypeOK' /\ TypeOK
    BY CoordinatorTyped DEF Coordinator, Sound, Books
<1>2. PICK n \in Nodes : n = NextReady /\ n \in ready
    BY <1>1, LeastNode DEF Submit, Admits, NextReady, TypeOK
<1>3. n \notin running /\ n \notin completed /\ remaining[n] = 0
    BY <1>2 DEF Sound, LedgerExact
<1>4. /\ ready' = ready \ {n} /\ running' = running \cup {n} /\ exclusiveRunning' = (n \in wf.exclusive)
      /\ worker' = [worker EXCEPT ![n] = [pc |-> "lookup", outcome |-> "none"]]
      /\ UNCHANGED <<statuses, completed, remaining, approvalNode, wf, pc, resume>> /\ pc = "submit"
    BY <1>2 DEF Submit, rest
<1>5. /\ ~exclusiveRunning
      /\ completed # {} \/ running = {}
      /\ n \notin wf.exclusive \/ running = {}
    BY <1>2 DEF Submit, Admits
<1>6. LedgerExact'
  <2>1. \A m \in Nodes : InFrom(m, (Nodes \ completed) \cup {approvalNode})'
                           = InFrom(m, (Nodes \ completed) \cup {approvalNode})
      BY <1>4 DEF InFrom, Into
  <2> QED BY <1>2, <1>4, <2>1 DEF Sound, LedgerExact
<1>7. InFlightApart' /\ RestWritten'
    BY <1>3, <1>4 DEF Sound, Books, InFlightApart, RestWritten
<1>8. ThreadsInFlight' /\ AwaitingRecorded'
    BY <1>1, <1>4 DEF Sound, Books, ThreadsInFlight, AwaitingRecorded, TypeOK
<1>9. ExclusiveKnown' /\ RunsAlone'
    BY <1>4, <1>5 DEF Sound, ExclusiveKnown, RunsAlone
<1> QED BY <1>1, <1>6, <1>7, <1>8, <1>9 DEF Sound, Books

\* A batch of results finishes at once, but for the node held for an approval.
LEMMA CollectSound ==
    ASSUME Sound, Collect
    PROVE  Sound'
<1>1. TypeOK' /\ TypeOK
    BY CoordinatorTyped DEF Coordinator, Sound, Books
<1>2. Done \subseteq running /\ Done \subseteq Nodes /\ With("awaiting") \subseteq Done /\ Done # {}
    BY <1>1 DEF Done, With, TypeOK, Collect
<1>3. With("awaiting") # {} => Min(With("awaiting")) \in With("awaiting")
    BY <1>2, LeastNode
<1> DEFINE held == IF approvalNode = NoNode /\ With("awaiting") # {} THEN {Min(With("awaiting"))} ELSE {}
<1>4. /\ Finish(Done \ held, Done) /\ running' = running \ Done
      /\ approvalNode' = IF held = {} THEN approvalNode ELSE Min(With("awaiting"))
      /\ exclusiveRunning' = (exclusiveRunning /\ Done \cap wf.exclusive = {})
      /\ UNCHANGED <<worker, statuses, wf, resume>> /\ pc' = "poll"
    BY DEF Collect, node, rest
<1>5. /\ held \subseteq Done /\ held \subseteq With("awaiting")
      /\ \/ held = {} /\ approvalNode' = approvalNode
         \/ approvalNode = NoNode /\ held = {approvalNode'}
    BY <1>2, <1>3, <1>4
<1> HIDE DEF held
<1>6. completed' = completed \cup Done
    BY <1>4 DEF Finish
<1>7. LedgerExact' /\ InFlightApart'
  <2>1. approvalNode # NoNode => approvalNode \in completed
      BY DEF Sound, Books, AwaitingRecorded
  <2>2. Done \in SUBSET (running \cup ready) /\ held \in SUBSET Done
      BY <1>2, <1>5
  <2>3. LedgerExact /\ InFlightApart
      BY DEF Sound, Books
  <2> HIDE DEF Done
  <2> QED BY <1>1, <1>4, <1>5, <2>1, <2>2, <2>3, FinishExact
<1>8. ThreadsInFlight' /\ RestWritten'
    BY <1>4 DEF Sound, Books, ThreadsInFlight, RestWritten, Done
<1>9. AwaitingRecorded'
    BY <1>2, <1>4, <1>5, <1>6 DEF Sound, Books, AwaitingRecorded, With, Done
<1>10. ExclusiveKnown' /\ RunsAlone'
    BY <1>2, <1>4, <1>6 DEF Sound, ExclusiveKnown, RunsAlone
<1> QED BY <1>1, <1>7, <1>8, <1>9, <1>10 DEF Sound, Books

\* The threads of the nodes leave the books alone.
LEMMA ThreadSound ==
    ASSUME Sound, NEW n \in Nodes, NodeThread(n)
    PROVE  Sound'
<1>1. TypeOK' /\ TypeOK
    BY NodeTyped DEF Sound, Books
<1>2. n \in running /\ n \notin completed
    BY <1>1, ThreadWrites DEF Sound, Books, ThreadsInFlight, InFlightApart
<1>3. UNCHANGED <<ledger, wf, pc, resume>>
    BY <1>1, ThreadWrites DEF aside, rest
<1>4. LedgerExact'
    BY <1>3 DEF ledger, Sound, LedgerExact, InFrom, Into
<1>5. InFlightApart' /\ ExclusiveKnown' /\ RunsAlone'
    BY <1>3 DEF ledger, Sound, Books, InFlightApart, ExclusiveKnown, RunsAlone
<1>6. ThreadsInFlight' /\ RestWritten'
    BY <1>1, <1>2, <1>3, ThreadWrites DEF ledger, Sound, Books, ThreadsInFlight, RestWritten
<1>7. AwaitingRecorded'
    BY <1>1, <1>2, <1>3, ThreadWrites, SMTT(60) DEF ledger, Sound, Books, AwaitingRecorded, TypeOK
<1> QED BY <1>1, <1>4, <1>5, <1>6, <1>7 DEF Sound, Books

\* A run that goes on counts again from what it seeded.
LEMMA ResumeSound ==
    ASSUME Sound, Resume
    PROVE  Sound'
<1>1. TypeOK' /\ TypeOK
    BY ResumeTyped DEF Sound, Books
<1> DEFINE done == {n \in Nodes : Seeded(n) \in Settled}
           left == [n \in Nodes |-> IF n \in done THEN 0 ELSE Cardinality(InFrom(n, Nodes \ done))]
<1>2. /\ completed' = done /\ remaining' = left /\ ready' = Roots(done, left) /\ running' = {}
      /\ approvalNode' = NoNode /\ worker' = IdleWorkers /\ pc' = "poll" /\ wf' = wf
    BY DEF Resume
<1>3. LedgerExact'
  <2>1. ASSUME NEW n \in Nodes
        PROVE  InFrom(n, (Nodes \ completed) \cup {approvalNode})' = InFrom(n, Nodes \ done)
    <3>1. \A e \in wf.edges : e.from \in Nodes
        BY <1>1, WorkflowFields DEF TypeOK, EdgeRecord
    <3>2. NoNode \notin Nodes
        BY NodesAssumption DEF NoNode
    <3> HIDE DEF done
    <3> QED BY <1>2, <3>1, <3>2 DEF InFrom, Into
  <2> HIDE DEF done
  <2>2. \A n \in Nodes \ completed' :
          remaining'[n] = Cardinality(InFrom(n, (Nodes \ completed) \cup {approvalNode})')
      BY <1>2, <2>1
  <2>3. ready' = {n \in Nodes \ (completed' \cup running') : remaining'[n] = 0}
      BY <1>2 DEF Roots
  <2> QED BY <2>2, <2>3 DEF LedgerExact
<1>4. InFlightApart' /\ ExclusiveKnown' /\ RunsAlone' /\ RestWritten'
    BY <1>2 DEF InFlightApart, ExclusiveKnown, RunsAlone, RestWritten
<1>5. ThreadsInFlight' /\ AwaitingRecorded'
    BY <1>2 DEF ThreadsInFlight, AwaitingRecorded, IdleWorkers
<1> QED BY <1>1, <1>3, <1>4, <1>5 DEF Sound, Books

\* Soundness is inductive.
LEMMA NextSound == Sound /\ [Next]_vars => Sound'
<1> SUFFICES ASSUME Sound, [Next]_vars PROVE Sound'
    OBVIOUS
<1>1. CASE UNCHANGED vars \/ Stop \/ Pause
  <2>1. UNCHANGED <<node, ledger, wf, pc, resume>>
      BY <1>1 DEF vars, rest, Stop, Pause
  <2>2. TypeOK'
      BY NextTyped DEF Sound, Books
  <2>3. LedgerExact'
      BY <2>1 DEF ledger, Sound, LedgerExact, InFrom, Into
  <2> QED BY <2>1, <2>2, <2>3 DEF node, ledger, Sound, Books, InFlightApart, ThreadsInFlight,
          AwaitingRecorded, RestWritten, ExclusiveKnown, RunsAlone
<1> QED BY <1>1, TurnSound, SkipSound, SubmitSound, CollectSound, ThreadSound, ResumeSound DEF Next, Coordinator

\* Soundness holds in every reachable state.
LEMMA AlwaysSound == Spec => []Sound
BY InitSound, NextSound, PTL DEF Spec

\* The books are exact whatever is skipped, however results are batched, and wherever
\* a run was paused: no node runs early, and none that could run is forgotten
\* (finish, _seed_from_resume).
THEOREM BooksExact == Spec => []LedgerExact
<1>1. Sound => LedgerExact
    BY DEF Sound
<1> QED BY <1>1, AlwaysSound, PTL

\* No node ever runs beside one that cannot share the pool, or beside the first of a
\* run (the inner submit loop of _run_inner).
THEOREM ExclusiveAlone == Spec => []RunsAlone
<1>1. Sound => RunsAlone
    BY DEF Sound
<1> QED BY <1>1, AlwaysSound, PTL

\* What a run has settled stays, over any number of pauses, approvals and resumes
\* (_execute_node, _enter_user_pause, _seed_from_resume).
THEOREM SettledStays == Spec => SettledIsFinal
<1> DEFINE A == \A n \in completed : statuses[n] \in Settled =>
                  statuses'[n] = statuses[n] /\ attempts'[n] = attempts[n]
<1>1. Sound /\ [Next]_vars => A
  <2> SUFFICES ASSUME Sound, [Next]_vars, NEW n \in completed, statuses[n] \in Settled
               PROVE  statuses'[n] = statuses[n] /\ attempts'[n] = attempts[n]
      OBVIOUS
  <2>1. TypeOK /\ n \in Nodes
      BY DEF Sound, Books, TypeOK
  <2>2. CASE UNCHANGED <<statuses, attempts>>
      BY <2>2
  <2>3. CASE Skip
    <3>1. PICK m \in Nodes : m = NextReady /\ m \in ready
        BY <2>1, <2>3, LeastNode DEF Skip, Admits, NextReady, TypeOK
    <3>2. m # n
        BY <3>1 DEF Sound, LedgerExact
    <3> QED BY <2>1, <2>3, <3>1, <3>2 DEF Skip, TypeOK
  <2>4. ASSUME NEW m \in Nodes, NodeThread(m)
        PROVE  statuses'[n] = statuses[n] /\ attempts'[n] = attempts[n]
    <3>1. m # n
        BY <2>1, <2>4, ThreadWrites DEF Sound, Books, ThreadsInFlight, InFlightApart
    <3> QED BY <2>1, <2>4, <3>1, ThreadWrites
  <2>5. CASE Resume
    <3>1. resume = [node |-> approvalNode, statuses |-> statuses, outputs |-> outputs]
        BY <2>5 DEF Resume, Sound, Books, RestWritten
    <3>2. n # approvalNode
      <4>1. approvalNode # NoNode => statuses[approvalNode] = "awaiting_approval"
          BY DEF Sound, Books, AwaitingRecorded
      <4>2. NoNode \notin Nodes
          BY NodesAssumption DEF NoNode
      <4> QED BY <2>1, <4>1, <4>2 DEF Settled
    <3>3. Seeded(n) = statuses[n]
        BY <3>1, <3>2 DEF Seeded
    <3> QED BY <2>1, <2>5, <3>3 DEF Resume
  <2> QED BY <2>2, <2>3, <2>4, <2>5 DEF Next, Coordinator, Poll, Submit, EndSubmit, Collect, CollectRaised,
          Raise, EnterApproval, EnterPause, Conclude, Stop, Pause, vars, node
<1> QED BY <1>1, AlwaysSound, PTL DEF Spec, SettledIsFinal
-----------------------------------------------------------------------------
(* The inputs of a node.                                                    *)

\* A node whose status is settled, or that holds, is at work no more.
SettledApart ==
    \A n \in Nodes : statuses[n] \in Settled \cup {"awaiting_approval"} =>
      n \in completed \/ (n \in running /\ worker[n].pc = "done")

\* What ran or runs has its inputs, a node that failed or holds at a checkpoint included.
Fed ==
    \A n \in running \cup {m \in Nodes : attempts[m] > 0 \/ statuses[m] \in {"succeeded", "awaiting_approval"}} :
      IncomingActive(n)

-----------------------------------------------------------------------------
(* The end of a run.                                                        *)

\* What the thread of a node has answered agrees with the status of the node.
Agrees(n) ==
    worker[n].pc = "done" =>
      /\ worker[n].outcome = "stop" => n \in errors
      /\ \/ worker[n].outcome = "raised"
         \/ statuses[n] \in {"succeeded", "skipped"}
         \/ statuses[n] = "failed" /\ (wf.policy[n] = "continue_error" \/ worker[n].outcome = "stop")
         \/ statuses[n] = "cancelled" /\ worker[n].outcome = "cancelled"
         \/ statuses[n] = "awaiting_approval" /\ worker[n].outcome = "awaiting"

Answered == \A n \in running : Agrees(n)

\* A completed node has settled well, or the coordinator knows why not.
Reported ==
    /\ \A n \in completed :
         \/ statuses[n] \in {"succeeded", "skipped"}
         \/ statuses[n] = "failed" /\ (wf.policy[n] = "continue_error" \/ stopped)
         \/ statuses[n] = "cancelled" /\ cancelled
         \/ statuses[n] = "awaiting_approval" /\ approvalNode # NoNode
    /\ stopped => errors # {}

ExclusiveReal == exclusiveRunning => running \cap wf.exclusive # {}

\* The loop is left when nothing is in flight, and nothing is ready unless a pause or
\* an approval holds it back.
Leaving ==
    /\ pc = "leave" => running = {} /\ (ready = {} \/ approvalNode # NoNode \/ userPaused)
    /\ pc = "rest" => running = {} /\ ~cancelled /\ ~stopped
    /\ overall \in Ended => pc = "ended"

Ran == SettledApart /\ Fed
Told == Answered /\ Reported /\ ExclusiveReal /\ Leaving /\ SuccessIsComplete
\* What a node thread answers with, whatever it does.
LEMMA ThreadAnswers ==
    ASSUME TypeOK, NEW n \in Nodes, NodeThread(n)
    PROVE  /\ \A m \in Nodes \ {n} : outputs'[m] = outputs[m]
           /\ errors \subseteq errors'
           /\ statuses'[n] \in Settled \cup {"awaiting_approval"} =>
                worker'[n].pc = "done" \/ statuses'[n] = statuses[n]
           /\ Agrees(n)'
<1>1. /\ statuses \in [Nodes -> NodeStatuses] /\ outputs \in [Nodes -> SUBSET Ports]
      /\ worker \in [Nodes -> [pc : {"idle", "lookup", "attempt", "calling", "backoff", "done"},
                                outcome : Outcomes]]
    BY DEF TypeOK
<1>2. \A m \in Nodes \ {n} : outputs'[m] = outputs[m]
    BY <1>1 DEF NodeThread, CacheHit, CacheMiss, Unresolved, Attempt, NoAttemptLeft, Succeed, Cancel, Ask, Retry,
           Fail, Backoff
<1>3. errors \subseteq errors'
    BY DEF NodeThread, CacheHit, CacheMiss, Unresolved, Attempt, NoAttemptLeft, Succeed, Cancel, Ask, Retry,
           Fail, Backoff
<1>4. \A st, o : Answer(n, st, o) => /\ statuses'[n] = st
                                     /\ worker'[n].pc = "done" /\ worker'[n].outcome = o
    BY <1>1 DEF Answer
<1>5. \A c \in {"attempt", "calling", "backoff"} : Go(n, c) => worker'[n].pc = c
    BY <1>1 DEF Go
<1> DEFINE Rightly == /\ statuses'[n] \in Settled \cup {"awaiting_approval"} =>
                           worker'[n].pc = "done" \/ statuses'[n] = statuses[n]
                      /\ worker'[n].pc = "done" =>
                           /\ worker'[n].outcome = "stop" => n \in errors'
                           /\ \/ worker'[n].outcome = "raised"
                              \/ statuses'[n] \in {"succeeded", "skipped"}
                              \/ /\ statuses'[n] = "failed"
                                 /\ wf.policy[n] = "continue_error" \/ worker'[n].outcome = "stop"
                              \/ statuses'[n] = "cancelled" /\ worker'[n].outcome = "cancelled"
                              \/ statuses'[n] = "awaiting_approval" /\ worker'[n].outcome = "awaiting"
<1>6. ASSUME CacheHit(n) PROVE Rightly
    BY <1>4, <1>6 DEF CacheHit
<1>7. ASSUME CacheMiss(n) \/ Retry(n) PROVE Rightly
    BY <1>5, <1>7 DEF CacheMiss, Retry
<1>8. ASSUME Unresolved(n) \/ NoAttemptLeft(n) PROVE Rightly
  <2>1. worker'[n] = [pc |-> "done", outcome |-> "raised"]
      BY <1>1, <1>8 DEF Unresolved, NoAttemptLeft
  <2> QED BY <2>1
<1>9. ASSUME Attempt(n) PROVE Rightly
  <2>1. statuses'[n] = "running" /\ worker'[n].pc = "calling"
      BY <1>1, <1>5, <1>9 DEF Attempt
  <2> QED BY <2>1 DEF Settled
<1>10. ASSUME Succeed(n) PROVE Rightly
    BY <1>4, <1>10 DEF Succeed
<1>11. ASSUME Cancel(n) \/ Ask(n) PROVE Rightly
    BY <1>4, <1>11 DEF Cancel, Ask
<1>12. ASSUME Fail(n) PROVE Rightly
  <2>1. \/ wf.policy[n] = "continue_error" /\ Answer(n, "failed", "ok")
        \/ Answer(n, "skipped", "ok") \/ Answer(n, "failed", "stop")
      BY <1>12 DEF Fail
  <2>2. n \in errors'
      BY <1>12 DEF Fail
  <2> QED BY <1>4, <2>1, <2>2
<1>13. ASSUME Backoff(n) PROVE Rightly
  <2>1. Answer(n, "cancelled", "cancelled") \/ (Go(n, "attempt") /\ statuses' = statuses)
      BY <1>13 DEF Backoff
  <2> QED BY <1>4, <1>5, <2>1
<1>14. Rightly
    BY <1>6, <1>7, <1>8, <1>9, <1>10, <1>11, <1>12, <1>13 DEF NodeThread
<1>15. wf' = wf
    BY DEF NodeThread, CacheHit, CacheMiss, Unresolved, Attempt, NoAttemptLeft, Succeed, Cancel, Ask, Retry,
           Fail, Backoff, aside, rest
<1> QED BY <1>2, <1>3, <1>14, <1>15 DEF Agrees

\* Inputs that are there stay there, as long as nothing is written about a node that has settled.
LEMMA ActiveStays ==
    ASSUME NEW n, IncomingActive(n), wf' = wf,
           \A e \in Into(n) : statuses[e.from] \in {"succeeded", "skipped", "failed"} =>
             statuses'[e.from] = statuses[e.from] /\ outputs'[e.from] = outputs[e.from]
    PROVE  IncomingActive(n)'
<1>1. Into(n)' = Into(n)
    BY DEF Into
<1>2. \A e \in Into(n) : Activated(e) => statuses[e.from] \in {"succeeded", "skipped", "failed"}
    BY DEF Activated
<1>3. \A e \in Into(n) : statuses[e.from] \in {"succeeded", "skipped", "failed"}
    BY <1>2 DEF IncomingActive
<1>4. \A e \in Into(n) : (Activated(e)' <=> Activated(e)) /\ statuses'[e.from] = statuses[e.from]
    BY <1>3 DEF Activated
<1>5. {e \in Into(n) : Activated(e)}' = {e \in Into(n) : Activated(e)}
    BY <1>1, <1>4
<1> QED BY <1>1, <1>4, <1>5 DEF IncomingActive

\* At the start nothing has run.
LEMMA InitRan == Init => Ran
<1> SUFFICES ASSUME Init PROVE Ran
    OBVIOUS
<1>1. /\ running = {} /\ completed = wf.preseeded
      /\ \A n \in Nodes : attempts[n] = 0 /\ statuses[n] = IF n \in wf.preseeded THEN "skipped" ELSE "idle"
    BY DEF Init
<1> QED BY <1>1 DEF Ran, SettledApart, Fed, Settled

\* Every step keeps the inputs of what ran.
LEMMA NextRan == Sound /\ Ran /\ [Next]_vars => Ran'
<1> SUFFICES ASSUME Sound, Ran, [Next]_vars PROVE Ran'
    OBVIOUS
<1>1. TypeOK /\ TypeOK' /\ SettledApart /\ Fed
    BY NextTyped DEF Sound, Books, Ran
<1>2. \A e \in wf.edges : e.from \in Nodes
    BY <1>1, WorkflowFields DEF TypeOK, EdgeRecord
<1>3. ASSUME wf' = wf,
             \A m \in Nodes : statuses[m] \in Settled =>
               statuses'[m] = statuses[m] /\ outputs'[m] = outputs[m],
             NEW n, IncomingActive(n)
      PROVE  IncomingActive(n)'
  <2>1. \A e \in Into(n) : e.from \in Nodes
      BY <1>2 DEF Into
  <2> QED BY <1>3, <2>1, ActiveStays DEF Settled
<1>4. CASE /\ UNCHANGED <<statuses, outputs, attempts, worker, wf>>
           /\ running \ running' \subseteq completed' /\ running' \subseteq running
           /\ completed \subseteq completed'
  <2>1. SettledApart'
      BY <1>1, <1>4 DEF SettledApart
  <2>2. Fed'
      BY <1>1, <1>3, <1>4 DEF Fed
  <2> QED BY <2>1, <2>2 DEF Ran
<1>5. CASE Skip
  <2>1. PICK n \in Nodes : n = NextReady /\ n \in ready
      BY <1>1, <1>5, LeastNode DEF Skip, Admits, NextReady, TypeOK
  <2>2. n \notin running /\ n \notin completed
      BY <2>1 DEF Sound, LedgerExact
  <2>3. /\ statuses' = [statuses EXCEPT ![n] = IF cancelled THEN "cancelled" ELSE "skipped"]
        /\ UNCHANGED <<outputs, attempts, worker, running, wf>> /\ completed' = completed \cup {n}
      BY <1>5, <2>1 DEF Skip, Finish, rest
  <2>4. statuses[n] \notin Settled \cup {"awaiting_approval"}
      BY <1>1, <2>2 DEF SettledApart
  <2>5. /\ \A m \in Nodes \ {n} : statuses'[m] = statuses[m]
        /\ statuses'[n] \in {"cancelled", "skipped"}
      BY <1>1, <2>3 DEF TypeOK
  <2>6. SettledApart'
      BY <1>1, <2>3, <2>5 DEF SettledApart
  <2>7. \A m \in Nodes : statuses[m] \in Settled => statuses'[m] = statuses[m] /\ outputs'[m] = outputs[m]
      BY <2>3, <2>4, <2>5
  <2>8. Fed'
      BY <1>1, <1>3, <2>3, <2>5, <2>7 DEF Fed
  <2> QED BY <2>6, <2>8 DEF Ran
<1>6. CASE Submit
  <2>1. PICK n \in Nodes : n = NextReady /\ n \in ready
      BY <1>1, <1>6, LeastNode DEF Submit, Admits, NextReady, TypeOK
  <2>2. n \notin running /\ n \notin completed
      BY <2>1 DEF Sound, LedgerExact
  <2>3. /\ UNCHANGED <<statuses, outputs, attempts, completed, wf>> /\ running' = running \cup {n}
        /\ \A m \in Nodes \ {n} : worker'[m] = worker[m]
        /\ IncomingActive(n)
      BY <1>1, <1>6, <2>1 DEF Submit, MustSkip, rest, TypeOK
  <2>4. statuses[n] \notin Settled \cup {"awaiting_approval"}
      BY <1>1, <2>2 DEF SettledApart
  <2>5. SettledApart'
      BY <1>1, <2>3, <2>4 DEF SettledApart
  <2>6. Fed'
      BY <1>1, <1>3, <2>3 DEF Fed
  <2> QED BY <2>5, <2>6 DEF Ran
<1>7. ASSUME NEW n \in Nodes, NodeThread(n) PROVE Ran'
  <2>1. /\ worker[n].pc \notin {"idle", "done"} /\ UNCHANGED <<running, completed, wf>>
        /\ \A m \in Nodes \ {n} : worker'[m] = worker[m] /\ statuses'[m] = statuses[m]
        /\ \A m \in Nodes \ {n} : outputs'[m] = outputs[m] /\ attempts'[m] = attempts[m]
        /\ statuses'[n] \in Settled \cup {"awaiting_approval"} =>
             worker'[n].pc = "done" \/ statuses'[n] = statuses[n]
      BY <1>1, <1>7, ThreadWrites, ThreadAnswers DEF aside, ledger, rest
  <2>2. n \in running /\ n \notin completed
      BY <2>1 DEF Sound, Books, ThreadsInFlight, InFlightApart
  <2>3. statuses[n] \notin Settled \cup {"awaiting_approval"}
      BY <1>1, <2>1, <2>2 DEF SettledApart
  <2>4. SettledApart'
      BY <1>1, <2>1, <2>2, <2>3 DEF SettledApart
  <2>5. \A m \in Nodes : statuses[m] \in Settled => statuses'[m] = statuses[m] /\ outputs'[m] = outputs[m]
      BY <2>1, <2>3
  <2>6. Fed'
      BY <1>1, <1>3, <2>1, <2>2, <2>5 DEF Fed
  <2> QED BY <2>4, <2>6 DEF Ran
<1>8. CASE Resume
  <2>1. resume = [node |-> approvalNode, statuses |-> statuses, outputs |-> outputs]
      BY <1>8 DEF Resume, Sound, Books, RestWritten
  <2>2. approvalNode \in Nodes => statuses[approvalNode] = "awaiting_approval"
    <3>1. NoNode \notin Nodes
        BY NodesAssumption DEF NoNode
    <3> QED BY <3>1 DEF Sound, Books, AwaitingRecorded
  <2>3. /\ statuses' = [m \in Nodes |-> Seeded(m)] /\ outputs' = [m \in Nodes |-> SeededOutputs(m)]
        /\ completed' = {m \in Nodes : Seeded(m) \in Settled} /\ running' = {}
        /\ UNCHANGED <<attempts, wf>>
      BY <1>8 DEF Resume
  <2>4. SettledApart'
      BY <2>3 DEF SettledApart, Seeded, Settled
  <2>5. \A m \in Nodes : statuses[m] \in Settled => Seeded(m) = statuses[m] /\ SeededOutputs(m) = outputs[m]
      BY <2>1, <2>2 DEF Seeded, SeededOutputs, Settled
  <2>6. \A m \in Nodes : statuses[m] \in Settled => statuses'[m] = statuses[m] /\ outputs'[m] = outputs[m]
      BY <2>3, <2>5
  <2>7. \A m \in Nodes : statuses'[m] \in {"succeeded", "awaiting_approval"} =>
                           statuses[m] \in {"succeeded", "awaiting_approval"}
      BY <2>1, <2>2, <2>3 DEF Seeded, Settled
  <2>8. Fed'
      BY <1>1, <1>3, <2>3, <2>6, <2>7 DEF Fed
  <2> QED BY <2>4, <2>8 DEF Ran
<1>9. CASE Collect
  <2>1. Done \subseteq running /\ running' = running \ Done /\ completed' = completed \cup Done
        /\ UNCHANGED <<statuses, outputs, attempts, worker, wf>>
      BY <1>9 DEF Collect, Done, Finish, node, rest
  <2> QED BY <1>4, <2>1
<1>10. CASE Poll \/ EndSubmit \/ CollectRaised \/ Raise \/ EnterApproval \/ EnterPause \/ Conclude \/ Stop \/ Pause
            \/ UNCHANGED vars
  <2>1. UNCHANGED <<statuses, outputs, attempts, worker, wf, running, completed>>
      BY <1>10 DEF Poll, EndSubmit, CollectRaised, Raise, EnterApproval, EnterPause, Conclude, Stop, Pause,
                   vars, node, ledger, rest
  <2> QED BY <1>4, <2>1
<1> QED BY <1>5, <1>6, <1>7, <1>8, <1>9, <1>10 DEF Next, Coordinator

\* The inputs of every node that runs or has succeeded are there and stay, in every workflow,
\* through every pause, approval and resume (_resolve_inputs, _seed_from_resume).
THEOREM InputsStay == Spec => []InputsReady
<1>1. Ran => InputsReady
    BY DEF Ran, Fed, InputsReady
<1> QED BY <1>1, AlwaysSound, InitRan, NextRan, PTL DEF Spec
-----------------------------------------------------------------------------
\* A workflow has no cycle: when nothing runs, nothing is ready and nothing is held, all is done.
LEMMA NothingLeft ==
    ASSUME Sound, running = {}, ready = {}, approvalNode = NoNode
    PROVE  completed = Nodes
<1>1. TypeOK /\ LedgerExact /\ wf \in Workflows
    BY DEF Sound, Books, TypeOK
<1> SUFFICES ASSUME Nodes \ completed # {} PROVE FALSE
    BY <1>1 DEF TypeOK
<1>2. PICK n \in Nodes \ completed : \A e \in wf.edges : e.to = n => e.from \notin Nodes \ completed
    BY <1>1, AcyclicAssumption
<1>3. \A e \in wf.edges : e.from # NoNode
  <2>1. \A e \in wf.edges : e.from \in Nodes
      BY <1>1, WorkflowFields DEF EdgeRecord
  <2> QED BY <2>1, NodesAssumption DEF NoNode
<1>4. InFrom(n, (Nodes \ completed) \cup {approvalNode}) = {}
    BY <1>2, <1>3 DEF InFrom, Into
<1>5. remaining[n] = 0
    BY <1>1, <1>4, FS_EmptySet DEF LedgerExact
<1>6. n \in ready
    BY <1>1, <1>2, <1>5 DEF LedgerExact
<1> QED BY <1>6

\* A new run has nothing to tell.
LEMMA InitTold == Init => Told
<1> SUFFICES ASSUME Init PROVE Told
    OBVIOUS
<1>1. /\ running = {} /\ completed = wf.preseeded /\ ~stopped /\ ~exclusiveRunning /\ pc = "poll"
      /\ overall = "running" /\ wf.preseeded \subseteq Nodes
      /\ \A n \in Nodes : statuses[n] = IF n \in wf.preseeded THEN "skipped" ELSE "idle"
    BY WorkflowFields DEF Init
<1> QED BY <1>1 DEF Told, Answered, Reported, ExclusiveReal, Leaving, SuccessIsComplete, Ended

\* Before a run has ended, its status tells of no success.
LEMMA NotYetEnded ==
    ASSUME Leaving, pc # "ended"
    PROVE  overall \notin Ended /\ overall \notin {"succeeded", "partial"}
BY DEF Leaving, Ended

\* The turns of the loop that complete no node.
LEMMA TurnTold ==
    ASSUME Sound, Told, Poll \/ EndSubmit \/ CollectRaised \/ Raise \/ EnterApproval \/ EnterPause
    PROVE  Told'
<1>1. TypeOK /\ Answered /\ Reported /\ ExclusiveReal /\ Leaving
    BY DEF Sound, Books, Told
<1>2. UNCHANGED <<node, completed, remaining, ready, running, exclusiveRunning, stopped, approvalNode, wf>>
      /\ (cancelled => cancelled')
  <2>1. UNCHANGED <<node, completed, remaining, ready, running, exclusiveRunning, stopped, approvalNode, wf>>
      BY DEF Poll, EndSubmit, CollectRaised, Raise, EnterApproval, EnterPause, ledger, rest
  <2>2. CASE Poll
    <3>1. cancelled' = cancelled \/ cancelled' = (cancelled \/ stop)
        BY <2>2 DEF Poll
    <3>2. cancelled \in BOOLEAN
        BY <1>1 DEF TypeOK
    <3> QED BY <2>1, <3>1, <3>2
  <2>3. CASE EndSubmit \/ CollectRaised \/ Raise \/ EnterApproval \/ EnterPause
    <3>1. cancelled' = cancelled
        BY <2>3 DEF EndSubmit, CollectRaised, Raise, EnterApproval, EnterPause, ledger
    <3> QED BY <2>1, <3>1
  <2> QED BY <2>1, <2>2, <2>3
<1>3. Answered' /\ Reported' /\ ExclusiveReal'
    BY <1>1, <1>2 DEF Answered, Agrees, Reported, ExclusiveReal, node
<1>4. overall \notin Ended /\ pc \notin {"rest", "ended"}
    BY <1>1, NotYetEnded DEF Poll, EndSubmit, CollectRaised, Raise, EnterApproval, EnterPause
<1>5. CASE Poll
  <2>1. pc' \in {"leave", "submit", "wait"} /\ overall' = overall
        /\ (pc' = "leave" => running' = {} /\ (ready' = {} \/ approvalNode' # NoNode \/ userPaused'))
      BY <1>5 DEF Poll
  <2> QED BY <1>3, <1>4, <2>1 DEF Told, Leaving, SuccessIsComplete, Ended
<1>6. CASE EndSubmit
  <2>1. pc' \in {"wait", "poll", "leave"} /\ overall' = overall /\ (pc' = "leave" => running = {})
      BY <1>6 DEF EndSubmit
  <2>2. ASSUME running = {} PROVE ready = {}
    <3>1. ~exclusiveRunning
        BY <1>1, <2>2 DEF ExclusiveReal, TypeOK
    <3>2. Cardinality(running) < MaxWorkers
        BY <2>2, FS_EmptySet, LimitsAssumption
    <3> QED BY <1>6, <2>2, <3>1, <3>2 DEF EndSubmit, Admits
  <2> QED BY <1>2, <1>3, <1>4, <2>1, <2>2 DEF Told, Leaving, SuccessIsComplete, Ended
<1>7. CASE CollectRaised
  <2>1. pc' = "raise" /\ overall' = overall
      BY <1>7 DEF CollectRaised
  <2> QED BY <1>3, <1>4, <2>1 DEF Told, Leaving, SuccessIsComplete, Ended
<1>8. CASE Raise
  <2>1. pc' = "ended" /\ overall' \in {"cancelled", "failed"}
      BY <1>8 DEF Raise
  <2> QED BY <1>3, <2>1 DEF Told, Leaving, SuccessIsComplete
<1>9. CASE EnterApproval \/ EnterPause
  <2>1. /\ pc = "leave" /\ pc' = "rest" /\ overall' \in Resting /\ ~cancelled /\ ~stopped
        /\ UNCHANGED <<running, cancelled, stopped>>
      BY <1>9 DEF EnterApproval, EnterPause, Rest, Resting, ledger
  <2> QED BY <1>1, <1>3, <2>1 DEF Told, Leaving, SuccessIsComplete, Ended, Resting
<1> QED BY <1>5, <1>6, <1>7, <1>8, <1>9

\* A verdict of success is given when all is done.
LEMMA ConcludeTold ==
    ASSUME Sound, Told, Conclude
    PROVE  Told'
<1>1. TypeOK /\ Answered /\ Reported /\ ExclusiveReal /\ Leaving
    BY DEF Sound, Books, Told
<1>2. UNCHANGED <<node, ledger, wf>> /\ pc = "leave" /\ pc' = "ended" /\ overall' = Verdict
    BY DEF Conclude, rest
<1>3. Answered' /\ Reported' /\ ExclusiveReal'
    BY <1>1, <1>2 DEF Answered, Agrees, Reported, ExclusiveReal, node, ledger
<1>4. ASSUME overall' \in {"succeeded", "partial"}
      PROVE  /\ completed = Nodes
             /\ \A n \in Nodes : \/ statuses[n] \in {"succeeded", "skipped"}
                                 \/ statuses[n] = "failed" /\ wf.policy[n] = "continue_error"
  <2>1. ~cancelled /\ (errors = {} \/ ~stopped)
      BY <1>2, <1>4 DEF Verdict
  <2>2. ~stopped
      BY <1>1, <2>1 DEF Reported
  <2>3. approvalNode = NoNode /\ ~(userPaused /\ Unfinished)
      BY <2>1, <2>2 DEF Conclude
  <2>4. completed = Nodes
    <3>1. CASE userPaused
        BY <2>3, <3>1 DEF Unfinished
    <3>2. CASE ~userPaused
        BY <1>1, <1>2, <2>3, <3>2, NothingLeft DEF Leaving
    <3> QED BY <3>1, <3>2
  <2> QED BY <1>1, <2>1, <2>2, <2>3, <2>4 DEF Reported
<1>5. SuccessIsComplete'
    BY <1>2, <1>4 DEF SuccessIsComplete, node, ledger
<1> QED BY <1>2, <1>3, <1>5 DEF Told, Leaving

\* What is skipped, and what is taken up.
LEMMA SubmitTold ==
    ASSUME Sound, Told, Skip \/ Submit
    PROVE  Told'
<1>1. TypeOK /\ Answered /\ Reported /\ ExclusiveReal /\ Leaving
    BY DEF Sound, Books, Told
<1>2. PICK n \in Nodes : n = NextReady /\ n \in ready
    BY <1>1, LeastNode DEF Skip, Submit, Admits, NextReady, TypeOK
<1>3. n \notin running /\ n \notin completed
    BY <1>2 DEF Sound, LedgerExact
<1>4. pc = "submit" /\ UNCHANGED <<errors, stopped, cancelled, approvalNode, wf, pc, overall>>
    BY DEF Skip, Submit, rest
<1>5. Leaving' /\ SuccessIsComplete'
    BY <1>1, <1>4, NotYetEnded DEF Leaving, SuccessIsComplete
<1>6. CASE Skip
  <2>1. /\ UNCHANGED <<worker, running, exclusiveRunning>> /\ completed' = completed \cup {n}
        /\ \A m \in Nodes \ {n} : statuses'[m] = statuses[m]
        /\ statuses'[n] = IF cancelled THEN "cancelled" ELSE "skipped"
      BY <1>1, <1>2, <1>6 DEF Skip, Finish, TypeOK
  <2>2. Answered'
      BY <1>1, <1>3, <1>4, <2>1 DEF Answered, Agrees, TypeOK
  <2>3. Reported'
      BY <1>1, <1>3, <1>4, <2>1 DEF Reported, TypeOK
  <2>4. ExclusiveReal'
      BY <1>1, <1>4, <2>1 DEF ExclusiveReal
  <2> QED BY <1>5, <2>2, <2>3, <2>4 DEF Told
<1>7. CASE Submit
  <2>1. /\ UNCHANGED <<statuses, completed>> /\ running' = running \cup {n}
        /\ exclusiveRunning' = (n \in wf.exclusive)
        /\ \A m \in Nodes \ {n} : worker'[m] = worker[m]
        /\ worker'[n].pc = "lookup"
      BY <1>1, <1>2, <1>7 DEF Submit, TypeOK
  <2>2. Answered'
      BY <1>1, <1>4, <2>1 DEF Answered, Agrees, TypeOK
  <2>3. Reported'
      BY <1>1, <1>4, <2>1 DEF Reported
  <2>4. ExclusiveReal'
      BY <1>4, <2>1 DEF ExclusiveReal
  <2> QED BY <1>5, <2>2, <2>3, <2>4 DEF Told
<1> QED BY <1>6, <1>7

\* What is collected is told to the coordinator.
LEMMA CollectTold ==
    ASSUME Sound, Told, Collect
    PROVE  Told'
<1>1. TypeOK /\ Answered /\ Reported /\ ExclusiveReal /\ Leaving
    BY DEF Sound, Books, Told
<1>2. /\ pc = "wait" /\ pc' = "poll" /\ UNCHANGED <<statuses, worker, errors, wf, overall>>
      /\ With("raised") = {} /\ running' = running \ Done /\ completed' = completed \cup Done
      /\ exclusiveRunning' = (exclusiveRunning /\ Done \cap wf.exclusive = {})
      /\ stopped' = (stopped \/ With("stop") # {})
      /\ cancelled' = (cancelled \/ With("cancelled") # {})
    BY DEF Collect, Finish, node, rest
<1>3. Leaving' /\ SuccessIsComplete'
    BY <1>1, <1>2, NotYetEnded DEF Leaving, SuccessIsComplete
<1>4. Answered' /\ ExclusiveReal'
    BY <1>1, <1>2 DEF Answered, Agrees, ExclusiveReal
<1>5. approvalNode # NoNode \/ With("awaiting") # {} => approvalNode' # NoNode
  <2>1. With("awaiting") \subseteq Nodes
      BY <1>1 DEF With, Done, TypeOK
  <2>2. With("awaiting") # {} => Min(With("awaiting")) \in Nodes /\ Min(With("awaiting")) # NoNode
      BY <2>1, LeastNode, NodesAssumption DEF NoNode
  <2>3. \/ approvalNode' = approvalNode /\ (approvalNode # NoNode \/ With("awaiting") = {})
        \/ With("awaiting") # {} /\ approvalNode' = Min(With("awaiting"))
      BY DEF Collect
  <2> QED BY <2>2, <2>3
<1>6. \A m \in Done : m \in running /\ worker[m].pc = "done"
    BY DEF Done
<1>7. stopped' => errors' # {}
  <2>1. \A m \in With("stop") : m \in errors
      BY <1>1, <1>6 DEF With, Answered, Agrees
  <2> QED BY <1>1, <1>2, <2>1 DEF Reported
<1>8. ASSUME NEW m \in Done
      PROVE  \/ statuses[m] \in {"succeeded", "skipped"}
             \/ statuses[m] = "failed" /\ (wf.policy[m] = "continue_error" \/ stopped')
             \/ statuses[m] = "cancelled" /\ cancelled'
             \/ statuses[m] = "awaiting_approval" /\ approvalNode' # NoNode
  <2>1. worker[m].outcome # "raised"
      BY <1>2 DEF With
  <2>2. Agrees(m) /\ worker[m].pc = "done"
      BY <1>1, <1>6 DEF Answered
  <2>3. \A o : worker[m].outcome = o => With(o) # {}
      BY DEF With
  <2> QED BY <1>2, <1>5, <2>1, <2>2, <2>3 DEF Agrees
<1>9. Reported'
  <2>1. (stopped => stopped') /\ (cancelled => cancelled')
      BY <1>2
  <2> HIDE DEF Done
  <2> QED BY <1>1, <1>2, <1>5, <1>7, <1>8, <2>1 DEF Reported
<1> QED BY <1>3, <1>4, <1>9 DEF Told

\* What a node thread answers agrees with the status it has written.
LEMMA ThreadTold ==
    ASSUME Sound, Told, NEW n \in Nodes, NodeThread(n)
    PROVE  Told'
<1>1. TypeOK /\ Answered /\ Reported /\ ExclusiveReal /\ Leaving
    BY DEF Sound, Books, Told
<1>2. /\ worker[n].pc \notin {"idle", "done"} /\ pc \notin {"rest", "ended"} /\ UNCHANGED aside
      /\ \A m \in Nodes \ {n} : worker'[m] = worker[m] /\ statuses'[m] = statuses[m]
      /\ errors \subseteq errors' /\ Agrees(n)'
    BY <1>1, ThreadWrites, ThreadAnswers
<1>3. n \notin completed /\ completed \subseteq Nodes /\ running \subseteq Nodes
    BY <1>1, <1>2 DEF Sound, Books, ThreadsInFlight, InFlightApart, TypeOK
<1>4. UNCHANGED <<running, completed, ready, exclusiveRunning, stopped, cancelled, userPaused, approvalNode, wf, pc, overall>>
    BY <1>2 DEF aside, ledger, rest
<1>5. Answered'
    BY <1>1, <1>2, <1>3, <1>4 DEF Answered, Agrees
<1>6. Reported'
    BY <1>1, <1>2, <1>3, <1>4 DEF Reported
<1>7. ExclusiveReal' /\ Leaving' /\ SuccessIsComplete'
    BY <1>1, <1>2, <1>4, NotYetEnded DEF ExclusiveReal, Leaving, SuccessIsComplete
<1> QED BY <1>5, <1>6, <1>7 DEF Told

\* A run that goes on starts from what had settled well.
LEMMA ResumeTold ==
    ASSUME Sound, Ran, Told, Resume
    PROVE  Told'
<1>1. resume = [node |-> approvalNode, statuses |-> statuses, outputs |-> outputs]
    BY DEF Resume, Sound, Books, RestWritten
<1>2. running = {} /\ ~cancelled /\ ~stopped
    BY DEF Resume, Told, Leaving
<1>3. /\ statuses' = [m \in Nodes |-> Seeded(m)] /\ completed' = {m \in Nodes : Seeded(m) \in Settled}
      /\ running' = {} /\ wf' = wf /\ ~stopped' /\ ~cancelled' /\ ~exclusiveRunning' /\ pc' = "poll"
      /\ overall' = "running"
    BY DEF Resume
<1>4. ASSUME NEW m \in Nodes, Seeded(m) \in Settled
      PROVE  \/ Seeded(m) \in {"succeeded", "skipped"}
             \/ Seeded(m) = "failed" /\ wf.policy[m] = "continue_error"
  <2>1. CASE m = approvalNode
      BY <1>1, <1>4, <2>1 DEF Seeded, Settled
  <2>2. CASE m # approvalNode
    <3>1. Seeded(m) = statuses[m] /\ statuses[m] \in Settled
        BY <1>1, <1>4, <2>2 DEF Seeded, Settled
    <3>2. m \in completed
        BY <1>2, <3>1 DEF Ran, SettledApart
    <3> QED BY <1>2, <3>1, <3>2 DEF Told, Reported, Settled
  <2> QED BY <2>1, <2>2
<1>5. Reported'
    BY <1>3, <1>4 DEF Reported
<1> QED BY <1>3, <1>5 DEF Told, Answered, ExclusiveReal, Leaving, SuccessIsComplete, Ended

\* What is told of a run is inductive.
LEMMA NextTold == Sound /\ Ran /\ Told /\ [Next]_vars => Told'
<1> SUFFICES ASSUME Sound, Ran, Told, [Next]_vars PROVE Told'
    OBVIOUS
<1>1. CASE UNCHANGED vars \/ Stop \/ Pause
  <2>1. UNCHANGED <<node, ledger, wf, pc, overall>>
      BY <1>1 DEF vars, rest, Stop, Pause
  <2> QED BY <2>1 DEF Told, Answered, Agrees, Reported, ExclusiveReal, Leaving, SuccessIsComplete, node, ledger
<1> QED BY <1>1, TurnTold, ConcludeTold, SubmitTold, CollectTold, ThreadTold, ResumeTold DEF Next, Coordinator

\* Success is reported only when every node of the workflow is done, however often the run was
\* paused, held or resumed: none was forgotten, none awaits anything, and no error is hidden
\* that the policy of its node does not handle (_run_inner, _overall_status).
THEOREM SuccessComplete == Spec => []SuccessIsComplete
<1>1. Told => SuccessIsComplete
    BY DEF Told
<1> QED BY <1>1, AlwaysSound, InitRan, NextRan, InitTold, NextTold, PTL DEF Spec
-----------------------------------------------------------------------------
(* Checkpoints, when no two nodes hold at once.                             *)

\* At most one node awaits an approval.
HoldsAlone ==
    \A m, n \in Nodes :
      statuses[m] = "awaiting_approval" /\ statuses[n] = "awaiting_approval" => m = n

\* Of any two nodes that may hold, one is connected to the other.
InARow(w) ==
    \A m, n \in w.gates \cup w.asks : m # n => \E e \in w.edges : {e.from, e.to} = {m, n}

\* Only a node with a checkpoint, or one that asks, awaits an approval.
MayHold ==
    /\ gates \subseteq wf.gates
    /\ \A n \in Nodes : statuses[n] = "awaiting_approval" => n \in wf.gates \cup wf.asks

\* No step lets any other node hold.
LEMMA NextMayHold == TypeOK /\ MayHold /\ [Next]_vars => MayHold'
<1> SUFFICES ASSUME TypeOK, MayHold, [Next]_vars PROVE MayHold'
    OBVIOUS
<1>1. CASE Skip
  <2>1. /\ statuses' = [statuses EXCEPT ![NextReady] = IF cancelled THEN "cancelled" ELSE "skipped"]
        /\ UNCHANGED <<wf, gates>>
      BY <1>1 DEF Skip, rest
  <2> QED BY <2>1 DEF MayHold, TypeOK
<1>2. CASE Resume
  <2>1. /\ statuses' = [m \in Nodes |-> Seeded(m)] /\ gates' \subseteq gates /\ wf' = wf
      BY <1>2 DEF Resume, GatesLeft
  <2>2. \A m \in Nodes : Seeded(m) # "awaiting_approval"
      BY DEF Seeded, Settled
  <2> QED BY <2>1, <2>2 DEF MayHold
<1>3. ASSUME NEW n \in Nodes, NodeThread(n) PROVE MayHold'
  <2>1. UNCHANGED <<wf, gates>>
      BY <1>3 DEF NodeThread, CacheHit, CacheMiss, Unresolved, Attempt, NoAttemptLeft, Succeed, Cancel, Ask, Retry,
                  Fail, Backoff, aside, rest
  <2>2. \A st, o : Answer(n, st, o) => statuses' = [statuses EXCEPT ![n] = st]
      BY DEF Answer
  <2>3. \/ statuses' = statuses
        \/ n \in wf.gates \cup wf.asks /\ statuses' = [statuses EXCEPT ![n] = "awaiting_approval"]
        \/ \E st \in {"running", "succeeded", "failed", "skipped", "cancelled"} :
             statuses' = [statuses EXCEPT ![n] = st]
    <3>1. CASE CacheHit(n)
        BY <2>2, <3>1 DEF CacheHit
    <3>2. CASE CacheMiss(n) \/ Unresolved(n) \/ NoAttemptLeft(n) \/ Retry(n)
        BY <3>2 DEF CacheMiss, Unresolved, NoAttemptLeft, Retry
    <3>3. CASE Attempt(n)
        BY <3>3 DEF Attempt
    <3>4. CASE Succeed(n)
        BY <2>2, <3>4 DEF Succeed, Held, MayHold
    <3>5. CASE Cancel(n)
        BY <2>2, <3>5 DEF Cancel
    <3>6. CASE Ask(n)
        BY <2>2, <3>6 DEF Ask
    <3>7. CASE Fail(n)
        BY <2>2, <3>7 DEF Fail
    <3>8. CASE Backoff(n)
        BY <2>2, <3>8 DEF Backoff
    <3> QED BY <1>3, <3>1, <3>2, <3>3, <3>4, <3>5, <3>6, <3>7, <3>8 DEF NodeThread
  <2> QED BY <2>1, <2>3 DEF MayHold, TypeOK
<1>4. CASE Poll \/ Submit \/ EndSubmit \/ Collect \/ CollectRaised \/ Raise \/ EnterApproval \/ EnterPause
            \/ Conclude \/ Stop \/ Pause \/ UNCHANGED vars
  <2>1. UNCHANGED <<wf, gates, statuses>>
      BY <1>4 DEF Poll, Submit, EndSubmit, Collect, CollectRaised, Raise, EnterApproval, EnterPause, Conclude,
                  Stop, Pause, vars, node, rest
  <2> QED BY <2>1 DEF MayHold
<1> QED BY <1>1, <1>2, <1>3, <1>4 DEF Next, Coordinator

\* Where the checkpoints of every workflow stand in a row, no two nodes ever hold at once:
\* the one that waits for the other has none of its inputs (_edge_was_activated).
THEOREM RowHoldsAlone ==
    ASSUME \A w \in Workflows : InARow(w)
    PROVE  Spec => []HoldsAlone
<1>1. Init => MayHold
  <2> SUFFICES ASSUME Init PROVE MayHold
      OBVIOUS
  <2>1. /\ gates = wf.gates
        /\ \A n \in Nodes : statuses[n] = IF n \in wf.preseeded THEN "skipped" ELSE "idle"
      BY DEF Init
  <2> QED BY <2>1 DEF MayHold
<1>2. TypeOK /\ Ran /\ MayHold => HoldsAlone
  <2> SUFFICES ASSUME TypeOK, Ran, MayHold, NEW m \in Nodes, NEW n \in Nodes,
                      statuses[m] = "awaiting_approval", statuses[n] = "awaiting_approval", m # n
               PROVE  FALSE
      BY DEF HoldsAlone
  <2>1. PICK e \in wf.edges : {e.from, e.to} = {m, n}
    <3>1. InARow(wf)
        BY DEF TypeOK
    <3>2. m \in wf.gates \cup wf.asks /\ n \in wf.gates \cup wf.asks
        BY DEF MayHold
    <3> QED BY <3>1, <3>2 DEF InARow
  <2>2. e \in Into(e.to) /\ e.from \in {m, n} /\ e.to \in {m, n}
      BY <2>1 DEF Into
  <2>3. IncomingActive(e.to)
      BY <2>2 DEF Ran, Fed
  <2>4. statuses[e.from] \in {"succeeded", "skipped", "failed"}
      BY <2>2, <2>3 DEF IncomingActive, Activated
  <2> QED BY <2>2, <2>4
<1>3. Sound => TypeOK
    BY DEF Sound, Books
<1> QED BY <1>1, <1>2, <1>3, AlwaysSound, InitRan, NextRan, NextMayHold, PTL DEF Spec

\* A checkpoint is in force until its node is approved; a node in the cache has been here;
\* a node with a checkpoint succeeds by its approval.
Guarded ==
    /\ wf.gates \ approved \subseteq gates
    /\ \A n \in cache \ wf.cached : n \in approved \/ statuses[n] \in {"succeeded", "awaiting_approval"}
    /\ \A n \in wf.gates \ wf.cached : statuses[n] = "succeeded" => n \in approved

\* A node that never asks has as many attempts behind it as its status and its thread say.
Spared(n) ==
    /\ statuses[n] = "idle" => attempts[n] = 0
    /\ statuses[n] = "running" => n \in running
    /\ statuses[n] = "awaiting_approval" => outputs[n] # {}
    /\ worker[n].pc = "lookup" => statuses[n] = "idle"
    /\ worker[n].pc \in {"attempt", "backoff"} => attempts[n] < MaxAttempts(n)

Frugal == \A n \in Nodes \ wf.asks : Spared(n)

GInv == Guarded /\ Frugal

\* The node that awaits an approval when a run rests is the one that is put back.
LEMMA AwaitingIsHeld ==
    ASSUME Sound, Ran, Told, HoldsAlone, pc = "rest",
           NEW n \in Nodes, statuses[n] = "awaiting_approval"
    PROVE  n = approvalNode
<1>1. n \in completed
    BY DEF Ran, SettledApart, Told, Leaving
<1>2. approvalNode # NoNode
    BY <1>1 DEF Told, Reported
<1>3. approvalNode \in Nodes /\ statuses[approvalNode] = "awaiting_approval"
    BY <1>2 DEF Sound, Books, AwaitingRecorded, TypeOK
<1> QED BY <1>3 DEF HoldsAlone

\* A node that is at work neither holds nor has settled.
LEMMA AtWork ==
    ASSUME Sound, Ran, NEW n \in Nodes, worker[n].pc \notin {"idle", "done"}
    PROVE  n \in running /\ statuses[n] \notin Settled \cup {"awaiting_approval"}
<1>1. n \in running /\ n \notin completed
    BY DEF Sound, Books, ThreadsInFlight, InFlightApart
<1> QED BY <1>1 DEF Ran, SettledApart

\* One attempt is always allowed.
LEMMA AttemptsAllowed ==
    ASSUME wf \in Workflows, NEW n
    PROVE  MaxAttempts(n) \in Nat /\ MaxAttempts(n) >= 1
BY WorkflowFields DEF MaxAttempts

\* At the start no checkpoint was passed and no attempt was made.
LEMMA InitGuarded == Init => GInv
<1> SUFFICES ASSUME Init PROVE GInv
    OBVIOUS
<1>1. /\ gates = wf.gates /\ cache = wf.cached
      /\ \A n \in Nodes : /\ attempts[n] = 0 /\ worker[n].pc = "idle"
                          /\ statuses[n] = IF n \in wf.preseeded THEN "skipped" ELSE "idle"
    BY DEF Init, IdleWorkers
<1>2. wf.gates \subseteq Nodes
    BY WorkflowFields DEF Init
<1> QED BY <1>1, <1>2 DEF GInv, Guarded, Frugal, Spared

\* What the thread of a node does to checkpoints and attempts.
LEMMA ThreadGuarded ==
    ASSUME Sound, Ran, GInv, NEW n \in Nodes, NodeThread(n)
    PROVE  GInv'
<1>1. TypeOK
    BY DEF Sound, Books
<1>2. /\ worker[n].pc \notin {"idle", "done"} /\ UNCHANGED <<gates, approved, wf, running>>
      /\ \A m \in Nodes \ {n} : /\ worker'[m] = worker[m] /\ statuses'[m] = statuses[m]
                                /\ attempts'[m] = attempts[m] /\ outputs'[m] = outputs[m]
    BY <1>1, ThreadWrites, ThreadAnswers DEF aside, ledger, rest
<1>3. n \in running /\ statuses[n] \notin {"succeeded", "awaiting_approval"}
    BY <1>2, AtWork DEF Settled
<1>4. cache' = cache \/ (cache' \subseteq cache \cup {n} /\ statuses'[n] \in {"succeeded", "awaiting_approval"})
  <2>1. CASE Succeed(n)
      BY <1>1, <2>1 DEF Succeed, Answer, TypeOK
  <2> QED BY <2>1 DEF NodeThread, CacheHit, CacheMiss, Unresolved, Attempt, NoAttemptLeft, Cancel, Ask, Retry,
                      Fail, Backoff
<1>5. statuses'[n] = "succeeded" => n \in cache \/ n \notin gates
    BY <1>1, <1>3 DEF NodeThread, CacheHit, CacheMiss, Unresolved, Attempt, NoAttemptLeft, Succeed, Cancel, Ask,
                      Retry, Fail, Backoff, Answer, Held, TypeOK
<1>6. Guarded'
  <2>1. wf.gates \subseteq Nodes /\ cache \subseteq Nodes /\ Guarded
      BY <1>1, WorkflowFields DEF TypeOK, GInv
  <2>2. \A m \in cache' \ wf.cached : m \in approved \/ statuses'[m] \in {"succeeded", "awaiting_approval"}
      BY <1>2, <1>3, <1>4, <2>1 DEF Guarded
  <2>3. \A m \in wf.gates \ wf.cached : statuses'[m] = "succeeded" => m \in approved
      BY <1>2, <1>3, <1>5, <2>1 DEF Guarded
  <2> QED BY <1>2, <2>1, <2>2, <2>3 DEF Guarded
<1>7. ASSUME NEW m \in Nodes \ wf.asks, m # n PROVE Spared(m)'
    BY <1>2, <1>7 DEF GInv, Frugal, Spared, MaxAttempts
<1>8. ASSUME n \notin wf.asks PROVE Spared(n)'
  <2>1. /\ Spared(n) /\ MaxAttempts(n)' = MaxAttempts(n) /\ MaxAttempts(n) \in Nat /\ MaxAttempts(n) >= 1
      BY <1>1, <1>2, <1>8, AttemptsAllowed DEF GInv, Frugal, MaxAttempts, TypeOK
  <2>2. /\ statuses \in [Nodes -> NodeStatuses] /\ outputs \in [Nodes -> SUBSET Ports] /\ attempts \in [Nodes -> Nat]
        /\ worker \in [Nodes -> [pc : {"idle", "lookup", "attempt", "calling", "backoff", "done"},
                                  outcome : Outcomes]]
      BY <1>1 DEF TypeOK
  <2>3. \A st, o : Answer(n, st, o) => statuses'[n] = st /\ worker'[n].pc = "done"
      BY <2>2 DEF Answer
  <2>4. \A c \in {"attempt", "calling", "backoff"} : Go(n, c) => worker'[n].pc = c
      BY <2>2 DEF Go
  <2>5. CASE CacheHit(n)
      BY <2>3, <2>5 DEF CacheHit, Spared
  <2>6. CASE CacheMiss(n)
    <3>1. worker[n].pc = "lookup" /\ worker'[n].pc = "attempt" /\ UNCHANGED <<statuses, outputs, attempts>>
        BY <2>4, <2>6 DEF CacheMiss, InFlight
    <3> QED BY <1>2, <2>1, <3>1 DEF Spared
  <2>7. CASE Unresolved(n) \/ NoAttemptLeft(n)
    <3>1. worker'[n].pc = "done" /\ UNCHANGED <<statuses, outputs, attempts>>
        BY <2>2, <2>7 DEF Unresolved, NoAttemptLeft
    <3> QED BY <1>2, <2>1, <3>1 DEF Spared
  <2>8. CASE Attempt(n)
    <3>1. worker'[n].pc = "calling" /\ statuses'[n] = "running"
        BY <2>2, <2>4, <2>8 DEF Attempt
    <3> QED BY <1>2, <1>3, <3>1 DEF Spared
  <2>9. CASE Succeed(n)
    <3>1. outputs'[n] # {}
      <4>1. PICK ports \in Produces(n) : outputs' = [outputs EXCEPT ![n] = ports]
          BY <2>9 DEF Succeed
      <4>2. Produces(n) \subseteq {{"out"}, {"alt"}}
          BY DEF Produces
      <4>3. ports # {}
          BY <4>1, <4>2
      <4>4. outputs'[n] = ports
          BY <2>2, <4>1
      <4> QED BY <4>3, <4>4
    <3>2. statuses'[n] \in {"succeeded", "awaiting_approval"} /\ worker'[n].pc = "done"
        BY <2>3, <2>9 DEF Succeed
    <3> QED BY <3>1, <3>2 DEF Spared
  <2>10. CASE Cancel(n)
      BY <2>3, <2>10 DEF Cancel, Spared
  <2>11. CASE Ask(n)
      BY <1>8, <2>11 DEF Ask
  <2>12. CASE Retry(n)
    <3>1. worker'[n].pc = "backoff" /\ UNCHANGED <<statuses, outputs, attempts>> /\ attempts[n] < MaxAttempts(n)
        BY <2>4, <2>12 DEF Retry
    <3> QED BY <1>2, <2>1, <3>1 DEF Spared
  <2>13. CASE Fail(n)
    <3>1. statuses'[n] \in {"failed", "skipped"} /\ worker'[n].pc = "done"
        BY <2>3, <2>13 DEF Fail
    <3> QED BY <3>1 DEF Spared
  <2>14. CASE Backoff(n)
    <3>1. CASE Answer(n, "cancelled", "cancelled")
        BY <2>3, <3>1 DEF Spared
    <3>2. CASE Go(n, "attempt") /\ statuses' = statuses
      <4>1. worker[n].pc = "backoff" /\ worker'[n].pc = "attempt" /\ UNCHANGED <<outputs, attempts>>
          BY <2>4, <2>14, <3>2 DEF Backoff, InFlight
      <4> QED BY <1>2, <2>1, <3>2, <4>1 DEF Spared
    <3> QED BY <2>14, <3>1, <3>2 DEF Backoff
  <2> QED BY <2>5, <2>6, <2>7, <2>8, <2>9, <2>10, <2>11, <2>12, <2>13, <2>14 DEF NodeThread
<1> QED BY <1>2, <1>6, <1>7, <1>8 DEF GInv, Frugal

\* What the coordinator skips and takes up.
LEMMA SubmitGuarded ==
    ASSUME Sound, Ran, GInv, Skip \/ Submit
    PROVE  GInv'
<1>1. TypeOK /\ wf.gates \subseteq Nodes /\ cache \subseteq Nodes
    BY WorkflowFields DEF Sound, Books, TypeOK
<1>2. PICK n \in Nodes : n = NextReady /\ n \in ready
    BY <1>1, LeastNode DEF Skip, Submit, Admits, NextReady, TypeOK
<1>3. n \notin running /\ n \notin completed /\ worker[n].pc \in {"idle", "done"}
    BY <1>2 DEF Sound, Books, LedgerExact, ThreadsInFlight
<1>4. statuses[n] \notin Settled \cup {"awaiting_approval"}
    BY <1>3 DEF Ran, SettledApart
<1>5. UNCHANGED <<outputs, attempts, cache, gates, approved, wf>>
    BY DEF Skip, Submit, rest
<1>6. CASE Skip
  <2>1. /\ UNCHANGED <<worker, running>>
        /\ \A m \in Nodes \ {n} : statuses'[m] = statuses[m]
        /\ statuses'[n] \in {"cancelled", "skipped"}
      BY <1>1, <1>2, <1>6 DEF Skip, TypeOK
  <2>2. Guarded'
      BY <1>1, <1>4, <1>5, <2>1 DEF GInv, Guarded, Settled
  <2>3. Frugal'
      BY <1>3, <1>5, <2>1 DEF GInv, Frugal, Spared, MaxAttempts
  <2> QED BY <2>2, <2>3 DEF GInv
<1>7. CASE Submit
  <2>1. /\ statuses' = statuses /\ running' = running \cup {n}
        /\ \A m \in Nodes \ {n} : worker'[m] = worker[m]
        /\ worker'[n].pc = "lookup"
      BY <1>1, <1>2, <1>7 DEF Submit, TypeOK
  <2>2. Guarded'
      BY <1>5, <2>1 DEF GInv, Guarded
  <2>3. n \notin wf.asks => statuses[n] = "idle"
      BY <1>1, <1>2, <1>3, <1>4 DEF GInv, Frugal, Spared, TypeOK, NodeStatuses
  <2>4. Frugal'
      BY <1>5, <2>1, <2>3 DEF GInv, Frugal, Spared, MaxAttempts
  <2> QED BY <2>2, <2>4 DEF GInv
<1> QED BY <1>6, <1>7

\* What is seeded after the only node that held was approved.
LEMMA ResumeGuarded ==
    ASSUME Sound, Ran, Told, GInv, HoldsAlone, Resume
    PROVE  GInv'
<1>1. TypeOK /\ wf.gates \subseteq Nodes /\ cache \subseteq Nodes
    BY WorkflowFields DEF Sound, Books, TypeOK
<1>2. /\ resume.node = approvalNode /\ resume.statuses = statuses /\ resume.outputs = outputs /\ pc = "rest"
    BY DEF Resume, Sound, Books, RestWritten
<1>3. running = {}
    BY <1>2 DEF Told, Leaving
<1>4. /\ UNCHANGED <<attempts, cache, wf>> /\ approved' = approved \cup ({approvalNode} \ {NoNode})
      /\ gates' = gates \ {approvalNode} /\ statuses' = [m \in Nodes |-> Seeded(m)]
      /\ \A m \in Nodes : worker'[m].pc = "idle"
    BY <1>2 DEF Resume, GatesLeft, IdleWorkers
<1>5. NoNode \notin Nodes
    BY NodesAssumption DEF NoNode
<1>6. \A m \in Nodes : statuses[m] = "awaiting_approval" => m \in approved' /\ m = approvalNode
    BY <1>2, <1>4, <1>5, AwaitingIsHeld
<1>7. \A m \in Nodes : statuses[m] = "succeeded" => Seeded(m) = "succeeded" \/ m \in approved'
    BY <1>2, <1>4, <1>5 DEF Seeded, Settled
<1>8. \A m \in Nodes : Seeded(m) = "succeeded" => statuses[m] = "succeeded" \/ m \in approved'
    BY <1>2, <1>4, <1>5 DEF Seeded, Settled
<1>9. Guarded'
  <2>1. \A m \in cache \ wf.cached : m \in approved' \/ Seeded(m) = "succeeded"
      BY <1>1, <1>4, <1>6, <1>7 DEF GInv, Guarded
  <2>2. \A m \in wf.gates \ wf.cached : Seeded(m) = "succeeded" => m \in approved'
      BY <1>1, <1>4, <1>8 DEF GInv, Guarded
  <2>3. wf.gates \ approved' \subseteq gates'
      BY <1>1, <1>4, <1>5 DEF GInv, Guarded
  <2> QED BY <1>1, <1>4, <2>1, <2>2, <2>3 DEF Guarded
<1>10. ASSUME NEW m \in Nodes \ wf.asks PROVE Spared(m)'
  <2>1. Spared(m)
      BY DEF GInv, Frugal
  <2>2. CASE m = approvalNode
    <3>1. statuses[m] = "awaiting_approval"
        BY <1>5, <2>2 DEF Sound, Books, AwaitingRecorded
    <3>2. Seeded(m) = "succeeded"
        BY <1>2, <2>1, <2>2, <3>1 DEF Seeded, Spared
    <3> QED BY <1>4, <3>2 DEF Spared
  <2>3. CASE m # approvalNode
    <3>1. statuses[m] \in Settled \cup {"idle"}
        BY <1>1, <1>3, <1>6, <2>1, <2>3 DEF Spared, TypeOK, NodeStatuses
    <3>2. Seeded(m) = statuses[m]
        BY <1>2, <2>3, <3>1 DEF Seeded
    <3>3. statuses'[m] = statuses[m] /\ attempts'[m] = attempts[m] /\ worker'[m].pc = "idle"
        BY <1>4, <3>2
    <3> QED BY <2>1, <3>1, <3>3 DEF Spared, Settled
  <2> QED BY <2>2, <2>3
<1> QED BY <1>4, <1>9, <1>10 DEF GInv, Frugal

\* Every step keeps the checkpoints and the attempts, as long as no two nodes hold.
LEMMA NextGuarded == Sound /\ Ran /\ Told /\ GInv /\ HoldsAlone /\ [Next]_vars => GInv'
<1> SUFFICES ASSUME Sound, Ran, Told, GInv, HoldsAlone, [Next]_vars PROVE GInv'
    OBVIOUS
<1>1. CASE Collect
  <2>1. /\ UNCHANGED <<statuses, outputs, attempts, worker, cache, gates, approved, wf>>
        /\ running' = running \ Done /\ With("raised") = {}
      BY <1>1 DEF Collect, node, rest
  <2>2. \A m \in Done : statuses[m] # "running"
    <3> TAKE m \in Done
    <3>1. m \in running /\ worker[m].pc = "done" /\ worker[m].outcome # "raised"
        BY <2>1 DEF Done, With
    <3> QED BY <3>1 DEF Told, Answered, Agrees
  <2>3. Guarded'
      BY <2>1 DEF GInv, Guarded
  <2>4. Frugal'
      BY <2>1, <2>2 DEF GInv, Frugal, Spared, MaxAttempts
  <2> QED BY <2>3, <2>4 DEF GInv
<1>2. CASE Poll \/ EndSubmit \/ CollectRaised \/ Raise \/ EnterApproval \/ EnterPause \/ Conclude \/ Stop \/ Pause
            \/ UNCHANGED vars
  <2>1. UNCHANGED <<node, wf, running, gates, approved>>
      BY <1>2 DEF Poll, EndSubmit, CollectRaised, Raise, EnterApproval, EnterPause, Conclude, Stop, Pause,
                  vars, ledger, rest
  <2> QED BY <2>1 DEF node, GInv, Guarded, Frugal, Spared, MaxAttempts
<1> QED BY <1>1, <1>2, ThreadGuarded, SubmitGuarded, ResumeGuarded DEF Next, Coordinator

\* As long as no two nodes hold at once, nothing behind a checkpoint is ever attempted before its
\* node was approved: two that hold at once are the only way around a checkpoint
\* (_execute_node, _decide_and_resume).
THEOREM GatesStand == Spec /\ []HoldsAlone => []GateHolds
<1>1. Ran /\ GInv /\ TypeOK => GateHolds
  <2> SUFFICES ASSUME Ran, GInv, TypeOK, NEW e \in wf.edges, e.from \in wf.gates \ wf.cached, attempts[e.to] > 0
               PROVE  e.from \in approved \/ statuses[e.from] \in {"skipped", "failed"}
      BY DEF GateHolds
  <2>1. e.to \in Nodes /\ e \in Into(e.to)
      BY WorkflowFields DEF TypeOK, EdgeRecord, Into
  <2>2. IncomingActive(e.to)
      BY <2>1 DEF Ran, Fed
  <2>3. statuses[e.from] \in {"succeeded", "skipped", "failed"}
      BY <2>1, <2>2 DEF IncomingActive, Activated
  <2> QED BY <2>3 DEF GInv, Guarded
<1>2. Sound => TypeOK
    BY DEF Sound, Books
<1> QED BY <1>1, <1>2, AlwaysSound, InitRan, NextRan, InitTold, NextTold, InitGuarded, NextGuarded, PTL DEF Spec

\* As long as no two nodes hold at once, a node is out of attempts before it was taken up again
\* only if it asked for the approval itself (the attempt loop of _execute_node).
THEOREM AttemptsLast == Spec /\ []HoldsAlone => []OnlyAskersRunOut
<1>1. GInv /\ TypeOK => OnlyAskersRunOut
  <2> SUFFICES ASSUME GInv, TypeOK, NEW n \in Nodes, worker[n].pc = "attempt", attempts[n] >= MaxAttempts(n),
                      n \notin wf.asks
               PROVE  FALSE
      BY DEF OnlyAskersRunOut
  <2>1. attempts[n] < MaxAttempts(n)
      BY DEF GInv, Frugal, Spared
  <2>2. attempts[n] \in Nat /\ MaxAttempts(n) \in Nat
      BY AttemptsAllowed DEF TypeOK
  <2> QED BY <2>1, <2>2
<1>2. Sound => TypeOK
    BY DEF Sound, Books
<1> QED BY <1>1, <1>2, AlwaysSound, InitRan, NextRan, InitTold, NextTold, InitGuarded, NextGuarded, PTL DEF Spec

\* Checkpoints in a row are never passed without an approval, and take no attempt from a node
\* that did not ask (_execute_node, _decide_and_resume).
THEOREM RowGatesStand ==
    ASSUME \A w \in Workflows : InARow(w)
    PROVE  Spec => []GateHolds /\ []OnlyAskersRunOut
BY RowHoldsAlone, GatesStand, AttemptsLast, PTL
=============================================================================

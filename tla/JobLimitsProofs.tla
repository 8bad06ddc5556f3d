--------------------------- MODULE JobLimitsProofs ---------------------------
(***************************************************************************)
(* The limits of JobRepair, for any number of executions, threads and      *)
(* defects: the repairs that the budget of a Job allows, and those that    *)
(* one driver makes of one defect.  The arguments: an account of what was  *)
(* generated, what was charged and what a plan has admitted; and the       *)
(* attempts that the open issue of a defect records.  Then the end of a Job that is run by one    *)
(* execution: what a thread read of the two is true enough to write.       *)
(***************************************************************************)
EXTENDS JobRepairProofs

-----------------------------------------------------------------------------
(* The budget.                                                              *)

\* One driver, one execution, no restart.
Fair == ~overlap /\ Cardinality(Started) <= 1 /\ crashes = 0

\* The run of the Job has ended, and will not go on.
Over == Started # {} /\ \A e \in Started : execution[e] \in Runs!Terminal

\* The end of the run is known to the Job, or to a thread that is about to write it.
Due == \/ Terminal(job.status)
       \/ Driving # {}
       \/ repairs > 0
       \/ \E t \in Threads : At(t, "reload") /\ Terminal(thread[t].derived)

\* What the Job has cost, and more, stays within a bound.
Fits(more, bound) == \A e \in Started : generated[e] + repairs + more <= bound

\* The issue a driver repairs.
Current(t) == First(driver[t].todo)

\* The Job was charged for all that it has cost, or was and has lost the credit, but for
\* the repair being charged.
Paid == \/ Fits(0, job.spent + lost)
        \/ \E t \in Threads : At(t, "charge") /\ Fits(0, job.spent + lost + Estimate(Current(t)))

\* What a driver may still repair.
InBudget(t) ==
    LET r == driver[t]
    IN  /\ At(t, "apply") => Fits(0, r.spent + lost) /\ r.spent + Charges(r.admitted) <= Ceiling
        /\ At(t, "regenerate") => Fits(Charges(r.todo), Ceiling + lost)
        /\ At(t, "charge") => Fits(0, r.spent + lost + Estimate(Current(t)))
        /\ At(t, "charge") \/ At(t, "record")
             => Fits(Charges(r.todo), Ceiling + lost + Estimate(Current(t)))

\* A sync that has read an end has read all that the run has generated.
Complete(t) == Over /\ \A e \in Started : generated[e] <= thread[t].spent

Accounted ==
    /\ Due => Over /\ Paid
    /\ \A t \in Threads : At(t, "write") /\ Terminal(thread[t].derived) => Complete(t)
    /\ \A t \in Threads : InBudget(t)
    /\ repairs > 0 => Fits(0, Ceiling + lost)

BInv ==
    /\ ~overlap => \A t, u \in Driving : t = u
    /\ Fair => Accounted

\* An end is never moved away from, and a restart leaves ends alone.
LEMMA MoveKeepsEnds ==
    ASSUME execution \in [Executions -> Runs!Statuses], NEW e \in Executions,
           NEW from, NEW to, from \cap Runs!Terminal = {}, Runs!Move(e, from, to)
    PROVE  \A x \in Executions : execution[x] \in Runs!Terminal => execution'[x] = execution[x]
BY DEF Runs!Move

\* What the engine does takes no execution back: an end stays, and what was started was started.
LEMMA EngineKeepsEnds ==
    ASSUME JobTypeOK, NEW e \in Executions,
           \/ Runs!Submit(e) \/ Runs!Admit(e) \/ Runs!Settle(e) \/ Runs!Withdraw(e)
           \/ Runs!Requeue(e) \/ Runs!Refuse(e) \/ Runs!Abandon(e)
    PROVE  \A x \in Executions : /\ execution[x] \in Runs!Terminal => execution'[x] = execution[x]
                                 /\ execution[x] # "none" => execution'[x] # "none"
<1>1. execution \in [Executions -> Runs!Statuses]
    BY DEF JobTypeOK
<1>2. /\ {"none"} \cap Runs!Terminal = {} /\ {"queued"} \cap Runs!Terminal = {}
      /\ {"running"} \cap Runs!Terminal = {} /\ {"awaiting_approval"} \cap Runs!Terminal = {}
      /\ {"paused"} \cap Runs!Terminal = {} /\ Runs!Durable \cap Runs!Terminal = {}
    BY DEF Runs!Terminal, Runs!Durable
<1>3. /\ {"queued"} \in SUBSET (Runs!Statuses \ {"none"})
      /\ {"running"} \in SUBSET (Runs!Statuses \ {"none"})
      /\ {"cancelled"} \in SUBSET (Runs!Statuses \ {"none"})
      /\ {"failed", "cancelled"} \in SUBSET (Runs!Statuses \ {"none"})
      /\ Runs!Terminal \cup Runs!Durable \in SUBSET (Runs!Statuses \ {"none"})
    BY DEF Runs!Statuses, Runs!Terminal, Runs!Durable
<1>4. \A x \in Executions : execution[x] \in Runs!Terminal => execution'[x] = execution[x]
    BY <1>1, <1>2, MoveKeepsEnds DEF Runs!Submit, Runs!Admit, Runs!Settle, Runs!Withdraw, Runs!Requeue,
       Runs!Refuse, Runs!Abandon
<1>5. \A x \in Executions : execution[x] # "none" => execution'[x] # "none"
    BY <1>1, <1>3, MoveTyped DEF Runs!Submit, Runs!Admit, Runs!Settle, Runs!Withdraw, Runs!Requeue,
       Runs!Refuse, Runs!Abandon
<1> QED BY <1>4, <1>5

\* The kinds of steps.
LEMMA StepKinds ==
    ASSUME Next
    PROVE  /\ Noted
           /\ \/ \E t \in Threads : Request(t) /\ UNCHANGED repairVars
              \/ \E t \in Threads : Cycle(t)
              \/ /\ \E t \in Threads : WaitTimesOut(t) \/ \E op \in Polls \cup Orders : Begin(t, op)
                 /\ UNCHANGED repairVars
              \/ (Work \/ EndElsewhere) /\ UNCHANGED repairVars
              \/ Restart /\ driver' = [t \in Threads |-> Apart] /\ UNCHANGED <<issues, repairs>>
              \/ \E t \in Threads, d \in Defects : Retry(t, d)
<1>1. ASSUME NEW t \in Threads, Go(t)
      PROVE  Noted /\ ((Request(t) /\ UNCHANGED repairVars) \/ Cycle(t))
  <2>1. ((Request(t) /\ UNCHANGED repairVars) \/ Cycle(t)) /\ Noted
      BY <1>1, Zenon DEF Go
  <2> QED BY <2>1
<1>2. ASSUME NEW op \in Polls, Poll(op)
      PROVE  Noted /\ UNCHANGED repairVars /\ \E t \in Threads : Begin(t, op)
    BY <1>2 DEF Poll
<1>3. CASE Worked
    BY <1>3 DEF Worked
<1>4. CASE Chance
    BY <1>4 DEF Chance
<1> QED BY <1>1, <1>2, <1>3, <1>4 DEF Next

\* What a cycle leaves alone.
LEMMA CycleFrame ==
    ASSUME TInv, NEW t \in Threads, Cycle(t) \/ \E d \in Defects : Retry(t, d)
    PROVE  /\ UNCHANGED <<execution, generated, crashes>> /\ job'.execution = job.execution
           /\ \A u \in Threads \ {t} : thread'[u] = thread[u] /\ driver'[u] = driver[u]
<1>1. thread \in [Threads -> Doings] /\ driver \in [Threads -> Memories] /\ job \in Job
    BY DEF TInv, JobTypeOK, Repairing, Doings
<1>2. UNCHANGED <<execution, generated, crashes>>
    BY DEF Cycle, PlanNothing, Plan, Apply, Applied, Regenerate, Charge, Record, Review, Carry, Retry,
           Elsewhere, engine
<1>3. job'.execution = job.execution
    BY <1>1 DEF Cycle, PlanNothing, Plan, Apply, Applied, Regenerate, Charge, Record, Review, Carry, Retry, Job
<1>4. \A u \in Threads \ {t} : thread'[u] = thread[u]
    BY <1>1 DEF Cycle, PlanNothing, Plan, Apply, Applied, Regenerate, Charge, Record, Review, Carry, Retry,
                NextCycle, Leave, Goto, Done, Set
<1>5. \A u \in Threads \ {t} : driver'[u] = driver[u]
    BY <1>1 DEF Cycle, PlanNothing, Plan, Apply, Applied, Regenerate, Charge, Record, Review, Carry, Retry,
                NextCycle, Leave, Drive
<1> QED BY <1>2, <1>3, <1>4, <1>5

\* Executions stay started, and ends stay ends.
LEMMA EngineSteps ==
    ASSUME TInv, Next
    PROVE  /\ \A x \in Executions : /\ execution[x] \in Runs!Terminal => execution'[x] = execution[x]
                                    /\ execution[x] # "none" => execution'[x] # "none"
           /\ crashes \in Nat /\ crashes' \in Nat /\ crashes <= crashes'
<1> DEFINE Kept == \A x \in Executions : /\ execution[x] \in Runs!Terminal => execution'[x] = execution[x]
                                         /\ execution[x] # "none" => execution'[x] # "none"
<1>0. JobTypeOK /\ Linked /\ crashes \in Nat /\ execution \in [Executions -> Runs!Statuses]
    BY CountsAssumption DEF TInv, JobTypeOK
<1>1. ASSUME NEW t \in Threads, Request(t)
      PROVE  Kept /\ crashes' = crashes
  <2>1. CASE Launch(t) \/ Continue(t) \/ Reject(t)
    <3>1. \E e \in Executions : Runs!Submit(e) \/ Runs!Requeue(e) \/ Runs!Refuse(e)
        BY <1>0, <2>1 DEF Launch, Continue, Reject, Linked, At
    <3> QED BY <1>0, <2>1, <3>1, EngineKeepsEnds DEF Launch, Continue, Reject
  <2>2. CASE ~(Launch(t) \/ Continue(t) \/ Reject(t))
      BY <1>1, <2>2 DEF Request, Link, WaitOver, SyncRead, SyncWrite, SyncReload, PauseRun, Refused, Mark, engine
  <2> QED BY <2>1, <2>2
<1>2. ASSUME NEW t \in Threads, Cycle(t) \/ \E d \in Defects : Retry(t, d)
      PROVE  Kept /\ crashes' = crashes
    BY <1>2, CycleFrame
<1>3. ASSUME NEW t \in Threads, WaitTimesOut(t) \/ \E op \in Polls \cup Orders : Begin(t, op)
      PROVE  Kept /\ crashes' = crashes
    BY <1>3 DEF WaitTimesOut, Begin, engine
<1>4. CASE Work \/ EndElsewhere
  <2>1. PICK e \in Executions : \/ Runs!Admit(e) \/ Runs!Settle(e) \/ Runs!Withdraw(e) \/ Runs!Refuse(e)
                               \/ Runs!Abandon(e) \/ UNCHANGED execution
      BY <1>4 DEF Work, EndElsewhere, Generate
  <2>2. Kept
      BY <1>0, <2>1, EngineKeepsEnds
  <2>3. crashes' = crashes
      BY <1>4 DEF Work, EndElsewhere
  <2> QED BY <1>0, <2>2, <2>3
<1>5. CASE Restart
  <2>1. Kept
    <3>1. CASE Runs!Recover
        BY <1>0, <3>1 DEF Runs!Recover, Runs!Terminal
    <3>2. CASE UNCHANGED execution
        BY <3>2
    <3> QED BY <1>5, <3>1, <3>2 DEF Restart
  <2> QED BY <1>0, <1>5, <2>1 DEF Restart
<1> QED BY <1>0, <1>1, <1>2, <1>3, <1>4, <1>5, StepKinds

\* There are finitely many executions and threads.
LEMMA StartedFinite ==
    ASSUME NEW S \in SUBSET Executions
    PROVE  IsFiniteSet(S) /\ Cardinality(S) \in Nat
BY ExecutionsAssumption, FS_Subset, FS_CardinalityType

\* A fair history was fair before; a credit that its Job does not have any more is lost, and
\* the end of its run stays.
LEMMA FairSteps ==
    ASSUME TInv, Next, Fair'
    PROVE  /\ Fair /\ Started \subseteq Started'
           /\ job.spent + lost <= job'.spent + lost' /\ lost <= lost' /\ lost' \in Nat
           /\ job'.spent \in Nat
           /\ Over => Over' /\ Started' = Started
<1>1. Noted
    BY StepKinds
<1>2. /\ ~overlap /\ job'.spent \in Nat /\ lost' \in Nat
      /\ job.spent + lost <= job'.spent + lost' /\ lost <= lost'
  <2>1. job \in Job /\ job' \in Job /\ lost \in Nat
      BY TInvNext DEF TInv, JobTypeOK, Repairing
  <2>2. /\ ~overlap
        /\ lost' = lost + (IF job'.spent < job.spent THEN job.spent - job'.spent ELSE 0)
      BY <1>1 DEF Fair, Noted
  <2>3. job.spent \in Nat /\ job'.spent \in Nat
      BY <2>1 DEF Job
  <2> QED BY <2>1, <2>2, <2>3
<1>3. Started \subseteq Started' /\ Started' \subseteq Executions
    BY EngineSteps DEF Started
<1>4. Cardinality(Started) <= Cardinality(Started') /\ Cardinality(Started) \in Nat
      /\ (Cardinality(Started) = Cardinality(Started') => Started = Started')
    BY <1>3, StartedFinite, FS_Subset
<1>5. Cardinality(Started') <= 1 /\ crashes' = 0
    BY DEF Fair
<1>6. Fair
  <2>1. crashes = 0
      BY <1>5, EngineSteps
  <2>2. Cardinality(Started') \in Nat
      BY <1>3, StartedFinite
  <2>3. Cardinality(Started) <= 1
      BY <1>4, <1>5, <2>2
  <2> QED BY <1>2, <2>1, <2>3 DEF Fair
<1>7. ASSUME Over PROVE Over' /\ Started' = Started
  <2>1. Cardinality(Started) # 0
      BY <1>3, <1>7, StartedFinite, FS_EmptySet DEF Over
  <2>2. Started' = Started
    <3>1. Cardinality(Started') \in Nat
        BY <1>3, StartedFinite
    <3> QED BY <1>4, <1>5, <2>1, <3>1
  <2>3. Over'
      BY <1>3, <1>7, <2>2, EngineSteps DEF Over
  <2> QED BY <2>2, <2>3
<1> QED BY <1>2, <1>3, <1>6, <1>7

\* Where each request leaves its thread.
LEMMA RequestPosts ==
    ASSUME JobTypeOK, NEW t \in Threads
    PROVE  /\ Launch(t) => thread'[t].pc = "link"
           /\ Link(t) \/ Mark(t) => thread'[t].pc \in {"wait", "idle"}
           /\ WaitOver(t) \/ Reject(t) => thread'[t].pc = "read"
           /\ WaitTimesOut(t) => thread'[t].pc \in {"read", "idle"}
           /\ SyncRead(t) => /\ thread'[t].pc = "write" /\ thread'[t].execution = job.execution
                             /\ thread'[t].terminal = Terminal(job.status)
                             /\ thread'[t].derived = DeriveJobStatus(execution[job.execution])
                             /\ thread'[t].spent = SpentBy(job.execution)
           /\ SyncWrite(t) => /\ thread'[t].pc = "reload" /\ thread'[t].execution = thread[t].execution
                              /\ thread'[t].derived = thread[t].derived
           /\ SyncReload(t) => \/ thread'[t].pc = "idle"
                               \/ thread'[t].pc = "act" /\ thread'[t].execution = job.execution
                                  /\ job'.status = Wanted(thread[t].op)
                               \/ thread'[t].pc = "plan" /\ Terminal(job'.status)
           /\ Continue(t) => thread'[t].pc = "mark" /\ thread'[t].execution = thread[t].execution
           /\ PauseRun(t) => thread'[t].pc = "wait"
           /\ Refused(t) => thread'[t].pc = "idle"
           /\ \A op \in Polls \cup Orders :
                Begin(t, op) => thread'[t].pc = IF op = "start" THEN "launch" ELSE "read"
<1>1. thread \in [Threads -> Doings] /\ thread[t] \in Doings
    BY DEF JobTypeOK, Doings
<1>2. ASSUME NEW new, Set(t, new) PROVE thread'[t] = new
    BY <1>1, <1>2 DEF Set
<1>3. Idle.pc = "idle" /\ [Idle EXCEPT !.pc = "read"].pc = "read"
    BY DEF Idle
<1>4. ASSUME Launch(t) PROVE thread'[t].pc = "link"
  <2>1. PICK e \in Executions : Set(t, [thread[t] EXCEPT !.pc = "link", !.execution = e])
      BY <1>4 DEF Launch
  <2>2. [thread[t] EXCEPT !.pc = "link", !.execution = e].pc = "link"
      BY <1>1 DEF Doings
  <2> QED BY <1>2, <2>1, <2>2
<1>5. ASSUME Link(t) \/ Mark(t) PROVE thread'[t].pc \in {"wait", "idle"}
  <2>1. \/ Set(t, Idle)
        \/ Set(t, [Idle EXCEPT !.op = "finalize", !.pc = "wait", !.execution = thread[t].execution])
        \/ Set(t, [Idle EXCEPT !.op = "finalize", !.pc = "wait", !.execution = job.execution])
      BY <1>5 DEF Link, Mark, Finalize, Done
  <2>2. /\ [Idle EXCEPT !.op = "finalize", !.pc = "wait", !.execution = thread[t].execution].pc = "wait"
        /\ [Idle EXCEPT !.op = "finalize", !.pc = "wait", !.execution = job.execution].pc = "wait"
      BY DEF Idle
  <2> QED BY <1>2, <1>3, <2>1, <2>2
<1>6. ASSUME WaitOver(t) \/ Reject(t) PROVE thread'[t].pc = "read"
  <2>1. \/ Set(t, [Idle EXCEPT !.pc = "read"])
        \/ Set(t, [Idle EXCEPT !.op = "finalize", !.pc = "read", !.stage = "finish"])
      BY <1>6 DEF WaitOver, Reject, LastSync
  <2>2. [Idle EXCEPT !.op = "finalize", !.pc = "read", !.stage = "finish"].pc = "read"
      BY DEF Idle
  <2> QED BY <1>2, <1>3, <2>1, <2>2
<1>7. ASSUME WaitTimesOut(t) PROVE thread'[t].pc \in {"read", "idle"}
    BY <1>2, <1>3, <1>7 DEF WaitTimesOut, Done, LastSync
<1>8. ASSUME SyncRead(t)
      PROVE  /\ thread'[t].pc = "write" /\ thread'[t].execution = job.execution
             /\ thread'[t].terminal = Terminal(job.status)
             /\ thread'[t].derived = DeriveJobStatus(execution[job.execution])
             /\ thread'[t].spent = SpentBy(job.execution)
  <2> DEFINE a == Terminal(job.status)
             b == DeriveJobStatus(execution[job.execution])
             c == SpentBy(job.execution)
             new == [thread[t] EXCEPT !.pc = "write", !.execution = job.execution,
                                      !.terminal = a, !.derived = b, !.spent = c]
  <2>1. thread'[t] = new
      BY <1>2, <1>8 DEF SyncRead
  <2> HIDE DEF a, b, c
  <2>2. /\ new.pc = "write" /\ new.execution = job.execution /\ new.terminal = a /\ new.derived = b
        /\ new.spent = c
      BY <1>1 DEF Doings
  <2> QED BY <2>1, <2>2 DEF a, b, c
<1>9. ASSUME SyncWrite(t)
      PROVE  /\ thread'[t].pc = "reload" /\ thread'[t].execution = thread[t].execution
             /\ thread'[t].derived = thread[t].derived
  <2>1. thread'[t] = [thread[t] EXCEPT !.pc = "reload", !.terminal = FALSE, !.spent = 0]
      BY <1>2, <1>9 DEF SyncWrite
  <2> QED BY <1>1, <2>1 DEF Doings
<1>10. ASSUME SyncReload(t)
       PROVE  \/ thread'[t].pc = "idle"
              \/ thread'[t].pc = "act" /\ thread'[t].execution = job.execution
                 /\ job'.status = Wanted(thread[t].op)
              \/ thread'[t].pc = "plan" /\ Terminal(job'.status)
  <2> DEFINE status == IF Terminal(thread[t].derived) THEN thread[t].derived ELSE job.status
  <2>1. job'.status = status
      BY <1>10 DEF SyncReload, JobTypeOK, Job
  <2>2. \/ Set(t, Idle)
        \/ /\ Set(t, [Idle EXCEPT !.op = thread[t].op, !.pc = "act", !.execution = job.execution])
           /\ status = Wanted(thread[t].op)
        \/ Set(t, [Idle EXCEPT !.op = "finalize", !.pc = "plan"]) /\ Terminal(status)
      BY <1>10 DEF SyncReload, Done
  <2>3. /\ [Idle EXCEPT !.op = thread[t].op, !.pc = "act", !.execution = job.execution].pc = "act"
        /\ [Idle EXCEPT !.op = thread[t].op, !.pc = "act", !.execution = job.execution].execution = job.execution
        /\ [Idle EXCEPT !.op = "finalize", !.pc = "plan"].pc = "plan"
      BY DEF Idle
  <2> HIDE DEF status
  <2> QED BY <1>2, <1>3, <2>1, <2>2, <2>3
<1>11. ASSUME Continue(t) PROVE thread'[t].pc = "mark" /\ thread'[t].execution = thread[t].execution
  <2>1. thread'[t] = [thread[t] EXCEPT !.pc = "mark"]
      BY <1>2, <1>11 DEF Continue, Goto
  <2> QED BY <1>1, <2>1 DEF Doings
<1>12. ASSUME PauseRun(t) PROVE thread'[t].pc = "wait"
  <2>1. thread'[t] = [thread[t] EXCEPT !.pc = "wait"]
      BY <1>2, <1>12 DEF PauseRun, Goto
  <2> QED BY <1>1, <2>1 DEF Doings
<1>13. ASSUME Refused(t) PROVE thread'[t].pc = "idle"
    BY <1>2, <1>3, <1>13 DEF Refused, Done
<1>14. ASSUME NEW op \in Polls \cup Orders, Begin(t, op)
       PROVE  thread'[t].pc = IF op = "start" THEN "launch" ELSE "read"
  <2> DEFINE pc == IF op = "start" THEN "launch" ELSE "read"
             new == [Idle EXCEPT !.op = IF op \in Polls THEN "none" ELSE op,
                                 !.pc = pc,
                                 !.stage = IF op \in Polls THEN "end" ELSE "judge"]
  <2>1. thread'[t] = new
      BY <1>2, <1>14 DEF Begin
  <2> HIDE DEF pc
  <2>2. new.pc = pc
      BY DEF Idle
  <2> QED BY <2>1, <2>2 DEF pc
<1> QED BY <1>4, <1>5, <1>6, <1>7, <1>8, <1>9, <1>10, <1>11, <1>12, <1>13, <1>14

\* Only a run that goes on generates, and only the engine sees to it.
LEMMA GeneratedStays ==
    ASSUME TInv, Next
    PROVE  generated' = generated \/ (Work /\ ~Over)
<1>1. ASSUME Work, generated' # generated
      PROVE  ~Over
  <2>1. PICK e \in Executions : Generate(e)
      BY <1>1 DEF Work
  <2>2. e \in Started /\ execution[e] \notin Runs!Terminal
      BY <2>1 DEF Generate, Started, Runs!Terminal
  <2> QED BY <2>2 DEF Over
<1>2. generated' = generated \/ Work
    BY StepKinds, CycleFrame DEF Request, WaitTimesOut, Begin, Launch, Link, WaitOver, SyncRead, SyncWrite,
       SyncReload, Continue, Reject, PauseRun, Refused, Mark, EndElsewhere, Restart, engine
<1> QED BY <1>1, <1>2

\* There is one driver as long as none have overlapped.
LEMMA AloneStays ==
    ASSUME Noted
    PROVE  ~overlap' => \A t, u \in Driving' : t = u
<1> SUFFICES ASSUME ~overlap' PROVE \A t, u \in Driving' : t = u
    OBVIOUS
<1>1. ~(Cardinality(Driving') > 1)
    BY DEF Noted
<1>2. Driving' \in SUBSET Threads
    BY DEF Driving
<1>3. IsFiniteSet(Driving') /\ Cardinality(Driving') \in Nat
    BY <1>2, ThreadsAssumption, FS_Subset, FS_CardinalityType
<1>4. Cardinality(Driving') = 0 \/ Cardinality(Driving') = 1
    BY <1>1, <1>3
<1> QED BY <1>3, <1>4, FS_EmptySet, FS_Singleton

\* What is accounted for are numbers.
LEMMA AccountTyped ==
    ASSUME TInv
    PROVE  /\ repairs \in Nat /\ lost \in Nat /\ job.spent \in Nat /\ Ceiling \in Nat
           /\ \A e \in Started : generated[e] \in Nat
           /\ \A t \in Threads : driver[t].spent \in Nat /\ thread[t].spent \in Nat
<1>1. generated \in [Executions -> 0..ProviderNodes] /\ repairs \in Nat /\ lost \in Nat /\ job \in Job
    BY DEF TInv, JobTypeOK, Repairing
<1>2. \A e \in Started : generated[e] \in Nat
    BY <1>1, ProviderNodesAssumption DEF Started
<1>3. \A t \in Threads : driver[t].spent \in Nat
    BY DriverTyped DEF Memories
<1>4. \A t \in Threads : thread[t].spent \in Nat
    BY ProviderNodesAssumption DEF TInv, JobTypeOK
<1> QED BY <1>1, <1>2, <1>3, <1>4, CountsAssumption DEF Job

\* What the Job has cost after the step.
FitsNext(more, bound) == \A e \in Started' : generated'[e] + repairs' + more <= bound

\* A bound that grows, for a Job that has cost no more, still fits.
LEMMA FitsStays ==
    ASSUME TInv, Started' = Started, generated' = generated, repairs' = repairs,
           NEW more \in Nat, NEW less \in Nat, less <= more,
           NEW bound \in Nat, NEW higher \in Nat, bound <= higher, Fits(more, bound)
    PROVE  FitsNext(less, higher)
<1>1. repairs \in Nat /\ \A e \in Started : generated[e] \in Nat
    BY AccountTyped
<1>2. \A e \in Started : generated[e] + repairs + more <= bound
    BY DEF Fits
<1>3. \A e \in Started : generated[e] + repairs + less <= higher
    BY <1>1, <1>2
<1> QED BY <1>3 DEF FitsNext

\* What a set of repairs is expected to generate is counted issue by issue.
LEMMA ChargesTyped ==
    ASSUME NEW S, IsFiniteSet(S)
    PROVE  /\ Charges(S) \in Nat
           /\ \A i : i \notin S => Charges(S \cup {i}) = Charges(S) + Estimate(i)
           /\ \A i \in S : Charges(S \ {i}) \in Nat /\ Charges(S) = Charges(S \ {i}) + Estimate(i)
<1> DEFINE B(T) == {i \in T : issues[i].defect \in Billed}
<1>1. IsFiniteSet(B(S)) /\ Cardinality(B(S)) \in Nat /\ Charges(S) = Cardinality(B(S))
    BY FS_Subset, FS_CardinalityType DEF Charges
<1>0. \A T : Charges(T) = Cardinality(B(T))
    BY DEF Charges
<1>2. ASSUME NEW i, i \notin S
      PROVE  Charges(S \cup {i}) = Charges(S) + Estimate(i)
  <2>3. Estimate(i) = IF issues[i].defect \in Billed THEN 1 ELSE 0
      BY DEF Estimate
  <2>1. CASE issues[i].defect \in Billed
    <3>1. B(S \cup {i}) = B(S) \cup {i} /\ i \notin B(S)
        BY <1>2, <2>1
    <3>2. Cardinality(B(S) \cup {i}) = Cardinality(B(S)) + 1
        BY <1>1, <3>1, FS_AddElement
    <3> HIDE DEF B
    <3> QED BY <1>0, <1>1, <2>1, <2>3, <3>1, <3>2
  <2>2. CASE issues[i].defect \notin Billed
    <3>1. B(S \cup {i}) = B(S)
        BY <1>2, <2>2
    <3> HIDE DEF B
    <3> QED BY <1>0, <1>1, <2>2, <2>3, <3>1
  <2> QED BY <2>1, <2>2
<1>3. ASSUME NEW i \in S
      PROVE  Charges(S \ {i}) \in Nat /\ Charges(S) = Charges(S \ {i}) + Estimate(i)
  <2>3. Estimate(i) = IF issues[i].defect \in Billed THEN 1 ELSE 0
      BY DEF Estimate
  <2>1. CASE issues[i].defect \in Billed
    <3>1. B(S \ {i}) = B(S) \ {i} /\ i \in B(S)
        BY <2>1
    <3>2. Cardinality(B(S) \ {i}) = Cardinality(B(S)) - 1 /\ IsFiniteSet(B(S) \ {i})
        BY <1>1, <3>1, FS_RemoveElement
    <3>3. Cardinality(B(S) \ {i}) \in Nat
        BY <3>2, FS_CardinalityType
    <3> HIDE DEF B
    <3>4. Charges(S \ {i}) = Cardinality(B(S) \ {i})
        BY <1>0, <3>1
    <3> QED BY <1>1, <2>1, <2>3, <3>2, <3>3, <3>4
  <2>2. CASE issues[i].defect \notin Billed
    <3>1. B(S \ {i}) = B(S)
        BY <2>2
    <3> HIDE DEF B
    <3> QED BY <1>0, <1>1, <2>2, <2>3, <3>1
  <2> QED BY <2>1, <2>2
<1> QED BY <1>1, <1>2, <1>3

\* It is about the defects of the issues only.
LEMMA ChargesStay ==
    ASSUME NEW S, \A i \in S : issues'[i].defect = issues[i].defect
    PROVE  /\ Cardinality({i \in S : issues'[i].defect \in Billed}) = Charges(S)
           /\ \A i \in S : Estimate(i)' = Estimate(i)
<1>1. {i \in S : issues'[i].defect \in Billed} = {i \in S : issues[i].defect \in Billed}
    OBVIOUS
<1> QED BY <1>1 DEF Charges, Estimate

\* A plan is about finitely many issues.
LEMMA PlannedFinite ==
    ASSUME TInv, NEW t \in Threads
    PROVE  /\ IsFiniteSet(driver[t].todo) /\ IsFiniteSet(driver[t].admitted)
           /\ driver[t].todo \subseteq Ids /\ driver[t].admitted \subseteq Ids
<1>1. IsFiniteSet(1..Len(issues)) /\ Ids = 1..Len(issues)
    BY DriverTyped, FS_Interval
<1>2. driver[t].todo \in SUBSET Ids /\ driver[t].admitted \in SUBSET Ids
    BY DriverTyped DEF Remembered
<1> QED BY <1>1, <1>2, FS_Subset

\* A step outside the cycles that generates nothing keeps the account.
LEMMA OutsideAccounted ==
    ASSUME TInv, Accounted, Next, Fair', generated' = generated, UNCHANGED <<driver, repairs>>,
           UNCHANGED issues \/ \A t \in Threads : thread'[t].pc \notin DRIVING \ {"plan"},
           \A t \in Threads : \/ thread'[t] = thread[t]
                              \/ thread[t].pc \notin DRIVING /\ thread'[t].pc \notin DRIVING \ {"plan"},
           Due' => Due \/ (Over /\ Fits(0, job'.spent + lost)),
           \A t \in Threads : thread'[t].pc = "write" /\ Terminal(thread'[t].derived)
              => Over /\ \A e \in Started : generated[e] <= thread'[t].spent
    PROVE  Accounted'
<1>1. /\ job.spent + lost <= job'.spent + lost' /\ lost <= lost' /\ (Over => Over' /\ Started' = Started)
      /\ lost \in Nat /\ job.spent \in Nat /\ job'.spent \in Nat /\ lost' \in Nat /\ Ceiling \in Nat
      /\ repairs \in Nat
    BY FairSteps, AccountTyped
<1>2. ASSUME NEW t \in Threads, thread'[t].pc \in DRIVING \ {"plan"}
      PROVE  thread'[t] = thread[t] /\ issues' = issues
    BY <1>2
<1>3. Driving # {} => Due
    BY DEF Due
<1>4. Due' => Over' /\ Paid'
  <2>1. CASE Due
    <3>1. Over /\ Over' /\ Started' = Started
        BY <1>1, <2>1 DEF Accounted
    <3>2. CASE Fits(0, job.spent + lost)
      <4>1. FitsNext(0, job'.spent + lost')
          BY <1>1, <3>1, <3>2, FitsStays
      <4> QED BY <3>1, <4>1 DEF Paid, Fits, FitsNext
    <3>3. ASSUME NEW t \in Threads, At(t, "charge"), Fits(0, job.spent + lost + Estimate(Current(t)))
          PROVE  Paid'
      <4>1. thread'[t] = thread[t] /\ issues' = issues
        <5>1. thread[t].pc \in DRIVING
            BY <3>3 DEF At, DRIVING
        <5>2. thread'[t] = thread[t]
            BY <5>1
        <5> QED BY <1>2, <3>3, <5>2 DEF At, DRIVING
      <4>2. Estimate(Current(t))' = Estimate(Current(t)) /\ At(t, "charge")'
          BY <3>3, <4>1 DEF Estimate, Current, At
      <4>3. Estimate(Current(t)) \in Nat
          BY EstimateTyped
      <4>4. FitsNext(0, job'.spent + lost' + Estimate(Current(t)))
          BY <1>1, <3>1, <3>3, <4>3, FitsStays
      <4> QED BY <4>2, <4>4 DEF Paid, Fits, FitsNext
    <3> QED BY <2>1, <3>1, <3>2, <3>3 DEF Accounted, Paid
  <2>2. CASE ~Due /\ Due'
    <3>1. Over /\ Fits(0, job'.spent + lost)
        BY <2>2
    <3>2. FitsNext(0, job'.spent + lost')
        BY <1>1, <3>1, FitsStays
    <3> QED BY <1>1, <3>1, <3>2 DEF Paid, Fits, FitsNext
  <2> QED BY <2>1, <2>2
<1>5. ASSUME NEW t \in Threads
      PROVE  InBudget(t)'
  <2>1. CASE thread'[t].pc \notin DRIVING \ {"plan"}
      BY <2>1 DEF InBudget, At, DRIVING
  <2>2. CASE thread'[t].pc \in DRIVING \ {"plan"}
    <3>1. thread'[t] = thread[t] /\ issues' = issues /\ driver' = driver
        BY <1>2, <2>2
    <3>2. Started' = Started
      <4>1. t \in Driving
          BY <2>2, <3>1 DEF Driving, DRIVING
      <4> QED BY <1>1, <1>3, <4>1 DEF Accounted
    <3>3. /\ Charges(driver[t].admitted)' = Charges(driver[t].admitted)
          /\ Charges(driver[t].todo)' = Charges(driver[t].todo)
          /\ Estimate(Current(t))' = Estimate(Current(t))
        BY <3>1 DEF Charges, Estimate, Current
    <3>4. Charges(driver[t].todo) \in Nat /\ Estimate(Current(t)) \in Nat /\ driver[t].spent \in Nat
      <4>1. IsFiniteSet(driver[t].todo)
          BY PlannedFinite
      <4> QED BY <4>1, ChargesTyped, EstimateTyped, AccountTyped
    <3>5. /\ Fits(0, driver[t].spent + lost) => FitsNext(0, driver[t].spent + lost')
          /\ Fits(Charges(driver[t].todo), Ceiling + lost) => FitsNext(Charges(driver[t].todo), Ceiling + lost')
          /\ Fits(0, driver[t].spent + lost + Estimate(Current(t)))
               => FitsNext(0, driver[t].spent + lost' + Estimate(Current(t)))
          /\ Fits(Charges(driver[t].todo), Ceiling + lost + Estimate(Current(t)))
               => FitsNext(Charges(driver[t].todo), Ceiling + lost' + Estimate(Current(t)))
        BY <1>1, <3>2, <3>4, FitsStays
    <3>6. InBudget(t)
        BY DEF Accounted
    <3> QED BY <3>1, <3>3, <3>5, <3>6 DEF InBudget, At, Fits, FitsNext
  <2> QED BY <2>1, <2>2
<1>6. \A t \in Threads : At(t, "write")' /\ Terminal(thread'[t].derived) => Complete(t)'
    BY <1>1 DEF At, Complete
<1>7. repairs' > 0 => FitsNext(0, Ceiling + lost')
  <2>1. CASE repairs > 0
    <3>1. Started' = Started /\ Fits(0, Ceiling + lost)
        BY <1>1, <2>1 DEF Accounted, Due
    <3> QED BY <1>1, <3>1, FitsStays
  <2> QED BY <2>1
<1> QED BY <1>4, <1>5, <1>6, <1>7 DEF Accounted, Fits, FitsNext

\* The execution of the Job is the one that was started.
LEMMA TheExecution ==
    ASSUME Fair, NEW e \in Started
    PROVE  Started = {e}
<1>1. Started \in SUBSET Executions
    BY DEF Started
<1>2. IsFiniteSet(Started) /\ Cardinality(Started) \in Nat /\ Cardinality(Started) # 0
    BY <1>1, StartedFinite, FS_EmptySet
<1>3. Cardinality(Started) = 1
    BY <1>2 DEF Fair
<1> QED BY <1>2, <1>3, FS_Singleton

\* A step of a request, a poll or an order keeps the account.
LEMMA RequestAccounted ==
    ASSUME TInv, BInv, Next, Fair', Accounted, NEW t \in Threads, UNCHANGED <<driver, repairs, issues>>,
           Request(t) \/ WaitTimesOut(t) \/ \E op \in Polls \cup Orders : Begin(t, op)
    PROVE  Accounted'
<1>0. JobTypeOK /\ Linked /\ Fair /\ repairs' = repairs
    BY FairSteps DEF TInv
<1>1. /\ \A u \in Threads \ {t} : thread'[u] = thread[u]
      /\ thread[t].pc \notin DRIVING /\ thread'[t].pc \notin DRIVING \ {"plan"}
    BY <1>0, RequestStays
<1>2. \A u \in Threads : \/ thread'[u] = thread[u]
                         \/ thread[u].pc \notin DRIVING /\ thread'[u].pc \notin DRIVING \ {"plan"}
    BY <1>1
<1>3. generated' = generated
    BY DEF Request, WaitTimesOut, Begin, Launch, Link, WaitOver, SyncRead, SyncWrite, SyncReload, Continue,
           Reject, PauseRun, Refused, Mark, engine
<1>4. ASSUME Due', Terminal(job'.status) => Due \/ (Over /\ Fits(0, job'.spent + lost)),
             thread'[t].pc = "reload" /\ Terminal(thread'[t].derived) => Due \/ (Over /\ Fits(0, job'.spent + lost)),
             thread'[t].pc = "plan" => Terminal(job'.status)
      PROVE  Due \/ (Over /\ Fits(0, job'.spent + lost))
  <2>1. CASE Driving' # {}
    <3>1. PICK u \in Threads : thread'[u].pc \in DRIVING
        BY <2>1 DEF Driving, DRIVING
    <3>2. CASE u = t
        BY <1>1, <1>4, <3>1, <3>2
    <3>3. CASE u # t
        BY <1>1, <3>1, <3>3 DEF Due, Driving, DRIVING
    <3> QED BY <3>2, <3>3
  <2>2. CASE repairs' > 0
      BY <1>0, <2>2 DEF Due
  <2>3. CASE \E u \in Threads : At(u, "reload")' /\ Terminal(thread'[u].derived)
      BY <1>1, <1>4, <2>3 DEF Due, At
  <2> QED BY <1>4, <2>1, <2>2, <2>3 DEF Due
<1>5. ASSUME Terminal(job'.status) => Terminal(job.status), thread'[t].pc \notin {"write", "reload", "plan"}
      PROVE  Accounted'
  <2>1. \A u \in Threads : thread'[u].pc = "write" /\ Terminal(thread'[u].derived)
          => Over /\ \A e \in Started : generated[e] <= thread'[u].spent
      BY <1>1, <1>5 DEF Accounted, At, Complete
  <2>2. Due' => Due \/ (Over /\ Fits(0, job'.spent + lost))
      BY <1>4, <1>5 DEF Due
  <2> QED BY <1>2, <1>3, <2>1, <2>2, OutsideAccounted
<1>6. CASE ~(SyncRead(t) \/ SyncWrite(t) \/ SyncReload(t))
  <2>1. Terminal(job'.status) => Terminal(job.status)
    <3>1. CASE Link(t) \/ Mark(t)
        BY <3>1 DEF Link, Mark, Write, Terminal, TERMINAL_STATUSES
    <3>2. CASE UNCHANGED job
        BY <3>2
    <3> QED BY <1>6, <3>1, <3>2 DEF Request, WaitTimesOut, Begin, Launch, WaitOver, Continue, Reject, PauseRun,
              Refused
  <2>2. thread'[t].pc \notin {"write", "reload", "plan"}
      BY <1>0, <1>6, RequestPosts DEF Request
  <2> QED BY <1>5, <2>1, <2>2
<1>7. CASE SyncRead(t)
  <2>1. /\ job' = job /\ thread'[t].pc = "write"
        /\ thread'[t].derived = DeriveJobStatus(execution[job.execution])
        /\ thread'[t].spent = generated[job.execution]
        /\ job.execution \in Started
      BY <1>0, <1>7, RequestPosts DEF SyncRead, SpentBy, At, Linked, JobTypeOK, Job, Links, Started
  <2>2. Terminal(thread'[t].derived)
          => Over /\ \A e \in Started : generated[e] <= thread'[t].spent
    <3>1. Started = {job.execution}
        BY <1>0, <2>1, TheExecution
    <3>2. Terminal(thread'[t].derived) => execution[job.execution] \in Runs!Terminal
        BY <1>0, <2>1 DEF Terminal, TERMINAL_STATUSES, DeriveJobStatus, Runs!Terminal, Runs!Statuses, Runs!Durable, Started, JobTypeOK
    <3>3. generated[job.execution] \in Nat
        BY <2>1, AccountTyped
    <3> QED BY <2>1, <3>1, <3>2, <3>3 DEF Over
  <2>3. \A u \in Threads : thread'[u].pc = "write" /\ Terminal(thread'[u].derived)
          => Over /\ \A e \in Started : generated[e] <= thread'[u].spent
      BY <1>1, <2>2 DEF Accounted, At, Complete
  <2>4. Due' => Due \/ (Over /\ Fits(0, job'.spent + lost))
      BY <1>4, <2>1 DEF Due
  <2> QED BY <1>2, <1>3, <2>3, <2>4, OutsideAccounted
<1>8. CASE SyncWrite(t)
  <2> DEFINE e == thread[t].execution
  <2>1. /\ thread'[t].pc = "reload" /\ thread'[t].derived = thread[t].derived
        /\ e \in Started /\ thread[t].pc = "write"
      BY <1>0, <1>8, RequestPosts DEF SyncWrite, At, Linked, Started
  <2>2. Terminal(thread[t].derived) => Over /\ \A x \in Started : generated[x] <= thread[t].spent
      BY <2>1 DEF Accounted, At, Complete
  <2>3. job'.spent = thread[t].spent
      BY <1>0, <1>8 DEF SyncWrite, Write, JobTypeOK, Job
  <2>4. repairs = 0 /\ Terminal(thread[t].derived) => Over /\ Fits(0, job'.spent + lost)
      BY <2>2, <2>3, AccountTyped DEF Fits
  <2>5. ~Due => repairs = 0
      BY AccountTyped DEF Due
  <2>6. Terminal(job'.status) => Terminal(job.status) \/ Terminal(thread[t].derived)
      BY <1>0, <1>8 DEF SyncWrite, Write, JobTypeOK, Job
  <2>7. Terminal(job.status) => Due
      BY DEF Due
  <2>8. Due' => Due \/ (Over /\ Fits(0, job'.spent + lost))
      BY <1>4, <2>1, <2>4, <2>5, <2>6, <2>7
  <2>9. \A u \in Threads : thread'[u].pc = "write" /\ Terminal(thread'[u].derived)
          => Over /\ \A x \in Started : generated[x] <= thread'[u].spent
      BY <1>1, <2>1 DEF Accounted, At, Complete
  <2> QED BY <1>2, <1>3, <2>8, <2>9, OutsideAccounted
<1>9. CASE SyncReload(t)
  <2>1. /\ thread'[t].pc \in {"idle", "act", "plan"} /\ thread[t].pc = "reload"
        /\ (thread'[t].pc = "plan" => Terminal(job'.status))
      BY <1>0, <1>9, RequestPosts DEF SyncReload, At
  <2>2. Terminal(job'.status) => Due
      BY <1>0, <1>9 DEF SyncReload, JobTypeOK, Job, Due
  <2>3. Due' => Due \/ (Over /\ Fits(0, job'.spent + lost))
      BY <1>4, <2>1, <2>2
  <2>4. \A u \in Threads : thread'[u].pc = "write" /\ Terminal(thread'[u].derived)
          => Over /\ \A e \in Started : generated[e] <= thread'[u].spent
      BY <1>1, <2>1 DEF Accounted, At, Complete
  <2> QED BY <1>2, <1>3, <2>3, <2>4, OutsideAccounted
<1> QED BY <1>6, <1>7, <1>8, <1>9

-----------------------------------------------------------------------------
(* Where each step of a cycle leaves its thread and its driver.             *)

\* Where a thread of a repair driver stands after a step, and what it remembers.
LEMMA GotoPosts ==
    ASSUME TInv, NEW t \in Threads
    PROVE  /\ \A pc \in DRIVING : Goto(t, pc) => thread'[t].pc = pc /\ thread'[t].op = thread[t].op
           /\ Done(t) => thread'[t].pc = "idle" /\ thread'[t].op = "none"
           /\ \A r : Drive(t, r) => driver'[t] = r
<1>1. thread \in [Threads -> Doings] /\ thread[t] \in Doings /\ driver \in [Threads -> Memories]
    BY DEF TInv, JobTypeOK, Doings, Repairing
<1>2. ASSUME NEW pc \in DRIVING, Goto(t, pc)
      PROVE  thread'[t].pc = pc /\ thread'[t].op = thread[t].op
  <2>1. thread'[t] = [thread[t] EXCEPT !.pc = pc]
      BY <1>1, <1>2 DEF Goto, Set
  <2> QED BY <1>1, <2>1, StageTyped
<1>3. ASSUME Done(t) PROVE thread'[t].pc = "idle" /\ thread'[t].op = "none"
    BY <1>1, <1>3 DEF Done, Set, Idle
<1>4. ASSUME NEW r, Drive(t, r) PROVE driver'[t] = r
    BY <1>1, <1>4 DEF Drive
<1> QED BY <1>2, <1>3, <1>4

\* plan reads the open issues, their attempts and the spending as they are now.
LEMMA PlanPosts ==
    ASSUME TInv, NEW t \in Threads, Plan(t)
    PROVE  /\ thread[t].pc = "plan" /\ thread'[t].pc = "apply" /\ thread'[t].op = thread[t].op
           /\ driver'[t].cycle = driver[t].cycle /\ driver'[t].open = Open /\ driver'[t].todo = Open
           /\ driver'[t].admitted = {} /\ driver'[t].spent = job.spent /\ driver'[t].ran = driver[t].ran
           /\ driver'[t].attempts = [i \in Open |-> issues[i].attempts]
           /\ job.spent + FirstStage <= Ceiling /\ UNCHANGED <<job, issues, repairs>>
<1> DEFINE a == [i \in Open |-> issues[i].attempts]
           r == [driver[t] EXCEPT !.open = Open, !.todo = Open, !.spent = job.spent, !.attempts = a]
<1>1. driver[t] \in Memories /\ Remembered(t) /\ thread[t].pc = "plan"
    BY DriverTyped DEF Plan, At
<1>2. driver'[t] = r /\ thread'[t].pc = "apply" /\ thread'[t].op = thread[t].op
  <2>1. Drive(t, r) /\ Goto(t, "apply")
      BY DEF Plan
  <2> HIDE DEF r
  <2> QED BY <2>1, GotoPosts DEF DRIVING
<1> HIDE DEF a
<1>3. /\ r.cycle = driver[t].cycle /\ r.open = Open /\ r.todo = Open /\ r.admitted = driver[t].admitted
      /\ r.spent = job.spent /\ r.ran = driver[t].ran /\ r.attempts = a
    BY <1>1 DEF Memories
<1>4. driver[t].admitted = {}
    BY <1>1 DEF Remembered
<1> QED BY <1>1, <1>2, <1>3, <1>4 DEF Plan, NextStageFits, a

\* The four decisions on the first of what is to do.
LEMMA ApplyPosts ==
    ASSUME TInv, NEW t \in Threads, Apply(t)
    PROVE  LET r == driver[t]
               n == driver'[t]
               i == First(r.todo)
           IN  /\ thread[t].pc = "apply" /\ thread' = thread /\ r.todo # {} /\ UNCHANGED repairs
               /\ n.cycle = r.cycle /\ n.open = r.open /\ n.spent = r.spent /\ n.ran = r.ran
               /\ n.attempts = r.attempts
               /\ \/ /\ MayRepair(r, i) /\ Affordable(r, i)
                     /\ TakenUp(i, r.attempts[i] + 1)
                     /\ n.todo = r.todo \ {i} /\ n.admitted = r.admitted \cup {i} /\ UNCHANGED job
                  \/ /\ n.todo = {} /\ n.admitted = r.admitted /\ UNCHANGED <<issues, job>>
                  \/ /\ Changed(i, "accepted")
                     /\ n.todo = r.todo \ {i} /\ n.admitted = r.admitted /\ UNCHANGED job
                  \/ /\ Changed(i, "escalated") /\ job' = [job EXCEPT !.status = "awaiting_approval"]
                     /\ n.todo = r.todo \ {i} /\ n.admitted = r.admitted
<1> DEFINE i == First(driver[t].todo)
<1>1. driver[t] \in Memories
    BY DriverTyped
<1>2. /\ thread[t].pc = "apply" /\ thread' = thread /\ driver[t].todo # {} /\ UNCHANGED repairs
    BY DEF Apply, At
<1>3. ASSUME NEW todo, NEW admitted, Drive(t, [driver[t] EXCEPT !.todo = todo, !.admitted = admitted])
      PROVE  LET r == driver[t]
                 n == driver'[t]
             IN  /\ n.cycle = r.cycle /\ n.open = r.open /\ n.spent = r.spent /\ n.ran = r.ran
                 /\ n.attempts = r.attempts /\ n.todo = todo /\ n.admitted = admitted
  <2>1. driver'[t] = [driver[t] EXCEPT !.todo = todo, !.admitted = admitted]
      BY <1>3, GotoPosts
  <2> QED BY <1>1, <2>1 DEF Memories
<1>4. CASE /\ MayRepair(driver[t], i) /\ Affordable(driver[t], i)
           /\ issues' = [issues EXCEPT ![i].status = "repairing", ![i].attempts = driver[t].attempts[i] + 1]
           /\ Drive(t, [driver[t] EXCEPT !.todo = driver[t].todo \ {i}, !.admitted = driver[t].admitted \cup {i}])
           /\ UNCHANGED job
    BY <1>2, <1>3, <1>4 DEF TakenUp
<1>5. CASE /\ Drive(t, [driver[t] EXCEPT !.todo = {}, !.admitted = driver[t].admitted])
           /\ UNCHANGED <<issues, job>>
    BY <1>2, <1>3, <1>5
<1>6. CASE /\ Changed(i, "accepted")
           /\ Drive(t, [driver[t] EXCEPT !.todo = driver[t].todo \ {i}, !.admitted = driver[t].admitted])
           /\ UNCHANGED job
    BY <1>2, <1>3, <1>6
<1>7. CASE /\ Changed(i, "escalated") /\ job' = [job EXCEPT !.status = "awaiting_approval"]
           /\ Drive(t, [driver[t] EXCEPT !.todo = driver[t].todo \ {i}, !.admitted = driver[t].admitted])
    BY <1>2, <1>3, <1>7
<1> QED BY <1>4, <1>5, <1>6, <1>7 DEF Apply

\* Once every issue is looked at, the driver repairs what it admitted, or leaves.
LEMMA AppliedPosts ==
    ASSUME TInv, NEW t \in Threads, Applied(t)
    PROVE  /\ thread[t].pc = "apply" /\ driver[t].todo = {} /\ UNCHANGED <<job, issues, repairs>>
           /\ \/ /\ driver[t].admitted = {} /\ thread'[t].pc = "idle" /\ driver'[t] = Apart
                 /\ thread'[t].op = "none"
              \/ /\ driver[t].admitted # {} /\ thread'[t].pc = "regenerate" /\ thread'[t].op = thread[t].op
                 /\ driver'[t].cycle = driver[t].cycle /\ driver'[t].open = driver[t].open
                 /\ driver'[t].todo = driver[t].admitted /\ driver'[t].admitted = driver[t].admitted
                 /\ driver'[t].attempts = driver[t].attempts /\ driver'[t].ran = driver[t].ran
<1>1. driver[t] \in Memories
    BY DriverTyped
<1>2. thread[t].pc = "apply" /\ driver[t].todo = {} /\ UNCHANGED <<job, issues, repairs>>
    BY DEF Applied, At
<1>3. CASE driver[t].admitted = {}
    BY <1>2, <1>3, GotoPosts DEF Applied, Leave
<1>4. CASE driver[t].admitted # {}
  <2>1. driver'[t] = [driver[t] EXCEPT !.todo = driver[t].admitted, !.spent = 0]
        /\ thread'[t].pc = "regenerate" /\ thread'[t].op = thread[t].op
      BY <1>4, GotoPosts DEF Applied, DRIVING
  <2> QED BY <1>1, <1>2, <1>4, <2>1 DEF Memories
<1> QED BY <1>3, <1>4

\* A repair regenerates the artifact of one defect, and counts only when it ran.
LEMMA RegeneratePosts ==
    ASSUME TInv, NEW t \in Threads, Regenerate(t)
    PROVE  LET d == issues[First(driver[t].todo)].defect
           IN  /\ thread[t].pc = "regenerate" /\ thread'[t].pc = "charge" /\ thread'[t].op = thread[t].op
               /\ UNCHANGED job
               /\ driver'[t].cycle = driver[t].cycle /\ driver'[t].open = driver[t].open
               /\ driver'[t].todo = driver[t].todo /\ driver'[t].admitted = driver[t].admitted
               /\ driver'[t].attempts = driver[t].attempts /\ driver'[t].spent = job.spent
               /\ driver'[t].result \in {"resolved", "failed"}
               /\ \/ /\ repairs' = repairs /\ driver'[t].ran = driver[t].ran /\ driver'[t].result = "failed"
                  \/ /\ repairs' = repairs + Estimate(First(driver[t].todo))
                     /\ driver'[t].ran = [driver[t].ran EXCEPT ![d] = driver[t].ran[d] + 1]
               /\ issues' = [i \in Ids |-> IF driver'[t].result = "resolved" /\ issues[i].defect = d
                                           THEN [issues[i] EXCEPT !.current = FALSE] ELSE issues[i]]
<1> DEFINE d == issues[First(driver[t].todo)].defect
<1>1. driver[t] \in Memories /\ thread[t].pc = "regenerate" /\ UNCHANGED job
    BY DriverTyped DEF Regenerate, At
<1>2. d \in Defects /\ driver[t].ran \in [Defects -> Nat]
  <2>1. driver[t].todo # {}
      BY <1>1, DriverTyped DEF Remembered
  <2> QED BY <1>1, <2>1, FirstTyped DEF Memories
<1>3. thread'[t].pc = "charge" /\ thread'[t].op = thread[t].op
    BY GotoPosts DEF Regenerate, DRIVING
<1> HIDE DEF d
<1>4. PICK result \in {"resolved", "failed"}, runs \in BOOLEAN :
        /\ result = "resolved" => runs
        /\ Drive(t, [driver[t] EXCEPT !.result = result, !.spent = job.spent,
                                      !.ran[d] = IF runs THEN @ + 1 ELSE @])
        /\ issues' = [i \in Ids |-> IF result = "resolved" /\ issues[i].defect = d
                                    THEN [issues[i] EXCEPT !.current = FALSE] ELSE issues[i]]
        /\ repairs' = IF runs THEN repairs + Estimate(First(driver[t].todo)) ELSE repairs
    BY DEF Regenerate, d
<1> DEFINE ran == [driver[t].ran EXCEPT ![d] = IF runs THEN @ + 1 ELSE @]
           r == [driver[t] EXCEPT !.result = result, !.spent = job.spent, !.ran = ran]
<1>5. driver'[t] = r
  <2>1. Drive(t, r)
      BY <1>4
  <2> HIDE DEF r
  <2> QED BY <2>1, GotoPosts
<1>6. ran = IF runs THEN [driver[t].ran EXCEPT ![d] = driver[t].ran[d] + 1] ELSE driver[t].ran
    BY <1>2
<1> HIDE DEF ran
<1>7. /\ r.cycle = driver[t].cycle /\ r.open = driver[t].open /\ r.todo = driver[t].todo
      /\ r.admitted = driver[t].admitted /\ r.attempts = driver[t].attempts /\ r.spent = job.spent
      /\ r.result = result /\ r.ran = ran
    BY <1>1 DEF Memories
<1> HIDE DEF r
<1>8. result = driver'[t].result
    BY <1>5, <1>7
<1>9. \/ /\ repairs' = repairs /\ driver'[t].ran = driver[t].ran /\ driver'[t].result = "failed"
      \/ /\ repairs' = repairs + Estimate(First(driver[t].todo))
         /\ driver'[t].ran = [driver[t].ran EXCEPT ![d] = driver[t].ran[d] + 1]
    BY <1>4, <1>5, <1>6, <1>7
<1>10. issues' = [i \in Ids |-> IF driver'[t].result = "resolved" /\ issues[i].defect = d
                                THEN [issues[i] EXCEPT !.current = FALSE] ELSE issues[i]]
    BY <1>4, <1>8
<1> QED BY <1>1, <1>3, <1>5, <1>7, <1>9, <1>10 DEF d

\* The Job is charged one credit more than was read after the repair, or left as it is.
LEMMA ChargePosts ==
    ASSUME TInv, NEW t \in Threads, Charge(t)
    PROVE  /\ thread[t].pc = "charge" /\ thread'[t].pc = "record" /\ thread'[t].op = thread[t].op
           /\ UNCHANGED <<issues, repairs>> /\ job'.status = job.status
           /\ \/ Estimate(Current(t)) = 0 /\ job'.spent = job.spent
              \/ Estimate(Current(t)) = 1 /\ job'.spent = driver[t].spent + 1
           /\ driver'[t].cycle = driver[t].cycle /\ driver'[t].open = driver[t].open
           /\ driver'[t].todo = driver[t].todo /\ driver'[t].admitted = driver[t].admitted
           /\ driver'[t].attempts = driver[t].attempts /\ driver'[t].ran = driver[t].ran
           /\ driver'[t].result = driver[t].result
<1>1. driver[t] \in Memories /\ job \in Job
    BY DriverTyped
<1>2. /\ thread[t].pc = "charge" /\ UNCHANGED <<issues, repairs>>
      /\ job' = IF Estimate(Current(t)) = 0 THEN job
                ELSE [job EXCEPT !.spent = driver[t].spent + Estimate(Current(t))]
    BY DEF Charge, At, Current
<1>3. driver'[t] = [driver[t] EXCEPT !.spent = 0] /\ thread'[t].pc = "record" /\ thread'[t].op = thread[t].op
    BY GotoPosts DEF Charge, DRIVING
<1>4. /\ job'.status = job.status
      /\ \/ Estimate(Current(t)) = 0 /\ job'.spent = job.spent
         \/ Estimate(Current(t)) = 1 /\ job'.spent = driver[t].spent + 1
    BY <1>1, <1>2, EstimateTyped DEF Job
<1> QED BY <1>1, <1>2, <1>3, <1>4 DEF Memories

\* The repair is recorded in its issue, and the next one is taken.
LEMMA RecordPosts ==
    ASSUME TInv, NEW t \in Threads, Record(t)
    PROVE  LET i == First(driver[t].todo)
           IN  /\ thread[t].pc = "record" /\ thread'[t].op = thread[t].op
               /\ thread'[t].pc = (IF driver[t].todo = {i} THEN "review" ELSE "regenerate")
               /\ UNCHANGED <<job, repairs>>
               /\ Changed(i, IF driver[t].result = "resolved" THEN "resolved" ELSE "open")
               /\ driver'[t].cycle = driver[t].cycle /\ driver'[t].open = driver[t].open
               /\ driver'[t].todo = driver[t].todo \ {i} /\ driver'[t].admitted = driver[t].admitted
               /\ driver'[t].attempts = driver[t].attempts /\ driver'[t].ran = driver[t].ran
               /\ driver'[t].result = "failed"
<1> DEFINE i == First(driver[t].todo)
           pc == IF driver[t].todo = {i} THEN "review" ELSE "regenerate"
<1>1. driver[t] \in Memories
    BY DriverTyped
<1>2. /\ thread[t].pc = "record" /\ UNCHANGED <<job, repairs>> /\ Goto(t, pc)
      /\ Changed(i, IF driver[t].result = "resolved" THEN "resolved" ELSE "open")
      /\ Drive(t, [driver[t] EXCEPT !.todo = driver[t].todo \ {i}, !.result = "failed"])
    BY DEF Record, At
<1>3. pc \in DRIVING
    BY DEF DRIVING
<1> HIDE DEF i, pc
<1>4. thread'[t].pc = pc /\ thread'[t].op = thread[t].op
      /\ driver'[t] = [driver[t] EXCEPT !.todo = driver[t].todo \ {i}, !.result = "failed"]
    BY <1>2, <1>3, GotoPosts
<1>5. /\ driver'[t].cycle = driver[t].cycle /\ driver'[t].open = driver[t].open
      /\ driver'[t].todo = driver[t].todo \ {i} /\ driver'[t].admitted = driver[t].admitted
      /\ driver'[t].attempts = driver[t].attempts /\ driver'[t].ran = driver[t].ran
      /\ driver'[t].result = "failed"
    BY <1>1, <1>4 DEF Memories
<1> QED BY <1>2, <1>4, <1>5 DEF i, pc

\* A review changes issues and nothing that the driver remembers.
LEMMA ReviewPosts ==
    ASSUME TInv, NEW t \in Threads, Review(t)
    PROVE  /\ thread[t].pc = "review" /\ thread'[t].pc = "carry" /\ thread'[t].op = thread[t].op
           /\ UNCHANGED <<job, driver, repairs>>
BY GotoPosts DEF Review, At, DRIVING

\* After a cycle comes the next one, or the end of the driver.
LEMMA CarryPosts ==
    ASSUME TInv, NEW t \in Threads, Carry(t)
    PROVE  /\ thread[t].pc = "carry" /\ UNCHANGED <<job, repairs>>
           /\ \/ /\ driver[t].cycle + 1 < Limit(thread[t].op)
                 /\ thread'[t].pc = "plan" /\ thread'[t].op = thread[t].op
                 /\ driver'[t].cycle = driver[t].cycle + 1 /\ driver'[t].ran = driver[t].ran
              \/ thread'[t].pc = "idle" /\ driver'[t] = Apart /\ thread'[t].op = "none"
<1>1. thread[t].pc = "carry" /\ UNCHANGED <<job, repairs>> /\ NextCycle(t)
    BY DEF Carry, At
<1>2. CASE driver[t].cycle + 1 < Limit(thread[t].op)
  <2>1. driver'[t] = [Apart EXCEPT !.cycle = driver[t].cycle + 1, !.ran = driver[t].ran]
        /\ thread'[t].pc = "plan" /\ thread'[t].op = thread[t].op
      BY <1>1, <1>2, GotoPosts DEF NextCycle, DRIVING
  <2>2. driver'[t].cycle = driver[t].cycle + 1 /\ driver'[t].ran = driver[t].ran
      BY <2>1 DEF Apart
  <2> QED BY <1>1, <1>2, <2>1, <2>2
<1>3. CASE ~(driver[t].cycle + 1 < Limit(thread[t].op))
    BY <1>1, <1>3, GotoPosts DEF NextCycle, Leave
<1> QED BY <1>2, <1>3

-----------------------------------------------------------------------------
(* The account through a cycle.                                             *)

\* The step of a driver: the others are no drivers, and the run is over.
LEMMA CycleAccounted ==
    ASSUME TInv, BInv, Next, Fair', Accounted, NEW t \in Threads, Cycle(t), thread'[t].pc # "write",
           Paid', InBudget(t)', repairs' > 0 => FitsNext(0, Ceiling + lost')
    PROVE  Accounted'
<1>1. t \in Driving /\ Over /\ Over' /\ Started' = Started /\ generated' = generated
  <2>1. t \in Driving
      BY DEF Driving, Cycle, PlanNothing, Plan, Apply, Applied, Regenerate, Charge, Record, Review, Carry, At
  <2> QED BY <2>1, FairSteps, CycleFrame DEF Accounted, Due
<1>2. \A u \in Threads \ {t} : thread'[u] = thread[u] /\ u \notin Driving
    BY <1>1, CycleFrame, FairSteps DEF BInv, Fair
<1>3. \A u \in Threads \ {t} : InBudget(u)'
    BY <1>2 DEF InBudget, At, Driving
<1>4. \A u \in Threads : At(u, "write")' /\ Terminal(thread'[u].derived) => Complete(u)'
    BY <1>1, <1>2 DEF Accounted, Complete, At
<1> QED BY <1>1, <1>3, <1>4 DEF Accounted, Fits, FitsNext

\* No one is charging but the driver at work, so all is paid.
LEMMA PaidByAll ==
    ASSUME TInv, BInv, Fair, Accounted, NEW t \in Driving, ~At(t, "charge")
    PROVE  Fits(0, job.spent + lost)
<1>1. \A u \in Threads : ~At(u, "charge")
    BY DEF BInv, Fair, At, Driving
<1>2. Paid
    BY DEF Accounted, Due
<1> QED BY <1>1, <1>2 DEF Paid

\* What a driver may repair after its step, when the issues are about the same defects.
LEMMA BudgetNext ==
    ASSUME TInv, NEW t \in Threads, \A i \in Ids : issues'[i].defect = issues[i].defect,
           driver'[t].todo \subseteq Ids, driver'[t].admitted \subseteq Ids,
           thread'[t].pc = "apply"
             => /\ FitsNext(0, driver'[t].spent + lost')
                /\ driver'[t].spent + Charges(driver'[t].admitted) <= Ceiling,
           thread'[t].pc = "regenerate" => FitsNext(Charges(driver'[t].todo), Ceiling + lost'),
           thread'[t].pc \in {"charge", "record"} => First(driver'[t].todo) \in driver'[t].todo,
           thread'[t].pc = "charge"
             => FitsNext(0, driver'[t].spent + lost' + Estimate(First(driver'[t].todo))),
           thread'[t].pc \in {"charge", "record"}
             => FitsNext(Charges(driver'[t].todo), Ceiling + lost' + Estimate(First(driver'[t].todo)))
    PROVE  InBudget(t)'
<1>1. /\ Charges(driver[t].admitted)' = Charges(driver'[t].admitted)
      /\ Charges(driver[t].todo)' = Charges(driver'[t].todo)
  <2>1. ASSUME NEW S \in SUBSET Ids
        PROVE  {i \in S : issues'[i].defect \in Billed} = {i \in S : issues[i].defect \in Billed}
      OBVIOUS
  <2> QED BY <2>1 DEF Charges
<1>2. First(driver'[t].todo) \in Ids => Estimate(Current(t))' = Estimate(First(driver'[t].todo))
    BY DEF Estimate, Current, First
<1>3. At(t, "apply")' => Fits(0, driver[t].spent + lost)' /\ (driver[t].spent + Charges(driver[t].admitted) <= Ceiling)'
    BY <1>1 DEF At, Fits, FitsNext
<1>4. At(t, "regenerate")' => Fits(Charges(driver[t].todo), Ceiling + lost)'
    BY <1>1 DEF At, Fits, FitsNext
<1>5. At(t, "charge")' => Fits(0, driver[t].spent + lost + Estimate(Current(t)))'
    BY <1>2 DEF At, Fits, FitsNext
<1>6. At(t, "charge")' \/ At(t, "record")'
        => Fits(Charges(driver[t].todo), Ceiling + lost + Estimate(Current(t)))'
    BY <1>1, <1>2 DEF At, Fits, FitsNext
<1> QED BY <1>3, <1>4, <1>5, <1>6 DEF InBudget

\* What is known before a step of the one driver.
LEMMA CycleTypes ==
    ASSUME TInv, BInv, Next, Fair', Accounted, NEW t \in Threads, Cycle(t)
    PROVE  /\ repairs \in Nat /\ lost \in Nat /\ job.spent \in Nat /\ Ceiling \in Nat
           /\ lost' \in Nat /\ job'.spent \in Nat /\ driver[t].spent \in Nat
           /\ job.spent + lost <= job'.spent + lost' /\ lost <= lost'
           /\ generated' = generated /\ Started' = Started /\ Fair /\ InBudget(t)
           /\ \A e \in Started : generated[e] \in Nat
           /\ Charges(driver[t].todo) \in Nat /\ Charges(driver[t].admitted) \in Nat
           /\ driver[t].todo \subseteq Ids /\ driver[t].admitted \subseteq Ids
           /\ Estimate(Current(t)) \in {0, 1}
           /\ repairs > 0 => Fits(0, Ceiling + lost)
<1>1. generated' = generated /\ Started' = Started
    BY CycleFrame DEF Started
<1>2. Charges(driver[t].todo) \in Nat /\ Charges(driver[t].admitted) \in Nat
    BY PlannedFinite, ChargesTyped
<1> QED BY <1>1, <1>2, AccountTyped, FairSteps, PlannedFinite, EstimateTyped DEF Accounted

\* A step that repairs nothing leaves all paid that was.
LEMMA PaidStays ==
    ASSUME TInv, BInv, Next, Fair', Accounted, NEW t \in Threads, Cycle(t), repairs' = repairs,
           thread[t].pc \in DRIVING \ {"charge"}
    PROVE  /\ Paid' /\ Fits(0, job.spent + lost) /\ (repairs' > 0 => FitsNext(0, Ceiling + lost'))
           /\ FitsNext(0, job.spent + lost')
<1>1. Fits(0, job.spent + lost)
  <2>1. t \in Driving /\ ~At(t, "charge")
      BY DEF Driving, DRIVING, At
  <2> QED BY <2>1, CycleTypes, PaidByAll
<1>2. FitsNext(0, job'.spent + lost') /\ FitsNext(0, job.spent + lost')
    BY <1>1, CycleTypes, FitsStays
<1>3. Paid'
    BY <1>2 DEF Paid, Fits, FitsNext
<1>4. repairs' > 0 => FitsNext(0, Ceiling + lost')
    BY CycleTypes, FitsStays
<1> QED BY <1>1, <1>2, <1>3, <1>4

\* A decision admits what the budget has room for.
LEMMA ApplyKeepsBudget ==
    ASSUME TInv, BInv, Next, Fair', Accounted, NEW t \in Threads, Apply(t)
    PROVE  Accounted'
<1> DEFINE i == First(driver[t].todo)
<1>0. Cycle(t)
    BY DEF Cycle
<1>1. /\ thread[t].pc = "apply" /\ thread'[t].pc = "apply" /\ repairs' = repairs
      /\ driver'[t].spent = driver[t].spent /\ driver[t].todo # {}
      /\ driver'[t].todo \in {driver[t].todo \ {i}, {}}
      /\ \/ driver'[t].admitted = driver[t].admitted
         \/ driver'[t].admitted = driver[t].admitted \cup {i} /\ Affordable(driver[t], i)
    BY ApplyPosts
<1>2. i \in driver[t].todo /\ i \in Ids /\ i \in 1..Len(issues) /\ issues \in Seq(Issue) /\ Ids = 1..Len(issues)
      /\ driver[t].attempts[i] \in 0..MaxRepairs
    BY <1>1, FirstTyped, DriverTyped
<1>3. \A j \in Ids : issues'[j].defect = issues[j].defect
  <2>1. PICK n \in Nat : UNCHANGED issues \/ Changed(i, "accepted") \/ Changed(i, "escalated") \/ TakenUp(i, n)
    <3>1. driver[t].attempts[i] + 1 \in Nat /\ 0 \in Nat
        BY <1>2, RepairsAssumption
    <3> QED BY <3>1, ApplyPosts
  <2> HIDE DEF i
  <2>2. CASE UNCHANGED issues
      BY <2>2
  <2>3. ASSUME NEW st \in {"accepted", "escalated"}, Changed(i, st)
        PROVE  \A j \in Ids : issues'[j].defect = issues[j].defect
      BY <1>2, <2>3, IssueTyped
  <2>4. CASE TakenUp(i, n)
      BY <1>2, <2>4, TakenUpTyped
  <2> QED BY <2>1, <2>2, <2>3, <2>4
<1>4. driver[t].spent + Charges(driver'[t].admitted) <= Ceiling
  <2>1. driver[t].spent + Charges(driver[t].admitted) <= Ceiling
      BY <1>0, <1>1, CycleTypes DEF InBudget, At
  <2>2. CASE driver'[t].admitted = driver[t].admitted
      BY <2>1, <2>2
  <2>3. CASE driver'[t].admitted = driver[t].admitted \cup {i} /\ Affordable(driver[t], i)
    <3>1. IsFiniteSet(driver[t].admitted)
        BY PlannedFinite
    <3> HIDE DEF i
    <3>2. CASE i \in driver[t].admitted
      <4>1. driver'[t].admitted = driver[t].admitted
          BY <2>3, <3>2
      <4> QED BY <2>1, <4>1
    <3>3. CASE i \notin driver[t].admitted
      <4>1. Charges(driver'[t].admitted) = Charges(driver[t].admitted) + Estimate(i)
          BY <2>3, <3>1, <3>3, ChargesTyped
      <4> QED BY <1>0, <2>3, <4>1, CycleTypes, EstimateTyped DEF Affordable
    <3> QED BY <3>2, <3>3
  <2> QED BY <1>1, <2>2, <2>3
<1>5. FitsNext(0, driver[t].spent + lost')
  <2>1. Fits(0, driver[t].spent + lost)
      BY <1>0, <1>1, CycleTypes DEF InBudget, At
  <2> QED BY <1>0, <1>1, <2>1, CycleTypes, FitsStays
<1>6. driver'[t].todo \subseteq Ids /\ driver'[t].admitted \subseteq Ids
    BY <1>0, <1>1, <1>2, CycleTypes
<1>7. InBudget(t)'
    BY <1>1, <1>3, <1>4, <1>5, <1>6, BudgetNext
<1>8. thread[t].pc \in DRIVING \ {"charge"}
    BY <1>1 DEF DRIVING
<1> QED BY <1>0, <1>1, <1>7, <1>8, PaidStays, CycleAccounted

\* A repair was admitted, and so was every one that is still to do.
LEMMA RegenerateKeepsBudget ==
    ASSUME TInv, BInv, Next, Fair', Accounted, NEW t \in Threads, Regenerate(t)
    PROVE  Accounted'
<1> DEFINE i == First(driver[t].todo)
           c == Charges(driver[t].todo)
           n == Estimate(First(driver[t].todo))
<1>0. Cycle(t)
    BY DEF Cycle
<1>1. /\ thread[t].pc = "regenerate" /\ thread'[t].pc = "charge" /\ job' = job
      /\ driver'[t].spent = job.spent /\ driver'[t].todo = driver[t].todo
      /\ driver'[t].admitted = driver[t].admitted
      /\ repairs' \in {repairs, repairs + n}
    BY RegeneratePosts
<1>2. driver[t].todo # {}
    BY <1>1, DriverTyped DEF Remembered
<1>3. i \in driver[t].todo /\ c \in Nat /\ n \in {0, 1} /\ n <= c
  <2>1. i \in driver[t].todo /\ n \in {0, 1} /\ IsFiniteSet(driver[t].todo)
      BY <1>2, FirstTyped, EstimateTyped, PlannedFinite
  <2>2. c \in Nat /\ Charges(driver[t].todo \ {i}) \in Nat /\ c = Charges(driver[t].todo \ {i}) + n
      BY <2>1, ChargesTyped
  <2> QED BY <2>1, <2>2
<1>4. Fits(0, job.spent + lost) /\ Fits(c, Ceiling + lost)
  <2>1. t \in Driving /\ ~At(t, "charge")
      BY <1>1 DEF Driving, At
  <2> QED BY <1>0, <1>1, <2>1, CycleTypes, PaidByAll DEF InBudget, At
<1> HIDE DEF c, n
<1>5. /\ FitsNext(0, job.spent + lost' + n)
      /\ FitsNext(c, Ceiling + lost' + n)
      /\ FitsNext(0, Ceiling + lost')
  <2>1. /\ repairs \in Nat /\ lost \in Nat /\ lost' \in Nat /\ job.spent \in Nat /\ Ceiling \in Nat
        /\ lost <= lost' /\ generated' = generated /\ Started' = Started
        /\ \A e \in Started : generated[e] \in Nat
      BY <1>0, CycleTypes
  <2>2. ASSUME NEW e \in Started
        PROVE  /\ generated[e] + repairs' + 0 <= job.spent + lost' + n
               /\ generated[e] + repairs' + c <= Ceiling + lost' + n
               /\ generated[e] + repairs' + 0 <= Ceiling + lost'
    <3>1. /\ generated[e] + repairs + 0 <= job.spent + lost
          /\ generated[e] + repairs + c <= Ceiling + lost
          /\ generated[e] \in Nat
        BY <1>4, <2>1 DEF Fits
    <3> QED BY <1>1, <1>3, <2>1, <3>1
  <2> QED BY <2>1, <2>2 DEF FitsNext
<1>6. \A j \in Ids : issues'[j].defect = issues[j].defect
  <2> DEFINE d == issues[First(driver[t].todo)].defect
  <2>1. \A j \in Ids : issues[j] \in Issue
      BY DriverTyped
  <2>2. issues' = [j \in Ids |-> IF driver'[t].result = "resolved" /\ issues[j].defect = d
                                 THEN [issues[j] EXCEPT !.current = FALSE] ELSE issues[j]]
      BY RegeneratePosts
  <2> HIDE DEF d
  <2> QED BY <2>1, <2>2 DEF Issue
<1>7. InBudget(t)'
  <2>1. driver'[t].todo \subseteq Ids /\ driver'[t].admitted \subseteq Ids
      BY <1>0, <1>1, CycleTypes
  <2>2. /\ First(driver'[t].todo) \in driver'[t].todo
        /\ FitsNext(0, driver'[t].spent + lost' + Estimate(First(driver'[t].todo)))
        /\ FitsNext(Charges(driver'[t].todo), Ceiling + lost' + Estimate(First(driver'[t].todo)))
      BY <1>1, <1>3, <1>5 DEF c, n
  <2> QED BY <1>1, <1>6, <2>1, <2>2, BudgetNext
<1>8. Paid'
  <2>1. Estimate(Current(t))' = n
    <3>1. Current(t)' = i /\ i \in Ids
        BY <1>0, <1>1, <1>3, CycleTypes DEF Current, First
    <3> QED BY <1>6, <3>1 DEF Estimate, n
  <2>2. At(t, "charge")' /\ job'.spent = job.spent
      BY <1>1 DEF At
  <2> QED BY <1>5, <2>1, <2>2 DEF Paid, Fits, FitsNext
<1> QED BY <1>0, <1>1, <1>5, <1>7, <1>8, CycleAccounted

\* What was generated is charged, or what takes its place is lost.
LEMMA ChargeKeepsBudget ==
    ASSUME TInv, BInv, Next, Fair', Accounted, NEW t \in Threads, Charge(t)
    PROVE  Accounted'
<1> DEFINE c == Charges(driver[t].todo)
           n == Estimate(Current(t))
<1>0. Cycle(t)
    BY DEF Cycle
<1>1. /\ thread[t].pc = "charge" /\ thread'[t].pc = "record" /\ repairs' = repairs /\ issues' = issues
      /\ \/ n = 0 /\ job'.spent = job.spent
         \/ n = 1 /\ job'.spent = driver[t].spent + 1
      /\ driver'[t].todo = driver[t].todo /\ driver'[t].admitted = driver[t].admitted
    BY ChargePosts
<1>2. /\ repairs \in Nat /\ lost \in Nat /\ lost' \in Nat /\ job.spent \in Nat /\ Ceiling \in Nat
      /\ lost <= lost' /\ generated' = generated /\ Started' = Started /\ driver[t].spent \in Nat
      /\ job'.spent \in Nat /\ c \in Nat /\ n \in {0, 1}
      /\ (repairs > 0 => Fits(0, Ceiling + lost))
    BY <1>0, CycleTypes
<1>3. Fits(0, driver[t].spent + lost + n) /\ Fits(c, Ceiling + lost + n)
    BY <1>0, <1>1, CycleTypes DEF InBudget, At
<1>4. Fits(0, job.spent + lost + n)
  <2>1. \A u \in Threads : At(u, "charge") => u = t
      BY <1>0, <1>1, CycleTypes DEF BInv, Fair, At, Driving
  <2>2. Paid
      BY <1>1 DEF Accounted, Due, Driving
  <2>3. CASE Fits(0, job.spent + lost)
    <3>1. \A e \in Started : generated[e] \in Nat
        BY AccountTyped
    <3> HIDE DEF n
    <3> QED BY <1>2, <2>3, <3>1 DEF Fits
  <2> QED BY <2>1, <2>2, <2>3 DEF Paid
<1> HIDE DEF c, n
<1>5. FitsNext(0, job'.spent + lost')
  <2>1. CASE n = 0 /\ job'.spent = job.spent
    <3>1. Fits(0, job.spent + lost)
        BY <1>2, <1>4, <2>1
    <3> QED BY <1>1, <1>2, <2>1, <3>1, FitsStays
  <2>2. CASE n = 1 /\ job'.spent = driver[t].spent + 1
    <3>1. Fits(0, driver[t].spent + lost + 1)
        BY <1>3, <2>2
    <3> QED BY <1>1, <1>2, <2>2, <3>1, FitsStays
  <2> QED BY <1>1, <2>1, <2>2
<1>6. Paid'
    BY <1>5 DEF Paid, Fits, FitsNext
<1>7. InBudget(t)'
  <2>1. driver'[t].todo \subseteq Ids /\ driver'[t].admitted \subseteq Ids
      BY <1>0, <1>1, CycleTypes
  <2>2. First(driver[t].todo) \in driver[t].todo
      BY <1>1, FirstTyped, DriverTyped DEF Remembered
  <2>3. FitsNext(c, Ceiling + lost' + n)
      BY <1>1, <1>2, <1>3, FitsStays
  <2>4. /\ First(driver'[t].todo) \in driver'[t].todo
        /\ FitsNext(Charges(driver'[t].todo), Ceiling + lost' + Estimate(First(driver'[t].todo)))
      BY <1>1, <2>2, <2>3 DEF c, n, Current
  <2> QED BY <1>1, <2>1, <2>4, BudgetNext
<1>8. repairs' > 0 => FitsNext(0, Ceiling + lost')
    BY <1>1, <1>2, FitsStays
<1> QED BY <1>0, <1>1, <1>6, <1>7, <1>8, CycleAccounted

\* The repair that is recorded is not to do any more.
LEMMA RecordKeepsBudget ==
    ASSUME TInv, BInv, Next, Fair', Accounted, NEW t \in Threads, Record(t)
    PROVE  Accounted'
<1> DEFINE i == First(driver[t].todo)
           c == Charges(driver[t].todo)
           n == Estimate(First(driver[t].todo))
           left == Charges(driver[t].todo \ {First(driver[t].todo)})
           st == IF driver[t].result = "resolved" THEN "resolved" ELSE "open"
<1>0. Cycle(t)
    BY DEF Cycle
<1>1. /\ thread[t].pc = "record" /\ thread'[t].pc \in {"review", "regenerate"} /\ repairs' = repairs
      /\ driver'[t].todo = driver[t].todo \ {i} /\ driver'[t].admitted = driver[t].admitted
      /\ Changed(i, st)
    BY RecordPosts
<1>2. i \in driver[t].todo /\ i \in 1..Len(issues) /\ issues \in Seq(Issue) /\ Ids = 1..Len(issues)
    BY <1>1, FirstTyped, DriverTyped DEF Remembered
<1>3. left \in Nat /\ c = left + n
    BY <1>2, PlannedFinite, ChargesTyped
<1>4. \A j \in Ids : issues'[j].defect = issues[j].defect
  <2>1. st \in OPEN_STATUSES \cup {"resolved", "escalated", "accepted"}
      BY DEF OPEN_STATUSES
  <2> HIDE DEF i, st
  <2> QED BY <1>1, <1>2, <2>1, IssueTyped
<1>5. Fits(c, Ceiling + lost + n)
    BY <1>0, <1>1, CycleTypes DEF InBudget, At, Current
<1>6. FitsNext(left, Ceiling + lost')
  <2>1. /\ repairs \in Nat /\ lost \in Nat /\ lost' \in Nat /\ Ceiling \in Nat /\ lost <= lost'
        /\ generated' = generated /\ Started' = Started /\ n \in {0, 1}
        /\ \A e \in Started : generated[e] \in Nat
      BY <1>0, CycleTypes, EstimateTyped
  <2> HIDE DEF c, n, left
  <2>2. \A e \in Started : generated[e] + repairs + c <= Ceiling + lost + n
      BY <1>5 DEF Fits
  <2>3. \A e \in Started : generated[e] + repairs + left <= Ceiling + lost'
      BY <1>3, <2>1, <2>2
  <2> QED BY <1>1, <2>1, <2>3 DEF FitsNext
<1>7. InBudget(t)'
  <2>1. driver'[t].todo \subseteq Ids /\ driver'[t].admitted \subseteq Ids
      BY <1>0, <1>1, CycleTypes
  <2>2. FitsNext(Charges(driver'[t].todo), Ceiling + lost')
      BY <1>1, <1>6
  <2> QED BY <1>1, <1>4, <2>1, <2>2, BudgetNext
<1>8. thread[t].pc \in DRIVING \ {"charge"} /\ thread'[t].pc # "write"
    BY <1>1 DEF DRIVING
<1> QED BY <1>0, <1>1, <1>7, <1>8, PaidStays, CycleAccounted

\* A cycle of the one driver keeps the account.
LEMMA CycleKeepsBudget ==
    ASSUME TInv, BInv, Next, Fair', Accounted, NEW t \in Threads, Cycle(t)
    PROVE  Accounted'
<1>1. CASE PlanNothing(t)
  <2>1. thread[t].pc = "plan" /\ thread'[t].pc = "idle" /\ repairs' = repairs
      BY <1>1, GotoPosts DEF PlanNothing, Leave, At
  <2>2. InBudget(t)' /\ thread[t].pc \in DRIVING \ {"charge"}
      BY <2>1 DEF InBudget, At, DRIVING
  <2> QED BY <2>1, <2>2, PaidStays, CycleAccounted
<1>2. CASE Plan(t)
  <2>1. /\ thread[t].pc = "plan" /\ thread'[t].pc = "apply" /\ repairs' = repairs
        /\ driver'[t].spent = job.spent /\ driver'[t].admitted = {} /\ driver'[t].todo = Open
        /\ job.spent + FirstStage <= Ceiling /\ issues' = issues
      BY <1>2, PlanPosts
  <2>2. thread[t].pc \in DRIVING \ {"charge"}
      BY <2>1 DEF DRIVING
  <2>3. Charges({}) = 0
    <3>1. {j \in {} : issues[j].defect \in Billed} = {}
        OBVIOUS
    <3> QED BY <3>1, FS_EmptySet DEF Charges
  <2>4. driver'[t].spent + Charges(driver'[t].admitted) <= Ceiling
    <3>1. FirstStage \in Nat /\ job.spent \in Nat /\ Ceiling \in Nat
        BY ProviderNodesAssumption, AccountTyped
    <3> QED BY <2>1, <2>3, <3>1
  <2>5. FitsNext(0, driver'[t].spent + lost')
      BY <2>1, <2>2, PaidStays
  <2>6. driver'[t].todo \subseteq Ids /\ driver'[t].admitted \subseteq Ids
      BY <2>1 DEF Open
  <2>7. InBudget(t)'
      BY <2>1, <2>4, <2>5, <2>6, BudgetNext
  <2> QED BY <2>1, <2>2, <2>7, PaidStays, CycleAccounted
<1>3. CASE Applied(t)
  <2>1. /\ thread[t].pc = "apply" /\ repairs' = repairs /\ issues' = issues
        /\ \/ thread'[t].pc = "idle"
           \/ /\ thread'[t].pc = "regenerate" /\ driver'[t].todo = driver[t].admitted
              /\ driver'[t].admitted = driver[t].admitted
      BY <1>3, AppliedPosts
  <2>2. thread[t].pc \in DRIVING \ {"charge"} /\ thread'[t].pc # "write"
      BY <2>1 DEF DRIVING
  <2>3. CASE thread'[t].pc = "idle"
    <3>1. InBudget(t)'
        BY <2>3 DEF InBudget, At
    <3> QED BY <2>1, <2>2, <3>1, PaidStays, CycleAccounted
  <2>4. CASE thread'[t].pc = "regenerate"
    <3> DEFINE c == Charges(driver[t].admitted)
    <3>1. Fits(0, driver[t].spent + lost) /\ driver[t].spent + c <= Ceiling
        BY <2>1, CycleTypes DEF InBudget, At
    <3>2. FitsNext(c, Ceiling + lost')
      <4>1. /\ repairs \in Nat /\ lost \in Nat /\ lost' \in Nat /\ Ceiling \in Nat /\ lost <= lost'
            /\ generated' = generated /\ Started' = Started /\ driver[t].spent \in Nat /\ c \in Nat
            /\ \A e \in Started : generated[e] \in Nat
          BY CycleTypes
      <4> HIDE DEF c
      <4>2. \A e \in Started : generated[e] + repairs + c <= Ceiling + lost'
          BY <3>1, <4>1 DEF Fits
      <4> QED BY <2>1, <4>1, <4>2 DEF FitsNext
    <3>3. /\ driver'[t].todo \subseteq Ids /\ driver'[t].admitted \subseteq Ids
          /\ FitsNext(Charges(driver'[t].todo), Ceiling + lost')
        BY <2>1, <2>4, <3>2, CycleTypes
    <3>4. InBudget(t)'
        BY <2>1, <2>4, <3>3, BudgetNext
    <3> QED BY <2>1, <2>2, <3>4, PaidStays, CycleAccounted
  <2> QED BY <2>1, <2>3, <2>4
<1>4. CASE Review(t) \/ Carry(t)
  <2>1. /\ thread[t].pc \in {"review", "carry"} /\ repairs' = repairs
        /\ thread'[t].pc \in {"carry", "plan", "idle"}
      BY <1>4, ReviewPosts, CarryPosts
  <2>2. InBudget(t)' /\ thread[t].pc \in DRIVING \ {"charge"} /\ thread'[t].pc # "write"
      BY <2>1 DEF InBudget, At, DRIVING
  <2> QED BY <2>1, <2>2, PaidStays, CycleAccounted
<1> QED BY <1>1, <1>2, <1>3, <1>4, ApplyKeepsBudget, RegenerateKeepsBudget, ChargeKeepsBudget, RecordKeepsBudget
        DEF Cycle

\* A retry plans for a Job that has ended.
LEMMA RetryAccounted ==
    ASSUME TInv, BInv, Next, Fair', Accounted, NEW t \in Threads, NEW d \in Defects, Retry(t, d)
    PROVE  Accounted'
<1>1. /\ thread[t].pc = "idle" /\ thread'[t].pc = "plan" /\ job' = job /\ UNCHANGED <<driver, repairs>>
      /\ \A u \in Threads \ {t} : thread'[u] = thread[u]
      /\ generated' = generated
  <2>1. thread'[t].pc = "plan"
    <3>1. [Idle EXCEPT !.op = "retry", !.pc = "plan"].pc = "plan"
        BY DEF Idle
    <3> QED BY <3>1 DEF Retry, Set, TInv, JobTypeOK
  <2> QED BY <2>1, CycleFrame DEF Retry, At
<1>2. Due
    BY DEF Due, Retry, Terminal, TERMINAL_STATUSES
<1>3. \A u \in Threads : \/ thread'[u] = thread[u]
                         \/ thread[u].pc \notin DRIVING /\ thread'[u].pc \notin DRIVING \ {"plan"}
    BY <1>1 DEF DRIVING
<1>4. \A u \in Threads : thread'[u].pc = "write" /\ Terminal(thread'[u].derived)
        => Over /\ \A e \in Started : generated[e] <= thread'[u].spent
    BY <1>1 DEF Accounted, Complete, At
<1>5. \A u \in Threads : thread'[u].pc \notin DRIVING \ {"plan"}
  <2>1. ~overlap' /\ Noted
      BY StepKinds DEF Fair
  <2>2. t \in Driving'
      BY <1>1 DEF Driving
  <2>3. \A u \in Threads : u \in Driving' => u = t
      BY <2>1, <2>2, AloneStays
  <2> QED BY <1>1, <2>3 DEF Driving, DRIVING
<1> QED BY <1>1, <1>2, <1>3, <1>4, <1>5, OutsideAccounted

\* The engine generates only while the run goes on.
LEMMA EngineAccounted ==
    ASSUME TInv, BInv, Next, Fair', Accounted, Work \/ EndElsewhere, UNCHANGED repairVars
    PROVE  Accounted'
<1>1. UNCHANGED <<job, thread, driver, repairs, issues>>
    BY DEF Work, EndElsewhere, repairVars
<1>2. CASE generated' = generated
  <2>1. Due' => Due
      BY <1>1 DEF Due, At, Driving
  <2>2. \A t \in Threads : thread'[t].pc = "write" /\ Terminal(thread'[t].derived)
          => Over /\ \A e \in Started : generated[e] <= thread'[t].spent
      BY <1>1 DEF Accounted, At, Complete
  <2> QED BY <1>1, <1>2, <2>1, <2>2, OutsideAccounted
<1>3. CASE generated' # generated
  <2>1. ~Over
      BY <1>3, GeneratedStays
  <2>2. ~Due /\ ~Due'
    <3>1. ~Due
        BY <2>1 DEF Accounted
    <3> QED BY <1>1, <3>1 DEF Due, At, Driving
  <2>3. \A t \in Threads : InBudget(t)'
    <3>1. \A t \in Threads : thread'[t].pc \notin DRIVING
        BY <1>1, <2>2 DEF Due, Driving, DRIVING
    <3> QED BY <3>1 DEF InBudget, At, DRIVING
  <2>4. \A t \in Threads : ~(At(t, "write")' /\ Terminal(thread'[t].derived))
      BY <1>1, <2>1 DEF Accounted, At, Complete
  <2>5. ~(repairs' > 0)
      BY <2>2 DEF Due
  <2> QED BY <2>2, <2>3, <2>4, <2>5 DEF Accounted
<1> QED BY <1>2, <1>3

\* Nothing was repaired yet.
LEMMA BInvInit == Init => BInv
<1> SUFFICES ASSUME Init PROVE BInv
    OBVIOUS
<1>1. /\ Started = {} /\ repairs = 0 /\ job.status = "queued"
      /\ \A t \in Threads : thread[t].pc = "idle"
    BY DEF Init, JobInit, Runs!Init, Started, Idle
<1>2. Driving = {}
    BY <1>1 DEF Driving
<1>3. ~Due
    BY <1>1, <1>2 DEF Due, At, Terminal, TERMINAL_STATUSES
<1>4. Accounted
    BY <1>1, <1>3 DEF Accounted, At, InBudget
<1> QED BY <1>2, <1>4 DEF BInv

\* Every step keeps the account.
LEMMA BInvNext == TInv /\ BInv /\ [Next]_vars => BInv'
<1> SUFFICES ASSUME TInv, BInv, [Next]_vars PROVE BInv'
    OBVIOUS
<1>1. CASE UNCHANGED vars
  <2>1. UNCHANGED <<execution, generated, job, thread, ops, crashes, issues, driver, repairs, overlap, lost>>
      BY <1>1 DEF vars, jobVars, engine, repairVars
  <2>2. /\ Started' = Started /\ Driving' = Driving
        /\ \A t \in Threads : InBudget(t)' <=> InBudget(t)
      BY <2>1 DEF Started, Driving, InBudget, At, Fits, Charges, Estimate, Current, First
  <2>3. (Over <=> Over') /\ (Due <=> Due') /\ (Paid <=> Paid') /\ (Fair <=> Fair')
      BY <2>1, <2>2 DEF Over, Due, Paid, Fair, At, Fits, Estimate, Current, First
  <2>4. Accounted => Accounted'
      BY <2>1, <2>2, <2>3 DEF Accounted, At, Complete, Fits
  <2> QED BY <2>1, <2>2, <2>3, <2>4 DEF BInv
<1>2. CASE Next
  <2>1. ASSUME Fair' PROVE Accounted'
    <3>1. Fair /\ Accounted /\ crashes' = 0 /\ crashes \in Nat
        BY <1>2, <2>1, FairSteps, EngineSteps DEF BInv, Fair
    <3>2. ~Restart
        BY <3>1 DEF Restart
    <3> QED BY <1>2, <2>1, <3>1, <3>2, StepKinds, RequestAccounted, CycleKeepsBudget, EngineAccounted, RetryAccounted
              DEF repairVars
  <2>2. Noted
      BY <1>2, StepKinds
  <2> QED BY <1>2, <2>1, <2>2, AloneStays DEF BInv
<1> QED BY <1>1, <1>2

\* A repair is run only when the run, whatever it cost, and the repairs before it leave room
\* for it below the ceiling, but for the credits that syncs have taken back: for any number
\* of provider nodes and cycles, with one driver, one execution and no restart.
THEOREM BudgetHolds == Spec => []RepairsAffordable
<1>1. TInv /\ BInv => RepairsAffordable
  <2> SUFFICES ASSUME TInv, BInv PROVE RepairsAffordable
      OBVIOUS
  <2>1. /\ overlap \in BOOLEAN /\ crashes \in Nat /\ Cardinality(Started) \in Nat /\ repairs \in Nat
        /\ lost \in Nat /\ \A e \in Started : generated[e] \in Nat
      BY CountsAssumption, StartedFinite, AccountTyped DEF TInv, Repairing, JobTypeOK, Started
  <2> QED BY <2>1, CountsAssumption DEF BInv, Accounted, RepairsAffordable, Fair, Fits
<1> QED BY <1>1, TInvInit, TInvNext, BInvInit, BInvNext, PTL DEF Spec


-----------------------------------------------------------------------------
(* The repairs of one defect.                                               *)

\* One driver, and no restart.
Calm == ~overlap /\ crashes = 0

\* At most one open issue is about a defect.
Distinct == \A i, j \in Open : issues[i].defect = issues[j].defect => i = j

\* An open issue is about the artifact as it is, but the one whose repair is being recorded.
Fresh == \A i \in Open :
           \/ issues[i].current
           \/ \E t \in Threads : /\ thread[t].pc \in {"charge", "record"} /\ driver[t].result = "resolved"
                                 /\ i = First(driver[t].todo)

\* The issues of the plan that may still be repaired in this cycle.
Ahead(t) == {i \in driver[t].open :
               \/ At(t, "apply")
               \/ At(t, "regenerate") /\ i \in driver[t].todo
               \/ thread[t].pc \in {"charge", "record"} /\ i \in driver[t].todo \ {First(driver[t].todo)}}

\* A driver repairs a defect once in a cycle at most; when it did so in each cycle so far,
\* the attempts at the issue of the defect say so.
Tracked(t) ==
    LET r == driver[t]
    IN  /\ \A d \in Defects : r.ran[d] <= MaxRepairs /\ r.ran[d] <= r.cycle + 1
        /\ At(t, "plan") =>
             \A d \in Defects :
               /\ r.ran[d] <= r.cycle
               /\ r.ran[d] = r.cycle => \A i \in Open : issues[i].defect = d => issues[i].attempts >= r.cycle
        /\ \A i, j \in r.open : issues[i].defect = issues[j].defect => i = j
        /\ At(t, "apply") => r.todo \subseteq Open /\ r.admitted \subseteq Open /\ r.todo \cap r.admitted = {}
        /\ thread[t].pc \in {"regenerate", "charge", "record"} => r.todo \subseteq Open /\ r.todo \subseteq r.admitted
        /\ \A i \in r.admitted : issues[i].attempts = r.attempts[i] + 1
        /\ \A i \in Ahead(t) : /\ r.ran[issues[i].defect] <= r.cycle
                               /\ r.ran[issues[i].defect] = r.cycle => r.attempts[i] >= r.cycle
        /\ ~At(t, "plan") =>
             \A d \in Defects : r.ran[d] = r.cycle + 1 =>
               \E i \in r.admitted : issues[i].defect = d /\ r.attempts[i] >= r.cycle

Counted == Distinct /\ Fresh /\ \A t \in Threads : Tracked(t)

RInv == Calm => Counted

\* A state that is calm comes from one that was.
LEMMA CalmSteps ==
    ASSUME TInv, Next, Calm'
    PROVE  Calm
<1>1. Noted /\ crashes \in Nat /\ crashes' \in Nat /\ crashes <= crashes'
    BY StepKinds, EngineSteps
<1>2. ~overlap
    BY <1>1 DEF Calm, Noted
<1>3. crashes = 0
    BY <1>1 DEF Calm
<1> QED BY <1>2, <1>3 DEF Calm

\* A thread that remembers nothing has nothing to be tracked.
LEMMA TrackedApart ==
    ASSUME TInv', NEW t \in Threads, driver'[t] = Apart,
           thread'[t].pc \notin {"apply", "regenerate", "charge", "record"}
    PROVE  Tracked(t)'
<1>1. \A i \in Open' : issues'[i].attempts \in Nat
  <2>1. issues' \in Seq(Issue) /\ Open' \subseteq 1..Len(issues')
      BY DEF TInv, Repairing, Open, Ids
  <2>2. \A i \in 1..Len(issues') : issues'[i] \in Issue
      BY <2>1
  <2> QED BY <2>1, <2>2 DEF Issue
<1>2. /\ driver'[t].cycle = 0 /\ driver'[t].open = {} /\ driver'[t].admitted = {}
      /\ \A d \in Defects : driver'[t].ran[d] = 0
    BY ApartIsEmpty
<1>3. Ahead(t)' = {}
    BY <1>2 DEF Ahead
<1> QED BY <1>1, <1>2, <1>3, RepairsAssumption DEF Tracked, At

\* The issue that is not current is the one whose repair the driver records.
LEMMA OnlyStale ==
    ASSUME BInv, Calm, Fresh, NEW t \in Driving
    PROVE  \A i \in Open : \/ issues[i].current
                           \/ /\ thread[t].pc \in {"charge", "record"} /\ driver[t].result = "resolved"
                              /\ i = First(driver[t].todo)
<1>1. \A u \in Threads : thread[u].pc \in {"charge", "record"} => u = t
    BY DEF BInv, Calm, Driving
<1> QED BY <1>1 DEF Fresh

\* The step of a driver concerns no other thread.
LEMMA CycleCounted ==
    ASSUME TInv, BInv, Next, Calm', Counted, NEW t \in Threads, Cycle(t),
           Distinct', Fresh', Tracked(t)'
    PROVE  Counted'
<1>1. t \in Driving /\ Calm
  <2>1. t \in Driving
      BY DEF Driving, Cycle, PlanNothing, Plan, Apply, Applied, Regenerate, Charge, Record, Review, Carry, At
  <2> QED BY <2>1, CalmSteps
<1>2. \A u \in Threads \ {t} : thread'[u] = thread[u] /\ driver'[u] = driver[u] /\ u \notin Driving
    BY <1>1, CycleFrame DEF BInv, Calm
<1>3. \A u \in Threads \ {t} : driver'[u] = Apart /\ thread'[u].pc \notin DRIVING
    BY <1>2, MemoryTyped DEF TInv, Driving, DRIVING
<1>4. \A u \in Threads \ {t} : Tracked(u)'
    BY <1>3, TrackedApart, TInvNext DEF DRIVING
<1> QED BY <1>4 DEF Counted

\* Steps outside the cycles concern neither issues nor drivers.
LEMMA OutsideCounted ==
    ASSUME TInv, Counted, Next, UNCHANGED repairVars,
           \A t \in Threads : \/ thread'[t] = thread[t]
                              \/ thread[t].pc \notin DRIVING /\ thread'[t].pc \notin DRIVING \ {"plan"}
    PROVE  Counted'
<1>1. UNCHANGED <<issues, driver>> /\ Open' = Open /\ TInv'
    BY TInvNext DEF repairVars, Open, Ids
<1>2. Distinct'
    BY <1>1 DEF Counted, Distinct
<1>3. Fresh'
  <2>1. \A t \in Threads : thread[t].pc \in {"charge", "record"} => thread'[t] = thread[t]
      BY DEF DRIVING
  <2> QED BY <1>1, <2>1 DEF Counted, Fresh
<1>4. ASSUME NEW t \in Threads PROVE Tracked(t)'
  <2>1. CASE thread'[t] = thread[t]
    <3>1. Tracked(t) /\ Ahead(t)' = Ahead(t)
        BY <1>1, <2>1 DEF Counted, Ahead, At
    <3> QED BY <1>1, <2>1, <3>1 DEF Tracked, At
  <2>2. CASE thread[t].pc \notin DRIVING /\ thread'[t].pc \notin DRIVING \ {"plan"}
    <3>1. driver'[t] = Apart
        BY <1>1, <2>2, MemoryTyped DEF TInv
    <3> QED BY <1>1, <2>2, <3>1, TrackedApart DEF DRIVING
  <2> QED BY <2>1, <2>2
<1> QED BY <1>2, <1>3, <1>4 DEF Counted

\* A retry begins when no driver is at work, and adds an issue where there is none.
LEMMA RetryCounted ==
    ASSUME TInv, BInv, Next, Calm', Counted, NEW t \in Threads, NEW d \in Defects, Retry(t, d)
    PROVE  Counted'
<1>1. /\ thread[t].pc = "idle" /\ thread'[t].pc = "plan" /\ UNCHANGED driver
      /\ \A u \in Threads \ {t} : thread'[u] = thread[u]
  <2>1. [Idle EXCEPT !.op = "retry", !.pc = "plan"].pc = "plan"
      BY DEF Idle
  <2> QED BY <2>1, CycleFrame DEF Retry, At, Set, TInv, JobTypeOK
<1>2. TInv' /\ Noted /\ ~overlap'
    BY TInvNext, StepKinds DEF Calm
<1>3. \A u \in Threads \ {t} : u \notin Driving'
  <2>1. t \in Driving' /\ \A u, v \in Driving' : u = v
      BY <1>1, <1>2, AloneStays DEF Driving
  <2> QED BY <2>1
<1>4. \A u \in Threads : driver'[u] = Apart /\ u \notin Driving
  <2>1. t \notin Driving
      BY <1>1 DEF Driving
  <2>2. \A u \in Threads : u \notin Driving
      BY <1>1, <1>3, <2>1 DEF Driving
  <2> QED BY <1>1, <2>2, MemoryTyped DEF TInv, Driving, DRIVING
<1>5. \A u \in Threads : thread'[u].pc \notin {"apply", "regenerate", "charge", "record"}
    BY <1>1, <1>3 DEF Driving
<1>6. \A u \in Threads : Tracked(u)'
    BY <1>2, <1>4, <1>5, TrackedApart
<1>7. \A i \in Open : issues[i].current
    BY <1>4 DEF Counted, Fresh, Driving
<1>8. /\ NewIssue(d).defect = d /\ NewIssue(d).current /\ issues \in Seq(Issue) /\ Ids = 1..Len(issues)
    BY NewIssueTyped, DriverTyped
<1>9. CASE issues' = issues
  <2>1. Open' = Open
      BY <1>9 DEF Open, Ids
  <2> QED BY <1>6, <1>7, <1>9, <2>1 DEF Counted, Distinct, Fresh
<1>10. CASE ~(\E i \in Open : issues[i].defect = d) /\ issues' = Append(issues, NewIssue(d))
  <2>1. /\ Ids' = 1..Len(issues) + 1 /\ issues'[Len(issues) + 1] = NewIssue(d)
        /\ \A i \in 1..Len(issues) : issues'[i] = issues[i]
      BY <1>8, <1>10 DEF Ids
  <2>2. \A i \in Open' : \/ i \in Open /\ issues'[i] = issues[i]
                         \/ i = Len(issues) + 1 /\ issues'[i] = NewIssue(d)
      BY <1>8, <2>1 DEF Open
  <2>3. ASSUME NEW i \in Open', NEW j \in Open', issues'[i].defect = issues'[j].defect
        PROVE  i = j
    <3>1. CASE i \in Open /\ j \in Open
        BY <2>1, <2>3, <3>1, <1>8 DEF Counted, Distinct, Open
    <3>2. CASE i = Len(issues) + 1 /\ j = Len(issues) + 1
        BY <3>2
    <3>3. ASSUME NEW k \in Open, issues'[k] = issues[k], NEW n, issues'[n] = NewIssue(d)
          PROVE  issues'[k].defect # issues'[n].defect
        BY <1>8, <1>10, <3>3
    <3> QED BY <2>2, <2>3, <3>1, <3>2, <3>3
  <2>4. Fresh'
      BY <1>7, <1>8, <2>2 DEF Fresh
  <2> QED BY <1>6, <2>3, <2>4 DEF Counted, Distinct
<1> QED BY <1>9, <1>10 DEF Retry
\* The issues that are ahead of a driver, at each of its stages.
LEMMA AheadOf ==
    ASSUME TInv, NEW t \in Threads
    PROVE  /\ At(t, "apply") => Ahead(t) = driver[t].open
           /\ At(t, "regenerate") => Ahead(t) = driver[t].todo
           /\ thread[t].pc \in {"charge", "record"} => Ahead(t) = driver[t].todo \ {First(driver[t].todo)}
           /\ thread[t].pc \notin {"apply", "regenerate", "charge", "record"} => Ahead(t) = {}
<1>1. driver[t].todo \subseteq driver[t].open
    BY DriverTyped DEF Remembered
<1> QED BY <1>1 DEF Ahead, At

\* As long as the issues stay and all of them are current, they are told apart.
LEMMA IssuesCounted ==
    ASSUME Distinct, UNCHANGED issues, \A i \in Open : issues[i].current
    PROVE  Distinct' /\ Fresh' /\ Open' = Open
BY DEF Distinct, Fresh, Open, Ids

\* A driver that finds nothing to plan leaves the count to the next one.
LEMMA PlanNothingCounted ==
    ASSUME TInv, BInv, Next, Calm', Counted, NEW t \in Threads, PlanNothing(t)
    PROVE  Counted'
<1>1. /\ thread[t].pc = "plan" /\ UNCHANGED issues
      /\ driver'[t] = Apart /\ thread'[t].pc = "idle"
    BY GotoPosts DEF PlanNothing, Leave, At
<1>2. Calm /\ TInv' /\ t \in Driving
    BY <1>1, CalmSteps, TInvNext DEF Driving
<1>3. \A i \in Open : issues[i].current
    BY <1>1, <1>2, OnlyStale DEF Counted
<1>4. Distinct' /\ Fresh'
    BY <1>1, <1>3, IssuesCounted DEF Counted
<1>5. Tracked(t)'
    BY <1>1, <1>2, TrackedApart
<1> QED BY <1>4, <1>5, CycleCounted DEF Cycle

\* A plan takes up every open issue, with the attempts that were made.
LEMMA PlanCounted ==
    ASSUME TInv, BInv, Next, Calm', Counted, NEW t \in Threads, Plan(t)
    PROVE  Counted'
<1>1. /\ thread[t].pc = "plan" /\ thread'[t].pc = "apply" /\ UNCHANGED issues
      /\ driver'[t].cycle = driver[t].cycle /\ driver'[t].open = Open /\ driver'[t].todo = Open
      /\ driver'[t].admitted = {} /\ driver'[t].ran = driver[t].ran
      /\ driver'[t].attempts = [i \in Open |-> issues[i].attempts]
    BY PlanPosts
<1>2. Calm /\ TInv' /\ t \in Driving
    BY <1>1, CalmSteps, TInvNext DEF Driving
<1>3. \A i \in Open : issues[i].current
    BY <1>1, <1>2, OnlyStale DEF Counted
<1>4. Distinct' /\ Fresh' /\ Open' = Open
    BY <1>1, <1>3, IssuesCounted DEF Counted
<1>5. Tracked(t) /\ Distinct /\ driver[t].cycle \in Nat /\ driver[t].ran \in [Defects -> Nat]
      /\ \A i \in Open : issues[i].defect \in Defects
    BY DriverTyped DEF Counted, Memories
<1>6. \A d \in Defects :
        /\ driver[t].ran[d] <= MaxRepairs /\ driver[t].ran[d] <= driver[t].cycle
        /\ driver[t].ran[d] = driver[t].cycle =>
             \A i \in Open : issues[i].defect = d => issues[i].attempts >= driver[t].cycle
    BY <1>1, <1>5 DEF Tracked, At
<1>7. Ahead(t)' = Open
    BY <1>1, <1>2 DEF Ahead, At
<1>8. \A i \in Open : /\ driver[t].ran[issues[i].defect] <= driver[t].cycle
                      /\ driver[t].ran[issues[i].defect] = driver[t].cycle
                           => driver'[t].attempts[i] >= driver[t].cycle
    BY <1>1, <1>5, <1>6
<1>9. \A d \in Defects : driver'[t].ran[d] <= MaxRepairs /\ driver'[t].ran[d] <= driver'[t].cycle
    BY <1>1, <1>6
<1>10. \A d \in Defects : driver'[t].ran[d] <= driver'[t].cycle + 1 /\ driver'[t].ran[d] # driver'[t].cycle + 1
    BY <1>1, <1>5, <1>9
<1>11. \A i, j \in driver'[t].open : issues'[i].defect = issues'[j].defect => i = j
    BY <1>1, <1>5 DEF Distinct
<1>12. Tracked(t)'
    BY <1>1, <1>4, <1>7, <1>8, <1>9, <1>10, <1>11 DEF Tracked, At
<1> QED BY <1>4, <1>12, CycleCounted DEF Cycle

\* What is decided on an issue changes neither its defect nor the other issues.
LEMMA ApplyIssues ==
    ASSUME TInv, NEW t \in Threads, Apply(t)
    PROVE  LET r == driver[t]
               n == driver'[t]
               i == First(r.todo)
           IN  /\ i \in r.todo /\ i \in Ids /\ Ids' = Ids
               /\ \A j \in Ids : issues'[j].defect = issues[j].defect /\ issues'[j].current = issues[j].current
               /\ \A j \in Ids : j # i => issues'[j] = issues[j]
               /\ \/ /\ n.todo \subseteq r.todo /\ n.admitted = r.admitted \cup {i} /\ i \notin n.todo
                     /\ issues'[i].attempts = r.attempts[i] + 1 /\ issues'[i].status = "repairing"
                  \/ n.todo = {} /\ n.admitted = r.admitted /\ UNCHANGED issues
                  \/ /\ n.todo = r.todo \ {i} /\ n.admitted = r.admitted
                     /\ issues'[i].status \notin OPEN_STATUSES
<1> DEFINE r == driver[t]
           n == driver'[t]
           i == First(r.todo)
<1>1. /\ r.todo # {} /\ issues \in Seq(Issue) /\ Ids = 1..Len(issues)
      /\ \/ TakenUp(i, r.attempts[i] + 1) /\ n.todo = r.todo \ {i} /\ n.admitted = r.admitted \cup {i}
         \/ n.todo = {} /\ n.admitted = r.admitted /\ UNCHANGED issues
         \/ Changed(i, "accepted") /\ n.todo = r.todo \ {i} /\ n.admitted = r.admitted
         \/ Changed(i, "escalated") /\ n.todo = r.todo \ {i} /\ n.admitted = r.admitted
    BY ApplyPosts, DriverTyped
<1>2. i \in r.todo /\ i \in 1..Len(issues) /\ r.attempts[i] + 1 \in Nat
    BY <1>1, FirstTyped
<1> HIDE DEF i
<1>4. CASE TakenUp(i, r.attempts[i] + 1) /\ n.todo = r.todo \ {i} /\ n.admitted = r.admitted \cup {i}
  <2>1. /\ issues' \in Seq(Issue) /\ Len(issues') = Len(issues)
        /\ issues'[i].status = "repairing" /\ issues'[i].attempts = r.attempts[i] + 1
        /\ issues'[i].defect = issues[i].defect /\ issues'[i].current = issues[i].current
        /\ \A j \in 1..Len(issues) : j # i => issues'[j] = issues[j]
      BY <1>1, <1>2, <1>4, TakenUpTyped
  <2>2. Ids' = Ids
      BY <1>1, <2>1 DEF Ids
  <2> QED BY <1>1, <1>2, <1>4, <2>1, <2>2 DEF i
<1>5. CASE n.todo = {} /\ n.admitted = r.admitted /\ UNCHANGED issues
    BY <1>1, <1>2, <1>5 DEF Ids, i
<1>6. ASSUME NEW s \in {"accepted", "escalated"}, Changed(i, s), n.todo = r.todo \ {i},
             n.admitted = r.admitted
      PROVE  /\ Ids' = Ids /\ issues'[i].status \notin OPEN_STATUSES
             /\ \A j \in Ids : issues'[j].defect = issues[j].defect /\ issues'[j].current = issues[j].current
             /\ \A j \in Ids : j # i => issues'[j] = issues[j]
  <2>1. /\ issues' \in Seq(Issue) /\ Len(issues') = Len(issues) /\ issues'[i].status = s
        /\ \A j \in 1..Len(issues) : j # i => issues'[j] = issues[j]
        /\ \A j \in 1..Len(issues) : issues'[j].defect = issues[j].defect
                                     /\ issues'[j].current = issues[j].current
      BY <1>1, <1>2, <1>6, IssueTyped
  <2> QED BY <1>1, <2>1 DEF Ids, OPEN_STATUSES
<1> QED BY <1>1, <1>2, <1>4, <1>5, <1>6 DEF i

\* The decisions of a plan leave the issues that are admitted open.
LEMMA ApplyCounted ==
    ASSUME TInv, BInv, Next, Calm', Counted, NEW t \in Threads, Apply(t)
    PROVE  Counted'
<1> DEFINE r == driver[t]
           n == driver'[t]
           i == First(r.todo)
<1>1. /\ thread[t].pc = "apply" /\ thread' = thread
      /\ n.cycle = r.cycle /\ n.open = r.open /\ n.ran = r.ran /\ n.attempts = r.attempts
    BY ApplyPosts
<1>2. /\ i \in r.todo /\ i \in Ids /\ Ids' = Ids
      /\ \A j \in Ids : issues'[j].defect = issues[j].defect /\ issues'[j].current = issues[j].current
      /\ \A j \in Ids : j # i => issues'[j] = issues[j]
      /\ \/ /\ n.todo \subseteq r.todo /\ n.admitted = r.admitted \cup {i} /\ i \notin n.todo
            /\ issues'[i].attempts = r.attempts[i] + 1 /\ issues'[i].status = "repairing"
         \/ n.todo = {} /\ n.admitted = r.admitted /\ UNCHANGED issues
         \/ /\ n.todo = r.todo \ {i} /\ n.admitted = r.admitted
            /\ issues'[i].status \notin OPEN_STATUSES
    BY ApplyIssues
<1>3. Calm /\ TInv' /\ t \in Driving
    BY <1>1, CalmSteps, TInvNext DEF Driving
<1>4. \A j \in Open : issues[j].current
    BY <1>1, <1>3, OnlyStale DEF Counted
<1>5. Tracked(t) /\ Distinct /\ r.open \subseteq Ids /\ r.admitted \subseteq r.open
    BY DriverTyped DEF Counted, Remembered
<1>6. r.todo \subseteq Open /\ r.admitted \subseteq Open /\ r.todo \cap r.admitted = {}
    BY <1>1, <1>5 DEF Tracked, At
<1>7. \/ Open' = Open
      \/ Open' = Open \ {i} /\ n.todo = r.todo \ {i} /\ n.admitted = r.admitted
    BY <1>2, <1>6 DEF Open, OPEN_STATUSES
<1>8. Distinct' /\ Fresh'
  <2>1. Open' \subseteq Open /\ Open \subseteq Ids
      BY <1>7 DEF Open
  <2> HIDE DEF i, n, r
  <2> QED BY <1>2, <1>4, <1>5, <2>1 DEF Distinct, Fresh
<1>9. n.todo \subseteq Open' /\ n.admitted \subseteq Open' /\ n.todo \cap n.admitted = {}
    BY <1>2, <1>6, <1>7
<1>10. \A j \in n.admitted : issues'[j].attempts = n.attempts[j] + 1
  <2>1. \A j \in r.admitted : issues[j].attempts = r.attempts[j] + 1 /\ j \in Ids
      BY <1>5 DEF Tracked
  <2> QED BY <1>1, <1>2, <1>6, <2>1
<1>11. \A j, k \in n.open : issues'[j].defect = issues'[k].defect => j = k
    BY <1>1, <1>2, <1>5 DEF Tracked
<1>12. Ahead(t) = r.open /\ Ahead(t)' = r.open
    BY <1>1, <1>3, AheadOf DEF Ahead, At
<1>13. \A j \in Ahead(t)' : /\ n.ran[issues'[j].defect] <= n.cycle
                            /\ n.ran[issues'[j].defect] = n.cycle => n.attempts[j] >= n.cycle
    BY <1>1, <1>2, <1>5, <1>12 DEF Tracked
<1>14. \A d \in Defects : n.ran[d] = n.cycle + 1 =>
         \E j \in n.admitted : issues'[j].defect = d /\ n.attempts[j] >= n.cycle
  <2>1. \A d \in Defects : r.ran[d] = r.cycle + 1 =>
          \E j \in r.admitted : issues[j].defect = d /\ r.attempts[j] >= r.cycle
      BY <1>1, <1>5 DEF Tracked, At
  <2>2. r.admitted \subseteq n.admitted
      BY <1>2
  <2> QED BY <1>1, <1>2, <1>5, <2>1, <2>2
<1>15. \A d \in Defects : n.ran[d] <= MaxRepairs /\ n.ran[d] <= n.cycle + 1
    BY <1>1, <1>5 DEF Tracked
<1>16. Tracked(t)'
  <2> HIDE DEF i, r
  <2> QED BY <1>1, <1>9, <1>10, <1>11, <1>13, <1>14, <1>15 DEF Tracked, At
<1> QED BY <1>8, <1>16, CycleCounted DEF Cycle

\* What was admitted is what is to be repaired.
LEMMA AppliedCounted ==
    ASSUME TInv, BInv, Next, Calm', Counted, NEW t \in Threads, Applied(t)
    PROVE  Counted'
<1> DEFINE r == driver[t]
           n == driver'[t]
<1>1. /\ thread[t].pc = "apply" /\ UNCHANGED issues
      /\ \/ thread'[t].pc = "idle" /\ n = Apart
         \/ /\ thread'[t].pc = "regenerate"
            /\ n.cycle = r.cycle /\ n.open = r.open /\ n.todo = r.admitted /\ n.admitted = r.admitted
            /\ n.attempts = r.attempts /\ n.ran = r.ran
    BY AppliedPosts
<1>2. Calm /\ TInv' /\ t \in Driving
    BY <1>1, CalmSteps, TInvNext DEF Driving
<1>3. \A i \in Open : issues[i].current
    BY <1>1, <1>2, OnlyStale DEF Counted
<1>4. Distinct' /\ Fresh' /\ Open' = Open
    BY <1>1, <1>3, IssuesCounted DEF Counted
<1>5. CASE thread'[t].pc = "idle" /\ n = Apart
  <2>1. Tracked(t)'
      BY <1>2, <1>5, TrackedApart
  <2> QED BY <1>4, <2>1, CycleCounted DEF Cycle
<1>6. CASE /\ thread'[t].pc = "regenerate"
           /\ n.cycle = r.cycle /\ n.open = r.open /\ n.todo = r.admitted /\ n.admitted = r.admitted
           /\ n.attempts = r.attempts /\ n.ran = r.ran
  <2>1. Tracked(t) /\ r.admitted \subseteq r.open
      BY DriverTyped DEF Counted, Remembered
  <2>2. Ahead(t) = r.open /\ Ahead(t)' \subseteq r.open
      BY <1>1, <1>6, AheadOf DEF Ahead, At
  <2>3. Tracked(t)'
      BY <1>1, <1>4, <1>6, <2>1, <2>2 DEF Tracked, At
  <2> QED BY <1>4, <2>3, CycleCounted DEF Cycle
<1> QED BY <1>1, <1>5, <1>6

\* A repair that succeeds makes the artifact anew: what was found in it is no longer current.
LEMMA RegeneratedIssues ==
    ASSUME TInv, NEW t \in Threads, Regenerate(t)
    PROVE  LET d == issues[First(driver[t].todo)].defect
           IN  /\ Ids' = Ids /\ Open' = Open
               /\ \A j \in Ids : /\ issues'[j].defect = issues[j].defect
                                 /\ issues'[j].attempts = issues[j].attempts
                                 /\ issues[j].current =>
                                      issues'[j].current \/ (driver'[t].result = "resolved" /\ issues[j].defect = d)
<1> DEFINE d == issues[First(driver[t].todo)].defect
           renewed(j) == driver'[t].result = "resolved" /\ issues[j].defect = d
<1>1. issues' = [j \in Ids |-> IF renewed(j) THEN [issues[j] EXCEPT !.current = FALSE] ELSE issues[j]]
    BY RegeneratePosts
<1>2. \A j \in Ids : issues[j] \in Issue
    BY DriverTyped
<1> HIDE DEF d
<1>3. ASSUME NEW j \in Ids
      PROVE  /\ issues'[j].defect = issues[j].defect /\ issues'[j].attempts = issues[j].attempts
             /\ issues'[j].status = issues[j].status
             /\ issues[j].current => issues'[j].current \/ renewed(j)
  <2>1. CASE renewed(j)
    <3>1. issues'[j] = [issues[j] EXCEPT !.current = FALSE]
        BY <1>1, <2>1
    <3> QED BY <1>2, <2>1, <3>1 DEF Issue
  <2>2. CASE ~renewed(j)
    <3>1. issues'[j] = issues[j]
        BY <1>1, <2>2
    <3> QED BY <3>1
  <2> QED BY <2>1, <2>2
<1>4. Ids' = Ids
    BY <1>1 DEF Ids
<1>5. Open' = Open
    BY <1>3, <1>4 DEF Open
<1> QED BY <1>3, <1>4, <1>5 DEF d

\* A driver has no more cycles than there are repairs, and one.
LEMMA LimitOfRepairs ==
    ASSUME NEW op
    PROVE  Limit(op) <= MaxRepairs + 1 /\ (op = "retry" => Limit(op) = 1)
BY RepairsAssumption DEF Limit, REPAIR_CYCLE_CEILING

\* A defect is repaired once more: either it was repaired in each cycle so far, and its issue
\* says that one more is allowed, or there was a cycle without.
LEMMA RegenerateCounted ==
    ASSUME TInv, BInv, Next, Calm', Counted, NEW t \in Threads, Regenerate(t)
    PROVE  Counted'
<1> DEFINE r == driver[t]
           n == driver'[t]
           i == First(r.todo)
           d == issues[i].defect
<1>1. /\ thread[t].pc = "regenerate" /\ thread'[t].pc = "charge"
      /\ n.cycle = r.cycle /\ n.open = r.open /\ n.todo = r.todo /\ n.admitted = r.admitted
      /\ n.attempts = r.attempts
      /\ n.ran = r.ran \/ n.ran = [r.ran EXCEPT ![d] = r.ran[d] + 1]
    BY RegeneratePosts
<1>2. /\ Ids' = Ids /\ Open' = Open
      /\ \A j \in Ids : /\ issues'[j].defect = issues[j].defect
                        /\ issues'[j].attempts = issues[j].attempts
                        /\ issues[j].current =>
                             issues'[j].current \/ (n.result = "resolved" /\ issues[j].defect = d)
    BY RegeneratedIssues
<1>3. Calm /\ TInv' /\ t \in Driving
    BY <1>1, CalmSteps, TInvNext DEF Driving
<1>4. \A j \in Open : issues[j].current
    BY <1>1, <1>3, OnlyStale DEF Counted
<1>5. /\ Tracked(t) /\ Distinct /\ r.open \subseteq Ids /\ r.admitted \subseteq r.open
      /\ r.todo \subseteq r.open /\ r.todo # {} /\ r.cycle < Limit(thread[t].op)
      /\ \A j \in r.admitted : r.attempts[j] < MaxRepairs
      /\ r.cycle \in Nat /\ r.ran \in [Defects -> Nat] /\ Open \subseteq Ids
    BY <1>1, DriverTyped DEF Counted, Remembered, Memories
<1>6. i \in r.todo /\ i \in r.open /\ i \in Ids /\ d \in Defects /\ r.attempts[i] \in Nat
    BY <1>5, FirstTyped
<1>7. r.todo \subseteq Open /\ r.todo \subseteq r.admitted /\ Ahead(t) = r.todo
    BY <1>1, <1>5, AheadOf DEF Tracked, At
<1>8. r.ran[d] <= r.cycle /\ (r.ran[d] = r.cycle => r.attempts[i] >= r.cycle)
    BY <1>5, <1>6, <1>7 DEF Tracked
<1> HIDE DEF i, d
<1>9. Distinct'
    BY <1>2, <1>5 DEF Distinct
<1>10. Fresh'
  <2> SUFFICES ASSUME NEW j \in Open', ~issues'[j].current
               PROVE  thread'[t].pc \in {"charge", "record"} /\ n.result = "resolved" /\ j = First(n.todo)
      BY DEF Fresh
  <2>1. j \in Open /\ j \in Ids /\ n.result = "resolved" /\ issues[j].defect = d
      BY <1>2, <1>4, <1>5
  <2>2. j = i
      BY <1>5, <1>6, <1>7, <2>1 DEF Distinct, d
  <2> QED BY <1>1, <2>1, <2>2 DEF i
<1>11. \A e \in Defects : n.ran[e] = r.ran[e] \/ (e = d /\ n.ran[e] = r.ran[e] + 1)
    BY <1>1, <1>5, <1>6
<1>12. \A e \in Defects : n.ran[e] <= MaxRepairs /\ n.ran[e] <= n.cycle + 1
  <2>1. Limit(thread[t].op) <= MaxRepairs + 1 /\ Limit(thread[t].op) \in Nat
      BY LimitOfRepairs, LimitIsPositive
  <2>2. r.ran[d] + 1 <= MaxRepairs
      BY <1>5, <1>6, <1>7, <1>8, <2>1, RepairsAssumption
  <2>3. \A e \in Defects : r.ran[e] <= MaxRepairs /\ r.ran[e] <= r.cycle + 1
      BY <1>5 DEF Tracked
  <2> QED BY <1>1, <1>5, <1>6, <1>8, <1>11, <2>2, <2>3
<1>13. \A j, k \in n.open : issues'[j].defect = issues'[k].defect => j = k
    BY <1>1, <1>2, <1>5 DEF Tracked
<1>14. n.todo \subseteq Open' /\ n.todo \subseteq n.admitted
    BY <1>1, <1>2, <1>7
<1>15. \A j \in n.admitted : issues'[j].attempts = n.attempts[j] + 1
    BY <1>1, <1>2, <1>5 DEF Tracked
<1>16. \A j \in Ahead(t)' : /\ n.ran[issues'[j].defect] <= n.cycle
                            /\ n.ran[issues'[j].defect] = n.cycle => n.attempts[j] >= n.cycle
  <2> SUFFICES ASSUME NEW j \in Ahead(t)'
               PROVE  /\ n.ran[issues'[j].defect] <= n.cycle
                      /\ n.ran[issues'[j].defect] = n.cycle => n.attempts[j] >= n.cycle
      OBVIOUS
  <2>1. Ahead(t)' = n.todo \ {First(n.todo)}
      BY <1>1, <1>3, AheadOf DEF Ahead, At
  <2>2. j \in r.todo /\ j # i /\ j \in r.open /\ j \in Ids
      BY <1>1, <1>5, <2>1 DEF i
  <2>3. issues[j].defect # d /\ issues[j].defect \in Defects
      BY <1>5, <1>6, <2>2, DriverTyped DEF Tracked, d
  <2>4. r.ran[issues[j].defect] <= r.cycle /\ (r.ran[issues[j].defect] = r.cycle => r.attempts[j] >= r.cycle)
      BY <1>5, <1>7, <2>2 DEF Tracked
  <2> QED BY <1>1, <1>2, <1>11, <2>2, <2>3, <2>4
<1>17. ASSUME NEW e \in Defects, n.ran[e] = n.cycle + 1
       PROVE  \E j \in n.admitted : issues'[j].defect = e /\ n.attempts[j] >= n.cycle
  <2>1. CASE n.ran[e] = r.ran[e]
    <3>1. PICK j \in r.admitted : issues[j].defect = e /\ r.attempts[j] >= r.cycle
        BY <1>1, <1>5, <1>17, <2>1 DEF Tracked, At
    <3>2. j \in Ids
        BY <1>5, <3>1
    <3> QED BY <1>1, <1>2, <3>1, <3>2
  <2>2. CASE e = d /\ n.ran[e] = r.ran[e] + 1
    <3>1. r.attempts[i] >= r.cycle
        BY <1>1, <1>5, <1>6, <1>8, <1>17, <2>2
    <3>2. i \in n.admitted /\ issues'[i].defect = e
        BY <1>1, <1>2, <1>6, <1>7, <2>2 DEF d
    <3> QED BY <1>1, <3>1, <3>2
  <2> QED BY <1>11, <2>1, <2>2
<1>18. Tracked(t)'
  <2> HIDE DEF r
  <2> QED BY <1>1, <1>12, <1>13, <1>14, <1>15, <1>16, <1>17 DEF Tracked, At
<1> QED BY <1>9, <1>10, <1>18, CycleCounted DEF Cycle

\* The charge concerns the Job alone.
LEMMA ChargeCounted ==
    ASSUME TInv, BInv, Next, Calm', Counted, NEW t \in Threads, Charge(t)
    PROVE  Counted'
<1> DEFINE r == driver[t]
           n == driver'[t]
<1>1. /\ thread[t].pc = "charge" /\ thread'[t].pc = "record" /\ UNCHANGED issues
      /\ n.cycle = r.cycle /\ n.open = r.open /\ n.todo = r.todo /\ n.admitted = r.admitted
      /\ n.attempts = r.attempts /\ n.ran = r.ran /\ n.result = r.result
    BY ChargePosts
<1>2. Calm /\ TInv' /\ t \in Driving /\ Open' = Open /\ Ids' = Ids
    BY <1>1, CalmSteps, TInvNext DEF Driving, Open, Ids
<1>3. \A j \in Open : issues[j].current \/ (r.result = "resolved" /\ j = First(r.todo))
    BY <1>1, <1>2, OnlyStale DEF Counted
<1>4. Distinct' /\ Fresh'
    BY <1>1, <1>2, <1>3 DEF Counted, Distinct, Fresh
<1>5. Tracked(t) /\ Ahead(t) = r.todo \ {First(r.todo)} /\ Ahead(t)' = Ahead(t)
    BY <1>1, <1>2, AheadOf DEF Counted, Ahead, At
<1>6. Tracked(t)'
    BY <1>1, <1>2, <1>5 DEF Tracked, At
<1> QED BY <1>4, <1>6, CycleCounted DEF Cycle

\* The issue whose repair is recorded is resolved, or open and current as before.
LEMMA RecordCounted ==
    ASSUME TInv, BInv, Next, Calm', Counted, NEW t \in Threads, Record(t)
    PROVE  Counted'
<1> DEFINE r == driver[t]
           n == driver'[t]
           i == First(r.todo)
           s == IF r.result = "resolved" THEN "resolved" ELSE "open"
<1>1. /\ thread[t].pc = "record" /\ thread'[t].pc = (IF r.todo = {i} THEN "review" ELSE "regenerate")
      /\ Changed(i, s)
      /\ n.cycle = r.cycle /\ n.open = r.open /\ n.todo = r.todo \ {i} /\ n.admitted = r.admitted
      /\ n.attempts = r.attempts /\ n.ran = r.ran
    BY RecordPosts
<1>2. Calm /\ TInv' /\ t \in Driving
    BY <1>1, CalmSteps, TInvNext DEF Driving
<1>3. \A j \in Open : issues[j].current \/ (r.result = "resolved" /\ j = i)
    BY <1>1, <1>2, OnlyStale DEF Counted
<1>4. /\ Tracked(t) /\ Distinct /\ r.open \subseteq Ids /\ r.admitted \subseteq r.open
      /\ r.todo \subseteq r.open /\ r.todo # {} /\ issues \in Seq(Issue) /\ Ids = 1..Len(issues)
      /\ Open \subseteq Ids
    BY <1>1, DriverTyped DEF Counted, Remembered
<1>5. i \in r.todo /\ i \in 1..Len(issues)
    BY <1>4, FirstTyped
<1>6. r.todo \subseteq Open /\ r.todo \subseteq r.admitted /\ Ahead(t) = r.todo \ {i}
    BY <1>1, <1>4, AheadOf DEF Tracked
<1> HIDE DEF i
<1>7. /\ issues' \in Seq(Issue) /\ Len(issues') = Len(issues) /\ issues'[i].status = s
      /\ \A j \in 1..Len(issues) : j # i => issues'[j] = issues[j]
      /\ \A j \in 1..Len(issues) : /\ issues'[j].attempts = issues[j].attempts
                                   /\ issues'[j].defect = issues[j].defect
                                   /\ issues'[j].current = issues[j].current
    BY <1>1, <1>4, <1>5, IssueTyped DEF OPEN_STATUSES
<1>8. Ids' = Ids
    BY <1>4, <1>7 DEF Ids
<1>9. Open' = IF r.result = "resolved" THEN Open \ {i} ELSE Open
    BY <1>4, <1>5, <1>6, <1>7, <1>8 DEF Open, OPEN_STATUSES
<1> HIDE DEF s
<1>10. Distinct'
    BY <1>4, <1>7, <1>9 DEF Distinct
<1>11. Fresh'
    BY <1>3, <1>4, <1>7, <1>9 DEF Fresh
<1>12. n.todo \subseteq Open' /\ n.todo \subseteq n.admitted
    BY <1>1, <1>6, <1>9
<1>13. Ahead(t)' \subseteq r.todo \ {i}
  <2>1. thread'[t].pc \notin {"apply", "charge", "record"}
      BY <1>1
  <2> QED BY <1>1, <2>1 DEF Ahead, At
<1>14. \A j \in Ahead(t)' : /\ n.ran[issues'[j].defect] <= n.cycle
                            /\ n.ran[issues'[j].defect] = n.cycle => n.attempts[j] >= n.cycle
  <2>1. \A j \in Ahead(t)' : j \in Ahead(t) /\ j \in Ids
      BY <1>4, <1>6, <1>13
  <2> QED BY <1>1, <1>4, <1>7, <2>1 DEF Tracked
<1>15. \A j, k \in n.open : issues'[j].defect = issues'[k].defect => j = k
    BY <1>1, <1>4, <1>7 DEF Tracked
<1>16. \A j \in n.admitted : issues'[j].attempts = n.attempts[j] + 1
    BY <1>1, <1>4, <1>7 DEF Tracked
<1>17. \A d \in Defects : n.ran[d] <= MaxRepairs /\ n.ran[d] <= n.cycle + 1
    BY <1>1, <1>4 DEF Tracked
<1>18. \A d \in Defects : n.ran[d] = n.cycle + 1 =>
         \E j \in n.admitted : issues'[j].defect = d /\ n.attempts[j] >= n.cycle
  <2>1. \A d \in Defects : r.ran[d] = r.cycle + 1 =>
          \E j \in r.admitted : issues[j].defect = d /\ r.attempts[j] >= r.cycle
      BY <1>1, <1>4 DEF Tracked, At
  <2> QED BY <1>1, <1>4, <1>7, <2>1
<1>19. thread'[t].pc \in {"review", "regenerate"}
    BY <1>1
<1>20. Tracked(t)'
  <2> HIDE DEF r
  <2> QED BY <1>12, <1>14, <1>15, <1>16, <1>17, <1>18, <1>19 DEF Tracked, At
<1> QED BY <1>10, <1>11, <1>20, CycleCounted DEF Cycle

\* A defect that Review sees is a new issue only where no open issue is about it.
LEMMA ReviewedIssues ==
    ASSUME TInv, Distinct, \A i \in Open : issues[i].current, NEW t \in Threads, Review(t)
    PROVE  /\ Ids \subseteq Ids' /\ \A i \in Ids : issues'[i] = issues[i]
           /\ Distinct' /\ \A i \in Open' : issues'[i].current
<1>1. PICK seen \in SUBSET Defects :
        issues' = issues \o SetToSeq({NewIssue(d) : d \in {e \in seen :
                    \A i \in Open : issues[i].defect = e => ~issues[i].current}})
    BY DEF Review
<1> DEFINE D == {e \in seen : \A i \in Open : issues[i].defect = e => ~issues[i].current}
           N == {NewIssue(d) : d \in D}
           q == SetToSeq(N)
<1>2. D \in SUBSET Defects /\ issues \in Seq(Issue) /\ Ids = 1..Len(issues) /\ Open \subseteq Ids
    BY DriverTyped
<1>3. /\ q \in Seq(N) /\ \A i, j \in 1..Len(q) : q[i] = q[j] => i = j
      /\ Len(q) \in Nat
    BY <1>2, NewIssuesTyped
<1>4. /\ N \in SUBSET Issue /\ \A e \in N : e.current /\ e.defect \in D /\ e = NewIssue(e.defect)
    BY <1>2, NewIssueTyped
<1>5. \A d \in D, i \in Open : issues[i].defect # d
    OBVIOUS
<1>6. issues' = issues \o q
    BY <1>1
<1> HIDE DEF D, N, q
<1>7. /\ issues' \in Seq(Issue) /\ Len(issues') = Len(issues) + Len(q)
      /\ \A j \in 1..Len(issues) : issues'[j] = issues[j]
      /\ \A j \in 1..Len(issues') : j \notin 1..Len(issues) =>
           j - Len(issues) \in 1..Len(q) /\ issues'[j] = q[j - Len(issues)]
    BY <1>2, <1>3, <1>4, <1>6, FollowedTyped
<1>8. Ids' = 1..Len(issues') /\ Ids \subseteq Ids'
    BY <1>2, <1>3, <1>7 DEF Ids
<1>9. \A j \in Open' : \/ j \in Open /\ issues'[j] = issues[j]
                       \/ j \in Int /\ j - Len(issues) \in 1..Len(q) /\ issues'[j] = q[j - Len(issues)]
                          /\ issues'[j] \in N
  <2> TAKE j \in Open'
  <2>1. j \in 1..Len(issues') /\ issues'[j].status \in OPEN_STATUSES
      BY <1>8 DEF Open
  <2>2. CASE j \in 1..Len(issues)
    <3>1. j \in Open
        BY <1>2, <1>7, <2>1, <2>2 DEF Open
    <3> QED BY <1>7, <2>2, <3>1
  <2>3. CASE j \notin 1..Len(issues)
    <3>1. j - Len(issues) \in 1..Len(q) /\ issues'[j] = q[j - Len(issues)] /\ j \in Int
        BY <1>7, <2>1, <2>3
    <3>2. issues'[j] \in N
        BY <1>3, <3>1
    <3> QED BY <3>1, <3>2
  <2> QED BY <2>2, <2>3
<1>10. \A i \in Open' : issues'[i].current
    BY <1>4, <1>9
<1>11. ASSUME NEW i \in Open', NEW j \in Open', issues'[i].defect = issues'[j].defect
       PROVE  i = j
  <2>1. CASE i \in Open /\ issues'[i] = issues[i] /\ j \in Open /\ issues'[j] = issues[j]
      BY <1>11, <2>1 DEF Distinct
  <2>2. ASSUME NEW k \in Open, issues'[k] = issues[k], NEW n, issues'[n] \in N
        PROVE  issues'[k].defect # issues'[n].defect
      BY <1>4, <1>5, <2>2
  <2>3. CASE /\ i \in Int /\ i - Len(issues) \in 1..Len(q) /\ issues'[i] = q[i - Len(issues)]
             /\ issues'[i] \in N
             /\ j \in Int /\ j - Len(issues) \in 1..Len(q) /\ issues'[j] = q[j - Len(issues)]
             /\ issues'[j] \in N
    <3>1. issues'[i] = issues'[j]
        BY <1>4, <1>11, <2>3
    <3>2. i - Len(issues) = j - Len(issues)
        BY <1>3, <2>3, <3>1
    <3> QED BY <1>2, <2>3, <3>2
  <2> QED BY <1>9, <1>11, <2>1, <2>2, <2>3
<1> QED BY <1>2, <1>7, <1>8, <1>10, <1>11 DEF Distinct

\* What a review adds is about the artifact as it is, with no attempts of its own yet.
LEMMA ReviewCounted ==
    ASSUME TInv, BInv, Next, Calm', Counted, NEW t \in Threads, Review(t)
    PROVE  Counted'
<1>1. thread[t].pc = "review" /\ thread'[t].pc = "carry" /\ UNCHANGED driver
    BY ReviewPosts
<1>2. Calm /\ TInv' /\ t \in Driving
    BY <1>1, CalmSteps, TInvNext DEF Driving
<1>3. \A j \in Open : issues[j].current
    BY <1>1, <1>2, OnlyStale DEF Counted
<1>4. /\ Ids \subseteq Ids' /\ \A i \in Ids : issues'[i] = issues[i]
      /\ Distinct' /\ \A i \in Open' : issues'[i].current
    BY <1>3, ReviewedIssues DEF Counted
<1>5. Fresh'
    BY <1>4 DEF Fresh
<1>6. Ahead(t)' = {}
    BY <1>1 DEF Ahead, At
<1>7. Tracked(t) /\ driver[t].open \subseteq Ids /\ driver[t].admitted \subseteq driver[t].open
    BY DriverTyped DEF Counted, Remembered
<1>8. Tracked(t)'
    BY <1>1, <1>4, <1>6, <1>7 DEF Tracked, At
<1> QED BY <1>4, <1>5, <1>8, CycleCounted DEF Cycle

\* A defect that was repaired in every cycle leaves an issue that says so: the one that was
\* admitted, open again, or a new one that inherits its attempts.
LEMMA CarryCounted ==
    ASSUME TInv, BInv, Next, Calm', Counted, NEW t \in Threads, Carry(t)
    PROVE  Counted'
<1> DEFINE r == driver[t]
           n == driver'[t]
<1>1. /\ thread[t].pc = "carry"
      /\ \/ thread'[t].pc = "plan" /\ n.cycle = r.cycle + 1 /\ n.ran = r.ran
         \/ thread'[t].pc = "idle" /\ n = Apart
    BY CarryPosts
<1>2. Calm /\ TInv' /\ t \in Driving
    BY <1>1, CalmSteps, TInvNext DEF Driving
<1>3. \A j \in Open : issues[j].current
    BY <1>1, <1>2, OnlyStale DEF Counted
<1>4. /\ issues' \in Seq(Issue) /\ Len(issues') = Len(issues)
      /\ \A i \in 1..Len(issues) :
           /\ issues'[i].attempts = IF i \in Open \ r.open
                                    THEN Max(Inherited(r, i) \cup {issues[i].attempts})
                                    ELSE issues[i].attempts
           /\ issues'[i].status = issues[i].status /\ issues'[i].defect = issues[i].defect
           /\ issues'[i].current = issues[i].current
    BY CarriedIssues
<1>5. /\ Ids = 1..Len(issues) /\ Open \subseteq Ids /\ r.open \subseteq Ids /\ r.admitted \subseteq r.open
      /\ Tracked(t) /\ Distinct /\ r.cycle \in Nat /\ r.ran \in [Defects -> Nat]
    BY DriverTyped DEF Counted, Remembered, Memories
<1>6. Ids' = Ids
    BY <1>4, <1>5 DEF Ids
<1>7. Open' = Open
    BY <1>4, <1>5, <1>6 DEF Open
<1>8. Distinct' /\ Fresh'
  <2>1. \A i \in Open : issues'[i].defect = issues[i].defect /\ issues'[i].current = issues[i].current
      BY <1>4, <1>5
  <2>2. Distinct'
      BY <1>5, <1>7, <2>1 DEF Distinct
  <2>3. Fresh'
      BY <1>3, <1>7, <2>1 DEF Fresh
  <2> QED BY <2>2, <2>3
<1>9. CASE thread'[t].pc = "idle" /\ n = Apart
  <2>1. Tracked(t)'
      BY <1>2, <1>9, TrackedApart
  <2> QED BY <1>8, <2>1, CycleCounted DEF Cycle
<1>10. CASE thread'[t].pc = "plan" /\ n.cycle = r.cycle + 1 /\ n.ran = r.ran
  <2>1. n.open = {} /\ n.admitted = {}
      BY <1>2, <1>10 DEF TInv, Repairing, Remembered
  <2>2. Ahead(t)' = {}
      BY <2>1 DEF Ahead
  <2>3. \A d \in Defects : r.ran[d] <= MaxRepairs /\ r.ran[d] <= r.cycle + 1
      BY <1>5 DEF Tracked
  <2>4. \A d \in Defects : n.ran[d] <= MaxRepairs /\ n.ran[d] <= n.cycle /\ n.ran[d] <= n.cycle + 1
      BY <1>5, <1>10, <2>3
  <2>5. ASSUME NEW d \in Defects, n.ran[d] = n.cycle, NEW i \in Open', issues'[i].defect = d
        PROVE  issues'[i].attempts >= n.cycle
    <3>1. i \in Open /\ i \in 1..Len(issues) /\ issues[i].defect = d
        BY <1>4, <1>5, <1>7, <2>5
    <3>2. PICK j \in r.admitted : issues[j].defect = d /\ r.attempts[j] >= r.cycle
        BY <1>1, <1>5, <1>10, <2>5 DEF Tracked, At
    <3>3. r.attempts[j] \in Nat /\ issues[j].attempts = r.attempts[j] + 1
      <4>1. issues[j].attempts = r.attempts[j] + 1
          BY <1>5, <3>2 DEF Tracked
      <4>2. r.attempts \in Tries /\ j \in DOMAIN r.attempts
          BY <1>5, <3>2, DriverTyped DEF Memories, Remembered
      <4>3. r.attempts[j] \in Nat
        <5>1. PICK S \in SUBSET Nat : r.attempts \in [S -> 0..MaxRepairs]
            BY <4>2 DEF Tries
        <5>2. r.attempts[j] \in 0..MaxRepairs
            BY <4>2, <5>1
        <5> QED BY <5>2, RepairsAssumption
      <4> QED BY <4>1, <4>3
    <3>4. CASE i \in r.open
      <4>1. i = j
          BY <1>5, <3>1, <3>2, <3>4 DEF Tracked
      <4>2. issues'[i].attempts = issues[i].attempts
          BY <1>4, <3>1, <3>4
      <4> QED BY <1>5, <1>10, <3>2, <3>3, <4>1, <4>2
    <3>5. CASE i \notin r.open
      <4> DEFINE S == Inherited(r, i) \cup {issues[i].attempts}
      <4>1. r.attempts[j] + 1 \in S
          BY <3>1, <3>2 DEF Inherited
      <4>2. issues'[i].attempts = Max(S)
          BY <1>4, <3>1, <3>5
      <4>3. i \in Ids
          BY <1>5, <3>1
      <4>4. S \subseteq 0..MaxRepairs /\ Max(S) \in S /\ \A a \in S : a <= Max(S)
          BY <4>3, InheritedTyped
      <4> HIDE DEF S
      <4>5. r.attempts[j] + 1 <= Max(S)
          BY <4>1, <4>4
      <4>6. Max(S) \in Nat
        <5>1. Max(S) \in 0..MaxRepairs
            BY <4>4
        <5> QED BY <5>1
      <4> QED BY <1>5, <1>10, <3>2, <3>3, <4>2, <4>5, <4>6
    <3> QED BY <3>4, <3>5
  <2>6. Tracked(t)'
    <3> HIDE DEF r
    <3> QED BY <1>10, <2>1, <2>2, <2>4, <2>5 DEF Tracked, At
  <2> QED BY <1>8, <2>6, CycleCounted DEF Cycle
<1> QED BY <1>1, <1>9, <1>10

-----------------------------------------------------------------------------
\* What Review found in the run is told apart, and no driver has begun.
LEMMA RInvInit == Init => RInv
<1> SUFFICES ASSUME Init PROVE Counted
    BY DEF RInv
<1>1. PICK D \in SUBSET Defects : issues = SetToSeq({NewIssue(d) : d \in D})
    BY DEF Init
<1> DEFINE N == {NewIssue(d) : d \in D}
<1>2. \A e \in N : e.current /\ e.defect \in D /\ e = NewIssue(e.defect)
    BY NewIssueTyped
<1>3. /\ issues \in Seq(N) /\ Len(issues) \in Nat
      /\ \A i, j \in 1..Len(issues) : issues[i] = issues[j] => i = j
    BY <1>1, NewIssuesTyped
<1> HIDE DEF N
<1>4. \A i \in Open : i \in 1..Len(issues) /\ issues[i] \in N
    BY <1>3 DEF Open, Ids
<1>5. Distinct /\ Fresh
    BY <1>2, <1>3, <1>4 DEF Distinct, Fresh
<1>6. ASSUME NEW t \in Threads PROVE Tracked(t)
  <2>1. driver[t] = Apart /\ thread[t].pc = "idle" /\ TInv
      BY TInvInit DEF Init, JobInit, Idle
  <2>2. /\ driver[t].cycle = 0 /\ driver[t].open = {} /\ driver[t].admitted = {}
        /\ \A d \in Defects : driver[t].ran[d] = 0
      BY <2>1, ApartIsEmpty
  <2>3. Ahead(t) = {}
      BY <2>2 DEF Ahead
  <2> QED BY <2>1, <2>2, <2>3, RepairsAssumption DEF Tracked, At
<1> QED BY <1>5, <1>6 DEF Counted

\* Every step keeps the count of the repairs.
LEMMA RInvNext == TInv /\ BInv /\ RInv /\ [Next]_vars => RInv'
<1> SUFFICES ASSUME TInv, BInv, RInv, [Next]_vars, Calm' PROVE Counted'
    BY DEF RInv
<1>1. CASE UNCHANGED vars
  <2>1. UNCHANGED <<thread, crashes, issues, driver, overlap>>
      BY <1>1 DEF vars, jobVars, repairVars, engine
  <2>2. Counted /\ Open' = Open /\ \A t \in Threads : Ahead(t)' = Ahead(t)
      BY <2>1 DEF RInv, Calm, Open, Ids, Ahead, At
  <2>3. Distinct' /\ Fresh'
      BY <2>1, <2>2 DEF Counted, Distinct, Fresh
  <2>4. \A t \in Threads : Tracked(t)'
      BY <2>1, <2>2 DEF Counted, Tracked, At
  <2> QED BY <2>3, <2>4 DEF Counted
<1>2. CASE Next
  <2>1. Counted /\ JobTypeOK
      BY <1>2, CalmSteps DEF RInv, TInv
  <2>2. ASSUME NEW t \in Threads, UNCHANGED repairVars,
               Request(t) \/ WaitTimesOut(t) \/ \E op \in Polls \cup Orders : Begin(t, op)
        PROVE  Counted'
    <3>1. /\ thread[t].pc \notin DRIVING /\ thread'[t].pc \notin DRIVING \ {"plan"}
          /\ \A u \in Threads \ {t} : thread'[u] = thread[u]
        BY <2>1, <2>2, RequestStays
    <3> QED BY <1>2, <2>1, <2>2, <3>1, OutsideCounted
  <2>3. ASSUME Work \/ EndElsewhere, UNCHANGED repairVars PROVE Counted'
    <3>1. UNCHANGED thread
        BY <2>3 DEF Work, EndElsewhere
    <3> QED BY <1>2, <2>1, <2>3, <3>1, OutsideCounted
  <2>4. ASSUME NEW t \in Threads, Cycle(t) PROVE Counted'
    <3>1. CASE PlanNothing(t)
        BY <1>2, <2>1, <3>1, PlanNothingCounted
    <3>2. CASE Plan(t)
        BY <1>2, <2>1, <3>2, PlanCounted
    <3>3. CASE Apply(t)
        BY <1>2, <2>1, <3>3, ApplyCounted
    <3>4. CASE Applied(t)
        BY <1>2, <2>1, <3>4, AppliedCounted
    <3>5. CASE Regenerate(t)
        BY <1>2, <2>1, <3>5, RegenerateCounted
    <3>6. CASE Charge(t)
        BY <1>2, <2>1, <3>6, ChargeCounted
    <3>7. CASE Record(t)
        BY <1>2, <2>1, <3>7, RecordCounted
    <3>8. CASE Review(t)
        BY <1>2, <2>1, <3>8, ReviewCounted
    <3>9. CASE Carry(t)
        BY <1>2, <2>1, <3>9, CarryCounted
    <3> QED BY <2>4, <3>1, <3>2, <3>3, <3>4, <3>5, <3>6, <3>7, <3>8, <3>9 DEF Cycle
  <2>5. ASSUME NEW t \in Threads, NEW d \in Defects, Retry(t, d) PROVE Counted'
      BY <1>2, <2>1, <2>5, RetryCounted
  <2>6. ~Restart
    <3>1. crashes \in Nat
        BY <2>1 DEF JobTypeOK
    <3> QED BY <3>1 DEF Restart, Calm
  <2> QED BY <1>2, <2>2, <2>3, <2>4, <2>5, <2>6, StepKinds
<1> QED BY <1>1, <1>2

\* However often Review finds a defect again, one driver repairs it max_repairs times at most,
\* and a retry once, as long as drivers do not overlap and no restart cuts a repair in two.
THEOREM RepairsHold == Spec => []RepairsBounded
<1>1. TInv /\ RInv => RepairsBounded
  <2> SUFFICES ASSUME TInv, RInv, Calm, NEW t \in Threads, NEW d \in Defects
               PROVE  /\ driver[t].ran[d] <= MaxRepairs
                      /\ thread[t].op = "retry" => driver[t].ran[d] <= 1
      BY DEF RepairsBounded, Calm
  <2>1. driver[t].ran[d] <= MaxRepairs /\ driver[t].ran[d] <= driver[t].cycle + 1
      BY DEF RInv, Counted, Tracked
  <2>2. driver[t].cycle \in Nat /\ driver[t].ran[d] \in Nat /\ driver[t].cycle < Limit(thread[t].op)
      BY DriverTyped DEF Memories, Remembered
  <2>3. thread[t].op = "retry" => Limit(thread[t].op) = 1
      BY LimitOfRepairs
  <2> QED BY <2>1, <2>2, <2>3
<1> QED BY <1>1, TInvInit, TInvNext, BInvInit, BInvNext, RInvInit, RInvNext, PTL DEF Spec

-----------------------------------------------------------------------------
(* The end of a Job.                                                        *)

\* The Job is run by one execution.
OneRun == \A e, x \in Executions : e = x

\* The execution of the Job has ended, or it rests and a restart has failed the Job.
Backed == \/ execution[job.execution] \in Runs!Terminal
          \/ crashes > 0 /\ execution[job.execution] \in Runs!Durable

\* What a thread read of the Job and its execution is still true enough to write.
Informed(t) ==
    /\ thread[t].pc \in DRIVING => job.execution # NoExecution
    /\ At(t, "act") => ~Terminal(job.status) \/ execution[job.execution] \in Runs!Terminal
    /\ thread[t].pc \in {"write", "reload"} /\ Terminal(thread[t].derived)
         => execution[thread[t].execution] \in Runs!Terminal
    /\ At(t, "write") /\ thread[t].terminal /\ ~Terminal(thread[t].derived)
         => crashes > 0 /\ thread[t].derived \in {"awaiting_approval", "paused"}

EInv ==
    /\ job.status # "queued" => job.execution # NoExecution
    /\ Terminal(job.status) => Backed
    /\ \A t \in Threads : Informed(t)

\* Who writes the status of a Job, and what each of them knows when it does.
LEMMA StatusWriters ==
    ASSUME TInv, Next
    PROVE  \/ job'.status = job.status /\ job'.execution = job.execution
           \/ /\ ~Terminal(job.status) /\ job'.status \in {"queued", "running"}
              /\ job'.execution # NoExecution
           \/ \E t \in Threads :
                /\ SyncWrite(t) /\ thread[t].pc = "write" /\ job'.execution # NoExecution
                /\ \/ job'.status = job.status
                   \/ /\ job'.status = thread[t].derived
                      /\ thread[t].terminal \/ ~Terminal(job.status)
           \/ \E t \in Threads :
                /\ SyncReload(t) /\ thread[t].pc = "reload" /\ job'.execution = job.execution
                /\ Terminal(thread[t].derived) /\ job'.status = thread[t].derived
           \/ \E t \in Threads :
                /\ Apply(t) /\ thread[t].pc = "apply" /\ job'.execution = job.execution
                /\ job'.status = "awaiting_approval"
                /\ \E i \in Ids : issues'[i].status = "escalated"
           \/ /\ Restart /\ job'.status = "failed" /\ job'.execution = job.execution
              /\ job.status = "running" \/ job.execution # NoExecution
<1>1. job \in Job /\ NoExecution \notin Executions /\ thread \in [Threads -> Doings]
    BY ExecutionsAssumption DEF TInv, JobTypeOK, Doings
<1>2. CASE job' = job
    BY <1>2
<1>3. ASSUME NEW t \in Threads, Link(t) \/ Mark(t), job' # job
      PROVE  /\ ~Terminal(job.status) /\ job'.status \in {"queued", "running"}
             /\ job'.execution # NoExecution
    BY <1>1, <1>3 DEF Link, Mark, At, Mutable, Write, TInv, Linked
<1>4. ASSUME NEW t \in Threads, SyncWrite(t)
      PROVE  /\ thread[t].pc = "write" /\ job'.execution # NoExecution
             /\ \/ job'.status = job.status
                \/ job'.status = thread[t].derived /\ (thread[t].terminal \/ ~Terminal(job.status))
  <2>1. thread[t].pc = "write" /\ thread[t].execution # NoExecution /\ job.execution # NoExecution
      BY <1>1, <1>4 DEF SyncWrite, At, TInv, Linked
  <2>2. \/ /\ job' = Write(thread[t].derived, thread[t].execution, thread[t].spent)
           /\ thread[t].terminal \/ Mutable
        \/ job' = [job EXCEPT !.spent = thread[t].spent]
      BY <1>4 DEF SyncWrite
  <2> QED BY <1>1, <2>1, <2>2 DEF Write, Mutable, Job
<1>5. ASSUME NEW t \in Threads, SyncReload(t), job'.status # job.status
      PROVE  /\ thread[t].pc = "reload" /\ job'.execution = job.execution
             /\ Terminal(thread[t].derived) /\ job'.status = thread[t].derived
    BY <1>1, <1>5 DEF SyncReload, At, Job
<1>6. ASSUME NEW t \in Threads, SyncReload(t)
      PROVE  job'.execution = job.execution
    BY <1>1, <1>6 DEF SyncReload, Job
<1>7. ASSUME NEW t \in Threads, Apply(t), job' # job
      PROVE  /\ thread[t].pc = "apply" /\ job'.execution = job.execution
             /\ job'.status = "awaiting_approval"
             /\ \E i \in Ids : issues'[i].status = "escalated"
  <2> DEFINE i == First(driver[t].todo)
  <2>1. /\ thread[t].pc = "apply" /\ driver[t].todo # {} /\ Changed(i, "escalated")
        /\ job' = [job EXCEPT !.status = "awaiting_approval"]
      BY <1>7 DEF Apply, At
  <2>2. i \in Ids /\ issues \in Seq(Issue) /\ Ids = 1..Len(issues)
      BY <2>1, FirstTyped DEF TInv, Repairing, Ids
  <2>3. issues[i] \in Issue
      BY <2>2
  <2>4. issues'[i].status = "escalated"
      BY <2>1, <2>2, <2>3 DEF Changed, Issue
  <2> QED BY <1>1, <2>1, <2>2, <2>4 DEF Job
<1>8. ASSUME NEW t \in Threads, Charge(t)
      PROVE  job'.status = job.status /\ job'.execution = job.execution
    BY <1>1, <1>8 DEF Charge, Job
<1>9. CASE Restart
    BY <1>1, <1>9 DEF Restart, Reconciled, Job
<1>10. ASSUME NEW t \in Threads, Request(t)
       PROVE  job' = job \/ Link(t) \/ Mark(t) \/ SyncWrite(t) \/ SyncReload(t)
    BY <1>10 DEF Request, Launch, WaitOver, SyncRead, Continue, Reject, PauseRun, Refused
<1>11. ASSUME NEW t \in Threads, Cycle(t) \/ \E d \in Defects : Retry(t, d)
       PROVE  job' = job \/ Apply(t) \/ Charge(t)
    BY <1>11 DEF Cycle, PlanNothing, Plan, Applied, Regenerate, Record, Review, Carry, Retry
<1>12. ASSUME \/ \E t \in Threads : WaitTimesOut(t) \/ \E op \in Polls \cup Orders : Begin(t, op)
              \/ Work \/ EndElsewhere
       PROVE  job' = job
    BY <1>12 DEF WaitTimesOut, Begin, Work, EndElsewhere
<1> QED BY <1>2, <1>3, <1>4, <1>5, <1>6, <1>7, <1>8, <1>9, <1>10, <1>11, <1>12, StepKinds

\* A Job stays linked, to its one execution.
LEMMA LinkStays ==
    ASSUME TInv, OneRun, Next, job.execution # NoExecution
    PROVE  job.execution \in Executions /\ job'.execution = job.execution
<1>1. job \in Job /\ job' \in Job
    BY TInvNext DEF TInv, JobTypeOK
<1>2. job'.execution # NoExecution
    BY StatusWriters
<1> QED BY <1>1, <1>2 DEF Job, Links, OneRun

\* A run that rests is only taken up again by the request that was told so.
LEMMA RestStays ==
    ASSUME TInv, Next, NEW e \in Executions, execution[e] \in Runs!Durable
    PROVE  \/ execution'[e] \in Runs!Durable \cup Runs!Terminal
           \/ \E t \in Threads : Continue(t)
<1>1. execution \in [Executions -> Runs!Statuses]
    BY DEF TInv, JobTypeOK
<1>2. ASSUME NEW x \in Executions,
             \/ Runs!Submit(x) \/ Runs!Admit(x) \/ Runs!Settle(x) \/ Runs!Withdraw(x)
             \/ Runs!Refuse(x) \/ Runs!Abandon(x)
      PROVE  execution'[e] \in Runs!Durable \cup Runs!Terminal
  <2>1. CASE Runs!Submit(x) \/ Runs!Admit(x) \/ Runs!Settle(x) \/ Runs!Withdraw(x)
      BY <1>1, <2>1 DEF Runs!Submit, Runs!Admit, Runs!Settle, Runs!Withdraw, Runs!Move, Runs!Durable
  <2>2. CASE Runs!Refuse(x) \/ Runs!Abandon(x)
      BY <1>1, <2>2 DEF Runs!Refuse, Runs!Abandon, Runs!Move, Runs!Durable, Runs!Terminal
  <2> QED BY <1>2, <2>1, <2>2
<1>3. ASSUME NEW t \in Threads, Request(t)
      PROVE  execution'[e] \in Runs!Durable \cup Runs!Terminal \/ Continue(t)
  <2>1. CASE Launch(t)
      BY <1>2, <2>1 DEF Launch
  <2>2. CASE Reject(t)
    <3>1. Runs!Refuse(thread[t].execution) /\ thread[t].execution \in Executions
        BY <2>2 DEF Reject, At, TInv, Linked
    <3> QED BY <1>2, <3>1
  <2> QED BY <1>3, <2>1, <2>2 DEF Request, Link, WaitOver, SyncRead, SyncWrite, SyncReload, PauseRun, Refused,
        Mark, engine
<1>4. ASSUME NEW t \in Threads, Cycle(t) \/ \E d \in Defects : Retry(t, d)
      PROVE  execution' = execution
    BY <1>4, CycleFrame
<1>5. ASSUME NEW t \in Threads, WaitTimesOut(t) \/ \E op \in Polls \cup Orders : Begin(t, op)
      PROVE  execution' = execution
    BY <1>5 DEF WaitTimesOut, Begin, engine
<1>6. CASE Work \/ EndElsewhere
  <2>1. execution' = execution
        \/ \E x \in Executions : \/ Runs!Admit(x) \/ Runs!Settle(x) \/ Runs!Withdraw(x)
                                \/ Runs!Refuse(x) \/ Runs!Abandon(x)
      BY <1>6 DEF Work, Generate, EndElsewhere
  <2> QED BY <1>2, <2>1
<1>7. CASE Restart
    BY <1>7 DEF Restart, Runs!Recover, Runs!Durable
<1> QED BY <1>3, <1>4, <1>5, <1>6, <1>7, StepKinds

\* A Job that comes to its end finds its run ended, or was failed by a restart.
LEMMA EndBacked ==
    ASSUME TInv, OneRun, EInv, Next, Terminal(job'.status)
    PROVE  Terminal(job.status) \/ execution'[job'.execution] \in Runs!Terminal \/ Restart
<1>1. ~Terminal("awaiting_approval") /\ \A s \in {"queued", "running"} : ~Terminal(s)
    BY DEF Terminal, TERMINAL_STATUSES
<1>2. ASSUME NEW t \in Threads, thread[t].pc \in {"write", "reload"}, Terminal(thread[t].derived),
             job'.execution # NoExecution
      PROVE  execution'[job'.execution] \in Runs!Terminal
  <2>1. thread[t].execution \in Executions /\ execution[thread[t].execution] \in Runs!Terminal
      BY <1>2 DEF EInv, Informed, TInv, Linked
  <2>2. job'.execution \in Executions
      BY <1>2, TInvNext DEF TInv, JobTypeOK, Job, Links
  <2> QED BY <2>1, <2>2, EngineSteps DEF OneRun
<1>3. ASSUME NEW t \in Threads, thread[t].pc = "reload", job'.execution = job.execution
      PROVE  job'.execution # NoExecution
    BY <1>3 DEF TInv, Linked
<1> QED BY <1>1, <1>2, <1>3, StatusWriters

\* The run behind the end of a Job stays ended, or at rest.
LEMMA BackedKept ==
    ASSUME TInv, OneRun, EInv, Next, Terminal(job'.status)
    PROVE  Backed'
<1>1. CASE Terminal(job.status)
  <2>1. job.execution # NoExecution /\ Backed
      BY <1>1 DEF EInv, Terminal, TERMINAL_STATUSES
  <2>2. PICK e \in Executions : e = job.execution /\ e = job'.execution
      BY <2>1, LinkStays
  <2>3. CASE execution[e] \in Runs!Terminal
      BY <2>2, <2>3, EngineSteps DEF Backed
  <2>4. CASE crashes > 0 /\ execution[e] \in Runs!Durable
    <3>1. crashes' > 0
        BY <2>4, EngineSteps
    <3>2. ASSUME NEW t \in Threads, Continue(t)
          PROVE  execution[e] \in Runs!Terminal
        BY <1>1, <2>2, <3>2 DEF Continue, EInv, Informed
    <3> QED BY <2>2, <2>3, <2>4, <3>1, <3>2, RestStays DEF Backed
  <2> QED BY <2>1, <2>2, <2>3, <2>4 DEF Backed
<1>2. CASE Restart /\ ~Terminal(job.status)
  <2>1. job.execution # NoExecution
    <3>1. Reconciled.status # job.status
        BY <1>2 DEF Restart
    <3> QED BY <3>1 DEF Reconciled, EInv
  <2>2. PICK e \in Executions : e = job.execution /\ e = job'.execution
      BY <2>1, LinkStays
  <2>3. execution[e] \in Runs!Statuses \ {"none"}
      BY <2>1, <2>2 DEF TInv, Linked, JobTypeOK
  <2>4. execution'[e] \in Runs!Terminal \cup Runs!Durable
      BY <1>2, <2>3 DEF Restart, Runs!Recover, Runs!Statuses, Runs!Terminal, Runs!Durable
  <2>5. crashes' > 0
      BY <1>2, EngineSteps DEF Restart
  <2> QED BY <2>2, <2>4, <2>5 DEF Backed
<1> QED BY <1>1, <1>2, EndBacked DEF Backed

\* What a thread read stays true while others work.
LEMMA InformedStays ==
    ASSUME TInv, OneRun, EInv, Next, ~Restart, NEW t \in Threads, thread'[t] = thread[t]
    PROVE  Informed(t)'
<1>1. Informed(t) /\ crashes \in Nat /\ crashes' \in Nat /\ crashes <= crashes'
    BY EngineSteps DEF EInv
<1>2. thread[t].pc \in DRIVING => job'.execution # NoExecution
    BY <1>1, LinkStays, ExecutionsAssumption DEF Informed
<1>3. ASSUME At(t, "act"), Terminal(job'.status)
      PROVE  execution'[job'.execution] \in Runs!Terminal
  <2>1. job.execution \in Executions /\ job'.execution = job.execution
      BY <1>3, LinkStays DEF At, TInv, Linked
  <2> QED BY <1>1, <1>3, <2>1, EndBacked, EngineSteps DEF Informed
<1>4. ASSUME thread[t].pc \in {"write", "reload"}, Terminal(thread[t].derived)
      PROVE  execution'[thread[t].execution] \in Runs!Terminal
    BY <1>1, <1>4, EngineSteps DEF Informed, TInv, Linked
<1> QED BY <1>1, <1>2, <1>3, <1>4 DEF Informed, At

\* What a sync reads of the Job and its execution is true when it reads it.
LEMMA ReadInformed ==
    ASSUME TInv, EInv, NEW t \in Threads, SyncRead(t)
    PROVE  Informed(t)'
<1> DEFINE s == execution[job.execution]
<1>1. /\ thread'[t].pc = "write" /\ thread'[t].execution = job.execution
      /\ thread'[t].terminal = Terminal(job.status) /\ thread'[t].derived = DeriveJobStatus(s)
      /\ execution' = execution /\ job' = job /\ crashes' = crashes
    BY RequestPosts DEF SyncRead, engine, TInv
<1>2. s \in Runs!Statuses
  <2>1. job.execution \in Executions
      BY DEF SyncRead, At, TInv, Linked, JobTypeOK, Job, Links
  <2> QED BY <2>1 DEF TInv, JobTypeOK
<1> HIDE DEF s
<1>3. /\ Terminal(DeriveJobStatus(s)) <=> s \in Runs!Terminal
      /\ s \in Runs!Durable => DeriveJobStatus(s) \in {"awaiting_approval", "paused"}
    BY <1>2 DEF Terminal, TERMINAL_STATUSES, DeriveJobStatus, Runs!Terminal, Runs!Statuses, Runs!Durable
<1>4. Terminal(job.status) => s \in Runs!Terminal \/ (crashes > 0 /\ s \in Runs!Durable)
    BY DEF EInv, Backed, s
<1>5. "write" \notin DRIVING
    BY DEF DRIVING
<1> QED BY <1>1, <1>3, <1>4, <1>5 DEF Informed, At, s

\* The step of a thread leaves it informed.
LEMMA OwnInformed ==
    ASSUME TInv, OneRun, EInv, Next, NEW t \in Threads,
           \/ Request(t) \/ WaitTimesOut(t) \/ \E op \in Polls \cup Orders : Begin(t, op)
           \/ Cycle(t) \/ \E d \in Defects : Retry(t, d)
    PROVE  Informed(t)'
<1>0. JobTypeOK /\ NoExecution \notin Executions
    BY ExecutionsAssumption DEF TInv
<1>1. ASSUME thread'[t].pc \in {"idle", "launch", "link", "wait", "read", "mark"}
      PROVE  Informed(t)'
    BY <1>1 DEF Informed, At, DRIVING
<1>2. ASSUME thread'[t].pc \in DRIVING \cup {"idle"}, job.execution # NoExecution
      PROVE  Informed(t)'
    BY <1>0, <1>2, LinkStays DEF Informed, At, DRIVING
<1>3. CASE SyncRead(t)
    BY <1>3, ReadInformed
<1>4. CASE SyncWrite(t)
  <2>1. /\ thread'[t].pc = "reload" /\ thread'[t].execution = thread[t].execution
        /\ thread'[t].derived = thread[t].derived /\ thread[t].pc = "write"
      BY <1>0, <1>4, RequestPosts DEF SyncWrite, At
  <2>2. Terminal(thread[t].derived) => execution'[thread[t].execution] \in Runs!Terminal
      BY <2>1, EngineSteps DEF EInv, Informed, TInv, Linked
  <2> QED BY <2>1, <2>2 DEF Informed, At, DRIVING
<1>5. CASE SyncReload(t)
  <2>1. \/ thread'[t].pc = "idle"
        \/ thread'[t].pc = "act" /\ job'.status = Wanted(thread[t].op)
        \/ thread'[t].pc = "plan"
      BY <1>0, <1>5, RequestPosts
  <2>2. job.execution # NoExecution
      BY <1>5 DEF SyncReload, At, TInv, Linked
  <2>3. ~Terminal(Wanted(thread[t].op))
      BY DEF Wanted, Terminal, TERMINAL_STATUSES
  <2>4. CASE thread'[t].pc = "act" /\ job'.status = Wanted(thread[t].op)
      BY <2>3, <2>4 DEF Informed, At, DRIVING
  <2> QED BY <1>1, <1>2, <2>1, <2>2, <2>4 DEF DRIVING
<1>6. CASE \/ Launch(t) \/ Link(t) \/ WaitOver(t) \/ Continue(t) \/ Reject(t) \/ PauseRun(t) \/ Refused(t)
           \/ Mark(t) \/ WaitTimesOut(t) \/ \E op \in Polls \cup Orders : Begin(t, op)
    BY <1>0, <1>1, <1>6, RequestPosts
<1>7. CASE Cycle(t) \/ \E d \in Defects : Retry(t, d)
  <2>1. job.execution # NoExecution
    <3>1. CASE Cycle(t)
      <4>1. thread[t].pc \in DRIVING
          BY <3>1 DEF Cycle, PlanNothing, Plan, Apply, Applied, Regenerate, Charge, Record, Review, Carry, At, DRIVING
      <4> QED BY <4>1 DEF EInv, Informed
    <3> QED BY <1>7, <3>1 DEF Retry
  <2>2. thread'[t].pc \in DRIVING \cup {"idle"}
    <3>1. thread \in [Threads -> Doings] /\ thread[t] \in Doings
        BY <1>0 DEF JobTypeOK, Doings
    <3>2. PICK pc \in DRIVING :
            \/ thread' = thread /\ thread[t].pc = "apply"
            \/ Set(t, Idle)
            \/ Set(t, [thread[t] EXCEPT !.pc = pc])
            \/ Set(t, [Idle EXCEPT !.op = "retry", !.pc = "plan"])
        BY <1>7 DEF Cycle, PlanNothing, Plan, Apply, Applied, Regenerate, Charge, Record, Review, Carry, Retry,
                NextCycle, Leave, Goto, Done, At, DRIVING
    <3>3. /\ Idle.pc = "idle" /\ [thread[t] EXCEPT !.pc = pc].pc = pc
          /\ [Idle EXCEPT !.op = "retry", !.pc = "plan"].pc = "plan"
        BY <3>1 DEF Idle, Doings
    <3> QED BY <3>1, <3>2, <3>3 DEF Set, DRIVING
  <2> QED BY <1>2, <2>1, <2>2
<1> QED BY <1>3, <1>4, <1>5, <1>6, <1>7 DEF Request

\* Every step keeps what the end of the Job rests on.
LEMMA EInvNext == OneRun /\ TInv /\ EInv /\ [Next]_vars => EInv'
<1> SUFFICES ASSUME OneRun, TInv, EInv, [Next]_vars PROVE EInv'
    OBVIOUS
<1>1. CASE UNCHANGED vars
  <2>1. UNCHANGED <<execution, job, thread, crashes>>
      BY <1>1 DEF vars, jobVars, engine
  <2> QED BY <2>1 DEF EInv, Backed, Informed, At
<1>2. CASE Next
  <2>1. ASSUME job'.status # "queued" PROVE job'.execution # NoExecution
    <3>1. CASE job.execution # NoExecution
        BY <1>2, <3>1, LinkStays, ExecutionsAssumption
    <3>2. CASE job.execution = NoExecution
      <4>1. job.status = "queued"
          BY <3>2 DEF EInv
      <4>2. \A t \in Threads : thread[t].pc \notin DRIVING \cup {"reload"}
          BY <3>2 DEF EInv, Informed, TInv, Linked
      <4> QED BY <1>2, <2>1, <3>2, <4>1, <4>2, StatusWriters DEF DRIVING
    <3> QED BY <3>1, <3>2
  <2>2. Terminal(job'.status) => Backed'
      BY <1>2, BackedKept
  <2>3. ASSUME NEW t \in Threads PROVE Informed(t)'
    <3>1. CASE Restart
      <4>1. thread'[t].pc = "idle"
          BY <3>1 DEF Restart, Idle
      <4> QED BY <4>1 DEF Informed, At, DRIVING
    <3>2. CASE thread'[t] = thread[t] /\ ~Restart
        BY <1>2, <3>2, InformedStays
    <3>3. CASE thread'[t] # thread[t] /\ ~Restart
      <4>1. ASSUME NEW u \in Threads,
                   \/ Request(u) \/ WaitTimesOut(u) \/ \E op \in Polls \cup Orders : Begin(u, op)
                   \/ Cycle(u) \/ \E d \in Defects : Retry(u, d)
            PROVE  u = t
          BY <3>3, <4>1, RequestStays, CycleFrame DEF TInv
      <4>2. ~(Work \/ EndElsewhere)
          BY <3>3 DEF Work, EndElsewhere
      <4> QED BY <1>2, <3>3, <4>1, <4>2, StepKinds, OwnInformed
    <3> QED BY <3>1, <3>2, <3>3
  <2> QED BY <2>1, <2>2, <2>3 DEF EInv
<1> QED BY <1>1, <1>2

\* Nothing has ended yet at first.
LEMMA EInvInit == Init => EInv
<1> SUFFICES ASSUME Init PROVE EInv
    OBVIOUS
<1>1. job.status = "queued" /\ \A t \in Threads : thread[t].pc = "idle"
    BY DEF Init, JobInit, Idle
<1> QED BY <1>1 DEF EInv, Informed, At, DRIVING, Terminal, TERMINAL_STATUSES

\* For a Job that is run by one execution, whatever requests, polls, finalizers, drivers
\* and restarts race: the end of the Job is taken back only by an escalation, or after
\* a restart by a sync that finds its run at rest; no sync that read the Job while it
\* ran does it (sync_job_from_execution, update_job, reconcile_jobs).
THEOREM EndsStand == ASSUME OneRun PROVE Spec => EndStands
<1>1. TInv /\ EInv /\ [Next]_vars =>
        [Terminal(job.status) /\ ~Terminal(job'.status) =>
          /\ job'.status \in {"awaiting_approval", "paused"}
          /\ \/ crashes > 0
             \/ \E i \in Ids : issues'[i].status = "escalated"]_vars
  <2> SUFFICES ASSUME TInv, EInv, Next, Terminal(job.status), ~Terminal(job'.status)
               PROVE  /\ job'.status \in {"awaiting_approval", "paused"}
                      /\ \/ crashes > 0
                         \/ \E i \in Ids : issues'[i].status = "escalated"
      OBVIOUS
  <2>1. ASSUME NEW t \in Threads, thread[t].pc = "write", thread[t].terminal,
               job'.status = thread[t].derived
        PROVE  job'.status \in {"awaiting_approval", "paused"} /\ crashes > 0
      BY <2>1 DEF EInv, Informed, At
  <2>2. Terminal("failed")
      BY DEF Terminal, TERMINAL_STATUSES
  <2> QED BY <2>1, <2>2, StatusWriters
<1> QED BY <1>1, TInvInit, TInvNext, EInvInit, EInvNext, PTL DEF Spec, EndStands
=============================================================================

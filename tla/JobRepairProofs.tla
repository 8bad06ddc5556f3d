-------------------------- MODULE JobRepairProofs --------------------------
(***************************************************************************)
(* The types of JobRepair: what every thread, driver, record, issue and    *)
(* request holds, which records refer to each other, and what a thread     *)
(* knows of the issue it repairs; for any number of executions, threads    *)
(* and defects, and any limits.                                            *)
(***************************************************************************)
EXTENDS JobRepair, FunctionTheorems, FiniteSetTheorems, WellFoundedInduction, TLAPS

-----------------------------------------------------------------------------
(* Sequences, least and greatest elements.                                  *)

\* A sequence changed in one place is a sequence of the same length.
LEMMA ChangedSeq ==
    ASSUME NEW S, NEW q \in Seq(S), NEW i \in 1..Len(q), NEW e \in S
    PROVE  [q EXCEPT ![i] = e] \in Seq(S) /\ Len([q EXCEPT ![i] = e]) = Len(q)
OBVIOUS

\* A function on 1..n is a sequence of length n.
LEMMA MappedSeq ==
    ASSUME NEW S, NEW n \in Nat, NEW f \in [1..n -> S]
    PROVE  f \in Seq(S) /\ Len(f) = n
OBVIOUS

\* The elements of a finite set in some order, each of them once.
LEMMA SetToSeqOrders ==
    ASSUME NEW S, IsFiniteSet(S)
    PROVE  /\ SetToSeq(S) \in Seq(S) /\ Len(SetToSeq(S)) = Cardinality(S)
           /\ \A i, j \in 1..Cardinality(S) : SetToSeq(S)[i] = SetToSeq(S)[j] => i = j
<1>1. Cardinality(S) \in Nat /\ ExistsBijection(1..Cardinality(S), S)
    BY FS_CardinalityType
<1>2. \E f \in [1..Cardinality(S) -> S] : IsInjective(f)
    BY <1>1 DEF ExistsBijection, Bijection, Injection
<1>3. SetToSeq(S) \in [1..Cardinality(S) -> S] /\ IsInjective(SetToSeq(S))
    BY <1>2 DEF SetToSeq
<1> QED BY <1>1, <1>3, MappedSeq DEF IsInjective

\* A set of numbers that is not empty has a least element.
LEMMA LeastOf ==
    ASSUME NEW S \in SUBSET Nat, S # {}
    PROVE  First(S) \in S /\ \A j \in S : First(S) <= j
<1> DEFINE R == OpToRel(<, Nat)
<1>1. IsWellFoundedOn(R, Nat)
    BY NatLessThanWellFounded
<1> HIDE DEF R
<1>2. PICK x \in S : \A y \in S : ~ (<<y, x>> \in R)
    BY <1>1, WFMin
<1>3. \A y \in S : ~(y < x)
    BY <1>2 DEF R, OpToRel
<1>4. \A y \in S : x <= y
    BY <1>3
<1> QED BY <1>4 DEF First

\* A bounded one has a greatest element.
LEMMA GreatestOf ==
    ASSUME NEW S \in SUBSET Nat, S # {}, NEW b \in Nat, \A j \in S : j <= b
    PROVE  Max(S) \in S /\ \A j \in S : j <= Max(S)
<1> DEFINE D == {b - j : j \in S}
<1>1. D \in SUBSET Nat /\ D # {}
  <2>1. \A j \in S : b - j \in Nat
      OBVIOUS
  <2> QED BY <2>1
<1> HIDE DEF D
<1>2. First(D) \in D /\ \A k \in D : First(D) <= k
    BY <1>1, LeastOf
<1>3. PICK x \in S : First(D) = b - x
    BY <1>2 DEF D
<1>4. \A y \in S : b - x <= b - y
    BY <1>2, <1>3 DEF D
<1>5. \A y \in S : x >= y
    BY <1>4
<1> QED BY <1>5 DEF Max

-----------------------------------------------------------------------------
(* Types.                                                                   *)

DRIVING == {"plan", "apply", "regenerate", "charge", "record", "review", "carry"}

\* The attempts at the issues of a plan.
Tries == UNION {[S -> 0..MaxRepairs] : S \in SUBSET Nat}

\* What a driver remembers.
Memories == [cycle : Nat, open : SUBSET Nat, todo : SUBSET Nat, admitted : SUBSET Nat,
             attempts : Tries, spent : Nat,
             result : {"resolved", "failed"}, ran : [Defects -> Nat]]

\* A Job, and a thread that goes on with its execution, name one that was started.
Linked ==
    /\ job.execution # NoExecution => execution[job.execution] # "none"
    /\ \A t \in Threads :
        /\ thread[t].pc \in {"wait", "read", "write", "reload", "act", "mark"}
             => job.execution # NoExecution
        /\ thread[t].pc \in {"link", "wait", "write", "reload", "act", "mark"}
             => thread[t].execution \in Executions /\ execution[thread[t].execution] # "none"

\* A thread that drives no cycle remembers none.
Remembered(t) ==
    LET r == driver[t]
    IN  /\ thread[t].pc \notin DRIVING => r = Apart
        /\ r.cycle < Limit(thread[t].op)
        /\ r.todo \subseteq r.open /\ r.admitted \subseteq r.open
        /\ r.open \subseteq Ids /\ DOMAIN r.attempts = r.open
        /\ \A i \in r.admitted : r.attempts[i] < MaxRepairs
        /\ thread[t].pc = "plan" => r.open = {}
        /\ thread[t].pc \in {"regenerate", "charge", "record"} => r.todo # {}

Repairing ==
    /\ issues \in Seq(Issue) /\ Len(issues) <= MaxIssues
    /\ \A i \in Ids : issues[i].attempts <= MaxRepairs
    /\ repairs \in Nat
    /\ driver \in [Threads -> Memories]
    /\ \A t \in Threads : Remembered(t)
    /\ overlap \in BOOLEAN /\ lost \in Nat

TInv == JobTypeOK /\ Linked /\ Repairing

\* The invariant contains the types.
LEMMA TInvImpliesTypeOK == TInv => TypeOK
BY DEF TInv, Repairing, TypeOK, Memories, Remembered

\* A move of an execution keeps the type and starts none anew.
LEMMA MoveTyped ==
    ASSUME execution \in [Executions -> Runs!Statuses], NEW e \in Executions,
           NEW from, NEW to \in SUBSET (Runs!Statuses \ {"none"}), Runs!Move(e, from, to)
    PROVE  /\ execution' \in [Executions -> Runs!Statuses]
           /\ \A x \in Executions : execution[x] # "none" => execution'[x] # "none"
           /\ execution'[e] # "none" /\ execution'[e] \in to
           /\ \A x \in Executions \ {e} : execution'[x] = execution[x]
BY DEF Runs!Move

\* A restart fails what was in flight and forgets no execution.
LEMMA RecoverTyped ==
    ASSUME execution \in [Executions -> Runs!Statuses], Runs!Recover
    PROVE  /\ execution' \in [Executions -> Runs!Statuses]
           /\ \A x \in Executions : execution[x] # "none" => execution'[x] # "none"
BY DEF Runs!Recover, Runs!Statuses, Runs!Terminal

\* The status of a Job that is derived from an execution that was started.
LEMMA DerivedTyped ==
    ASSUME NEW s \in Runs!Statuses, s # "none"
    PROVE  DeriveJobStatus(s) \in TERMINAL_STATUSES \cup Active
BY DEF DeriveJobStatus, Runs!Statuses, Runs!Terminal, Runs!Durable, TERMINAL_STATUSES, Active

\* Every driver has at least one cycle.
LEMMA LimitIsPositive == \A op : Limit(op) \in Nat /\ Limit(op) >= 1
BY RepairsAssumption DEF Limit, REPAIR_CYCLE_CEILING

\* A thread without a driver remembers nothing.
LEMMA ApartTyped == Apart \in Memories
<1>1. <<>> \in [{} -> 0..MaxRepairs]
    OBVIOUS
<1>2. <<>> \in Tries
    BY <1>1 DEF Tries
<1> QED BY <1>2 DEF Apart, Memories

\* The records a thread can be in, those that keep the Job and the engine as they are.
Doings == [op : Orders \cup {"none", "finalize", "retry"},
           pc : {"idle", "launch", "link", "wait", "read", "write", "reload", "act",
                 "mark", "plan", "apply", "regenerate", "charge", "record", "review", "carry"},
           stage : {"judge", "finish", "end"},
           execution : Links,
           terminal : BOOLEAN,
           derived : TERMINAL_STATUSES \cup Active,
           spent : 0..ProviderNodes]

\* A thread without a request does nothing.
LEMMA IdleTyped == Idle \in Doings
BY ProviderNodesAssumption DEF Idle, Doings, Links, TERMINAL_STATUSES, Active

\* A step of one thread that keeps the engine: what is left to show of types and links.
LEMMA ThreadStepTyped ==
    ASSUME JobTypeOK, Linked, NEW t \in Threads, NEW new \in Doings, Set(t, new),
           UNCHANGED <<execution, ops, crashes>>, generated' \in [Executions -> 0..ProviderNodes],
           job' \in Job, job.execution # NoExecution => job'.execution # NoExecution,
           job'.execution # NoExecution => execution[job'.execution] # "none",
           new.pc \in {"wait", "read", "write", "reload", "act", "mark"}
             => job'.execution # NoExecution,
           new.pc \in {"link", "wait", "write", "reload", "act", "mark"}
             => new.execution \in Executions /\ execution[new.execution] # "none"
    PROVE  JobTypeOK' /\ Linked'
<1>1. JobTypeOK'
    BY DEF JobTypeOK, Doings, Set
<1>2. thread'[t] = new /\ \A u \in Threads \ {t} : thread'[u] = thread[u]
    BY DEF JobTypeOK, Set
<1>3. Linked'
    BY <1>2 DEF Linked
<1> QED BY <1>1, <1>3

\* A step of a request keeps the types and the executions it names.
LEMMA RequestTyped ==
    ASSUME JobTypeOK, Linked, NEW t \in Threads, Request(t)
    PROVE  JobTypeOK' /\ Linked'
<1> USE DEF JobTypeOK, Linked, Write
<1>d. thread[t] \in Doings /\ Idle \in Doings
    BY IdleTyped DEF Doings
<1>1. CASE Launch(t)
  <2>1. PICK e \in Executions :
          /\ Runs!Submit(e)
          /\ Set(t, [thread[t] EXCEPT !.pc = "link", !.execution = e])
      BY <1>1 DEF Launch
  <2>2. /\ execution' \in [Executions -> Runs!Statuses]
        /\ \A x \in Executions : execution[x] # "none" => execution'[x] # "none"
        /\ execution'[e] # "none"
      BY <2>1, MoveTyped DEF Runs!Submit, Runs!Statuses
  <2>3. JobTypeOK'
    <3>1. [thread[t] EXCEPT !.pc = "link", !.execution = e] \in Doings
        BY <1>d DEF Doings, Links
    <3> QED BY <1>1, <2>1, <2>2, <3>1 DEF Launch, Set, Doings
  <2>4. Linked'
    <3>1. /\ thread' = [thread EXCEPT ![t] = [thread[t] EXCEPT !.pc = "link", !.execution = e]]
          /\ UNCHANGED job
        BY <1>1, <2>1 DEF Launch, Set
    <3>2. /\ thread'[t].pc = "link" /\ thread'[t].execution = e
          /\ \A u \in Threads \ {t} : thread'[u] = thread[u]
        BY <1>d, <3>1 DEF Doings
    <3>3. job.execution # NoExecution => job.execution \in Executions
        BY DEF Job, Links
    <3> QED BY <2>2, <3>1, <3>2, <3>3
  <2> QED BY <2>3, <2>4
<1>2. CASE Link(t)
  <2>1. CASE Mutable
    <3>1. [Idle EXCEPT !.op = "finalize", !.pc = "wait", !.execution = thread[t].execution] \in Doings
        BY <1>d DEF Doings, Links
    <3>2. job' \in Job /\ job'.execution = thread[t].execution
        BY <1>2, <2>1 DEF Link, Job, Active, Links
    <3> QED BY <1>2, <2>1, <3>1, <3>2, ThreadStepTyped, ExecutionsAssumption DEF Link, Finalize, At, engine, Idle
  <2>2. CASE ~Mutable
      BY <1>2, <2>2, <1>d, ThreadStepTyped DEF Link, Done, engine, Idle, At
  <2> QED BY <2>1, <2>2
<1>3. CASE WaitOver(t)
  <2>1. [Idle EXCEPT !.pc = "read"] \in Doings /\
        [Idle EXCEPT !.op = "finalize", !.pc = "read", !.stage = "finish"] \in Doings
      BY <1>d DEF Doings
  <2> QED BY <1>3, <2>1, ThreadStepTyped DEF WaitOver, LastSync, engine, Idle, At
<1>4. CASE SyncRead(t)
  <2>1. job.execution \in Executions /\ execution[job.execution] \in Runs!Statuses \ {"none"}
      BY <1>4 DEF SyncRead, At, Job, Links
  <2>2. DeriveJobStatus(execution[job.execution]) \in TERMINAL_STATUSES \cup Active
      BY <2>1, DerivedTyped
  <2>3. [thread[t] EXCEPT !.pc = "write", !.execution = job.execution,
                          !.terminal = Terminal(job.status),
                          !.derived = DeriveJobStatus(execution[job.execution]),
                          !.spent = SpentBy(job.execution)] \in Doings
    <3>1. Terminal(job.status) \in BOOLEAN /\ SpentBy(job.execution) \in 0..ProviderNodes
        BY <2>1 DEF Terminal, SpentBy
    <3> QED BY <1>d, <2>1, <2>2, <3>1 DEF Doings, Links
  <2> QED BY <1>4, <2>1, <2>3, <1>d, ThreadStepTyped DEF SyncRead, engine, At, Doings
<1>5. CASE SyncWrite(t)
  <2>1. thread[t].execution \in Executions /\ execution[thread[t].execution] # "none"
      BY <1>5 DEF SyncWrite, At
  <2>2. thread[t].spent \in Nat
      BY <1>d, ProviderNodesAssumption DEF Doings
  <2>3. job' \in Job /\ job'.execution \in {job.execution, thread[t].execution}
      BY <1>5, <2>1, <2>2 DEF SyncWrite, Job, Links
  <2>4. [thread[t] EXCEPT !.pc = "reload", !.terminal = FALSE, !.spent = 0] \in Doings
    <3>1. 0 \in 0..ProviderNodes
        BY ProviderNodesAssumption
    <3> QED BY <1>d, <3>1 DEF Doings
  <2>5. job.execution # NoExecution
      BY <1>5 DEF SyncWrite, At
  <2>6. job'.execution # NoExecution /\ execution[job'.execution] # "none"
      BY <2>1, <2>3, <2>5, ExecutionsAssumption
  <2> QED BY <1>5, <2>1, <2>3, <2>4, <2>6, <1>d, ThreadStepTyped DEF SyncWrite, engine, Doings
<1>6. CASE SyncReload(t)
  <2>1. /\ job' \in Job /\ job'.execution = job.execution
        /\ job.execution \in Executions /\ execution[job.execution] # "none"
      BY <1>6 DEF SyncReload, At, Job, Links, Terminal
  <2>2. /\ [Idle EXCEPT !.op = thread[t].op, !.pc = "act", !.execution = job.execution] \in Doings
        /\ [Idle EXCEPT !.op = "finalize", !.pc = "plan"] \in Doings
      BY <1>d, <2>1 DEF Doings, Links
  <2>3. PICK new \in {Idle, [Idle EXCEPT !.op = thread[t].op, !.pc = "act", !.execution = job.execution],
                      [Idle EXCEPT !.op = "finalize", !.pc = "plan"]} : Set(t, new)
      BY <1>6 DEF SyncReload, Done
  <2>4. new.pc \in {"idle", "act", "plan"} /\ (new.pc = "act" => new.execution = job.execution)
    <3>1. Idle.pc = "idle"
        BY DEF Idle
    <3>2. /\ [Idle EXCEPT !.op = thread[t].op, !.pc = "act", !.execution = job.execution].pc = "act"
          /\ [Idle EXCEPT !.op = thread[t].op, !.pc = "act", !.execution = job.execution].execution = job.execution
        BY DEF Idle
    <3>3. [Idle EXCEPT !.op = "finalize", !.pc = "plan"].pc = "plan"
        BY DEF Idle
    <3> QED BY <2>3, <3>1, <3>2, <3>3
  <2>5. new \in Doings /\ UNCHANGED <<execution, generated, ops, crashes>>
      BY <1>6, <1>d, <2>2, <2>3 DEF SyncReload, engine
  <2> QED BY <2>1, <2>3, <2>4, <2>5, ExecutionsAssumption, ThreadStepTyped
<1>7. CASE Continue(t)
  <2>1. /\ thread[t].execution \in Executions /\ Runs!Requeue(thread[t].execution)
        /\ thread' = [thread EXCEPT ![t] = [thread[t] EXCEPT !.pc = "mark"]]
      BY <1>7 DEF Continue, At, Goto, Set
  <2>2. /\ execution' \in [Executions -> Runs!Statuses]
        /\ \A x \in Executions : execution[x] # "none" => execution'[x] # "none"
      BY <2>1, MoveTyped DEF Runs!Requeue, Runs!Statuses
  <2>3. JobTypeOK'
      BY <1>7, <2>1, <2>2 DEF Continue
  <2>4. Linked'
      BY <1>7, <2>1, <2>2, ExecutionsAssumption DEF Continue, At, Job, Links
  <2> QED BY <2>3, <2>4
<1>8. CASE Reject(t)
  <2>1. /\ thread[t].execution \in Executions /\ Runs!Refuse(thread[t].execution)
        /\ thread' = [thread EXCEPT ![t] = [Idle EXCEPT !.pc = "read"]]
      BY <1>8 DEF Reject, At, LastSync, Set
  <2>2. /\ execution' \in [Executions -> Runs!Statuses]
        /\ \A x \in Executions : execution[x] # "none" => execution'[x] # "none"
      BY <2>1, MoveTyped DEF Runs!Refuse, Runs!Statuses, Runs!Terminal
  <2>3. [Idle EXCEPT !.pc = "read"] \in Doings
      BY <1>d DEF Doings
  <2>4. JobTypeOK'
      BY <1>8, <2>1, <2>2, <2>3 DEF Reject, Doings
  <2>5. Linked'
      BY <1>8, <2>1, <2>2, ExecutionsAssumption DEF Reject, At, Job, Links, Idle
  <2> QED BY <2>4, <2>5
<1>9. CASE PauseRun(t)
  <2>1. [thread[t] EXCEPT !.pc = "wait"] \in Doings
      BY <1>d DEF Doings
  <2> QED BY <1>9, <1>d, <2>1, ThreadStepTyped DEF PauseRun, Goto, engine, At, Doings
<1>10. CASE Refused(t)
    BY <1>10, <1>d, ThreadStepTyped DEF Refused, Done, engine, Idle
<1>11. CASE Mark(t)
  <2>0. job.execution \in Executions /\ execution[job.execution] # "none"
      BY <1>11 DEF Mark, At, Job, Links
  <2>1. CASE Mutable
    <3>1. [Idle EXCEPT !.op = "finalize", !.pc = "wait", !.execution = job.execution] \in Doings
        BY <1>d DEF Doings, Job
    <3>2. job' \in Job /\ job'.execution = job.execution
        BY <1>11, <2>1 DEF Mark, Job, Active
    <3>3. /\ Set(t, [Idle EXCEPT !.op = "finalize", !.pc = "wait", !.execution = job.execution])
          /\ UNCHANGED <<execution, generated, ops, crashes>>
        BY <1>11, <2>1 DEF Mark, Finalize, engine
    <3>4. [Idle EXCEPT !.op = "finalize", !.pc = "wait", !.execution = job.execution].execution = job.execution
        BY DEF Idle
    <3>5. job.execution # NoExecution
        BY <2>0, ExecutionsAssumption
    <3> QED BY <2>0, <3>1, <3>2, <3>3, <3>4, <3>5, ThreadStepTyped
  <2>2. CASE ~Mutable
      BY <1>11, <2>2, <1>d, ThreadStepTyped DEF Mark, Done, engine, Idle
  <2> QED BY <2>1, <2>2
<1> QED BY <1>1, <1>2, <1>3, <1>4, <1>5, <1>6, <1>7, <1>8, <1>9, <1>10, <1>11 DEF Request

\* The other steps outside the cycles.
LEMMA OutsideTyped ==
    ASSUME JobTypeOK, Linked,
           \/ \E t \in Threads : WaitTimesOut(t)
           \/ \E t \in Threads, op \in Polls \cup Orders : Begin(t, op)
           \/ Work \/ EndElsewhere \/ Restart
    PROVE  JobTypeOK' /\ Linked'
<1> USE DEF JobTypeOK, Linked
<1>d. \A t \in Threads : thread[t] \in Doings /\ Idle \in Doings
    BY IdleTyped DEF Doings
<1>1. ASSUME NEW t \in Threads, WaitTimesOut(t)
      PROVE  JobTypeOK' /\ Linked'
  <2>1. [Idle EXCEPT !.pc = "read"] \in Doings
      BY <1>d DEF Doings
  <2>2. PICK new \in {Idle, [Idle EXCEPT !.pc = "read"]} : Set(t, new)
      BY <1>1 DEF WaitTimesOut, Done, LastSync
  <2>3. new.pc \in {"idle", "read"}
      BY <2>2 DEF Idle
  <2> QED BY <1>1, <1>d, <2>1, <2>2, <2>3, ThreadStepTyped DEF WaitTimesOut, engine, At
<1>2. ASSUME NEW t \in Threads, NEW op \in Polls \cup Orders, Begin(t, op)
      PROVE  JobTypeOK' /\ Linked'
  <2> DEFINE new == [Idle EXCEPT !.op = IF op \in Polls THEN "none" ELSE op,
                                 !.pc = IF op = "start" THEN "launch" ELSE "read",
                                 !.stage = IF op \in Polls THEN "end" ELSE "judge"]
  <2>1. new \in Doings
    <3>1. (IF op \in Polls THEN "none" ELSE op) \in Orders \cup {"none", "finalize", "retry"}
        OBVIOUS
    <3>2. /\ (IF op = "start" THEN "launch" ELSE "read") \in {"launch", "read"}
          /\ (IF op \in Polls THEN "end" ELSE "judge") \in {"end", "judge"}
        OBVIOUS
    <3>3. \A a \in Orders \cup {"none", "finalize", "retry"}, b \in {"launch", "read"}, c \in {"end", "judge"} :
            [Idle EXCEPT !.op = a, !.pc = b, !.stage = c] \in Doings
        BY <1>d, ZenonT(60) DEF Doings
    <3> QED BY <3>1, <3>2, <3>3
  <2>2. new.pc = (IF op = "start" THEN "launch" ELSE "read")
      BY DEF Idle
  <2>3. op # "start" => job.execution # NoExecution
      BY <1>2 DEF Begin, Accepts, Polls, Orders
  <2>4. thread' = [thread EXCEPT ![t] = new] /\ UNCHANGED <<execution, generated, job, crashes>>
      BY <1>2 DEF Begin, Set, engine
  <2>5. ops' \in 0..MaxOps
    <3>1. ops' = ops \/ (ops < MaxOps /\ ops' = ops + 1)
        BY <1>2 DEF Begin
    <3> QED BY <3>1, CountsAssumption
  <2> HIDE DEF new
  <2>6. JobTypeOK'
      BY <2>1, <2>4, <2>5 DEF Doings
  <2>7. Linked'
      BY <2>2, <2>3, <2>4
  <2> QED BY <2>6, <2>7
<1>3. ASSUME NEW e \in Executions,
             \/ Runs!Admit(e) \/ Runs!Settle(e) \/ Runs!Withdraw(e) \/ Runs!Refuse(e) \/ Runs!Abandon(e),
             generated' \in [Executions -> 0..ProviderNodes], UNCHANGED <<job, thread, ops, crashes>>
      PROVE  JobTypeOK' /\ Linked'
  <2>1. /\ execution' \in [Executions -> Runs!Statuses]
        /\ \A x \in Executions : execution[x] # "none" => execution'[x] # "none"
      BY <1>3, MoveTyped DEF Runs!Admit, Runs!Settle, Runs!Withdraw, Runs!Refuse, Runs!Abandon,
           Runs!Statuses, Runs!Terminal, Runs!Durable
  <2>2. job.execution # NoExecution => job.execution \in Executions
      BY DEF Job, Links
  <2>3. JobTypeOK'
      BY <1>3, <2>1
  <2>4. Linked'
      BY <1>3, <2>1, <2>2
  <2> QED BY <2>3, <2>4
<1>4. CASE Work
  <2>1. PICK e \in Executions :
          \/ (Runs!Admit(e) \/ Runs!Settle(e)) /\ UNCHANGED generated
          \/ Generate(e)
      BY <1>4 DEF Work
  <2>2. CASE (Runs!Admit(e) \/ Runs!Settle(e)) /\ UNCHANGED generated
      BY <1>3, <1>4, <2>2 DEF Work
  <2>3. CASE Generate(e)
    <3>1. generated' \in [Executions -> 0..ProviderNodes] /\ UNCHANGED execution
        BY <2>3, ProviderNodesAssumption DEF Generate
    <3> QED BY <1>4, <3>1 DEF Work
  <2> QED BY <2>1, <2>2, <2>3
<1>5. CASE EndElsewhere
    BY <1>3, <1>5 DEF EndElsewhere
<1>6. CASE Restart
  <2>1. /\ execution' \in [Executions -> Runs!Statuses]
        /\ \A x \in Executions : execution[x] # "none" => execution'[x] # "none"
      BY <1>6, RecoverTyped DEF Restart
  <2>2. job' \in Job /\ job'.execution = job.execution
      BY <1>6 DEF Restart, Reconciled, Job, TERMINAL_STATUSES
  <2>3. job.execution # NoExecution => job.execution \in Executions
      BY DEF Job, Links
  <2>4. crashes' \in 0..MaxCrashes
      BY <1>6, CountsAssumption DEF Restart
  <2>5. JobTypeOK'
      BY <1>6, <1>d, <2>1, <2>2, <2>4 DEF Restart, Doings
  <2>6. \A t \in Threads : thread'[t].pc = "idle"
      BY <1>6 DEF Restart, Idle
  <2>7. Linked'
      BY <2>1, <2>2, <2>3, <2>6
  <2> QED BY <2>5, <2>7
<1> QED BY <1>1, <1>2, <1>4, <1>5, <1>6

\* What a step is noted for.
LEMMA NotedTyped ==
    ASSUME JobTypeOK, job' \in Job, Repairing, Noted
    PROVE  overlap' \in BOOLEAN /\ lost' \in Nat
<1>1. overlap \in BOOLEAN /\ lost \in Nat /\ job.spent \in Nat /\ job'.spent \in Nat
    BY DEF Repairing, JobTypeOK, Job
<1>2. (overlap \/ Cardinality(Driving') > 1) \in BOOLEAN
    OBVIOUS
<1>3. (IF job'.spent < job.spent THEN job.spent - job'.spent ELSE 0) \in Nat
    BY <1>1
<1> QED BY <1>1, <1>2, <1>3 DEF Noted

\* A step that changes one thread and one driver: what is left to show of the cycles.
LEMMA CycleTyped ==
    ASSUME JobTypeOK, Repairing, NEW t \in Threads, NEW new \in Doings, NEW r \in Memories,
           thread' = [thread EXCEPT ![t] = new], driver' = [driver EXCEPT ![t] = r], Noted, job' \in Job,
           issues' \in Seq(Issue), Len(issues) <= Len(issues'), Len(issues') <= MaxIssues,
           \A i \in 1..Len(issues') : issues'[i].attempts <= MaxRepairs,
           repairs' \in Nat,
           new.pc \notin DRIVING => r = Apart,
           r.cycle < Limit(new.op),
           r.todo \subseteq r.open, r.admitted \subseteq r.open,
           r.open \subseteq 1..Len(issues'), DOMAIN r.attempts = r.open,
           \A i \in r.admitted : r.attempts[i] < MaxRepairs,
           new.pc = "plan" => r.open = {},
           new.pc \in {"regenerate", "charge", "record"} => r.todo # {}
    PROVE  Repairing'
<1> USE DEF Repairing
<1>1. Ids' = 1..Len(issues') /\ Ids \subseteq Ids'
    BY DEF Ids
<1>2. driver' \in [Threads -> Memories] /\ driver'[t] = r /\ thread'[t] = new
    BY DEF JobTypeOK
<1>3. \A u \in Threads \ {t} : driver'[u] = driver[u] /\ thread'[u] = thread[u]
    BY DEF JobTypeOK
<1>4. ASSUME NEW u \in Threads
      PROVE  Remembered(u)'
  <2>1. CASE u = t
      BY <1>1, <1>2, <2>1 DEF Remembered
  <2>2. CASE u # t
    <3>1. Remembered(u)
        BY DEF Repairing
    <3>2. driver[u].open \subseteq Ids'
        BY <1>1, <3>1 DEF Remembered
    <3>3. driver'[u] = driver[u] /\ thread'[u] = thread[u]
        BY <1>3, <2>2
    <3> QED BY <3>1, <3>2, <3>3 DEF Remembered
  <2> QED BY <2>1, <2>2
<1>5. overlap' \in BOOLEAN /\ lost' \in Nat
    BY NotedTyped
<1> QED BY <1>1, <1>2, <1>4, <1>5

\* The memory of a driver, as it is and as it is left.
LEMMA MemoryTyped ==
    ASSUME JobTypeOK, Repairing, NEW t \in Threads
    PROVE  /\ driver[t] \in Memories /\ Remembered(t) /\ thread[t] \in Doings
           /\ Ids = 1..Len(issues)
           /\ thread[t].pc \notin DRIVING => driver[t] = Apart
BY DEF JobTypeOK, Repairing, Remembered, Ids, Doings

\* The cycles do not see what a thread does outside them.
LEMMA OutsideRepairing ==
    ASSUME JobTypeOK, Repairing, UNCHANGED repairVars, Noted, JobTypeOK',
           \A t \in Threads :
             \/ thread'[t] = thread[t]
             \/ thread[t].pc \notin DRIVING /\ thread'[t].pc \notin {"regenerate", "charge", "record"}
    PROVE  Repairing'
<1>1. UNCHANGED <<issues, driver, repairs>> /\ Ids' = Ids
    BY DEF repairVars, Ids
<1>2. ASSUME NEW t \in Threads
      PROVE  Remembered(t)'
  <2>1. Remembered(t)
      BY DEF Repairing
  <2>2. CASE thread'[t] = thread[t]
      BY <1>1, <2>1, <2>2 DEF Remembered
  <2>3. CASE thread[t].pc \notin DRIVING /\ thread'[t].pc \notin {"regenerate", "charge", "record"}
    <3>1. driver[t] = Apart /\ driver'[t] = Apart /\ Apart.open = {}
        BY <1>1, <2>1, <2>3 DEF Remembered, Apart
    <3>2. Apart.cycle < Limit(thread'[t].op)
        BY LimitIsPositive DEF Apart
    <3> QED BY <1>1, <2>1, <2>3, <3>1, <3>2 DEF Remembered
  <2> QED BY <2>2, <2>3
<1>3. overlap' \in BOOLEAN /\ lost' \in Nat
    BY NotedTyped DEF JobTypeOK
<1> QED BY <1>1, <1>2, <1>3 DEF Repairing

\* A request drives nothing until it plans.
LEMMA RequestStays ==
    ASSUME JobTypeOK, NEW t \in Threads,
           Request(t) \/ WaitTimesOut(t) \/ \E op \in Polls \cup Orders : Begin(t, op)
    PROVE  /\ thread[t].pc \notin DRIVING
           /\ \A u \in Threads \ {t} : thread'[u] = thread[u]
           /\ thread'[t].pc \notin DRIVING \ {"plan"}
<1>1. thread[t].pc \in {"idle", "launch", "link", "wait", "read", "write", "reload", "act", "mark"}
    BY DEF Request, WaitTimesOut, Begin, At, Launch, Link, WaitOver, SyncRead, SyncWrite, SyncReload,
           Continue, Reject, PauseRun, Refused, Mark
<1>2. thread \in [Threads -> Doings] /\ thread[t] \in Doings
    BY DEF JobTypeOK, Doings
<1>3. ASSUME NEW new, Set(t, new), new.pc \notin DRIVING \ {"plan"}
      PROVE  /\ thread'[t].pc \notin DRIVING \ {"plan"}
             /\ \A u \in Threads \ {t} : thread'[u] = thread[u]
    BY <1>2, <1>3 DEF Set
<1>4. thread[t].pc \notin DRIVING
    BY <1>1 DEF DRIVING
<1>5. /\ Idle.pc \notin DRIVING /\ [Idle EXCEPT !.pc = "read"].pc \notin DRIVING
      /\ [Idle EXCEPT !.op = "finalize", !.pc = "read", !.stage = "finish"].pc \notin DRIVING
    BY DEF Idle, DRIVING
<1>6. CASE \E op \in Polls \cup Orders : Begin(t, op)
  <2>1. PICK op \in Polls \cup Orders : Begin(t, op)
      BY <1>6
  <2> DEFINE new == [Idle EXCEPT !.op = IF op \in Polls THEN "none" ELSE op,
                                 !.pc = IF op = "start" THEN "launch" ELSE "read",
                                 !.stage = IF op \in Polls THEN "end" ELSE "judge"]
  <2>2. new.pc \notin DRIVING /\ Set(t, new)
      BY <2>1 DEF Begin, Idle, DRIVING
  <2> QED BY <1>3, <1>4, <2>2
<1>7. CASE Launch(t)
  <2>1. PICK e \in Executions : Set(t, [thread[t] EXCEPT !.pc = "link", !.execution = e])
      BY <1>7 DEF Launch
  <2>2. [thread[t] EXCEPT !.pc = "link", !.execution = e].pc \notin DRIVING
      BY <1>2 DEF Doings, DRIVING
  <2> QED BY <1>3, <1>4, <2>1, <2>2
<1>8. CASE SyncRead(t)
  <2> DEFINE new == [thread[t] EXCEPT !.pc = "write", !.execution = job.execution,
                                      !.terminal = Terminal(job.status),
                                      !.derived = DeriveJobStatus(execution[job.execution]),
                                      !.spent = SpentBy(job.execution)]
  <2>1. new.pc \notin DRIVING
      BY <1>2 DEF Doings, DRIVING
  <2>2. Set(t, new)
      BY <1>8 DEF SyncRead
  <2> QED BY <1>3, <1>4, <2>1, <2>2
<1>9. CASE SyncWrite(t)
  <2>1. [thread[t] EXCEPT !.pc = "reload", !.terminal = FALSE, !.spent = 0].pc \notin DRIVING
      BY <1>2 DEF Doings, DRIVING
  <2>2. Set(t, [thread[t] EXCEPT !.pc = "reload", !.terminal = FALSE, !.spent = 0])
      BY <1>9 DEF SyncWrite
  <2> QED BY <1>3, <1>4, <2>1, <2>2
<1>10. CASE Continue(t) \/ PauseRun(t)
  <2>1. PICK pc \in {"mark", "wait"} : Set(t, [thread[t] EXCEPT !.pc = pc])
      BY <1>10 DEF Continue, PauseRun, Goto
  <2>2. [thread[t] EXCEPT !.pc = pc].pc \notin DRIVING
      BY <1>2 DEF Doings, DRIVING
  <2> QED BY <1>3, <1>4, <2>1, <2>2
<1>11. CASE Link(t) \/ Mark(t)
  <2>1. \/ Set(t, Idle)
        \/ Set(t, [Idle EXCEPT !.op = "finalize", !.pc = "wait", !.execution = thread[t].execution])
        \/ Set(t, [Idle EXCEPT !.op = "finalize", !.pc = "wait", !.execution = job.execution])
      BY <1>11 DEF Link, Mark, Finalize, Done
  <2>2. /\ [Idle EXCEPT !.op = "finalize", !.pc = "wait", !.execution = thread[t].execution].pc \notin DRIVING
        /\ [Idle EXCEPT !.op = "finalize", !.pc = "wait", !.execution = job.execution].pc \notin DRIVING
      BY DEF Idle, DRIVING
  <2> QED BY <1>3, <1>4, <1>5, <2>1, <2>2
<1>12. CASE Refused(t) \/ Reject(t) \/ WaitTimesOut(t) \/ WaitOver(t)
  <2>1. \/ Set(t, Idle) \/ Set(t, [Idle EXCEPT !.pc = "read"])
        \/ Set(t, [Idle EXCEPT !.op = "finalize", !.pc = "read", !.stage = "finish"])
      BY <1>12 DEF Refused, Reject, WaitTimesOut, WaitOver, Done, LastSync
  <2> QED BY <1>3, <1>4, <1>5, <2>1
<1>13. CASE SyncReload(t)
  <2>1. \/ Set(t, Idle)
        \/ Set(t, [Idle EXCEPT !.op = thread[t].op, !.pc = "act", !.execution = job.execution])
        \/ Set(t, [Idle EXCEPT !.op = "finalize", !.pc = "plan"])
      BY <1>13 DEF SyncReload, Done
  <2>2. /\ [Idle EXCEPT !.op = thread[t].op, !.pc = "act", !.execution = job.execution].pc \notin DRIVING
        /\ [Idle EXCEPT !.op = "finalize", !.pc = "plan"].pc = "plan"
      BY DEF Idle, DRIVING
  <2> QED BY <1>3, <1>4, <1>5, <2>1, <2>2
<1> QED BY <1>6, <1>7, <1>8, <1>9, <1>10, <1>11, <1>12, <1>13 DEF Request

\* The cycles keep what the Job is linked to.
LEMMA DrivingJobTyped ==
    ASSUME JobTypeOK, Linked, NEW t \in Threads, NEW new \in Doings, Set(t, new),
           new.pc \in DRIVING \cup {"idle"}, Elsewhere \/ (UNCHANGED <<engine, crashes>> /\ ops' \in 0..MaxOps),
           job' \in Job, job'.execution = job.execution
    PROVE  JobTypeOK' /\ Linked'
<1>1. UNCHANGED <<execution, generated, crashes>> /\ ops' \in 0..MaxOps
    BY DEF Elsewhere, engine, JobTypeOK
<1>2. JobTypeOK'
    BY <1>1 DEF JobTypeOK, Doings, Set
<1>3. thread'[t] = new /\ \A u \in Threads \ {t} : thread'[u] = thread[u]
    BY DEF JobTypeOK, Set
<1>4. Linked'
    BY <1>1, <1>3 DEF Linked, DRIVING
<1> QED BY <1>2, <1>4

\* Going to another stage of the cycle.
LEMMA StageTyped ==
    ASSUME NEW new \in Doings, NEW pc \in DRIVING
    PROVE  /\ [new EXCEPT !.pc = pc] \in Doings
           /\ [new EXCEPT !.pc = pc].pc = pc /\ [new EXCEPT !.pc = pc].op = new.op
BY DEF Doings, DRIVING

\* What Apart remembers: nothing.
LEMMA ApartIsEmpty ==
    /\ Apart \in Memories /\ Apart.cycle = 0 /\ Apart.open = {} /\ Apart.todo = {}
    /\ Apart.admitted = {} /\ DOMAIN Apart.attempts = {} /\ Apart.ran = [d \in Defects |-> 0]
    /\ Apart.spent = 0
BY ApartTyped DEF Apart

\* New issues, one for each defect of a set.
LEMMA NewIssuesTyped ==
    ASSUME NEW D \in SUBSET Defects
    PROVE  /\ IsFiniteSet({NewIssue(d) : d \in D})
           /\ SetToSeq({NewIssue(d) : d \in D}) \in Seq({NewIssue(d) : d \in D})
           /\ Len(SetToSeq({NewIssue(d) : d \in D})) \in Nat
           /\ \A i, j \in 1..Len(SetToSeq({NewIssue(d) : d \in D})) :
                SetToSeq({NewIssue(d) : d \in D})[i] = SetToSeq({NewIssue(d) : d \in D})[j] => i = j
<1> DEFINE N == {NewIssue(d) : d \in D}
<1>1. IsFiniteSet(D)
    BY DefectsAssumption, FS_Subset
<1>2. [d \in D |-> NewIssue(d)] \in Surjection(D, N)
    BY DEF Surjection
<1>3. IsFiniteSet(N)
    BY <1>1, <1>2, FS_Surjection DEF ExistsSurjection
<1> HIDE DEF N
<1>4. /\ SetToSeq(N) \in Seq(N) /\ Len(SetToSeq(N)) = Cardinality(N)
      /\ \A i, j \in 1..Cardinality(N) : SetToSeq(N)[i] = SetToSeq(N)[j] => i = j
    BY <1>3, SetToSeqOrders
<1>5. Len(SetToSeq(N)) \in Nat
    BY <1>4
<1> QED BY <1>3, <1>4, <1>5 DEF N

\* They are open, current, and nothing has been tried of them.
LEMMA NewIssueTyped ==
    ASSUME NEW d \in Defects
    PROVE  /\ NewIssue(d) \in Issue /\ NewIssue(d).attempts = 0 /\ NewIssue(d).status = "open"
           /\ NewIssue(d).defect = d /\ NewIssue(d).current
BY DEF NewIssue, Issue, OPEN_STATUSES

\* An issue that is changed in one place.
LEMMA IssueTyped ==
    ASSUME issues \in Seq(Issue), NEW i \in 1..Len(issues),
           NEW s \in OPEN_STATUSES \cup {"resolved", "escalated", "accepted"},
           Changed(i, s)
    PROVE  /\ issues' \in Seq(Issue) /\ Len(issues') = Len(issues)
           /\ issues'[i].status = s /\ issues'[i].attempts = issues[i].attempts
           /\ issues'[i].defect = issues[i].defect /\ issues'[i].current = issues[i].current
           /\ \A j \in 1..Len(issues) : j # i => issues'[j] = issues[j]
           /\ \A j \in 1..Len(issues) : /\ issues'[j].attempts = issues[j].attempts
                                        /\ issues'[j].defect = issues[j].defect
                                        /\ issues'[j].current = issues[j].current
<1> DEFINE e == [issues[i] EXCEPT !.status = s]
<1>1. issues[i] \in Issue
    OBVIOUS
<1>2. e \in Issue /\ e.status = s /\ e.attempts = issues[i].attempts /\ e.defect = issues[i].defect
      /\ e.current = issues[i].current
    BY <1>1 DEF Issue
<1>3. issues' = [issues EXCEPT ![i] = e]
    BY DEF Changed
<1> HIDE DEF e
<1>4. [issues EXCEPT ![i] = e] \in Seq(Issue) /\ Len([issues EXCEPT ![i] = e]) = Len(issues)
    BY <1>2, ChangedSeq
<1>5. issues'[i] = e /\ \A j \in 1..Len(issues) : j # i => issues'[j] = issues[j]
  <2>1. DOMAIN issues = 1..Len(issues)
      OBVIOUS
  <2> QED BY <1>3, <2>1
<1> QED BY <1>2, <1>3, <1>4, <1>5

\* An issue that is taken up once more.
TakenUp(i, n) == issues' = [issues EXCEPT ![i].status = "repairing", ![i].attempts = n]

\* An issue that is taken up changes its status and its attempts, and no other issue changes.
LEMMA TakenUpTyped ==
    ASSUME issues \in Seq(Issue), NEW i \in 1..Len(issues), NEW n \in Nat,
           TakenUp(i, n)
    PROVE  /\ issues' \in Seq(Issue) /\ Len(issues') = Len(issues)
           /\ issues'[i].status = "repairing" /\ issues'[i].attempts = n
           /\ issues'[i].defect = issues[i].defect /\ issues'[i].current = issues[i].current
           /\ \A j \in 1..Len(issues) : j # i => issues'[j] = issues[j]
<1> DEFINE e == [issues[i] EXCEPT !.status = "repairing", !.attempts = n]
<1>1. issues[i] \in Issue
    OBVIOUS
<1>2. e \in Issue /\ e.status = "repairing" /\ e.attempts = n /\ e.defect = issues[i].defect
      /\ e.current = issues[i].current
    BY <1>1 DEF Issue, OPEN_STATUSES
<1>3. issues' = [issues EXCEPT ![i] = e]
    BY DEF TakenUp
<1> HIDE DEF e
<1>4. [issues EXCEPT ![i] = e] \in Seq(Issue) /\ Len([issues EXCEPT ![i] = e]) = Len(issues)
    BY <1>2, ChangedSeq
<1>5. issues'[i] = e /\ \A j \in 1..Len(issues) : j # i => issues'[j] = issues[j]
  <2>1. DOMAIN issues = 1..Len(issues)
      OBVIOUS
  <2> QED BY <1>3, <2>1
<1> QED BY <1>2, <1>3, <1>4, <1>5

\* Issues that follow the others.
LEMMA FollowedTyped ==
    ASSUME NEW q \in Seq(Issue), NEW N \in SUBSET Issue, NEW n \in Seq(N)
    PROVE  /\ q \o n \in Seq(Issue) /\ Len(q \o n) = Len(q) + Len(n)
           /\ \A j \in 1..Len(q) : (q \o n)[j] = q[j]
           /\ \A j \in 1..Len(n) : (q \o n)[Len(q) + j] = n[j]
           /\ \A j \in 1..Len(q \o n) : j \notin 1..Len(q) => j - Len(q) \in 1..Len(n) /\ (q \o n)[j] = n[j - Len(q)]
OBVIOUS

-----------------------------------------------------------------------------
\* A retry starts a driver at its plan.
LEMMA RetryTyped ==
    ASSUME TInv, NEW t \in Threads, NEW d \in Defects, Retry(t, d), Noted
    PROVE  TInv'
<1> DEFINE new == [Idle EXCEPT !.op = "retry", !.pc = "plan"]
<1>1. JobTypeOK /\ Linked /\ Repairing
    BY DEF TInv
<1>2. new \in Doings /\ new.pc = "plan"
    BY IdleTyped DEF Doings
<1>3. driver[t] = Apart /\ driver \in [Threads -> Memories] /\ issues \in Seq(Issue)
    BY <1>1, MemoryTyped DEF Retry, At, Repairing, DRIVING
<1>4. /\ Set(t, new) /\ ops' \in 0..MaxOps /\ UNCHANGED <<engine, job, crashes, driver, repairs>>
      /\ Len(issues') <= MaxIssues
    BY <1>1, CountsAssumption DEF Retry, JobTypeOK
<1>5. /\ issues' \in Seq(Issue) /\ Len(issues) <= Len(issues')
      /\ \A i \in 1..Len(issues') : issues'[i].attempts <= MaxRepairs
  <2>1. NewIssue(d) \in Issue /\ NewIssue(d).attempts <= MaxRepairs
      BY NewIssueTyped, RepairsAssumption
  <2>2. \A i \in 1..Len(issues) : issues[i].attempts <= MaxRepairs
      BY <1>1, <1>3 DEF Repairing, Ids
  <2>3. CASE issues' = issues
      BY <1>3, <2>2, <2>3
  <2>4. CASE issues' = Append(issues, NewIssue(d))
      BY <1>3, <2>1, <2>2, <2>4
  <2> QED BY <2>3, <2>4 DEF Retry
<1>6. JobTypeOK' /\ Linked'
    BY <1>1, <1>2, <1>4, DrivingJobTyped DEF DRIVING, JobTypeOK
<1>7. Repairing'
  <2>1. driver' = [driver EXCEPT ![t] = Apart]
      BY <1>3, <1>4
  <2>2. Apart.cycle < Limit(new.op)
      BY ApartIsEmpty, LimitIsPositive
  <2>3. repairs' \in Nat /\ job' \in Job
      BY <1>1, <1>4 DEF Repairing, JobTypeOK
  <2> HIDE DEF new
  <2> QED BY <1>1, <1>2, <1>4, <1>5, <2>1, <2>2, <2>3, ApartIsEmpty, CycleTyped DEF Set
<1> QED BY <1>6, <1>7 DEF TInv

\* A repair is expected to generate once or never.
LEMMA EstimateTyped == \A i : Estimate(i) \in {0, 1}
BY DEF Estimate

\* The step of a cycle: what is left to show when the issues keep their attempts.
LEMMA CycleStepTyped ==
    ASSUME TInv, NEW t \in Threads, Noted, Elsewhere, thread[t].pc \in DRIVING,
           job' \in Job, job'.execution = job.execution,
           NEW pc \in DRIVING \cup {"idle"}, NEW r \in Memories,
           IF pc = "idle" THEN Done(t) /\ r = Apart ELSE Goto(t, pc) /\ r.cycle < Limit(thread[t].op),
           Drive(t, r),
           issues' \in Seq(Issue), Len(issues) <= Len(issues'), Len(issues') <= MaxIssues,
           \A i \in 1..Len(issues') : issues'[i].attempts <= MaxRepairs,
           repairs' \in Nat,
           r.todo \subseteq r.open, r.admitted \subseteq r.open,
           r.open \subseteq 1..Len(issues'), DOMAIN r.attempts = r.open,
           \A i \in r.admitted : r.attempts[i] < MaxRepairs,
           pc = "plan" => r.open = {},
           pc \in {"regenerate", "charge", "record"} => r.todo # {}
    PROVE  TInv'
<1>1. JobTypeOK /\ Linked /\ Repairing /\ thread[t] \in Doings
    BY MemoryTyped DEF TInv
<1>2. CASE pc = "idle"
  <2>1. Idle \in Doings /\ Idle.pc = "idle" /\ Set(t, Idle) /\ r = Apart
      BY <1>2, IdleTyped DEF Idle, Done
  <2>2. JobTypeOK' /\ Linked'
      BY <1>1, <2>1, DrivingJobTyped
  <2>3. r.cycle < Limit(Idle.op)
      BY <2>1, ApartIsEmpty, LimitIsPositive
  <2>4. Repairing'
      BY <1>1, <2>1, <2>3, ApartIsEmpty, CycleTyped DEF Set, Drive
  <2> QED BY <2>2, <2>4 DEF TInv
<1>3. CASE pc \in DRIVING
  <2> DEFINE new == [thread[t] EXCEPT !.pc = pc]
  <2>1. pc # "idle" /\ Set(t, new) /\ r.cycle < Limit(thread[t].op)
      BY <1>3 DEF Goto, DRIVING
  <2>2. new \in Doings /\ new.pc = pc /\ new.op = thread[t].op
      BY <1>1, <1>3, StageTyped
  <2> HIDE DEF new
  <2>3. JobTypeOK' /\ Linked'
      BY <1>1, <1>3, <2>1, <2>2, DrivingJobTyped
  <2>4. Repairing'
      BY <1>1, <1>3, <2>1, <2>2, CycleTyped DEF Set, Drive
  <2> QED BY <2>3, <2>4 DEF TInv
<1> QED BY <1>2, <1>3

\* What a driver can count on when its step begins.
LEMMA DriverTyped ==
    ASSUME TInv, NEW t \in Threads
    PROVE  /\ driver[t] \in Memories /\ Remembered(t) /\ job \in Job /\ repairs \in Nat
           /\ issues \in Seq(Issue) /\ Ids = 1..Len(issues) /\ Len(issues) <= MaxIssues
           /\ \A i \in Ids : issues[i] \in Issue /\ issues[i].attempts \in 0..MaxRepairs
           /\ \A i \in Ids : issues[i].defect \in Defects
           /\ Open \subseteq Ids
<1>1. JobTypeOK /\ Repairing
    BY DEF TInv
<1>2. /\ driver[t] \in Memories /\ Remembered(t) /\ Ids = 1..Len(issues)
    BY <1>1, MemoryTyped
<1>3. \A i \in Ids : issues[i] \in Issue /\ issues[i].attempts <= MaxRepairs
    BY <1>1, <1>2 DEF Repairing
<1>4. \A i \in Ids : issues[i].attempts \in 0..MaxRepairs /\ issues[i].defect \in Defects
    BY <1>3, RepairsAssumption DEF Issue
<1> QED BY <1>1, <1>2, <1>3, <1>4 DEF Repairing, JobTypeOK, Open

\* The first of what is to do is an issue of the plan.
LEMMA FirstTyped ==
    ASSUME TInv, NEW t \in Threads, driver[t].todo # {}
    PROVE  /\ First(driver[t].todo) \in driver[t].todo /\ First(driver[t].todo) \in driver[t].open
           /\ First(driver[t].todo) \in Ids /\ First(driver[t].todo) \in 1..Len(issues)
           /\ issues[First(driver[t].todo)].defect \in Defects
           /\ driver[t].attempts[First(driver[t].todo)] \in 0..MaxRepairs
<1>1. driver[t] \in Memories /\ Remembered(t) /\ Ids = 1..Len(issues)
      /\ \A i \in Ids : issues[i].defect \in Defects
    BY DriverTyped
<1>2. First(driver[t].todo) \in driver[t].todo
    BY <1>1, LeastOf DEF Memories
<1>3. \A i \in DOMAIN driver[t].attempts : driver[t].attempts[i] \in 0..MaxRepairs
  <2>1. driver[t].attempts \in Tries
      BY <1>1 DEF Memories
  <2>2. PICK S \in SUBSET Nat : driver[t].attempts \in [S -> 0..MaxRepairs]
      BY <2>1 DEF Tries
  <2> QED BY <2>2
<1> QED BY <1>1, <1>2, <1>3 DEF Remembered

\* The issues stay as they are.
LEMMA IssuesStay ==
    ASSUME TInv, UNCHANGED issues
    PROVE  /\ issues' \in Seq(Issue) /\ Len(issues) <= Len(issues') /\ Len(issues') <= MaxIssues
           /\ \A i \in 1..Len(issues') : issues'[i].attempts <= MaxRepairs
           /\ Ids = 1..Len(issues')
BY DEF TInv, Repairing, Ids

\* plan remembers open issues and their attempts.
LEMMA PlanTyped ==
    ASSUME TInv, NEW t \in Threads, PlanNothing(t) \/ Plan(t), Noted
    PROVE  TInv'
<1>1. /\ driver[t] \in Memories /\ Remembered(t) /\ job \in Job /\ repairs \in Nat
      /\ issues \in Seq(Issue) /\ Ids = 1..Len(issues) /\ Len(issues) <= MaxIssues
      /\ \A i \in Ids : issues[i].attempts \in 0..MaxRepairs
      /\ Open \subseteq Ids
    BY DriverTyped
<1>2. /\ thread[t].pc = "plan" /\ Elsewhere /\ UNCHANGED <<job, issues, repairs>>
    BY DEF PlanNothing, Plan, At
<1>3. CASE PlanNothing(t)
  <2>1. Done(t) /\ Drive(t, Apart)
      BY <1>3 DEF PlanNothing, Leave
  <2> QED BY <1>1, <1>2, <2>1, ApartIsEmpty, IssuesStay, CycleStepTyped DEF DRIVING
<1>4. CASE Plan(t)
  <2> DEFINE r == [driver[t] EXCEPT !.open = Open, !.todo = Open, !.spent = job.spent,
                                    !.attempts = [i \in Open |-> issues[i].attempts]]
  <2>1. Goto(t, "apply") /\ Drive(t, r)
      BY <1>4 DEF Plan
  <2>2. [i \in Open |-> issues[i].attempts] \in Tries
    <3>1. [i \in Open |-> issues[i].attempts] \in [Open -> 0..MaxRepairs] /\ Open \in SUBSET Nat
        BY <1>1
    <3> QED BY <3>1 DEF Tries
  <2>3. /\ r \in Memories /\ r.open = Open /\ r.todo = Open /\ r.admitted = driver[t].admitted
        /\ r.cycle = driver[t].cycle /\ DOMAIN r.attempts = Open
    <3>1. Open \in SUBSET Nat /\ job.spent \in Nat
        BY <1>1 DEF Job
    <3> QED BY <1>1, <2>2, <3>1 DEF Memories
  <2>4. r.admitted = {} /\ r.cycle < Limit(thread[t].op)
      BY <1>1, <1>2, <2>3 DEF Remembered
  <2> HIDE DEF r
  <2>5. r.open \subseteq 1..Len(issues')
      BY <1>1, <1>2, <2>3
  <2> QED BY <1>1, <1>2, <2>1, <2>3, <2>4, <2>5, IssuesStay, CycleStepTyped DEF DRIVING
<1> QED BY <1>3, <1>4

\* One issue is admitted, escalated or left.
LEMMA ApplyTyped ==
    ASSUME TInv, NEW t \in Threads, Apply(t), Noted
    PROVE  TInv'
<1> DEFINE i == First(driver[t].todo)
<1>1. /\ driver[t] \in Memories /\ Remembered(t) /\ job \in Job /\ repairs \in Nat
      /\ issues \in Seq(Issue) /\ Ids = 1..Len(issues) /\ Len(issues) <= MaxIssues
      /\ \A j \in Ids : issues[j].attempts \in 0..MaxRepairs
    BY DriverTyped
<1>2. /\ thread[t].pc = "apply" /\ Elsewhere /\ UNCHANGED <<thread, repairs>> /\ driver[t].todo # {}
    BY DEF Apply, At
<1>3. /\ i \in driver[t].todo /\ i \in driver[t].open /\ i \in 1..Len(issues)
      /\ driver[t].attempts[i] \in 0..MaxRepairs
    BY <1>2, FirstTyped
<1>4. Goto(t, "apply")
  <2>1. thread[t] \in Doings /\ thread \in [Threads -> Doings]
      BY MemoryTyped DEF TInv, JobTypeOK, Doings
  <2>2. [thread[t] EXCEPT !.pc = "apply"] = thread[t]
      BY <1>2, <2>1 DEF Doings
  <2> QED BY <1>2, <2>1, <2>2 DEF Goto, Set
<1>5. job' \in Job /\ job'.execution = job.execution
    BY <1>1 DEF Apply, Job, Active
<1> DEFINE Kept == /\ issues' \in Seq(Issue) /\ Len(issues') = Len(issues)
                   /\ \A j \in 1..Len(issues') : issues'[j].attempts <= MaxRepairs
<1>6. Kept
  <2>1. CASE UNCHANGED issues
      BY <1>1, <2>1, RepairsAssumption
  <2>2. ASSUME NEW s \in {"accepted", "escalated"}, Changed(i, s)
        PROVE  Kept
    <3> HIDE DEF i
    <3>1. i \in 1..Len(issues) /\ s \in OPEN_STATUSES \cup {"resolved", "escalated", "accepted"}
        BY <1>3, <2>2
    <3>2. /\ issues' \in Seq(Issue) /\ Len(issues') = Len(issues)
          /\ \A j \in 1..Len(issues) : issues'[j].attempts = issues[j].attempts
        BY <1>1, <2>2, <3>1, IssueTyped
    <3> QED BY <1>1, <3>2, RepairsAssumption
  <2>3. CASE /\ MayRepair(driver[t], i)
             /\ issues' = [issues EXCEPT ![i].status = "repairing", ![i].attempts = driver[t].attempts[i] + 1]
    <3>1. driver[t].attempts[i] + 1 \in Nat /\ driver[t].attempts[i] + 1 <= MaxRepairs
        BY <1>3, <2>3, RepairsAssumption, SMTT(60) DEF MayRepair
    <3> HIDE DEF i
    <3> DEFINE n == driver[t].attempts[i] + 1
    <3>3. TakenUp(i, n) /\ n \in Nat
        BY <2>3, <3>1 DEF TakenUp
    <3> HIDE DEF i, n
    <3>4. i \in 1..Len(issues)
        BY <1>3
    <3>2. /\ issues' \in Seq(Issue) /\ Len(issues') = Len(issues)
          /\ issues'[i].attempts = n
          /\ \A j \in 1..Len(issues) : j # i => issues'[j] = issues[j]
        BY <1>1, <3>3, <3>4, TakenUpTyped
    <3> QED BY <1>1, <3>1, <3>2, <3>4, RepairsAssumption DEF n
  <2> QED BY <2>1, <2>2, <2>3 DEF Apply
<1>7. PICK todo \in SUBSET driver[t].todo, admitted \in SUBSET (driver[t].admitted \cup {i}) :
        /\ Drive(t, [driver[t] EXCEPT !.todo = todo, !.admitted = admitted])
        /\ i \in admitted /\ i \notin driver[t].admitted => MayRepair(driver[t], i)
  <2>1. PICK todo \in {driver[t].todo \ {i}, {}}, admitted \in {driver[t].admitted, driver[t].admitted \cup {i}} :
          /\ Drive(t, [driver[t] EXCEPT !.todo = todo, !.admitted = admitted])
          /\ admitted = driver[t].admitted \cup {i} => admitted = driver[t].admitted \/ MayRepair(driver[t], i)
      BY DEF Apply
  <2> HIDE DEF i
  <2> QED BY <2>1
<1> DEFINE r == [driver[t] EXCEPT !.todo = todo, !.admitted = admitted]
<1>8. /\ r \in Memories /\ r.todo = todo /\ r.admitted = admitted /\ r.open = driver[t].open
      /\ r.attempts = driver[t].attempts /\ r.cycle = driver[t].cycle
  <2>1. todo \in SUBSET Nat /\ admitted \in SUBSET Nat
      BY <1>1, <1>3 DEF Memories
  <2> QED BY <1>1, <2>1 DEF Memories
<1>9. /\ r.todo \subseteq r.open /\ r.admitted \subseteq r.open /\ r.open \subseteq 1..Len(issues')
      /\ DOMAIN r.attempts = r.open /\ r.cycle < Limit(thread[t].op)
    BY <1>1, <1>3, <1>6, <1>8 DEF Remembered
<1>10. \A j \in r.admitted : r.attempts[j] < MaxRepairs
    BY <1>1, <1>7, <1>8 DEF Remembered, MayRepair
<1> HIDE DEF r, i
<1>11. Drive(t, r) /\ Len(issues) <= Len(issues') /\ Len(issues') <= MaxIssues /\ repairs' \in Nat
    BY <1>1, <1>2, <1>6, <1>7 DEF r
<1> QED BY <1>2, <1>4, <1>5, <1>6, <1>8, <1>9, <1>10, <1>11, CycleStepTyped DEF DRIVING

\* What was admitted is what is to do.
LEMMA AppliedTyped ==
    ASSUME TInv, NEW t \in Threads, Applied(t), Noted
    PROVE  TInv'
<1>1. /\ driver[t] \in Memories /\ Remembered(t) /\ job \in Job /\ repairs \in Nat
      /\ issues \in Seq(Issue) /\ Ids = 1..Len(issues) /\ Len(issues) <= MaxIssues
      /\ \A j \in Ids : issues[j].attempts \in 0..MaxRepairs
    BY DriverTyped
<1>2. /\ thread[t].pc = "apply" /\ Elsewhere /\ UNCHANGED <<job, issues, repairs>>
    BY DEF Applied, At
<1>3. CASE driver[t].admitted = {}
  <2>1. Done(t) /\ Drive(t, Apart)
      BY <1>3 DEF Applied, Leave
  <2> QED BY <1>1, <1>2, <2>1, ApartIsEmpty, IssuesStay, CycleStepTyped DEF DRIVING
<1>4. CASE driver[t].admitted # {}
  <2> DEFINE r == [driver[t] EXCEPT !.todo = driver[t].admitted, !.spent = 0]
  <2>1. Goto(t, "regenerate") /\ Drive(t, r)
      BY <1>4 DEF Applied
  <2>2. /\ r \in Memories /\ r.todo = driver[t].admitted /\ r.admitted = driver[t].admitted
        /\ r.open = driver[t].open /\ r.attempts = driver[t].attempts /\ r.cycle = driver[t].cycle
      BY <1>1 DEF Memories
  <2>3. /\ r.todo \subseteq r.open /\ r.admitted \subseteq r.open /\ r.open \subseteq 1..Len(issues')
        /\ DOMAIN r.attempts = r.open /\ r.cycle < Limit(thread[t].op) /\ r.todo # {}
        /\ \A j \in r.admitted : r.attempts[j] < MaxRepairs
      BY <1>1, <1>2, <1>4, <2>2 DEF Remembered
  <2> HIDE DEF r
  <2> QED BY <1>1, <1>2, <2>1, <2>2, <2>3, CycleStepTyped, RepairsAssumption, SMTT(60) DEF DRIVING
<1> QED BY <1>3, <1>4

\* A regenerated artifact makes its issues stale, and keeps them issues.
LEMMA RegenerateTyped ==
    ASSUME TInv, NEW t \in Threads, Regenerate(t), Noted
    PROVE  TInv'
<1> DEFINE d == issues[First(driver[t].todo)].defect
<1>1. /\ driver[t] \in Memories /\ Remembered(t) /\ job \in Job /\ repairs \in Nat
      /\ issues \in Seq(Issue) /\ Ids = 1..Len(issues) /\ Len(issues) <= MaxIssues
      /\ \A j \in Ids : issues[j] \in Issue /\ issues[j].attempts \in 0..MaxRepairs
    BY DriverTyped
<1>2. /\ thread[t].pc = "regenerate" /\ Elsewhere /\ UNCHANGED job /\ Goto(t, "charge")
      /\ driver[t].todo # {}
    BY <1>1 DEF Regenerate, At, Remembered
<1>3. d \in Defects
    BY <1>2, FirstTyped
<1> HIDE DEF d
<1>4. PICK result \in {"resolved", "failed"}, runs \in BOOLEAN :
        /\ Drive(t, [driver[t] EXCEPT !.result = result, !.spent = job.spent,
                                      !.ran[d] = IF runs THEN @ + 1 ELSE @])
        /\ issues' = [k \in Ids |-> IF result = "resolved" /\ issues[k].defect = d
                                    THEN [issues[k] EXCEPT !.current = FALSE] ELSE issues[k]]
        /\ repairs' = IF runs THEN repairs + Estimate(First(driver[t].todo)) ELSE repairs
    BY DEF Regenerate, d
<1>5. /\ issues' \in Seq(Issue) /\ Len(issues') = Len(issues)
      /\ \A i \in 1..Len(issues') : issues'[i].attempts <= MaxRepairs
  <2>1. \A i \in Ids : /\ [issues[i] EXCEPT !.current = FALSE] \in Issue
                       /\ [issues[i] EXCEPT !.current = FALSE].attempts = issues[i].attempts
      BY <1>1 DEF Issue
  <2>2. /\ issues' \in [1..Len(issues) -> Issue]
        /\ \A i \in 1..Len(issues) : issues'[i].attempts = issues[i].attempts
      BY <1>1, <1>4, <2>1
  <2>3. Len(issues) \in Nat
      BY <1>1
  <2>4. issues' \in Seq(Issue) /\ Len(issues') = Len(issues)
      BY <2>2, <2>3, MappedSeq
  <2> QED BY <1>1, <2>2, <2>4, RepairsAssumption
<1> DEFINE ran == [driver[t].ran EXCEPT ![d] = IF runs THEN @ + 1 ELSE @]
           r == [driver[t] EXCEPT !.result = result, !.spent = job.spent, !.ran = ran]
<1>6. ran \in [Defects -> Nat] /\ job.spent \in Nat
    BY <1>1, <1>3 DEF Memories, Job
<1>7. Drive(t, r)
    BY <1>4
<1> HIDE DEF ran
<1>8. /\ r \in Memories /\ r.todo = driver[t].todo /\ r.admitted = driver[t].admitted
      /\ r.open = driver[t].open /\ r.attempts = driver[t].attempts /\ r.cycle = driver[t].cycle
    BY <1>1, <1>6 DEF Memories
<1>9. /\ r.todo \subseteq r.open /\ r.admitted \subseteq r.open /\ r.open \subseteq 1..Len(issues')
      /\ DOMAIN r.attempts = r.open /\ r.cycle < Limit(thread[t].op) /\ r.todo # {}
      /\ \A j \in r.admitted : r.attempts[j] < MaxRepairs
    BY <1>1, <1>2, <1>5, <1>8 DEF Remembered
<1> HIDE DEF r
<1>10. Len(issues) <= Len(issues') /\ Len(issues') <= MaxIssues /\ repairs' \in Nat
    BY <1>1, <1>4, <1>5, EstimateTyped
<1>11. thread[t].pc \in DRIVING /\ "charge" \in DRIVING
    BY <1>2 DEF DRIVING
<1>12. job' \in Job /\ job'.execution = job.execution /\ Elsewhere /\ Goto(t, "charge")
    BY <1>1, <1>2
<1> QED BY <1>5, <1>7, <1>8, <1>9, <1>10, <1>11, <1>12, CycleStepTyped

\* The charge is written with the whole Job.
LEMMA ChargeTyped ==
    ASSUME TInv, NEW t \in Threads, Charge(t), Noted
    PROVE  TInv'
<1>1. driver[t] \in Memories /\ Remembered(t) /\ job \in Job /\ repairs \in Nat
    BY DriverTyped
<1>2. /\ thread[t].pc = "charge" /\ Elsewhere /\ UNCHANGED <<issues, repairs>> /\ Goto(t, "record")
      /\ \/ job' = job
         \/ job' = [job EXCEPT !.spent = driver[t].spent + Estimate(First(driver[t].todo))]
      /\ Drive(t, [driver[t] EXCEPT !.spent = 0])
    BY DEF Charge, At
<1> DEFINE r == [driver[t] EXCEPT !.spent = 0]
<1>3. /\ r \in Memories /\ r.todo = driver[t].todo /\ r.admitted = driver[t].admitted
      /\ r.open = driver[t].open /\ r.attempts = driver[t].attempts /\ r.cycle = driver[t].cycle
    BY <1>1 DEF Memories
<1>4. job' \in Job /\ job'.execution = job.execution
    BY <1>1, <1>2, EstimateTyped DEF Job, Memories
<1>5. /\ r.todo \subseteq r.open /\ r.admitted \subseteq r.open /\ r.open \subseteq 1..Len(issues')
      /\ DOMAIN r.attempts = r.open /\ r.cycle < Limit(thread[t].op) /\ r.todo # {}
      /\ \A j \in r.admitted : r.attempts[j] < MaxRepairs
    BY <1>1, <1>2, <1>3, IssuesStay DEF Remembered
<1>6. Drive(t, r)
    BY <1>2
<1> HIDE DEF r
<1>7. thread[t].pc \in DRIVING /\ "record" \in DRIVING
    BY <1>2 DEF DRIVING
<1>8. repairs' \in Nat
    BY <1>1, <1>2
<1>9. /\ issues' \in Seq(Issue) /\ Len(issues) <= Len(issues') /\ Len(issues') <= MaxIssues
      /\ \A i \in 1..Len(issues') : issues'[i].attempts <= MaxRepairs
    BY <1>2, IssuesStay
<1> QED BY <1>1, <1>2, <1>3, <1>4, <1>5, <1>6, <1>7, <1>8, <1>9, CycleStepTyped

\* The first issue to do is recorded and leaves what is to do.
LEMMA RecordTyped ==
    ASSUME TInv, NEW t \in Threads, Record(t), Noted
    PROVE  TInv'
<1> DEFINE i == First(driver[t].todo)
           s == IF driver[t].result = "resolved" THEN "resolved" ELSE "open"
           pc == IF driver[t].todo = {i} THEN "review" ELSE "regenerate"
           r == [driver[t] EXCEPT !.todo = driver[t].todo \ {i}, !.result = "failed"]
<1>1. /\ driver[t] \in Memories /\ Remembered(t) /\ job \in Job /\ repairs \in Nat
      /\ issues \in Seq(Issue) /\ Ids = 1..Len(issues) /\ Len(issues) <= MaxIssues
      /\ \A j \in Ids : issues[j].attempts \in 0..MaxRepairs
    BY DriverTyped
<1>2. /\ thread[t].pc = "record" /\ Elsewhere /\ UNCHANGED <<job, repairs>> /\ Goto(t, pc)
      /\ Changed(i, s) /\ Drive(t, r)
    BY DEF Record, At
<1>3. driver[t].todo # {} /\ i \in driver[t].todo /\ i \in 1..Len(issues)
    BY <1>1, <1>2, FirstTyped DEF Remembered
<1>4. /\ r \in Memories /\ r.todo = driver[t].todo \ {i} /\ r.admitted = driver[t].admitted
      /\ r.open = driver[t].open /\ r.attempts = driver[t].attempts /\ r.cycle = driver[t].cycle
  <2>1. driver[t].todo \ {i} \in SUBSET Nat
      BY <1>1 DEF Memories
  <2> QED BY <1>1, <2>1 DEF Memories
<1>5. s \in OPEN_STATUSES \cup {"resolved", "escalated", "accepted"}
    BY DEF OPEN_STATUSES
<1>6. pc \in {"review", "regenerate"} /\ (pc = "regenerate" => driver[t].todo \ {i} # {})
    BY <1>3
<1> HIDE DEF r, i, s, pc
<1>7. /\ issues' \in Seq(Issue) /\ Len(issues') = Len(issues)
      /\ \A j \in 1..Len(issues') : issues'[j].attempts <= MaxRepairs
  <2>1. /\ issues' \in Seq(Issue) /\ Len(issues') = Len(issues)
        /\ \A j \in 1..Len(issues) : issues'[j].attempts = issues[j].attempts
      BY <1>1, <1>2, <1>3, <1>5, IssueTyped
  <2> QED BY <1>1, <2>1, RepairsAssumption
<1>8. /\ r.todo \subseteq r.open /\ r.admitted \subseteq r.open /\ r.open \subseteq 1..Len(issues')
      /\ DOMAIN r.attempts = r.open /\ r.cycle < Limit(thread[t].op)
      /\ \A j \in r.admitted : r.attempts[j] < MaxRepairs
    BY <1>1, <1>4, <1>7 DEF Remembered
<1>9. pc \in DRIVING /\ pc # "idle" /\ pc # "plan" /\ (pc \in {"regenerate", "charge", "record"} => r.todo # {})
    BY <1>4, <1>6 DEF DRIVING
<1>10. thread[t].pc \in DRIVING
    BY <1>2 DEF DRIVING
<1>11. Len(issues) <= Len(issues') /\ Len(issues') <= MaxIssues /\ repairs' \in Nat
    BY <1>1, <1>2, <1>7
<1> QED BY <1>1, <1>2, <1>4, <1>7, <1>8, <1>9, <1>10, <1>11, CycleStepTyped

\* A review adds issues up to their bound.
LEMMA ReviewTyped ==
    ASSUME TInv, NEW t \in Threads, Review(t), Noted
    PROVE  TInv'
<1>1. /\ driver[t] \in Memories /\ Remembered(t) /\ job \in Job /\ repairs \in Nat
      /\ issues \in Seq(Issue) /\ Ids = 1..Len(issues) /\ Len(issues) <= MaxIssues
      /\ \A j \in Ids : issues[j].attempts \in 0..MaxRepairs
    BY DriverTyped
<1>2. /\ thread[t].pc = "review" /\ Elsewhere /\ UNCHANGED <<job, driver, repairs>> /\ Goto(t, "carry")
      /\ Len(issues') <= MaxIssues
    BY DEF Review, At
<1>3. PICK D \in SUBSET Defects : issues' = issues \o SetToSeq({NewIssue(d) : d \in D})
  <2>1. PICK seen \in SUBSET Defects :
          issues' = issues \o SetToSeq({NewIssue(d) : d \in
                      {d \in seen : \A i \in Open : issues[i].defect = d => ~issues[i].current}})
      BY DEF Review
  <2> QED BY <2>1
<1> DEFINE N == {NewIssue(d) : d \in D}
<1>4. N \in SUBSET Issue /\ \A e \in N : e.attempts <= MaxRepairs
    BY NewIssueTyped, RepairsAssumption
<1>5. SetToSeq(N) \in Seq(N)
    BY NewIssuesTyped
<1> HIDE DEF N
<1>6. /\ issues' \in Seq(Issue) /\ Len(issues') >= Len(issues)
      /\ \A j \in 1..Len(issues') : issues'[j].attempts <= MaxRepairs
  <2>1. /\ issues' \in Seq(Issue) /\ Len(issues') = Len(issues) + Len(SetToSeq(N))
        /\ \A j \in 1..Len(issues) : issues'[j] = issues[j]
        /\ \A j \in 1..Len(issues') : j \notin 1..Len(issues) => issues'[j] \in N
    <3>1. issues' = issues \o SetToSeq(N)
        BY <1>3 DEF N
    <3> QED BY <1>1, <1>4, <1>5, <3>1, FollowedTyped
  <2>2. Len(SetToSeq(N)) \in Nat /\ Len(issues) \in Nat
      BY <1>1, <1>5
  <2> QED BY <1>1, <1>4, <2>1, <2>2, RepairsAssumption
<1>7. /\ driver[t].open \subseteq 1..Len(issues') /\ driver[t].cycle < Limit(thread[t].op)
      /\ driver[t].todo \subseteq driver[t].open /\ driver[t].admitted \subseteq driver[t].open
      /\ DOMAIN driver[t].attempts = driver[t].open
      /\ \A j \in driver[t].admitted : driver[t].attempts[j] < MaxRepairs
    BY <1>1, <1>6 DEF Remembered
<1>8. Drive(t, driver[t])
  <2>1. driver \in [Threads -> Memories]
      BY DEF TInv, Repairing
  <2> QED BY <1>2, <2>1 DEF Drive
<1> QED BY <1>1, <1>2, <1>6, <1>7, <1>8, CycleStepTyped DEF DRIVING

\* What a new issue inherits: the attempts at its defect, and one more.
Inherited(r, i) == {r.attempts[j] + 1 : j \in {k \in r.admitted : issues[k].defect = issues[i].defect}}

\* The attempts an issue inherits are some, and have a largest.
LEMMA InheritedTyped ==
    ASSUME TInv, NEW t \in Threads, NEW i \in Ids
    PROVE  LET S == Inherited(driver[t], i) \cup {issues[i].attempts}
           IN  /\ S \subseteq 0..MaxRepairs
               /\ Max(S) \in S /\ \A a \in S : a <= Max(S)
<1> DEFINE S == Inherited(driver[t], i) \cup {issues[i].attempts}
<1>1. /\ driver[t] \in Memories /\ Remembered(t) /\ issues[i].attempts \in 0..MaxRepairs
    BY DriverTyped
<1>2. \A j \in driver[t].admitted : driver[t].attempts[j] + 1 \in 0..MaxRepairs
  <2>1. driver[t].attempts \in Tries
      BY <1>1 DEF Memories
  <2>2. PICK T \in SUBSET Nat : driver[t].attempts \in [T -> 0..MaxRepairs]
      BY <2>1 DEF Tries
  <2>3. /\ driver[t].admitted \subseteq T
        /\ \A j \in driver[t].admitted : driver[t].attempts[j] < MaxRepairs
      BY <1>1, <2>2 DEF Remembered
  <2>4. \A j \in driver[t].admitted : driver[t].attempts[j] \in 0..MaxRepairs
      BY <2>2, <2>3
  <2> QED BY <2>3, <2>4, RepairsAssumption
<1>3. S \subseteq 0..MaxRepairs /\ S # {}
    BY <1>1, <1>2 DEF Inherited
<1> HIDE DEF S
<1>4. S \in SUBSET Nat /\ \A a \in S : a <= MaxRepairs
    BY <1>3, RepairsAssumption
<1>5. Max(S) \in S /\ \A a \in S : a <= Max(S)
    BY <1>3, <1>4, GreatestOf, RepairsAssumption
<1> QED BY <1>3, <1>5 DEF S

\* The issues after the attempts were carried over.
LEMMA CarriedIssues ==
    ASSUME TInv, NEW t \in Threads, Carry(t)
    PROVE  /\ issues' \in Seq(Issue) /\ Len(issues') = Len(issues)
           /\ \A i \in 1..Len(issues) :
                /\ issues'[i].attempts = IF i \in Open \ driver[t].open
                                         THEN Max(Inherited(driver[t], i) \cup {issues[i].attempts})
                                         ELSE issues[i].attempts
                /\ issues'[i].attempts \in 0..MaxRepairs
                /\ issues'[i].status = issues[i].status /\ issues'[i].defect = issues[i].defect
                /\ issues'[i].current = issues[i].current
<1>1. /\ issues \in Seq(Issue) /\ Ids = 1..Len(issues)
      /\ \A j \in Ids : issues[j] \in Issue /\ issues[j].attempts \in 0..MaxRepairs
    BY DriverTyped
<1> DEFINE n == [i \in Ids |-> IF i \in Open \ driver[t].open
                               THEN Max(Inherited(driver[t], i) \cup {issues[i].attempts})
                               ELSE issues[i].attempts]
<1>2. \A i \in Ids : n[i] \in 0..MaxRepairs
    BY <1>1, InheritedTyped
<1>3. issues' = [i \in Ids |-> [issues[i] EXCEPT !.attempts = n[i]]]
    BY DEF Carry, Inherited
<1> HIDE DEF n
<1>4. \A i \in Ids : /\ [issues[i] EXCEPT !.attempts = n[i]] \in Issue
                     /\ [issues[i] EXCEPT !.attempts = n[i]].attempts = n[i]
                     /\ [issues[i] EXCEPT !.attempts = n[i]].status = issues[i].status
                     /\ [issues[i] EXCEPT !.attempts = n[i]].defect = issues[i].defect
                     /\ [issues[i] EXCEPT !.attempts = n[i]].current = issues[i].current
    BY <1>1, <1>2, RepairsAssumption DEF Issue
<1>5. issues' \in [1..Len(issues) -> Issue] /\ Len(issues) \in Nat
    BY <1>1, <1>3, <1>4
<1>6. issues' \in Seq(Issue) /\ Len(issues') = Len(issues)
    BY <1>5, MappedSeq
<1>7. \A i \in 1..Len(issues) :
        /\ issues'[i].attempts = n[i] /\ issues'[i].attempts \in 0..MaxRepairs
        /\ issues'[i].status = issues[i].status /\ issues'[i].defect = issues[i].defect
        /\ issues'[i].current = issues[i].current
  <2> TAKE i \in 1..Len(issues)
  <2>1. i \in Ids
      BY <1>1
  <2>2. issues'[i] = [issues[i] EXCEPT !.attempts = n[i]]
      BY <1>3, <2>1
  <2> HIDE DEF n
  <2> QED BY <1>2, <1>4, <2>1, <2>2
<1> QED BY <1>1, <1>6, <1>7 DEF n

\* The attempts are carried over, and the next cycle remembers nothing.
LEMMA CarryTyped ==
    ASSUME TInv, NEW t \in Threads, Carry(t), Noted
    PROVE  TInv'
<1>1. /\ driver[t] \in Memories /\ job \in Job /\ repairs \in Nat
      /\ issues \in Seq(Issue) /\ Len(issues) <= MaxIssues
    BY DriverTyped
<1>2. thread[t].pc = "carry" /\ Elsewhere /\ UNCHANGED <<job, repairs>> /\ NextCycle(t)
    BY DEF Carry, At
<1>3. /\ issues' \in Seq(Issue) /\ Len(issues') = Len(issues)
      /\ \A i \in 1..Len(issues') : issues'[i].attempts <= MaxRepairs
  <2>1. /\ issues' \in Seq(Issue) /\ Len(issues') = Len(issues)
        /\ \A i \in 1..Len(issues) : issues'[i].attempts \in 0..MaxRepairs
      BY CarriedIssues
  <2> QED BY <2>1, RepairsAssumption
<1>4. CASE driver[t].cycle + 1 < Limit(thread[t].op)
  <2> DEFINE r == [Apart EXCEPT !.cycle = driver[t].cycle + 1, !.ran = driver[t].ran]
  <2>1. Goto(t, "plan") /\ Drive(t, r)
      BY <1>2, <1>4 DEF NextCycle
  <2>2. /\ r \in Memories /\ r.cycle = driver[t].cycle + 1 /\ r.open = {} /\ r.todo = {}
        /\ r.admitted = {} /\ DOMAIN r.attempts = {}
    <3>1. driver[t].cycle + 1 \in Nat /\ driver[t].ran \in [Defects -> Nat]
        BY <1>1 DEF Memories
    <3>2. \A c \in Nat, f \in [Defects -> Nat] :
            LET e == [Apart EXCEPT !.cycle = c, !.ran = f]
            IN  /\ e \in Memories /\ e.cycle = c /\ e.open = {} /\ e.todo = {} /\ e.admitted = {}
                /\ e.attempts = Apart.attempts
        BY ApartIsEmpty DEF Memories
    <3> QED BY <3>1, <3>2, ApartIsEmpty
  <2> HIDE DEF r
  <2>3. /\ r.todo \subseteq r.open /\ r.admitted \subseteq r.open /\ r.open \subseteq 1..Len(issues')
        /\ DOMAIN r.attempts = r.open /\ r.cycle < Limit(thread[t].op)
        /\ \A j \in r.admitted : r.attempts[j] < MaxRepairs
      BY <1>4, <2>2
  <2>4. thread[t].pc \in DRIVING /\ "plan" \in DRIVING
      BY <1>2 DEF DRIVING
  <2>5. Len(issues) <= Len(issues') /\ Len(issues') <= MaxIssues /\ repairs' \in Nat /\ job' \in Job
      BY <1>1, <1>2, <1>3
  <2> QED BY <1>2, <1>3, <2>1, <2>2, <2>3, <2>4, <2>5, CycleStepTyped
<1>5. CASE ~(driver[t].cycle + 1 < Limit(thread[t].op))
  <2>1. Done(t) /\ Drive(t, Apart)
      BY <1>2, <1>5 DEF NextCycle, Leave
  <2>2. thread[t].pc \in DRIVING
      BY <1>2 DEF DRIVING
  <2>3. Len(issues) <= Len(issues') /\ Len(issues') <= MaxIssues /\ repairs' \in Nat /\ job' \in Job
      BY <1>1, <1>2, <1>3
  <2> QED BY <1>2, <1>3, <2>1, <2>2, <2>3, ApartIsEmpty, CycleStepTyped
<1> QED BY <1>4, <1>5

-----------------------------------------------------------------------------
\* The first state is typed.
LEMMA TInvInit == Init => TInv
<1> SUFFICES ASSUME Init PROVE TInv
    OBVIOUS
<1>1. JobTypeOK
  <2>1. 0 \in 0..ProviderNodes /\ 0 \in 0..MaxOps /\ 0 \in 0..MaxCrashes
      BY CountsAssumption, ProviderNodesAssumption
  <2>2. generated \in [Executions -> 0..ProviderNodes]
      BY <2>1 DEF Init, JobInit
  <2>3. thread \in [Threads -> Doings]
      BY IdleTyped DEF Init, JobInit
  <2> QED BY <2>1, <2>2, <2>3 DEF Init, JobInit, JobTypeOK, Runs!Init, Runs!Statuses, Job, Active,
         Links, Doings
<1>2. Linked
    BY DEF Init, JobInit, Linked, Idle
<1>3. PICK D \in SUBSET Defects : issues = SetToSeq({NewIssue(d) : d \in D})
    BY DEF Init
<1>4. /\ issues \in Seq(Issue) /\ \A i \in 1..Len(issues) : issues[i].attempts <= MaxRepairs
  <2> DEFINE N == {NewIssue(d) : d \in D}
  <2>1. N \in SUBSET Issue /\ \A e \in N : e.attempts <= MaxRepairs
      BY NewIssueTyped, RepairsAssumption
  <2>2. issues \in Seq(N)
      BY <1>3, NewIssuesTyped
  <2> HIDE DEF N
  <2> QED BY <2>1, <2>2
<1>5. driver = [t \in Threads |-> Apart] /\ thread = [t \in Threads |-> Idle]
    BY DEF Init, JobInit
<1>6. \A t \in Threads : Remembered(t)
  <2>1. Idle.pc = "idle" /\ Idle.pc \notin DRIVING
      BY DEF Idle, DRIVING
  <2>2. Apart.cycle < Limit(Idle.op)
      BY ApartIsEmpty, LimitIsPositive
  <2> QED BY <1>5, <2>1, <2>2, ApartIsEmpty DEF Remembered
<1>7. Repairing
  <2>1. Len(issues) <= MaxIssues /\ repairs = 0 /\ overlap = FALSE /\ lost = 0
      BY DEF Init
  <2>2. driver \in [Threads -> Memories]
      BY <1>5, ApartIsEmpty
  <2>3. \A i \in Ids : issues[i].attempts <= MaxRepairs
      BY <1>4 DEF Ids
  <2> QED BY <1>4, <1>6, <2>1, <2>2, <2>3 DEF Repairing
<1> QED BY <1>1, <1>2, <1>7 DEF TInv

\* A restart leaves no driver.
LEMMA RestartTyped ==
    ASSUME TInv, Restart, driver' = [t \in Threads |-> Apart], UNCHANGED <<issues, repairs>>, Noted
    PROVE  TInv'
<1>1. JobTypeOK' /\ Linked'
    BY OutsideTyped DEF TInv
<1>2. thread' = [t \in Threads |-> Idle]
    BY DEF Restart
<1>3. \A t \in Threads : Remembered(t)'
  <2>1. Idle.pc = "idle" /\ Idle.pc \notin DRIVING
      BY DEF Idle, DRIVING
  <2>2. Apart.cycle < Limit(Idle.op)
      BY ApartIsEmpty, LimitIsPositive
  <2> QED BY <1>2, <2>1, <2>2, ApartIsEmpty DEF Remembered
<1>4. overlap' \in BOOLEAN /\ lost' \in Nat
    BY <1>1, NotedTyped DEF TInv, JobTypeOK
<1>5. Repairing'
    BY <1>3, <1>4, ApartIsEmpty DEF TInv, Repairing, Ids
<1> QED BY <1>1, <1>5 DEF TInv

\* Every step keeps the types.
LEMMA TInvNext == TInv /\ [Next]_vars => TInv'
<1> SUFFICES ASSUME TInv, [Next]_vars PROVE TInv'
    OBVIOUS
<1>0. JobTypeOK /\ Linked /\ Repairing
    BY DEF TInv
<1>1. CASE UNCHANGED vars
  <2>1. UNCHANGED <<execution, generated, job, thread, ops, crashes, issues, driver, repairs, overlap, lost>>
      BY <1>1 DEF vars, jobVars, engine, repairVars
  <2> QED BY <2>1 DEF TInv, JobTypeOK, Linked, Repairing, Remembered, Ids
<1>2. ASSUME NEW t \in Threads, Request(t), UNCHANGED repairVars, Noted
      PROVE  TInv'
  <2>1. JobTypeOK' /\ Linked'
      BY <1>0, <1>2, RequestTyped
  <2>2. Repairing'
      BY <1>0, <1>2, <2>1, RequestStays, OutsideRepairing DEF DRIVING
  <2> QED BY <2>1, <2>2 DEF TInv
<1>3. ASSUME NEW t \in Threads, Cycle(t), Noted
      PROVE  TInv'
    BY <1>3, PlanTyped, ApplyTyped, AppliedTyped, RegenerateTyped, ChargeTyped, RecordTyped, ReviewTyped,
       CarryTyped DEF Cycle
<1>4. ASSUME NEW t \in Threads, WaitTimesOut(t) \/ \E op \in Polls \cup Orders : Begin(t, op),
             UNCHANGED repairVars, Noted
      PROVE  TInv'
  <2>1. JobTypeOK' /\ Linked'
      BY <1>0, <1>4, OutsideTyped
  <2>2. Repairing'
      BY <1>0, <1>4, <2>1, RequestStays, OutsideRepairing DEF DRIVING
  <2> QED BY <2>1, <2>2 DEF TInv
<1>5. ASSUME Work \/ EndElsewhere, UNCHANGED repairVars, Noted
      PROVE  TInv'
  <2>1. JobTypeOK' /\ Linked'
      BY <1>0, <1>5, OutsideTyped
  <2>2. UNCHANGED thread
      BY <1>5 DEF Work, EndElsewhere
  <2>3. Repairing'
      BY <1>0, <1>5, <2>1, <2>2, OutsideRepairing
  <2> QED BY <2>1, <2>3 DEF TInv
<1>6. ASSUME NEW t \in Threads, Go(t) PROVE TInv'
    BY <1>2, <1>3, <1>6 DEF Go
<1>7. ASSUME NEW op \in Polls, Poll(op) PROVE TInv'
    BY <1>4, <1>7 DEF Poll
<1>8. CASE Worked
    BY <1>5, <1>8 DEF Worked
<1>9. CASE Chance
    BY <1>4, <1>5, <1>9, RestartTyped, RetryTyped DEF Chance
<1> QED BY <1>1, <1>6, <1>7, <1>8, <1>9 DEF Next

\* The documents, the threads and what the drivers remember always have their types: a
\* plan is about issues that exist, and a cycle never passes its limit.
THEOREM TypesHold == Spec => []TypeOK
<1>1. TInv => TypeOK
    BY TInvImpliesTypeOK
<1> QED BY <1>1, TInvInit, TInvNext, PTL DEF Spec
=============================================================================

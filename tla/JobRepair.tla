----------------------------- MODULE JobRepair -----------------------------
(***************************************************************************)
(* The repair cycles that follow a run (run_job_repair_cycles in           *)
(* scriptase/jobs/orchestration.py, scriptase/review/repair.py): the open  *)
(* ReviewIssues of the Job are planned, the node that is responsible runs  *)
(* again, Review looks at the result, and what it still finds is planned   *)
(* again, within the limits of attempts and of the budget.                 *)
(*                                                                         *)
(* A driver is a finalizer of JobRun that found the Job ended, or a retry. *)
(* Nothing keeps two of them apart.  Severity, confidence, mode and graph  *)
(* decide between escalation and acceptance: either is allowed.  A repair  *)
(* of a node that calls a provider is one generation.  What runs beside    *)
(* it, the Review and the nodes between that the cache does not answer     *)
(* for, is neither checked nor charged, and not counted here either.       *)
(***************************************************************************)
EXTENDS JobRun, SequencesExt

CONSTANTS
    Defects,      \* what can be wrong with the product
    Billed,       \* those that a node which calls a provider is responsible for
    MaxRepairs,   \* review_policy.max_repairs
    MaxIssues     \* bound: ReviewIssues of the Job

ASSUME RepairsAssumption == MaxRepairs \in Nat /\ MaxIssues \in Nat
ASSUME DefectsAssumption == IsFiniteSet(Defects) /\ Billed \subseteq Defects

VARIABLES
    issues,       \* the ReviewIssues of the Job, in the order of the plan
    driver,       \* what each thread knows of its cycle
    repairs,      \* generations of the Job by repairs
    overlap,      \* two drivers have been at work together
    lost          \* credits of the Job that were taken back

repairVars == <<issues, driver, repairs>>
vars == <<jobVars, repairVars, overlap, lost>>

OPEN_STATUSES == {"open", "repairing"}
\* An issue is about an artifact; it is current until that is generated anew.
Issue == [status : OPEN_STATUSES \cup {"resolved", "escalated", "accepted"},
          defect : Defects, current : BOOLEAN, attempts : Nat]
Ids == DOMAIN issues
Open == {i \in Ids : issues[i].status \in OPEN_STATUSES}
NewIssue(d) == [status |-> "open", defect |-> d, current |-> TRUE, attempts |-> 0]
\* estimate_repair_generations.
Estimate(i) == IF issues[i].defect \in Billed THEN 1 ELSE 0
Charges(S) == Cardinality({i \in S : issues[i].defect \in Billed})

REPAIR_CYCLE_CEILING == 10
\* One pass more than there are repairs: the one that finds them spent.
Limit(op) == IF op = "retry" THEN 1
             ELSE IF MaxRepairs + 1 < REPAIR_CYCLE_CEILING THEN MaxRepairs + 1
             ELSE REPAIR_CYCLE_CEILING

Apart == [cycle |-> 0, open |-> {}, todo |-> {}, admitted |-> {}, attempts |-> <<>>,
          spent |-> 0, result |-> "failed", ran |-> [d \in Defects |-> 0]]

\* Every variable has its type, those of the Job included.
TypeOK ==
    /\ JobTypeOK
    /\ issues \in Seq(Issue) /\ Len(issues) <= MaxIssues
    /\ repairs \in Nat
    /\ \A t \in Threads :
        LET r == driver[t]
        IN  /\ r.cycle < Limit(thread[t].op)
            /\ r.todo \subseteq r.open /\ r.admitted \subseteq r.open
            /\ r.open \subseteq Ids /\ DOMAIN r.attempts = r.open
            /\ r.spent \in Nat /\ r.result \in {"resolved", "failed"}
            /\ r.ran \in [Defects -> Nat]
    /\ overlap \in BOOLEAN /\ lost \in Nat

\* The Review node of the run finds some of the defects.
Init ==
    /\ JobInit
    /\ \E found \in SUBSET Defects : issues = SetToSeq({NewIssue(d) : d \in found})
    /\ Len(issues) <= MaxIssues
    /\ driver = [t \in Threads |-> Apart]
    /\ repairs = 0
    /\ overlap = FALSE /\ lost = 0

Drive(t, new) == driver' = [driver EXCEPT ![t] = new]
Leave(t) == Done(t) /\ Drive(t, Apart)
First(S) == CHOOSE i \in S : \A j \in S : i <= j
Elsewhere == UNCHANGED <<engine, ops, crashes>>

-----------------------------------------------------------------------------
\* retry_failed_job: one cycle for the node that failed.
Retry(t, d) ==
    /\ At(t, "idle")
    /\ job.status = "failed" /\ job.execution # NoExecution
    /\ execution[job.execution] = "failed"
    /\ ops < MaxOps /\ ops' = ops + 1
    /\ issues' = IF \E i \in Open : issues[i].defect = d THEN issues
                 ELSE Append(issues, NewIssue(d))
    /\ Len(issues') <= MaxIssues
    /\ Set(t, [Idle EXCEPT !.op = "retry", !.pc = "plan"])
    /\ UNCHANGED <<engine, job, crashes, driver, repairs>>

\* Nothing to do, or nothing that the budget allows.
PlanNothing(t) ==
    /\ At(t, "plan")
    /\ Open = {} \/ ~NextStageFits
    /\ Leave(t)
    /\ Elsewhere /\ UNCHANGED <<job, issues, repairs>>

\* plan_job_repairs decides on the Job and the issues as they are now; what it
\* decides on each issue is left to the step that applies it.
Plan(t) ==
    /\ At(t, "plan")
    /\ Open # {} /\ NextStageFits
    /\ Drive(t, [driver[t] EXCEPT !.open = Open, !.todo = Open, !.spent = job.spent,
                                  !.attempts = [i \in Open |-> issues[i].attempts]])
    /\ Goto(t, "apply")
    /\ Elsewhere /\ UNCHANGED <<job, issues, repairs>>

Changed(i, status) == issues' = [issues EXCEPT ![i].status = status]

\* Mutant: the plan does not look at the attempts.
MayRepairAgain(r, i) == TRUE

\* The attempts the issue had when the plan was made.
MayRepair(r, i) == r.attempts[i] < MaxRepairs

\* Mutant: what the plan has admitted so far is left out.
AffordableAlone(r, i) == r.spent + Estimate(i) <= Ceiling

\* The same check as for a stage, with what the plan has admitted so far.
Affordable(r, i) == r.spent + Charges(r.admitted) + Estimate(i) <= Ceiling

\* apply_repair_plan, one decision at a time: repair, accept, escalate (which stops
\* the Job, though it has ended, for a human), or refuse this and all that follow
\* because the repairs admitted so far have used up the budget.
Apply(t) ==
    LET r == driver[t]
        i == First(r.todo)
        Decided(todo, admitted) == Drive(t, [r EXCEPT !.todo = todo, !.admitted = admitted])
    IN  /\ At(t, "apply") /\ r.todo # {}
        /\ \/ /\ MayRepair(r, i) /\ Affordable(r, i)
              /\ issues' = [issues EXCEPT ![i].status = "repairing", ![i].attempts = r.attempts[i] + 1]
              /\ Decided(r.todo \ {i}, r.admitted \cup {i}) /\ UNCHANGED job
           \/ /\ MayRepair(r, i) /\ ~Affordable(r, i)
              /\ Decided({}, r.admitted) /\ UNCHANGED <<issues, job>>
           \/ /\ Changed(i, "accepted")
              /\ Decided(r.todo \ {i}, r.admitted) /\ UNCHANGED job
           \/ /\ Changed(i, "escalated")
              /\ job' = [job EXCEPT !.status = "awaiting_approval"]
              /\ Decided(r.todo \ {i}, r.admitted)
        /\ Elsewhere /\ UNCHANGED <<thread, repairs>>

Applied(t) ==
    LET r == driver[t]
    IN  /\ At(t, "apply") /\ r.todo = {}
        /\ IF r.admitted = {} THEN Leave(t)
           ELSE Goto(t, "regenerate") /\ Drive(t, [r EXCEPT !.todo = r.admitted, !.spent = 0])
        /\ Elsewhere /\ UNCHANGED <<job, issues, repairs>>

\* _run_one_repair: the execution of the node, which may not even start, and the
\* get_job of _credit_repair_generations.
Regenerate(t) ==
    LET r == driver[t]
        i == First(r.todo)
        d == issues[i].defect
    IN  /\ At(t, "regenerate")
        /\ \E result \in {"resolved", "failed"}, runs \in BOOLEAN :
            /\ result = "resolved" => runs
            /\ Drive(t, [r EXCEPT !.result = result, !.spent = job.spent,
                                  !.ran[d] = IF runs THEN @ + 1 ELSE @])
            /\ issues' = [k \in Ids |-> IF result = "resolved" /\ issues[k].defect = d
                                        THEN [issues[k] EXCEPT !.current = FALSE] ELSE issues[k]]
            /\ repairs' = IF runs THEN repairs + Estimate(i) ELSE repairs
        /\ Goto(t, "charge")
        /\ Elsewhere /\ UNCHANGED job

\* Mutant: the repair is not charged.
ChargeNothing(t) ==
    /\ At(t, "charge")
    /\ Goto(t, "record") /\ Drive(t, [driver[t] EXCEPT !.spent = 0])
    /\ Elsewhere /\ UNCHANGED <<job, issues, repairs>>

\* The update_job of _credit_repair_generations: from what was read before, and for a
\* node that calls a provider only.
Charge(t) ==
    /\ At(t, "charge")
    /\ LET i == First(driver[t].todo)
       IN  job' = IF Estimate(i) = 0 THEN job ELSE [job EXCEPT !.spent = driver[t].spent + Estimate(i)]
    /\ Goto(t, "record") /\ Drive(t, [driver[t] EXCEPT !.spent = 0])
    /\ Elsewhere /\ UNCHANGED <<issues, repairs>>

\* record_repair_attempt: a repair that failed is open again.
Record(t) ==
    LET r == driver[t]
        i == First(r.todo)
    IN  /\ At(t, "record")
        /\ Changed(i, IF r.result = "resolved" THEN "resolved" ELSE "open")
        /\ Drive(t, [r EXCEPT !.todo = @ \ {i}, !.result = "failed"])
        /\ Goto(t, IF r.todo = {i} THEN "review" ELSE "regenerate")
        /\ Elsewhere /\ UNCHANGED <<job, repairs>>

\* _rerun_review and emit_review_issues: a defect that is still there in the same
\* artifact is the issue that is open, in a new one it is a new issue.  The Review, and
\* what it needs of the nodes that a repair has made stale, runs without a check of
\* the budget, and is never charged.
Review(t) ==
    /\ At(t, "review")
    /\ \E seen \in SUBSET Defects :
        LET new == {d \in seen : \A i \in Open : issues[i].defect = d => ~issues[i].current}
        IN  issues' = issues \o SetToSeq({NewIssue(d) : d \in new})
    /\ Len(issues') <= MaxIssues
    /\ Goto(t, "carry")
    /\ Elsewhere /\ UNCHANGED <<job, driver, repairs>>

\* The next cycle, when there is one.
NextCycle(t) ==
    IF driver[t].cycle + 1 < Limit(thread[t].op)
    THEN Goto(t, "plan") /\ Drive(t, [Apart EXCEPT !.cycle = driver[t].cycle + 1, !.ran = driver[t].ran])
    ELSE Leave(t)

\* Mutant: a new issue starts from zero.
CarryNothing(t) ==
    /\ At(t, "carry")
    /\ NextCycle(t)
    /\ Elsewhere /\ UNCHANGED <<job, issues, repairs>>

\* _carry_repair_attempts: a new issue inherits the attempts at its defect.
Carry(t) ==
    LET r == driver[t]
        Floor(i) == {r.attempts[j] + 1 : j \in {k \in r.admitted : issues[k].defect = issues[i].defect}}
        Carried(i) == IF i \in Open \ r.open THEN Max(Floor(i) \cup {issues[i].attempts})
                      ELSE issues[i].attempts
    IN  /\ At(t, "carry")
        /\ issues' = [i \in Ids |-> [issues[i] EXCEPT !.attempts = Carried(i)]]
        /\ NextCycle(t)
        /\ Elsewhere /\ UNCHANGED <<job, repairs>>

-----------------------------------------------------------------------------
Cycle(t) == \/ PlanNothing(t) \/ Plan(t) \/ Apply(t) \/ Applied(t) \/ Regenerate(t)
            \/ Charge(t) \/ Record(t) \/ Review(t) \/ Carry(t)

Driving == {t \in Threads : thread[t].pc \in
              {"plan", "apply", "regenerate", "charge", "record", "review", "carry"}}
Noted == /\ overlap' = (overlap \/ Cardinality(Driving') > 1)
         /\ lost' = lost + (IF job'.spent < job.spent THEN job.spent - job'.spent ELSE 0)

\* A step of a thread that is at work, other than giving up a wait.
Go(t) == /\ (Request(t) /\ UNCHANGED repairVars) \/ Cycle(t)
         /\ Noted
Poll(op) == (\E t \in Threads : Begin(t, op)) /\ UNCHANGED repairVars /\ Noted
Worked == Work /\ UNCHANGED repairVars /\ Noted

\* What nothing makes happen; a kill ends every cycle where it is.
Chance ==
    /\ \/ /\ \/ EndElsewhere
             \/ \E t \in Threads : WaitTimesOut(t)
             \/ \E t \in Threads, op \in Orders : Begin(t, op)
          /\ UNCHANGED repairVars
       \/ Restart /\ driver' = [t \in Threads |-> Apart] /\ UNCHANGED <<issues, repairs>>
       \/ \E t \in Threads, d \in Defects : Retry(t, d)
    /\ Noted

Next == (\E t \in Threads : Go(t)) \/ (\E op \in Polls : Poll(op)) \/ Worked \/ Chance

Spec == Init /\ [][Next]_vars

\* Threads go on, workers take and end what is queued, and the Production view
\* polls the Job as long as it is open (jobs/routes.py:338).
Fairness ==
    /\ \A t \in Threads : WF_vars(Go(t))
    /\ WF_vars(Worked)
    /\ WF_vars(Poll("get"))

FairSpec == Spec /\ Fairness

-----------------------------------------------------------------------------
Started == {e \in Executions : execution[e] # "none"}

\* Reconciliation fails a Job whatever its execution has come to.
FailedByRestart == crashes > 0 /\ job.status = "failed"

\* A Job that has ended goes on only for a human: an escalation asks for one, or a
\* sync finds that the run a restart took for lost still waits for one.  No sync that
\* read the Job while it ran takes the end back (orchestration.py:703).
EndStands ==
    [][Terminal(job.status) /\ ~Terminal(job'.status) =>
        /\ job'.status \in {"awaiting_approval", "paused"}
        /\ \/ crashes > 0
           \/ \E i \in Ids : issues'[i].status = "escalated"]_vars

\* However often a defect comes back as a new issue, and whatever is decided of it in
\* between, one driver repairs it at most max_repairs times, a retry once
\* (orchestration.py:1022), unless two drivers work side by side or a restart left a
\* repair half recorded.
RepairsBounded ==
    ~overlap /\ crashes = 0 =>
      \A t \in Threads, d \in Defects :
        /\ driver[t].ran[d] <= MaxRepairs
        /\ thread[t].op = "retry" => driver[t].ran[d] <= 1

\* A repair is run only when the run of the Job, whatever that has cost, and the
\* repairs before it leave room for it below the ceiling (repair.py:864), but for the
\* credits that syncs have taken back; as long as there is one execution and one driver,
\* and no restart has lost the spending of a run.
RepairsAffordable ==
    \/ overlap \/ Cardinality(Started) > 1 \/ crashes > 0 \/ repairs = 0
    \/ \A e \in Started : generated[e] + repairs <= Ceiling + lost

\* The execution of the Job is at rest or at its end, and the Job does not say so.
Unnoticed ==
    /\ job.execution # NoExecution /\ execution[job.execution] \in Settled
    /\ job.status # DeriveJobStatus(execution[job.execution])

\* Every rest and every end of the execution of a Job reaches the Job, unless a
\* restart has failed it first.
RunIsNoticed == Unnoticed ~> (~Unnoticed \/ FailedByRestart)

\* Threads at work for an order, as a finalizer or for a retry.
Busy == {t \in Threads : thread[t].op # "none"}

\* Every order and every driver comes to an end: orders are few, so all of them do.
OrdersEnd == Busy # {} ~> Busy = {}
=============================================================================

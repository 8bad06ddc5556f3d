-------------------------- MODULE ProviderFallback --------------------------
(***************************************************************************)
(* run_manifest_job (scriptase/engine/adapters/media_job.py) and           *)
(* run_with_fallback (scriptase/providers/fallback.py) over MediaJob: the  *)
(* providers of a chain are tried in turn, the units each one brought are  *)
(* kept, and the next one is asked for the rest.  A chain of one is the    *)
(* plain path without fallback.  The request is a StoryboardRequest or an  *)
(* AnimatorRequest, which filter_request_units returns unchanged: every    *)
(* rung is asked for every unit.                                           *)
(***************************************************************************)
EXTENDS MediaJob

VARIABLES
    accumulated,  \* per unit: its state, and the rung whose answer brought it
    returned,     \* final_result is set: some rung returned
    verdict       \* what the caller of run_manifest_job gets

fallback == <<accumulated, returned, verdict>>
allVars == <<vars, fallback>>

NoUnit == [state |-> "none", from |-> NoRung]
Good == {"succeeded", "partial"}
Verdicts == Good \cup {"failed", "cancelled", "raised"}

\* Every variable has its type, those of the service included.
FallbackTypeOK ==
    /\ TypeOK
    /\ accumulated \in [Units -> [state : UnitStates, from : Rungs \cup {NoRung}]]
    /\ returned \in BOOLEAN
    /\ verdict \in Verdicts \cup {"none"}

FallbackInit ==
    /\ Init
    /\ accumulated = [u \in Units |-> NoUnit]
    /\ returned = FALSE
    /\ verdict = "none"

UnitStatesOf(acc) == [u \in Units |-> acc[u].state]
Succeeded(acc) == {u \in Units : acc[u].state = "succeeded"}

\* Mutant: what the last provider says of a unit wins.
MergeFresh(fresh) ==
    [u \in Units |-> IF fresh[u] = "none" THEN accumulated[u]
                     ELSE [state |-> fresh[u], from |-> rung]]

\* merge_prior_units: what has succeeded stays, then what is new, then the rest.
MergePriorUnits(fresh) ==
    [u \in Units |-> IF accumulated[u].state = "succeeded" \/ fresh[u] = "none"
                     THEN accumulated[u]
                     ELSE [state |-> fresh[u], from |-> rung]]

\* derive_status over the units there are: one that nobody reported counts for nothing.
DeriveStatus(acc) ==
    IF Succeeded(acc) = {} THEN "failed"
    ELSE IF InState(UnitStatesOf(acc), "failed") # {} THEN "partial" ELSE "succeeded"

Alone == Len(chain) = 1
HasMore == rung < Len(chain)
AfterKill == crashes > 0

\* The worker has its answer, and the loop over the chain looks at it.
Answered(kind) == worker.pc = "end" /\ verdict = "none" /\ outcome.kind = kind

\* The next rung starts with all that is known of the units, the failed included.
NextRung(acc) ==
    /\ rung' = rung + 1
    /\ prior' = [prior EXCEPT ![rung + 1] = UnitStatesOf(acc)]
    /\ worker' = NewWorker
    /\ expired' = FALSE
    /\ outcome' = NoOutcome
    /\ UNCHANGED <<env, provider, stop, token, jobs, live, record, push, pushes, verdict>>

Conclude(v) == verdict' = v /\ UNCHANGED vars

\* A result that leaves units open, with another provider to ask.
Advance ==
    LET acc == MergePriorUnits(outcome.units)
    IN  /\ Answered("result") /\ HasMore /\ ~AfterKill
        /\ Succeeded(acc) # Units
        /\ accumulated' = acc /\ returned' = TRUE
        /\ NextRung(acc)

\* A provider that raised: the units its error carries are kept.
AdvanceOnError ==
    LET acc == MergePriorUnits(outcome.units)
    IN  /\ Answered("error") /\ HasMore /\ ~AfterKill
        /\ accumulated' = acc /\ UNCHANGED returned
        /\ NextRung(acc)

\* Nothing is left to do, or nobody is left to ask.
Return ==
    LET acc == MergePriorUnits(outcome.units)
    IN  /\ Answered("result")
        /\ Alone \/ AfterKill \/ ~HasMore \/ Succeeded(acc) = Units
        /\ accumulated' = acc /\ returned' = TRUE
        /\ Conclude(IF Alone \/ AfterKill THEN outcome.state ELSE DeriveStatus(acc))

\* The last provider raised: so does the run, whatever the others brought.
Raise ==
    /\ Answered("error")
    /\ ~HasMore \/ AfterKill
    /\ accumulated' = MergePriorUnits(outcome.units)
    /\ Conclude("raised") /\ UNCHANGED returned

Cancel == Answered("cancelled") /\ Conclude("cancelled") /\ UNCHANGED <<accumulated, returned>>

Loop == Advance \/ AdvanceOnError \/ Return \/ Raise \/ Cancel

\* A kill ends the loop over the chain: what was accumulated is gone.
Service ==
    /\ ServiceNext
    /\ IF crashes' # crashes
       THEN accumulated' = [u \in Units |-> NoUnit] /\ returned' = FALSE
       ELSE UNCHANGED <<accumulated, returned>>
    /\ UNCHANGED verdict

Next == Service \/ Loop

Spec == FallbackInit /\ [][Next]_allVars

\* The threads of the process run; deadlines pass.
Fairness ==
    /\ WF_allVars((Run \/ Await) /\ UNCHANGED fallback)
    /\ WF_allVars(Loop)
    /\ WF_allVars(Callback /\ UNCHANGED fallback)
    /\ WF_allVars(Expire /\ UNCHANGED fallback)

FairSpec == Spec /\ Fairness

-----------------------------------------------------------------------------
Promise == INSTANCE GenerationPromise WITH got <- Succeeded(accumulated)
PromiseSpec == Promise!Spec

Running == worker.pc \notin {"submit", "register", "end", "down"}

\* A status, once terminal, is final: neither a poll nor a push applied later
\* changes it (media_jobs.py:186).  Only _timeout and the cancel callback, which
\* assign without apply_status, put their own verdict over another.
TerminalIsFinal ==
    [][\A r \in Rungs :
        Terminal(jobs[r]) /\ crashes' = crashes /\ worker.pc \notin {"register", "down"}
        => jobs'[r] = jobs[r] \/ jobs'[r].state \in {"timed_out", "cancelled"}]_allVars

\* What a job has learned of a unit stays (media_jobs.py:332), though late batches
\* and duplicate reports rewrite the manifest.  Only a timeout or a cancel may
\* forget a unit.
UnitsFinal ==
    [][\A r \in Rungs, u \in Units :
        jobs[r].units[u] # "none" /\ crashes' = crashes /\ worker.pc \notin {"register", "down"}
        => \/ jobs'[r].units[u] = jobs[r].units[u]
           \/ jobs'[r].state \in {"timed_out", "cancelled"}]_allVars

\* An answer that is a result has a unit that succeeded, and none that failed when
\* it says succeeded (media_jobs.py:432: zero produced units can never be success).
ResultIsHonest ==
    outcome.kind = "result" =>
        /\ outcome.state \in Good
        /\ InState(outcome.units, "succeeded") # {}
        /\ outcome.state = "succeeded" => InState(outcome.units, "failed") = {}

\* A direct provider that is asked alone reports success only for all the units:
\* nothing declares its manifest done early.
DirectSuccessIsComplete ==
    chain = <<"direct">> /\ verdict = "succeeded" => Succeeded(accumulated) = Units

\* The record on disk never says that a job is over while the worker still waits
\* for it: a kill at that moment must not make resume report the job as ended.
RecordNeverAhead ==
    Running /\ record.rung = rung /\ Terminal(record.status) => Terminal(jobs[rung])

\* The record ends with what the caller was told, so that a later resume tells the
\* same (media_jobs.py:227: the last JobStatus), when nobody stopped the run and
\* nothing was pushed.
RecordSettled ==
    worker.pc = "end" /\ outcome.kind = "result" /\ ~stop /\ pushes = 0 =>
        record.status = [state |-> outcome.state, units |-> outcome.units]

\* A run that nobody kills ends, however the provider behaves (media_jobs.py:10).
EveryRunEnds ==
    (verdict = "none" /\ worker.pc # "down") ~> (verdict # "none" \/ worker.pc = "down")

\* Violated: a unit that one provider failed, and that the next one reports as
\* produced, counts as produced (fallback.py:502: "partial success reuses succeeded
\* units and only re-runs the rest on the next instance").
FallbackReplacesFailed ==
    [][\A u \in Units :
        /\ worker.pc = "apply" /\ worker'.pc = "save"
        /\ prior[rung][u] = "failed" /\ worker.status.units[u] = "succeeded"
        => worker'.status.units[u] = "succeeded"]_allVars
=============================================================================

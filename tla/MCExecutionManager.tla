------------------------- MODULE MCExecutionManager -------------------------
(***************************************************************************)
(* Instances of ExecutionManager for TLC.                                  *)
(***************************************************************************)
EXTENDS ExecutionManager, TLC

CONSTANTS e1, e2, p1, p2, r1, r2

AllOps == {"start", "stop", "cancel_pending", "pause", "resume", "approve", "reject"}

OneRun   == {e1}
TwoRuns  == {e1, e2}
OneProject  == {p1}
TwoProjects == {p1, p2}
OneRequest  == {r1}
TwoRequests == {r1, r2}

AllInOne == [e \in Executions |-> p1]
\* Each run in a project of its own.
OneEach  == [e \in Executions |-> IF e = e1 THEN p1 ELSE p2]

RequestSymmetry == Permutations(Requests)
FullSymmetry == RequestSymmetry \cup Permutations(Executions)

\* Nothing reads the two signals of a handle whose worker has ended: states that
\* differ only there have the same behaviours.
Ended(h) == handle[h].pc = "idle" /\ handle[h].rec \in Terminal \cup Durable
LiveView ==
    <<doc, checkpoints,
      [h \in Handles |-> IF Ended(h) THEN [handle[h] EXCEPT !.stop = FALSE, !.pause = FALSE]
                                     ELSE handle[h]],
      issued, active, pool, projectLock, request, calls, phase, crashes>>
=============================================================================

------------------------- MODULE ExecutionLifecycle -------------------------
(***************************************************************************)
(* What the engine promises about the status of an execution document,     *)
(* whatever threads, requests and restarts produced it (contracts.md 1.5   *)
(* and 11): a run is submitted once, is admitted, may rest in one of the   *)
(* two durable pauses any number of times, and ends in a terminal status   *)
(* that nothing changes any more.  ExecutionManager implements it.         *)
(***************************************************************************)
CONSTANT Executions

VARIABLE status        \* [Executions -> Statuses]

Terminal == {"succeeded", "failed", "cancelled"}
Durable  == {"awaiting_approval", "paused"}
Statuses == {"none", "queued", "running"} \cup Durable \cup Terminal

Init == status = [e \in Executions |-> "none"]

Move(e, from, to) ==
    /\ status[e] \in from
    /\ \E s \in to : status' = [status EXCEPT ![e] = s]

Submit(e)  == Move(e, {"none"}, {"queued"})
Admit(e)   == Move(e, {"queued"}, {"running"})
Settle(e)  == Move(e, {"running"}, Terminal \cup Durable)
Withdraw(e) == Move(e, {"queued"}, {"cancelled"})
Requeue(e) == Move(e, Durable, {"queued"})
\* A checkpoint can be refused; a user pause can only be cancelled.
Refuse(e)  == Move(e, {"awaiting_approval"}, {"failed", "cancelled"})
Abandon(e) == Move(e, {"paused"}, {"cancelled"})

\* A restart fails every run it finds in flight, all of them before it serves.
Recover == /\ \E e \in Executions : status[e] \in {"queued", "running"}
           /\ status' = [e \in Executions |->
                           IF status[e] \in {"queued", "running"} THEN "failed" ELSE status[e]]

Next == \/ \E e \in Executions : \/ Submit(e) \/ Admit(e) \/ Settle(e) \/ Withdraw(e)
                                 \/ Requeue(e) \/ Refuse(e) \/ Abandon(e)
        \/ Recover

Spec == Init /\ [][Next]_status
=============================================================================

------------------------ MODULE MCWorkflowScheduler ------------------------
(***************************************************************************)
(* Small workflows for TLC, each with one of the shapes the loop treats    *)
(* specially.                                                              *)
(***************************************************************************)
EXTENDS WorkflowScheduler

Edge(m, port, n) == [from |-> m, port |-> port, to |-> n]

Plain(edges) ==
    [edges |-> edges, policy |-> [n \in Nodes |-> "stop"], tries |-> 2,
     merge |-> {}, branch |-> {}, exclusive |-> {}, disabled |-> {}, preseeded |-> {},
     expressions |-> {}, asks |-> {}, gates |-> {}, cacheable |-> Nodes, cached |-> {}]

Diamond == {Edge(1, "out", 2), Edge(1, "out", 3), Edge(2, "out", 4), Edge(3, "out", 4)}

\* Two checkpoints in a row, beside a node that may fail without harm.
Gated == [Plain(Diamond) EXCEPT !.gates = {1, 2}, !.policy[3] = "continue_error"]

\* A handled failure with its error branch, joined again by a merge.
Recovered ==
    [Plain({Edge(1, "out", 3), Edge(1, "error", 2), Edge(2, "out", 4), Edge(3, "out", 4)})
     EXCEPT !.policy[1] = "continue_error", !.merge = {4}, !.gates = {4}]

\* A conditional branch, an optional node and a disabled one.
Branched ==
    [Plain({Edge(1, "out", 2), Edge(1, "alt", 3), Edge(2, "out", 4), Edge(3, "out", 4)})
     EXCEPT !.branch = {1}, !.policy[2] = "skip_optional", !.merge = {4}, !.disabled = {3}]

\* Independent roots, one of which shares the pool with nobody and retries.
Roots3 ==
    [Plain({Edge(1, "out", 4), Edge(2, "out", 4)})
     EXCEPT !.exclusive = {3}, !.policy[3] = "retry", !.expressions = {2}, !.cached = {2}]

\* Narration supplied from outside, and an adapter that asks for an approval.
Asked ==
    [Plain(Diamond) EXCEPT !.preseeded = {1}, !.asks = {2}, !.policy[2] = "retry"]

Shapes == {Gated, Recovered, Branched, Roots3, Asked}

\* Two nodes that hold at a checkpoint at the same time.
Parallel ==
    {[Plain({Edge(1, "out", 2), Edge(1, "out", 3), Edge(3, "out", 4)}) EXCEPT !.gates = {2, 3}]}
=============================================================================

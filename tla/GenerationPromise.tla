------------------------- MODULE GenerationPromise -------------------------
(***************************************************************************)
(* What a node that generates several units is promised by                 *)
(* run_manifest_job (scriptase/engine/adapters/media_job.py), however many *)
(* providers are tried behind it: units are only gained, a kill loses what *)
(* was not delivered, there is one verdict, and a good one has a unit.     *)
(***************************************************************************)
CONSTANT Units
VARIABLES got, verdict

Good == {"succeeded", "partial"}
Verdicts == Good \cup {"failed", "cancelled", "raised"}

Init == got = {} /\ verdict = "none"

\* An attempt at a provider brings units.
Gain ==
    /\ verdict = "none"
    /\ \E new \in SUBSET Units : got' = got \cup new
    /\ UNCHANGED verdict

\* The process is killed.
Lose == verdict = "none" /\ got' = {} /\ UNCHANGED verdict

\* The last attempt, or the first that left nothing to do.
Conclude ==
    /\ verdict = "none"
    /\ \E new \in SUBSET Units : got' = got \cup new
    /\ verdict' \in Verdicts
    /\ verdict' \in Good => got' # {}

Next == Gain \/ Lose \/ Conclude
Spec == Init /\ [][Next]_<<got, verdict>>
=============================================================================

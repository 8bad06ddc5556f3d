---------------------------- MODULE MCJobRepair ----------------------------
(***************************************************************************)
(* One Job for TLC: two threads and the poller, one execution.             *)
(***************************************************************************)
EXTENDS JobRepair

CONSTANTS t1, t2, e1, d1, d2

TwoThreads == {t1, t2}
OneExecution == {e1}
OneDefect == {d1}
TwoDefects == {d1, d2}
ThreadsAlike == Permutations(Threads)
=============================================================================

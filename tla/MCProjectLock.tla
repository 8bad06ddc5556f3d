---------------------------- MODULE MCProjectLock ----------------------------
(***************************************************************************)
(* Instances of ProjectLock for TLC.                                       *)
(***************************************************************************)
EXTENDS ProjectLock

CONSTANTS p1, p2, p3, t1, t2

ThreePids == {p1, p2, p3}
TwoPids == {p1, p2}
TwoThreads == {t1, t2}
OneThread == {t1}
=============================================================================

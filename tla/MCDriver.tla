------------------------------ MODULE MCDriver ------------------------------
(***************************************************************************)
(* Instances of ThreadedDriver for TLC.  Two places for threads are enough *)
(* for an ending thread and its successor; callers are interchangeable.    *)
(***************************************************************************)
EXTENDS ThreadedDriver, TLC

ThreadSymmetry == Permutations(Threads)
=============================================================================

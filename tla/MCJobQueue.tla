----------------------------- MODULE MCJobQueue -----------------------------
(* Two consumers and two jobs of the worker's plane, small timers.         *)
EXTENDS JobQueue
=============================================================================

---------------------------- MODULE MCTempPolicy ----------------------------
(* One device that can be paused and whose access can be extended.  The     *)
(* hour of a pause is two half-minutes: long enough to start in the middle  *)
(* of a minute, and for everything to expire before MaxTime.                *)
EXTENDS TempPolicy, TLC

CONSTANTS pause, extend, h1, h2

Symmetry == Permutations(Handlers)
=============================================================================

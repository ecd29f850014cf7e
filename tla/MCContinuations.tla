-------------------------- MODULE MCContinuations --------------------------
(* Instances of Continuations for TLC.                                     *)
EXTENDS Continuations
CONSTANTS p1, p2, t1, t2
=============================================================================

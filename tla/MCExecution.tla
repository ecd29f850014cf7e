---------------------------- MODULE MCExecution ----------------------------
(* Instances of Execution for TLC.                                         *)
EXTENDS Execution, TLC
CONSTANTS c1, c2, a, b

\* Contract a is a read-only tool, contract b a destructive one.
ClassOf == a :> "read_only" @@ b :> "destructive"
=============================================================================

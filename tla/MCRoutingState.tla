--------------------------- MODULE MCRoutingState ---------------------------
(* Small instances of RoutingState for TLC. *)
EXTENDS RoutingState
CONSTANTS e1, e2, n1, n2, r1, v1, o1, a1, a2, p1
=============================================================================

------------------------- MODULE MCRoutedLifecycle -------------------------
(* Small instances of RoutedLifecycle for TLC. *)
EXTENDS RoutedLifecycle, TLC

CONSTANTS s1, s2, c1, c2, w1, w2, x1, x2

E(mode, rev) == [mode |-> mode, rev |-> rev]

\* The configuration the Manager starts with.
BootManaged == s1 :> E("Managed", 0)
BootAlways  == s1 :> E("AlwaysOn", 0)
BootNone    == s1 :> Absent
BootPair    == s1 :> E("AlwaysOn", 0) @@ s2 :> E("Managed", 0)

\* The configurations a caller of SaveServers may give.
ModeConfigs   == {s1 :> E("Managed", 0), s1 :> E("Manual", 0), s1 :> E("AlwaysOn", 0)}
EditConfigs   == {s1 :> E("Managed", 0), s1 :> E("Managed", 1), s1 :> Absent}
DeleteConfigs == {s1 :> Absent}
AddConfigs    == {s1 :> E("AlwaysOn", 0)}
AlwaysConfigs == {s1 :> E("AlwaysOn", 0), s1 :> E("AlwaysOn", 1)}
PairConfigs   == {BootPair, s1 :> E("AlwaysOn", 1) @@ s2 :> Absent,
                  s1 :> E("Manual", 0) @@ s2 :> E("Managed", 1)}

\* Callers and runtime identifiers are interchangeable.
SymX  == Permutations({x1, x2})
SymCX == Permutations({c1, c2}) \cup Permutations({x1, x2})
=============================================================================

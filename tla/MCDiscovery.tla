---------------------------- MODULE MCDiscovery ----------------------------
(* Small instances of Discovery for TLC. *)
EXTENDS Discovery

CONSTANTS Levels    \* the scores a vector index gives

Contract(m) == [meaning |-> m, readOnly |-> FALSE, destructive |-> TRUE, idempotent |-> FALSE, open |-> TRUE]
MCContracts == {Contract("old"), Contract("new")}

\* Every share and every strength is a whole number of these.
MCUnit == 2000 * FoldSet(LAMBDA t, u : u * (RRFK + t), 1, Tools)

\* The description index ranks in every way (no level is skipped); the other
\* facets, the terms and the condition may speak for tools 2 and 3.
Rankings == {s \in [Tools -> Levels] : \A t \in Tools : s[t] > 1 => \E u \in Tools : s[u] = s[t] - 1}
MCQueries ==
    {[lexical |-> [t \in Tools |-> IF t = 3 THEN m ELSE 0],
      source |-> s, schema |-> [t \in Tools |-> 0],
      enriched |-> [t \in Tools |-> IF t = 2 THEN m ELSE 0],
      nodes |-> {[members |-> {1, 2}, score |-> 0], [members |-> {2, 3}, score |-> m]},
      matched |-> [t \in Tools |-> IF t = 3 THEN m ELSE 0], terms |-> 2, condition |-> m = 1] :
        s \in Rankings, m \in {0, 1}}

Old(t) == [tool |-> t, assumption |-> Assumption(Contract("old"))]
MCRules ==
    {[id |-> 1, profile |-> Global, specificity |-> "tool_set", slot |-> "x",
      preferred |-> {Old(1)}, deprioritized |-> {Old(2)}],
     [id |-> 2, profile |-> Global, specificity |-> "tool_set", slot |-> "x",
      preferred |-> {Old(2)}, deprioritized |-> {}],
     [id |-> 3, profile |-> "p", specificity |-> "conditional_tool", slot |-> "y",
      preferred |-> {Old(3)}, deprioritized |-> {Old(1)}]}

\* The preferences at the start: none, or two rules in conflict and one of
\* the profile.
MCInit ==
    /\ Init /\ cache[1].contract = Contract("old")
    /\ \/ profiles = {} /\ \A i \in Ids : rules[i] = "none"
       \/ profiles = {"p"} /\ rules = <<"needs_review", "needs_review", "active">>

MCSpec == MCInit /\ [][Next]_vars
=============================================================================

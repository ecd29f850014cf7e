-------------------------- MODULE DiscoveryProofs --------------------------
(***************************************************************************)
(* Proofs about the Routing Preferences and the calls that read them, for  *)
(* any rules, profiles, tools, queries and number of edits.                *)
(***************************************************************************)
EXTENDS Discovery, FiniteSetTheorems, TLAPS

Fields == {"pc", "gen", "profile", "rev", "limit", "src", "avail", "profiles", "rules", "out",
           "tool", "fits", "relevant", "used"}

\* The shape of the state, as far as the arguments need it.
Shape ==
    /\ rules \in [Ids -> {"none", "active", "needs_review"}]
    /\ revision \in Nat
    /\ call = [f \in Fields |-> call[f]] /\ call.rev \in Nat

\* Unless Tracker rewound it, the revision never fell behind what a call has
\* read, and while it is the one the call read, so is everything else that the
\* call read after it.
ReadsHold ==
    rewound = FALSE =>
        /\ call.rev <= revision
        /\ call.rev = revision =>
            /\ call.pc = "done" => call.rules = EffectiveRules(call.profile)
            /\ call.pc \in {"list rules", "listed"} => call.profiles = profiles
            /\ call.pc = "listed" => call.rules = rules

IInv == Shape /\ rewound \in BOOLEAN /\ ConflictsAreReviewed /\ ReadsHold

-----------------------------------------------------------------------------
(* Facts about the operators of the model.                                 *)

(* Rule inverts the identifiers.                                           *)
LEMMA RuleOfId == ASSUME NEW i \in Ids PROVE Rule(i) \in RuleSpecs /\ Rule(i).id = i
  BY DEF Rule, Ids

\* An identifier belongs to one rule.
LEMMA RuleIs == ASSUME NEW r \in RuleSpecs PROVE r.id \in Ids /\ Rule(r.id) = r
<1>1. r.id \in Ids
  BY DEF Ids
<1> QED BY <1>1, RuleOfId, DiscoveryAssumption

(* The effective rules are a function of the stored rules.                 *)
LEMMA EffectiveRulesOf == ASSUME NEW p, rules' = rules PROVE EffectiveRules(p)' = EffectiveRules(p)
  BY DEF EffectiveRules

(* A call that starts or fails has read nothing.                           *)
LEMMA NewCallShape ==
    ASSUME NEW pc
    PROVE  /\ NewCall(pc) = [f \in Fields |-> NewCall(pc)[f]]
           /\ NewCall(pc).pc = pc /\ NewCall(pc).rev = 0
  BY DEF NewCall, Fields

(* Being free of conflicts is only lost to a rule that is stored anew.     *)
LEMMA FewerConflicts ==
    ASSUME ConflictsAreReviewed, Shape,
           \A i \in Ids : rules'[i] # "none" => rules[i] # "none",
           \A i \in Ids : rules'[i] = "active" => Conflicts(Rule(i)) = {}
    PROVE  ConflictsAreReviewed'
<1>1. ASSUME NEW i \in Ids, rules'[i] = "active" PROVE Conflicts(Rule(i))' = {}
  <2>1. Conflicts(Rule(i))' \subseteq Conflicts(Rule(i))
    BY DEF Conflicts
  <2> QED BY <1>1, <2>1
<1> QED BY <1>1 DEF ConflictsAreReviewed

(* Nothing read is lost by a step of the catalog or the Tracker, nor by an *)
(* edit, which advances the revision past what any call has read.          *)
LEMMA ReadsHoldFrame ==
    ASSUME IInv, UNCHANGED <<rules, profiles, call>>,
           rewound' = TRUE \/ (rewound' = rewound /\ revision' = revision)
    PROVE  ReadsHold'
  BY EffectiveRulesOf DEF IInv, Shape, ReadsHold

\* An edit advances the revision, so what a call has read is no longer of the current one.
LEMMA ReadsHoldAdvance ==
    ASSUME IInv, Advance, UNCHANGED <<call, rewound>>
    PROVE  ReadsHold'
<1>1. CASE rewound # FALSE
  BY <1>1 DEF ReadsHold
<1>2. CASE rewound = FALSE
  <2>1. call.rev <= revision /\ call.rev \in Nat /\ revision \in Nat
    BY <1>2 DEF IInv, ReadsHold, Shape
  <2>2. call'.rev <= revision' /\ call'.rev # revision'
    BY <2>1 DEF Advance
  <2> QED BY <2>2 DEF ReadsHold
<1> QED BY <1>1, <1>2

\* An edit keeps the shape of the state.
LEMMA ShapeAdvance ==
    ASSUME Shape, Advance, UNCHANGED <<call, rewound>>,
           rules' \in [Ids -> {"none", "active", "needs_review"}]
    PROVE  Shape'
  BY DEF Shape, Advance

-----------------------------------------------------------------------------
\* The initial rules are without conflict, and no call has read anything.
LEMMA InitIInv == Init => IInv
<1> SUFFICES ASSUME Init PROVE IInv
  OBVIOUS
<1>1. Shape
  <2>1. call = [f \in Fields |-> call[f]] /\ call.rev = 0
    BY NewCallShape DEF Init
  <2>2. rules \in [Ids -> {"none", "active", "needs_review"}] /\ revision = 0
    BY DEF Init
  <2> QED BY <2>1, <2>2 DEF Shape
<1>2. ConflictsAreReviewed
  BY DEF Init, ConflictsAreReviewed
<1>3. ReadsHold
  <2>1. call.rev = 0 /\ call.pc = "idle" /\ revision = 0
    BY NewCallShape DEF Init
  <2> QED BY <2>1 DEF ReadsHold
<1>4. rewound \in BOOLEAN
  BY DEF Init
<1> QED BY <1>1, <1>2, <1>3, <1>4 DEF IInv

-----------------------------------------------------------------------------
(* The edits.                                                              *)
LEMMA PutProfileStep ==
    ASSUME IInv, NEW p \in Profiles, PutProfile(p)
    PROVE  IInv'
<1>1. Shape' /\ ConflictsAreReviewed'
  BY DEF PutProfile, PrefFrame, Advance, IInv, Shape, ConflictsAreReviewed, Conflicts
<1> QED BY <1>1, ReadsHoldAdvance DEF PutProfile, PrefFrame, IInv

\* The rules of a profile go with it.
LEMMA DeleteProfileStep ==
    ASSUME IInv, NEW p \in Profiles, DeleteProfile(p)
    PROVE  IInv'
<1>1. \A i \in Ids : rules'[i] = "none" \/ rules'[i] = rules[i]
  BY DEF DeleteProfile
<1>2. Shape'
  BY <1>1 DEF DeleteProfile, PrefFrame, Advance, IInv, Shape
<1>3. ConflictsAreReviewed'
  BY <1>1, FewerConflicts DEF IInv, ConflictsAreReviewed
<1> QED BY <1>2, <1>3, ReadsHoldAdvance DEF DeleteProfile, PrefFrame, IInv

(* A new rule is active only without conflicts, and the rules it conflicts *)
(* with are no longer active.                                              *)
LEMMA PutRuleStep ==
    ASSUME IInv, NEW r \in RuleSpecs, PutRule(r)
    PROVE  IInv'
<1>1. r.id \in Ids /\ Rule(r.id) = r
  BY RuleIs
<1>2. Shape'
  BY DEF PutRule, PrefFrame, Advance, IInv, Shape
<1>3. \A i \in Ids \ {r.id} : /\ rules'[i] = "none" <=> rules[i] = "none"
                              /\ rules'[i] = "active" => rules[i] = "active" /\ i \notin Conflicts(r)
  BY DEF PutRule, Conflicts, IInv, Shape
<1>4. ASSUME NEW i \in Ids, rules'[i] = "active" PROVE Conflicts(Rule(i))' = {}
  <2>1. CASE i = r.id
    <3>1. Conflicts(r) = {}
      BY <1>1, <1>4, <2>1 DEF PutRule
    <3>2. Conflicts(r)' = Conflicts(r)
      BY <1>3 DEF Conflicts
    <3> QED BY <1>1, <2>1, <3>1, <3>2
  <2>2. CASE i # r.id
    <3>1. rules[i] = "active" /\ i \notin Conflicts(r) /\ Conflicts(Rule(i)) = {}
      BY <1>3, <1>4, <2>2 DEF IInv, ConflictsAreReviewed
    <3>2. ~(Rule(i).profile = r.profile /\ Rule(i).slot = r.slot)
      BY <2>2, <3>1 DEF Conflicts
    <3>3. Conflicts(Rule(i))' \subseteq Conflicts(Rule(i))
      BY <1>1, <1>3, <3>2 DEF Conflicts
    <3> QED BY <3>1, <3>3
  <2> QED BY <2>1, <2>2
<1>5. ConflictsAreReviewed'
  BY <1>4 DEF ConflictsAreReviewed
<1> QED BY <1>2, <1>5, ReadsHoldAdvance DEF PutRule, PrefFrame, IInv

\* A rule is confirmed only if no stored rule conflicts with it.
LEMMA ConfirmRuleStep ==
    ASSUME IInv, NEW r \in RuleSpecs, ConfirmRule(r)
    PROVE  IInv'
<1>1. r.id \in Ids /\ Rule(r.id) = r
  BY RuleIs
<1>2. Shape'
  <2>1. rules' \in [Ids -> {"none", "active", "needs_review"}]
    BY DEF ConfirmRule, IInv, Shape
  <2> QED BY <2>1, ShapeAdvance DEF ConfirmRule, PrefFrame, IInv
<1>3. \A i \in Ids : /\ rules'[i] # "none" => rules[i] # "none"
                     /\ rules'[i] = "active" => Conflicts(Rule(i)) = {}
  BY <1>1 DEF ConfirmRule, IInv, Shape, ConflictsAreReviewed
<1>4. ConflictsAreReviewed'
  BY <1>3, FewerConflicts DEF IInv
<1> QED BY <1>2, <1>4, ReadsHoldAdvance DEF ConfirmRule, PrefFrame, IInv

\* Fewer rules make no conflict.
LEMMA DeleteRuleStep ==
    ASSUME IInv, NEW r \in RuleSpecs, DeleteRule(r)
    PROVE  IInv'
<1>1. \A i \in Ids : rules'[i] = "none" \/ rules'[i] = rules[i]
  BY DEF DeleteRule, IInv, Shape
<1>2. Shape'
  <2>1. rules' \in [Ids -> {"none", "active", "needs_review"}]
    BY DEF DeleteRule, IInv, Shape
  <2> QED BY <2>1, ShapeAdvance DEF DeleteRule, PrefFrame, IInv
<1>3. ConflictsAreReviewed'
  BY <1>1, FewerConflicts DEF IInv, ConflictsAreReviewed
<1> QED BY <1>2, <1>3, ReadsHoldAdvance DEF DeleteRule, PrefFrame, IInv

-----------------------------------------------------------------------------
(* The calls.  A step of a call leaves the preferences alone.              *)
CallStep ==
    \/ \E l \in Limits, p \in Profiles \cup {Global} : Search(l, p)
    \/ ResolveProfile \/ ReadRevision \/ SourceTools \/ ReadAvailability \/ LoadIndexes \/ Rank
    \/ GetTool \/ MintHandle \/ GetPreferences \/ ListProfiles \/ ListRules

(* It fails or starts; reads the revision, after which it has read nothing *)
(* yet; goes on without an answer; or reads rules or profiles.             *)
LEMMA CallStepCases ==
    ASSUME IInv, CallStep
    PROVE  /\ UNCHANGED <<rules, profiles, revision, rewound>>
           /\ call' = [f \in Fields |-> call'[f]]
           /\ \/ call'.rev = 0 /\ call'.pc \notin {"done", "list rules", "listed"}
              \/ call'.rev = revision /\ call'.pc \in {"sources", "list profiles"}
              \/ call'.rev = call.rev /\ call'.pc \notin {"done", "list rules", "listed"}
              \/ /\ call'.rev = call.rev /\ call'.pc = "done"
                 /\ call'.rules = EffectiveRules(call'.profile)
              \/ call'.rev = call.rev /\ call'.pc = "list rules" /\ call'.profiles = profiles
              \/ /\ call.pc = "list rules" /\ call'.pc = "listed" /\ call'.rev = call.rev
                 /\ call'.rules = rules /\ call'.profiles = call.profiles
<1> USE DEF IInv, Shape, CallFrame, catalogVars, prefVars
<1>0. Fail => call' = [f \in Fields |-> call'[f]] /\ call'.rev = 0 /\ call'.pc = "failed"
  BY NewCallShape DEF Fail
<1>1. ASSUME NEW l \in Limits, NEW p \in Profiles \cup {Global}, Search(l, p)
      PROVE  /\ UNCHANGED <<rules, profiles, revision, rewound>>
             /\ call' = [f \in Fields |-> call'[f]]
             /\ call'.rev = 0 /\ call'.pc \notin {"done", "list rules", "listed"}
  <2> DEFINE new == NewCall("profile")
  <2>2. new = [f \in Fields |-> new[f]] /\ new.rev = 0 /\ new.pc = "profile"
    BY NewCallShape
  <2> HIDE DEF new
  <2>3. CASE ~Searchable
    BY <1>0, <1>1, <2>3 DEF Search
  <2>4. CASE Searchable
    <3>1. call' = [new EXCEPT !.gen = Len(gens), !.limit = l, !.profile = p]
      BY <1>1, <2>4 DEF Search, new
    <3>2. call' = [f \in Fields |-> call'[f]] /\ call'.rev = 0 /\ call'.pc = "profile"
      BY <2>2, <3>1 DEF Fields
    <3> QED BY <1>1, <3>2 DEF Search
  <2> QED BY <2>3, <2>4
<1>2. CASE ResolveProfile
  BY <1>0, <1>2 DEF ResolveProfile, Fields
<1>3. CASE ReadRevision
  BY <1>3 DEF ReadRevision, Fields
<1>4. CASE SourceTools
  BY <1>4 DEF SourceTools, Fields
<1>5. CASE ReadAvailability
  BY <1>5 DEF ReadAvailability, Fields
<1>6. CASE LoadIndexes
  BY <1>0, <1>6 DEF LoadIndexes, Fields
<1>7. CASE Rank
  BY <1>0, <1>7 DEF Rank, Fields
<1>8. CASE GetTool
  BY <1>0, <1>8 DEF GetTool, Fields
<1>9. CASE MintHandle
  BY <1>0, <1>9 DEF MintHandle, Fields
<1>10. CASE GetPreferences
  <2> DEFINE new == NewCall("list profiles")
  <2>1. new = [f \in Fields |-> new[f]] /\ new.pc = "list profiles"
    BY NewCallShape
  <2>2. call' = [new EXCEPT !.rev = revision] /\ UNCHANGED <<rules, profiles, revision, rewound>>
    BY <1>10 DEF GetPreferences
  <2> HIDE DEF new
  <2>3. call' = [f \in Fields |-> call'[f]] /\ call'.rev = revision /\ call'.pc = "list profiles"
    BY <2>1, <2>2 DEF Fields
  <2> QED BY <2>2, <2>3
<1>11. CASE ListProfiles
  BY <1>11 DEF ListProfiles, Fields
<1>12. CASE ListRules
  BY <1>12 DEF ListRules, Fields
<1> QED
  BY <1>1, <1>2, <1>3, <1>4, <1>5, <1>6, <1>7, <1>8, <1>9, <1>10, <1>11, <1>12 DEF CallStep

\* A call writes nothing but what it has read.
LEMMA CallStepIInv == IInv /\ CallStep => IInv'
<1> SUFFICES ASSUME IInv, CallStep PROVE IInv'
  OBVIOUS
<1>0. /\ UNCHANGED <<rules, profiles, revision, rewound>>
      /\ call' = [f \in Fields |-> call'[f]]
      /\ call'.rev \in {0, revision, call.rev}
  BY CallStepCases
<1>1. Shape' /\ rewound' \in BOOLEAN
  BY <1>0 DEF IInv, Shape
<1>2. ConflictsAreReviewed'
  BY CallStepCases DEF IInv, ConflictsAreReviewed, Conflicts
<1>3. EffectiveRules(call.profile)' = EffectiveRules(call'.profile)
  BY CallStepCases DEF EffectiveRules
<1>4. ReadsHold'
  <2> SUFFICES ASSUME rewound' = FALSE
               PROVE  /\ call'.rev <= revision'
                      /\ call'.rev = revision' =>
                          /\ call'.pc = "done" => call'.rules = EffectiveRules(call.profile)'
                          /\ call'.pc \in {"list rules", "listed"} => call'.profiles = profiles'
                          /\ call'.pc = "listed" => call'.rules = rules'
    BY DEF ReadsHold
  <2>1. call'.rev <= revision'
    <3>1. call.rev <= revision /\ revision \in Nat /\ revision' = revision
      BY <1>0 DEF IInv, Shape, ReadsHold
    <3> QED BY <1>0, <3>1
  <2>2. call'.pc = "done" => call'.rules = EffectiveRules(call.profile)'
    BY <1>3, CallStepCases
  <2>3. call'.pc = "listed" => call'.rules = rules'
    BY CallStepCases
  <2>4. call'.rev = revision' /\ call'.pc \in {"list rules", "listed"} => call'.profiles = profiles'
    BY CallStepCases DEF IInv, ReadsHold
  <2> QED BY <2>1, <2>2, <2>3, <2>4
<1> QED BY <1>1, <1>2, <1>4 DEF IInv

-----------------------------------------------------------------------------
(* The catalog and the Tracker.  Tracker writes back the revision it read: *)
(* either it is still the current one, or the revision is rewound.         *)
CatalogStep == (\E t \in Tools : Observe(t)) \/ TrackerStore \/ Publish \/ ClearIndex

\* Changes of the catalog touch no rule; a Tracker store that goes back is remembered.
LEMMA CatalogStepIInv ==
    ASSUME IInv, tracked \in Nat \cup {None}, CatalogStep
    PROVE  IInv' /\ tracked' \in Nat \cup {None}
<1> USE DEF CatalogFrame, prefVars, catalogVars, None
<1>1. UNCHANGED <<rules, profiles, call>> /\ (rewound' = TRUE \/ (rewound' = rewound /\ revision' = revision))
      /\ revision' \in Nat /\ tracked' \in Nat \cup {None}
  <2>1. ASSUME NEW t \in Tools, Observe(t)
        PROVE  UNCHANGED <<rules, profiles, call, rewound, revision>> /\ tracked' \in Nat \cup {None}
    BY <2>1 DEF Observe, IInv, Shape
  <2>2. CASE TrackerStore
    <3>1. UNCHANGED <<rules, profiles, call>> /\ revision' \in Nat /\ tracked' = None
      BY <2>2 DEF TrackerStore
    <3>2. rewound' = TRUE \/ (rewound' = rewound /\ revision' = revision)
      <4>1. rewound' = (rewound \/ tracked # revision) /\ revision' = tracked
        BY <2>2 DEF TrackerStore
      <4>2. CASE tracked # revision
        BY <4>1, <4>2, Zenon
      <4>3. CASE tracked = revision
        BY <4>1, <4>3, Zenon DEF IInv
      <4> QED BY <4>2, <4>3
    <3> QED BY <3>1, <3>2
  <2>3. CASE Publish \/ ClearIndex
    BY <2>3 DEF Publish, ClearIndex, IInv, Shape
  <2> QED BY <2>1, <2>2, <2>3 DEF CatalogStep, IInv, Shape
<1>2. Shape' /\ rewound' \in BOOLEAN
  BY <1>1 DEF IInv, Shape
<1>3. ConflictsAreReviewed'
  BY <1>1 DEF IInv, ConflictsAreReviewed, Conflicts
<1>4. ReadsHold'
  BY <1>1, ReadsHoldFrame
<1> QED BY <1>1, <1>2, <1>3, <1>4 DEF IInv

-----------------------------------------------------------------------------
Inv == IInv /\ tracked \in Nat \cup {None}

\* Every step keeps the invariant.
LEMMA NextInv == Inv /\ [Next]_vars => Inv'
<1> SUFFICES ASSUME Inv, [Next]_vars PROVE Inv'
  OBVIOUS
<1>1. ASSUME NEW p \in Profiles, PutProfile(p) \/ DeleteProfile(p)
      PROVE  Inv'
  BY <1>1, PutProfileStep, DeleteProfileStep DEF Inv, PutProfile, DeleteProfile, PrefFrame
<1>2. ASSUME NEW r \in RuleSpecs, PutRule(r) \/ ConfirmRule(r) \/ DeleteRule(r)
      PROVE  Inv'
  BY <1>2, PutRuleStep, ConfirmRuleStep, DeleteRuleStep
     DEF Inv, PutRule, ConfirmRule, DeleteRule, PrefFrame
<1>3. CASE CallStep
  <2>1. tracked' = tracked
    BY <1>3 DEF CallStep, Search, ResolveProfile, ReadRevision, SourceTools, ReadAvailability,
                LoadIndexes, Rank, GetTool, MintHandle, GetPreferences, ListProfiles, ListRules,
                CallFrame
  <2> QED BY <1>3, <2>1, CallStepIInv DEF Inv
<1>4. CASE CatalogStep
  BY <1>4, CatalogStepIInv DEF Inv
<1>5. CASE UNCHANGED vars
  <2>1. UNCHANGED <<rules, profiles, revision, tracked, rewound, call>>
    BY <1>5 DEF vars, prefVars
  <2>2. Shape' /\ ConflictsAreReviewed' /\ rewound' \in BOOLEAN
    BY <2>1 DEF Inv, IInv, Shape, ConflictsAreReviewed, Conflicts
  <2> QED BY <2>1, <2>2, ReadsHoldFrame DEF Inv, IInv
<1> QED BY <1>1, <1>2, <1>3, <1>4, <1>5 DEF Next, CallStep, CatalogStep

\* The invariant holds throughout.
LEMMA SpecInv == Spec => []Inv
<1>1. Init => Inv
  BY InitIInv DEF Inv, Init
<1> QED BY <1>1, NextInv, PTL DEF Spec

(* Equal-scope conflicts are reviewed and never decided by what was put    *)
(* last: an active rule is the only stored rule of its scope for its slot, *)
(* whatever is put, confirmed and deleted, with the rules of any profile   *)
(* (routingprefs.Store).                                                   *)
THEOREM ConflictsReviewed == Spec => []ConflictsAreReviewed
  BY SpecInv, PTL DEF Inv, IInv

(* A preference revision names the rules and profiles it was reported with,*)
(* however edits fall between the queries of search_tools and              *)
(* get_routing_preferences, unless Tracker rewound it.                     *)
THEOREM RevisionsNameRules == Spec => []RevisionNamesRules
<1>1. Inv => RevisionNamesRules
  <2> SUFFICES ASSUME Inv, ~rewound, call.rev = revision
               PROVE  /\ call.pc = "done" => call.rules = EffectiveRules(call.profile)
                      /\ call.pc = "listed" => call.rules = rules /\ call.profiles = profiles
    BY DEF RevisionNamesRules
  <2>1. rewound = FALSE
    BY Zenon DEF Inv, IInv
  <2> QED BY <2>1 DEF Inv, IInv, ReadsHold
<1> QED BY <1>1, SpecInv, PTL

-----------------------------------------------------------------------------
(* Sorting.                                                                *)

\* Of any two members of S, order has the one before the other.
Strict(S, order) ==
    /\ \A x \in S : <<x, x>> \notin order
    /\ \A x, y, z \in S : <<x, y>> \in order /\ <<y, z>> \in order => <<x, z>> \in order
    /\ \A x, y \in S : x = y \/ <<x, y>> \in order \/ <<y, x>> \in order

\* The number of members before each of them is its place.
LEMMA Places ==
    ASSUME NEW S, IsFiniteSet(S), NEW R, Strict(S, R)
    PROVE  \E f \in [1 .. Cardinality(S) -> S] :
              /\ \A i, j \in 1 .. Cardinality(S) : i < j => <<f[i], f[j]>> \in R
              /\ \A i, j \in 1 .. Cardinality(S) : i # j => f[i] # f[j]
<1> DEFINE n == Cardinality(S)
           Before(x) == {y \in S : <<y, x>> \in R}
           rank == [x \in S |-> Cardinality(Before(x)) + 1]
           f == [i \in 1 .. n |-> CHOOSE x \in S : rank[x] = i]
<1>1. n \in Nat
  BY FS_CardinalityType
<1>2. \A x, y \in S : y \in Before(x) <=> <<y, x>> \in R
  OBVIOUS
<1>2a. \A x : Before(x) \in SUBSET S
  OBVIOUS
<1>2b. \A x \in S : rank[x] = Cardinality(Before(x)) + 1
  OBVIOUS
<1>2c. rank \in [S -> {Cardinality(Before(x)) + 1 : x \in S}]
  OBVIOUS
<1> HIDE DEF Before, rank, n
<1>2d. \A x \in S : IsFiniteSet(Before(x)) /\ Cardinality(Before(x)) \in Nat
  BY <1>2a, FS_Subset, FS_CardinalityType
<1>3. \A x \in S : Cardinality(Before(x)) < n
  <2> TAKE x \in S
  <2>1. Before(x) \in SUBSET (S \ {x})
    BY <1>2, <1>2a DEF Strict
  <2>2. IsFiniteSet(S \ {x}) /\ Cardinality(S \ {x}) = n - 1
    BY FS_RemoveElement DEF n
  <2>3. Cardinality(Before(x)) <= Cardinality(S \ {x})
    BY <2>1, <2>2, FS_Subset
  <2>4. Cardinality(Before(x)) \in Nat
    BY <1>2d
  <2> QED BY <1>1, <2>2, <2>3, <2>4
<1>4. \A x, y \in S : <<x, y>> \in R => rank[x] < rank[y]
  <2> SUFFICES ASSUME NEW x \in S, NEW y \in S, <<x, y>> \in R PROVE rank[x] < rank[y]
    OBVIOUS
  <2>1. x \notin Before(x) /\ Before(x) \cup {x} \in SUBSET Before(y)
    BY <1>2, <1>2a DEF Strict
  <2>2. Cardinality(Before(x) \cup {x}) = Cardinality(Before(x)) + 1
    BY <1>2d, <2>1, FS_AddElement
  <2>3. Cardinality(Before(x) \cup {x}) <= Cardinality(Before(y))
    BY <1>2d, <2>1, FS_Subset
  <2>4. Cardinality(Before(x)) \in Nat /\ Cardinality(Before(y)) \in Nat
    BY <1>2d
  <2>5. Cardinality(Before(x)) < Cardinality(Before(y))
    BY <2>2, <2>3, <2>4
  <2>6. rank[x] = Cardinality(Before(x)) + 1 /\ rank[y] = Cardinality(Before(y)) + 1
    BY <1>2b
  <2> QED BY <2>4, <2>5, <2>6
<1>5. rank \in [S -> 1 .. n]
  <2>1. \A x \in S : rank[x] \in 1 .. n
    <3> TAKE x \in S
    <3>1. Cardinality(Before(x)) \in Nat /\ Cardinality(Before(x)) < n
      BY <1>2d, <1>3
    <3> QED BY <1>1, <1>2b, <3>1
  <2> QED BY <1>2c, <2>1
<1>6. \A x, y \in S : rank[x] = rank[y] => x = y
  <2> SUFFICES ASSUME NEW x \in S, NEW y \in S, x # y PROVE rank[x] # rank[y]
    OBVIOUS
  <2>1. rank[x] \in Nat /\ rank[y] \in Nat
    BY <1>1, <1>5
  <2>2. rank[x] < rank[y] \/ rank[y] < rank[x]
    BY <1>4 DEF Strict
  <2> QED BY <2>1, <2>2
<1>7. rank \in Surjection(S, 1 .. n)
  <2>1. rank \in Injection(S, 1 .. n)
    BY <1>5, <1>6 DEF Injection, IsInjective
  <2>2. IsFiniteSet(1 .. n) /\ Cardinality(1 .. n) = n
    BY <1>1, FS_Interval
  <2> QED BY <2>1, <2>2, FS_Injection DEF n
<1>8. \A i \in 1 .. n : \E x \in S : rank[x] = i
  BY <1>7 DEF Surjection
<1>9. f \in [1 .. n -> S] /\ \A i \in 1 .. n : rank[f[i]] = i
  BY <1>8
<1> HIDE DEF f
<1>10. \A i, j \in 1 .. n : i # j => f[i] # f[j]
  BY <1>9
<1>11. ASSUME NEW i \in 1 .. n, NEW j \in 1 .. n, i < j PROVE <<f[i], f[j]>> \in R
  <2>1. f[i] \in S /\ f[j] \in S /\ f[i] # f[j] /\ ~(rank[f[j]] < rank[f[i]])
    BY <1>1, <1>9, <1>10, <1>11
  <2> QED BY <1>4, <2>1 DEF Strict
<1> QED BY <1>9, <1>10, <1>11 DEF n

\* So a finite set can be sorted.
LEMMA SortedIs ==
    ASSUME NEW S, IsFiniteSet(S), NEW R, Strict(S, R)
    PROVE  /\ Sorted(S, R) \in [1 .. Cardinality(S) -> S] /\ Cardinality(S) \in Nat
           /\ Sorted(S, R) \in Seq(S) /\ Len(Sorted(S, R)) = Cardinality(S)
           /\ \A i, j \in 1 .. Cardinality(S) :
                 i < j => /\ <<Sorted(S, R)[i], Sorted(S, R)[j]>> \in R
                          /\ Sorted(S, R)[i] # Sorted(S, R)[j]
           /\ \A x \in S : \E i \in 1 .. Cardinality(S) : Sorted(S, R)[i] = x
<1> DEFINE n == Cardinality(S)
           s == Sorted(S, R)
<1>1. n \in Nat
  BY FS_CardinalityType
<1>2. SetToSeqs(S) = {f \in [1 .. n -> S] : \A i, j \in 1 .. n : i # j => f[i] # f[j]}
  BY DEF SetToSeqs
<1>3. \E f \in SetToSeqs(S) : \A i, j \in DOMAIN f : i < j => <<f[i], f[j]>> \in R
  <2>1. PICK f \in [1 .. n -> S] :
              /\ \A i, j \in 1 .. n : i < j => <<f[i], f[j]>> \in R
              /\ \A i, j \in 1 .. n : i # j => f[i] # f[j]
    BY Places
  <2>2. f \in SetToSeqs(S) /\ DOMAIN f = 1 .. n
    BY <1>2, <2>1
  <2> QED BY <2>1, <2>2
<1>4. s \in SetToSeqs(S) /\ \A i, j \in DOMAIN s : i < j => <<s[i], s[j]>> \in R
  BY <1>3 DEF Sorted
<1> HIDE DEF s
<1>5. s \in [1 .. n -> S] /\ \A i, j \in 1 .. n : i # j => s[i] # s[j]
  BY <1>2, <1>4
<1>6. s \in Seq(S) /\ Len(s) = n
  BY <1>1, <1>5
<1>7. s \in Surjection(1 .. n, S)
  <2>1. s \in Injection(1 .. n, S)
    BY <1>5 DEF Injection, IsInjective
  <2>2. Cardinality(1 .. n) = n
    BY <1>1, FS_Interval
  <2> QED BY <2>1, <2>2, FS_Injection
<1>8. \A x \in S : \E i \in 1 .. n : s[i] = x
  BY <1>7 DEF Surjection
<1> QED BY <1>1, <1>4, <1>5, <1>6, <1>8 DEF s

\* The first k of it, or all, are as many members of S, each before all others.
LEMMA CutIs ==
    ASSUME NEW S, IsFiniteSet(S), NEW R, Strict(S, R), NEW k \in Nat
    PROVE  LET c == Cut(Sorted(S, R), k)
           IN  /\ Len(c) = IF k < Cardinality(S) THEN k ELSE Cardinality(S)
               /\ Len(c) \in Nat /\ Cardinality(S) \in Nat /\ DOMAIN c = 1 .. Len(c)
               /\ ToSet(c) \subseteq S /\ IsFiniteSet(ToSet(c)) /\ Cardinality(ToSet(c)) = Len(c)
               /\ \A u \in ToSet(c), t \in S \ ToSet(c) : <<u, t>> \in R
               /\ \A t : Contains(c, t) <=> t \in ToSet(c)
<1> DEFINE s == Sorted(S, R)
           c == Cut(s, k)
           n == Cardinality(S)
           l == IF k < n THEN k ELSE n
<1>1. /\ s \in [1 .. n -> S] /\ n \in Nat /\ s \in Seq(S) /\ Len(s) = n
      /\ \A i, j \in 1 .. n : i < j => <<s[i], s[j]>> \in R /\ s[i] # s[j]
      /\ \A x \in S : \E i \in 1 .. n : s[i] = x
  BY SortedIs
<1> HIDE DEF s, n
<1>2. l \in Nat /\ l <= n
  BY <1>1
<1>3. c = SubSeq(s, 1, l)
  BY <1>1 DEF Cut
<1>4. c \in Seq(S) /\ Len(c) = l /\ DOMAIN c = 1 .. l /\ \A i \in 1 .. l : c[i] = s[i]
  BY <1>1, <1>2, <1>3
<1> HIDE DEF c
<1>5. ToSet(c) = {s[i] : i \in 1 .. l} /\ ToSet(c) \subseteq S
  BY <1>1, <1>2, <1>4 DEF ToSet
<1>6. IsFiniteSet(ToSet(c)) /\ Cardinality(ToSet(c)) = l
  <2>1. c \in [1 .. l -> ToSet(c)] /\ \A x \in ToSet(c) : \E i \in 1 .. l : c[i] = x
    BY <1>4 DEF ToSet
  <2>2. \A i, j \in 1 .. l : c[i] = c[j] => i = j
    <3> SUFFICES ASSUME NEW i \in 1 .. l, NEW j \in 1 .. l, i # j PROVE c[i] # c[j]
      OBVIOUS
    <3>1. i \in 1 .. n /\ j \in 1 .. n /\ (i < j \/ j < i)
      BY <1>1, <1>2
    <3>2. s[i] # s[j]
      BY <1>1, <3>1
    <3> QED BY <1>4, <3>2
  <2>3. ExistsBijection(1 .. l, ToSet(c))
    BY <2>1, <2>2 DEF ExistsBijection, Bijection, Injection, Surjection, IsInjective
  <2>4. IsFiniteSet(1 .. l) /\ Cardinality(1 .. l) = l
    BY <1>2, FS_Interval
  <2> QED BY <1>2, <2>3, <2>4, FS_Bijection
<1>7. ASSUME NEW u \in ToSet(c), NEW t \in S \ ToSet(c) PROVE <<u, t>> \in R
  <2>1. PICK i \in 1 .. l : s[i] = u
    BY <1>5, <1>7
  <2>2. PICK j \in 1 .. n : s[j] = t
    BY <1>1, <1>7
  <2>3. ~(j <= l)
    BY <1>5, <1>7, <2>2
  <2> QED BY <1>1, <1>2, <2>1, <2>2, <2>3
<1>8. \A t : Contains(c, t) <=> t \in ToSet(c)
  BY <1>4 DEF Contains, ToSet
<1> QED BY <1>1, <1>2, <1>4, <1>5, <1>6, <1>7, <1>8 DEF c, s, n

\* A finite set of numbers has a greatest one.
LEMMA MaxIs ==
    ASSUME NEW S, IsFiniteSet(S), S \subseteq Int, S # {}
    PROVE  Max(S) \in S /\ \A y \in S : y <= Max(S)
<1> DEFINE R == {p \in S \X S : p[1] > p[2]}
<1>1. \A x, y \in S : <<x, y>> \in R <=> x > y
  OBVIOUS
<1> HIDE DEF R
<1>2. Strict(S, R)
  BY <1>1 DEF Strict
<1> DEFINE s == Sorted(S, R)
           n == Cardinality(S)
<1>3. /\ s \in [1 .. n -> S] /\ n \in Nat
      /\ \A i, j \in 1 .. n : i < j => <<s[i], s[j]>> \in R
      /\ \A x \in S : \E i \in 1 .. n : s[i] = x
  BY <1>2, SortedIs
<1> HIDE DEF s, n
<1>4. 1 \in 1 .. n
  <2>1. PICK x \in S : TRUE
    OBVIOUS
  <2>2. PICK i \in 1 .. n : s[i] = x
    BY <1>3
  <2> QED BY <1>3, <2>2
<1>5. \A y \in S : s[1] >= y
  <2> TAKE y \in S
  <2>1. PICK i \in 1 .. n : s[i] = y
    BY <1>3
  <2>2. CASE i = 1
    BY <1>3, <2>1, <2>2
  <2>3. CASE i # 1
    <3>1. 1 < i
      BY <1>3, <2>3
    <3>2. <<s[1], s[i]>> \in R /\ s[1] \in S
      BY <1>3, <1>4, <3>1
    <3>3. s[1] > y
      BY <1>1, <2>1, <3>2
    <3>4. s[1] \in Int /\ y \in Int
      BY <3>2
    <3> QED BY <3>3, <3>4
  <2> QED BY <2>2, <2>3
<1>6. \E x \in S : \A y \in S : x >= y
  BY <1>3, <1>4, <1>5
<1> QED BY <1>6 DEF Max

-----------------------------------------------------------------------------
(* The orders.                                                             *)

\* The tools are the numbers up to their number.
LEMMA ToolsAre ==
    IsFiniteSet(Tools) /\ Cardinality(Tools) \in Nat /\ Tools = 1 .. Cardinality(Tools)
  BY DiscoveryAssumption, FS_CardinalityType

\* Ties are broken by the key, so the tools have one order by any score.
LEMMA ScoreOrderIs ==
    ASSUME NEW S \in SUBSET Tools, NEW score, \A t \in Tools : score[t] \in Int
    PROVE  Strict(S, ScoreOrder(score))
<1> DEFINE R == ScoreOrder(score)
<1>1. \A s \in S : s \in Int /\ score[s] \in Int
  BY ToolsAre
<1>2. \A s, t \in S : <<s, t>> \in R <=> IF score[s] = score[t] THEN s < t ELSE score[s] > score[t]
  BY DEF ScoreOrder
<1> HIDE DEF R
<1>3. ASSUME NEW x \in S, NEW y \in S, NEW z \in S, <<x, y>> \in R, <<y, z>> \in R
      PROVE  <<x, z>> \in R
  BY <1>1, <1>2, <1>3
<1>4. ASSUME NEW x \in S, NEW y \in S PROVE x = y \/ <<x, y>> \in R \/ <<y, x>> \in R
  BY <1>1, <1>2
<1>5. ASSUME NEW x \in S PROVE <<x, x>> \notin R
  BY <1>1, <1>2
<1> QED BY <1>3, <1>4, <1>5 DEF Strict, R

\* Tools with the same score in the end are ordered by what they were found with.
LEMMA ResultOrderIs ==
    ASSUME NEW S \in SUBSET Tools, NEW total, DOMAIN total = S, NEW fused,
           \A t \in S : total[t] \in Int /\ fused[t] \in Int
    PROVE  Strict(S, ResultOrder(total, fused))
<1> DEFINE R == ResultOrder(total, fused)
<1>1. \A s \in S : s \in Int /\ total[s] \in Int /\ fused[s] \in Int
  BY ToolsAre
<1>2. \A s, t \in S :
         <<s, t>> \in R <=> IF total[s] # total[t] THEN total[s] > total[t]
                            ELSE IF fused[s] # fused[t] THEN fused[s] > fused[t] ELSE s < t
  BY DEF ResultOrder
<1> HIDE DEF R
<1>3. ASSUME NEW x \in S, NEW y \in S, NEW z \in S, <<x, y>> \in R, <<y, z>> \in R
      PROVE  <<x, z>> \in R
  BY <1>1, <1>2, <1>3
<1>4. ASSUME NEW x \in S, NEW y \in S PROVE x = y \/ <<x, y>> \in R \/ <<y, x>> \in R
  BY <1>1, <1>2
<1>5. ASSUME NEW x \in S PROVE <<x, x>> \notin R
  BY <1>1, <1>2
<1> QED BY <1>3, <1>4, <1>5 DEF Strict, R

\* Rules are ordered by scope, then by specificity, then by identifier.
LEMMA RuleOrderIs == ASSUME NEW S \in SUBSET Ids PROVE Strict(S, RuleOrder)
<1> DEFINE p(i) == SpecificityPriority(Rule(i).specificity)
           own(i) == IF Rule(i).profile # Global THEN 1 ELSE 0
<1>1. \A i \in S : i \in Int /\ p(i) \in Int /\ own(i) \in Int
  <2> TAKE i \in S
  <2>1. Rule(i) \in RuleSpecs /\ Rule(i).id = i
    BY RuleOfId
  <2>2. Rule(i).specificity \in {"conditional_tool", "tool_set", "server"} /\ i \in Int
    BY <2>1, DiscoveryAssumption
  <2> QED BY <2>2 DEF SpecificityPriority
<1>2. \A i, j \in S : <<i, j>> \in RuleOrder <=>
                        IF own(i) # own(j) THEN own(i) > own(j) ELSE IF p(i) # p(j) THEN p(i) > p(j) ELSE i < j
  BY DEF RuleOrder, Precedes
<1> HIDE DEF p, own
<1>3. ASSUME NEW x \in S, NEW y \in S, NEW z \in S, <<x, y>> \in RuleOrder, <<y, z>> \in RuleOrder
      PROVE  <<x, z>> \in RuleOrder
  BY <1>1, <1>2, <1>3
<1>4. ASSUME NEW x \in S, NEW y \in S PROVE x = y \/ <<x, y>> \in RuleOrder \/ <<y, x>> \in RuleOrder
  BY <1>1, <1>2
<1>5. ASSUME NEW x \in S PROVE <<x, x>> \notin RuleOrder
  BY <1>1, <1>2
<1> QED BY <1>3, <1>4, <1>5 DEF Strict

\* A function has finitely many values on a finite set.
LEMMA FiniteImage ==
    ASSUME NEW S, IsFiniteSet(S), NEW f, DOMAIN f = S
    PROVE  IsFiniteSet({f[x] : x \in S})
<1>1. [x \in S |-> f[x]] \in Surjection(S, {f[x] : x \in S})
  BY DEF Surjection
<1> QED BY <1>1, FS_Surjection

\* The effective rules are a sequence of stored rules.
LEMMA EffectiveAre ==
    ASSUME NEW p
    PROVE  EffectiveRules(p) \in Seq(Ids)
<1> DEFINE S == {i \in Ids : rules[i] = "active" /\ Rule(i).profile \in {Global, p}}
<1>1. IsFiniteSet(Ids)
  <2> DEFINE f == [r \in RuleSpecs |-> r.id]
  <2>1. Ids = {f[r] : r \in RuleSpecs}
    BY DEF Ids
  <2>2. IsFiniteSet(RuleSpecs) /\ DOMAIN f = RuleSpecs
    BY DiscoveryAssumption
  <2> HIDE DEF f
  <2>3. IsFiniteSet({f[r] : r \in RuleSpecs})
    BY <2>2, FiniteImage
  <2> QED BY <2>1, <2>3
<1>2. S \in SUBSET Ids /\ IsFiniteSet(S)
  BY <1>1, FS_Subset
<1>3. EffectiveRules(p) = Sorted(S, RuleOrder)
  BY DEF EffectiveRules
<1> HIDE DEF S
<1>4. Sorted(S, RuleOrder) \in Seq(S)
  BY <1>2, RuleOrderIs, SortedIs
<1> QED BY <1>2, <1>3, <1>4

-----------------------------------------------------------------------------
(* The facets and what they yield.                                         *)

\* What an index returns: as many tools as it is asked for, or all it has, and
\* none that it leaves out has a better score.
LEMMA SearchIs ==
    ASSUME NEW S \in SUBSET Tools, NEW score, \A t \in Tools : score[t] \in Int, NEW depth \in Nat
    PROVE  LET c == Cut(Sorted(S, ScoreOrder(score)), depth)
           IN  /\ Len(c) = IF depth < Cardinality(S) THEN depth ELSE Cardinality(S)
               /\ Len(c) \in Nat /\ Len(c) <= Cardinality(Tools) /\ DOMAIN c = 1 .. Len(c)
               /\ ToSet(c) \subseteq S /\ IsFiniteSet(ToSet(c)) /\ Cardinality(ToSet(c)) = Len(c)
               /\ \A u \in ToSet(c), t \in S \ ToSet(c) : score[u] >= score[t]
               /\ \A t : Contains(c, t) <=> t \in ToSet(c)
<1> DEFINE R == ScoreOrder(score)
           c == Cut(Sorted(S, R), depth)
<1>1. IsFiniteSet(S) /\ Cardinality(S) <= Cardinality(Tools) /\ Cardinality(Tools) \in Nat
  BY ToolsAre, FS_Subset
<1>2. Strict(S, R)
  BY ScoreOrderIs
<1>3. \A u, t \in Tools : <<u, t>> \in R => score[u] >= score[t]
  BY DEF ScoreOrder
<1> HIDE DEF R
<1>4. /\ Len(c) = IF depth < Cardinality(S) THEN depth ELSE Cardinality(S)
      /\ Len(c) \in Nat /\ Cardinality(S) \in Nat /\ DOMAIN c = 1 .. Len(c)
      /\ ToSet(c) \subseteq S /\ IsFiniteSet(ToSet(c)) /\ Cardinality(ToSet(c)) = Len(c)
      /\ \A u \in ToSet(c), t \in S \ ToSet(c) : <<u, t>> \in R
      /\ \A t : Contains(c, t) <=> t \in ToSet(c)
  BY <1>1, <1>2, CutIs
<1> HIDE DEF c
<1>5. Len(c) <= Cardinality(Tools)
  BY <1>1, <1>4
<1>6. \A u \in ToSet(c), t \in S \ ToSet(c) : score[u] >= score[t]
  <2> SUFFICES ASSUME NEW u \in ToSet(c), NEW t \in S \ ToSet(c) PROVE score[u] >= score[t]
    OBVIOUS
  <2>1. <<u, t>> \in R /\ u \in Tools /\ t \in Tools
    BY <1>4
  <2> QED BY <1>3, <2>1
<1> QED BY <1>4, <1>5, <1>6 DEF c, R

\* A tool in a facet has a positive share of it.
LEMMA ShareIs ==
    ASSUME NEW c, NEW t, Len(c) \in Nat, Len(c) <= Cardinality(Tools)
    PROVE  Share(c, t) \in Nat /\ (Contains(c, t) => Share(c, t) > 0)
<1>1. CASE ~Contains(c, t)
  BY <1>1 DEF Share
<1>2. CASE Contains(c, t)
  <2> DEFINE k == RankIn(c, t)
  <2>1. \E i \in 1 .. Len(c) : c[i] = t
    BY <1>2 DEF Contains
  <2>2. k \in 1 .. Len(c)
    BY <2>1 DEF RankIn
  <2> HIDE DEF k
  <2>3. k \in Tools /\ k \in Nat
    BY <2>2, ToolsAre
  <2> DEFINE m == RRFK + k
  <2>4. m \in Nat \ {0} /\ Unit % m = 0 /\ Unit \in Nat \ {0}
    BY <2>3, DiscoveryAssumption
  <2> HIDE DEF m
  <2>5. Unit \div m \in Nat /\ Unit \div m > 0
    BY <2>4
  <2> QED BY <1>2, <2>5 DEF Share, m, k
<1> QED BY <1>1, <1>2

\* Every facet gives every tool a score.
LEMMA FacetsAre ==
    ASSUME NEW q \in Queries
    PROVE  /\ \A f \in 1 .. 4 : \A t \in Tools : VectorFacets(q)[f][t] \in Int
           /\ \A t \in Tools : q.lexical[t] \in Int
<1>1. \A t \in Tools : /\ q.lexical[t] \in Int /\ q.source[t] \in Int /\ q.schema[t] \in Int
                       /\ q.enriched[t] \in Int
  BY DiscoveryAssumption
<1>2. ASSUME NEW t \in Tools PROVE CapabilityScore(q)[t] \in Int
  <2> DEFINE N == {m \in q.nodes : t \in m.members}
             S == {n.score : n \in N}
  <2>0. IsFiniteSet(q.nodes) /\ (\A n \in q.nodes : n.score \in Int) /\ UNION {n.members : n \in q.nodes} = Tools
    BY DiscoveryAssumption
  <2>1. IsFiniteSet(N) /\ N # {} /\ N \subseteq q.nodes
    <3>1. N \in SUBSET q.nodes /\ N # {}
      BY <1>2, <2>0
    <3>2. IsFiniteSet(N)
      BY <2>0, <3>1, FS_Subset
    <3> QED BY <3>1, <3>2
  <2>2. S \subseteq Int /\ S # {}
    BY <2>0, <2>1
  <2>3. IsFiniteSet(S)
    <3> DEFINE g == [n \in N |-> n.score]
    <3>1. S = {g[n] : n \in N} /\ DOMAIN g = N
      OBVIOUS
    <3> HIDE DEF g, N, S
    <3>2. IsFiniteSet({g[n] : n \in N})
      BY <2>1, <3>1, FiniteImage
    <3> QED BY <3>1, <3>2
  <2>4. CapabilityScore(q)[t] = Max(S)
    BY <1>2, <2>0 DEF CapabilityScore
  <2> HIDE DEF S
  <2>5. Max(S) \in S
    BY <2>2, <2>3, MaxIs
  <2> QED BY <2>2, <2>4, <2>5
<1>3. VectorFacets(q) = <<q.source, q.schema, q.enriched, CapabilityScore(q)>>
  BY DEF VectorFacets
<1> HIDE DEF VectorFacets
<1>4. \A f \in 1 .. 4 : f = 1 \/ f = 2 \/ f = 3 \/ f = 4
  OBVIOUS
<1>5. ASSUME NEW f \in 1 .. 4, NEW t \in Tools PROVE VectorFacets(q)[f][t] \in Int
  <2>1. VectorFacets(q)[f] \in {q.source, q.schema, q.enriched, CapabilityScore(q)}
    BY <1>3, <1>4
  <2> QED BY <1>1, <1>2, <2>1
<1> QED BY <1>1, <1>5

\* A tool that some index returned has been found: it has a positive fused score
\* and evidence no worse than what that index says of it.
LEMMA FoundIs ==
    ASSUME NEW q \in Queries, NEW depth \in Nat, NEW t \in Tools
    PROVE  /\ Fused(q, depth, t) \in Nat /\ Evidence(q, depth, t) \in Int
           /\ \A f \in 1 .. 4 : Contains(VectorSearch(VectorFacets(q)[f], depth), t) =>
                 /\ Fused(q, depth, t) > 0
                 /\ Evidence(q, depth, t) >= VectorFacets(q)[f][t]
           /\ Evidence(q, depth, t) >= MinVectorSimilarity =>
                 \E f \in 1 .. 4 : VectorFacets(q)[f][t] >= MinVectorSimilarity
<1> DEFINE V(f) == VectorSearch(VectorFacets(q)[f], depth)
<1>1. \A f \in 1 .. 4 : Share(V(f), t) \in Nat /\ (Contains(V(f), t) => Share(V(f), t) > 0)
  <2> TAKE f \in 1 .. 4
  <2>1. \A u \in Tools : VectorFacets(q)[f][u] \in Int
    BY FacetsAre
  <2>2. Len(V(f)) \in Nat /\ Len(V(f)) <= Cardinality(Tools)
    BY <2>1, SearchIs DEF VectorSearch
  <2> HIDE DEF V
  <2> QED BY <2>2, ShareIs
<1>2. Share(LexicalSearch(q, depth), t) \in Nat
  <2> DEFINE S == {u \in Tools : q.lexical[u] > 0}
  <2>1. \A u \in Tools : q.lexical[u] \in Int
    BY FacetsAre
  <2>2. LexicalSearch(q, depth) = Cut(Sorted(S, ScoreOrder(q.lexical)), depth) /\ S \in SUBSET Tools
    BY DEF LexicalSearch
  <2> HIDE DEF S
  <2>3. Len(LexicalSearch(q, depth)) \in Nat /\ Len(LexicalSearch(q, depth)) <= Cardinality(Tools)
    BY <2>1, <2>2, SearchIs
  <2> QED BY <2>3, ShareIs
<1>3. Fused(q, depth, t) = Share(LexicalSearch(q, depth), t)
                           + Share(V(1), t) + Share(V(2), t) + Share(V(3), t) + Share(V(4), t)
  BY DEF Fused, VectorFacets
<1> DEFINE l == Share(LexicalSearch(q, depth), t)
           s(f) == Share(V(f), t)
<1>4. /\ l \in Nat /\ s(1) \in Nat /\ s(2) \in Nat /\ s(3) \in Nat /\ s(4) \in Nat
      /\ Fused(q, depth, t) = l + s(1) + s(2) + s(3) + s(4)
      /\ \A f \in 1 .. 4 : Contains(V(f), t) => s(f) > 0
  BY <1>1, <1>2, <1>3
<1> DEFINE found == {f \in 1 .. 4 : Contains(V(f), t)}
           score == [f \in 1 .. 4 |-> VectorFacets(q)[f][t]]
           E == {0} \cup {score[f] : f \in found}
<1>5. Evidence(q, depth, t) = Max(E)
  BY DEF Evidence
<1>6. \A f \in 1 .. 4 : score[f] \in Int /\ score[f] = VectorFacets(q)[f][t]
  BY FacetsAre
<1>7. found \subseteq 1 .. 4 /\ \A f \in 1 .. 4 : f \in found <=> Contains(V(f), t)
  OBVIOUS
<1> HIDE DEF l, s, V, found, score
<1>8. Fused(q, depth, t) \in Nat /\ \A f \in 1 .. 4 : Contains(V(f), t) => Fused(q, depth, t) > 0
  <2>1. ASSUME NEW f \in 1 .. 4, Contains(V(f), t) PROVE Fused(q, depth, t) > 0
    <3>1. f = 1 \/ f = 2 \/ f = 3 \/ f = 4
      OBVIOUS
    <3>2. s(1) > 0 \/ s(2) > 0 \/ s(3) > 0 \/ s(4) > 0
      BY <1>4, <2>1, <3>1
    <3> QED BY <1>4, <3>2
  <2> QED BY <1>4, <2>1
<1>9. Max(E) \in E /\ \A y \in E : y <= Max(E)
  <2>1. E # {} /\ E \subseteq Int
    BY <1>6, <1>7
  <2>2. IsFiniteSet(E)
    <3> DEFINE g == [f \in found |-> score[f]]
    <3>1. IsFiniteSet(found)
      <4>1. PICK n \in Nat : n = 4
        OBVIOUS
      <4>2. found \in SUBSET (1 .. n)
        BY <1>7, <4>1
      <4>3. IsFiniteSet(1 .. n)
        BY FS_Interval
      <4> QED BY <4>2, <4>3, FS_Subset
    <3>2. DOMAIN g = found /\ {g[f] : f \in found} = {score[f] : f \in found}
      OBVIOUS
    <3> HIDE DEF g
    <3>3. IsFiniteSet({score[f] : f \in found})
      BY <3>1, <3>2, FiniteImage
    <3>4. E = {score[f] : f \in found} \cup {0}
      OBVIOUS
    <3> QED BY <3>3, <3>4, FS_AddElement
  <2> HIDE DEF E
  <2> QED BY <2>1, <2>2, MaxIs
<1>10. Evidence(q, depth, t) \in Int
  <2>1. E \subseteq Int
    BY <1>6, <1>7
  <2> HIDE DEF E
  <2> QED BY <1>5, <1>9, <2>1
<1>11. ASSUME NEW f \in 1 .. 4, Contains(V(f), t)
       PROVE  Evidence(q, depth, t) >= VectorFacets(q)[f][t]
  <2>1. score[f] \in E /\ score[f] \in Int /\ score[f] = VectorFacets(q)[f][t]
    BY <1>6, <1>7, <1>11
  <2>2. score[f] <= Evidence(q, depth, t)
    BY <1>5, <1>9, <2>1
  <2> QED BY <1>10, <2>1, <2>2
<1>12. ASSUME Evidence(q, depth, t) >= MinVectorSimilarity
       PROVE  \E f \in 1 .. 4 : VectorFacets(q)[f][t] >= MinVectorSimilarity
  <2>1. MinVectorSimilarity \in Nat \ {0}
    BY DiscoveryAssumption
  <2>2. Evidence(q, depth, t) # 0
    BY <1>10, <1>12, <2>1
  <2>3. PICK f \in found : score[f] = Evidence(q, depth, t)
    BY <1>5, <1>9, <2>2
  <2>4. f \in 1 .. 4 /\ VectorFacets(q)[f][t] = Evidence(q, depth, t)
    BY <1>6, <1>7, <2>3
  <2> QED BY <1>12, <2>4
<1> QED BY <1>8, <1>10, <1>11, <1>12 DEF V

\* A preference moves a result by a whole number of units.
LEMMA AdjustmentIs ==
    ASSUME NEW effective \in Seq(Ids), NEW q, NEW t
    PROVE  Adjustment(effective, q, t) \in Int
<1> DEFINE d == Deciding(effective, q, t)
           r == Rule(CHOOSE i \in d : TRUE)
<1>1. d \subseteq Ids
  BY DEF Deciding
<1>2. CASE d = {}
  BY <1>2 DEF Adjustment
<1>3. CASE d # {}
  <2>1. r \in RuleSpecs
    <3>1. (CHOOSE i \in d : TRUE) \in Ids
      BY <1>1, <1>3
    <3> QED BY <3>1, RuleOfId
  <2>2. Adjustment(effective, q, t) = IF Names(r.preferred, t) THEN Strength(r) ELSE -Strength(r)
    BY <1>3 DEF Adjustment
  <2> HIDE DEF r
  <2> DEFINE u == Unit \div 2000
  <2>3. u \in Int
    BY DiscoveryAssumption
  <2>4. Strength(r) \in Int
    <3> DEFINE eighths == CASE r.specificity = "conditional_tool" -> 4
                            [] r.specificity = "tool_set" -> 3
                            [] r.specificity = "server" -> 2
               layer == IF r.profile # Global THEN 2 ELSE 1
    <3>1. r.specificity \in {"conditional_tool", "tool_set", "server"}
      BY <2>1, DiscoveryAssumption
    <3>2. eighths \in {2, 3, 4} /\ layer \in {1, 2}
      BY <3>1
    <3>3. Strength(r) = layer * eighths * 3 * u
      BY DEF Strength
    <3> HIDE DEF u, eighths, layer
    <3> QED BY <2>3, <3>2, <3>3
  <2> QED BY <2>2, <2>4
<1> QED BY <1>2, <1>3

-----------------------------------------------------------------------------
(* What a search answers.                                                  *)

\* The indexes are asked for all tools, or for as many as can be unavailable
\* besides those to be returned.
LEMMA DepthIs ==
    ASSUME NEW limit \in Nat \ {0}, NEW u \in Nat, NEW n \in Nat
    PROVE  /\ Depth(limit, u, n) \in Nat /\ Depth(limit, u, n) <= n
           /\ Depth(limit, u, n) < n => Depth(limit, u, n) >= limit + u
           /\ n > 0 => Depth(limit, u, n) \in 1 .. n
<1>1. CandidateDepth \in Nat \ {0}
  BY DiscoveryAssumption
<1> QED BY <1>1 DEF Depth

\* A part of a finite set that k members are missing from has the rest.
LEMMA RestIs ==
    ASSUME NEW S, IsFiniteSet(S), NEW T, IsFiniteSet(T), NEW U, U \subseteq T,
           S \subseteq T
    PROVE  Cardinality(S) <= Cardinality(S \cap U) + Cardinality(T \ U)
<1>1. IsFiniteSet(S \cap U) /\ IsFiniteSet(S \ U) /\ IsFiniteSet(T \ U)
  BY FS_Subset
<1>2. Cardinality(S \ U) <= Cardinality(T \ U)
  <2>1. S \ U \in SUBSET (T \ U)
    OBVIOUS
  <2> QED BY <1>1, <2>1, FS_Subset
<1>3. S = (S \cap U) \cup (S \ U) /\ (S \cap U) \cap (S \ U) = {}
  OBVIOUS
<1>4. Cardinality(S) = Cardinality(S \cap U) + Cardinality(S \ U)
  <2> DEFINE A == S \cap U
             B == S \ U
  <2>1. IsFiniteSet(A) /\ IsFiniteSet(B) /\ S = A \cup B /\ A \cap B = {}
    BY <1>1, <1>3
  <2> HIDE DEF A, B
  <2>2. Cardinality(A \cup B) = Cardinality(A) + Cardinality(B) - Cardinality(A \cap B)
    BY <2>1, FS_Union
  <2>3. Cardinality(A \cap B) = 0
    BY <2>1, FS_EmptySet
  <2>4. Cardinality(A) \in Nat /\ Cardinality(B) \in Nat
    BY <2>1, FS_CardinalityType
  <2>5. Cardinality(S) = Cardinality(A) + Cardinality(B)
    BY <2>1, <2>2, <2>3, <2>4
  <2> QED BY <2>5 DEF A, B
<1>5. Cardinality(S \cap U) \in Nat /\ Cardinality(S \ U) \in Nat /\ Cardinality(T \ U) \in Nat
  BY <1>1, FS_CardinalityType
<1> QED BY <1>2, <1>4, <1>5

\* The tools that are ranked for a query: available, found by some index, and
\* similar enough or with enough of its terms.
Ranked(q, limit, avail) ==
    LET available == {t \in Tools : avail[t]}
        got == Retrieved[q][Depth(limit, Cardinality(Tools \ available), Cardinality(Tools))]
    IN  {t \in available : /\ got.fused[t] > 0
                           /\ got.evidence[t] >= MinVectorSimilarity \/ Covered(q, t)}

\* In terms of what each tool was found with.
LEMMA RankedIs ==
    ASSUME NEW q \in Queries, NEW limit \in Nat \ {0}, NEW avail, NEW t \in Tools
    PROVE  LET U == {s \in Tools : avail[s]}
               depth == Depth(limit, Cardinality(Tools \ U), Cardinality(Tools))
               got == Retrieved[q][depth]
           IN  /\ depth \in Nat /\ Cardinality(Tools \ U) \in Nat
               /\ got.fused[t] = Fused(q, depth, t) /\ got.fused[t] \in Nat
               /\ t \in Ranked(q, limit, avail) <=>
                     /\ t \in U /\ Fused(q, depth, t) > 0
                     /\ Evidence(q, depth, t) >= MinVectorSimilarity \/ Covered(q, t)
<1> DEFINE U == {s \in Tools : avail[s]}
           u == Cardinality(Tools \ U)
           n == Cardinality(Tools)
           depth == Depth(limit, u, n)
           got == Retrieved[q][depth]
<1>1. n \in Nat /\ n > 0 /\ Tools = 1 .. n /\ IsFiniteSet(Tools)
  BY ToolsAre
<1>2. u \in Nat
  BY <1>1, FS_Subset, FS_CardinalityType
<1>3. depth \in Tools /\ depth \in Nat
  <2> HIDE DEF u, n
  <2> QED BY <1>1, <1>2, DepthIs
<1>4. t \in Ranked(q, limit, avail) <=>
            /\ t \in U /\ got.fused[t] > 0
            /\ got.evidence[t] >= MinVectorSimilarity \/ Covered(q, t)
  BY DEF Ranked
<1> HIDE DEF U, u, n, depth
<1>5. got.fused[t] = Fused(q, depth, t) /\ got.evidence[t] = Evidence(q, depth, t)
  BY <1>3 DEF Retrieved
<1>6. Fused(q, depth, t) \in Nat
  BY <1>3, FoundIs
<1> HIDE DEF got
<1> QED BY <1>2, <1>3, <1>4, <1>5, <1>6 DEF U, u, n, depth, got

\* A tool that is available and fits is ranked, unless as many as asked for are.
LEMMA FitIsRanked ==
    ASSUME NEW q \in Queries, NEW limit \in Nat \ {0}, NEW avail,
           NEW t \in Tools, avail[t], t \in Fits[q], t \notin Ranked(q, limit, avail)
    PROVE  Cardinality(Ranked(q, limit, avail)) >= limit
<1> DEFINE U == {s \in Tools : avail[s]}
           C == Ranked(q, limit, avail)
           u == Cardinality(Tools \ U)
           n == Cardinality(Tools)
           depth == Depth(limit, u, n)
<1>1. \A s \in Tools : s \in C <=> /\ s \in U /\ Fused(q, depth, s) > 0
                                   /\ Evidence(q, depth, s) >= MinVectorSimilarity \/ Covered(q, s)
  BY RankedIs
<1>2. depth \in Nat /\ u \in Nat /\ n \in Nat /\ IsFiniteSet(Tools) /\ U \subseteq Tools /\ t \in U
  BY RankedIs, ToolsAre
<1>3. C \subseteq Tools
  BY DEF Ranked
<1>4. \A s \in Tools : avail[s] <=> s \in U
  OBVIOUS
<1>5. Cardinality(Tools \ U) = u /\ Cardinality(Tools) = n /\ depth = Depth(limit, u, n)
  OBVIOUS
<1> HIDE DEF C, U, u, n, depth
<1>6. PICK f \in 1 .. 4 : VectorFacets(q)[f][t] >= MinVectorSimilarity
  BY DEF Fits
<1> DEFINE score == VectorFacets(q)[f]
           found == VectorSearch(score, depth)
           top == ToSet(found)
<1>7. \A s \in Tools : score[s] \in Int
  BY FacetsAre
<1>8. ASSUME NEW s \in Tools, s \in U, Contains(found, s), score[s] >= MinVectorSimilarity
      PROVE  s \in C
  <2>1. Fused(q, depth, s) > 0 /\ Evidence(q, depth, s) >= score[s] /\ Evidence(q, depth, s) \in Int
    BY <1>2, <1>8, FoundIs
  <2>2. MinVectorSimilarity \in Int /\ score[s] \in Int
    BY <1>7, DiscoveryAssumption
  <2> HIDE DEF score
  <2>3. Evidence(q, depth, s) >= MinVectorSimilarity
    BY <1>8, <2>1, <2>2
  <2> QED BY <1>1, <1>8, <2>1, <2>3
<1>9. /\ Len(found) = IF depth < n THEN depth ELSE n
      /\ top \subseteq Tools /\ IsFiniteSet(top) /\ Cardinality(top) = Len(found)
      /\ \A s \in top, r \in Tools \ top : score[s] >= score[r]
      /\ \A s : Contains(found, s) <=> s \in top
  <2> DEFINE c == Cut(Sorted(Tools, ScoreOrder(score)), depth)
  <2>1. Tools \in SUBSET Tools /\ found = c
    BY DEF VectorSearch
  <2> HIDE DEF score
  <2>2. /\ Len(c) = IF depth < Cardinality(Tools) THEN depth ELSE Cardinality(Tools)
        /\ ToSet(c) \subseteq Tools /\ IsFiniteSet(ToSet(c)) /\ Cardinality(ToSet(c)) = Len(c)
        /\ \A s \in ToSet(c), r \in Tools \ ToSet(c) : score[s] >= score[r]
        /\ \A s : Contains(c, s) <=> s \in ToSet(c)
    BY <1>2, <1>7, <2>1, SearchIs
  <2> HIDE DEF found, c
  <2> QED BY <1>5, <2>1, <2>2
<1> HIDE DEF score, found, top
<1>10. score[t] >= MinVectorSimilarity
  BY <1>6 DEF score
<1>11. t \notin top
  BY <1>2, <1>8, <1>9, <1>10 DEF C
<1>12. Cardinality(top) < n
  <2>1. top \in SUBSET (Tools \ {t})
    BY <1>9, <1>11
  <2>2. IsFiniteSet(Tools \ {t}) /\ Cardinality(Tools \ {t}) = n - 1
    BY <1>2, <1>5, FS_RemoveElement
  <2>3. Cardinality(top) <= n - 1
    BY <2>1, <2>2, FS_Subset
  <2>4. Cardinality(top) \in Nat
    BY <1>9, FS_CardinalityType
  <2> QED BY <1>2, <2>3, <2>4
<1>13. Cardinality(top) >= limit + u /\ Cardinality(top) \in Nat
  <2>1. depth < n => depth >= limit + u
    BY <1>2, <1>5, DepthIs
  <2>2. Cardinality(top) = IF depth < n THEN depth ELSE n
    BY <1>9
  <2> QED BY <1>2, <1>12, <2>1, <2>2
<1>14. top \cap U \subseteq C
  <2> SUFFICES ASSUME NEW s \in top \cap U PROVE s \in C
    OBVIOUS
  <2>1. s \in Tools /\ score[s] >= score[t] /\ score[s] \in Int /\ score[t] \in Int
    BY <1>2, <1>7, <1>9, <1>11
  <2>2. MinVectorSimilarity \in Int
    BY DiscoveryAssumption
  <2>3. score[s] >= MinVectorSimilarity
    BY <1>10, <2>1, <2>2
  <2> QED BY <1>8, <1>9, <2>1, <2>3
<1>15. Cardinality(top) <= Cardinality(top \cap U) + u
  BY <1>2, <1>5, <1>9, RestIs
<1>16. Cardinality(top \cap U) <= Cardinality(C)
  <2>1. IsFiniteSet(C)
    BY <1>2, <1>3, FS_Subset
  <2>2. top \cap U \in SUBSET C
    BY <1>14
  <2> QED BY <2>1, <2>2, FS_Subset
<1>17. Cardinality(C) \in Nat /\ Cardinality(top \cap U) \in Nat
  <2>1. IsFiniteSet(C) /\ IsFiniteSet(top \cap U)
    <3>1. top \cap U \in SUBSET Tools /\ C \in SUBSET Tools
      BY <1>2, <1>3
    <3> QED BY <1>2, <3>1, FS_Subset
  <2> QED BY <2>1, FS_CardinalityType
<1>18. Cardinality(C) >= limit
  BY <1>2, <1>13, <1>15, <1>16, <1>17
<1> QED BY <1>18 DEF C

\* What a search answers.
LEMMA ResultsAre ==
    ASSUME NEW q \in Queries, NEW limit \in Nat \ {0}, NEW avail, NEW effective \in Seq(Ids)
    PROVE  LET out == Results(q, limit, avail, effective)
               U == {t \in Tools : avail[t]}
           IN  /\ ToSet(out) \subseteq {t \in U : t \in Fits[q] \/ Covered(q, t)}
               /\ Len(out) = Cardinality(ToSet(out)) /\ Len(out) <= limit
               /\ Len(out) < limit => U \cap Fits[q] \subseteq ToSet(out)
<1> DEFINE out == Results(q, limit, avail, effective)
           U == {t \in Tools : avail[t]}
           depth == Depth(limit, Cardinality(Tools \ U), Cardinality(Tools))
           got == Retrieved[q][depth]
           C == Ranked(q, limit, avail)
           total == [t \in C |-> got.fused[t] + Adjustment(effective, q, t)]
           R == ResultOrder(total, got.fused)
<1>1. out = Cut(Sorted(C, R), limit)
  BY DEF Results, Ranked
<1>2. C \in SUBSET Tools /\ IsFiniteSet(C) /\ C \subseteq U
  <2>1. C \in SUBSET Tools /\ C \subseteq U
    BY DEF Ranked
  <2> HIDE DEF C
  <2> QED BY <2>1, ToolsAre, FS_Subset
<1>3. \A t \in C : total[t] \in Int /\ got.fused[t] \in Int
  <2> TAKE t \in C
  <2>1. got.fused[t] \in Nat
    <3> DEFINE D == Depth(limit, Cardinality(Tools \ {s \in Tools : avail[s]}), Cardinality(Tools))
    <3>1. t \in Tools
      BY <1>2
    <3> HIDE DEF C
    <3>2. D \in Nat /\ Retrieved[q][D].fused[t] = Fused(q, D, t)
      BY <3>1, RankedIs
    <3>3. got.fused[t] = Fused(q, depth, t) /\ depth = D
      BY <3>2, Zenon
    <3> HIDE DEF D
    <3> QED BY <3>1, <3>2, <3>3, FoundIs
  <2>2. Adjustment(effective, q, t) \in Int
    BY AdjustmentIs
  <2> HIDE DEF C, got
  <2> QED BY <2>1, <2>2
<1>4. Strict(C, R)
  <2>1. DOMAIN total = C
    OBVIOUS
  <2> HIDE DEF C, got, total
  <2> QED BY <1>2, <1>3, <2>1, ResultOrderIs
<1>5. \A t \in C : t \in Tools /\ t \in U /\ (t \in Fits[q] \/ Covered(q, t))
  <2> TAKE t \in C
  <2>1. t \in Tools /\ t \in U
    BY <1>2
  <2>2. (Evidence(q, depth, t) >= MinVectorSimilarity \/ Covered(q, t)) /\ depth \in Nat
    BY <2>1, RankedIs
  <2>3. ASSUME Evidence(q, depth, t) >= MinVectorSimilarity PROVE t \in Fits[q]
    <3>1. \E f \in 1 .. 4 : VectorFacets(q)[f][t] >= MinVectorSimilarity
      BY <2>1, <2>2, <2>3, FoundIs
    <3> QED BY <2>1, <3>1 DEF Fits
  <2> QED BY <2>1, <2>2, <2>3
<1>6. \A t \in U \cap Fits[q] : t \in C \/ Cardinality(C) >= limit
  BY FitIsRanked
<1> HIDE DEF C, R, out
<1>7. /\ Len(out) = IF limit < Cardinality(C) THEN limit ELSE Cardinality(C)
      /\ Len(out) \in Nat /\ Cardinality(C) \in Nat
      /\ ToSet(out) \subseteq C /\ IsFiniteSet(ToSet(out)) /\ Cardinality(ToSet(out)) = Len(out)
  BY <1>1, <1>2, <1>4, CutIs
<1>8. ToSet(out) \subseteq {t \in U : t \in Fits[q] \/ Covered(q, t)}
  BY <1>5, <1>7
<1>9. Len(out) <= limit
  BY <1>7
<1>10. ASSUME Len(out) < limit PROVE U \cap Fits[q] \subseteq ToSet(out)
  <2>1. Len(out) = Cardinality(C) /\ Cardinality(C) < limit
    BY <1>7, <1>10
  <2>2. ToSet(out) = C
    <3>1. ToSet(out) \in SUBSET C
      BY <1>7
    <3> QED BY <1>2, <1>7, <2>1, <3>1, FS_Subset
  <2>3. ~(Cardinality(C) >= limit)
    BY <1>7, <2>1
  <2> QED BY <1>6, <2>2, <2>3
<1> QED BY <1>7, <1>8, <1>9, <1>10 DEF out

-----------------------------------------------------------------------------
(* A search keeps the limit it was asked for until it ranks.               *)
Searching == {"profile", "revision", "sources", "avail", "load", "rules"}

SearchInv ==
    /\ call = [f \in Fields |-> call[f]]
    /\ call.pc \in Searching => call.limit \in Nat \ {0}
    /\ NothingRelevantMissed

\* A call that fails is no longer a search and has no answer.
LEMMA FailKeepsSearchInv == Fail => SearchInv'
<1> SUFFICES ASSUME Fail PROVE SearchInv'
  OBVIOUS
<1>1. call' = [f \in Fields |-> call'[f]] /\ call'.pc = "failed"
  BY NewCallShape DEF Fail
<1> QED BY <1>1 DEF SearchInv, Searching, NothingRelevantMissed

\* Nothing is missed by the search that ranks.
LEMMA RankKeepsSearchInv == ASSUME SearchInv, Rank PROVE SearchInv'
<1>1. CASE Fail
  BY <1>1, FailKeepsSearchInv
<1>2. CASE ~Fail
  <2> DEFINE effective == EffectiveRules(call.profile)
             U == {t \in Tools : call.avail[t]}
             out(q) == Results(q, call.limit, call.avail, effective)
  <2>1. PICK q \in Queries :
          call' = [call EXCEPT !.pc = "done", !.rules = effective, !.out = out(q), !.avail = <<>>,
                      !.fits = U \cap Fits[q],
                      !.relevant = {t \in U : t \in Fits[q] \/ Covered(q, t)},
                      !.used = UNION {Deciding(effective, q, t) : t \in ToSet(out(q))}]
    BY <1>2 DEF Rank
  <2>2. effective \in Seq(Ids) /\ call.limit \in Nat \ {0}
    BY EffectiveAre DEF Rank, SearchInv, Searching
  <2>3. /\ ToSet(out(q)) \subseteq {t \in U : t \in Fits[q] \/ Covered(q, t)}
        /\ Len(out(q)) = Cardinality(ToSet(out(q))) /\ Len(out(q)) <= call.limit
        /\ Len(out(q)) < call.limit => U \cap Fits[q] \subseteq ToSet(out(q))
    <3> HIDE DEF effective
    <3> QED BY <2>2, ResultsAre
  <2> HIDE DEF effective, U, out
  <2>4. /\ call' = [f \in Fields |-> call'[f]] /\ call'.pc = "done" /\ call'.out = out(q)
        /\ call'.limit = call.limit /\ call'.fits = U \cap Fits[q]
        /\ call'.relevant = {t \in U : t \in Fits[q] \/ Covered(q, t)}
    BY <2>1 DEF SearchInv, Fields
  <2>5. NothingRelevantMissed'
    BY <2>3, <2>4 DEF NothingRelevantMissed
  <2> QED BY <2>4, <2>5 DEF SearchInv, Searching
<1> QED BY <1>1, <1>2

\* No other step answers a search or changes the limit of one.
LEMMA NextSearchInv == SearchInv /\ [Next]_vars => SearchInv'
<1> SUFFICES ASSUME SearchInv, [Next]_vars PROVE SearchInv'
  OBVIOUS
<1>0. ASSUME UNCHANGED call PROVE SearchInv'
  BY <1>0 DEF SearchInv, NothingRelevantMissed
<1>1. ASSUME call' = [f \in Fields |-> call'[f]], call'.pc \notin Searching \cup {"done"}
      PROVE  SearchInv'
  BY <1>1 DEF SearchInv, NothingRelevantMissed
<1>2. ASSUME call' = [f \in Fields |-> call'[f]], call'.pc # "done",
             call'.limit = call.limit, call.pc \in Searching
      PROVE  SearchInv'
  BY <1>2 DEF SearchInv, NothingRelevantMissed
<1>3. ASSUME NEW l \in Limits, NEW p \in Profiles \cup {Global}, Search(l, p)
      PROVE  SearchInv'
  <2>1. CASE ~Searchable
    BY <1>3, <2>1, FailKeepsSearchInv DEF Search
  <2>2. CASE Searchable
    <3> DEFINE new == NewCall("profile")
    <3>1. new = [f \in Fields |-> new[f]] /\ new.pc = "profile"
      BY NewCallShape
    <3>2. call' = [new EXCEPT !.gen = Len(gens), !.limit = l, !.profile = p]
      BY <1>3, <2>2 DEF Search
    <3> HIDE DEF new
    <3>3. call' = [f \in Fields |-> call'[f]] /\ call'.pc = "profile" /\ call'.limit = l
      BY <3>1, <3>2 DEF Fields
    <3>4. l \in Nat \ {0}
      BY DiscoveryAssumption
    <3> QED BY <3>3, <3>4 DEF SearchInv, NothingRelevantMissed
  <2> QED BY <2>1, <2>2
<1>4. CASE ResolveProfile
  BY <1>2, <1>4, FailKeepsSearchInv DEF ResolveProfile, SearchInv, Fields, Searching
<1>5. CASE ReadRevision
  BY <1>2, <1>5 DEF ReadRevision, SearchInv, Fields, Searching
<1>6. CASE SourceTools
  BY <1>2, <1>6 DEF SourceTools, SearchInv, Fields, Searching
<1>7. CASE ReadAvailability
  BY <1>2, <1>7 DEF ReadAvailability, SearchInv, Fields, Searching
<1>8. CASE LoadIndexes
  BY <1>2, <1>8, FailKeepsSearchInv DEF LoadIndexes, SearchInv, Fields, Searching
<1>9. CASE Rank
  BY <1>9, RankKeepsSearchInv
<1>10. CASE GetTool
  BY <1>1, <1>10, FailKeepsSearchInv DEF GetTool, SearchInv, Fields, Searching
<1>11. CASE MintHandle
  BY <1>1, <1>11, FailKeepsSearchInv DEF MintHandle, SearchInv, Fields, Searching
<1>12. CASE GetPreferences
  <2> DEFINE new == NewCall("list profiles")
  <2>1. new = [f \in Fields |-> new[f]] /\ new.pc = "list profiles"
    BY NewCallShape
  <2>2. call' = [new EXCEPT !.rev = revision]
    BY <1>12 DEF GetPreferences
  <2> HIDE DEF new
  <2>3. call' = [f \in Fields |-> call'[f]] /\ call'.pc = "list profiles"
    BY <2>1, <2>2 DEF Fields
  <2> QED BY <1>1, <2>3 DEF Searching
<1>13. CASE ListProfiles
  BY <1>1, <1>13 DEF ListProfiles, SearchInv, Fields, Searching
<1>14. CASE ListRules
  BY <1>1, <1>14 DEF ListRules, SearchInv, Fields, Searching
<1>15. ASSUME \/ \E p \in Profiles : PutProfile(p) \/ DeleteProfile(p)
              \/ \E r \in RuleSpecs : PutRule(r) \/ ConfirmRule(r) \/ DeleteRule(r)
              \/ CatalogStep \/ UNCHANGED vars
       PROVE  SearchInv'
  <2>1. UNCHANGED call
    BY <1>15 DEF PutProfile, DeleteProfile, PutRule, ConfirmRule, DeleteRule, PrefFrame, CatalogStep,
                 Observe, TrackerStore, Publish, ClearIndex, CatalogFrame, vars
  <2> QED BY <1>0, <2>1
<1> QED BY <1>3, <1>4, <1>5, <1>6, <1>7, <1>8, <1>9, <1>10, <1>11, <1>12, <1>13, <1>14, <1>15
        DEF Next, CatalogStep

(* A search that returns fewer tools than its limit has missed no available*)
(* tool that is similar enough to the query in any vector facet, although  *)
(* every index is asked for a bounded number of candidates only and tools  *)
(* that are not available take places among them; and what it returns is   *)
(* available, relevant and without repetition: for every set of tools,     *)
(* scores, limit and depth (discovery.Service.Search).                     *)
THEOREM NothingMissed == Spec => []NothingRelevantMissed
<1>1. Init => SearchInv
  <2> SUFFICES ASSUME Init PROVE SearchInv
    OBVIOUS
  <2>1. call = [f \in Fields |-> call[f]] /\ call.pc = "idle"
    BY NewCallShape DEF Init
  <2> QED BY <2>1 DEF SearchInv, Searching, NothingRelevantMissed
<1>2. SearchInv => NothingRelevantMissed
  BY DEF SearchInv
<1> QED BY <1>1, <1>2, NextSearchInv, PTL DEF Spec
=============================================================================

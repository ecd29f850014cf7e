----------------------------- MODULE Discovery -----------------------------
(***************************************************************************)
(* Searching the committed index (internal/discovery, internal/retrieval)  *)
(* and the Routing Preferences that order its results                      *)
(* (internal/routingprefs).  Search, get_tool and get_routing_preferences  *)
(* are sequences of separate queries: between two of them a generation may *)
(* be published or the index cleared, a tool may disappear or change its   *)
(* contract, and rules may be edited.                                      *)
(*                                                                         *)
(* Tools are numbers, in the order of their member keys; a generation maps *)
(* its tools to their contracts.  What the texts and vectors of a query    *)
(* amount to is a record of scores (see Queries).  Scores are exact        *)
(* fractions over one denominator; the code adds float64.                  *)
(***************************************************************************)
EXTENDS Integers, FiniteSets, SequencesExt

CONSTANTS
    Tools,          \* the tools, 1 .. n
    Contracts,      \* contracts: records [meaning, readOnly, destructive, idempotent, open]
    Queries,        \* queries: records [lexical, source, schema, enriched, nodes, matched,
                    \*   terms, condition]: a score per tool for each index, capability
                    \*   nodes [members, score], how many of the query's significant terms
                    \*   each tool's texts have, and whether rule conditions hold in it
    Limits,         \* result limits asked for
    CandidateDepth, RRFK, MinVectorSimilarity,  \* Options
    Unit,           \* the denominator of the scores of a fusion and of preferences
    RuleSpecs,      \* rules: records [id, profile, specificity, slot, preferred, deprioritized]
    Profiles,       \* routing profiles
    MaxEdits,       \* bound on the preference revision
    MaxChanges      \* bound on observed changes and clears

Global == "global"

ASSUME DiscoveryAssumption ==
    /\ Tools = 1 .. Cardinality(Tools) /\ Limits \subseteq Nat \ {0}
    /\ {CandidateDepth, RRFK, MinVectorSimilarity} \subseteq Nat \ {0} /\ IsFiniteSet(Tools)
    /\ Unit \in Nat \ {0} /\ Unit % 2000 = 0 /\ \A t \in Tools : Unit % (RRFK + t) = 0
    /\ \A q \in Queries :
          /\ DOMAIN q.lexical = Tools /\ \A t \in Tools : q.lexical[t] \in Nat
          /\ \A f \in {q.source, q.schema, q.enriched} : DOMAIN f = Tools /\ \A t \in Tools : f[t] \in Int
          /\ IsFiniteSet(q.nodes) /\ \A n \in q.nodes : n.score \in Int
          /\ UNION {n.members : n \in q.nodes} = Tools
    /\ IsFiniteSet(RuleSpecs) /\ \A r, s \in RuleSpecs : r.id = s.id => r = s
    /\ \A r \in RuleSpecs : /\ r.preferred # {} /\ r.preferred \cap r.deprioritized = {}
                            /\ r.profile \in Profiles \cup {Global} /\ r.id \in Nat
                            /\ r.specificity \in {"conditional_tool", "tool_set", "server"}

VARIABLES
    gens,       \* the generations of the catalog: contracts by tool, <<>> once cleared
    current,    \* the active generation, the last one, is that of the routing state
    cache,      \* tool_contract_cache: the contract last seen, whether the tool is listed,
                \* and whether there is a row at all
    rules, profiles, revision,      \* routing_preferences, routing_profiles, preference_revision
    tracked,    \* the preference revision Tracker has read and will write back, or None
    rewound,    \* history: Tracker wrote back a revision that was no longer current
    call,       \* the call under way or answered last: search_tools and a get_tool of
                \* its results, or get_routing_preferences
    changes

catalogVars == <<gens, current, cache, changes>>
prefVars == <<rules, profiles, revision>>
vars == <<catalogVars, prefVars, tracked, rewound, call>>

None == -1
Ids == {r.id : r \in RuleSpecs}
Rule(i) == CHOOSE r \in RuleSpecs : r.id = i

(* A call: what it has read, and its answer.  fits and relevant are        *)
(* history: the available tools that are similar to the query, and those   *)
(* and the ones that share its terms; used are the rules that placed the   *)
(* tools it returned.                                                      *)
NewCall(pc) == [pc |-> pc, gen |-> 0, profile |-> Global, rev |-> 0, limit |-> 0, src |-> <<>>,
                avail |-> <<>>, profiles |-> {}, rules |-> <<>>, out |-> <<>>, tool |-> 0,
                fits |-> {}, relevant |-> {}, used |-> {}]

(* Other stored rules of the same scope for the same slot.                 *)
Conflicts(r) ==
    {i \in Ids \ {r.id} : /\ rules[i] # "none"
                          /\ Rule(i).profile = r.profile /\ Rule(i).slot = r.slot}

(* The preferences were stored by an earlier run of the program.           *)
Init ==
    /\ \E c \in Contracts : gens = <<[t \in Tools |-> c]>>
    /\ current = TRUE
    /\ cache = [t \in Tools |-> [contract |-> gens[1][t], listed |-> TRUE, known |-> TRUE]]
    /\ profiles \in SUBSET Profiles /\ revision = 0
    /\ rules \in [Ids -> {"none", "active", "needs_review"}]
    /\ \A i \in Ids : /\ rules[i] # "none" => Rule(i).profile \in profiles \cup {Global}
                      /\ rules[i] = "active" => Conflicts(Rule(i)) = {}
    /\ tracked = None /\ rewound = FALSE
    /\ call = NewCall("idle")
    /\ changes = 0

-----------------------------------------------------------------------------
(* The members of S in an order that is a set of pairs, and its head.      *)
Sorted(S, order) ==
    CHOOSE seq \in SetToSeqs(S) : \A i, j \in DOMAIN seq : i < j => <<seq[i], seq[j]>> \in order

Cut(seq, n) == SubSeq(seq, 1, IF n < Len(seq) THEN n ELSE Len(seq))

-----------------------------------------------------------------------------
(* Contracts.                                                              *)

(* ExecutorClassForJSON: the hints that matter, in this order.             *)
ExecutorClass(c) ==
    IF c.readOnly THEN [kind |-> "read_only", open |-> c.open, idempotent |-> FALSE]
    ELSE [kind |-> IF c.destructive THEN "destructive" ELSE "additive",
          open |-> c.open, idempotent |-> c.idempotent]

(* SemanticSourceFingerprintJSON and PreferenceAssumptionFingerprint.      *)
Assumption(c) == <<c.meaning, ExecutorClass(c)>>

-----------------------------------------------------------------------------
(* The preference store.  Every write is one transaction that checks the   *)
(* expected revision and advances it; a write that changes nothing, or     *)
(* expects another revision, leaves everything as it is.                   *)

Advance == revision < MaxEdits /\ revision' = revision + 1
PrefFrame == UNCHANGED <<catalogVars, tracked, rewound, call>>

(* A new profile, or another name or description for one.                  *)
PutProfile(p) ==
    /\ Advance /\ profiles' = profiles \cup {p}
    /\ UNCHANGED rules /\ PrefFrame

(* The rules of a deleted profile go with it.                              *)
DeleteProfile(p) ==
    /\ p \in profiles /\ Advance /\ profiles' = profiles \ {p}
    /\ rules' = [i \in Ids |-> IF Rule(i).profile = p THEN "none" ELSE rules[i]]
    /\ PrefFrame

PutRule(r) ==
    /\ rules[r.id] = "none" /\ r.profile \in profiles \cup {Global} /\ Advance
    /\ rules' = [i \in Ids |->
                    IF i = r.id THEN IF Conflicts(r) = {} THEN "active" ELSE "needs_review"
                    ELSE IF i \in Conflicts(r) THEN "needs_review" ELSE rules[i]]
    /\ UNCHANGED profiles /\ PrefFrame

ConfirmRule_SameRevision(r) ==
    /\ rules[r.id] = "needs_review" /\ Conflicts(r) = {}
    /\ rules' = [rules EXCEPT ![r.id] = "active"]
    /\ UNCHANGED <<profiles, revision>> /\ PrefFrame

ConfirmRule_Newest(r) ==
    /\ rules[r.id] = "needs_review" /\ Advance
    /\ rules' = [rules EXCEPT ![r.id] = "active"]
    /\ UNCHANGED profiles /\ PrefFrame

ConfirmRule(r) ==
    /\ rules[r.id] = "needs_review" /\ Conflicts(r) = {} /\ Advance
    /\ rules' = [rules EXCEPT ![r.id] = "active"]
    /\ UNCHANGED profiles /\ PrefFrame

DeleteRule(r) ==
    /\ rules[r.id] # "none" /\ Advance
    /\ rules' = [rules EXCEPT ![r.id] = "none"]
    /\ UNCHANGED profiles /\ PrefFrame

SpecificityPriority(s) == CASE s = "conditional_tool" -> 3 [] s = "tool_set" -> 2 [] s = "server" -> 1

(* EffectiveRules: the active rules of the profile and of the Global       *)
(* layer, profile rules first, then by specificity, then by ID.            *)
Precedes(i, j) ==
    LET l == Rule(i)  r == Rule(j)  p(x) == SpecificityPriority(x.specificity) IN
    IF (l.profile # Global) # (r.profile # Global) THEN l.profile # Global
    ELSE IF p(l) # p(r) THEN p(l) > p(r) ELSE i < j

RuleOrder == {p \in Ids \X Ids : Precedes(p[1], p[2])}

EffectiveRules(profile) ==
    Sorted({i \in Ids : rules[i] = "active" /\ Rule(i).profile \in {Global, profile}}, RuleOrder)

(* ruleTargetsChanged: a target is gone or is not what the rule assumed.   *)
RuleTargetsChanged(r, src) ==
    \E t \in r.preferred \cup r.deprioritized :
        t.tool \notin DOMAIN src \/ Assumption(src[t.tool]) # t.assumption

-----------------------------------------------------------------------------
(* Ranking.                                                                *)

(* The tools of a score map from the best score down, ties by key.         *)
ScoreOrder(score) ==
    {p \in Tools \X Tools : IF score[p[1]] = score[p[2]] THEN p[1] < p[2] ELSE score[p[1]] > score[p[2]]}

(* LexicalIndex.Search returns the documents with a positive score,        *)
(* VectorIndex.Search every record.                                        *)
LexicalSearch(q, depth) ==
    Cut(Sorted({t \in Tools : q.lexical[t] > 0}, ScoreOrder(q.lexical)), depth)
VectorSearch(score, depth) == Cut(Sorted(Tools, ScoreOrder(score)), depth)

(* capabilityVectorRanking: a tool has the best score of its nodes.        *)
CapabilityScore(q) ==
    [t \in UNION {n.members : n \in q.nodes} |->
        Max({n.score : n \in {m \in q.nodes : t \in m.members}})]

VectorFacets(q) == <<q.source, q.schema, q.enriched, CapabilityScore(q)>>

Depth_Plain(limit, unavailable, n) ==
    LET wanted == IF CandidateDepth < limit THEN limit ELSE CandidateDepth
    IN  IF wanted > n THEN n ELSE wanted

Depth(limit, unavailable, n) ==
    LET minimum == limit + unavailable
        wanted == IF CandidateDepth < minimum THEN minimum ELSE CandidateDepth
    IN  IF wanted > n THEN n ELSE wanted

(* reciprocalRankFusion of the five facets, in fractions of Unit.          *)
RankIn(facet, t) == CHOOSE i \in 1 .. Len(facet) : facet[i] = t
Share(facet, t) == IF Contains(facet, t) THEN Unit \div (RRFK + RankIn(facet, t)) ELSE 0
Fused(q, depth, t) ==
    Share(LexicalSearch(q, depth), t)
    + Share(VectorSearch(q.source, depth), t) + Share(VectorSearch(q.schema, depth), t)
    + Share(VectorSearch(q.enriched, depth), t) + Share(VectorSearch(CapabilityScore(q), depth), t)

(* collectVectorEvidence: the best score of a tool among the results that  *)
(* the indexes returned, 0 if none.                                        *)
Evidence(q, depth, t) ==
    LET found == {f \in 1 .. 4 : Contains(VectorSearch(VectorFacets(q)[f], depth), t)}
    IN  Max({0} \cup {VectorFacets(q)[f][t] : f \in found})

(* lexicalCoverage of at least one half.                                   *)
Covered(q, t) == q.terms > 0 /\ 2 * q.matched[t] >= q.terms

(* preferenceStrength, in fractions of Unit: 0.012 at most, which is 8     *)
(* times 3 / 2000.                                                         *)
Strength(r) ==
    LET eighths == CASE r.specificity = "conditional_tool" -> 4
                     [] r.specificity = "tool_set" -> 3
                     [] r.specificity = "server" -> 2
    IN  (IF r.profile # Global THEN 2 ELSE 1) * eighths * 3 * (Unit \div 2000)

(* preferenceAdjustment: the first effective rule that applies to the      *)
(* query and names the tool decides.  Targets are matched by name only.    *)
Names(targets, t) == \E x \in targets : x.tool = t
Applies(i, q, t) ==
    /\ Rule(i).specificity = "conditional_tool" => q.condition
    /\ Names(Rule(i).preferred \cup Rule(i).deprioritized, t)
Deciding(effective, q, t) ==
    {effective[k] : k \in {k \in DOMAIN effective :
        Applies(effective[k], q, t) /\ \A j \in 1 .. (k - 1) : ~Applies(effective[j], q, t)}}
Adjustment(effective, q, t) ==
    LET d == Deciding(effective, q, t)
        r == Rule(CHOOSE i \in d : TRUE)
    IN  IF d = {} THEN 0 ELSE IF Names(r.preferred, t) THEN Strength(r) ELSE -Strength(r)

(* For the properties: the tools similar enough to the query in some       *)
(* vector facet.                                                           *)
Fits == [q \in Queries |->
            {t \in Tools : \E f \in 1 .. 4 : VectorFacets(q)[f][t] >= MinVectorSimilarity}]

(* What the indexes yield for a query at a depth: the fused score of each  *)
(* tool (0: in no facet) and the best evidence for it.                     *)
Retrieved ==
    [q \in Queries |-> [depth \in Tools |->
        [fused |-> [t \in Tools |-> Fused(q, depth, t)],
         evidence |-> [t \in Tools |-> Evidence(q, depth, t)]]]]

ResultOrder(total, fused) ==
    {p \in (DOMAIN total) \X (DOMAIN total) :
        LET s == p[1]  t == p[2] IN
        IF total[s] # total[t] THEN total[s] > total[t]
        ELSE IF fused[s] # fused[t] THEN fused[s] > fused[t] ELSE s < t}

(* The part of Search after the indexes are loaded.                        *)
Results(q, limit, avail, effective) ==
    LET available == {t \in Tools : avail[t]}
        got == Retrieved[q][Depth(limit, Cardinality(Tools \ available), Cardinality(Tools))]
        candidates == {t \in available : /\ got.fused[t] > 0
                                         /\ \/ got.evidence[t] >= MinVectorSimilarity
                                            \/ Covered(q, t)}
        total == [t \in candidates |-> got.fused[t] + Adjustment(effective, q, t)]
    IN  Cut(Sorted(candidates, ResultOrder(total, got.fused)), limit)

-----------------------------------------------------------------------------
(* search_tools.                                                           *)
CallFrame == UNCHANGED <<catalogVars, prefVars, tracked, rewound>>
Over == call.pc \in {"idle", "empty", "done", "failed", "got", "listed"}
Fail == call' = NewCall("failed")

(* currentGeneration.                                                      *)
Searchable == current /\ gens[Len(gens)] # <<>>

Search(limit, profile) ==
    /\ Over
    /\ IF Searchable
       THEN call' = [NewCall("profile") EXCEPT !.gen = Len(gens), !.limit = limit, !.profile = profile]
       ELSE Fail
    /\ CallFrame

ResolveProfile ==
    /\ call.pc = "profile"
    /\ IF call.profile \in profiles \cup {Global}
       THEN call' = [call EXCEPT !.pc = "revision"] ELSE Fail
    /\ CallFrame

ReadRevision ==
    /\ call.pc = "revision"
    /\ call' = [call EXCEPT !.pc = "sources", !.rev = revision]
    /\ CallFrame

(* SourceTools; without a source the answer is empty.                      *)
SourceTools ==
    /\ call.pc = "sources"
    /\ LET src == gens[call.gen] IN
       call' = IF src = <<>> THEN [call EXCEPT !.pc = "empty"]
                 ELSE [call EXCEPT !.pc = "avail", !.src = src]
    /\ CallFrame

(* ToolAvailability of one tool after the other, against the contract the  *)
(* generation has.                                                         *)
Available(t, contract) == cache[t].known => cache[t].contract = contract /\ cache[t].listed

ReadAvailability ==
    LET t == Len(call.avail) + 1
        avail == Append(call.avail, Available(t, call.src[t])) IN
    /\ call.pc = "avail"
    /\ call' = [call EXCEPT !.avail = avail,
                     !.pc = IF t < Cardinality(Tools) THEN "avail"
                            ELSE IF \E s \in DOMAIN avail : avail[s] THEN "load" ELSE "empty"]
    /\ CallFrame

(* The guidance, the hierarchy and the four indexes of a committed         *)
(* generation never change, but they may be cleared.                       *)
LoadIndexes ==
    /\ call.pc = "load"
    /\ IF gens[call.gen] = <<>> THEN Fail ELSE call' = [call EXCEPT !.pc = "rules"]
    /\ CallFrame

(* EmbedQuery fails, or the query has its scores; rank, read the rules,    *)
(* sort and answer.                                                        *)
EmbedQuery(q) == q \in Queries

Rank ==
    /\ call.pc = "rules"
    /\ \/ Fail
       \/ \E q \in Queries : EmbedQuery(q) /\
            LET effective == EffectiveRules(call.profile)
                available == {t \in Tools : call.avail[t]}
                out == Results(q, call.limit, call.avail, effective)
            IN  call' = [call EXCEPT !.pc = "done", !.rules = effective, !.out = out, !.avail = <<>>,
                            !.fits = available \cap Fits[q],
                            !.relevant = {t \in available : t \in Fits[q] \/ Covered(q, t)},
                            !.used = UNION {Deciding(effective, q, t) : t \in ToSet(out)}]
    /\ CallFrame

(* get_tool with a reference of the last search: the generation must still *)
(* be the active one, and the tool available under its contract.           *)
(* MintHandle reads the source and the availability at one moment.         *)
GetTool ==
    /\ call.pc = "done" /\ call.out # <<>>
    /\ \E t \in ToSet(call.out) :
        IF Searchable /\ call.gen = Len(gens)
        THEN call' = [call EXCEPT !.pc = "get", !.tool = t] ELSE Fail
    /\ CallFrame

MintHandle ==
    /\ call.pc = "get"
    /\ LET src == gens[call.gen] IN
       IF (IF src = <<>> THEN FALSE
           ELSE src[call.tool] = call.src[call.tool] /\ Available(call.tool, src[call.tool]))
       THEN call' = [call EXCEPT !.pc = "got"] ELSE Fail
    /\ CallFrame

(* get_routing_preferences: the revision, the profiles, the rules.         *)
GetPreferences ==
    /\ Over /\ call' = [NewCall("list profiles") EXCEPT !.rev = revision]
    /\ CallFrame

ListProfiles ==
    /\ call.pc = "list profiles"
    /\ call' = [call EXCEPT !.pc = "list rules", !.profiles = profiles]
    /\ CallFrame

ListRules ==
    /\ call.pc = "list rules"
    /\ call' = [call EXCEPT !.pc = "listed", !.rules = rules]
    /\ CallFrame

-----------------------------------------------------------------------------
(* What happens to the catalog meanwhile (modelled in full in Catalog).    *)
Change == changes < MaxChanges /\ changes' = changes + 1
CatalogFrame == UNCHANGED <<prefVars, call>>

(* A session lists its tools: one has gone or come back, which changes     *)
(* only the cache, or one has another contract, which makes the index      *)
(* stale.  AdvanceRoutingRevision then reads the row and writes it back.   *)
Observe(t) ==
    /\ Change
    /\ \/ /\ cache[t].known /\ cache' = [cache EXCEPT ![t].listed = ~@]
          /\ UNCHANGED <<current, tracked>>
       \/ /\ tracked = None /\ tracked' = revision
          /\ \E c \in Contracts \ {cache[t].contract} :
                cache' = [cache EXCEPT ![t] = [contract |-> c, listed |-> TRUE, known |-> TRUE]]
          /\ current' = FALSE
    /\ UNCHANGED <<gens, rewound>> /\ CatalogFrame

TrackerStore ==
    /\ tracked # None /\ tracked' = None
    /\ revision' = tracked /\ rewound' = (rewound \/ tracked # revision)
    /\ UNCHANGED <<catalogVars, rules, profiles, call>>

(* A refresh, its enrichment and its commit for what is observed now.      *)
Publish ==
    /\ ~current /\ tracked = None
    /\ gens' = Append(gens, [t \in Tools |-> cache[t].contract]) /\ current' = TRUE
    /\ UNCHANGED <<cache, changes, tracked, rewound>> /\ CatalogFrame

(* ClearIndex deletes every generation and the rows of the cache; a tool   *)
(* without a row counts as available.                                      *)
ClearIndex ==
    /\ Change /\ gens[Len(gens)] # <<>>
    /\ gens' = [g \in DOMAIN gens |-> <<>>] /\ current' = FALSE
    /\ cache' = [t \in Tools |-> [cache[t] EXCEPT !.listed = TRUE, !.known = FALSE]]
    /\ UNCHANGED <<tracked, rewound>> /\ CatalogFrame

Next ==
    \/ \E p \in Profiles : PutProfile(p) \/ DeleteProfile(p)
    \/ \E r \in RuleSpecs : PutRule(r) \/ ConfirmRule(r) \/ DeleteRule(r)
    \/ \E l \in Limits, p \in Profiles \cup {Global} : Search(l, p)
    \/ ResolveProfile \/ ReadRevision \/ SourceTools \/ ReadAvailability \/ LoadIndexes \/ Rank
    \/ GetTool \/ MintHandle \/ GetPreferences \/ ListProfiles \/ ListRules
    \/ \E t \in Tools : Observe(t)
    \/ TrackerStore \/ Publish \/ ClearIndex

Spec == Init /\ [][Next]_vars

-----------------------------------------------------------------------------
(* A search that returns fewer tools than its limit has missed no tool     *)
(* that is available and similar enough to the query in any of the vector  *)
(* facets, although every index is only asked for a bounded number of      *)
(* candidates and unavailable tools take places among them; and what it    *)
(* returns is available, relevant and without repetition.                  *)
NothingRelevantMissed ==
    call.pc = "done" =>
        LET found == ToSet(call.out) IN
        /\ found \subseteq call.relevant
        /\ Len(call.out) = Cardinality(found) /\ Len(call.out) <= call.limit
        /\ Len(call.out) < call.limit => call.fits \subseteq found

(* A preference revision names the rules it was reported with: as long as  *)
(* the revision that search_tools or get_routing_preferences returned is   *)
(* the current one, so that an edit that expects it is accepted, the rules *)
(* are those the search ranked by, and the rules and profiles those the    *)
(* reader listed, however edits fell between the queries of the call.  (A  *)
(* Tracker store that overlaps an edit breaks this, see rewound.)          *)
RevisionNamesRules ==
    ~rewound /\ call.rev = revision =>
        /\ call.pc = "done" => call.rules = EffectiveRules(call.profile)
        /\ call.pc = "listed" => call.rules = rules /\ call.profiles = profiles

(* docs/V2_IMPLEMENTATION_PLAN.md: equal-scope conflicts require review    *)
(* instead of newest-wins: whatever is put, confirmed and deleted, an      *)
(* active rule is the only stored rule of its scope for its slot.          *)
ConflictsAreReviewed == \A i \in Ids : rules[i] = "active" => Conflicts(Rule(i)) = {}

(* README.md: a preference is marked for review rather than silently       *)
(* transferred if its referenced tool or routing assumptions change.       *)
StaleRulesAreReviewed ==
    call.pc = "done" => \A i \in call.used : ~RuleTargetsChanged(Rule(i), call.src)
=============================================================================

------------------------------ MODULE Catalog ------------------------------
(***************************************************************************)
(* The semantic index: generations in the SQLite catalog, the indexing     *)
(* service that builds and promotes them, the enrichment coordinator, and  *)
(* the observers of downstream tool lists that mark the index dirty.       *)
(*                                                                         *)
(* indexing.Service.mu serialises refresh, batches, submissions, commit    *)
(* and clear: they are one process, `ix', that moves transaction by        *)
(* transaction.  One observer per server, the execution router, the        *)
(* configuration and a crash interleave with it between transactions.      *)
(*                                                                         *)
(* A contract is a value whose exact fingerprint is itself and whose       *)
(* semantic fingerprint is Sem[contract].  The routing state hash is a     *)
(* function of the routing revision, so the revision stands for it.        *)
(***************************************************************************)
EXTENDS Naturals, Sequences, FiniteSets, FiniteSetsExt

CONSTANTS
    Servers,     \* configured Server Entries
    Members,     \* tools, each "server/tool"
    ServerOf,    \* the server of a tool
    Contracts,   \* tool contracts
    Sem,         \* the semantic fingerprint of a contract
    Guides,      \* the answers an agent may give to a batch
    None,        \* no row, no tool, no answer
    BatchSize,   \* Options.ToolBatchSize
    MaxGens,     \* bound on generations
    MaxRev,      \* bound on routing revisions
    MaxMarks,    \* bound on dirty markers
    MaxChanges,  \* bound on changes of a live tool list
    MaxFaults,   \* bound on faults
    Faults       \* which faults may happen

ASSUME CatalogAssumption ==
    /\ ServerOf \in [Members -> Servers] /\ IsFiniteSet(Members)
    /\ None \notin Contracts \cup Guides
    /\ Contracts \subseteq DOMAIN Sem
    /\ BatchSize \in Nat \ {0} /\ {MaxGens, MaxRev, MaxMarks, MaxChanges, MaxFaults} \subseteq Nat
    /\ Faults \subseteq {"crash", "error", "clear", "corrupt", "config", "drop"}

VARIABLES
    live,      \* the tools each server advertises now
    changes,   \* how often a live tool list has changed
    faults,    \* how many faults have happened
    cache,     \* tool_contract_cache: contract and availability of a tool
    up,        \* the servers with a connected session
    effective, \* persistentToolSession.effective: what InitialTools returns
    seen,      \* lastObservedFingerprint: the live list last reconciled
    obs,       \* the observer of each server, between its transactions
    inv,       \* the execution router, between its two invalidation writes
    dirty,     \* dirty_partitions: 0, or the stamp of the marker
    marks,     \* the stamp of the newest marker
    rev,       \* routing revision
    config,    \* the enabled servers of the saved configuration
    servers,   \* indexing.Service.servers
    gens,      \* generations, in the order of their creation
    arts,      \* artifacts: reusable guidance, and reusable hierarchies
    ix,        \* the operation that holds indexing.Service.mu
    lost,      \* history: servers with a cached change that invalidated nothing
    flawed     \* history: generations populated in part, or taken over empty
               \* after their capability batch was made

catVars == <<cache, dirty, marks, gens, arts>>
obsVars == <<live, changes, faults, up, effective, seen, obs, inv>>
vars    == <<live, changes, faults, cache, up, effective, seen, obs, inv, dirty, marks,
             rev, config, servers, gens, arts, ix, lost, flawed>>

-----------------------------------------------------------------------------
(* Tool lists and generations                                              *)

ToolsOf(s)   == {m \in Members : ServerOf[m] = s}
NoTools      == [m \in Members |-> None]
Present(src) == {m \in Members : src[m] # None}
Over(f, s, h) == [m \in Members |-> IF ServerOf[m] = s THEN h[m] ELSE f[m]]

\* How far the base index of a tool has come: its source row (and lexical
\* record) is stored, then each of its two embeddings is first required and
\* then stored.
Described == 3
Built     == 5
Open      == {2, 4}   \* an embedding is required and not stored yet

\* The rows of one generation: source servers and tools, the base index, the
\* tools whose enrichment is required, their attached guidance and enriched
\* embedding, the tool batches, the capability batch, the sources its gate
\* wants and has seen, and the review it may propose.
NewGeneration(hash) ==
    [status |-> "staging", hash |-> hash, srvs |-> {}, src |-> NoTools,
     built |-> [m \in Members |-> 0], req |-> {}, guid |-> NoTools, emb |-> {}, tb |-> <<>>,
     cap |-> [made |-> FALSE, req |-> NoTools, resp |-> None, done |-> FALSE],
     want |-> None, have |-> None,
     review |-> "none"]

\* The rows of a superseded generation are kept and never read again.
Superseded == [NewGeneration(0) EXCEPT !.status = "superseded"]

WithStatus(st) == {g \in DOMAIN gens : gens[g].status = st}
Active    == WithStatus("active")
\* stagingForHash takes the newest staging generation of a hash.
Staging(h) == {g \in WithStatus("staging") : gens[g].hash = h}
Newest(S) == Max(S)

PendingTool(g) == {i \in DOMAIN g.tb : g.tb[i].resp = None}
\* EnrichmentBatchCounts.PendingRequired
PendingRequired(g) == Cardinality(PendingTool(g))
                      + (IF g.cap.made /\ g.cap.resp = None THEN 1 ELSE 0)

NoDirty == \A s \in Servers : dirty[s] = 0
\* Status.Ready: the active generation has the current hash, nothing is dirty.
Ready == NoDirty /\ \E g \in Active : gens[g].hash = rev

Idle == [op |-> "idle", pc |-> "idle", g |-> 0, hash |-> 0,
         before |-> [s \in Servers |-> 0], snap |-> NoTools, got |-> {},
         todo |-> {}, batch |-> 0]
IdleObs == [pc |-> "idle", conn |-> FALSE, chg |-> FALSE, at |-> NoTools]

-----------------------------------------------------------------------------
(* Init: a fresh catalog, no session, everything configured                *)

Init == /\ live \in [Members -> Contracts \cup {None}] /\ changes = 0 /\ faults = 0
        /\ cache = [m \in Members |-> [c |-> None, avail |-> FALSE]]
        /\ up = {} /\ effective = NoTools /\ seen = NoTools
        /\ obs = [s \in Servers |-> IdleObs] /\ inv = {}
        /\ dirty = [s \in Servers |-> 0] /\ marks = 0
        /\ rev = 1 /\ config = Servers /\ servers = Servers
        /\ gens = <<>> /\ arts = [tool |-> {}, cap |-> {}]
        /\ ix = Idle /\ lost = {} /\ flawed = {}

Fault(f) == f \in Faults /\ faults < MaxFaults /\ faults' = faults + 1

-----------------------------------------------------------------------------
(* Observers                                                               *)

\* The downstream server adds, changes or hides a tool.
LiveChange(m, c) ==
    /\ changes < MaxChanges /\ live[m] # c
    /\ live' = [live EXCEPT ![m] = c] /\ changes' = changes + 1
    /\ UNCHANGED <<faults, cache, up, effective, seen, obs, inv, dirty, marks, rev,
                   config, servers, gens, arts, ix, lost, flawed>>

\* ObserveServerTools first seeds the cache with tools it does not hold yet,
\* from the newest staging generation, then from the active one.
Authoritative(st, m) ==
    LET G == {g \in WithStatus(st) : gens[g].src[m] # None}
    IN  IF G = {} THEN None ELSE gens[Newest(G)].src[m]
Seeded(m) ==
    LET st == Authoritative("staging", m)
        ac == Authoritative("active", m)
    IN  IF cache[m].c # None THEN cache[m]
        ELSE IF st # None THEN [c |-> st, avail |-> TRUE]
        ELSE [c |-> ac, avail |-> ac # None]
SameSem(c, d) == c # None /\ d # None /\ Sem[c] = Sem[d]
MatchesAuthoritative(m, c) == \E st \in {"active", "staging"} : SameSem(Authoritative(st, m), c)
\* The exact contract kept for an observed one: an authoritative or cached
\* contract of the same meaning wins over a mere change of presentation.
Canonical(m, c) ==
    IF SameSem(Authoritative("active", m), c) THEN Authoritative("active", m)
    ELSE IF SameSem(Authoritative("staging", m), c) THEN Authoritative("staging", m)
    ELSE IF SameSem(Seeded(m).c, c) THEN Seeded(m).c ELSE c
Observed(s, tools) ==
    [m \in Members |->
        IF ServerOf[m] # s THEN cache[m]
        ELSE IF tools[m] # None THEN [c |-> Canonical(m, tools[m]), avail |-> TRUE]
        ELSE [Seeded(m) EXCEPT !.avail = FALSE]]
Baseline(s) == \E g \in Active \cup WithStatus("staging") : s \in gens[g].srvs
SemanticChanged(s, tools) ==
    /\ Baseline(s)
    /\ \E m \in ToolsOf(s) : /\ tools[m] # None
                             /\ ~MatchesAuthoritative(m, tools[m])
                             /\ ~SameSem(Seeded(m).c, tools[m])

\* Generation g has every source of the servers it has a row for.
Sourced(g) == g \notin flawed /\ ~(ix.pc = "populate" /\ ix.g = g)
\* A cached contract that the session, a refresh or a staging generation
\* does not have (for the history variable).
Unnoticed(m, conn, c) ==
    \/ ~conn /\ c # effective[m]
    \/ ServerOf[m] \in ix.got /\ c # ix.snap[m]
    \/ \E g \in WithStatus("staging") :
          /\ gens[g].src[m] # c
          /\ gens[g].src[m] # None \/ (ServerOf[m] \in gens[g].srvs /\ Sourced(g))

\* A new session, or a changed live list of a connected one, is reconciled
\* with the cache in one transaction.
Observe(s, conn) ==
    /\ obs[s].pc = "idle"
    /\ IF conn THEN s \in config \ up
               ELSE s \in up /\ \E m \in ToolsOf(s) : live[m] # seen[m]
    /\ LET tools == Over(NoTools, s, live)
           chg   == SemanticChanged(s, tools)
       IN /\ cache' = Observed(s, tools)
          /\ obs' = [obs EXCEPT ![s] =
                IF conn \/ chg THEN [pc |-> "read", conn |-> conn, chg |-> chg, at |-> tools]
                ELSE IdleObs]
          /\ seen' = IF conn \/ chg THEN seen ELSE Over(seen, s, tools)
          /\ lost' = IF ~chg /\ \E m \in ToolsOf(s) : Unnoticed(m, conn, Observed(s, tools)[m].c)
                     THEN lost \cup {s} ELSE lost
    /\ UNCHANGED <<live, changes, faults, up, effective, inv, dirty, marks, rev, config,
                   servers, gens, arts, ix, flawed>>

\* The session is usable, and the list is not reconciled again.
Finished(s) ==
    /\ obs' = [obs EXCEPT ![s] = IdleObs] /\ up' = up \cup ({s} \cap config)
    /\ seen' = Over(seen, s, obs[s].at)

\* cachedSemanticSnapshot: what InitialTools will return from now on.
ReadEffective(s) ==
    /\ obs[s].pc = "read"
    /\ effective' = Over(effective, s, [m \in Members |-> cache[m].c])
    /\ IF obs[s].chg THEN obs' = [obs EXCEPT ![s].pc = "mark"] /\ UNCHANGED <<up, seen>>
                     ELSE Finished(s)
    /\ UNCHANGED <<live, changes, faults, cache, inv, dirty, marks, rev, config, servers,
                   gens, arts, ix, lost, flawed>>

\* MarkDirty replaces an older marker of the partition.
Mark(s) == /\ marks < MaxMarks /\ marks' = marks + 1
           /\ dirty' = [dirty EXCEPT ![s] = marks + 1]

\* markSemanticToolChange: first the marker, then the routing revision.
ObserverMark(s) ==
    /\ obs[s].pc = "mark" /\ Mark(s)
    /\ obs' = [obs EXCEPT ![s].pc = "advance"]
    /\ UNCHANGED <<live, changes, faults, cache, up, effective, seen, inv, rev, config,
                   servers, gens, arts, ix, lost, flawed>>
ObserverAdvance_MarkerOnly(s) ==
    /\ obs[s].pc = "advance" /\ Finished(s)
    /\ UNCHANGED <<live, changes, faults, cache, effective, inv, dirty, marks, rev, config,
                   servers, gens, arts, ix, lost, flawed>>
ObserverAdvance(s) ==
    /\ obs[s].pc = "advance" /\ rev < MaxRev /\ rev' = rev + 1 /\ Finished(s)
    /\ UNCHANGED <<live, changes, faults, cache, effective, inv, dirty, marks, config,
                   servers, gens, arts, ix, lost, flawed>>

\* An error of the observation ends it; a connection is then closed again.
ObserverError(s) ==
    /\ Fault("error") /\ obs[s].pc # "idle"
    /\ obs' = [obs EXCEPT ![s] = IdleObs]
    /\ lost' = IF obs[s].chg THEN lost \cup {s} ELSE lost
    /\ UNCHANGED <<live, changes, cache, up, effective, seen, inv, dirty, marks,
                   rev, config, servers, gens, arts, ix, flawed>>

\* The lifecycle stops the session of a server.
Disconnect(s) ==
    /\ Fault("drop") /\ s \in up /\ obs[s].pc = "idle"
    /\ up' = up \ {s}
    /\ UNCHANGED <<live, changes, cache, effective, seen, obs, inv, dirty, marks,
                   rev, config, servers, gens, arts, ix, lost, flawed>>

\* executionrouter.Execute finds that a session's tools are not the active
\* generation's and invalidates the server: a marker, then the revision.
RouterMark(s) ==
    /\ Ready /\ s \in up \ inv /\ obs[s].pc = "idle" /\ Mark(s)
    /\ \E g \in Active : \E m \in Present(gens[g].src) \cap ToolsOf(s) :
          effective[m] # gens[g].src[m]
    /\ inv' = inv \cup {s}
    /\ UNCHANGED <<live, changes, faults, cache, up, effective, seen, obs, rev, config,
                   servers, gens, arts, ix, lost, flawed>>
RouterAdvance(s) ==
    /\ s \in inv /\ rev < MaxRev /\ rev' = rev + 1 /\ inv' = inv \ {s}
    /\ UNCHANGED <<live, changes, faults, cache, up, effective, seen, obs, dirty, marks,
                   config, servers, gens, arts, ix, lost, flawed>>

-----------------------------------------------------------------------------
(* The indexing service: refresh                                           *)

IxOnly == UNCHANGED <<live, changes, faults, cache, up, effective, seen, obs, inv, dirty,
                      marks, rev, config, servers, gens, arts, lost, flawed>>
IxGens == UNCHANGED <<live, changes, faults, cache, up, effective, seen, obs, inv, dirty,
                      marks, rev, config, servers, arts, lost, flawed>>
IxArts == UNCHANGED <<live, changes, faults, cache, up, effective, seen, obs, inv, dirty,
                      marks, rev, config, servers, lost, flawed>>
At(pc) == ix.pc = pc
Cur == gens[ix.g]
\* requireStaging, which every write to a generation repeats
InStaging == ix.g \in DOMAIN gens /\ Cur.status = "staging"

\* Refresh: the hash is read, staging generations of another hash are
\* superseded, and the dirty markers are snapshot.
StaleStaging_Kept(g) == FALSE
StaleStaging(g) == gens[g].status = "staging" /\ gens[g].hash # rev
Refresh ==
    /\ ix = Idle /\ Len(gens) < MaxGens
    /\ gens' = [g \in DOMAIN gens |->
                  IF StaleStaging(g) THEN Superseded ELSE gens[g]]
    /\ ix' = [Idle EXCEPT !.op = "refresh", !.pc = "acquire", !.hash = rev,
                          !.before = dirty]
    /\ IxGens

\* acquireIndexSnapshots leases each enabled server and copies its tools.
AcquireSnapshot(s) ==
    /\ At("acquire") /\ s \in servers \ ix.got /\ s \in up
    /\ ix' = [ix EXCEPT !.got = @ \cup {s}, !.snap = Over(@, s, effective)]
    /\ IxOnly
Acquired == At("acquire") /\ servers \subseteq ix.got

\* stagingSourcesChanged
SourcesChanged_CountOnly(g) == Cardinality(Present(g.src)) \notin {0, Cardinality(Present(ix.snap))}
SourcesChanged(g) == /\ Present(g.src) # {} /\ g.src # ix.snap

StageSupersede ==
    /\ Acquired /\ Staging(ix.hash) # {}
    /\ LET g == Newest(Staging(ix.hash))
       IN  SourcesChanged(gens[g]) /\ gens' = [gens EXCEPT ![g] = Superseded]
    /\ UNCHANGED ix /\ IxGens
StageCreate ==
    /\ Acquired /\ Staging(ix.hash) = {}
    /\ gens' = Append(gens, NewGeneration(ix.hash))
    /\ ix' = [ix EXCEPT !.pc = "populate", !.g = Len(gens) + 1, !.todo = Present(ix.snap)]
    /\ IxGens
StageReuse ==
    /\ Acquired /\ Staging(ix.hash) # {}
    /\ LET g == Newest(Staging(ix.hash))
       IN  /\ ~SourcesChanged(gens[g])
           /\ ix' = [ix EXCEPT !.pc = "populate", !.g = g, !.todo = Present(ix.snap)]
           /\ flawed' = IF gens[g].cap.made /\ gens[g].src # ix.snap
                        THEN flawed \cup {g} ELSE flawed
    /\ UNCHANGED <<live, changes, faults, cache, up, effective, seen, obs, inv, dirty,
                   marks, rev, config, servers, gens, arts, lost>>

\* The loops over tools take them one by one, in a fixed order.
NextTool == CHOOSE m \in ix.todo : TRUE

\* populateBaseIndexFromSnapshots: a server's row, then, tool by tool, the
\* source row and the two embeddings.  What a reused generation already has
\* is kept.
PopulateServer(s) ==
    /\ At("populate") /\ InStaging /\ s \in ix.got \ Cur.srvs
    /\ \A m \in ix.todo : ServerOf[m] \notin Cur.srvs
    /\ gens' = [gens EXCEPT ![ix.g].srvs = @ \cup {s}]
    /\ UNCHANGED ix /\ IxGens
Further_Unbounded(n) == n + 1
Further(n) == IF n < Built THEN n + 1 ELSE n
PopulateTool ==
    /\ At("populate") /\ InStaging /\ \E m \in ix.todo : ServerOf[m] \in Cur.srvs
    /\ LET m == CHOOSE t \in ix.todo : ServerOf[t] \in Cur.srvs
       IN /\ gens' = [gens EXCEPT ![ix.g].src[m] = ix.snap[m],
                ![ix.g].built[m] = IF Cur.src[m] # ix.snap[m] THEN 1
                                   ELSE Further(Cur.built[m])]
          /\ ix' = [ix EXCEPT !.todo = IF gens'[ix.g].built[m] = Built THEN @ \ {m} ELSE @]
    /\ IxGens
PopulateDone ==
    /\ At("populate") /\ InStaging /\ ix.todo = {} /\ ix.got \subseteq Cur.srvs
    /\ ix' = [ix EXCEPT !.pc = "prep"] /\ flawed' = IF Cur.cap.made THEN flawed ELSE flawed \ {ix.g}
    /\ UNCHANGED <<live, changes, faults, cache, up, effective, seen, obs, inv, dirty, marks,
                   rev, config, servers, gens, arts, lost>>

-----------------------------------------------------------------------------
(* Enrichment coordinator                                                  *)

\* PrepareToolEnrichment is done: a refresh goes on to the dirty markers.
ToolsPrepared == IF ix.op = "refresh" THEN [ix EXCEPT !.pc = "clear"] ELSE Idle

\* PrepareToolEnrichment: batches that exist are repaired, otherwise every
\* source tool is required and reusable guidance is attached.
PrepRepair ==
    /\ At("prep") /\ InStaging /\ Cur.tb # <<>>
    /\ ix' = [ix EXCEPT !.pc = "repair", !.batch = 0]
    /\ IxOnly
PrepStart ==
    /\ At("prep") /\ InStaging /\ Cur.tb = <<>>
    /\ \A m \in Present(Cur.src) : Cur.built[m] >= Described
    /\ gens' = [gens EXCEPT ![ix.g].want = Cur.src]
    /\ ix' = [ix EXCEPT !.pc = "reuse", !.todo = Present(Cur.src)]
    /\ IxGens
ReusableTool(c) == {g \in Guides : <<c, g>> \in arts.tool}
PrepReuse ==
    /\ At("reuse") /\ ix.todo # {} /\ InStaging /\ Cur.guid[NextTool] = None
    /\ IF ReusableTool(Cur.src[NextTool]) = {}
       THEN /\ gens' = [gens EXCEPT ![ix.g].req = @ \cup {NextTool}]
            /\ ix' = [ix EXCEPT !.todo = @ \ {NextTool}]
       ELSE /\ \E g \in ReusableTool(Cur.src[NextTool]) :
                 gens' = [gens EXCEPT ![ix.g].req = @ \cup {NextTool},
                                      ![ix.g].guid[NextTool] = g]
            /\ UNCHANGED ix
    /\ IxGens
PrepEmbed ==
    /\ At("reuse") /\ ix.todo # {} /\ InStaging /\ Cur.guid[NextTool] # None
    /\ gens' = [gens EXCEPT ![ix.g].emb = @ \cup {NextTool}]
    /\ ix' = [ix EXCEPT !.todo = @ \ {NextTool}]
    /\ IxGens

\* The tools without guidance, cut into batches of at most BatchSize.
Batches(P, parts) ==
    /\ \A i \in DOMAIN parts : parts[i].resp = None
    /\ \A i, j \in DOMAIN parts : i # j => parts[i].items \cap parts[j].items = {}
    /\ UNION {parts[i].items : i \in DOMAIN parts} = P
    /\ \A i \in DOMAIN parts : Cardinality(parts[i].items) =
           IF i < Len(parts) THEN BatchSize ELSE Cardinality(P) - BatchSize * (Len(parts) - 1)
BatchCount(P) == (Cardinality(P) + BatchSize - 1) \div BatchSize
PrepBatches ==
    /\ At("reuse") /\ ix.todo = {} /\ InStaging
    /\ LET P == {m \in Present(Cur.src) : Cur.guid[m] = None}
       IN \E parts \in [1..BatchCount(P) -> [items : SUBSET P, resp : {None}]] :
             /\ Batches(P, parts)
             /\ gens' = [gens EXCEPT ![ix.g].tb = parts]
    /\ ix' = ToolsPrepared
    /\ IxGens

\* repairAcceptedBatches submits each accepted answer again.
RepairNext ==
    /\ At("repair")
    /\ LET todo == {i \in DOMAIN Cur.tb : i > ix.batch /\ Cur.tb[i].resp # None}
       IN ix' = IF todo = {} THEN ToolsPrepared
                ELSE [ix EXCEPT !.pc = "material", !.batch = Min(todo),
                                !.todo = Cur.tb[Min(todo)].items]
    /\ IxOnly

\* An accepted answer becomes, tool by tool, a stored artifact that is
\* attached, and then an enriched embedding.
Materialised(m) == LET g == Cur.tb[ix.batch].resp
                   IN Cur.guid[m] = g /\ <<Cur.src[m], g>> \in arts.tool
MaterialGuide ==
    /\ At("material") /\ ix.todo # {} /\ InStaging /\ ~Materialised(NextTool)
    /\ LET g == Cur.tb[ix.batch].resp
       IN /\ arts' = [arts EXCEPT !.tool = @ \cup {<<Cur.src[NextTool], g>>}]
          /\ gens' = [gens EXCEPT ![ix.g].guid[NextTool] = g]
    /\ UNCHANGED ix /\ IxArts
MaterialEmbed ==
    /\ At("material") /\ ix.todo # {} /\ InStaging /\ Materialised(NextTool)
    /\ gens' = [gens EXCEPT ![ix.g].emb = @ \cup {NextTool}]
    /\ ix' = [ix EXCEPT !.todo = @ \ {NextTool}]
    /\ IxGens
MaterialDone ==
    /\ At("material") /\ ix.todo = {}
    /\ ix' = IF ix.op # "submit" THEN [ix EXCEPT !.pc = "repair"]
             ELSE IF PendingTool(Cur) = {} THEN [ix EXCEPT !.pc = "cap"] ELSE Idle
    /\ IxOnly

\* PrepareCapabilityReconciliation is done: a commit goes on to its counts.
CapPrepared == IF ix.op = "commit" THEN [ix EXCEPT !.pc = "counts"] ELSE Idle
\* PrepareCapabilityReconciliation: one batch over all tools, once each of
\* them has its guidance; its request is the guidance it was made from.
CapReady == /\ PendingTool(Cur) = {}
            /\ \A m \in Present(Cur.src) : Cur.guid[m] # None
CapCreate ==
    /\ At("cap") /\ InStaging /\ ~Cur.cap.made /\ CapReady
    /\ gens' = [gens EXCEPT ![ix.g].cap.made = TRUE, ![ix.g].cap.req = Cur.guid,
                            ![ix.g].want = Cur.src]
    /\ ix' = [ix EXCEPT !.pc = "capreuse"]
    /\ IxGens
CapReuse ==
    /\ At("capreuse") /\ InStaging
    /\ LET H == {h \in Guides : <<Cur.src, Cur.cap.req, h>> \in arts.cap}
       IN IF H = {} THEN ix' = CapPrepared /\ UNCHANGED gens
          ELSE \E h \in H : /\ gens' = [gens EXCEPT ![ix.g].cap.resp = h]
                            /\ ix' = [ix EXCEPT !.pc = "capfulfil"]
    /\ IxGens
CapExists ==
    /\ At("cap") /\ InStaging /\ Cur.cap.made
    /\ ix' = IF Cur.cap.resp = None THEN CapPrepared ELSE [ix EXCEPT !.pc = "capfulfil"]
    /\ IxOnly
\* submitCapabilityBatch after acceptance: the reviews, the hierarchy, the
\* attachment (which needs the guidance still to be the request's), the gate.
CapMatches == \A m \in Members : Cur.cap.req[m] # None => Cur.guid[m] = Cur.cap.req[m]
CapFulfil ==
    /\ At("capfulfil") /\ InStaging /\ CapMatches
    /\ arts' = [arts EXCEPT !.cap = @ \cup {<<Cur.src, Cur.cap.req, Cur.cap.resp>>}]
    /\ \E r \in (IF ix.op = "submit" /\ Cur.review = "none" THEN {"none", "open"} ELSE {Cur.review}) :
         gens' = [gens EXCEPT ![ix.g].cap.done = TRUE, ![ix.g].have = Cur.src,
                                 ![ix.g].review = r]
    /\ ix' = CapPrepared
    /\ IxArts

-----------------------------------------------------------------------------
(* The indexing service: dirty markers, batches, commit, clear             *)

\* ClearDirtyIfUnchanged
ClearDirty_Always(s) == 0
ClearDirty(s) == IF dirty[s] = ix.before[s] THEN 0 ELSE dirty[s]
\* reconcileObservedDirtyPartitions, marker by marker, for servers that were
\* rebuilt, are disabled or are gone.
ReconcileDirty(s) ==
    /\ At("clear") /\ ix.before[s] # 0 /\ (s \in servers => s \in ix.got)
    /\ dirty' = [dirty EXCEPT ![s] = ClearDirty(s)]
    /\ ix' = [ix EXCEPT !.before[s] = 0]
    /\ UNCHANGED <<live, changes, faults, cache, up, effective, seen, obs, inv, marks, rev,
                   config, servers, gens, arts, lost, flawed>>
ReconcileDone == /\ At("clear") /\ \A s \in Servers : ix.before[s] = 0
                 /\ ix' = Idle /\ IxOnly

\* currentStaging: the operations on batches need the newest staging
\* generation of the current hash.
Begin(op, pc) ==
    /\ ix = Idle /\ Staging(rev) # {}
    /\ ix' = [Idle EXCEPT !.op = op, !.pc = pc, !.g = Newest(Staging(rev))]
    /\ IxOnly
GetToolBatch == Begin("getbatch", "prep")
GetCapBatch  == Begin("getbatch", "cap")
Commit       == Begin("commit", "cap")

\* SubmitBatch of tool work: the first answer is accepted, the same answer
\* again repairs what it left undone, another answer is refused.
Acceptable_Any(old, r) == TRUE
Acceptable(old, r) == old \in {None, r}
SubmitTool(g, i, r) ==
    /\ ix = Idle /\ gens[g].status = "staging" /\ Acceptable(gens[g].tb[i].resp, r)
    /\ gens' = [gens EXCEPT ![g].tb[i].resp = r]
    /\ ix' = [Idle EXCEPT !.op = "submit", !.pc = "material", !.g = g, !.batch = i,
                          !.todo = gens[g].tb[i].items]
    /\ IxGens
SubmitCap(g, r) ==
    /\ ix = Idle /\ gens[g].status = "staging"
    /\ gens[g].cap.made /\ Acceptable(gens[g].cap.resp, r)
    /\ gens' = [gens EXCEPT ![g].cap.resp = r]
    /\ ix' = [Idle EXCEPT !.op = "submit", !.pc = "capfulfil", !.g = g]
    /\ IxGens
\* An ambiguity review may be answered on a staging or an active generation.
SubmitReview(g) ==
    /\ ix = Idle /\ gens[g].status # "superseded" /\ gens[g].review = "open"
    /\ gens' = [gens EXCEPT ![g].review = "closed"]
    /\ UNCHANGED ix /\ IxGens

\* Commit reads the hash again, once no required work is pending.
CommitCheck ==
    /\ At("counts") /\ ix.op = "commit" /\ PendingRequired(Cur) = 0
    /\ ix' = [ix EXCEPT !.pc = "promote", !.hash = rev]
    /\ IxOnly

Complete_NoEmbedding(g) == /\ \A m \in Present(g.src) : g.built[m] \notin Open
                           /\ g.want # None => g.have = g.want
                           /\ g.cap.made => g.cap.done
\* The checks of Promote on members, dependencies and artifacts.
Complete(g) == /\ \A m \in Present(g.src) : g.built[m] \notin Open
               /\ g.req \subseteq g.emb
               /\ g.want # None => g.have = g.want
               /\ g.cap.made => g.cap.done
Promotable == InStaging /\ Cur.hash = ix.hash /\ NoDirty /\ Complete(Cur)
Promote ==
    /\ At("promote") /\ Promotable
    /\ gens' = [g \in DOMAIN gens |->
                  IF g = ix.g THEN [gens[g] EXCEPT !.status = "active"]
                  ELSE IF gens[g].status = "active" THEN Superseded
                  ELSE gens[g]]
    /\ ix' = Idle
    /\ IxGens

\* An operation returns an error: a check that failed, or a fault of a
\* downstream server or of the embedding provider.
Refused == \/ ~InStaging /\ ix.pc \notin {"acquire", "clear"}
           \/ At("prep") /\ Cur.tb = <<>> /\ \E m \in Present(Cur.src) : Cur.built[m] < Described
           \/ At("cap") /\ ~Cur.cap.made /\ ~CapReady
           \/ At("capfulfil") /\ ~CapMatches
           \/ At("counts") /\ ix.op = "commit" /\ PendingRequired(Cur) # 0
           \/ At("promote") /\ ~Promotable
CutNow == IF At("populate") THEN flawed \cup {ix.g} ELSE flawed
External == {"acquire", "populate", "reuse", "material"}
Fail == /\ ix # Idle
        /\ \/ Refused /\ UNCHANGED faults
           \/ ix.pc \in External /\ Fault("error")
        /\ ix' = Idle /\ flawed' = CutNow
        /\ UNCHANGED <<live, changes, cache, up, effective, seen, obs, inv, dirty,
                       marks, rev, config, servers, gens, arts, lost>>

\* Clear: one transaction, under Service.mu.
Clear ==
    /\ Fault("clear") /\ ix = Idle
    /\ gens' = <<>> /\ arts' = [tool |-> {}, cap |-> {}]
    /\ cache' = [m \in Members |-> [c |-> None, avail |-> FALSE]]
    /\ dirty' = [s \in Servers |-> 0]
    /\ lost' = lost \cup {s \in Servers : obs[s].pc # "idle"} /\ flawed' = {}
    /\ UNCHANGED <<live, changes, up, effective, seen, obs, inv, marks, rev, config,
                   servers, ix>>

-----------------------------------------------------------------------------
(* Configuration, crash and a corrupt database                             *)

\* V2App.SaveServers: the coordinator saves the entries and advances the
\* revision; only then the indexing service learns of them.
SaveServers(S) ==
    /\ Fault("config") /\ S # config /\ config = servers /\ rev < MaxRev
    /\ config' = S /\ rev' = rev + 1 /\ up' = up \cap S
    /\ UNCHANGED <<live, changes, cache, effective, seen, obs, inv, dirty, marks,
                   servers, gens, arts, ix, lost, flawed>>
SetServers ==
    /\ config # servers /\ ix = Idle /\ servers' = config
    /\ UNCHANGED <<live, changes, faults, cache, up, effective, seen, obs, inv, dirty, marks,
                   rev, config, gens, arts, ix, lost, flawed>>

Restarted ==
    /\ up' = {} /\ effective' = NoTools /\ seen' = NoTools
    /\ obs' = [s \in Servers |-> IdleObs] /\ inv' = {} /\ ix' = Idle
    /\ servers' = config
Crash ==
    /\ Fault("crash") /\ Restarted
    /\ lost' = lost \cup inv \cup {s \in Servers : obs[s].chg} /\ flawed' = CutNow
    /\ UNCHANGED <<live, changes, cache, dirty, marks, rev, config, gens, arts>>

\* OpenPath finds a corrupt database, sets it aside and starts a clean one;
\* the routing state in it begins a new epoch.
OpenCorrupt ==
    /\ Fault("corrupt") /\ rev < MaxRev /\ Restarted
    /\ gens' = <<>> /\ arts' = [tool |-> {}, cap |-> {}]
    /\ cache' = [m \in Members |-> [c |-> None, avail |-> FALSE]]
    /\ dirty' = [s \in Servers |-> 0] /\ lost' = {} /\ flawed' = {} /\ rev' = rev + 1
    /\ UNCHANGED <<live, changes, marks, config>>

-----------------------------------------------------------------------------
Observer(s) == \/ \E conn \in BOOLEAN : Observe(s, conn)
               \/ ReadEffective(s) \/ ObserverMark(s) \/ ObserverAdvance(s)
               \/ ObserverError(s) \/ Disconnect(s)
               \/ RouterMark(s) \/ RouterAdvance(s)

RefreshStep == \/ Refresh \/ StageSupersede \/ StageCreate \/ StageReuse
               \/ PopulateTool \/ PopulateDone \/ ReconcileDone
               \/ \E s \in Servers : AcquireSnapshot(s) \/ PopulateServer(s) \/ ReconcileDirty(s)

EnrichStep == \/ PrepRepair \/ PrepStart \/ PrepBatches \/ RepairNext \/ MaterialDone
              \/ CapCreate \/ CapReuse \/ CapExists \/ CapFulfil
              \/ PrepReuse \/ PrepEmbed \/ MaterialGuide \/ MaterialEmbed

AgentStep == \/ GetToolBatch \/ GetCapBatch \/ Commit \/ CommitCheck \/ Promote
             \/ \E g \in DOMAIN gens :
                  \/ SubmitReview(g)
                  \/ \E r \in Guides : \/ SubmitCap(g, r)
                                       \/ \E i \in DOMAIN gens[g].tb : SubmitTool(g, i, r)

Next == \/ \E s \in Servers : Observer(s)
        \/ \E m \in Members, c \in Contracts \cup {None} : LiveChange(m, c)
        \/ RefreshStep \/ EnrichStep \/ AgentStep \/ Fail \/ Clear
        \/ \E S \in SUBSET Servers : SaveServers(S)
        \/ SetServers \/ Crash \/ OpenCorrupt

Spec == Init /\ [][Next]_vars
-----------------------------------------------------------------------------
(* Properties                                                              *)

ToolList == [Members -> Contracts \cup {None}]
Answers  == [Members -> Guides \cup {None}]
Phases == {"idle", "acquire", "populate", "prep", "reuse", "repair", "material",
           "cap", "capreuse", "capfulfil", "counts", "promote", "clear"}
Generations ==
    [status : {"staging", "active", "superseded"}, hash : Nat, srvs : SUBSET Servers,
     src : ToolList, built : [Members -> 0..Built], req : SUBSET Members,
     guid : Answers, emb : SUBSET Members,
     tb : Seq([items : SUBSET Members, resp : Guides \cup {None}]),
     cap : [made : BOOLEAN, req : Answers, resp : Guides \cup {None}, done : BOOLEAN],
     want : ToolList \cup {None}, have : ToolList \cup {None},
     review : {"none", "open", "closed"}]

\* The type of every variable: catalog rows, sessions, and the operation.
TypeOK ==
    /\ live \in ToolList /\ effective \in ToolList /\ seen \in ToolList
    /\ cache \in [Members -> [c : Contracts \cup {None}, avail : BOOLEAN]]
    /\ {changes, faults, marks, rev} \subseteq Nat /\ dirty \in [Servers -> Nat]
    /\ {up, inv, config, servers, lost} \subseteq SUBSET Servers
    /\ obs \in [Servers -> [pc : {"idle", "read", "mark", "advance"}, conn : BOOLEAN,
                            chg : BOOLEAN, at : ToolList]]
    /\ gens \in Seq(Generations) /\ flawed \subseteq DOMAIN gens
    /\ arts \in [tool : SUBSET (Contracts \X Guides), cap : SUBSET (ToolList \X Answers \X Guides)]
    /\ ix \in [op : {"idle", "refresh", "getbatch", "submit", "commit"}, pc : Phases,
               g : 0..Len(gens), hash : Nat, before : [Servers -> Nat], snap : ToolList,
               got : SUBSET Servers, todo : SUBSET Members, batch : Nat]

\* However refreshes, commits, crashes and configuration changes interleave,
\* at most one generation is active and at most one is being built.
OneOfEach == Cardinality(Active) <= 1 /\ Cardinality(WithStatus("staging")) <= 1

\* The guidance attached to a tool was given for the very contract the
\* generation has for it, also when a refresh takes over a staging generation
\* whose sources changed after it was enriched (stagingSourcesChanged).
GuidanceFitsSource ==
    \A g \in DOMAIN gens : \A m \in Members :
        gens[g].guid[m] # None => <<gens[g].src[m], gens[g].guid[m]>> \in arts.tool

\* The guidance attached to a tool of a batch is the batch's accepted answer,
\* through retries, repairs after a crash and repeated submissions.
AttachedIsAnswered ==
    \A g \in DOMAIN gens : \A i \in DOMAIN gens[g].tb : \A m \in gens[g].tb[i].items :
        gens[g].guid[m] \in {None, gens[g].tb[i].resp}

\* When the index is ready, every connected session offers exactly the
\* contracts of the active generation, unless the session's change is being
\* recorded right now, its recording was cut off (lost), or the generation
\* comes from a population that was cut off.
ReadyMatchesSessions ==
    Ready => \A g \in Active \ flawed : \A m \in Members :
        LET s == ServerOf[m]
        IN s \in (gens[g].srvs \cap up \cap servers) \ (lost \cup inv) /\ obs[s].pc \notin {"mark", "advance"}
           => effective[m] = gens[g].src[m]

\* A commit never publishes sources older than a marker that has been written
\* and whose revision is still to come (ClearDirtyIfUnchanged).
PromotedFresh ==
    [][\A g \in Active' \ (Active \cup flawed) : \A m \in Members :
          LET s == ServerOf[m]
          IN s \in (gens[g].srvs \cap servers) \ lost /\ obs[s].pc = "advance"
             => effective[m] = gens'[g].src[m]]_vars

\* What discovery and execution see of the catalog, apart from flawed
\* generations.
Published ==
    IF Active \ flawed = {} THEN None
    ELSE LET id == CHOOSE i \in Active \ flawed : TRUE
             g  == gens[id]
         IN [id |-> id, src |-> g.src, guid |-> g.guid, vectors |-> g.emb,
             basis |-> g.cap.req, hierarchy |-> IF g.cap.done THEN g.cap.resp ELSE None]
Contract == INSTANCE IndexContract WITH Tools <- Members, Sources <- Contracts,
                                        Answers <- Guides, index <- Published

\* The catalog implements the contract of a published index: it changes as a
\* whole, never in place, and is whole whenever it is published.
PublishesWhole == Contract!Spec

\* Whatever is active has every source its configured, connected sessions
\* offer and both vectors of each: a coherent view of the tool catalog.
ActiveCoherent ==
    Ready => \A g \in Active : \A m \in Members :
        /\ gens[g].src[m] # None => gens[g].built[m] = Built
        /\ ServerOf[m] \in up /\ live[m] # None => gens[g].src[m] # None

=============================================================================

--------------------------- MODULE CatalogProofs ---------------------------
(***************************************************************************)
(* Proofs about the semantic index: one generation is active and one is    *)
(* being built, guidance fits the tool and the answer it came with, and    *)
(* what is published implements IndexContract; for any servers, tools,     *)
(* contracts, answers, batch size and faults.                              *)
(***************************************************************************)
EXTENDS Catalog, FiniteSetTheorems, WellFoundedInduction, TLAPS

\* A batch of tool work.
Batch == [items : SUBSET Members, resp : Guides \cup {None}]

\* The rows of a generation, given the tool artifacts T: guidance is attached
\* only to a required tool and fits its source; a batch is about required
\* source tools that no other batch is about, and its answer alone is attached;
\* a hierarchy that is done has an answer.
Fits(r, T) ==
    \A m \in Members : r.guid[m] # None => <<r.src[m], r.guid[m]>> \in T /\ m \in r.req
Batched(r) ==
    /\ \A i \in DOMAIN r.tb : \A m \in r.tb[i].items :
          r.src[m] # None /\ m \in r.req /\ r.guid[m] \in {None, r.tb[i].resp}
    /\ \A i, j \in DOMAIN r.tb : i # j => r.tb[i].items \cap r.tb[j].items = {}
RowOK(r, T) == Fits(r, T) /\ Batched(r) /\ (r.cap.done = TRUE => r.cap.resp # None)

\* The capability batch was made from the guidance of every source.
CapOK(r) ==
    r.cap.made = TRUE => r.cap.req = r.guid /\ \A m \in Members : r.src[m] # None => r.guid[m] # None

Rows == \A g \in DOMAIN gens : RowOK(gens[g], arts.tool)
Caps == \A g \in DOMAIN gens \ flawed : CapOK(gens[g])

\* One generation is being built, and it is newer than the one that is active.
Unique ==
    /\ \A g, h \in WithStatus("staging") : g = h
    /\ \A g, h \in Active : g = h
    /\ \A g \in WithStatus("staging"), h \in Active : h < g

ActiveWhole ==
    \A g \in Active \ flawed :
        /\ gens[g].cap.made = TRUE /\ gens[g].cap.done = TRUE
        /\ gens[g].req \subseteq gens[g].emb

\* Where the operation that holds Service.mu stands, with generation r.
StageOK(w, r, F) ==
    /\ w.pc = "populate" =>
         /\ \A m \in w.todo : w.snap[m] # None
         /\ \A m \in Members : r.src[m] \in {None, w.snap[m]}
         /\ r.cap.made = TRUE /\ w.g \notin F => r.src = w.snap
    /\ w.pc = "reuse" =>
         /\ r.tb = <<>> /\ \A m \in w.todo : r.src[m] # None
         /\ \A m \in Members \ w.todo : r.src[m] # None => m \in r.req
    /\ w.pc = "material" =>
         w.batch \in DOMAIN r.tb /\ r.tb[w.batch].resp # None /\ w.todo \subseteq r.tb[w.batch].items
    /\ w.pc \in {"capreuse", "capfulfil", "counts", "promote"} => r.cap.made = TRUE
    /\ w.pc = "capfulfil" => r.cap.resp # None
Stage ==
    /\ ix.pc \notin {"idle", "acquire"} => InStaging /\ StageOK(ix, Cur, flawed)
    /\ ix.pc = "acquire" => \A g \in WithStatus("staging") : gens[g].hash = ix.hash

IInv == TypeOK /\ Rows /\ Caps /\ Unique /\ ActiveWhole /\ Stage

-----------------------------------------------------------------------------
(* Types, in three parts.                                                  *)

IxType(n) ==
    [op : {"idle", "refresh", "getbatch", "submit", "commit"}, pc : Phases,
     g : 0 .. n, hash : Nat, before : [Servers -> Nat], snap : ToolList,
     got : SUBSET Servers, todo : SUBSET Members, batch : Nat]
ObsType == [pc : {"idle", "read", "mark", "advance"}, conn : BOOLEAN, chg : BOOLEAN, at : ToolList]
TypeObs ==
    /\ live \in ToolList /\ effective \in ToolList /\ seen \in ToolList
    /\ cache \in [Members -> [c : Contracts \cup {None}, avail : BOOLEAN]]
    /\ changes \in Nat /\ faults \in Nat /\ marks \in Nat /\ rev \in Nat /\ dirty \in [Servers -> Nat]
    /\ up \subseteq Servers /\ inv \subseteq Servers /\ config \subseteq Servers
    /\ servers \subseteq Servers /\ lost \subseteq Servers
    /\ obs \in [Servers -> ObsType]
ArtType == [tool : SUBSET (Contracts \X Guides), cap : SUBSET (ToolList \X Answers \X Guides)]
TypeRows ==
    /\ gens \in Seq(Generations) /\ flawed \subseteq DOMAIN gens
    /\ arts \in ArtType
TypeIx == ix \in IxType(Len(gens))

\* The type invariant is its three parts,
LEMMA TypeParts == TypeOK <=> TypeObs /\ TypeRows /\ TypeIx
  BY DEF TypeOK, TypeObs, TypeRows, TypeIx, IxType, ObsType, ArtType

\* also after a step.
LEMMA TypePartsPrime == TypeOK' <=> TypeObs' /\ TypeRows' /\ TypeIx'
  BY DEF TypeOK, TypeObs, TypeRows, TypeIx, IxType, ObsType, ArtType

\* What observers, the router and the configuration write; what the indexing
\* service writes.
outVars == <<live, changes, faults, cache, up, effective, seen, obs, inv, dirty, marks, rev,
             config, servers, lost>>
inVars  == <<gens, arts, ix, flawed>>

\* Indexing leaves the types of the observers alone,
LEMMA ObsStands == TypeObs /\ UNCHANGED outVars => TypeObs'
  BY DEF TypeObs, outVars, ObsType, ToolList

\* and the observers those of the generations.
LEMMA RowsStand == TypeRows /\ TypeIx /\ UNCHANGED inVars => TypeRows' /\ TypeIx'
  BY DEF TypeRows, TypeIx, inVars

\* The generations are a sequence.
LEMMA GensIsSeq ==
    TypeRows => /\ DOMAIN gens = 1 .. Len(gens) /\ Len(gens) \in Nat
                /\ \A g \in DOMAIN gens : gens[g] \in Generations
<1> SUFFICES ASSUME TypeRows PROVE /\ DOMAIN gens = 1 .. Len(gens) /\ Len(gens) \in Nat
                                   /\ \A g \in DOMAIN gens : gens[g] \in Generations
  OBVIOUS
<1>1. gens \in Seq(Generations)
  BY DEF TypeRows
<1> QED BY <1>1

\* The empty tool list.
LEMMA NoToolsType == NoTools \in ToolList /\ NoTools \in Answers
  BY DEF NoTools, ToolList, Answers

\* A tool list with the tools of one server replaced.
LEMMA OverType ==
    ASSUME NEW f \in ToolList, NEW h \in ToolList, NEW s
    PROVE  Over(f, s, h) \in ToolList
  BY DEF Over, ToolList

\* The state of an indexing service that does nothing.
LEMMA IdleType == \A n \in Nat : Idle \in IxType(n) /\ Idle.pc = "idle" /\ Idle.g = 0
<1>1. /\ [s \in Servers |-> 0] \in [Servers -> Nat]
      /\ {} \subseteq Servers /\ {} \subseteq Members
  OBVIOUS
<1> QED BY <1>1, NoToolsType DEF Idle, IxType, Phases

\* The state of an observer that does nothing.
LEMMA IdleObsType == IdleObs \in ObsType
  BY NoToolsType DEF IdleObs, ObsType

-----------------------------------------------------------------------------
(* Least and greatest elements.                                            *)
LEMMA Least ==
    ASSUME NEW T, T \subseteq Nat, T # {}
    PROVE  \E x \in T : \A y \in T : x <= y
<1>1. PICK x \in T : \A y \in T : ~(<<y, x>> \in OpToRel(<, Nat))
  BY WFMin, NatLessThanWellFounded
<1>2. \A y \in T : ~(y < x)
  BY <1>1 DEF OpToRel
<1> QED BY <1>2

\* The least element of a set of numbers is in it.
LEMMA MinIsIn ==
    ASSUME NEW T, T \subseteq Nat, T # {}
    PROVE  Min(T) \in T
<1>1. \E x \in T : \A y \in T : x <= y
  BY Least
<1> QED BY <1>1 DEF Min

(* The least upper bound of a set of numbers is in it.                     *)
LEMMA NewestIsIn ==
    ASSUME NEW n \in Nat, NEW T, T \subseteq 0 .. n, T # {}
    PROVE  Newest(T) \in T /\ \A y \in T : y <= Newest(T)
<1> DEFINE U == {b \in Nat : \A y \in T : y <= b}
<1>1. n \in U
  OBVIOUS
<1>2. PICK b \in U : \A d \in U : b <= d
  BY <1>1, Least
<1>3. b \in T
  <2> SUFFICES ASSUME b \notin T PROVE FALSE
    OBVIOUS
  <2>1. \A y \in T : y \in Nat /\ y <= b /\ y # b
    BY <1>2
  <2>2. PICK y \in T : TRUE
    OBVIOUS
  <2>3. b \in Nat /\ b # 0
    BY <1>2, <2>1, <2>2
  <2>4. b - 1 \in U
    BY <2>1, <2>3
  <2> QED BY <1>2, <2>3, <2>4
<1>4. \E x \in T : \A y \in T : x >= y
  BY <1>2, <1>3
<1>5. Max(T) \in T /\ \A y \in T : Max(T) >= y
  BY <1>4 DEF Max
<1> QED BY <1>5 DEF Newest

-----------------------------------------------------------------------------
(* A step of an observer, the router or the configuration leaves the index *)
(* alone.                                                                  *)
LEMMA OutsideStep ==
    ASSUME IInv, TypeObs', UNCHANGED inVars
    PROVE  IInv'
<1>1. TypeOK'
  BY RowsStand, TypeParts, TypePartsPrime DEF IInv
<1>2. Rows' /\ Caps'
  BY DEF IInv, inVars, Rows, Caps
<1>3. Unique' /\ ActiveWhole'
  BY DEF IInv, inVars, Unique, ActiveWhole, Active, WithStatus
<1>4. Stage'
  BY DEF IInv, inVars, Stage, InStaging, Cur, WithStatus
<1> QED BY <1>1, <1>2, <1>3, <1>4 DEF IInv

\* The contract a generation has of a tool.
LEMMA AuthoritativeType ==
    ASSUME TypeRows, NEW st, NEW m \in Members
    PROVE  Authoritative(st, m) \in Contracts \cup {None}
<1> DEFINE G == {g \in WithStatus(st) : gens[g].src[m] # None}
<1>1. /\ DOMAIN gens = 1 .. Len(gens) /\ Len(gens) \in Nat
      /\ \A g \in DOMAIN gens : gens[g] \in Generations
  BY GensIsSeq
<1>2. G \subseteq DOMAIN gens
  BY DEF WithStatus
<1>3. G # {} => Newest(G) \in DOMAIN gens
  <2>1. G \subseteq 0 .. Len(gens)
    BY <1>1, <1>2
  <2> HIDE DEF G
  <2> QED BY <1>1, <1>2, <2>1, NewestIsIn
<1>4. \A g \in DOMAIN gens : gens[g].src[m] \in Contracts \cup {None}
  BY <1>1 DEF Generations, ToolList
<1>5. Authoritative(st, m) = IF G = {} THEN None ELSE gens[Newest(G)].src[m]
  BY DEF Authoritative
<1> HIDE DEF G
<1> QED BY <1>3, <1>4, <1>5

\* The tool cache after an observation.
LEMMA CacheType ==
    ASSUME TypeObs, TypeRows, NEW s, NEW tools \in ToolList
    PROVE  Observed(s, tools) \in [Members -> [c : Contracts \cup {None}, avail : BOOLEAN]]
<1> DEFINE R == [c : Contracts \cup {None}, avail : BOOLEAN]
<1>1. \A m \in Members : Seeded(m) \in R
  BY AuthoritativeType DEF Seeded, TypeObs
<1>2. \A m \in Members : Canonical(m, tools[m]) \in Contracts \cup {None}
  <2> TAKE m \in Members
  <2>1. Seeded(m).c \in Contracts \cup {None}
    BY <1>1
  <2>2. tools[m] \in Contracts \cup {None}
    BY DEF ToolList
  <2> QED BY <2>1, <2>2, AuthoritativeType DEF Canonical
<1>3. \A m \in Members : [Seeded(m) EXCEPT !.avail = FALSE] \in R
  BY <1>1
<1>4. \A m \in Members : [c |-> Canonical(m, tools[m]), avail |-> TRUE] \in R
  BY <1>2
<1>5. \A m \in Members : cache[m] \in R
  BY DEF TypeObs
<1> QED BY <1>3, <1>4, <1>5 DEF Observed

\* An observation writes the cache only.
LEMMA ObserveStep ==
    ASSUME IInv, NEW s \in Servers, NEW conn \in BOOLEAN, Observe(s, conn)
    PROVE  IInv'
<1>1. TypeObs /\ TypeRows
  BY TypeParts DEF IInv
<1> DEFINE tools == Over(NoTools, s, live)
           chg == SemanticChanged(s, tools)
<1>2. tools \in ToolList
  BY <1>1, NoToolsType, OverType DEF TypeObs
<1>3. chg \in BOOLEAN
  BY DEF SemanticChanged
<1>4. [pc |-> "read", conn |-> conn, chg |-> chg, at |-> tools] \in ObsType
  BY <1>2, <1>3 DEF ObsType
<1>5. cache' = Observed(s, tools)
  BY DEF Observe
<1>6. cache' \in [Members -> [c : Contracts \cup {None}, avail : BOOLEAN]]
  BY <1>1, <1>2, <1>5, CacheType
<1>7. obs' \in [Servers -> ObsType]
  <2>1. \/ obs' = [obs EXCEPT ![s] = [pc |-> "read", conn |-> conn, chg |-> chg, at |-> tools]]
        \/ obs' = [obs EXCEPT ![s] = IdleObs]
    BY DEF Observe
  <2> QED BY <1>1, <1>4, <2>1, IdleObsType DEF TypeObs
<1>8. seen' \in ToolList
  <2>1. seen' \in {seen, Over(seen, s, tools)}
    BY DEF Observe
  <2>2. Over(seen, s, tools) \in ToolList
    BY <1>1, <1>2, OverType DEF TypeObs
  <2> QED BY <1>1, <2>1, <2>2 DEF TypeObs
<1>9. lost' \subseteq Servers
  <2>1. lost' \in {lost, lost \cup {s}}
    BY DEF Observe
  <2> QED BY <1>1, <2>1 DEF TypeObs
<1>10. UNCHANGED <<live, changes, faults, up, effective, inv, dirty, marks, rev, config, servers,
                   gens, arts, ix, flawed>>
  BY DEF Observe
<1>11. TypeObs'
  BY <1>1, <1>6, <1>7, <1>8, <1>9, <1>10 DEF TypeObs
<1> QED BY <1>10, <1>11, OutsideStep DEF inVars

\* The end of an observation keeps the types.
LEMMA FinishedType ==
    ASSUME TypeObs, NEW s \in Servers, Finished(s)
    PROVE  obs' \in [Servers -> ObsType] /\ up' \subseteq Servers /\ seen' \in ToolList
<1>1. obs[s].at \in ToolList
  BY DEF TypeObs, ObsType
<1>2. seen' \in ToolList
  BY <1>1, OverType DEF Finished, TypeObs
<1>3. obs' \in [Servers -> ObsType] /\ up' \subseteq Servers
  BY IdleObsType DEF Finished, TypeObs
<1> QED BY <1>2, <1>3

\* Reading the effective tools touches no generation.
LEMMA ReadEffectiveStep ==
    ASSUME IInv, NEW s \in Servers, ReadEffective(s)
    PROVE  IInv'
<1>1. TypeObs
  BY TypeParts DEF IInv
<1>2. effective' \in ToolList
  <2>1. [m \in Members |-> cache[m].c] \in ToolList
    BY <1>1 DEF TypeObs, ToolList
  <2> QED BY <1>1, <2>1, OverType DEF ReadEffective, TypeObs
<1>3. obs' \in [Servers -> ObsType] /\ up' \subseteq Servers /\ seen' \in ToolList
  <2>1. CASE Finished(s)
    BY <1>1, <2>1, FinishedType
  <2>2. CASE obs' = [obs EXCEPT ![s].pc = "mark"] /\ UNCHANGED <<up, seen>>
    <3>1. [obs[s] EXCEPT !.pc = "mark"] \in ObsType
      BY <1>1 DEF TypeObs, ObsType
    <3> QED BY <1>1, <2>2, <3>1 DEF TypeObs
  <2> QED BY <2>1, <2>2 DEF ReadEffective
<1>4. UNCHANGED <<live, changes, faults, cache, inv, dirty, marks, rev, config, servers, lost>>
      /\ UNCHANGED inVars
  BY DEF ReadEffective, inVars
<1>5. TypeObs'
  BY <1>1, <1>2, <1>3, <1>4 DEF TypeObs
<1> QED BY <1>4, <1>5, OutsideStep

\* Marking a server keeps the types.
LEMMA MarkType ==
    ASSUME TypeObs, NEW s \in Servers, Mark(s)
    PROVE  marks' \in Nat /\ dirty' \in [Servers -> Nat]
  BY DEF TypeObs, Mark

\* Marking a server touches no generation.
LEMMA ObserverMarkStep ==
    ASSUME IInv, NEW s \in Servers, ObserverMark(s)
    PROVE  IInv'
<1>1. TypeObs
  BY TypeParts DEF IInv
<1>2. marks' \in Nat /\ dirty' \in [Servers -> Nat]
  BY <1>1, MarkType DEF ObserverMark
<1>3. obs' \in [Servers -> ObsType]
  <2>1. [obs[s] EXCEPT !.pc = "advance"] \in ObsType
    BY <1>1 DEF TypeObs, ObsType
  <2> QED BY <1>1, <2>1 DEF TypeObs, ObserverMark
<1>4. TypeObs'
  BY <1>1, <1>2, <1>3 DEF TypeObs, ObserverMark
<1> QED BY <1>4, OutsideStep DEF ObserverMark, inVars

\* A new revision touches no generation.
LEMMA ObserverAdvanceStep ==
    ASSUME IInv, NEW s \in Servers, ObserverAdvance(s)
    PROVE  IInv'
<1>1. TypeObs
  BY TypeParts DEF IInv
<1>2. obs' \in [Servers -> ObsType] /\ up' \subseteq Servers /\ seen' \in ToolList
  BY <1>1, FinishedType DEF ObserverAdvance
<1>3. TypeObs'
  BY <1>1, <1>2 DEF TypeObs, ObserverAdvance
<1> QED BY <1>3, OutsideStep DEF ObserverAdvance, inVars

\* The steps outside the index that change little.
LEMMA OtherOutsideStep ==
    ASSUME IInv, NEW s \in Servers,
           \/ ObserverError(s) \/ Disconnect(s) \/ RouterMark(s) \/ RouterAdvance(s) \/ SetServers
           \/ \E S \in SUBSET Servers : SaveServers(S)
           \/ \E m \in Members, c \in Contracts \cup {None} : LiveChange(m, c)
    PROVE  IInv'
<1>1. TypeObs
  BY TypeParts DEF IInv
<1>2. CASE ObserverError(s)
  <2>1. obs' \in [Servers -> ObsType] /\ lost' \subseteq Servers /\ faults' \in Nat
    BY <1>1, <1>2, IdleObsType DEF TypeObs, ObserverError, Fault
  <2>2. TypeObs'
    BY <1>1, <1>2, <2>1 DEF TypeObs, ObserverError
  <2> QED BY <1>2, <2>2, OutsideStep DEF ObserverError, inVars
<1>3. CASE Disconnect(s)
  <2>1. TypeObs'
    BY <1>1, <1>3 DEF TypeObs, Disconnect, Fault
  <2> QED BY <1>3, <2>1, OutsideStep DEF Disconnect, inVars
<1>4. CASE RouterMark(s)
  <2>1. marks' \in Nat /\ dirty' \in [Servers -> Nat] /\ inv' \subseteq Servers
    BY <1>1, <1>4, MarkType DEF RouterMark, TypeObs
  <2>2. TypeObs'
    BY <1>1, <1>4, <2>1 DEF TypeObs, RouterMark
  <2> QED BY <1>4, <2>2, OutsideStep DEF RouterMark, inVars
<1>5. CASE RouterAdvance(s)
  <2>1. TypeObs'
    BY <1>1, <1>5 DEF TypeObs, RouterAdvance
  <2> QED BY <1>5, <2>1, OutsideStep DEF RouterAdvance, inVars
<1>6. CASE SetServers
  <2>1. TypeObs'
    BY <1>1, <1>6 DEF TypeObs, SetServers
  <2> QED BY <1>6, <2>1, OutsideStep DEF SetServers, inVars
<1>7. ASSUME NEW S \in SUBSET Servers, SaveServers(S) PROVE IInv'
  <2>1. TypeObs'
    BY <1>1, <1>7 DEF TypeObs, SaveServers, Fault
  <2> QED BY <1>7, <2>1, OutsideStep DEF SaveServers, inVars
<1>8. ASSUME NEW m \in Members, NEW c \in Contracts \cup {None}, LiveChange(m, c) PROVE IInv'
  <2>1. live' \in ToolList
    BY <1>1, <1>8 DEF TypeObs, LiveChange, ToolList
  <2>2. TypeObs'
    BY <1>1, <1>8, <2>1 DEF TypeObs, LiveChange
  <2> QED BY <1>8, <2>2, OutsideStep DEF LiveChange, inVars
<1> QED BY <1>2, <1>3, <1>4, <1>5, <1>6, <1>7, <1>8

-----------------------------------------------------------------------------
(* Steps of the operation that holds Service.mu.                           *)

\* The operation moves, or ends, and the generations stay as they are.
LEMMA IxMoves ==
    ASSUME IInv, TypeObs', UNCHANGED <<gens, arts>>, ix' \in IxType(Len(gens)),
           flawed' \subseteq DOMAIN gens,
           \A g \in flawed \ flawed' : gens[g].status = "staging" /\ gens[g].cap.made = FALSE,
           ix'.pc \notin {"idle", "acquire"} =>
               /\ ix'.g \in DOMAIN gens /\ gens[ix'.g].status = "staging"
               /\ StageOK(ix', gens[ix'.g], flawed'),
           ix'.pc = "acquire" => \A g \in WithStatus("staging") : gens[g].hash = ix'.hash
    PROVE  IInv'
<1>1. TypeOK'
  BY TypeParts, TypePartsPrime DEF IInv, TypeRows, TypeIx
<1>2. Rows' /\ Unique'
  BY DEF IInv, Rows, Unique, Active, WithStatus
<1>3. Caps'
  BY DEF IInv, Caps, CapOK
<1>4. ActiveWhole'
  BY DEF IInv, ActiveWhole, Active, WithStatus
<1>5. Stage'
  BY DEF Stage, InStaging, Cur, WithStatus
<1> QED BY <1>1, <1>2, <1>3, <1>4, <1>5 DEF IInv

\* More artifacts can only help.
LEMMA RowGrows ==
    ASSUME NEW r, NEW T, NEW U, T \subseteq U, RowOK(r, T)
    PROVE  RowOK(r, U)
  BY DEF RowOK, Fits

\* The operation writes the staging generation g, which becomes r.
LEMMA GenMoves ==
    ASSUME IInv, TypeObs', NEW g \in DOMAIN gens, gens[g].status = "staging",
           NEW r \in Generations, gens' = [gens EXCEPT ![g] = r],
           r.status = "staging", r.hash = gens[g].hash, flawed' = flawed,
           arts' \in ArtType, arts.tool \subseteq arts'.tool, ix' \in IxType(Len(gens)),
           RowOK(r, arts'.tool), g \notin flawed => CapOK(r),
           ix'.pc # "acquire", ix'.pc # "idle" => ix'.g = g /\ StageOK(ix', r, flawed)
    PROVE  IInv'
<1>1. TypeRows /\ TypeIx
  BY TypeParts DEF IInv
<1>2. gens \in Seq(Generations) /\ DOMAIN gens = 1 .. Len(gens) /\ Len(gens) \in Nat
  BY <1>1, GensIsSeq DEF TypeRows
<1>3. /\ gens' \in Seq(Generations) /\ Len(gens') = Len(gens) /\ DOMAIN gens' = DOMAIN gens
      /\ gens'[g] = r /\ \A h \in DOMAIN gens \ {g} : gens'[h] = gens[h]
  BY <1>2
<1>4. TypeOK'
  BY <1>1, <1>3, TypePartsPrime DEF TypeRows, TypeIx
<1>5. Rows'
  BY <1>3, RowGrows DEF IInv, Rows
<1>6. Caps'
  BY <1>3 DEF IInv, Caps
<1>7. WithStatus("staging")' = WithStatus("staging") /\ Active' = Active /\ g \notin Active
  BY <1>3 DEF WithStatus, Active
<1>8. Unique'
  BY <1>7 DEF IInv, Unique
<1>9. ActiveWhole'
  <2>1. \A h \in Active : h \in DOMAIN gens \ {g}
    BY <1>7 DEF Active, WithStatus
  <2> QED BY <1>3, <1>7, <2>1 DEF IInv, ActiveWhole
<1>10. Stage'
  BY <1>3 DEF Stage, InStaging, Cur
<1> QED BY <1>4, <1>5, <1>6, <1>8, <1>9, <1>10 DEF IInv

\* Where the operation stands.
LEMMA Here ==
    ASSUME IInv, ix.pc \notin {"idle", "acquire"}
    PROVE  /\ ix.g \in DOMAIN gens /\ Cur = gens[ix.g] /\ Cur \in Generations
           /\ Cur.status = "staging" /\ RowOK(Cur, arts.tool) /\ (ix.g \notin flawed => CapOK(Cur))
           /\ StageOK(ix, Cur, flawed) /\ ix \in IxType(Len(gens)) /\ Len(gens) \in Nat
           /\ TypeObs /\ TypeRows
<1>1. TypeObs /\ TypeRows /\ TypeIx
  BY TypeParts DEF IInv
<1>2. ix.g \in DOMAIN gens /\ Cur.status = "staging" /\ StageOK(ix, Cur, flawed)
  BY DEF IInv, Stage, InStaging
<1>3. Cur = gens[ix.g] /\ Cur \in Generations /\ Len(gens) \in Nat
  BY <1>1, <1>2, GensIsSeq DEF Cur
<1>4. RowOK(Cur, arts.tool) /\ (ix.g \notin flawed => CapOK(Cur))
  BY <1>2, <1>3 DEF IInv, Rows, Caps
<1> QED BY <1>1, <1>2, <1>3, <1>4 DEF TypeIx

\* A new generation satisfies everything that is required of rows.
LEMMA NewOK ==
    ASSUME NEW h \in Nat, NEW T
    PROVE  /\ NewGeneration(h) \in Generations /\ NewGeneration(h).status = "staging"
           /\ NewGeneration(h).hash = h /\ NewGeneration(h).cap.made = FALSE
           /\ RowOK(NewGeneration(h), T) /\ CapOK(NewGeneration(h))
           /\ NewGeneration(h).src = NoTools
<1>1. /\ [m \in Members |-> 0] \in [Members -> 0 .. Built]
      /\ <<>> \in Seq(Batch)
      /\ [made |-> FALSE, req |-> NoTools, resp |-> None, done |-> FALSE] \in
             [made : BOOLEAN, req : Answers, resp : Guides \cup {None}, done : BOOLEAN]
  BY NoToolsType DEF Built
<1>2. NewGeneration(h) \in Generations
  BY <1>1, NoToolsType DEF NewGeneration, Generations, Batch
<1>3. /\ NewGeneration(h).status = "staging" /\ NewGeneration(h).hash = h
      /\ NewGeneration(h).cap.made = FALSE /\ NewGeneration(h).cap.done = FALSE
      /\ NewGeneration(h).src = NoTools /\ NewGeneration(h).guid = NoTools
      /\ NewGeneration(h).tb = <<>>
  BY DEF NewGeneration
<1>4. Fits(NewGeneration(h), T) /\ Batched(NewGeneration(h))
  BY <1>3 DEF Fits, Batched, NoTools
<1> QED BY <1>2, <1>3, <1>4 DEF RowOK, CapOK

\* So does one that was superseded, as it has none.
LEMMA SupersededOK ==
    ASSUME NEW T
    PROVE  /\ Superseded \in Generations /\ Superseded.status = "superseded"
           /\ RowOK(Superseded, T) /\ CapOK(Superseded)
<1> DEFINE n == NewGeneration(0)
<1>1. n \in Generations /\ RowOK(n, T) /\ CapOK(n)
  BY NewOK
<1>2. Superseded = [n EXCEPT !.status = "superseded"]
  BY DEF Superseded
<1> HIDE DEF n
<1>3. /\ Superseded \in Generations /\ Superseded.status = "superseded" /\ Superseded.guid = n.guid
      /\ Superseded.src = n.src /\ Superseded.req = n.req /\ Superseded.tb = n.tb /\ Superseded.cap = n.cap
  BY <1>1, <1>2 DEF Generations
<1> QED BY <1>1, <1>3 DEF RowOK, Fits, Batched, CapOK

\* Staging generations D are dropped.
LEMMA Drops ==
    ASSUME IInv, NEW D, D \subseteq WithStatus("staging"), UNCHANGED <<arts, flawed>>,
           gens' = [g \in DOMAIN gens |-> IF g \in D THEN Superseded ELSE gens[g]]
    PROVE  /\ TypeRows' /\ Len(gens') = Len(gens) /\ Rows' /\ Caps' /\ Unique' /\ ActiveWhole'
           /\ WithStatus("staging")' = WithStatus("staging") \ D
           /\ \A g \in WithStatus("staging") \ D : gens'[g] = gens[g]
<1>1. TypeRows
  BY TypeParts DEF IInv
<1>2. /\ DOMAIN gens = 1 .. Len(gens) /\ Len(gens) \in Nat
      /\ \A g \in DOMAIN gens : gens[g] \in Generations
  BY <1>1, GensIsSeq
<1>3. gens' \in [1 .. Len(gens) -> Generations]
  BY <1>2, SupersededOK
<1>4. gens' \in Seq(Generations) /\ Len(gens') = Len(gens)
  <2> HIDE DEF Generations
  <2> QED BY <1>2, <1>3
<1>5. /\ DOMAIN gens' = DOMAIN gens
      /\ \A g \in DOMAIN gens : gens'[g] = IF g \in D THEN Superseded ELSE gens[g]
  OBVIOUS
<1>6. TypeRows'
  BY <1>1, <1>4, <1>5 DEF TypeRows
<1>7. Rows' /\ Caps'
  BY <1>5, SupersededOK DEF IInv, Rows, Caps
<1>8. /\ WithStatus("staging")' = WithStatus("staging") \ D
      /\ Active' = Active /\ D \cap Active = {}
  BY <1>5, SupersededOK DEF WithStatus, Active
<1>9. Unique'
  BY <1>8 DEF IInv, Unique
<1>10. ActiveWhole'
  <2>1. \A g \in Active : gens'[g] = gens[g]
    BY <1>5, <1>8 DEF Active, WithStatus
  <2> QED BY <1>8, <2>1 DEF IInv, ActiveWhole
<1>11. \A g \in WithStatus("staging") \ D : gens'[g] = gens[g]
  BY <1>5 DEF WithStatus
<1> QED BY <1>4, <1>6, <1>7, <1>8, <1>9, <1>10, <1>11

\* A refresh begins with the hash of now.
LEMMA RefreshStarts == IInv /\ Refresh => IInv'
<1> SUFFICES ASSUME IInv, Refresh PROVE IInv'
  OBVIOUS
<1> DEFINE D == {g \in DOMAIN gens : StaleStaging(g)}
<1>1. TypeObs /\ TypeRows /\ Len(gens) \in Nat
  BY TypeParts, GensIsSeq DEF IInv
<1>2. D \subseteq WithStatus("staging")
  BY DEF StaleStaging, WithStatus
<1>3. gens' = [g \in DOMAIN gens |-> IF g \in D THEN Superseded ELSE gens[g]]
  BY DEF Refresh
<1>4. UNCHANGED <<arts, flawed>> /\ UNCHANGED outVars
  BY DEF Refresh, IxGens, outVars
<1>5. /\ TypeRows' /\ Len(gens') = Len(gens) /\ Rows' /\ Caps' /\ Unique' /\ ActiveWhole'
      /\ WithStatus("staging")' = WithStatus("staging") \ D
      /\ \A g \in WithStatus("staging") \ D : gens'[g] = gens[g]
  <2> HIDE DEF D
  <2> QED BY <1>2, <1>3, <1>4, Drops
<1>6. ix' = [Idle EXCEPT !.op = "refresh", !.pc = "acquire", !.hash = rev, !.before = dirty]
  BY DEF Refresh
<1>7. ix' \in IxType(Len(gens)) /\ ix'.pc = "acquire" /\ ix'.hash = rev
  BY <1>1, <1>6, IdleType DEF IxType, TypeObs, Phases
<1>8. TypeOK'
  BY <1>1, <1>4, <1>5, <1>7, ObsStands, TypePartsPrime DEF TypeIx
<1>9. Stage'
  <2>1. \A g \in WithStatus("staging") \ D : gens[g].hash = rev
    BY DEF WithStatus, StaleStaging
  <2> HIDE DEF D
  <2> QED BY <1>5, <1>7, <2>1 DEF Stage
<1> QED BY <1>5, <1>8, <1>9 DEF IInv

\* Acquiring the tools of a server touches no generation.
LEMMA AcquireSnapshotStep ==
    ASSUME IInv, NEW s \in Servers, AcquireSnapshot(s)
    PROVE  IInv'
<1>1. TypeObs /\ ix \in IxType(Len(gens)) /\ UNCHANGED outVars
  BY TypeParts DEF IInv, AcquireSnapshot, IxOnly, TypeIx, outVars
<1>2. Over(ix.snap, s, effective) \in ToolList
  BY <1>1, OverType DEF IxType, TypeObs
<1>3. ix' = [ix EXCEPT !.got = ix.got \cup {s}, !.snap = Over(ix.snap, s, effective)]
  BY DEF AcquireSnapshot
<1>4. ix' \in IxType(Len(gens)) /\ ix'.pc = ix.pc /\ ix'.hash = ix.hash /\ ix.pc = "acquire"
  <2>1. ix.got \cup {s} \in SUBSET Servers
    BY <1>1 DEF IxType
  <2>2. ix' \in IxType(Len(gens)) /\ ix'.pc = ix.pc /\ ix'.hash = ix.hash
    BY <1>1, <1>2, <1>3, <2>1 DEF IxType
  <2> QED BY <2>2 DEF AcquireSnapshot, At
<1> QED BY <1>1, <1>4, ObsStands, IxMoves DEF IInv, Stage, AcquireSnapshot, IxOnly, TypeRows, TypeOK

\* The generation a refresh goes on with.
LEMMA StagingHas ==
    ASSUME IInv, NEW h, Staging(h) # {}
    PROVE  /\ Newest(Staging(h)) \in DOMAIN gens
           /\ gens[Newest(Staging(h))].status = "staging" /\ gens[Newest(Staging(h))].hash = h
           /\ Newest(Staging(h)) \in WithStatus("staging")
<1>1. DOMAIN gens = 1 .. Len(gens) /\ Len(gens) \in Nat
  BY TypeParts, GensIsSeq DEF IInv
<1>2. Staging(h) \subseteq 0 .. Len(gens)
  BY <1>1 DEF Staging, WithStatus
<1>3. Newest(Staging(h)) \in Staging(h)
  BY <1>1, <1>2, NewestIsIn
<1> QED BY <1>3 DEF Staging, WithStatus

\* A staging generation whose sources have changed loses its rows.
LEMMA StageSupersedeStep == IInv /\ StageSupersede => IInv'
<1> SUFFICES ASSUME IInv, StageSupersede PROVE IInv'
  OBVIOUS
<1> DEFINE g == Newest(Staging(ix.hash))
<1>1. TypeObs /\ TypeRows /\ ix \in IxType(Len(gens))
  BY TypeParts DEF IInv, TypeIx
<1>2. g \in DOMAIN gens /\ g \in WithStatus("staging")
  BY StagingHas DEF StageSupersede
<1>3. /\ gens' = [gens EXCEPT ![g] = Superseded] /\ UNCHANGED ix /\ UNCHANGED outVars
      /\ UNCHANGED <<arts, flawed>> /\ ix.pc = "acquire"
  BY DEF StageSupersede, IxGens, outVars, Acquired, At
<1> HIDE DEF g
<1>4. gens' = [h \in DOMAIN gens |-> IF h \in {g} THEN Superseded ELSE gens[h]]
  BY <1>2, <1>3
<1>5. /\ TypeRows' /\ Len(gens') = Len(gens) /\ Rows' /\ Caps' /\ Unique' /\ ActiveWhole'
      /\ WithStatus("staging")' = WithStatus("staging") \ {g}
      /\ \A h \in WithStatus("staging") \ {g} : gens'[h] = gens[h]
  BY <1>2, <1>3, <1>4, Drops
<1>6. TypeOK'
  BY <1>1, <1>3, <1>5, ObsStands, TypePartsPrime DEF TypeIx
<1>7. Stage'
  BY <1>3, <1>5 DEF IInv, Stage
<1> QED BY <1>5, <1>6, <1>7 DEF IInv

\* The new generation is the newest and the only staging one.
LEMMA StageCreateStep == IInv /\ StageCreate => IInv'
<1> SUFFICES ASSUME IInv, StageCreate PROVE IInv'
  OBVIOUS
<1> DEFINE n == NewGeneration(ix.hash)
<1>1. TypeObs /\ TypeRows /\ ix \in IxType(Len(gens))
  BY TypeParts DEF IInv, TypeIx
<1>2. gens \in Seq(Generations) /\ DOMAIN gens = 1 .. Len(gens) /\ Len(gens) \in Nat
  BY <1>1, GensIsSeq DEF TypeRows
<1>3. /\ n \in Generations /\ n.status = "staging" /\ n.hash = ix.hash /\ n.cap.made = FALSE
      /\ RowOK(n, arts.tool) /\ CapOK(n) /\ n.src = NoTools
  BY <1>1, NewOK DEF IxType
<1>4. /\ gens' = Append(gens, n) /\ UNCHANGED <<arts, flawed>> /\ UNCHANGED outVars
      /\ ix' = [ix EXCEPT !.pc = "populate", !.g = Len(gens) + 1, !.todo = Present(ix.snap)]
      /\ ix.pc = "acquire" /\ Staging(ix.hash) = {}
  BY DEF StageCreate, IxGens, outVars, Acquired, At
<1> HIDE DEF n
<1>5. /\ gens' \in Seq(Generations) /\ Len(gens') = Len(gens) + 1 /\ DOMAIN gens' = 1 .. Len(gens) + 1
      /\ gens'[Len(gens) + 1] = n /\ \A g \in DOMAIN gens : gens'[g] = gens[g]
  BY <1>2, <1>3, <1>4
<1>6. /\ DOMAIN gens' = DOMAIN gens \cup {Len(gens) + 1} /\ Len(gens) + 1 \notin DOMAIN gens
      /\ \A g \in DOMAIN gens : g \in Nat /\ g < Len(gens) + 1
  BY <1>2, <1>5
<1>7. WithStatus("staging") = {}
  BY <1>4 DEF IInv, Stage, Staging
<1>8. WithStatus("staging")' = {Len(gens) + 1} /\ Active' = Active /\ Active \subseteq DOMAIN gens
  <2>1. WithStatus("staging")' = {Len(gens) + 1}
    BY <1>3, <1>5, <1>6, <1>7 DEF WithStatus
  <2>2. Active' = Active /\ Active \subseteq DOMAIN gens
    BY <1>3, <1>5, <1>6 DEF WithStatus, Active
  <2> QED BY <2>1, <2>2
<1>9. TypeRows'
  BY <1>1, <1>4, <1>5, <1>6 DEF TypeRows
<1>10. ix' \in IxType(Len(gens')) /\ ix'.pc = "populate" /\ ix'.g = Len(gens) + 1
       /\ ix'.todo = Present(ix.snap) /\ ix'.snap = ix.snap
  <2>1. Present(ix.snap) \in SUBSET Members /\ Len(gens) + 1 \in 0 .. Len(gens')
    BY <1>2, <1>5 DEF Present
  <2> QED BY <1>1, <1>4, <2>1 DEF IxType, Phases
<1>11. TypeOK'
  BY <1>1, <1>4, <1>9, <1>10, ObsStands, TypePartsPrime DEF TypeIx
<1>12. Rows' /\ Caps'
  BY <1>3, <1>4, <1>5, <1>6 DEF IInv, Rows, Caps
<1>13. Unique'
  BY <1>6, <1>8 DEF IInv, Unique
<1>14. ActiveWhole'
  BY <1>4, <1>5, <1>8 DEF IInv, ActiveWhole
<1>15. Stage'
  <2>1. StageOK(ix', n, flawed')
    BY <1>3, <1>10 DEF StageOK, Present, NoTools
  <2> QED BY <1>3, <1>5, <1>6, <1>10, <2>1 DEF Stage, InStaging, Cur
<1> QED BY <1>11, <1>12, <1>13, <1>14, <1>15 DEF IInv

\* A staging generation of the same hash and sources is taken over as it is.
LEMMA StageReuseStep == IInv /\ StageReuse => IInv'
<1> SUFFICES ASSUME IInv, StageReuse PROVE IInv'
  OBVIOUS
<1> DEFINE g == Newest(Staging(ix.hash))
<1>1. TypeObs /\ TypeRows /\ ix \in IxType(Len(gens))
  BY TypeParts DEF IInv, TypeIx
<1>2. g \in DOMAIN gens /\ g \in WithStatus("staging") /\ gens[g].status = "staging"
  BY StagingHas DEF StageReuse
<1>3. /\ UNCHANGED <<gens, arts>> /\ UNCHANGED outVars
      /\ ix' = [ix EXCEPT !.pc = "populate", !.g = g, !.todo = Present(ix.snap)]
      /\ flawed' = IF gens[g].cap.made /\ gens[g].src # ix.snap THEN flawed \cup {g} ELSE flawed
      /\ ~SourcesChanged(gens[g])
  BY DEF StageReuse, outVars
<1> HIDE DEF g
<1>4. ix' \in IxType(Len(gens)) /\ ix'.pc = "populate" /\ ix'.g = g
       /\ ix'.todo = Present(ix.snap) /\ ix'.snap = ix.snap
  <2>1. Present(ix.snap) \in SUBSET Members /\ g \in 0 .. Len(gens)
    BY <1>1, <1>2, GensIsSeq DEF Present
  <2> QED BY <1>1, <1>3, <2>1 DEF IxType, Phases
<1>5. gens[g] \in Generations
  BY <1>1, <1>2, GensIsSeq
<1>6. flawed' \subseteq DOMAIN gens /\ flawed \subseteq flawed'
  BY <1>1, <1>2, <1>3 DEF TypeRows
<1>7. StageOK(ix', gens[g], flawed')
  <2>1. gens[g].cap.made = TRUE /\ g \notin flawed' => gens[g].src = ix.snap
    BY <1>3, Zenon
  <2>2. \A m \in Members : gens[g].src[m] \in {None, ix.snap[m]}
    BY <1>3 DEF SourcesChanged, Present
  <2> QED BY <1>4, <2>1, <2>2 DEF StageOK, Present
<1> QED BY <1>1, <1>2, <1>3, <1>4, <1>6, <1>7, ObsStands, IxMoves

-----------------------------------------------------------------------------
(* Populating and preparing the staging generation.                        *)

\* A write that touches none of the columns the invariant is about.
Same(r, q) == /\ r.src = q.src /\ r.guid = q.guid /\ r.req = q.req /\ r.tb = q.tb /\ r.cap = q.cap
              /\ r.status = q.status /\ r.hash = q.hash

\* Rows that agree in what the invariant reads satisfy it alike.
LEMMA SameRow ==
    ASSUME NEW r, NEW q, NEW T, Same(r, q), RowOK(q, T)
    PROVE  /\ RowOK(r, T) /\ (CapOK(q) => CapOK(r))
           /\ \A w, F : StageOK(w, q, F) => StageOK(w, r, F)
<1>1. RowOK(r, T)
  BY DEF Same, RowOK, Fits, Batched
<1>2. CapOK(q) => CapOK(r)
  BY DEF Same, CapOK
<1>3. \A w, F : StageOK(w, q, F) => StageOK(w, r, F)
  BY DEF Same, StageOK
<1> QED BY <1>1, <1>2, <1>3

\* What the artifacts of the unchanged catalog are.
LEMMA ArtsStand ==
    ASSUME IInv, UNCHANGED arts
    PROVE  /\ arts' \in ArtType /\ arts.tool \subseteq arts'.tool /\ arts'.tool = arts.tool
  BY TypeParts DEF IInv, TypeRows

\* The batches of a generation are a sequence of batches.
LEMMA BatchType ==
    ASSUME NEW r \in Generations
    PROVE  /\ r.tb \in Seq(Batch) /\ DOMAIN r.tb \subseteq Nat
           /\ \A i \in DOMAIN r.tb : /\ r.tb[i] \in Batch /\ r.tb[i].items \subseteq Members
                                    /\ r.tb[i].resp \in Guides \cup {None}
<1>1. r.tb \in Seq(Batch)
  BY DEF Generations, Batch
<1>2. DOMAIN r.tb = 1 .. Len(r.tb) /\ \A i \in DOMAIN r.tb : r.tb[i] \in Batch
  BY <1>1
<1>3. \A i \in DOMAIN r.tb : r.tb[i].items \subseteq Members /\ r.tb[i].resp \in Guides \cup {None}
  BY <1>2 DEF Batch
<1> QED BY <1>1, <1>2, <1>3

\* Recording the source of a server touches no tool.
LEMMA PopulateServerStep ==
    ASSUME IInv, NEW s \in Servers, PopulateServer(s)
    PROVE  IInv'
<1> DEFINE r == [Cur EXCEPT !.srvs = Cur.srvs \cup {s}]
<1>1. ix.pc = "populate" /\ UNCHANGED ix /\ UNCHANGED outVars /\ UNCHANGED <<arts, flawed>>
  BY DEF PopulateServer, At, IxGens, outVars
<1>2. /\ ix.g \in DOMAIN gens /\ Cur = gens[ix.g] /\ Cur \in Generations
      /\ Cur.status = "staging" /\ RowOK(Cur, arts.tool) /\ (ix.g \notin flawed => CapOK(Cur))
      /\ StageOK(ix, Cur, flawed) /\ ix \in IxType(Len(gens)) /\ Len(gens) \in Nat
      /\ TypeObs /\ TypeRows
  BY <1>1, Here
<1>3. gens' = [gens EXCEPT ![ix.g] = r]
  BY <1>2 DEF PopulateServer, TypeRows
<1>4. r \in Generations /\ Same(r, Cur)
  BY <1>2 DEF Generations, Same
<1> HIDE DEF r
<1>5. /\ RowOK(r, arts.tool) /\ (CapOK(Cur) => CapOK(r)) /\ StageOK(ix, r, flawed)
  BY <1>2, <1>4, SameRow
<1>6. r.status = "staging" /\ r.hash = gens[ix.g].hash
  BY <1>2, <1>4 DEF Same
<1> QED BY <1>1, <1>2, <1>3, <1>4, <1>5, <1>6, ObsStands, ArtsStand, GenMoves

(* A tool that has guidance has a source, and a generation that is taken   *)
(* over either has the very sources of the snapshot or none: so no source  *)
(* is replaced under its guidance.                                         *)
LEMMA PopulateToolStep == IInv /\ PopulateTool => IInv'
<1> SUFFICES ASSUME IInv, PopulateTool PROVE IInv'
  OBVIOUS
<1> DEFINE m == CHOOSE t \in ix.todo : ServerOf[t] \in Cur.srvs
           b == IF Cur.src[m] # ix.snap[m] THEN 1 ELSE Further(Cur.built[m])
           r == [Cur EXCEPT !.src[m] = ix.snap[m], !.built[m] = b]
<1>1. ix.pc = "populate" /\ UNCHANGED outVars /\ UNCHANGED <<arts, flawed>>
  BY DEF PopulateTool, At, IxGens, outVars
<1>2. /\ ix.g \in DOMAIN gens /\ Cur = gens[ix.g] /\ Cur \in Generations
      /\ Cur.status = "staging" /\ RowOK(Cur, arts.tool) /\ (ix.g \notin flawed => CapOK(Cur))
      /\ StageOK(ix, Cur, flawed) /\ ix \in IxType(Len(gens)) /\ Len(gens) \in Nat
      /\ TypeObs /\ TypeRows
  BY <1>1, Here
<1>3. m \in ix.todo
  BY DEF PopulateTool
<1>4. /\ gens' = [gens EXCEPT ![ix.g].src[m] = ix.snap[m], ![ix.g].built[m] = b]
      /\ ix' = [ix EXCEPT !.todo = IF gens'[ix.g].built[m] = Built THEN ix.todo \ {m} ELSE ix.todo]
  BY DEF PopulateTool
<1>5. m \in Members /\ ix.snap \in ToolList /\ ix.todo \subseteq Members
  BY <1>2, <1>3 DEF IxType
<1>6. /\ Cur.src \in ToolList /\ Cur.guid \in Answers
      /\ Cur.built \in [Members -> 0 .. Built]
  BY <1>2 DEF Generations
<1>7. b \in 0 .. Built
  <2>1. Cur.built[m] \in 0 .. Built
    BY <1>5, <1>6
  <2> QED BY <2>1 DEF Further, Built
<1> HIDE DEF m, b
<1>8. gens' = [gens EXCEPT ![ix.g] = r]
  BY <1>2, <1>4 DEF TypeRows
<1>9. [Cur.src EXCEPT ![m] = ix.snap[m]] \in ToolList
      /\ [Cur.built EXCEPT ![m] = b] \in [Members -> 0 .. Built]
  BY <1>5, <1>6, <1>7 DEF ToolList
<1>10. /\ r \in Generations /\ r.src = [Cur.src EXCEPT ![m] = ix.snap[m]] /\ r.guid = Cur.guid
       /\ r.req = Cur.req /\ r.tb = Cur.tb /\ r.cap = Cur.cap /\ r.status = Cur.status
       /\ r.hash = Cur.hash
  BY <1>2, <1>9 DEF Generations
<1> HIDE DEF r
<1>11. /\ \A t \in Members \ {m} : r.src[t] = Cur.src[t]
       /\ r.src[m] = ix.snap[m] /\ ix.snap[m] # None /\ Cur.src[m] \in {None, ix.snap[m]}
  BY <1>1, <1>2, <1>3, <1>5, <1>6, <1>10 DEF StageOK, ToolList
<1>12. \A t \in Members : r.guid[t] # None => r.src[t] = Cur.src[t]
  <2> SUFFICES ASSUME r.guid[m] # None PROVE r.src[m] = Cur.src[m]
    BY <1>11
  <2>1. <<Cur.src[m], Cur.guid[m]>> \in Contracts \X Guides
    BY <1>2, <1>5, <1>10 DEF RowOK, Fits, TypeRows, ArtType
  <2>2. Cur.src[m] # None
    BY <2>1, CatalogAssumption
  <2> QED BY <1>11, <2>2
<1>13. RowOK(r, arts.tool)
  <2>1. Fits(r, arts.tool)
    BY <1>2, <1>10, <1>12 DEF RowOK, Fits
  <2>2. \A i \in DOMAIN Cur.tb : \A t \in Cur.tb[i].items : t \in Members
    BY <1>2, BatchType
  <2>3. Batched(r)
    BY <1>2, <1>10, <1>11, <2>2 DEF RowOK, Batched
  <2> QED BY <1>2, <1>10, <2>1, <2>3 DEF RowOK
<1>14. ix.g \notin flawed /\ r.cap.made = TRUE => r.src = Cur.src
  <2>1. ix.g \notin flawed /\ r.cap.made = TRUE => Cur.src = ix.snap
    BY <1>1, <1>2, <1>10 DEF StageOK
  <2> QED BY <1>5, <1>6, <1>10, <2>1 DEF ToolList
<1>15. ix.g \notin flawed => CapOK(r)
  BY <1>2, <1>10, <1>14 DEF CapOK
<1>16. ix' \in IxType(Len(gens)) /\ ix'.pc = "populate" /\ ix'.g = ix.g
       /\ ix'.todo \subseteq ix.todo /\ ix'.snap = ix.snap
  BY <1>1, <1>2, <1>4, <1>5 DEF IxType
<1>17. StageOK(ix', r, flawed)
  <2>1. ix.g \notin flawed /\ r.cap.made = TRUE => r.src = ix.snap
    BY <1>1, <1>2, <1>10, <1>14 DEF StageOK
  <2>2. \A t \in Members : r.src[t] \in {None, ix.snap[t]}
    BY <1>1, <1>2, <1>11 DEF StageOK
  <2>3. \A t \in ix.todo : ix.snap[t] # None
    BY <1>1, <1>2 DEF StageOK
  <2> QED BY <1>16, <2>1, <2>2, <2>3 DEF StageOK
<1> QED BY <1>1, <1>2, <1>8, <1>10, <1>13, <1>15, <1>16, <1>17, ObsStands, ArtsStand, GenMoves

\* A stage about which there is nothing to know.
Free == {"prep", "repair", "clear", "cap"}
\* Steps about which Stage says nothing.
LEMMA FreeStage ==
    ASSUME NEW w, NEW r, NEW F, w.pc \in Free
    PROVE  StageOK(w, r, F)
  BY DEF Free, StageOK

\* After the last tool every tool of the snapshot is a source.
LEMMA PopulateDoneStep == IInv /\ PopulateDone => IInv'
<1> SUFFICES ASSUME IInv, PopulateDone PROVE IInv'
  OBVIOUS
<1>1. /\ ix.pc = "populate" /\ UNCHANGED outVars /\ UNCHANGED <<gens, arts>>
      /\ ix' = [ix EXCEPT !.pc = "prep"] /\ flawed' = IF Cur.cap.made THEN flawed ELSE flawed \ {ix.g}
  BY DEF PopulateDone, At, outVars
<1>2. /\ ix.g \in DOMAIN gens /\ Cur = gens[ix.g] /\ Cur \in Generations
      /\ Cur.status = "staging" /\ ix \in IxType(Len(gens)) /\ TypeObs /\ TypeRows
  BY <1>1, Here
<1>3. Cur.cap.made \in BOOLEAN
  BY <1>2 DEF Generations
<1>4. flawed' \subseteq DOMAIN gens
      /\ \A g \in flawed \ flawed' : gens[g].status = "staging" /\ gens[g].cap.made = FALSE
  <2>1. CASE Cur.cap.made = TRUE
    BY <1>1, <1>2, <2>1 DEF TypeRows
  <2>2. CASE Cur.cap.made = FALSE
    BY <1>1, <1>2, <2>2 DEF TypeRows
  <2> QED BY <1>3, <2>1, <2>2
<1>5. ix' \in IxType(Len(gens)) /\ ix'.pc \in Free /\ ix'.g = ix.g /\ ix'.pc = "prep"
  BY <1>1, <1>2 DEF IxType, Phases, Free
<1>6. StageOK(ix', gens[ix'.g], flawed')
  BY <1>5, FreeStage
<1> QED BY <1>1, <1>2, <1>4, <1>5, <1>6, ObsStands, IxMoves

\* Steps that end the operation, or lead to such a stage.
LEMMA IxFree ==
    ASSUME IInv, ix.pc \notin {"idle", "acquire"}, UNCHANGED outVars, UNCHANGED <<gens, arts, flawed>>,
           ix' = Idle \/ \E p \in Free : ix' = [ix EXCEPT !.pc = p]
    PROVE  IInv'
<1>1. /\ ix.g \in DOMAIN gens /\ Cur = gens[ix.g]
      /\ Cur.status = "staging" /\ ix \in IxType(Len(gens)) /\ Len(gens) \in Nat /\ TypeObs /\ TypeRows
  BY Here
<1>2. CASE ix' = Idle
  BY <1>1, <1>2, IdleType, ObsStands, IxMoves DEF TypeRows
<1>3. ASSUME NEW p \in Free, ix' = [ix EXCEPT !.pc = p] PROVE IInv'
  <2>1. ix' \in IxType(Len(gens)) /\ ix'.pc = p /\ ix'.g = ix.g /\ p # "acquire"
    BY <1>1, <1>3 DEF IxType, Phases, Free
  <2>2. StageOK(ix', gens[ix'.g], flawed')
    BY <2>1, FreeStage
  <2> QED BY <1>1, <2>1, <2>2, ObsStands, IxMoves DEF TypeRows
<1> QED BY <1>2, <1>3

\* Preparation ends in a step about which Stage says nothing.
LEMMA PreparedIsFree == ToolsPrepared = Idle \/ \E p \in Free : ToolsPrepared = [ix EXCEPT !.pc = p]
  BY DEF ToolsPrepared, Free

\* An existing set of batches is repaired, not made again.
LEMMA PrepRepairStep == IInv /\ PrepRepair => IInv'
<1> SUFFICES ASSUME IInv, PrepRepair PROVE IInv'
  OBVIOUS
<1>1. /\ ix.pc = "prep" /\ ix' = [ix EXCEPT !.pc = "repair", !.batch = 0]
      /\ UNCHANGED outVars /\ UNCHANGED <<gens, arts, flawed>>
  BY DEF PrepRepair, At, IxOnly, outVars
<1>2. /\ ix.g \in DOMAIN gens /\ Cur = gens[ix.g] /\ Cur.status = "staging"
      /\ ix \in IxType(Len(gens)) /\ TypeObs /\ TypeRows
  BY <1>1, Here
<1>3. ix' \in IxType(Len(gens)) /\ ix'.pc = "repair" /\ ix'.g = ix.g
  BY <1>1, <1>2 DEF IxType, Phases
<1>4. StageOK(ix', gens[ix'.g], flawed')
  BY <1>3, FreeStage DEF Free
<1> QED BY <1>1, <1>2, <1>3, <1>4, ObsStands, IxMoves DEF TypeRows

\* Preparation begins with every source still to be done.
LEMMA PrepStartStep == IInv /\ PrepStart => IInv'
<1> SUFFICES ASSUME IInv, PrepStart PROVE IInv'
  OBVIOUS
<1> DEFINE r == [Cur EXCEPT !.want = Cur.src]
<1>1. /\ ix.pc = "prep" /\ UNCHANGED outVars /\ UNCHANGED <<arts, flawed>> /\ Cur.tb = <<>>
      /\ ix' = [ix EXCEPT !.pc = "reuse", !.todo = Present(Cur.src)]
      /\ gens' = [gens EXCEPT ![ix.g].want = Cur.src]
  BY DEF PrepStart, At, IxGens, outVars
<1>2. /\ ix.g \in DOMAIN gens /\ Cur = gens[ix.g] /\ Cur \in Generations
      /\ Cur.status = "staging" /\ RowOK(Cur, arts.tool) /\ (ix.g \notin flawed => CapOK(Cur))
      /\ ix \in IxType(Len(gens)) /\ TypeObs /\ TypeRows
  BY <1>1, Here
<1>3. gens' = [gens EXCEPT ![ix.g] = r]
  BY <1>1, <1>2 DEF TypeRows
<1>4. r \in Generations /\ Same(r, Cur)
  BY <1>2 DEF Generations, Same
<1> HIDE DEF r
<1>5. RowOK(r, arts.tool) /\ (CapOK(Cur) => CapOK(r)) /\ r.status = "staging" /\ r.hash = gens[ix.g].hash
  BY <1>2, <1>4, SameRow DEF Same
<1>6. ix' \in IxType(Len(gens)) /\ ix'.pc = "reuse" /\ ix'.g = ix.g /\ ix'.todo = Present(Cur.src)
  <2>1. Present(Cur.src) \in SUBSET Members
    BY DEF Present
  <2> QED BY <1>1, <1>2, <2>1 DEF IxType, Phases
<1>7. StageOK(ix', r, flawed)
  BY <1>1, <1>4, <1>6 DEF StageOK, Present, Same
<1> QED BY <1>1, <1>2, <1>3, <1>4, <1>5, <1>6, <1>7, ObsStands, ArtsStand, GenMoves

\* The next tool is one of those left.
LEMMA NextToolIn == ix.todo # {} => NextTool \in ix.todo
  BY DEF NextTool

\* A tool becomes required, and reusable guidance for its source is attached.
LEMMA PrepReuseStep == IInv /\ PrepReuse => IInv'
<1> SUFFICES ASSUME IInv, PrepReuse PROVE IInv'
  OBVIOUS
<1> DEFINE n == NextTool
<1>1. /\ ix.pc = "reuse" /\ UNCHANGED outVars /\ UNCHANGED <<arts, flawed>>
      /\ Cur.guid[n] = None /\ ix.todo # {}
  BY DEF PrepReuse, At, IxGens, outVars
<1>2. /\ ix.g \in DOMAIN gens /\ Cur = gens[ix.g] /\ Cur \in Generations
      /\ Cur.status = "staging" /\ RowOK(Cur, arts.tool) /\ (ix.g \notin flawed => CapOK(Cur))
      /\ StageOK(ix, Cur, flawed) /\ ix \in IxType(Len(gens)) /\ Len(gens) \in Nat
      /\ TypeObs /\ TypeRows
  BY <1>1, Here
<1>3. n \in ix.todo /\ n \in Members /\ ix.todo \subseteq Members /\ Cur.src[n] # None
  BY <1>1, <1>2, NextToolIn DEF IxType, StageOK
<1>4. Cur.guid \in Answers /\ Cur.req \subseteq Members
  BY <1>2 DEF Generations
<1>5. ix.g \notin flawed => Cur.cap.made # TRUE
  BY <1>1, <1>2, <1>3 DEF CapOK
<1>6. CASE /\ gens' = [gens EXCEPT ![ix.g].req = @ \cup {NextTool}]
           /\ ix' = [ix EXCEPT !.todo = @ \ {NextTool}]
  <2> DEFINE r == [Cur EXCEPT !.req = Cur.req \cup {n}]
  <2>1. gens' = [gens EXCEPT ![ix.g] = r]
    BY <1>2, <1>6 DEF TypeRows
  <2>2. /\ r \in Generations /\ r.src = Cur.src /\ r.guid = Cur.guid /\ r.req = Cur.req \cup {n}
        /\ r.tb = Cur.tb /\ r.cap = Cur.cap /\ r.status = Cur.status /\ r.hash = Cur.hash
    BY <1>2, <1>3, <1>4 DEF Generations
  <2> HIDE DEF r, n
  <2>3. RowOK(r, arts.tool) /\ (CapOK(Cur) => CapOK(r))
    BY <1>2, <2>2 DEF RowOK, Fits, Batched, CapOK
  <2>4. ix' = [ix EXCEPT !.todo = ix.todo \ {n}]
    BY <1>6 DEF n
  <2>5. ix' \in IxType(Len(gens)) /\ ix'.pc = "reuse" /\ ix'.g = ix.g /\ ix'.todo = ix.todo \ {n}
    BY <1>1, <1>2, <1>3, <2>4 DEF IxType
  <2>6. StageOK(ix', r, flawed)
    BY <1>1, <1>2, <1>3, <2>2, <2>5 DEF StageOK
  <2> QED BY <1>1, <1>2, <2>1, <2>2, <2>3, <2>5, <2>6, ObsStands, ArtsStand, GenMoves
<1>7. ASSUME NEW d \in ReusableTool(Cur.src[NextTool]), UNCHANGED ix,
             gens' = [gens EXCEPT ![ix.g].req = @ \cup {NextTool}, ![ix.g].guid[NextTool] = d]
      PROVE  IInv'
  <2> DEFINE r == [Cur EXCEPT !.req = Cur.req \cup {n}, !.guid[n] = d]
  <2>1. gens' = [gens EXCEPT ![ix.g] = r]
    BY <1>2, <1>7 DEF TypeRows
  <2>2. d \in Guides /\ <<Cur.src[n], d>> \in arts.tool
    BY <1>7 DEF ReusableTool
  <2>3. [Cur.guid EXCEPT ![n] = d] \in Answers
    BY <1>3, <1>4, <2>2 DEF Answers
  <2>4. /\ r \in Generations /\ r.src = Cur.src /\ r.guid = [Cur.guid EXCEPT ![n] = d]
        /\ r.req = Cur.req \cup {n}
        /\ r.tb = Cur.tb /\ r.cap = Cur.cap /\ r.status = Cur.status /\ r.hash = Cur.hash
    BY <1>2, <1>3, <1>4, <2>3 DEF Generations
  <2> HIDE DEF r, n
  <2>5. r.guid[n] = d /\ \A t \in Members \ {n} : r.guid[t] = Cur.guid[t]
    BY <1>3, <1>4, <2>4 DEF Answers
  <2>6. RowOK(r, arts.tool)
    <3>1. Fits(r, arts.tool)
      BY <1>2, <2>2, <2>4, <2>5 DEF RowOK, Fits
    <3>2. Batched(r)
      BY <1>1, <1>2, <2>4 DEF StageOK, Batched
    <3> QED BY <1>2, <2>4, <3>1, <3>2 DEF RowOK
  <2>7. ix.g \notin flawed => CapOK(r)
    BY <1>5, <2>4 DEF CapOK
  <2>8. StageOK(ix', r, flawed) /\ ix' = ix
    BY <1>1, <1>2, <1>7, <2>4 DEF StageOK
  <2> QED BY <1>1, <1>2, <2>1, <2>4, <2>6, <2>7, <2>8, ObsStands, ArtsStand, GenMoves
<1> QED BY <1>6, <1>7 DEF PrepReuse

\* Embedding a tool touches neither guidance nor batches.
LEMMA PrepEmbedStep == IInv /\ PrepEmbed => IInv'
<1> SUFFICES ASSUME IInv, PrepEmbed PROVE IInv'
  OBVIOUS
<1> DEFINE n == NextTool
           r == [Cur EXCEPT !.emb = Cur.emb \cup {n}]
<1>1. /\ ix.pc = "reuse" /\ UNCHANGED outVars /\ UNCHANGED <<arts, flawed>>
      /\ Cur.guid[n] # None /\ ix.todo # {} /\ ix' = [ix EXCEPT !.todo = ix.todo \ {n}]
  BY DEF PrepEmbed, At, IxGens, outVars
<1>2. /\ ix.g \in DOMAIN gens /\ Cur = gens[ix.g] /\ Cur \in Generations
      /\ Cur.status = "staging" /\ RowOK(Cur, arts.tool) /\ (ix.g \notin flawed => CapOK(Cur))
      /\ StageOK(ix, Cur, flawed) /\ ix \in IxType(Len(gens)) /\ Len(gens) \in Nat
      /\ TypeObs /\ TypeRows
  BY <1>1, Here
<1>3. n \in ix.todo /\ n \in Members /\ ix.todo \subseteq Members
  BY <1>1, <1>2, NextToolIn DEF IxType
<1>4. gens' = [gens EXCEPT ![ix.g] = r]
  BY <1>2 DEF PrepEmbed, TypeRows
<1>5. r \in Generations /\ Same(r, Cur)
  <2>1. Cur.emb \cup {n} \in SUBSET Members
    BY <1>2, <1>3 DEF Generations
  <2> QED BY <1>2, <2>1 DEF Generations, Same
<1> HIDE DEF r, n
<1>6. RowOK(r, arts.tool) /\ (CapOK(Cur) => CapOK(r)) /\ r.status = "staging" /\ r.hash = gens[ix.g].hash
  BY <1>2, <1>5, SameRow DEF Same
<1>7. ix' \in IxType(Len(gens)) /\ ix'.pc = "reuse" /\ ix'.g = ix.g /\ ix'.todo = ix.todo \ {n}
  BY <1>1, <1>2, <1>3 DEF IxType
<1>8. n \in Cur.req
  BY <1>1, <1>2, <1>3 DEF RowOK, Fits
<1>9. StageOK(ix', r, flawed)
  BY <1>1, <1>2, <1>5, <1>7, <1>8 DEF StageOK, Same
<1> QED BY <1>1, <1>2, <1>4, <1>5, <1>6, <1>7, <1>9, ObsStands, ArtsStand, GenMoves

\* Finitely many tools need finitely many batches.
LEMMA BatchCountType ==
    ASSUME NEW P, P \subseteq Members
    PROVE  BatchCount(P) \in Nat
<1>1. Cardinality(P) \in Nat
  BY CatalogAssumption, FS_Subset, FS_CardinalityType
<1>2. BatchSize \in Nat /\ BatchSize > 0 /\ Cardinality(P) + BatchSize - 1 \in Nat
  BY <1>1, CatalogAssumption
<1> QED BY <1>2 DEF BatchCount

\* The ways in which a step can go on after a write.
LEMMA Prepared ==
    ASSUME IInv, ix.pc \notin {"idle", "acquire"}, NEW w,
           w = Idle \/ \E p \in Free : w = [ix EXCEPT !.pc = p]
    PROVE  /\ w \in IxType(Len(gens)) /\ w.pc # "acquire"
           /\ w.pc # "idle" => w.g = ix.g /\ \A r, F : StageOK(w, r, F)
<1>1. ix \in IxType(Len(gens)) /\ Len(gens) \in Nat
  BY Here
<1>2. CASE w = Idle
  BY <1>1, <1>2, IdleType
<1>3. ASSUME NEW p \in Free, w = [ix EXCEPT !.pc = p]
      PROVE  /\ w \in IxType(Len(gens)) /\ w.pc # "acquire"
             /\ w.pc # "idle" => w.g = ix.g /\ \A r, F : StageOK(w, r, F)
  <2>1. w \in IxType(Len(gens)) /\ w.pc = p /\ w.g = ix.g /\ p # "acquire"
    BY <1>1, <1>3 DEF IxType, Phases, Free
  <2> QED BY <2>1, FreeStage
<1> QED BY <1>2, <1>3

\* The batches are about the tools without guidance.
LEMMA PrepBatchesStep == IInv /\ PrepBatches => IInv'
<1> SUFFICES ASSUME IInv, PrepBatches PROVE IInv'
  OBVIOUS
<1> DEFINE P == {m \in Present(Cur.src) : Cur.guid[m] = None}
<1>1. /\ ix.pc = "reuse" /\ ix.todo = {} /\ ix' = ToolsPrepared /\ UNCHANGED outVars
      /\ UNCHANGED <<arts, flawed>>
  BY DEF PrepBatches, At, IxGens, outVars
<1>2. /\ ix.g \in DOMAIN gens /\ Cur = gens[ix.g] /\ Cur \in Generations
      /\ Cur.status = "staging" /\ RowOK(Cur, arts.tool) /\ (ix.g \notin flawed => CapOK(Cur))
      /\ StageOK(ix, Cur, flawed) /\ ix \in IxType(Len(gens)) /\ Len(gens) \in Nat
      /\ TypeObs /\ TypeRows
  BY <1>1, Here
<1>3. PICK parts \in [1 .. BatchCount(P) -> [items : SUBSET P, resp : {None}]] :
        Batches(P, parts) /\ gens' = [gens EXCEPT ![ix.g].tb = parts]
  BY DEF PrepBatches
<1>4. P \subseteq Members
  BY DEF Present
<1>5. BatchCount(P) \in Nat
  BY <1>4, BatchCountType
<1>6. \A m \in P : Cur.src[m] # None /\ Cur.guid[m] = None /\ m \in Cur.req
  BY <1>1, <1>2 DEF StageOK, Present
<1> HIDE DEF P
<1>7. \A i \in 1 .. BatchCount(P) : parts[i] \in Batch /\ parts[i].items \subseteq P
  BY <1>4 DEF Batch
<1>8. parts \in Seq(Batch) /\ DOMAIN parts = 1 .. BatchCount(P)
  BY <1>5, <1>7
<1> DEFINE r == [Cur EXCEPT !.tb = parts]
<1>9. gens' = [gens EXCEPT ![ix.g] = r]
  BY <1>2, <1>3 DEF TypeRows
<1>10. /\ r \in Generations /\ r.src = Cur.src /\ r.guid = Cur.guid /\ r.req = Cur.req
       /\ r.tb = parts /\ r.cap = Cur.cap /\ r.status = Cur.status /\ r.hash = Cur.hash
  BY <1>2, <1>8 DEF Generations, Batch
<1> HIDE DEF r
<1>11. RowOK(r, arts.tool)
  <2>1. Fits(r, arts.tool)
    BY <1>2, <1>10 DEF RowOK, Fits
  <2>2. \A i, j \in DOMAIN parts : i # j => parts[i].items \cap parts[j].items = {}
    BY <1>3 DEF Batches
  <2>3. Batched(r)
    BY <1>6, <1>7, <1>8, <1>10, <2>2 DEF Batched
  <2> QED BY <1>2, <1>10, <2>1, <2>3 DEF RowOK
<1>12. CapOK(Cur) => CapOK(r)
  BY <1>10 DEF CapOK
<1>13. /\ ix' \in IxType(Len(gens)) /\ ix'.pc # "acquire"
       /\ ix'.pc # "idle" => ix'.g = ix.g /\ \A q, F : StageOK(ix', q, F)
  BY <1>1, Prepared, PreparedIsFree
<1> QED BY <1>1, <1>2, <1>9, <1>10, <1>11, <1>12, <1>13, ObsStands, ArtsStand, GenMoves

\* The repair goes on with a batch that has an answer.
LEMMA RepairNextStep == IInv /\ RepairNext => IInv'
<1> SUFFICES ASSUME IInv, RepairNext PROVE IInv'
  OBVIOUS
<1> DEFINE todo == {i \in DOMAIN Cur.tb : i > ix.batch /\ Cur.tb[i].resp # None}
           k == Min(todo)
<1>1. /\ ix.pc = "repair" /\ UNCHANGED outVars /\ UNCHANGED <<gens, arts, flawed>>
      /\ ix' = IF todo = {} THEN ToolsPrepared
               ELSE [ix EXCEPT !.pc = "material", !.batch = k, !.todo = Cur.tb[k].items]
  BY DEF RepairNext, At, IxOnly, outVars
<1>2. /\ ix.g \in DOMAIN gens /\ Cur = gens[ix.g] /\ Cur \in Generations
      /\ Cur.status = "staging" /\ ix \in IxType(Len(gens)) /\ TypeObs /\ TypeRows
  BY <1>1, Here
<1>3. CASE todo = {}
  BY <1>1, <1>3, IxFree, PreparedIsFree
<1>4. CASE todo # {}
  <2>1. k \in todo
    <3>1. todo \subseteq Nat
      BY <1>2, BatchType
    <3> HIDE DEF todo
    <3> QED BY <1>4, <3>1, MinIsIn
  <2>2. k \in DOMAIN Cur.tb /\ k \in Nat /\ Cur.tb[k].resp # None /\ Cur.tb[k].items \subseteq Members
    BY <1>2, <2>1, BatchType
  <2> HIDE DEF k, todo
  <2>3. /\ ix' \in IxType(Len(gens)) /\ ix'.pc = "material" /\ ix'.g = ix.g /\ ix'.batch = k
        /\ ix'.todo = Cur.tb[k].items
    BY <1>1, <1>2, <1>4, <2>2 DEF IxType, Phases
  <2>4. StageOK(ix', gens[ix'.g], flawed')
    BY <1>2, <2>2, <2>3 DEF StageOK
  <2> QED BY <1>1, <1>2, <2>3, <2>4, ObsStands, IxMoves DEF TypeRows
<1> QED BY <1>3, <1>4

(* An answer becomes guidance: of a tool that no other batch is about.     *)
(* Once the capability batch is made there is nothing left to attach.      *)
LEMMA MaterialGuideStep == IInv /\ MaterialGuide => IInv'
<1> SUFFICES ASSUME IInv, MaterialGuide PROVE IInv'
  OBVIOUS
<1> DEFINE n == NextTool
           d == Cur.tb[ix.batch].resp
           r == [Cur EXCEPT !.guid[n] = d]
<1>1. /\ ix.pc = "material" /\ UNCHANGED outVars /\ UNCHANGED <<ix, flawed>> /\ ix.todo # {}
      /\ ~Materialised(n) /\ arts' = [arts EXCEPT !.tool = @ \cup {<<Cur.src[n], d>>}]
      /\ gens' = [gens EXCEPT ![ix.g].guid[n] = d]
  BY DEF MaterialGuide, At, IxArts, outVars
<1>2. /\ ix.g \in DOMAIN gens /\ Cur = gens[ix.g] /\ Cur \in Generations
      /\ Cur.status = "staging" /\ RowOK(Cur, arts.tool) /\ (ix.g \notin flawed => CapOK(Cur))
      /\ StageOK(ix, Cur, flawed) /\ ix \in IxType(Len(gens)) /\ Len(gens) \in Nat
      /\ TypeObs /\ TypeRows
  BY <1>1, Here
<1>3. ix.batch \in DOMAIN Cur.tb /\ d # None /\ n \in Cur.tb[ix.batch].items
  BY <1>1, <1>2, NextToolIn DEF StageOK
<1>4. d \in Guides /\ n \in Members
  BY <1>2, <1>3, BatchType
<1>5. /\ Cur.src[n] # None /\ Cur.src[n] \in Contracts /\ n \in Cur.req /\ Cur.guid[n] \in {None, d}
      /\ \A j \in DOMAIN Cur.tb : j # ix.batch => n \notin Cur.tb[j].items
  <2>1. Cur.src \in ToolList
    BY <1>2 DEF Generations
  <2> QED BY <1>2, <1>3, <1>4, <2>1 DEF RowOK, Batched, ToolList
<1>6. Cur.guid \in Answers
  BY <1>2 DEF Generations
<1>7. ix.g \notin flawed => Cur.cap.made # TRUE
  <2> SUFFICES ASSUME ix.g \notin flawed, Cur.cap.made = TRUE PROVE FALSE
    OBVIOUS
  <2>1. Cur.guid[n] # None
    BY <1>2, <1>4, <1>5 DEF CapOK
  <2>2. Cur.guid[n] = d /\ <<Cur.src[n], d>> \in arts.tool
    BY <1>2, <1>4, <1>5, <2>1 DEF RowOK, Fits
  <2> QED BY <1>1, <2>2 DEF Materialised
<1>8. gens' = [gens EXCEPT ![ix.g] = r]
  BY <1>1, <1>2 DEF TypeRows
<1> HIDE DEF n, d
<1>9. [Cur.guid EXCEPT ![n] = d] \in Answers
  BY <1>4, <1>6 DEF Answers
<1>10. /\ r \in Generations /\ r.src = Cur.src /\ r.guid = [Cur.guid EXCEPT ![n] = d]
       /\ r.req = Cur.req /\ r.tb = Cur.tb /\ r.cap = Cur.cap /\ r.status = Cur.status
       /\ r.hash = Cur.hash
  BY <1>2, <1>9 DEF Generations
<1> HIDE DEF r
<1>11. r.guid[n] = d /\ \A t \in Members \ {n} : r.guid[t] = Cur.guid[t]
  BY <1>4, <1>6, <1>10 DEF Answers
<1>12. /\ arts' \in ArtType /\ arts.tool \subseteq arts'.tool /\ <<Cur.src[n], d>> \in arts'.tool
  <2>1. <<Cur.src[n], d>> \in Contracts \X Guides
    BY <1>4, <1>5
  <2>2. arts.tool \cup {<<Cur.src[n], d>>} \in SUBSET (Contracts \X Guides)
    BY <1>2, <2>1 DEF TypeRows, ArtType
  <2> QED BY <1>1, <1>2, <2>2 DEF TypeRows, ArtType
<1>13. RowOK(r, arts'.tool)
  <2>1. Fits(r, arts'.tool)
    BY <1>2, <1>5, <1>10, <1>11, <1>12 DEF RowOK, Fits
  <2>2. \A i \in DOMAIN r.tb : \A t \in r.tb[i].items : r.guid[t] \in {None, r.tb[i].resp}
    <3> SUFFICES ASSUME NEW i \in DOMAIN Cur.tb, NEW t \in Cur.tb[i].items
                 PROVE  r.guid[t] \in {None, Cur.tb[i].resp}
      BY <1>10
    <3>1. CASE t = n
      BY <1>5, <1>11, <3>1 DEF d
    <3>2. CASE t # n
      <4>1. t \in Members /\ Cur.guid[t] \in {None, Cur.tb[i].resp}
        BY <1>2, BatchType DEF RowOK, Batched
      <4> QED BY <1>11, <3>2, <4>1
    <3> QED BY <3>1, <3>2
  <2>3. Batched(r)
    BY <1>2, <1>10, <2>2 DEF RowOK, Batched
  <2> QED BY <1>2, <1>10, <2>1, <2>3 DEF RowOK
<1>14. ix.g \notin flawed => CapOK(r)
  BY <1>7, <1>10 DEF CapOK
<1>15. StageOK(ix', r, flawed) /\ ix' = ix
  BY <1>1, <1>2, <1>10 DEF StageOK
<1>16. TypeObs' /\ flawed' = flawed /\ arts' \in ArtType /\ arts.tool \subseteq arts'.tool
  BY <1>1, <1>2, <1>12, ObsStands
<1>17. ix' \in IxType(Len(gens)) /\ ix'.pc = "material" /\ ix'.g = ix.g
  BY <1>1, <1>2, <1>15
<1>18. /\ ix.g \in DOMAIN gens /\ gens[ix.g].status = "staging" /\ r \in Generations
       /\ r.status = "staging" /\ r.hash = gens[ix.g].hash
  BY <1>2, <1>10
<1> QED BY <1>8, <1>13, <1>14, <1>15, <1>16, <1>17, <1>18, GenMoves

\* Embedding an answered tool touches neither guidance nor batches.
LEMMA MaterialEmbedStep == IInv /\ MaterialEmbed => IInv'
<1> SUFFICES ASSUME IInv, MaterialEmbed PROVE IInv'
  OBVIOUS
<1> DEFINE n == NextTool
           r == [Cur EXCEPT !.emb = Cur.emb \cup {n}]
<1>1. /\ ix.pc = "material" /\ UNCHANGED outVars /\ UNCHANGED <<arts, flawed>>
      /\ ix.todo # {} /\ ix' = [ix EXCEPT !.todo = ix.todo \ {n}]
  BY DEF MaterialEmbed, At, IxGens, outVars
<1>2. /\ ix.g \in DOMAIN gens /\ Cur = gens[ix.g] /\ Cur \in Generations
      /\ Cur.status = "staging" /\ RowOK(Cur, arts.tool) /\ (ix.g \notin flawed => CapOK(Cur))
      /\ StageOK(ix, Cur, flawed) /\ ix \in IxType(Len(gens)) /\ Len(gens) \in Nat
      /\ TypeObs /\ TypeRows
  BY <1>1, Here
<1>3. n \in ix.todo /\ n \in Members /\ ix.todo \subseteq Members
  BY <1>1, <1>2, NextToolIn DEF IxType
<1>4. gens' = [gens EXCEPT ![ix.g] = r]
  BY <1>2 DEF MaterialEmbed, TypeRows
<1>5. r \in Generations /\ Same(r, Cur)
  <2>1. Cur.emb \cup {n} \in SUBSET Members
    BY <1>2, <1>3 DEF Generations
  <2> QED BY <1>2, <2>1 DEF Generations, Same
<1> HIDE DEF r, n
<1>6. RowOK(r, arts.tool) /\ (CapOK(Cur) => CapOK(r)) /\ r.status = "staging" /\ r.hash = gens[ix.g].hash
  BY <1>2, <1>5, SameRow DEF Same
<1>7. /\ ix' \in IxType(Len(gens)) /\ ix'.pc = "material" /\ ix'.g = ix.g /\ ix'.todo = ix.todo \ {n}
      /\ ix'.batch = ix.batch
  BY <1>1, <1>2, <1>3 DEF IxType
<1>8. StageOK(ix', r, flawed)
  BY <1>1, <1>2, <1>5, <1>7 DEF StageOK, Same
<1> QED BY <1>1, <1>2, <1>4, <1>5, <1>6, <1>7, <1>8, ObsStands, ArtsStand, GenMoves

\* A batch that is materialised changes nothing any more.
LEMMA MaterialDoneStep == IInv /\ MaterialDone => IInv'
<1> SUFFICES ASSUME IInv, MaterialDone PROVE IInv'
  OBVIOUS
<1>1. ix.pc = "material" /\ UNCHANGED outVars /\ UNCHANGED <<gens, arts, flawed>>
  BY DEF MaterialDone, At, IxOnly, outVars
<1>2. ix' = Idle \/ \E p \in Free : ix' = [ix EXCEPT !.pc = p]
  BY DEF MaterialDone, Free
<1> QED BY <1>1, <1>2, IxFree

-----------------------------------------------------------------------------
(* The capability batch.                                                   *)

CapType == [made : BOOLEAN, req : Answers, resp : Guides \cup {None}, done : BOOLEAN]

\* The capability columns of the staging generation become c.
LEMMA CapWrites ==
    ASSUME IInv, ix.pc \notin {"idle", "acquire"}, NEW c \in CapType,
           NEW r \in Generations, r.cap = c, gens' = [gens EXCEPT ![ix.g] = r],
           r.src = Cur.src, r.guid = Cur.guid, r.req = Cur.req, r.tb = Cur.tb,
           r.status = Cur.status, r.hash = Cur.hash, UNCHANGED outVars, flawed' = flawed,
           arts' \in ArtType, arts.tool \subseteq arts'.tool, ix' \in IxType(Len(gens)),
           c.done = TRUE => c.resp # None, ix.g \notin flawed => CapOK(r),
           ix'.pc # "acquire", ix'.pc # "idle" => ix'.g = ix.g /\ StageOK(ix', r, flawed)
    PROVE  IInv'
<1>1. /\ ix.g \in DOMAIN gens /\ Cur = gens[ix.g] /\ Cur.status = "staging"
      /\ RowOK(Cur, arts.tool) /\ TypeObs
  BY Here
<1>2. RowOK(r, arts.tool)
  BY <1>1 DEF RowOK, Fits, Batched
<1>3. RowOK(r, arts'.tool)
  BY <1>2, RowGrows
<1> QED BY <1>1, <1>3, ObsStands, GenMoves

\* The capability batch is made once every source has guidance.
LEMMA CapCreateStep == IInv /\ CapCreate => IInv'
<1> SUFFICES ASSUME IInv, CapCreate PROVE IInv'
  OBVIOUS
<1> DEFINE c == [Cur.cap EXCEPT !.made = TRUE, !.req = Cur.guid]
           r == [Cur EXCEPT !.cap = c, !.want = Cur.src]
<1>1. /\ ix.pc = "cap" /\ UNCHANGED outVars /\ UNCHANGED <<arts, flawed>> /\ CapReady
      /\ ix' = [ix EXCEPT !.pc = "capreuse"]
      /\ gens' = [gens EXCEPT ![ix.g].cap.made = TRUE, ![ix.g].cap.req = Cur.guid, ![ix.g].want = Cur.src]
  BY DEF CapCreate, At, IxGens, outVars
<1>2. /\ ix.g \in DOMAIN gens /\ Cur = gens[ix.g] /\ Cur \in Generations
      /\ Cur.status = "staging" /\ RowOK(Cur, arts.tool) /\ ix \in IxType(Len(gens))
      /\ TypeObs /\ TypeRows
  BY <1>1, Here
<1>3. Cur.cap \in CapType /\ Cur.guid \in Answers /\ Cur.src \in ToolList
  BY <1>2 DEF Generations, CapType
<1>4. gens' = [gens EXCEPT ![ix.g] = r]
  BY <1>1, <1>2, <1>3 DEF TypeRows, CapType, Generations
<1>5. c \in CapType /\ c.made = TRUE /\ c.req = Cur.guid /\ c.resp = Cur.cap.resp /\ c.done = Cur.cap.done
  BY <1>3 DEF CapType
<1> HIDE DEF c
<1>6. /\ r \in Generations /\ r.cap = c /\ r.src = Cur.src /\ r.guid = Cur.guid /\ r.req = Cur.req
      /\ r.tb = Cur.tb /\ r.status = Cur.status /\ r.hash = Cur.hash
  BY <1>2, <1>3, <1>5 DEF Generations, CapType
<1> HIDE DEF r
<1>7. CapOK(r)
  BY <1>1, <1>5, <1>6 DEF CapOK, CapReady, Present
<1>8. ix' \in IxType(Len(gens)) /\ ix'.pc = "capreuse" /\ ix'.g = ix.g
  BY <1>1, <1>2 DEF IxType, Phases
<1>9. StageOK(ix', r, flawed)
  BY <1>5, <1>6, <1>8 DEF StageOK
<1>10. c.done = TRUE => c.resp # None
  BY <1>2, <1>5 DEF RowOK
<1>11. arts' \in ArtType /\ arts.tool \subseteq arts'.tool
  BY <1>1, ArtsStand
<1> QED BY <1>1, <1>4, <1>5, <1>6, <1>7, <1>8, <1>9, <1>10, <1>11, CapWrites

\* After the capability batch a commit goes on to its counts.
LEMMA CapPreparedStage ==
    ASSUME IInv, ix.pc \notin {"idle", "acquire"}, NEW r, r.cap.made = TRUE
    PROVE  /\ CapPrepared \in IxType(Len(gens)) /\ CapPrepared.pc # "acquire"
           /\ CapPrepared.pc # "idle" => CapPrepared.g = ix.g /\ StageOK(CapPrepared, r, flawed)
<1>1. ix \in IxType(Len(gens)) /\ Len(gens) \in Nat
  BY Here
<1>2. CASE CapPrepared = Idle
  BY <1>1, <1>2, IdleType
<1>3. CASE CapPrepared = [ix EXCEPT !.pc = "counts"]
  <2>1. CapPrepared \in IxType(Len(gens)) /\ CapPrepared.pc = "counts" /\ CapPrepared.g = ix.g
    BY <1>1, <1>3 DEF IxType, Phases
  <2> QED BY <2>1 DEF StageOK
<1> QED BY <1>2, <1>3 DEF CapPrepared

\* A hierarchy known from before is an answer for this one.
LEMMA CapReuseStep == IInv /\ CapReuse => IInv'
<1> SUFFICES ASSUME IInv, CapReuse PROVE IInv'
  OBVIOUS
<1>1. ix.pc = "capreuse" /\ UNCHANGED outVars /\ UNCHANGED <<arts, flawed>>
  BY DEF CapReuse, At, IxGens, outVars
<1>2. /\ ix.g \in DOMAIN gens /\ Cur = gens[ix.g] /\ Cur \in Generations
      /\ Cur.status = "staging" /\ RowOK(Cur, arts.tool) /\ (ix.g \notin flawed => CapOK(Cur))
      /\ StageOK(ix, Cur, flawed) /\ ix \in IxType(Len(gens)) /\ Len(gens) \in Nat
      /\ TypeObs /\ TypeRows
  BY <1>1, Here
<1>3. Cur.cap.made = TRUE
  BY <1>1, <1>2 DEF StageOK
<1>4. CASE ix' = CapPrepared /\ UNCHANGED gens
  BY <1>1, <1>2, <1>3, <1>4, CapPreparedStage, ObsStands, IxMoves DEF TypeRows
<1>5. ASSUME NEW h \in Guides, gens' = [gens EXCEPT ![ix.g].cap.resp = h],
             ix' = [ix EXCEPT !.pc = "capfulfil"]
      PROVE  IInv'
  <2> DEFINE c == [Cur.cap EXCEPT !.resp = h]
             r == [Cur EXCEPT !.cap = c]
  <2>1. Cur.cap \in CapType /\ h # None
    BY <1>2, CatalogAssumption DEF Generations, CapType
  <2>2. gens' = [gens EXCEPT ![ix.g] = r]
    BY <1>2, <1>5 DEF TypeRows
  <2>3. c \in CapType /\ c.made = TRUE /\ c.req = Cur.cap.req /\ c.resp = h
    BY <1>3, <2>1 DEF CapType
  <2> HIDE DEF c
  <2>4. /\ r \in Generations /\ r.cap = c /\ r.src = Cur.src /\ r.guid = Cur.guid /\ r.req = Cur.req
        /\ r.tb = Cur.tb /\ r.status = Cur.status /\ r.hash = Cur.hash
    BY <1>2, <2>3 DEF Generations, CapType
  <2> HIDE DEF r
  <2>5. ix.g \notin flawed => CapOK(r)
    BY <1>2, <1>3, <2>3, <2>4 DEF CapOK
  <2>6. ix' \in IxType(Len(gens)) /\ ix'.pc = "capfulfil" /\ ix'.g = ix.g
    BY <1>2, <1>5 DEF IxType, Phases
  <2>7. StageOK(ix', r, flawed)
    BY <2>1, <2>3, <2>4, <2>6 DEF StageOK
  <2>8. arts' \in ArtType /\ arts.tool \subseteq arts'.tool
    BY <1>1, ArtsStand
  <2> QED BY <1>1, <2>1, <2>2, <2>3, <2>4, <2>5, <2>6, <2>7, <2>8, CapWrites
<1> QED BY <1>4, <1>5 DEF CapReuse

\* An existing capability batch is used as it is.
LEMMA CapExistsStep == IInv /\ CapExists => IInv'
<1> SUFFICES ASSUME IInv, CapExists PROVE IInv'
  OBVIOUS
<1>1. /\ ix.pc = "cap" /\ UNCHANGED outVars /\ UNCHANGED <<gens, arts, flawed>> /\ Cur.cap.made
      /\ ix' = IF Cur.cap.resp = None THEN CapPrepared ELSE [ix EXCEPT !.pc = "capfulfil"]
  BY DEF CapExists, At, IxOnly, outVars
<1>2. /\ ix.g \in DOMAIN gens /\ Cur = gens[ix.g] /\ Cur \in Generations
      /\ Cur.status = "staging" /\ ix \in IxType(Len(gens)) /\ TypeObs /\ TypeRows
  BY <1>1, Here
<1>3. Cur.cap.made = TRUE
  <2>1. Cur.cap.made \in BOOLEAN
    BY <1>2 DEF Generations
  <2> QED BY <1>1, <2>1, Zenon
<1>4. CASE ix' = CapPrepared
  BY <1>1, <1>2, <1>3, <1>4, CapPreparedStage, ObsStands, IxMoves DEF TypeRows
<1>5. CASE Cur.cap.resp # None /\ ix' = [ix EXCEPT !.pc = "capfulfil"]
  <2>1. ix' \in IxType(Len(gens)) /\ ix'.pc = "capfulfil" /\ ix'.g = ix.g
    BY <1>2, <1>5 DEF IxType, Phases
  <2>2. StageOK(ix', Cur, flawed)
    BY <1>3, <1>5, <2>1 DEF StageOK
  <2> QED BY <1>1, <1>2, <2>1, <2>2, ObsStands, IxMoves DEF TypeRows
<1> QED BY <1>1, <1>4, <1>5

\* A hierarchy is done only with an answer.
LEMMA CapFulfilStep == IInv /\ CapFulfil => IInv'
<1> SUFFICES ASSUME IInv, CapFulfil PROVE IInv'
  OBVIOUS
<1>1. /\ ix.pc = "capfulfil" /\ UNCHANGED outVars /\ UNCHANGED flawed /\ ix' = CapPrepared
      /\ arts' = [arts EXCEPT !.cap = @ \cup {<<Cur.src, Cur.cap.req, Cur.cap.resp>>}]
  BY DEF CapFulfil, At, IxArts, outVars
<1>2. /\ ix.g \in DOMAIN gens /\ Cur = gens[ix.g] /\ Cur \in Generations
      /\ Cur.status = "staging" /\ RowOK(Cur, arts.tool) /\ (ix.g \notin flawed => CapOK(Cur))
      /\ StageOK(ix, Cur, flawed) /\ ix \in IxType(Len(gens)) /\ Len(gens) \in Nat
      /\ TypeObs /\ TypeRows
  BY <1>1, Here
<1>3. Cur.cap.made = TRUE /\ Cur.cap.resp # None
  BY <1>1, <1>2 DEF StageOK
<1>4. Cur.cap \in CapType /\ Cur.src \in ToolList /\ Cur.review \in {"none", "open", "closed"}
  BY <1>2 DEF Generations, CapType
<1>5. PICK v \in {"none", "open", "closed"} :
        gens' = [gens EXCEPT ![ix.g].cap.done = TRUE, ![ix.g].have = Cur.src, ![ix.g].review = v]
  BY <1>4 DEF CapFulfil
<1> DEFINE c == [Cur.cap EXCEPT !.done = TRUE]
           r == [Cur EXCEPT !.cap = c, !.have = Cur.src, !.review = v]
<1>6. gens' = [gens EXCEPT ![ix.g] = r]
  BY <1>2, <1>5 DEF TypeRows
<1>7. c \in CapType /\ c.made = TRUE /\ c.req = Cur.cap.req /\ c.resp = Cur.cap.resp
  BY <1>3, <1>4 DEF CapType
<1> HIDE DEF c
<1>8. /\ r \in Generations /\ r.cap = c /\ r.src = Cur.src /\ r.guid = Cur.guid /\ r.req = Cur.req
      /\ r.tb = Cur.tb /\ r.status = Cur.status /\ r.hash = Cur.hash
  BY <1>2, <1>4, <1>7 DEF Generations, CapType
<1> HIDE DEF r
<1>9. ix.g \notin flawed => CapOK(r)
  BY <1>2, <1>3, <1>7, <1>8 DEF CapOK
<1>10. arts' \in ArtType /\ arts.tool \subseteq arts'.tool
  <2>1. <<Cur.src, Cur.cap.req, Cur.cap.resp>> \in ToolList \X Answers \X Guides
    BY <1>3, <1>4 DEF CapType
  <2>2. arts.cap \cup {<<Cur.src, Cur.cap.req, Cur.cap.resp>>} \in SUBSET (ToolList \X Answers \X Guides)
    BY <1>2, <2>1 DEF TypeRows, ArtType
  <2> QED BY <1>1, <1>2, <2>2 DEF TypeRows, ArtType
<1>11. /\ ix' \in IxType(Len(gens)) /\ ix'.pc # "acquire"
       /\ ix'.pc # "idle" => ix'.g = ix.g /\ StageOK(ix', r, flawed)
  BY <1>1, <1>7, <1>8, CapPreparedStage
<1> QED BY <1>1, <1>3, <1>6, <1>7, <1>8, <1>9, <1>10, <1>11, CapWrites

-----------------------------------------------------------------------------
(* Markers, submissions and the commit.                                    *)

\* Clearing a marker touches no generation.
LEMMA ReconcileDirtyStep ==
    ASSUME IInv, NEW s \in Servers, ReconcileDirty(s)
    PROVE  IInv'
<1>1. /\ ix.pc = "clear" /\ dirty' = [dirty EXCEPT ![s] = ClearDirty(s)]
      /\ ix' = [ix EXCEPT !.before[s] = 0] /\ UNCHANGED <<gens, arts, flawed>>
      /\ UNCHANGED <<live, changes, faults, cache, up, effective, seen, obs, inv, marks, rev,
                     config, servers, lost>>
  BY DEF ReconcileDirty, At
<1>2. /\ ix.g \in DOMAIN gens /\ Cur = gens[ix.g] /\ Cur.status = "staging"
      /\ ix \in IxType(Len(gens)) /\ TypeObs /\ TypeRows
  BY <1>1, Here
<1>3. TypeObs'
  <2>1. dirty' \in [Servers -> Nat]
    BY <1>1, <1>2 DEF TypeObs, ClearDirty
  <2> QED BY <1>1, <1>2, <2>1 DEF TypeObs
<1>4. ix' \in IxType(Len(gens)) /\ ix'.pc = "clear" /\ ix'.g = ix.g
  <2>1. [ix.before EXCEPT ![s] = 0] \in [Servers -> Nat]
    BY <1>2 DEF IxType
  <2> QED BY <1>1, <1>2, <2>1 DEF IxType
<1>5. StageOK(ix', gens[ix'.g], flawed')
  BY <1>4, FreeStage DEF Free
<1> QED BY <1>1, <1>2, <1>3, <1>4, <1>5, IxMoves DEF TypeRows

\* The end of the cleaning touches no generation.
LEMMA ReconcileDoneStep == IInv /\ ReconcileDone => IInv'
<1> SUFFICES ASSUME IInv, ReconcileDone PROVE IInv'
  OBVIOUS
<1>1. ix.pc = "clear" /\ ix' = Idle /\ UNCHANGED outVars /\ UNCHANGED <<gens, arts, flawed>>
  BY DEF ReconcileDone, At, IxOnly, outVars
<1> QED BY <1>1, IxFree

\* An operation begins on the staging generation.
LEMMA BeginStep ==
    ASSUME IInv, NEW op \in {"getbatch", "commit"}, NEW p \in Free, Begin(op, p)
    PROVE  IInv'
<1> DEFINE g == Newest(Staging(rev))
<1>1. /\ ix' = [Idle EXCEPT !.op = op, !.pc = p, !.g = g] /\ UNCHANGED outVars
      /\ UNCHANGED <<gens, arts, flawed>> /\ Staging(rev) # {}
  BY DEF Begin, IxOnly, outVars
<1>2. g \in DOMAIN gens /\ gens[g].status = "staging"
  BY <1>1, StagingHas
<1>3. TypeObs /\ TypeRows /\ DOMAIN gens = 1 .. Len(gens) /\ Len(gens) \in Nat
  BY TypeParts, GensIsSeq DEF IInv
<1> HIDE DEF g
<1>4. ix' \in IxType(Len(gens)) /\ ix'.pc = p /\ ix'.g = g /\ p # "acquire"
  <2>1. g \in 0 .. Len(gens) /\ Idle \in IxType(Len(gens))
    BY <1>2, <1>3, IdleType
  <2> QED BY <1>1, <2>1 DEF IxType, Phases, Free
<1>5. StageOK(ix', gens[ix'.g], flawed')
  BY <1>4, FreeStage
<1> QED BY <1>1, <1>2, <1>3, <1>4, <1>5, ObsStands, IxMoves DEF TypeRows

\* A batch has one answer for good: a second one is refused.
LEMMA SubmitToolStep ==
    ASSUME IInv, NEW g \in DOMAIN gens, NEW i \in DOMAIN gens[g].tb, NEW v \in Guides,
           SubmitTool(g, i, v)
    PROVE  IInv'
<1> DEFINE q == gens[g]
           r == [q EXCEPT !.tb[i].resp = v]
<1>1. /\ q.status = "staging" /\ q.tb[i].resp \in {None, v} /\ UNCHANGED outVars
      /\ UNCHANGED <<arts, flawed>> /\ gens' = [gens EXCEPT ![g].tb[i].resp = v]
      /\ ix' = [Idle EXCEPT !.op = "submit", !.pc = "material", !.g = g, !.batch = i,
                            !.todo = q.tb[i].items]
  BY DEF SubmitTool, Acceptable, IxGens, outVars
<1>2. /\ TypeObs /\ TypeRows /\ DOMAIN gens = 1 .. Len(gens) /\ Len(gens) \in Nat
      /\ q \in Generations
  BY TypeParts, GensIsSeq DEF IInv
<1>3. RowOK(q, arts.tool) /\ (g \notin flawed => CapOK(q))
  BY DEF IInv, Rows, Caps
<1>4. /\ q.tb \in Seq(Batch) /\ i \in Nat /\ q.tb[i] \in Batch /\ q.tb[i].items \subseteq Members
      /\ \A j \in DOMAIN q.tb : q.tb[j] \in Batch
  BY <1>2, BatchType
<1>5. gens' = [gens EXCEPT ![g] = r]
  BY <1>1, <1>2 DEF TypeRows
<1> HIDE DEF q
<1>6. [q.tb[i] EXCEPT !.resp = v] \in Batch /\ [q.tb[i] EXCEPT !.resp = v].items = q.tb[i].items
      /\ [q.tb[i] EXCEPT !.resp = v].resp = v
  BY <1>4 DEF Batch
<1> DEFINE tb == [q.tb EXCEPT ![i] = [q.tb[i] EXCEPT !.resp = v]]
<1>7. /\ tb \in Seq(Batch) /\ DOMAIN tb = DOMAIN q.tb /\ tb[i] = [q.tb[i] EXCEPT !.resp = v]
      /\ \A j \in DOMAIN q.tb \ {i} : tb[j] = q.tb[j]
  <2> DEFINE b == [q.tb[i] EXCEPT !.resp = v]
  <2>1. b \in Batch /\ i \in DOMAIN q.tb
    BY <1>6 DEF q
  <2> HIDE DEF b
  <2>2. /\ [q.tb EXCEPT ![i] = b] \in Seq(Batch) /\ DOMAIN [q.tb EXCEPT ![i] = b] = DOMAIN q.tb
        /\ [q.tb EXCEPT ![i] = b][i] = b /\ \A j \in DOMAIN q.tb \ {i} : [q.tb EXCEPT ![i] = b][j] = q.tb[j]
    BY <1>4, <2>1
  <2> QED BY <2>2 DEF b
<1>8. r = [q EXCEPT !.tb = tb]
  BY <1>2, <1>4
<1> HIDE DEF tb, r
<1>9. /\ r \in Generations /\ r.src = q.src /\ r.guid = q.guid /\ r.req = q.req
      /\ r.tb = tb /\ r.cap = q.cap /\ r.status = q.status /\ r.hash = q.hash
  BY <1>2, <1>7, <1>8 DEF Generations, Batch, q
<1>10. /\ \A j \in DOMAIN r.tb : r.tb[j].items = q.tb[j].items
       /\ DOMAIN r.tb = DOMAIN q.tb /\ r.tb[i].resp = v
       /\ \A j \in DOMAIN q.tb : q.tb[j].resp # None => r.tb[j].resp = q.tb[j].resp
  BY <1>1, <1>6, <1>7, <1>9
<1>11. RowOK(r, arts.tool)
  <2>1. Fits(r, arts.tool)
    BY <1>3, <1>9 DEF RowOK, Fits
  <2>2. Batched(r)
    BY <1>3, <1>9, <1>10 DEF RowOK, Batched
  <2> QED BY <1>3, <1>9, <2>1, <2>2 DEF RowOK
<1>12. g \notin flawed => CapOK(r)
  BY <1>3, <1>9 DEF CapOK
<1>13. /\ ix' \in IxType(Len(gens)) /\ ix'.pc = "material" /\ ix'.g = g /\ ix'.batch = i
       /\ ix'.todo = q.tb[i].items
  <2>1. g \in 0 .. Len(gens) /\ Idle \in IxType(Len(gens))
    BY <1>2, IdleType
  <2> QED BY <1>1, <1>4, <2>1 DEF IxType, Phases
<1>14. StageOK(ix', r, flawed)
  <2>1. i \in DOMAIN r.tb /\ v # None
    BY <1>10, CatalogAssumption DEF q
  <2> QED BY <1>10, <1>13, <2>1 DEF StageOK
<1>15. gens[g].status = "staging" /\ r.status = "staging" /\ r.hash = gens[g].hash
  BY <1>1, <1>9 DEF q
<1> QED BY <1>1, <1>2, <1>5, <1>9, <1>11, <1>12, <1>13, <1>14, <1>15, ObsStands, ArtsStand, GenMoves

\* An answer to the capability batch attaches nothing yet.
LEMMA SubmitCapStep ==
    ASSUME IInv, NEW g \in DOMAIN gens, NEW v \in Guides, SubmitCap(g, v)
    PROVE  IInv'
<1> DEFINE q == gens[g]
           c == [q.cap EXCEPT !.resp = v]
           r == [q EXCEPT !.cap = c]
<1>1. /\ q.status = "staging" /\ q.cap.made /\ UNCHANGED outVars
      /\ UNCHANGED <<arts, flawed>> /\ gens' = [gens EXCEPT ![g].cap.resp = v]
      /\ ix' = [Idle EXCEPT !.op = "submit", !.pc = "capfulfil", !.g = g]
  BY DEF SubmitCap, IxGens, outVars
<1>2. /\ TypeObs /\ TypeRows /\ DOMAIN gens = 1 .. Len(gens) /\ Len(gens) \in Nat
      /\ q \in Generations
  BY TypeParts, GensIsSeq DEF IInv
<1>3. RowOK(q, arts.tool) /\ (g \notin flawed => CapOK(q))
  BY DEF IInv, Rows, Caps
<1>4. q.cap \in CapType
  BY <1>2 DEF Generations, CapType
<1>5. q.cap.made = TRUE
  <2>1. q.cap.made \in BOOLEAN
    BY <1>4 DEF CapType
  <2> QED BY <1>1, <2>1, Zenon
<1>6. gens' = [gens EXCEPT ![g] = r]
  BY <1>1, <1>2 DEF TypeRows
<1> HIDE DEF q
<1>7. c \in CapType /\ c.made = TRUE /\ c.req = q.cap.req /\ c.resp = v
  BY <1>4, <1>5 DEF CapType
<1> HIDE DEF c
<1>8. /\ r \in Generations /\ r.cap = c /\ r.src = q.src /\ r.guid = q.guid /\ r.req = q.req
      /\ r.tb = q.tb /\ r.status = q.status /\ r.hash = q.hash
  BY <1>2, <1>7 DEF Generations, CapType
<1> HIDE DEF r
<1>9. v # None
  BY CatalogAssumption
<1>10. RowOK(r, arts.tool)
  BY <1>3, <1>7, <1>8, <1>9 DEF RowOK, Fits, Batched
<1>11. g \notin flawed => CapOK(r)
  BY <1>3, <1>5, <1>7, <1>8 DEF CapOK
<1>12. ix' \in IxType(Len(gens)) /\ ix'.pc = "capfulfil" /\ ix'.g = g
  <2>1. g \in 0 .. Len(gens) /\ Idle \in IxType(Len(gens))
    BY <1>2, IdleType
  <2> QED BY <1>1, <2>1 DEF IxType, Phases
<1>13. StageOK(ix', r, flawed)
  BY <1>7, <1>8, <1>9, <1>12 DEF StageOK
<1>14. gens[g].status = "staging" /\ r.status = "staging" /\ r.hash = gens[g].hash
  BY <1>1, <1>8 DEF q
<1> QED BY <1>1, <1>2, <1>6, <1>8, <1>10, <1>11, <1>12, <1>13, <1>14, ObsStands, ArtsStand, GenMoves

\* The review of a generation is not part of what it publishes.
LEMMA ReviewKeeps ==
    ASSUME IInv, NEW g \in DOMAIN gens, SubmitReview(g)
    PROVE  /\ ix.pc = "idle" /\ UNCHANGED outVars /\ UNCHANGED <<ix, arts, flawed>>
           /\ gens' \in Seq(Generations) /\ Len(gens') = Len(gens) /\ DOMAIN gens' = DOMAIN gens
           /\ \A h \in DOMAIN gens : Same(gens'[h], gens[h]) /\ gens'[h].emb = gens[h].emb
<1> DEFINE r == [gens[g] EXCEPT !.review = "closed"]
<1>1. /\ ix = Idle /\ UNCHANGED outVars /\ UNCHANGED <<ix, arts, flawed>>
      /\ gens' = [gens EXCEPT ![g].review = "closed"]
  BY DEF SubmitReview, IxGens, outVars
<1>2. /\ gens \in Seq(Generations) /\ gens[g] \in Generations /\ Len(gens) \in Nat
      /\ DOMAIN gens = 1 .. Len(gens)
  BY TypeParts, GensIsSeq DEF IInv, TypeRows
<1>3. gens' = [gens EXCEPT ![g] = r]
  BY <1>1, <1>2
<1>4. r \in Generations /\ Same(r, gens[g]) /\ r.emb = gens[g].emb
  BY <1>2 DEF Generations, Same
<1> HIDE DEF r
<1>5. /\ gens' \in Seq(Generations) /\ Len(gens') = Len(gens) /\ DOMAIN gens' = DOMAIN gens
      /\ gens'[g] = r /\ \A h \in DOMAIN gens \ {g} : gens'[h] = gens[h]
  BY <1>2, <1>3, <1>4
<1>6. \A h : Same(gens[h], gens[h])
  BY DEF Same
<1> QED BY <1>1, <1>2, <1>4, <1>5, <1>6, IdleType

\* A review attaches nothing.
LEMMA SubmitReviewStep ==
    ASSUME IInv, NEW g \in DOMAIN gens, SubmitReview(g)
    PROVE  IInv'
<1>1. /\ ix.pc = "idle" /\ UNCHANGED outVars /\ UNCHANGED <<ix, arts, flawed>>
      /\ gens' \in Seq(Generations) /\ Len(gens') = Len(gens) /\ DOMAIN gens' = DOMAIN gens
      /\ \A h \in DOMAIN gens : Same(gens'[h], gens[h]) /\ gens'[h].emb = gens[h].emb
  BY ReviewKeeps
<1>2. TypeOK'
  BY <1>1, ObsStands, TypeParts, TypePartsPrime DEF IInv, TypeRows, TypeIx
<1>3. Rows' /\ Caps'
  BY <1>1, SameRow DEF IInv, Rows, Caps
<1>4. WithStatus("staging")' = WithStatus("staging") /\ Active' = Active
  BY <1>1 DEF WithStatus, Active, Same
<1>5. Unique'
  BY <1>4 DEF IInv, Unique
<1>6. ActiveWhole'
  <2>1. \A h \in Active : h \in DOMAIN gens
    BY DEF Active, WithStatus
  <2> QED BY <1>1, <1>4, <2>1 DEF IInv, ActiveWhole, Same
<1>7. Stage'
  BY <1>1 DEF Stage
<1> QED BY <1>2, <1>3, <1>5, <1>6, <1>7 DEF IInv

\* The check of a commit writes nothing.
LEMMA CommitCheckStep == IInv /\ CommitCheck => IInv'
<1> SUFFICES ASSUME IInv, CommitCheck PROVE IInv'
  OBVIOUS
<1>1. /\ ix.pc = "counts" /\ ix' = [ix EXCEPT !.pc = "promote", !.hash = rev] /\ UNCHANGED outVars
      /\ UNCHANGED <<gens, arts, flawed>>
  BY DEF CommitCheck, At, IxOnly, outVars
<1>2. /\ ix.g \in DOMAIN gens /\ Cur = gens[ix.g] /\ Cur.status = "staging"
      /\ StageOK(ix, Cur, flawed) /\ ix \in IxType(Len(gens)) /\ TypeObs /\ TypeRows
  BY <1>1, Here
<1>3. ix' \in IxType(Len(gens)) /\ ix'.pc = "promote" /\ ix'.g = ix.g
  BY <1>1, <1>2 DEF IxType, Phases, TypeObs
<1>4. StageOK(ix', gens[ix'.g], flawed')
  BY <1>1, <1>2, <1>3 DEF StageOK
<1> QED BY <1>1, <1>2, <1>3, <1>4, ObsStands, IxMoves DEF TypeRows

\* The generation that is promoted, and what becomes of the others.
LEMMA PromoteKeeps ==
    ASSUME IInv, Promote
    PROVE  /\ ix.pc = "promote" /\ ix' = Idle /\ UNCHANGED outVars /\ UNCHANGED <<arts, flawed>>
           /\ ix.g \in DOMAIN gens /\ gens[ix.g].status = "staging"
           /\ gens' \in Seq(Generations) /\ Len(gens') = Len(gens) /\ DOMAIN gens' = DOMAIN gens
           /\ gens'[ix.g] = [gens[ix.g] EXCEPT !.status = "active"] /\ Complete(gens[ix.g])
           /\ gens[ix.g].cap.made = TRUE
           /\ \A g \in DOMAIN gens \ {ix.g} :
                gens'[g] = IF gens[g].status = "active" THEN Superseded ELSE gens[g]
           /\ Active' = {ix.g} /\ WithStatus("staging")' = {}
<1>1. /\ ix.pc = "promote" /\ Promotable /\ ix' = Idle /\ UNCHANGED outVars /\ UNCHANGED <<arts, flawed>>
      /\ gens' = [g \in DOMAIN gens |->
                    IF g = ix.g THEN [gens[g] EXCEPT !.status = "active"]
                    ELSE IF gens[g].status = "active" THEN Superseded
                    ELSE gens[g]]
  BY DEF Promote, At, IxGens, outVars
<1>2. /\ ix.g \in DOMAIN gens /\ Cur = gens[ix.g] /\ Cur \in Generations
      /\ Cur.status = "staging" /\ StageOK(ix, Cur, flawed) /\ TypeRows /\ Len(gens) \in Nat
  BY <1>1, Here
<1>3. DOMAIN gens = 1 .. Len(gens) /\ \A g \in DOMAIN gens : gens[g] \in Generations
  BY <1>2, GensIsSeq
<1>4. [Cur EXCEPT !.status = "active"] \in Generations
      /\ [Cur EXCEPT !.status = "active"].status = "active"
  BY <1>2 DEF Generations
<1>5. /\ DOMAIN gens' = DOMAIN gens /\ gens'[ix.g] = [Cur EXCEPT !.status = "active"]
      /\ \A g \in DOMAIN gens \ {ix.g} :
            gens'[g] = IF gens[g].status = "active" THEN Superseded ELSE gens[g]
  BY <1>1, <1>2
<1>6. \A g \in DOMAIN gens : gens'[g] \in Generations
  BY <1>3, <1>4, <1>5, SupersededOK
<1>7. gens' \in [1 .. Len(gens) -> Generations]
  BY <1>1, <1>3, <1>6
<1>8. gens' \in Seq(Generations) /\ Len(gens') = Len(gens)
  BY <1>2, <1>7
<1>9. Active' = {ix.g}
  <2>1. gens'[ix.g].status = "active" /\ Superseded.status = "superseded"
    BY <1>4, <1>5, SupersededOK
  <2>2. \A g \in DOMAIN gens \ {ix.g} : gens'[g].status # "active"
    BY <1>5, <2>1
  <2> QED BY <1>2, <1>5, <2>1, <2>2 DEF Active, WithStatus
<1>10. WithStatus("staging")' = {}
  <2>1. \A g \in WithStatus("staging") : g = ix.g
    BY <1>2 DEF IInv, Unique, WithStatus
  <2> QED BY <1>4, <1>5, <2>1, SupersededOK DEF WithStatus
<1>11. Cur.cap.made = TRUE /\ Complete(gens[ix.g])
  BY <1>1, <1>2 DEF StageOK, Promotable
<1> QED BY <1>1, <1>2, <1>5, <1>8, <1>9, <1>10, <1>11

\* The promoted generation is whole, and the one it replaces is no longer active.
LEMMA PromoteStep == IInv /\ Promote => IInv'
<1> SUFFICES ASSUME IInv, Promote PROVE IInv'
  OBVIOUS
<1>1. /\ ix.pc = "promote" /\ ix' = Idle /\ UNCHANGED outVars /\ UNCHANGED <<arts, flawed>>
      /\ ix.g \in DOMAIN gens /\ gens[ix.g].status = "staging"
      /\ gens' \in Seq(Generations) /\ Len(gens') = Len(gens) /\ DOMAIN gens' = DOMAIN gens
      /\ gens'[ix.g] = [gens[ix.g] EXCEPT !.status = "active"] /\ Complete(gens[ix.g])
      /\ gens[ix.g].cap.made = TRUE
      /\ \A g \in DOMAIN gens \ {ix.g} :
           gens'[g] = IF gens[g].status = "active" THEN Superseded ELSE gens[g]
      /\ Active' = {ix.g} /\ WithStatus("staging")' = {}
  BY PromoteKeeps
<1>2. /\ gens[ix.g] \in Generations /\ RowOK(gens[ix.g], arts.tool)
      /\ (ix.g \notin flawed => CapOK(gens[ix.g])) /\ Len(gens) \in Nat /\ TypeObs /\ TypeRows
  BY <1>1, Here
<1>3. /\ gens'[ix.g].src = gens[ix.g].src /\ gens'[ix.g].guid = gens[ix.g].guid
      /\ gens'[ix.g].req = gens[ix.g].req /\ gens'[ix.g].tb = gens[ix.g].tb
      /\ gens'[ix.g].cap = gens[ix.g].cap /\ gens'[ix.g].emb = gens[ix.g].emb
  BY <1>1, <1>2 DEF Generations
<1>4. TypeOK'
  BY <1>1, <1>2, IdleType, ObsStands, TypePartsPrime DEF TypeRows, TypeIx
<1>5. RowOK(gens'[ix.g], arts.tool) /\ (ix.g \notin flawed => CapOK(gens'[ix.g]))
  BY <1>2, <1>3 DEF RowOK, Fits, Batched, CapOK
<1>6. Rows' /\ Caps'
  BY <1>1, <1>5, SupersededOK DEF IInv, Rows, Caps
<1>7. Unique'
  BY <1>1 DEF Unique
<1>8. ActiveWhole'
  <2>1. gens[ix.g].cap.done = TRUE /\ gens[ix.g].req \subseteq gens[ix.g].emb
    <3>1. gens[ix.g].cap.done \in BOOLEAN
      BY <1>2 DEF Generations
    <3>2. gens[ix.g].req \subseteq gens[ix.g].emb
      BY <1>1 DEF Complete
    <3>3. gens[ix.g].cap.made => gens[ix.g].cap.done
      BY <1>1, Zenon DEF Complete
    <3> QED BY <1>1, <3>1, <3>2, <3>3, Zenon
  <2> QED BY <1>1, <1>3, <2>1 DEF ActiveWhole
<1>9. Stage'
  BY <1>1, IdleType DEF Stage
<1> QED BY <1>4, <1>6, <1>7, <1>8, <1>9 DEF IInv

-----------------------------------------------------------------------------
(* Failures.                                                               *)

\* Flawed generations are generations, also after an operation was cut off.
LEMMA CutType == IInv => CutNow \subseteq DOMAIN gens /\ flawed \subseteq CutNow
<1> SUFFICES ASSUME IInv PROVE CutNow \subseteq DOMAIN gens /\ flawed \subseteq CutNow
  OBVIOUS
<1>1. flawed \subseteq DOMAIN gens
  BY TypeParts DEF IInv, TypeRows
<1>2. ix.pc = "populate" => ix.g \in DOMAIN gens
  BY DEF IInv, Stage, InStaging
<1> QED BY <1>1, <1>2 DEF CutNow, At

\* An error ends the operation and leaves its rows as they are.
LEMMA FailStep == IInv /\ Fail => IInv'
<1> SUFFICES ASSUME IInv, Fail PROVE IInv'
  OBVIOUS
<1>1. /\ ix' = Idle /\ flawed' = CutNow /\ UNCHANGED <<gens, arts>>
      /\ UNCHANGED <<live, changes, cache, up, effective, seen, obs, inv, dirty, marks, rev, config,
                     servers, lost>>
  BY DEF Fail
<1>2. TypeObs /\ TypeRows /\ Len(gens) \in Nat
  BY TypeParts, GensIsSeq DEF IInv
<1>3. TypeObs'
  <2>1. faults' \in Nat
    BY <1>2 DEF Fail, Fault, TypeObs
  <2> QED BY <1>1, <1>2, <2>1 DEF TypeObs
<1> QED BY <1>1, <1>2, <1>3, CutType, IdleType, IxMoves

\* The state after a restart of the program.
LEMMA RestartedType ==
    ASSUME TypeObs, Restarted
    PROVE  /\ up' \subseteq Servers /\ effective' \in ToolList /\ seen' \in ToolList
           /\ obs' \in [Servers -> ObsType] /\ inv' \subseteq Servers /\ servers' \subseteq Servers
           /\ ix' = Idle
  BY NoToolsType, IdleObsType DEF TypeObs, Restarted

\* A crash leaves the rows as they are.
LEMMA CrashStep == IInv /\ Crash => IInv'
<1> SUFFICES ASSUME IInv, Crash PROVE IInv'
  OBVIOUS
<1>1. /\ flawed' = CutNow /\ Restarted /\ UNCHANGED <<gens, arts>>
      /\ UNCHANGED <<live, changes, cache, dirty, marks, rev, config>>
      /\ lost' = lost \cup inv \cup {s \in Servers : obs[s].chg} /\ faults' = faults + 1
  BY DEF Crash, Fault
<1>2. TypeObs /\ TypeRows /\ Len(gens) \in Nat
  BY TypeParts, GensIsSeq DEF IInv
<1>3. /\ up' \subseteq Servers /\ effective' \in ToolList /\ seen' \in ToolList
      /\ obs' \in [Servers -> ObsType] /\ inv' \subseteq Servers /\ servers' \subseteq Servers
      /\ ix' = Idle
  BY <1>1, <1>2, RestartedType
<1>4. TypeObs'
  <2>1. lost' \subseteq Servers /\ faults' \in Nat
    BY <1>1, <1>2 DEF TypeObs
  <2> QED BY <1>1, <1>2, <1>3, <2>1 DEF TypeObs
<1> QED BY <1>1, <1>2, <1>3, <1>4, CutType, IdleType, IxMoves

\* An empty catalog.
LEMMA EmptyCatalog ==
    ASSUME TypeObs', gens' = <<>>, arts' = [tool |-> {}, cap |-> {}], ix' = Idle, flawed' = {}
    PROVE  IInv'
<1>1. gens' \in Seq(Generations) /\ DOMAIN gens' = {} /\ Len(gens') = 0
  OBVIOUS
<1>2. TypeOK'
  BY <1>1, IdleType, TypePartsPrime DEF TypeRows, TypeIx, ArtType
<1>3. Rows' /\ Caps'
  BY <1>1 DEF Rows, Caps
<1>4. Unique' /\ ActiveWhole'
  BY <1>1 DEF Unique, ActiveWhole, Active, WithStatus
<1>5. Stage'
  BY IdleType DEF Stage
<1> QED BY <1>2, <1>3, <1>4, <1>5 DEF IInv

\* The cache and the markers of an empty catalog.
LEMMA EmptyCacheType ==
    /\ [m \in Members |-> [c |-> None, avail |-> FALSE]]
           \in [Members -> [c : Contracts \cup {None}, avail : BOOLEAN]]
    /\ [s \in Servers |-> 0] \in [Servers -> Nat]
  OBVIOUS

\* A cleared catalog has no generation.
LEMMA ClearStep == IInv /\ Clear => IInv'
<1> SUFFICES ASSUME IInv, Clear PROVE IInv'
  OBVIOUS
<1>1. TypeObs
  BY TypeParts DEF IInv
<1>2. cache' \in [Members -> [c : Contracts \cup {None}, avail : BOOLEAN]] /\ dirty' \in [Servers -> Nat]
  BY EmptyCacheType DEF Clear
<1>3. lost' \subseteq Servers /\ faults' \in Nat
  BY <1>1 DEF Clear, Fault, TypeObs
<1>4. TypeObs'
  BY <1>1, <1>2, <1>3 DEF Clear, TypeObs
<1> QED BY <1>4, EmptyCatalog DEF Clear

\* Nor has one whose file was corrupt.
LEMMA OpenCorruptStep == IInv /\ OpenCorrupt => IInv'
<1> SUFFICES ASSUME IInv, OpenCorrupt PROVE IInv'
  OBVIOUS
<1>1. TypeObs
  BY TypeParts DEF IInv
<1>2. cache' \in [Members -> [c : Contracts \cup {None}, avail : BOOLEAN]] /\ dirty' \in [Servers -> Nat]
  BY EmptyCacheType DEF OpenCorrupt
<1>3. lost' \subseteq Servers /\ faults' \in Nat /\ rev' \in Nat
  BY <1>1 DEF OpenCorrupt, Fault, TypeObs
<1>4. /\ up' \subseteq Servers /\ effective' \in ToolList /\ seen' \in ToolList
      /\ obs' \in [Servers -> ObsType] /\ inv' \subseteq Servers /\ servers' \subseteq Servers
      /\ ix' = Idle
  BY <1>1, RestartedType DEF OpenCorrupt
<1>5. TypeObs'
  BY <1>1, <1>2, <1>3, <1>4 DEF OpenCorrupt, TypeObs
<1> QED BY <1>4, <1>5, EmptyCatalog DEF OpenCorrupt

\* Nor the catalog at the start.
LEMMA InitIInv == Init => IInv
<1> SUFFICES ASSUME Init PROVE IInv
  OBVIOUS
<1>1. TypeObs
  <2>1. obs \in [Servers -> ObsType] /\ effective \in ToolList /\ seen \in ToolList
    BY IdleObsType, NoToolsType DEF Init
  <2>2. cache \in [Members -> [c : Contracts \cup {None}, avail : BOOLEAN]] /\ dirty \in [Servers -> Nat]
    BY EmptyCacheType DEF Init
  <2> QED BY <2>1, <2>2 DEF Init, TypeObs, ToolList
<1>2. gens \in Seq(Generations) /\ DOMAIN gens = {} /\ Len(gens) = 0
  BY DEF Init
<1>3. TypeOK
  BY <1>1, <1>2, IdleType, TypeParts DEF Init, TypeRows, TypeIx, ArtType
<1>4. Rows /\ Caps
  BY <1>2 DEF Rows, Caps
<1>5. Unique /\ ActiveWhole
  BY <1>2 DEF Unique, ActiveWhole, Active, WithStatus
<1>6. Stage
  BY IdleType DEF Stage, Init
<1> QED BY <1>3, <1>4, <1>5, <1>6 DEF IInv

\* Every step keeps the invariant.
LEMMA NextIInv == IInv /\ [Next]_vars => IInv'
<1> SUFFICES ASSUME IInv, [Next]_vars PROVE IInv'
  OBVIOUS
<1>1. ASSUME NEW s \in Servers, Observer(s) PROVE IInv'
  BY <1>1, ObserveStep, ReadEffectiveStep, ObserverMarkStep, ObserverAdvanceStep, OtherOutsideStep
     DEF Observer
<1>2. CASE RefreshStep
  BY <1>2, RefreshStarts, StageSupersedeStep, StageCreateStep, StageReuseStep, PopulateToolStep,
     PopulateDoneStep, ReconcileDoneStep, AcquireSnapshotStep, PopulateServerStep, ReconcileDirtyStep
     DEF RefreshStep
<1>3. CASE EnrichStep
  BY <1>3, PrepRepairStep, PrepStartStep, PrepBatchesStep, RepairNextStep, MaterialDoneStep,
     CapCreateStep, CapReuseStep, CapExistsStep, CapFulfilStep, PrepReuseStep, PrepEmbedStep,
     MaterialGuideStep, MaterialEmbedStep DEF EnrichStep
<1>4. CASE AgentStep
  <2>1. CASE GetToolBatch \/ GetCapBatch \/ Commit
    BY <2>1, BeginStep DEF GetToolBatch, GetCapBatch, Commit, Free
  <2> QED BY <1>4, <2>1, CommitCheckStep, PromoteStep, SubmitReviewStep, SubmitCapStep, SubmitToolStep
          DEF AgentStep
<1>5. ASSUME NEW m \in Members, NEW c \in Contracts \cup {None}, LiveChange(m, c) PROVE IInv'
  <2>1. ServerOf[m] \in Servers
    BY CatalogAssumption
  <2> QED BY <1>5, <2>1, OtherOutsideStep
<1>6. CASE SetServers \/ \E S \in SUBSET Servers : SaveServers(S)
  <2>1. CASE Servers = {}
    <3>1. ~SetServers /\ \A S \in SUBSET Servers : ~SaveServers(S)
      BY <2>1, TypeParts DEF IInv, TypeObs, SetServers, SaveServers
    <3> QED BY <1>6, <3>1
  <2>2. ASSUME NEW s \in Servers PROVE IInv'
    BY <1>6, <2>2, OtherOutsideStep
  <2> QED BY <2>1, <2>2
<1>7. CASE UNCHANGED vars
  <2>1. UNCHANGED outVars /\ UNCHANGED inVars
    BY <1>7 DEF vars, outVars, inVars
  <2> QED BY <2>1, TypeParts, ObsStands, OutsideStep DEF IInv
<1> QED BY <1>1, <1>2, <1>3, <1>4, <1>5, <1>6, <1>7, FailStep, ClearStep, CrashStep, OpenCorruptStep
        DEF Next

\* The invariant holds throughout.
LEMMA SpecIInv == Spec => []IInv
  BY InitIInv, NextIInv, PTL DEF Spec

-----------------------------------------------------------------------------
(* What holds of every catalog.                                            *)

\* Every row, session and operation keeps its type (the bounds on generations,
\* revisions and faults play no part).
THEOREM TypeCorrect == Spec => []TypeOK
<1>1. IInv => TypeOK
  BY DEF IInv
<1> QED BY <1>1, SpecIInv, PTL

\* A set whose members are all equal has at most one.
LEMMA AtMostOne ==
    ASSUME NEW S, \A x, y \in S : x = y
    PROVE  Cardinality(S) <= 1
<1>1. CASE S = {}
  BY <1>1, FS_EmptySet
<1>2. ASSUME NEW x \in S PROVE Cardinality(S) <= 1
  <2>1. S = {x}
    BY <1>2
  <2> QED BY <2>1, FS_Singleton
<1> QED BY <1>1, <1>2

\* CreateGeneration, SupersedeStagingExceptHash and Promote together keep one
\* active generation and one that is being built.
THEOREM OneGenerationOfEach == Spec => []OneOfEach
<1>1. IInv => OneOfEach
  BY AtMostOne DEF IInv, Unique, OneOfEach
<1> QED BY <1>1, SpecIInv, PTL

\* Guidance never outlives the contract it was written for.
THEOREM GuidanceFits == Spec => []GuidanceFitsSource
<1>1. IInv => GuidanceFitsSource
  BY DEF IInv, Rows, RowOK, Fits, GuidanceFitsSource
<1> QED BY <1>1, SpecIInv, PTL

\* What is attached is the answer the batch accepted.
THEOREM AnswersAttached == Spec => []AttachedIsAnswered
<1>1. IInv => AttachedIsAnswered
  BY DEF IInv, Rows, RowOK, Batched, AttachedIsAnswered
<1> QED BY <1>1, SpecIInv, PTL

-----------------------------------------------------------------------------
(* The catalog implements IndexContract.                                   *)

\* What generation g publishes.
View(g) == [id |-> g, src |-> gens[g].src, guid |-> gens[g].guid, vectors |-> gens[g].emb,
            basis |-> gens[g].cap.req, hierarchy |-> gens[g].cap.resp]

\* What is published is the view of the active generation, unless it is flawed,
LEMMA PublishedIs ==
    ASSUME Unique, ActiveWhole
    PROVE  /\ Active \ flawed = {} => Published = None
           /\ \A g \in Active \ flawed : Published = View(g)
<1>1. ASSUME Active \ flawed = {} PROVE Published = None
  BY <1>1 DEF Published
<1>2. ASSUME NEW g \in Active \ flawed PROVE Published = View(g)
  <2> DEFINE c == CHOOSE i \in Active \ flawed : TRUE
  <2>1. c \in Active \ flawed
    OBVIOUS
  <2>2. c = g
    BY <2>1 DEF Unique
  <2>3. gens[g].cap.done = TRUE
    BY DEF ActiveWhole
  <2>4. Published = [id |-> c, src |-> gens[c].src, guid |-> gens[c].guid, vectors |-> gens[c].emb,
                     basis |-> gens[c].cap.req,
                     hierarchy |-> IF gens[c].cap.done THEN gens[c].cap.resp ELSE None]
    BY <2>1 DEF Published
  <2> HIDE DEF c
  <2>5. (IF gens[g].cap.done THEN gens[g].cap.resp ELSE None) = gens[g].cap.resp
    BY <2>3
  <2> QED BY <2>2, <2>4, <2>5 DEF View
<1> QED BY <1>1, <1>2

\* also after a step.
LEMMA PublishedIsPrime ==
    ASSUME Unique', ActiveWhole'
    PROVE  /\ Active' \ flawed' = {} => Published' = None
           /\ \A g \in Active' \ flawed' : Published' = View(g)'
<1>1. ASSUME Active' \ flawed' = {} PROVE Published' = None
  BY <1>1 DEF Published
<1>2. ASSUME NEW g \in Active' \ flawed' PROVE Published' = View(g)'
  <2> DEFINE c == CHOOSE i \in Active' \ flawed' : TRUE
  <2>1. c \in Active' \ flawed'
    OBVIOUS
  <2>2. c = g
    BY <2>1 DEF Unique
  <2>3. gens'[g].cap.done = TRUE
    BY DEF ActiveWhole
  <2>4. Published' = [id |-> c, src |-> gens'[c].src, guid |-> gens'[c].guid, vectors |-> gens'[c].emb,
                      basis |-> gens'[c].cap.req,
                      hierarchy |-> IF gens'[c].cap.done THEN gens'[c].cap.resp ELSE None]
    BY <2>1 DEF Published
  <2> HIDE DEF c
  <2>5. (IF gens'[g].cap.done THEN gens'[g].cap.resp ELSE None) = gens'[g].cap.resp
    BY <2>3
  <2> QED BY <2>2, <2>4, <2>5 DEF View
<1> QED BY <1>1, <1>2

\* A step that leaves alone what is published.
Untouched ==
    /\ Active' = Active
    /\ \A g \in Active : gens'[g] = gens[g] /\ (g \in flawed' <=> g \in flawed)

\* A step that leaves the active generation alone publishes nothing.
LEMMA UntouchedStutters == IInv /\ IInv' /\ Untouched => Published' = Published
<1> SUFFICES ASSUME IInv, IInv', Untouched PROVE Published' = Published
  OBVIOUS
<1>1. Active' \ flawed' = Active \ flawed
  BY DEF Untouched
<1>2. CASE Active \ flawed = {}
  BY <1>1, <1>2, PublishedIs, PublishedIsPrime DEF IInv
<1>3. ASSUME NEW g \in Active \ flawed PROVE Published' = Published
  <2>1. Published = View(g) /\ Published' = View(g)'
    BY <1>1, PublishedIs, PublishedIsPrime DEF IInv
  <2>2. View(g)' = View(g)
    BY DEF Untouched, View
  <2> QED BY <2>1, <2>2
<1> QED BY <1>2, <1>3

\* Such is a step that writes no generation,
LEMMA NothingWritten == UNCHANGED <<gens, flawed>> => Untouched
  BY DEF Untouched, Active, WithStatus

\* Writing a generation that is being built.
LEMMA StagingWritten ==
    ASSUME NEW g \in DOMAIN gens, gens[g].status = "staging", flawed' = flawed,
           DOMAIN gens' = DOMAIN gens, \A h \in DOMAIN gens \ {g} : gens'[h] = gens[h],
           gens'[g].status # "active"
    PROVE  Untouched
  BY DEF Untouched, Active, WithStatus

\* Dropping generations that are being built.
LEMMA StagingDropped ==
    ASSUME NEW S, \A g \in S : gens[g].status = "staging", flawed' = flawed,
           gens' = [g \in DOMAIN gens |-> IF g \in S THEN Superseded ELSE gens[g]]
    PROVE  Untouched
<1>1. Superseded.status = "superseded"
  BY SupersededOK
<1> QED BY <1>1 DEF Untouched, Active, WithStatus

\* The history variable changes for a generation that is being built.
LEMMA StagingFlawed ==
    ASSUME gens' = gens, NEW g, g \in DOMAIN gens => gens[g].status = "staging",
           flawed' \in {flawed, flawed \cup {g}, flawed \ {g}}
    PROVE  Untouched
  BY DEF Untouched, Active, WithStatus

\* the begin of a refresh,
LEMMA RefreshUntouched == IInv /\ Refresh => Untouched
<1> SUFFICES ASSUME IInv, Refresh PROVE Untouched
  OBVIOUS
<1> DEFINE S == {g \in DOMAIN gens : StaleStaging(g)}
<1>1. /\ flawed' = flawed
      /\ gens' = [g \in DOMAIN gens |-> IF g \in S THEN Superseded ELSE gens[g]]
  BY DEF Refresh, IxGens
<1>2. \A g \in S : gens[g].status = "staging"
  BY DEF StaleStaging
<1> HIDE DEF S
<1> QED BY <1>1, <1>2, StagingDropped

\* the steps that choose the staging generation,
LEMMA StageUntouched == IInv /\ (StageSupersede \/ StageCreate \/ StageReuse) => Untouched
<1> SUFFICES ASSUME IInv, StageSupersede \/ StageCreate \/ StageReuse PROVE Untouched
  OBVIOUS
<1> DEFINE g == Newest(Staging(ix.hash))
<1>1. Staging(ix.hash) # {} => g \in DOMAIN gens /\ gens[g].status = "staging"
  BY StagingHas DEF Staging, WithStatus
<1>2. gens \in Seq(Generations) /\ DOMAIN gens = 1 .. Len(gens) /\ Len(gens) \in Nat
  BY TypeParts, GensIsSeq DEF IInv, TypeRows
<1>3. CASE StageSupersede
  <2>1. flawed' = flawed /\ gens' = [gens EXCEPT ![g] = Superseded] /\ Staging(ix.hash) # {}
    BY <1>3 DEF StageSupersede, IxGens
  <2> HIDE DEF g
  <2> QED BY <1>1, <1>2, <2>1, SupersededOK, StagingWritten
<1>4. CASE StageReuse
  <2>1. gens' = gens /\ Staging(ix.hash) # {} /\ flawed' \in {flawed, flawed \cup {g}}
    BY <1>4 DEF StageReuse
  <2> HIDE DEF g
  <2> QED BY <1>1, <2>1, StagingFlawed
<1>5. CASE StageCreate
  <2> DEFINE n == Len(gens) + 1
             r == NewGeneration(ix.hash)
  <2>1. gens' = Append(gens, r) /\ flawed' = flawed
    BY <1>5 DEF StageCreate, IxGens
  <2>2. r.status = "staging"
    BY DEF NewGeneration
  <2> HIDE DEF r
  <2>3. /\ DOMAIN gens' = 1 .. n /\ gens'[n] = r
        /\ \A h \in DOMAIN gens : gens'[h] = gens[h]
    BY <1>2, <2>1
  <2>4. \A h \in DOMAIN gens' : h \in DOMAIN gens \/ h = n
    BY <1>2, <2>3
  <2>5. Active' = Active
    <3>1. DOMAIN gens \subseteq DOMAIN gens'
      BY <1>2, <2>3
    <3> QED BY <2>2, <2>3, <2>4, <3>1 DEF Active, WithStatus
  <2>6. \A h \in Active : h \in DOMAIN gens
    BY DEF Active, WithStatus
  <2> QED BY <2>1, <2>3, <2>5, <2>6 DEF Untouched
<1> QED BY <1>3, <1>4, <1>5

\* The generation the operation works on.
LEMMA HereWritten ==
    ASSUME IInv, ix.pc \notin {"idle", "acquire"}, flawed' = flawed,
           DOMAIN gens' = DOMAIN gens, \A h \in DOMAIN gens \ {ix.g} : gens'[h] = gens[h],
           gens'[ix.g].status = gens[ix.g].status
    PROVE  Untouched
<1>1. ix.g \in DOMAIN gens /\ gens[ix.g].status = "staging"
  BY Here
<1> QED BY <1>1, StagingWritten

\* that fill it,
LEMMA PopulateUntouched ==
    IInv /\ (PopulateTool \/ PopulateDone \/ \E s \in Servers : PopulateServer(s)) => Untouched
<1> SUFFICES ASSUME IInv, PopulateTool \/ PopulateDone \/ \E s \in Servers : PopulateServer(s)
             PROVE  Untouched
  OBVIOUS
<1>1. ix.pc = "populate"
  BY DEF PopulateTool, PopulateDone, PopulateServer, At
<1>2. ix.g \in DOMAIN gens /\ gens[ix.g] \in Generations /\ gens[ix.g].status = "staging"
  BY <1>1, Here
<1>3. CASE PopulateDone
  <2>1. gens' = gens /\ flawed' \in {flawed, flawed \ {ix.g}}
    BY <1>3 DEF PopulateDone
  <2> QED BY <1>2, <2>1, StagingFlawed
<1>4. ASSUME NEW s \in Servers, PopulateServer(s) PROVE Untouched
  <2>1. flawed' = flawed /\ gens' = [gens EXCEPT ![ix.g].srvs = gens[ix.g].srvs \cup {s}]
    BY <1>4 DEF PopulateServer, IxGens
  <2>2. gens'[ix.g].status = gens[ix.g].status
    BY <1>2, <2>1 DEF Generations
  <2> QED BY <1>1, <2>1, <2>2, HereWritten
<1>5. CASE PopulateTool
  <2> DEFINE m == CHOOSE t \in ix.todo : ServerOf[t] \in Cur.srvs
             b == IF Cur.src[m] # ix.snap[m] THEN 1 ELSE Further(Cur.built[m])
             x == ix.snap[m]
  <2>1. flawed' = flawed /\ gens' = [gens EXCEPT ![ix.g].src[m] = x, ![ix.g].built[m] = b]
    BY <1>5 DEF PopulateTool, IxGens
  <2> HIDE DEF m, b, x
  <2>2. gens'[ix.g].status = gens[ix.g].status
    BY <1>2, <2>1 DEF Generations
  <2>3. DOMAIN gens' = DOMAIN gens /\ \A h \in DOMAIN gens \ {ix.g} : gens'[h] = gens[h]
    BY <2>1
  <2> QED BY <1>1, <2>1, <2>2, <2>3, HereWritten
<1> QED BY <1>3, <1>4, <1>5

\* that prepare its tools,
LEMMA ToolWorkUntouched ==
    IInv /\ (PrepStart \/ PrepReuse \/ PrepEmbed \/ PrepBatches \/ MaterialGuide \/ MaterialEmbed)
      => Untouched
<1> SUFFICES ASSUME IInv, \/ PrepStart \/ PrepReuse \/ PrepEmbed \/ PrepBatches
                          \/ MaterialGuide \/ MaterialEmbed
             PROVE  Untouched
  OBVIOUS
<1>1. ix.pc \in {"prep", "reuse", "material"} /\ flawed' = flawed
  BY DEF PrepStart, PrepReuse, PrepEmbed, PrepBatches, MaterialGuide, MaterialEmbed, At, IxGens, IxArts
<1>2. ix.g \in DOMAIN gens /\ gens[ix.g] \in Generations
  BY <1>1, Here
<1>3. ASSUME NEW r, gens' = [gens EXCEPT ![ix.g] = r], r.status = gens[ix.g].status PROVE Untouched
  <2>1. /\ gens'[ix.g] = r /\ DOMAIN gens' = DOMAIN gens
        /\ \A h \in DOMAIN gens \ {ix.g} : gens'[h] = gens[h]
    BY <1>2, <1>3
  <2> QED BY <1>1, <1>3, <2>1, HereWritten
<1>4. ASSUME NEW x, gens' = [gens EXCEPT ![ix.g].want = x] PROVE Untouched
  <2>1. [gens[ix.g] EXCEPT !.want = x].status = gens[ix.g].status
    BY <1>2 DEF Generations
  <2> QED BY <1>3, <1>4, <2>1
<1>5. ASSUME NEW x, gens' = [gens EXCEPT ![ix.g].req = x] PROVE Untouched
  <2>1. [gens[ix.g] EXCEPT !.req = x].status = gens[ix.g].status
    BY <1>2 DEF Generations
  <2> QED BY <1>3, <1>5, <2>1
<1>6. ASSUME NEW x, gens' = [gens EXCEPT ![ix.g].emb = x] PROVE Untouched
  <2>1. [gens[ix.g] EXCEPT !.emb = x].status = gens[ix.g].status
    BY <1>2 DEF Generations
  <2> QED BY <1>3, <1>6, <2>1
<1>7. ASSUME NEW x, gens' = [gens EXCEPT ![ix.g].tb = x] PROVE Untouched
  <2>1. [gens[ix.g] EXCEPT !.tb = x].status = gens[ix.g].status
    BY <1>2 DEF Generations
  <2> QED BY <1>3, <1>7, <2>1
<1>8. ASSUME NEW m, NEW x, gens' = [gens EXCEPT ![ix.g].guid[m] = x] PROVE Untouched
  <2>1. gens' = [gens EXCEPT ![ix.g] = [gens[ix.g] EXCEPT !.guid = [gens[ix.g].guid EXCEPT ![m] = x]]]
    BY <1>8
  <2>2. [gens[ix.g] EXCEPT !.guid = [gens[ix.g].guid EXCEPT ![m] = x]].status = gens[ix.g].status
    BY <1>2 DEF Generations
  <2> QED BY <1>3, <2>1, <2>2
<1>9. ASSUME NEW m, NEW q, NEW x, gens' = [gens EXCEPT ![ix.g].req = q, ![ix.g].guid[m] = x]
      PROVE Untouched
  <2> DEFINE r == [[gens[ix.g] EXCEPT !.req = q] EXCEPT !.guid = [gens[ix.g].guid EXCEPT ![m] = x]]
  <2>1. gens' = [gens EXCEPT ![ix.g] = r]
    BY <1>2, <1>9 DEF Generations
  <2>2. r.status = gens[ix.g].status
    BY <1>2 DEF Generations
  <2> HIDE DEF r
  <2> QED BY <1>3, <2>1, <2>2
<1>10. CASE PrepStart
  BY <1>4, <1>10 DEF PrepStart
<1>11. CASE PrepReuse
  BY <1>5, <1>9, <1>11 DEF PrepReuse
<1>12. CASE PrepEmbed \/ MaterialEmbed
  BY <1>6, <1>12 DEF PrepEmbed, MaterialEmbed
<1>13. CASE PrepBatches
  BY <1>7, <1>13 DEF PrepBatches
<1>14. CASE MaterialGuide
  BY <1>8, <1>14 DEF MaterialGuide
<1> QED BY <1>10, <1>11, <1>12, <1>13, <1>14

\* its capabilities,
LEMMA CapWorkUntouched == IInv /\ (CapCreate \/ CapReuse \/ CapFulfil) => Untouched
<1> SUFFICES ASSUME IInv, CapCreate \/ CapReuse \/ CapFulfil PROVE Untouched
  OBVIOUS
<1>1. ix.pc \in {"cap", "capreuse", "capfulfil"} /\ flawed' = flawed
  BY DEF CapCreate, CapReuse, CapFulfil, At, IxGens, IxArts
<1>2. ix.g \in DOMAIN gens /\ gens[ix.g] \in Generations
  BY <1>1, Here
<1>3. CASE gens' = gens
  BY <1>1, <1>3, NothingWritten
<1>4. ASSUME NEW a, NEW w,
             gens' = [gens EXCEPT ![ix.g].cap.made = TRUE, ![ix.g].cap.req = a, ![ix.g].want = w]
      PROVE  Untouched
  <2>1. gens'[ix.g].status = gens[ix.g].status
    BY <1>2, <1>4 DEF Generations
  <2>2. DOMAIN gens' = DOMAIN gens /\ \A h \in DOMAIN gens \ {ix.g} : gens'[h] = gens[h]
    BY <1>4
  <2> QED BY <1>1, <2>1, <2>2, HereWritten
<1>5. ASSUME NEW a, gens' = [gens EXCEPT ![ix.g].cap.resp = a] PROVE Untouched
  <2>1. gens'[ix.g].status = gens[ix.g].status
    BY <1>2, <1>5 DEF Generations
  <2>2. DOMAIN gens' = DOMAIN gens /\ \A h \in DOMAIN gens \ {ix.g} : gens'[h] = gens[h]
    BY <1>5
  <2> QED BY <1>1, <2>1, <2>2, HereWritten
<1>6. ASSUME NEW a, NEW v,
             gens' = [gens EXCEPT ![ix.g].cap.done = TRUE, ![ix.g].have = a, ![ix.g].review = v]
      PROVE  Untouched
  <2>1. gens'[ix.g].status = gens[ix.g].status
    BY <1>2, <1>6 DEF Generations
  <2>2. DOMAIN gens' = DOMAIN gens /\ \A h \in DOMAIN gens \ {ix.g} : gens'[h] = gens[h]
    BY <1>6
  <2> QED BY <1>1, <2>1, <2>2, HereWritten
<1>7. CASE CapCreate
  BY <1>4, <1>7 DEF CapCreate
<1>8. CASE CapReuse
  BY <1>3, <1>5, <1>8 DEF CapReuse
<1>9. CASE CapFulfil
  BY <1>6, <1>9 DEF CapFulfil
<1> QED BY <1>7, <1>8, <1>9

\* and that take answers for it.
LEMMA SubmitUntouched ==
    ASSUME IInv, NEW g \in DOMAIN gens, NEW r \in Guides,
           SubmitCap(g, r) \/ \E i \in DOMAIN gens[g].tb : SubmitTool(g, i, r)
    PROVE  Untouched
<1>1. gens[g] \in Generations
  BY TypeParts, GensIsSeq DEF IInv
<1>2. flawed' = flawed /\ gens[g].status = "staging"
  BY DEF SubmitCap, SubmitTool, IxGens
<1>3. CASE SubmitCap(g, r)
  <2>1. gens' = [gens EXCEPT ![g].cap.resp = r]
    BY <1>3 DEF SubmitCap
  <2>2. gens'[g].status = gens[g].status
    BY <1>1, <2>1 DEF Generations
  <2>3. DOMAIN gens' = DOMAIN gens /\ \A h \in DOMAIN gens \ {g} : gens'[h] = gens[h]
    BY <2>1
  <2> QED BY <1>2, <2>2, <2>3, StagingWritten
<1>4. ASSUME NEW i \in DOMAIN gens[g].tb, SubmitTool(g, i, r) PROVE Untouched
  <2>1. gens' = [gens EXCEPT ![g].tb[i].resp = r]
    BY <1>4 DEF SubmitTool
  <2>2. gens'[g].status = gens[g].status
    BY <1>1, <2>1 DEF Generations
  <2>3. DOMAIN gens' = DOMAIN gens /\ \A h \in DOMAIN gens \ {g} : gens'[h] = gens[h]
    BY <2>1
  <2> QED BY <1>2, <2>2, <2>3, StagingWritten
<1> QED BY <1>3, <1>4

\* A failed operation or a crash may leave the generation it populated flawed.
LEMMA CutUntouched == IInv /\ (Fail \/ Crash) => Untouched
<1> SUFFICES ASSUME IInv, Fail \/ Crash PROVE Untouched
  OBVIOUS
<1>1. gens' = gens /\ flawed' = CutNow
  BY DEF Fail, Crash
<1>2. CASE ix.pc = "populate"
  <2>1. gens[ix.g].status = "staging"
    BY <1>2, Here
  <2>2. flawed' = flawed \cup {ix.g}
    BY <1>1, <1>2 DEF CutNow, At
  <2> QED BY <1>1, <2>1, <2>2, StagingFlawed
<1>3. CASE ix.pc # "populate"
  BY <1>1, <1>3, NothingWritten DEF CutNow, At
<1> QED BY <1>2, <1>3

\* An answered review is not part of what is published.
LEMMA ReviewStutters ==
    ASSUME IInv, IInv', NEW g \in DOMAIN gens, SubmitReview(g)
    PROVE  Published' = Published
<1>1. /\ flawed' = flawed /\ DOMAIN gens' = DOMAIN gens
      /\ \A h \in DOMAIN gens : Same(gens'[h], gens[h]) /\ gens'[h].emb = gens[h].emb
  BY ReviewKeeps
<1>2. Active' = Active
  BY <1>1 DEF WithStatus, Active, Same
<1>3. CASE Active \ flawed = {}
  BY <1>1, <1>2, <1>3, PublishedIs, PublishedIsPrime DEF IInv
<1>4. ASSUME NEW h \in Active \ flawed PROVE Published' = Published
  <2>1. Published = View(h) /\ Published' = View(h)'
    BY <1>1, <1>2, PublishedIs, PublishedIsPrime DEF IInv
  <2>2. h \in DOMAIN gens
    BY DEF Active, WithStatus
  <2>3. View(h)' = View(h)
    BY <1>1, <2>2 DEF View, Same
  <2> QED BY <2>1, <2>3
<1> QED BY <1>3, <1>4

\* Emptying the catalog withdraws what is published.
LEMMA EmptyResets ==
    ASSUME IInv', gens' = <<>>
    PROVE  Contract!Reset \/ Published' = Published
<1>1. Active' = {}
  BY DEF Active, WithStatus
<1>2. Published' = None
  BY <1>1, PublishedIsPrime DEF IInv
<1> QED BY <1>2 DEF Contract!Reset

\* A promotion publishes a whole index, newer than the one before; a flawed
\* generation takes the place of what was published.
LEMMA PromotePublishes ==
    ASSUME IInv, IInv', Promote
    PROVE  Contract!Publish \/ Contract!Reset \/ Published' = Published
<1>1. PICK g \in DOMAIN gens :
      /\ flawed' = flawed /\ gens[g].status = "staging"
      /\ gens'[g] = [gens[g] EXCEPT !.status = "active"] /\ Complete(gens[g])
      /\ gens[g].cap.made = TRUE /\ Active' = {g} /\ gens' \in Seq(Generations) /\ g \in DOMAIN gens'
  BY PromoteKeeps
<1>2. CASE g \in flawed
  <2>1. Published' = None
    BY <1>1, <1>2, PublishedIsPrime DEF IInv
  <2> QED BY <2>1 DEF Contract!Reset
<1>3. CASE g \notin flawed
  <2>1. Published' = View(g)'
    BY <1>1, <1>3, PublishedIsPrime DEF IInv
  <2>2. gens'[g] \in Generations /\ g \in Nat \ {0}
    BY <1>1
  <2>3. /\ gens'[g].src \in ToolList /\ gens'[g].guid \in Answers /\ gens'[g].emb \in SUBSET Members
        /\ gens'[g].cap.req \in Answers /\ gens'[g].cap.resp \in Guides \cup {None}
    BY <2>2 DEF Generations
  <2>4. Published' \in Contract!Views
    BY <2>1, <2>2, <2>3 DEF View, Contract!Views, ToolList, Answers
  <2>5. /\ gens'[g].cap.made = TRUE /\ gens'[g].cap.done = TRUE /\ gens'[g].req \subseteq gens'[g].emb
        /\ CapOK(gens'[g]) /\ RowOK(gens'[g], arts'.tool)
    BY <1>1, <1>3 DEF IInv, ActiveWhole, Caps, Rows
  <2>6. gens'[g].cap.resp # None /\ gens'[g].cap.req = gens'[g].guid
    BY <2>5 DEF CapOK, RowOK
  <2>7. \A m \in Members : gens'[g].src[m] # None => gens'[g].guid[m] # None /\ m \in gens'[g].emb
    BY <2>5 DEF CapOK, RowOK, Fits
  <2>8. Contract!Whole(Published')
    BY <2>1, <2>6, <2>7 DEF Contract!Whole, View
  <2>9. ASSUME Published # None PROVE Published'.id > Published.id
    <3>1. PICK h \in Active \ flawed : Published = View(h)
      BY <2>9, PublishedIs DEF IInv
    <3>2. h < g
      BY <1>1 DEF IInv, Unique, WithStatus
    <3>3. h \in Nat
      <4>1. h \in DOMAIN gens
        BY DEF Active, WithStatus
      <4>2. DOMAIN gens = 1 .. Len(gens) /\ Len(gens) \in Nat
        BY TypeParts, GensIsSeq DEF IInv
      <4> QED BY <4>1, <4>2
    <3> QED BY <2>1, <2>2, <3>1, <3>2, <3>3 DEF View
  <2> QED BY <2>4, <2>8, <2>9 DEF Contract!Publish
<1> QED BY <1>2, <1>3

\* Every step is a step of the contract or leaves what is published alone.
LEMMA StepImplements ==
    IInv /\ IInv' /\ [Next]_vars => [Contract!Publish \/ Contract!Reset]_Published
<1> SUFFICES ASSUME IInv, IInv', [Next]_vars
             PROVE  Contract!Publish \/ Contract!Reset \/ Published' = Published
  OBVIOUS
<1>1. ASSUME Untouched PROVE Published' = Published
  BY <1>1, UntouchedStutters
<1>2. ASSUME UNCHANGED <<gens, flawed>> PROVE Published' = Published
  BY <1>1, <1>2, NothingWritten
<1>3. ASSUME NEW s \in Servers, Observer(s) PROVE Published' = Published
  BY <1>2, <1>3 DEF Observer, Observe, ReadEffective, ObserverMark, ObserverAdvance, ObserverError,
                    Disconnect, RouterMark, RouterAdvance
<1>4. CASE RefreshStep
  <2>1. CASE ReconcileDone \/ \E s \in Servers : AcquireSnapshot(s) \/ ReconcileDirty(s)
    BY <1>2, <2>1 DEF ReconcileDone, AcquireSnapshot, ReconcileDirty, IxOnly
  <2> QED BY <1>1, <1>4, <2>1, RefreshUntouched, StageUntouched, PopulateUntouched DEF RefreshStep
<1>5. CASE EnrichStep
  <2>1. CASE PrepRepair \/ RepairNext \/ MaterialDone \/ CapExists
    BY <1>2, <2>1 DEF PrepRepair, RepairNext, MaterialDone, CapExists, IxOnly
  <2> QED BY <1>1, <1>5, <2>1, ToolWorkUntouched, CapWorkUntouched DEF EnrichStep
<1>6. CASE AgentStep
  <2>1. CASE GetToolBatch \/ GetCapBatch \/ Commit \/ CommitCheck
    BY <1>2, <2>1 DEF GetToolBatch, GetCapBatch, Commit, Begin, CommitCheck, IxOnly
  <2> QED BY <1>1, <1>6, <2>1, PromotePublishes, ReviewStutters, SubmitUntouched DEF AgentStep
<1>7. CASE SetServers \/ (\E S \in SUBSET Servers : SaveServers(S)) \/ UNCHANGED vars
           \/ \E m \in Members, c \in Contracts \cup {None} : LiveChange(m, c)
  BY <1>2, <1>7 DEF SetServers, SaveServers, LiveChange, vars
<1>8. CASE Fail \/ Crash
  BY <1>1, <1>8, CutUntouched
<1>9. CASE Clear \/ OpenCorrupt
  BY <1>9, EmptyResets DEF Clear, OpenCorrupt
<1> QED BY <1>3, <1>4, <1>5, <1>6, <1>7, <1>8, <1>9 DEF Next

\* At the start nothing is published.
LEMMA InitImplements == Init => Contract!Init
<1> SUFFICES ASSUME Init PROVE Published = None
  BY DEF Contract!Init
<1>1. Active = {}
  BY DEF Init, Active, WithStatus
<1> QED BY <1>1 DEF Published

\* Whatever refreshes, batches, submissions, commits, failures and crashes do,
\* discovery and execution see an index that is published whole, is newer than
\* the one it replaces and is never edited in place.
THEOREM CatalogImplementsContract == Spec => PublishesWhole
  BY InitImplements, StepImplements, SpecIInv, PTL DEF Spec, PublishesWhole, Contract!Spec

-----------------------------------------------------------------------------
(* The sources of a generation are those of the sessions: where a change   *)
(* of a tool list is kept between its observation and the revision that    *)
(* makes the index stale.                                                  *)

Current == {g \in DOMAIN gens : gens[g].status # "superseded"}
Refreshing == ix.op = "refresh"
Recording(s) == obs[s].pc \in {"mark", "advance"}

\* Generations, refreshes and markers are not from the future, and what is
\* being built is for no older revision than what is active.
Ordered ==
    /\ \A g \in DOMAIN gens : gens[g].hash <= rev
    /\ ix.hash <= rev
    /\ \A g \in WithStatus("staging"), h \in Active : gens[h].hash <= gens[g].hash
    /\ \A s \in Servers : dirty[s] <= marks /\ ix.before[s] <= marks

\* A source belongs to a server of the generation.
Rooted ==
    \A g \in DOMAIN gens : \A m \in Members : gens[g].src[m] # None => ServerOf[m] \in gens[g].srvs

\* Only configured servers are connected, acquired or part of a generation,
\* as long as its revision is the current one.
Scope ==
    /\ up \subseteq config
    /\ \A g \in Current : gens[g].hash = rev => gens[g].srvs \subseteq servers \cap config
    /\ Refreshing /\ ix.hash = rev => ix.got \subseteq config

\* A refresh builds one generation for its hash, and has populated it with
\* its snapshots once it has left that stage.
Progress ==
    /\ ix.pc \in {"acquire", "populate", "clear"} => Refreshing
    /\ Refreshing =>
         /\ ix.pc \in {"acquire", "populate", "prep", "reuse", "repair", "material", "clear"}
         /\ \A g \in WithStatus("staging") : gens[g].hash = ix.hash /\ gens[g].srvs \subseteq servers
         /\ \A g \in Current : gens[g].hash <= ix.hash
         /\ ix.got \subseteq servers /\ (ix.pc # "acquire" => servers \subseteq ix.got)
         /\ \A m \in Members : ix.snap[m] # None => ServerOf[m] \in ix.got
         /\ ix.pc = "populate" => \A m \in Members \ ix.todo : Cur.src[m] = ix.snap[m]
         /\ ix.pc \notin {"acquire", "populate"} => Cur.src = ix.snap

\* The stages of an observer.
Stages ==
    \A s \in Servers :
        /\ obs[s].pc = "idle" => obs[s].chg = FALSE
        /\ obs[s].pc = "read" => obs[s].conn = TRUE \/ obs[s].chg = TRUE
        /\ Recording(s) => obs[s].chg = TRUE
        /\ obs[s].pc # "idle" /\ obs[s].conn = TRUE => s \notin up

\* While a change is recorded, the session has what the cache has.
Recorded ==
    \A m \in Members :
        ServerOf[m] \notin lost /\ Recording(ServerOf[m]) => cache[m].c = effective[m]

\* Contract v is what everybody holds of tool m: the generations and the
\* refresh of the current revision, the session, and, unless a change has
\* been observed, the cache.
Agree(m, v) ==
    LET s == ServerOf[m]
    IN /\ \A g \in Current : gens[g].hash = rev =>
             /\ gens[g].src[m] \in {None, v}
             /\ s \in gens[g].srvs /\ Sourced(g) => gens[g].src[m] = v
       /\ Refreshing /\ ix.hash = rev /\ s \in ix.got => ix.snap[m] = v
       /\ s \in up => effective[m] = v
       /\ obs[s].chg = FALSE => cache[m].c \in {None, v}
       /\ obs[s].chg = FALSE /\ obs[s].pc = "read" => cache[m].c = v

Agreement ==
    \A m \in Members : ServerOf[m] \notin lost /\ ~Recording(ServerOf[m]) =>
        \E v \in Contracts \cup {None} : Agree(m, v)

\* Between the marker and the revision, a refresh that may clear the marker,
\* and the generation it has left, have what the session has.
Marked ==
    \A m \in Members :
        LET s == ServerOf[m]
        IN s \notin lost /\ obs[s].pc = "advance" =>
           /\ dirty[s] = 0 => \A g \in WithStatus("staging") :
                 s \in gens[g].srvs /\ Sourced(g) => gens[g].src[m] = effective[m]
           /\ Refreshing /\ s \in ix.got /\ (dirty[s] = 0 \/ ix.before[s] = dirty[s])
                 => ix.snap[m] = effective[m]

FInv == Ordered /\ Rooted /\ Scope /\ Progress /\ Stages /\ Recorded /\ Agreement /\ Marked

-----------------------------------------------------------------------------
(* Steps that change no source: enrichment, answers, commits.              *)

\* Generation r has the sources that q has.
SameSources(r, q) == r.status = q.status /\ r.hash = q.hash /\ r.srvs = q.srvs /\ r.src = q.src
\* The operation that holds Service.mu goes on, or another one is begun.
Onward ==
    /\ ix.pc \notin {"acquire", "populate"} /\ ix'.pc \notin {"acquire", "populate"}
    /\ ix'.hash <= rev /\ ix'.before \in {ix.before, Idle.before}
    /\ ix'.pc = "clear" => ix'.op = "refresh"
    /\ ix'.op = "refresh" =>
         /\ ix.op = "refresh" /\ ix'.pc \in {"prep", "reuse", "repair", "material", "clear"}
         /\ ix'.hash = ix.hash /\ ix'.snap = ix.snap /\ ix'.got = ix.got /\ ix'.g = ix.g
         /\ ix'.before = ix.before
freshVars == <<cache, up, effective, obs, dirty, marks, rev, config, servers, lost, flawed>>
Quiet ==
    /\ UNCHANGED freshVars /\ Onward
    /\ DOMAIN gens' = DOMAIN gens /\ \A g \in DOMAIN gens : SameSources(gens'[g], gens[g])

\* The generations of a status are the same.
LEMMA QuietSets ==
    ASSUME Quiet
    PROVE  /\ \A st : WithStatus(st)' = WithStatus(st)
           /\ Active' = Active /\ Current' = Current
           /\ \A g : Sourced(g)' <=> Sourced(g)
<1>1. \A st : WithStatus(st)' = WithStatus(st)
  BY DEF Quiet, SameSources, WithStatus
<1>2. Current' = Current
  BY DEF Quiet, SameSources, Current
<1>3. Active' = Active
  BY <1>1 DEF Active
<1>4. \A g : Sourced(g)' <=> Sourced(g)
  BY DEF Quiet, Onward, freshVars, Sourced
<1> QED BY <1>1, <1>2, <1>3, <1>4

\* Where a refresh stands.
LEMMA RefreshingHere ==
    ASSUME IInv, FInv, Refreshing, ix.pc # "acquire"
    PROVE  ix.g \in DOMAIN gens /\ Cur = gens[ix.g] /\ Cur.status = "staging" /\ Cur \in Generations
<1>1. ix.pc \notin {"idle", "acquire"}
  BY DEF FInv, Progress
<1> QED BY <1>1, Here

\* They keep the agreement,
LEMMA QuietKeeps ==
    ASSUME IInv, FInv, Quiet
    PROVE  FInv'
<1>1. /\ \A st : WithStatus(st)' = WithStatus(st)
      /\ Active' = Active /\ Current' = Current
      /\ \A g : Sourced(g)' <=> Sourced(g)
  BY QuietSets
<1>2. /\ UNCHANGED <<cache, up, effective, obs, dirty, marks, rev, config, servers, lost, flawed>>
      /\ DOMAIN gens' = DOMAIN gens
      /\ \A g \in DOMAIN gens : /\ gens'[g].status = gens[g].status /\ gens'[g].hash = gens[g].hash
                                /\ gens'[g].srvs = gens[g].srvs /\ gens'[g].src = gens[g].src
  BY DEF Quiet, freshVars, SameSources
<1>3. Refreshing' => /\ Refreshing /\ ix.pc \notin {"acquire", "populate"}
                     /\ ix'.pc \in {"prep", "reuse", "repair", "material", "clear"}
                     /\ ix'.hash = ix.hash /\ ix'.snap = ix.snap /\ ix'.got = ix.got /\ ix'.g = ix.g
                     /\ ix'.before = ix.before
  BY DEF Quiet, Onward, Refreshing
<1>4. Current \subseteq DOMAIN gens /\ \A st : WithStatus(st) \subseteq DOMAIN gens
  BY DEF Current, WithStatus
<1>5. Active \subseteq DOMAIN gens
  BY <1>4 DEF Active
<1>6. Ordered'
  <2>1. \A s \in Servers : ix'.before[s] <= marks
    <3>1. marks \in Nat
      BY TypeParts DEF IInv, TypeObs
    <3>2. CASE ix'.before = ix.before
      BY <3>2 DEF FInv, Ordered
    <3>3. CASE ix'.before = Idle.before
      BY <3>1, <3>3 DEF Idle
    <3> QED BY <3>2, <3>3 DEF Quiet, Onward
  <2>2. ix'.hash <= rev
    BY DEF Quiet, Onward
  <2>3. \A g \in WithStatus("staging")', h \in Active' : gens'[h].hash <= gens'[g].hash
    BY <1>1, <1>2, <1>4, <1>5 DEF FInv, Ordered
  <2> QED BY <1>2, <2>1, <2>2, <2>3 DEF FInv, Ordered
<1>7. Rooted'
  BY <1>2 DEF FInv, Rooted
<1>8. Scope'
  BY <1>1, <1>2, <1>3, <1>4 DEF FInv, Scope
<1>9. Progress'
  <2>1. ix'.pc \in {"acquire", "populate", "clear"} => Refreshing'
    BY DEF Quiet, Onward, Refreshing
  <2>2. ASSUME Refreshing' PROVE Cur'.src = ix'.snap
    <3>1. ix.g \in DOMAIN gens /\ Cur = gens[ix.g] /\ Cur.src = ix.snap
      BY <1>3, <2>2, RefreshingHere DEF FInv, Progress
    <3> QED BY <1>2, <1>3, <2>2, <3>1 DEF Cur
  <2> QED BY <1>1, <1>2, <1>3, <1>4, <2>1, <2>2 DEF FInv, Progress
<1>10. Stages' /\ Recorded'
  BY <1>2 DEF FInv, Stages, Recorded, Recording
<1>11. Agreement'
  <2>1. ASSUME NEW m \in Members, NEW v, Agree(m, v) PROVE Agree(m, v)'
    <3>1. \A g \in Current' : gens'[g].hash = rev' =>
             /\ gens'[g].src[m] \in {None, v}
             /\ ServerOf[m] \in gens'[g].srvs /\ Sourced(g)' => gens'[g].src[m] = v
      BY <1>1, <1>2, <1>4, <2>1 DEF Agree
    <3>2. Refreshing' /\ ix'.hash = rev' /\ ServerOf[m] \in ix'.got => ix'.snap[m] = v
      BY <1>2, <1>3, <2>1 DEF Agree
    <3> QED BY <1>2, <2>1, <3>1, <3>2 DEF Agree
  <2> QED BY <1>2, <2>1 DEF FInv, Agreement, Recording
<1>12. Marked'
  BY <1>1, <1>2, <1>3, <1>4 DEF FInv, Marked
<1> QED BY <1>6, <1>7, <1>8, <1>9, <1>10, <1>11, <1>12 DEF FInv

\* An operation that ends goes on;
LEMMA IdleOnward ==
    ASSUME IInv, ix.pc \notin {"acquire", "populate"}, ix' = Idle
    PROVE  Onward
<1>1. rev \in Nat
  BY TypeParts DEF IInv, TypeObs
<1>2. Idle.hash = 0 /\ Idle.op = "idle" /\ Idle.pc = "idle"
  BY DEF Idle
<1> QED BY <1>1, <1>2 DEF Onward

\* so does one that moves to its next stage.
LEMMA MovedOnward ==
    ASSUME FInv, ix.pc \notin {"acquire", "populate"}, ix'.pc \notin {"acquire", "populate"},
           ix'.op = ix.op, ix'.hash = ix.hash, ix'.before = ix.before, ix'.snap = ix.snap,
           ix'.got = ix.got, ix'.g = ix.g, ix'.pc = "clear" => Refreshing,
           Refreshing => ix'.pc \in {"prep", "reuse", "repair", "material", "clear"}
    PROVE  Onward
  BY DEF Onward, Refreshing, FInv, Ordered

\* Nothing written, and the operation goes on.
LEMMA OnlyMoves ==
    ASSUME UNCHANGED freshVars, UNCHANGED gens, Onward
    PROVE  Quiet
  BY DEF Quiet, SameSources

\* Something else than its sources written to the generation of the operation.
LEMMA RowMoves ==
    ASSUME UNCHANGED freshVars, Onward, NEW g \in DOMAIN gens, NEW r, gens' = [gens EXCEPT ![g] = r],
           SameSources(r, gens[g])
    PROVE  Quiet
  BY DEF Quiet, SameSources

\* What the steps of the indexing service leave alone.
LEMMA FreshFrame == (IxOnly => UNCHANGED freshVars /\ UNCHANGED gens)
                    /\ (IxGens => UNCHANGED freshVars) /\ (IxArts => UNCHANGED freshVars)
  BY DEF IxOnly, IxGens, IxArts, freshVars

\* Tool enrichment is such,
LEMMA PreparedOnward ==
    ASSUME IInv, FInv, ix.pc \in {"prep", "reuse", "repair"}, ix' = ToolsPrepared
    PROVE  Onward
<1>1. CASE ix.op = "refresh"
  <2>1. ix \in IxType(Len(gens))
    BY Here
  <2>2. ix' = [ix EXCEPT !.pc = "clear"]
    BY <1>1 DEF ToolsPrepared
  <2> QED BY <1>1, <2>1, <2>2, MovedOnward DEF IxType, Refreshing
<1>2. CASE ix.op # "refresh"
  BY <1>2, IdleOnward DEF ToolsPrepared
<1> QED BY <1>1, <1>2

\* from one stage to the next,
LEMMA PrepQuiet ==
    ASSUME IInv, FInv, PrepRepair \/ PrepStart \/ RepairNext \/ MaterialDone
    PROVE  Quiet
<1>1. ASSUME ix.pc \in {"prep", "repair", "material"}
      PROVE  ix \in IxType(Len(gens)) /\ ix.g \in DOMAIN gens /\ Cur = gens[ix.g] /\ Cur \in Generations
  BY <1>1, Here
<1>2. CASE PrepRepair
  <2>1. ix.pc = "prep" /\ ix' = [ix EXCEPT !.pc = "repair", !.batch = 0] /\ IxOnly
    BY <1>2 DEF PrepRepair, At
  <2>2. Onward
    BY <1>1, <2>1, MovedOnward DEF IxType
  <2> QED BY <2>1, <2>2, FreshFrame, OnlyMoves
<1>3. CASE PrepStart
  <2>1. /\ ix.pc = "prep" /\ ix' = [ix EXCEPT !.pc = "reuse", !.todo = Present(Cur.src)] /\ IxGens
        /\ gens' = [gens EXCEPT ![ix.g].want = Cur.src]
    BY <1>3 DEF PrepStart, At
  <2>2. Onward
    BY <1>1, <2>1, MovedOnward DEF IxType
  <2> DEFINE r == [Cur EXCEPT !.want = Cur.src]
  <2>3. gens' = [gens EXCEPT ![ix.g] = r] /\ SameSources(r, gens[ix.g])
    BY <1>1, <2>1 DEF Generations, SameSources
  <2> HIDE DEF r
  <2> QED BY <1>1, <2>1, <2>2, <2>3, FreshFrame, RowMoves
<1>4. CASE RepairNext
  <2> DEFINE todo == {i \in DOMAIN Cur.tb : i > ix.batch /\ Cur.tb[i].resp # None}
  <2>1. /\ ix.pc = "repair" /\ IxOnly
        /\ \/ ix' = ToolsPrepared
           \/ ix' = [ix EXCEPT !.pc = "material", !.batch = Min(todo), !.todo = Cur.tb[Min(todo)].items]
    BY <1>4 DEF RepairNext, At
  <2> HIDE DEF todo
  <2>2. Onward
    <3>1. CASE ix' = ToolsPrepared
      BY <2>1, <3>1, PreparedOnward
    <3>2. CASE ix' = [ix EXCEPT !.pc = "material", !.batch = Min(todo), !.todo = Cur.tb[Min(todo)].items]
      BY <1>1, <2>1, <3>2, MovedOnward DEF IxType
    <3> QED BY <2>1, <3>1, <3>2
  <2> QED BY <2>1, <2>2, FreshFrame, OnlyMoves
<1>5. CASE MaterialDone
  <2>1. /\ ix.pc = "material" /\ IxOnly
        /\ \/ ix.op # "submit" /\ ix' = [ix EXCEPT !.pc = "repair"]
           \/ ix.op = "submit" /\ ix' \in {[ix EXCEPT !.pc = "cap"], Idle}
    BY <1>5 DEF MaterialDone, At
  <2>2. Onward
    <3>1. CASE ix.op # "submit"
      BY <1>1, <2>1, <3>1, MovedOnward DEF IxType
    <3>2. CASE ix.op = "submit" /\ ix' = [ix EXCEPT !.pc = "cap"]
      BY <1>1, <2>1, <3>2, MovedOnward DEF IxType, Refreshing
    <3>3. CASE ix' = Idle
      BY <2>1, <3>3, IdleOnward
    <3> QED BY <2>1, <3>1, <3>2, <3>3
  <2> QED BY <2>1, <2>2, FreshFrame, OnlyMoves
<1> QED BY <1>2, <1>3, <1>4, <1>5

\* and while it attaches reusable guidance and cuts batches.
LEMMA ReuseQuiet ==
    ASSUME IInv, FInv, PrepReuse \/ PrepEmbed \/ PrepBatches
    PROVE  Quiet
<1>1. ix.pc = "reuse" /\ IxGens
  BY DEF PrepReuse, PrepEmbed, PrepBatches, At
<1>2. ix \in IxType(Len(gens)) /\ ix.g \in DOMAIN gens /\ Cur = gens[ix.g] /\ Cur \in Generations
  BY <1>1, Here
<1>3. gens' = [gens EXCEPT ![ix.g] = gens'[ix.g]] /\ SameSources(gens'[ix.g], Cur)
  <2>1. CASE PrepReuse
    <3>1. CASE ReusableTool(Cur.src[NextTool]) = {}
      <4>1. gens' = [gens EXCEPT ![ix.g].req = gens[ix.g].req \cup {NextTool}]
        BY <2>1, <3>1 DEF PrepReuse
      <4> QED BY <1>2, <4>1 DEF SameSources, Generations
    <3>2. CASE ReusableTool(Cur.src[NextTool]) # {}
      <4>1. PICK g : gens' = [gens EXCEPT ![ix.g].req = gens[ix.g].req \cup {NextTool},
                                          ![ix.g].guid[NextTool] = g]
        BY <2>1, <3>2 DEF PrepReuse
      <4> QED BY <1>2, <4>1 DEF SameSources, Generations
    <3> QED BY <3>1, <3>2
  <2>2. CASE PrepEmbed
    <3>1. gens' = [gens EXCEPT ![ix.g].emb = gens[ix.g].emb \cup {NextTool}]
      BY <2>2 DEF PrepEmbed
    <3> QED BY <1>2, <3>1 DEF SameSources, Generations
  <2>3. CASE PrepBatches
    <3>1. PICK parts : gens' = [gens EXCEPT ![ix.g].tb = parts]
      BY <2>3 DEF PrepBatches
    <3> QED BY <1>2, <3>1 DEF SameSources, Generations
  <2> QED BY <2>1, <2>2, <2>3
<1>4. UNCHANGED freshVars
  BY <1>1, FreshFrame
<1>5. Onward
  <2>1. CASE ix' = ToolsPrepared
    BY <1>1, <2>1, PreparedOnward
  <2>2. CASE ix' = [ix EXCEPT !.todo = ix.todo \ {NextTool}] \/ ix' = ix
    <3>1. Refreshing => ix.pc \in {"prep", "reuse", "repair", "material", "clear"}
      BY <1>1
    <3> QED BY <1>1, <1>2, <2>2, <3>1, MovedOnward DEF IxType
  <2> QED BY <2>1, <2>2 DEF PrepReuse, PrepEmbed, PrepBatches
<1> QED BY <1>2, <1>3, <1>4, <1>5, RowMoves

\* so is an answer that becomes artifacts,
LEMMA MaterialQuiet ==
    ASSUME IInv, FInv, MaterialGuide \/ MaterialEmbed
    PROVE  Quiet
<1>1. ix.pc = "material" /\ UNCHANGED freshVars
  BY FreshFrame DEF MaterialGuide, MaterialEmbed, At
<1>2. ix \in IxType(Len(gens)) /\ ix.g \in DOMAIN gens /\ Cur = gens[ix.g] /\ Cur \in Generations
  BY <1>1, Here
<1>3. gens' = [gens EXCEPT ![ix.g] = gens'[ix.g]] /\ SameSources(gens'[ix.g], Cur)
  <2>1. CASE MaterialGuide
    <3>1. PICK a : gens' = [gens EXCEPT ![ix.g].guid[NextTool] = a]
      BY <2>1 DEF MaterialGuide
    <3> QED BY <1>2, <3>1 DEF SameSources, Generations
  <2>2. CASE MaterialEmbed
    <3>1. gens' = [gens EXCEPT ![ix.g].emb = gens[ix.g].emb \cup {NextTool}]
      BY <2>2 DEF MaterialEmbed
    <3> QED BY <1>2, <3>1 DEF SameSources, Generations
  <2> QED BY <2>1, <2>2
<1>4. Onward
  <2>1. ix' = [ix EXCEPT !.todo = ix.todo \ {NextTool}] \/ ix' = ix
    BY DEF MaterialGuide, MaterialEmbed
  <2> QED BY <1>1, <1>2, <2>1, MovedOnward DEF IxType
<1> QED BY <1>1, <1>2, <1>3, <1>4, RowMoves

\* the capability batch,
LEMMA CapQuiet ==
    ASSUME IInv, FInv, CapCreate \/ CapReuse \/ CapExists \/ CapFulfil
    PROVE  Quiet
<1>1. ix.pc \in {"cap", "capreuse", "capfulfil"} /\ UNCHANGED freshVars
  BY FreshFrame DEF CapCreate, CapReuse, CapExists, CapFulfil, At
<1>2. ix \in IxType(Len(gens)) /\ ix.g \in DOMAIN gens /\ Cur = gens[ix.g] /\ Cur \in Generations
  BY <1>1, Here
<1>3. ix.op # "refresh"
  BY <1>1 DEF FInv, Progress, Refreshing
<1>4. DOMAIN gens' = DOMAIN gens /\ \A g \in DOMAIN gens : SameSources(gens'[g], gens[g])
  <2>1. CASE CapCreate
    <3>1. gens' = [gens EXCEPT ![ix.g].cap.made = TRUE, ![ix.g].cap.req = Cur.guid, ![ix.g].want = Cur.src]
      BY <2>1 DEF CapCreate
    <3> QED BY <1>2, <3>1 DEF SameSources, Generations
  <2>2. CASE CapReuse
    <3>1. gens' = gens \/ \E h : gens' = [gens EXCEPT ![ix.g].cap.resp = h]
      BY <2>2 DEF CapReuse
    <3>2. CASE gens' = gens
      BY <3>2 DEF SameSources
    <3>3. ASSUME NEW h, gens' = [gens EXCEPT ![ix.g].cap.resp = h]
          PROVE  DOMAIN gens' = DOMAIN gens /\ \A g \in DOMAIN gens : SameSources(gens'[g], gens[g])
      BY <1>2, <3>3 DEF SameSources, Generations
    <3> QED BY <3>1, <3>2, <3>3
  <2>3. CASE CapExists
    BY <1>2, <2>3, FreshFrame DEF SameSources, CapExists
  <2>4. CASE CapFulfil
    <3>1. PICK w : gens' = [gens EXCEPT ![ix.g].cap.done = TRUE, ![ix.g].have = Cur.src, ![ix.g].review = w]
      BY <2>4 DEF CapFulfil
    <3> QED BY <1>2, <3>1 DEF SameSources, Generations
  <2> QED BY <2>1, <2>2, <2>3, <2>4
<1>5. Onward
  <2>1. \/ ix' = Idle
        \/ \E p \in {"capreuse", "capfulfil", "counts"} : ix' = [ix EXCEPT !.pc = p]
    BY DEF CapCreate, CapReuse, CapExists, CapFulfil, CapPrepared
  <2>2. ASSUME NEW p \in {"capreuse", "capfulfil", "counts"}, ix' = [ix EXCEPT !.pc = p] PROVE Onward
    BY <1>1, <1>2, <1>3, <2>2, MovedOnward DEF IxType, Refreshing
  <2> QED BY <1>1, <2>1, <2>2, IdleOnward
<1> QED BY <1>1, <1>4, <1>5 DEF Quiet

\* an operation that begins with the newest staging generation,
LEMMA BeginOnward ==
    ASSUME IInv, ix = Idle, NEW op, NEW pc, op # "refresh", pc \notin {"acquire", "populate", "clear"},
           NEW w, w.op = op, w.pc = pc, w.hash = 0, w.before = Idle.before, ix' = w
    PROVE  Onward
<1>1. rev \in Nat
  BY TypeParts DEF IInv, TypeObs
<1>2. ix.pc = "idle"
  BY DEF Idle
<1> QED BY <1>1, <1>2 DEF Onward

\* an answer and a review, and the checks of a commit.
LEMMA AgentQuiet ==
    ASSUME IInv, FInv,
           \/ GetToolBatch \/ GetCapBatch \/ Commit \/ CommitCheck \/ ReconcileDone
           \/ \E g \in DOMAIN gens :
                 SubmitReview(g) \/ \E r \in Guides : \/ SubmitCap(g, r)
                                                      \/ \E i \in DOMAIN gens[g].tb : SubmitTool(g, i, r)
    PROVE  Quiet
<1>1. TypeRows /\ rev \in Nat /\ ix \in IxType(Len(gens))
  BY TypeParts DEF IInv, TypeObs, TypeIx
<1>2. \A g \in DOMAIN gens : gens[g] \in Generations
  BY <1>1, GensIsSeq
<1>3. ASSUME NEW op \in {"getbatch", "commit"}, NEW pc \in {"prep", "cap"}, Begin(op, pc) PROVE Quiet
  <2>1. ix = Idle /\ ix' = [Idle EXCEPT !.op = op, !.pc = pc, !.g = Newest(Staging(rev))] /\ IxOnly
    BY <1>3 DEF Begin
  <2>2. ix'.op = op /\ ix'.pc = pc /\ ix'.hash = 0 /\ ix'.before = Idle.before
    BY <2>1 DEF Idle
  <2>3. Onward
    BY <2>1, <2>2, BeginOnward
  <2> QED BY <2>1, <2>3, FreshFrame, OnlyMoves
<1>4. CASE CommitCheck
  <2>1. /\ ix.pc = "counts" /\ ix.op = "commit" /\ IxOnly
        /\ ix' = [ix EXCEPT !.pc = "promote", !.hash = rev]
    BY <1>4 DEF CommitCheck, At
  <2>2. Onward
    BY <1>1, <2>1 DEF Onward, IxType
  <2> QED BY <2>1, <2>2, FreshFrame, OnlyMoves
<1>5. CASE ReconcileDone
  <2>1. ix.pc = "clear" /\ ix' = Idle /\ IxOnly
    BY <1>5 DEF ReconcileDone, At
  <2> QED BY <2>1, IdleOnward, FreshFrame, OnlyMoves
<1>6. ASSUME NEW g \in DOMAIN gens, SubmitReview(g) PROVE Quiet
  <2>1. gens' = [gens EXCEPT ![g].review = "closed"] /\ ix = Idle /\ ix' = ix /\ UNCHANGED freshVars
    BY <1>6, FreshFrame DEF SubmitReview
  <2>2. gens' = [gens EXCEPT ![g] = gens'[g]] /\ SameSources(gens'[g], gens[g])
    BY <1>2, <2>1 DEF SameSources, Generations
  <2>3. Onward
    BY <2>1, IdleOnward DEF Idle
  <2> QED BY <2>1, <2>2, <2>3, RowMoves
<1>7. ASSUME NEW g \in DOMAIN gens, NEW r \in Guides, SubmitCap(g, r) PROVE Quiet
  <2>1. /\ gens' = [gens EXCEPT ![g].cap.resp = r] /\ ix = Idle /\ UNCHANGED freshVars
        /\ ix' = [Idle EXCEPT !.op = "submit", !.pc = "capfulfil", !.g = g]
    BY <1>7, FreshFrame DEF SubmitCap
  <2>2. gens' = [gens EXCEPT ![g] = gens'[g]] /\ SameSources(gens'[g], gens[g])
    BY <1>2, <2>1 DEF SameSources, Generations
  <2>3. ix'.op = "submit" /\ ix'.pc = "capfulfil" /\ ix'.hash = 0 /\ ix'.before = Idle.before
    BY <2>1 DEF Idle
  <2>4. Onward
    BY <2>1, <2>3, BeginOnward
  <2> QED BY <2>1, <2>2, <2>4, RowMoves
<1>8. ASSUME NEW g \in DOMAIN gens, NEW r \in Guides, NEW i \in DOMAIN gens[g].tb, SubmitTool(g, i, r)
      PROVE  Quiet
  <2>1. /\ gens' = [gens EXCEPT ![g].tb[i].resp = r] /\ ix = Idle /\ UNCHANGED freshVars
        /\ ix' = [Idle EXCEPT !.op = "submit", !.pc = "material", !.g = g, !.batch = i,
                              !.todo = gens[g].tb[i].items]
    BY <1>8, FreshFrame DEF SubmitTool
  <2>2. gens' = [gens EXCEPT ![g] = gens'[g]] /\ SameSources(gens'[g], gens[g])
    BY <1>2, <2>1 DEF SameSources, Generations
  <2>3. ix'.op = "submit" /\ ix'.pc = "material" /\ ix'.hash = 0 /\ ix'.before = Idle.before
    BY <2>1 DEF Idle
  <2>4. Onward
    BY <2>1, <2>3, BeginOnward
  <2> QED BY <2>1, <2>2, <2>4, RowMoves
<1> QED BY <1>3, <1>4, <1>5, <1>6, <1>7, <1>8 DEF GetToolBatch, GetCapBatch, Commit

-----------------------------------------------------------------------------
(* Refresh.                                                                *)

\* The rows of a superseded generation, and of a new one.
LEMMA EmptyRows ==
    /\ Superseded.status = "superseded" /\ Superseded.hash = 0 /\ Superseded.src = NoTools
    /\ \A h : /\ NewGeneration(h).status = "staging" /\ NewGeneration(h).hash = h
              /\ NewGeneration(h).src = NoTools /\ NewGeneration(h).srvs = {}
<1>1. \A h : /\ NewGeneration(h).status = "staging" /\ NewGeneration(h).hash = h
             /\ NewGeneration(h).src = NoTools /\ NewGeneration(h).srvs = {}
  BY DEF NewGeneration
<1>2. Superseded = [NewGeneration(0) EXCEPT !.status = "superseded"]
  BY DEF Superseded
<1>3. Superseded.status = "superseded" /\ Superseded.hash = 0 /\ Superseded.src = NoTools
  <2>1. NewGeneration(0) \in Generations
    BY NewOK
  <2> HIDE DEF NewGeneration
  <2> QED BY <1>1, <1>2, <2>1 DEF Generations
<1> QED BY <1>1, <1>3

\* What is left when staging generations D are dropped.
LEMMA DropsFresh ==
    ASSUME IInv, FInv, NEW D, D \subseteq WithStatus("staging"),
           gens' = [g \in DOMAIN gens |-> IF g \in D THEN Superseded ELSE gens[g]]
    PROVE  /\ DOMAIN gens' = DOMAIN gens
           /\ WithStatus("staging")' = WithStatus("staging") \ D /\ Active' = Active
           /\ Current' = Current \ D /\ \A g \in Current \ D : g \in DOMAIN gens /\ gens'[g] = gens[g]
           /\ \A g \in DOMAIN gens : gens'[g].hash <= rev
           /\ Rooted'
<1>1. /\ DOMAIN gens' = DOMAIN gens
      /\ \A g \in DOMAIN gens : gens'[g] = IF g \in D THEN Superseded ELSE gens[g]
  OBVIOUS
<1>2. rev \in Nat
  BY TypeParts DEF IInv, TypeObs
<1>3. WithStatus("staging")' = WithStatus("staging") \ D /\ Active' = Active
  BY <1>1, EmptyRows DEF WithStatus, Active
<1>4. Current' = Current \ D /\ \A g \in Current \ D : g \in DOMAIN gens /\ gens'[g] = gens[g]
  BY <1>1, EmptyRows DEF Current
<1>5. \A g \in DOMAIN gens : gens'[g].hash <= rev
  BY <1>1, <1>2, EmptyRows DEF FInv, Ordered
<1>6. Rooted'
  BY <1>1, EmptyRows DEF FInv, Rooted, NoTools
<1> QED BY <1>1, <1>3, <1>4, <1>5, <1>6

\* What the indexing service leaves alone keeps the observers as they are.
LEMMA ObserversStand ==
    ASSUME FInv, UNCHANGED <<up, obs, effective, cache, lost>>
    PROVE  Stages' /\ Recorded'
  BY DEF FInv, Stages, Recorded, Recording

\* A refresh begins with the hash of now,
LEMMA RefreshFresh ==
    ASSUME IInv, FInv, Refresh
    PROVE  FInv'
<1> DEFINE D == {g \in DOMAIN gens : StaleStaging(g)}
<1>1. D \subseteq WithStatus("staging") /\ \A g \in WithStatus("staging") \ D : gens[g].hash = rev
  BY DEF StaleStaging, WithStatus
<1>2. /\ gens' = [g \in DOMAIN gens |-> IF g \in D THEN Superseded ELSE gens[g]]
      /\ UNCHANGED freshVars /\ ix = Idle
      /\ ix' = [Idle EXCEPT !.op = "refresh", !.pc = "acquire", !.hash = rev, !.before = dirty]
  BY FreshFrame DEF Refresh
<1>3. /\ ix.pc = "idle" /\ ix'.pc = "acquire" /\ ix'.op = "refresh" /\ ix'.hash = rev
      /\ ix'.before = dirty /\ ix'.got = {} /\ ix'.snap = NoTools
  BY <1>2 DEF Idle
<1> HIDE DEF D
<1>4. /\ DOMAIN gens' = DOMAIN gens
      /\ WithStatus("staging")' = WithStatus("staging") \ D /\ Active' = Active
      /\ Current' = Current \ D /\ \A g \in Current \ D : g \in DOMAIN gens /\ gens'[g] = gens[g]
      /\ \A g \in DOMAIN gens : gens'[g].hash <= rev
      /\ Rooted'
  BY <1>1, <1>2, DropsFresh
<1>5. /\ UNCHANGED <<cache, up, effective, obs, dirty, marks, rev, config, servers, lost, flawed>>
      /\ \A g : Sourced(g)' <=> Sourced(g)
  BY <1>2, <1>3 DEF freshVars, Sourced
<1>6. \A g \in WithStatus("staging") \ D : g \in Current \ D
  BY DEF WithStatus, Current
<1>7. \A h \in Active : h \in Current \ D
  BY <1>1 DEF WithStatus, Current, Active
<1>8. rev \in Nat
  BY TypeParts DEF IInv, TypeObs
<1>9. Ordered'
  <2>1. \A g \in WithStatus("staging")', h \in Active' : gens'[h].hash <= gens'[g].hash
    BY <1>1, <1>4, <1>6, <1>7 DEF FInv, Ordered
  <2> QED BY <1>3, <1>4, <1>5, <1>8, <2>1 DEF FInv, Ordered
<1>10. Scope'
  BY <1>3, <1>4, <1>5 DEF FInv, Scope
<1>11. Progress'
  <2>1. \A g \in WithStatus("staging")' : gens'[g].hash = ix'.hash /\ gens'[g].srvs \subseteq servers'
    BY <1>1, <1>3, <1>4, <1>5, <1>6 DEF FInv, Scope
  <2>2. \A g \in Current' : gens'[g].hash <= ix'.hash
    BY <1>3, <1>4
  <2>3. \A m \in Members : ix'.snap[m] = None
    BY <1>3 DEF NoTools
  <2> QED BY <1>3, <2>1, <2>2, <2>3 DEF Progress, Refreshing
<1>12. Stages' /\ Recorded'
  BY <1>5, ObserversStand
<1>13. Agreement'
  <2>1. ASSUME NEW m \in Members, NEW v, Agree(m, v) PROVE Agree(m, v)'
    BY <1>3, <1>4, <1>5, <2>1 DEF Agree
  <2> QED BY <1>5, <2>1 DEF FInv, Agreement, Recording
<1>14. Marked'
  BY <1>3, <1>4, <1>5, <1>6 DEF FInv, Marked
<1> QED BY <1>4, <1>9, <1>10, <1>11, <1>12, <1>13, <1>14 DEF FInv

\* copies what each connected server has,
LEMMA AcquireFresh ==
    ASSUME IInv, FInv, NEW s \in Servers, AcquireSnapshot(s)
    PROVE  FInv'
<1>1. ix \in IxType(Len(gens)) /\ effective \in ToolList
  BY TypeParts DEF IInv, TypeIx, TypeObs
<1>2. /\ UNCHANGED freshVars /\ UNCHANGED gens /\ ix.pc = "acquire" /\ s \in servers \ ix.got /\ s \in up
      /\ ix' = [ix EXCEPT !.got = ix.got \cup {s}, !.snap = Over(ix.snap, s, effective)]
  BY FreshFrame DEF AcquireSnapshot, At
<1>3. /\ ix'.pc = "acquire" /\ ix'.op = ix.op /\ ix'.hash = ix.hash /\ ix'.before = ix.before
      /\ ix'.got = ix.got \cup {s} /\ ix'.snap = Over(ix.snap, s, effective)
  BY <1>1, <1>2 DEF IxType
<1>4. \A m \in Members : ix'.snap[m] = IF ServerOf[m] = s THEN effective[m] ELSE ix.snap[m]
  BY <1>3 DEF Over
<1>5. /\ UNCHANGED <<cache, up, effective, obs, dirty, marks, rev, config, servers, lost, flawed, gens>>
      /\ \A g : Sourced(g)' <=> Sourced(g)
      /\ \A st : WithStatus(st)' = WithStatus(st)
      /\ Active' = Active /\ Current' = Current /\ Refreshing' = Refreshing
  BY <1>2, <1>3 DEF freshVars, Sourced, WithStatus, Active, Current, Refreshing
<1>6. Ordered' /\ Rooted'
  BY <1>3, <1>5 DEF FInv, Ordered, Rooted
<1>7. Scope'
  BY <1>2, <1>3, <1>5 DEF FInv, Scope
<1>8. Progress'
  BY <1>2, <1>3, <1>4, <1>5 DEF FInv, Progress
<1>9. Stages' /\ Recorded'
  BY <1>5, ObserversStand
<1>10. Agreement'
  <2>1. ASSUME NEW m \in Members, NEW v, Agree(m, v) PROVE Agree(m, v)'
    BY <1>2, <1>3, <1>4, <1>5, <2>1 DEF Agree
  <2> QED BY <1>5, <2>1 DEF FInv, Agreement, Recording
<1>11. Marked'
  BY <1>3, <1>4, <1>5 DEF FInv, Marked
<1> QED BY <1>6, <1>7, <1>8, <1>9, <1>10, <1>11 DEF FInv

\* drops a generation whose sources have changed,
LEMMA StageSupersedeFresh ==
    ASSUME IInv, FInv, StageSupersede
    PROVE  FInv'
<1> DEFINE d == Newest(Staging(ix.hash))
<1>1. d \in WithStatus("staging")
  BY StagingHas DEF StageSupersede
<1>2. /\ gens' = [gens EXCEPT ![d] = Superseded] /\ ix' = ix /\ UNCHANGED freshVars /\ ix.pc = "acquire"
  BY FreshFrame DEF StageSupersede, Acquired, At
<1> HIDE DEF d
<1>3. gens' = [g \in DOMAIN gens |-> IF g \in {d} THEN Superseded ELSE gens[g]]
  BY <1>2
<1>4. /\ DOMAIN gens' = DOMAIN gens
      /\ WithStatus("staging")' = WithStatus("staging") \ {d} /\ Active' = Active
      /\ Current' = Current \ {d} /\ \A g \in Current \ {d} : g \in DOMAIN gens /\ gens'[g] = gens[g]
      /\ \A g \in DOMAIN gens : gens'[g].hash <= rev
      /\ Rooted'
  BY <1>1, <1>3, DropsFresh
<1>5. /\ UNCHANGED <<cache, up, effective, obs, dirty, marks, rev, config, servers, lost, flawed>>
      /\ \A g : Sourced(g)' <=> Sourced(g)
      /\ Refreshing' = Refreshing
  BY <1>2 DEF freshVars, Sourced, Refreshing
<1>6. \A g \in WithStatus("staging") \ {d} : g \in Current \ {d}
  BY DEF WithStatus, Current
<1>7. \A h \in Active : h \in Current \ {d}
  BY <1>1 DEF WithStatus, Current, Active
<1>8. Ordered'
  <2>1. \A g \in WithStatus("staging")', h \in Active' : gens'[h].hash <= gens'[g].hash
    BY <1>1, <1>4, <1>6, <1>7 DEF FInv, Ordered
  <2> QED BY <1>2, <1>4, <1>5, <2>1 DEF FInv, Ordered
<1>9. Scope'
  BY <1>2, <1>4, <1>5 DEF FInv, Scope
<1>10. Progress'
  BY <1>2, <1>4, <1>5, <1>6 DEF FInv, Progress
<1>11. Stages' /\ Recorded'
  BY <1>5, ObserversStand
<1>12. Agreement'
  <2>1. ASSUME NEW m \in Members, NEW v, Agree(m, v) PROVE Agree(m, v)'
    BY <1>2, <1>4, <1>5, <2>1 DEF Agree
  <2> QED BY <1>5, <2>1 DEF FInv, Agreement, Recording
<1>13. Marked'
  BY <1>2, <1>4, <1>5, <1>6 DEF FInv, Marked
<1> QED BY <1>4, <1>8, <1>9, <1>10, <1>11, <1>12, <1>13 DEF FInv

\* begins an empty one,
LEMMA StageCreateFresh ==
    ASSUME IInv, FInv, StageCreate
    PROVE  FInv'
<1> DEFINE n == NewGeneration(ix.hash)
           k == Len(gens) + 1
<1>1. TypeRows /\ ix \in IxType(Len(gens)) /\ rev \in Nat
  BY TypeParts DEF IInv, TypeIx, TypeObs
<1>2. gens \in Seq(Generations) /\ DOMAIN gens = 1 .. Len(gens) /\ Len(gens) \in Nat
  BY <1>1, GensIsSeq DEF TypeRows
<1>3. n.status = "staging" /\ n.hash = ix.hash /\ n.src = NoTools /\ n.srvs = {} /\ n \in Generations
  BY <1>1, EmptyRows, NewOK DEF IxType
<1>4. /\ gens' = Append(gens, n) /\ UNCHANGED freshVars /\ ix.pc = "acquire" /\ servers \subseteq ix.got
      /\ ix' = [ix EXCEPT !.pc = "populate", !.g = k, !.todo = Present(ix.snap)]
      /\ Staging(ix.hash) = {}
  BY FreshFrame DEF StageCreate, Acquired, At
<1>5. /\ ix'.pc = "populate" /\ ix'.g = k /\ ix'.todo = Present(ix.snap) /\ ix'.op = ix.op
      /\ ix'.hash = ix.hash /\ ix'.before = ix.before /\ ix'.got = ix.got /\ ix'.snap = ix.snap
  BY <1>1, <1>4 DEF IxType
<1> HIDE DEF n
<1>6. /\ DOMAIN gens' = DOMAIN gens \cup {k} /\ gens'[k] = n /\ k \notin DOMAIN gens
      /\ \A g \in DOMAIN gens : gens'[g] = gens[g]
  <2>1. /\ Len(gens') = k /\ DOMAIN gens' = 1 .. k /\ gens'[k] = n
        /\ \A g \in DOMAIN gens : gens'[g] = gens[g]
    BY <1>2, <1>3, <1>4
  <2> QED BY <1>2, <2>1
<1> HIDE DEF k
<1>7. Refreshing /\ WithStatus("staging") = {}
  <2>1. Refreshing /\ \A g \in WithStatus("staging") : gens[g].hash = ix.hash
    BY <1>4 DEF FInv, Progress
  <2> QED BY <1>4, <2>1 DEF Staging
<1>8. /\ WithStatus("staging")' = {k} /\ Active' = Active /\ Current' = Current \cup {k}
      /\ Active \subseteq Current /\ Current \subseteq DOMAIN gens
  <2>1. WithStatus("staging")' = {k}
    BY <1>3, <1>6, <1>7 DEF WithStatus
  <2>2. Active' = Active /\ Active \subseteq Current
    BY <1>3, <1>6 DEF WithStatus, Active, Current
  <2>3. Current' = Current \cup {k} /\ Current \subseteq DOMAIN gens
    BY <1>3, <1>6 DEF Current
  <2> QED BY <2>1, <2>2, <2>3
<1>9. /\ UNCHANGED <<cache, up, effective, obs, dirty, marks, rev, config, servers, lost, flawed>>
      /\ \A g : Sourced(g)' => Sourced(g) /\ g # k
      /\ Refreshing'
  BY <1>4, <1>5, <1>7 DEF freshVars, Sourced, Refreshing
<1>10. Ordered'
  <2>1. \A g \in DOMAIN gens' : gens'[g].hash <= rev
    BY <1>3, <1>6 DEF FInv, Ordered
  <2>2. \A h \in Active' : gens'[h].hash <= gens'[k].hash
    BY <1>3, <1>6, <1>7, <1>8 DEF FInv, Progress
  <2> QED BY <1>5, <1>8, <1>9, <2>1, <2>2 DEF FInv, Ordered
<1>11. Rooted'
  BY <1>3, <1>6 DEF FInv, Rooted, NoTools
<1>12. Scope'
  BY <1>3, <1>5, <1>6, <1>7, <1>8, <1>9 DEF FInv, Scope
<1>13. Progress'
  <2>1. gens'[k].hash = ix'.hash /\ gens'[k].srvs \subseteq servers'
    BY <1>3, <1>5, <1>6
  <2>2. \A g \in Current' : gens'[g].hash <= ix'.hash
    <3>1. ix.hash \in Nat
      BY <1>1 DEF IxType
    <3> QED BY <1>3, <1>5, <1>6, <1>7, <1>8, <3>1 DEF FInv, Progress
  <2>3. ASSUME NEW m \in Members \ ix'.todo PROVE Cur'.src[m] = ix'.snap[m]
    <3>1. Cur'.src[m] = None
      BY <1>3, <1>5, <1>6 DEF Cur, NoTools
    <3>2. ix.snap[m] = None
      BY <1>5, <2>3 DEF Present
    <3> QED BY <1>5, <3>1, <3>2
  <2> QED BY <1>4, <1>5, <1>7, <1>8, <1>9, <2>1, <2>2, <2>3 DEF FInv, Progress
<1>14. Stages' /\ Recorded'
  BY <1>9, ObserversStand
<1>15. Agreement'
  <2>1. ASSUME NEW m \in Members, NEW v, Agree(m, v) PROVE Agree(m, v)'
    <3>1. n.src[m] = None
      BY <1>3 DEF NoTools
    <3> QED BY <1>5, <1>6, <1>7, <1>8, <1>9, <2>1, <3>1 DEF Agree
  <2> QED BY <1>9, <2>1 DEF FInv, Agreement, Recording
<1>16. Marked'
  BY <1>5, <1>7, <1>8, <1>9 DEF FInv, Marked
<1> QED BY <1>10, <1>11, <1>12, <1>13, <1>14, <1>15, <1>16 DEF FInv

\* or takes over one with the same sources, or none yet.
LEMMA StageReuseFresh ==
    ASSUME IInv, FInv, StageReuse
    PROVE  FInv'
<1> DEFINE k == Newest(Staging(ix.hash))
<1>1. TypeRows /\ ix \in IxType(Len(gens))
  BY TypeParts DEF IInv, TypeIx
<1>2. k \in DOMAIN gens /\ k \in WithStatus("staging")
  BY StagingHas DEF StageReuse
<1>3. /\ UNCHANGED <<cache, up, effective, obs, dirty, marks, rev, config, servers, lost, gens>>
      /\ ix.pc = "acquire" /\ servers \subseteq ix.got /\ ~SourcesChanged(gens[k])
      /\ ix' = [ix EXCEPT !.pc = "populate", !.g = k, !.todo = Present(ix.snap)]
      /\ flawed \subseteq flawed'
  BY DEF StageReuse, Acquired, At
<1> HIDE DEF k
<1>4. /\ ix'.pc = "populate" /\ ix'.g = k /\ ix'.todo = Present(ix.snap) /\ ix'.op = ix.op
      /\ ix'.hash = ix.hash /\ ix'.before = ix.before /\ ix'.got = ix.got /\ ix'.snap = ix.snap
  BY <1>1, <1>3 DEF IxType
<1>5. /\ \A g : Sourced(g)' => Sourced(g)
      /\ \A st : WithStatus(st)' = WithStatus(st)
      /\ Active' = Active /\ Current' = Current /\ Refreshing' = Refreshing
  BY <1>3, <1>4 DEF Sourced, WithStatus, Active, Current, Refreshing
<1>6. Ordered' /\ Rooted' /\ Scope'
  BY <1>3, <1>4, <1>5 DEF FInv, Ordered, Rooted, Scope
<1>7. Progress'
  <2>1. ASSUME NEW m \in Members \ ix'.todo PROVE Cur'.src[m] = ix'.snap[m]
    <3>1. ix.snap[m] = None /\ Cur' = gens[k]
      BY <1>3, <1>4, <2>1 DEF Present, Cur
    <3>2. Present(gens[k].src) = {} \/ gens[k].src = ix.snap
      BY <1>3 DEF SourcesChanged
    <3> QED BY <1>4, <2>1, <3>1, <3>2 DEF Present
  <2> QED BY <1>3, <1>4, <1>5, <2>1 DEF FInv, Progress
<1>8. Stages' /\ Recorded'
  BY <1>3, ObserversStand
<1>9. Agreement'
  <2>1. ASSUME NEW m \in Members, NEW v, Agree(m, v) PROVE Agree(m, v)'
    BY <1>3, <1>4, <1>5, <2>1 DEF Agree
  <2> QED BY <1>3, <2>1 DEF FInv, Agreement, Recording
<1>10. Marked'
  BY <1>3, <1>4, <1>5 DEF FInv, Marked
<1> QED BY <1>6, <1>7, <1>8, <1>9, <1>10 DEF FInv

\* Where populating stands.
LEMMA Populating ==
    ASSUME IInv, FInv, ix.pc = "populate"
    PROVE  /\ ix.g \in DOMAIN gens /\ Cur = gens[ix.g] /\ Cur \in Generations /\ ix \in IxType(Len(gens))
           /\ Refreshing /\ WithStatus("staging") = {ix.g} /\ ix.g \in Current
           /\ Cur.hash = ix.hash /\ ~Sourced(ix.g)
           /\ \A m \in ix.todo : m \in Members /\ ix.snap[m] # None
           /\ TypeObs
<1>1. /\ ix.g \in DOMAIN gens /\ Cur = gens[ix.g] /\ Cur \in Generations /\ Cur.status = "staging"
      /\ StageOK(ix, Cur, flawed) /\ ix \in IxType(Len(gens)) /\ TypeObs
  BY Here
<1>2. ix.g \in WithStatus("staging") /\ ix.g \in Current
  BY <1>1 DEF WithStatus, Current
<1>3. WithStatus("staging") = {ix.g}
  BY <1>2 DEF IInv, Unique
<1>4. Refreshing /\ Cur.hash = ix.hash
  BY <1>1, <1>2 DEF FInv, Progress
<1>5. \A m \in ix.todo : m \in Members /\ ix.snap[m] # None
  BY <1>1 DEF StageOK, IxType
<1> QED BY <1>1, <1>2, <1>3, <1>4, <1>5 DEF Sourced

\* A row of a server,
LEMMA PopulateServerFresh ==
    ASSUME IInv, FInv, NEW s \in Servers, PopulateServer(s)
    PROVE  FInv'
<1>1. /\ ix.pc = "populate" /\ ix' = ix /\ UNCHANGED freshVars /\ s \in ix.got
      /\ gens' = [gens EXCEPT ![ix.g].srvs = gens[ix.g].srvs \cup {s}]
  BY FreshFrame DEF PopulateServer, At
<1>2. /\ ix.g \in DOMAIN gens /\ Cur = gens[ix.g] /\ Cur \in Generations
      /\ Refreshing /\ WithStatus("staging") = {ix.g} /\ ix.g \in Current
      /\ Cur.hash = ix.hash /\ ~Sourced(ix.g)
  BY <1>1, Populating
<1>3. /\ DOMAIN gens' = DOMAIN gens /\ \A g \in DOMAIN gens \ {ix.g} : gens'[g] = gens[g]
      /\ \A g \in DOMAIN gens : /\ gens'[g].status = gens[g].status /\ gens'[g].hash = gens[g].hash
                                /\ gens'[g].src = gens[g].src /\ gens[g].srvs \subseteq gens'[g].srvs
      /\ gens'[ix.g].srvs = gens[ix.g].srvs \cup {s}
  BY <1>1, <1>2 DEF Generations
<1>4. /\ UNCHANGED <<cache, up, effective, obs, dirty, marks, rev, config, servers, lost, flawed>>
      /\ \A g : Sourced(g)' <=> Sourced(g)
      /\ \A st : WithStatus(st)' = WithStatus(st)
      /\ Active' = Active /\ Current' = Current /\ Refreshing'
      /\ Active \subseteq DOMAIN gens /\ Current \subseteq DOMAIN gens
  <2>1. \A st : WithStatus(st)' = WithStatus(st)
    BY <1>3 DEF WithStatus
  <2>2. Current' = Current /\ Current \subseteq DOMAIN gens
    BY <1>3 DEF Current
  <2> QED BY <1>1, <1>2, <2>1, <2>2 DEF freshVars, Sourced, Active, WithStatus, Refreshing
<1>5. Ordered'
  BY <1>1, <1>2, <1>3, <1>4 DEF FInv, Ordered
<1>6. Rooted'
  BY <1>3 DEF FInv, Rooted
<1>7. Scope'
  <2>1. ASSUME NEW g \in Current', gens'[g].hash = rev' PROVE gens'[g].srvs \subseteq servers' \cap config'
    <3>1. CASE g # ix.g
      BY <1>3, <1>4, <2>1, <3>1 DEF FInv, Scope
    <3>2. CASE g = ix.g
      <4>1. s \in servers /\ s \in config
        BY <1>1, <1>2, <1>3, <1>4, <2>1, <3>2 DEF FInv, Scope, Progress
      <4> QED BY <1>2, <1>3, <1>4, <2>1, <3>2, <4>1 DEF FInv, Scope
    <3> QED BY <3>1, <3>2
  <2> QED BY <1>1, <1>2, <1>4, <2>1 DEF FInv, Scope
<1>8. Progress'
  <2>1. s \in servers /\ Cur'.src = Cur.src
    BY <1>1, <1>2, <1>3 DEF FInv, Progress, Cur
  <2> QED BY <1>1, <1>2, <1>3, <1>4, <2>1 DEF FInv, Progress
<1>9. Stages' /\ Recorded'
  BY <1>4, ObserversStand
<1>10. Agreement'
  <2>1. ASSUME NEW m \in Members, NEW v, Agree(m, v) PROVE Agree(m, v)'
    BY <1>1, <1>2, <1>3, <1>4, <2>1 DEF Agree
  <2> QED BY <1>4, <2>1 DEF FInv, Agreement, Recording
<1>11. Marked'
  BY <1>1, <1>2, <1>3, <1>4 DEF FInv, Marked
<1> QED BY <1>5, <1>6, <1>7, <1>8, <1>9, <1>10, <1>11 DEF FInv

\* the source of a tool,
LEMMA PopulateToolFresh ==
    ASSUME IInv, FInv, PopulateTool
    PROVE  FInv'
<1> DEFINE t == CHOOSE m \in ix.todo : ServerOf[m] \in Cur.srvs
           b == IF Cur.src[t] # ix.snap[t] THEN 1 ELSE Further(Cur.built[t])
<1>1. /\ ix.pc = "populate" /\ UNCHANGED freshVars /\ t \in ix.todo /\ ServerOf[t] \in Cur.srvs
      /\ gens' = [gens EXCEPT ![ix.g].src[t] = ix.snap[t], ![ix.g].built[t] = b]
      /\ ix' \in {ix, [ix EXCEPT !.todo = ix.todo \ {t}]}
  <2>1. ix.pc = "populate" /\ UNCHANGED freshVars /\ \E m \in ix.todo : ServerOf[m] \in Cur.srvs
    BY FreshFrame DEF PopulateTool, At
  <2>2. /\ gens' = [gens EXCEPT ![ix.g].src[t] = ix.snap[t], ![ix.g].built[t] = b]
        /\ ix' = [ix EXCEPT !.todo = IF gens'[ix.g].built[t] = Built THEN ix.todo \ {t} ELSE ix.todo]
    BY DEF PopulateTool
  <2>3. t \in ix.todo /\ ServerOf[t] \in Cur.srvs
    BY <2>1
  <2>4. ix \in IxType(Len(gens))
    BY <2>1, Populating
  <2>5. ix = [ix EXCEPT !.todo = ix.todo]
    BY <2>4 DEF IxType
  <2> HIDE DEF t, b
  <2> QED BY <2>1, <2>2, <2>3, <2>5
<1> HIDE DEF t, b
<1>2. /\ ix.g \in DOMAIN gens /\ Cur = gens[ix.g] /\ Cur \in Generations /\ ix \in IxType(Len(gens))
      /\ Refreshing /\ WithStatus("staging") = {ix.g} /\ ix.g \in Current
      /\ Cur.hash = ix.hash /\ ~Sourced(ix.g)
      /\ t \in Members /\ ix.snap[t] # None
  BY <1>1, Populating
<1>3. /\ ix'.pc = "populate" /\ ix'.op = ix.op /\ ix'.g = ix.g /\ ix'.hash = ix.hash
      /\ ix'.before = ix.before /\ ix'.snap = ix.snap /\ ix'.got = ix.got
      /\ ix'.todo \in {ix.todo, ix.todo \ {t}}
  BY <1>1, <1>2 DEF IxType
<1>4. Cur.src \in ToolList
  BY <1>2 DEF Generations
<1>5. /\ DOMAIN gens' = DOMAIN gens /\ \A g \in DOMAIN gens \ {ix.g} : gens'[g] = gens[g]
      /\ \A g \in DOMAIN gens : /\ gens'[g].status = gens[g].status /\ gens'[g].hash = gens[g].hash
                                /\ gens'[g].srvs = gens[g].srvs
      /\ gens'[ix.g].src = [gens[ix.g].src EXCEPT ![t] = ix.snap[t]]
  BY <1>1, <1>2 DEF Generations
<1>6. \A m \in Members : gens'[ix.g].src[m] = IF m = t THEN ix.snap[t] ELSE gens[ix.g].src[m]
  BY <1>2, <1>4, <1>5 DEF ToolList
<1>7. /\ UNCHANGED <<cache, up, effective, obs, dirty, marks, rev, config, servers, lost, flawed>>
      /\ \A g : Sourced(g)' <=> Sourced(g)
      /\ \A st : WithStatus(st)' = WithStatus(st)
      /\ Active' = Active /\ Current' = Current /\ Refreshing'
      /\ Active \subseteq DOMAIN gens /\ Current \subseteq DOMAIN gens
  <2>1. \A st : WithStatus(st)' = WithStatus(st)
    BY <1>5 DEF WithStatus
  <2>2. Current' = Current /\ Current \subseteq DOMAIN gens
    BY <1>5 DEF Current
  <2> QED BY <1>1, <1>2, <1>3, <2>1, <2>2 DEF freshVars, Sourced, Active, WithStatus, Refreshing
<1>8. Ordered'
  <2>1. \A g \in WithStatus("staging")', h \in Active' : gens'[h].hash <= gens'[g].hash
    BY <1>2, <1>5, <1>7 DEF FInv, Ordered
  <2> QED BY <1>3, <1>5, <1>7, <2>1 DEF FInv, Ordered
<1>9. Rooted'
  BY <1>1, <1>2, <1>5, <1>6 DEF FInv, Rooted
<1>10. Scope'
  BY <1>3, <1>5, <1>7, <1>2 DEF FInv, Scope
<1>11. Progress'
  <2>1. ASSUME NEW m \in Members \ ix'.todo PROVE Cur'.src[m] = ix'.snap[m]
    <3>1. Cur'.src[m] = IF m = t THEN ix.snap[t] ELSE Cur.src[m]
      BY <1>2, <1>3, <1>6, <2>1 DEF Cur
    <3> QED BY <1>1, <1>2, <1>3, <2>1, <3>1 DEF FInv, Progress
  <2> QED BY <1>1, <1>2, <1>3, <1>5, <1>7, <2>1 DEF FInv, Progress
<1>12. Stages' /\ Recorded'
  BY <1>7, ObserversStand
<1>13. Agreement'
  <2>1. ASSUME NEW m \in Members, NEW v, Agree(m, v) PROVE Agree(m, v)'
    <3>1. ix.hash = rev => gens'[ix.g].src[m] \in {None, v}
      <4>1. CASE m # t
        BY <1>2, <1>6, <2>1, <4>1 DEF Agree
      <4>2. CASE m = t
        BY <1>2, <1>6, <2>1, <4>2 DEF Agree, FInv, Progress
      <4> QED BY <4>1, <4>2
    <3>2. \A g \in Current' : gens'[g].hash = rev' =>
             /\ gens'[g].src[m] \in {None, v}
             /\ ServerOf[m] \in gens'[g].srvs /\ Sourced(g)' => gens'[g].src[m] = v
      <4>1. ASSUME NEW g \in Current', gens'[g].hash = rev', g # ix.g
            PROVE  /\ gens'[g].src[m] \in {None, v}
                   /\ ServerOf[m] \in gens'[g].srvs /\ Sourced(g)' => gens'[g].src[m] = v
        BY <1>5, <1>7, <2>1, <4>1 DEF Agree
      <4>2. ASSUME NEW g \in Current', gens'[g].hash = rev', g = ix.g
            PROVE  gens'[g].src[m] \in {None, v} /\ ~Sourced(g)'
        BY <1>2, <1>5, <1>7, <3>1, <4>2
      <4> QED BY <4>1, <4>2
    <3> QED BY <1>2, <1>3, <1>7, <2>1, <3>2 DEF Agree
  <2> QED BY <1>7, <2>1 DEF FInv, Agreement, Recording
<1>14. Marked'
  BY <1>2, <1>3, <1>5, <1>7 DEF FInv, Marked
<1> QED BY <1>8, <1>9, <1>10, <1>11, <1>12, <1>13, <1>14 DEF FInv

\* What is populated is what the refresh has copied,
LEMMA PopulateDoneFresh ==
    ASSUME IInv, FInv, PopulateDone
    PROVE  FInv'
<1>1. /\ ix.pc = "populate" /\ ix.todo = {} /\ ix' = [ix EXCEPT !.pc = "prep"]
      /\ flawed \ {ix.g} \subseteq flawed'
      /\ UNCHANGED <<cache, up, effective, obs, dirty, marks, rev, config, servers, lost, gens>>
  BY DEF PopulateDone, At
<1>2. /\ ix.g \in DOMAIN gens /\ Cur = gens[ix.g] /\ Cur \in Generations /\ ix \in IxType(Len(gens))
      /\ Refreshing /\ WithStatus("staging") = {ix.g} /\ Cur.hash = ix.hash
  BY <1>1, Populating
<1>3. /\ ix'.pc = "prep" /\ ix'.op = ix.op /\ ix'.g = ix.g /\ ix'.hash = ix.hash
      /\ ix'.before = ix.before /\ ix'.snap = ix.snap /\ ix'.got = ix.got
  BY <1>1, <1>2 DEF IxType
<1>4. /\ \A g : g # ix.g /\ Sourced(g)' => Sourced(g)
      /\ \A st : WithStatus(st)' = WithStatus(st)
      /\ Active' = Active /\ Current' = Current /\ Refreshing'
  BY <1>1, <1>2, <1>3 DEF Sourced, WithStatus, Active, Current, Refreshing
<1>5. Cur.src = ix.snap
  <2>1. Cur.src \in ToolList /\ ix.snap \in ToolList
    BY <1>2 DEF Generations, IxType
  <2>2. \A m \in Members : Cur.src[m] = ix.snap[m]
    BY <1>1, <1>2 DEF FInv, Progress
  <2> QED BY <2>1, <2>2 DEF ToolList
<1>6. Cur.srvs \subseteq ix.got
  BY <1>1, <1>2 DEF FInv, Progress
<1>7. Ordered' /\ Rooted' /\ Scope'
  BY <1>1, <1>3, <1>4 DEF FInv, Ordered, Rooted, Scope, Refreshing
<1>8. Progress'
  <2>1. Cur'.src = ix'.snap
    BY <1>1, <1>2, <1>3, <1>5 DEF Cur
  <2> QED BY <1>1, <1>2, <1>3, <1>4, <2>1 DEF FInv, Progress
<1>9. Stages' /\ Recorded'
  BY <1>1, ObserversStand
<1>10. Agreement'
  <2>1. ASSUME NEW m \in Members, NEW v, Agree(m, v) PROVE Agree(m, v)'
    <3>1. ASSUME NEW g \in Current, gens[g].hash = rev, ServerOf[m] \in gens[g].srvs, Sourced(g)'
          PROVE  gens[g].src[m] = v
      <4>1. CASE g # ix.g
        BY <1>4, <2>1, <3>1, <4>1 DEF Agree
      <4>2. CASE g = ix.g
        BY <1>2, <1>5, <1>6, <2>1, <3>1, <4>2 DEF Agree
      <4> QED BY <4>1, <4>2
    <3> QED BY <1>1, <1>2, <1>3, <1>4, <2>1, <3>1 DEF Agree
  <2> QED BY <1>1, <2>1 DEF FInv, Agreement, Recording
<1>11. Marked'
  <2>1. ASSUME NEW m \in Members, ServerOf[m] \notin lost, obs[ServerOf[m]].pc = "advance",
               dirty[ServerOf[m]] = 0, ServerOf[m] \in gens[ix.g].srvs
        PROVE  gens[ix.g].src[m] = effective[m]
    BY <1>2, <1>5, <1>6, <2>1 DEF FInv, Marked
  <2> QED BY <1>1, <1>2, <1>3, <1>4, <2>1 DEF FInv, Marked
<1> QED BY <1>7, <1>8, <1>9, <1>10, <1>11 DEF FInv

\* and a marker is cleared for what has been rebuilt since it was written.
LEMMA ReconcileDirtyFresh ==
    ASSUME IInv, FInv, NEW s \in Servers, ReconcileDirty(s)
    PROVE  FInv'
<1>1. /\ ix.pc = "clear" /\ ix.before[s] # 0 /\ (s \in servers => s \in ix.got)
      /\ dirty' = [dirty EXCEPT ![s] = ClearDirty(s)] /\ ix' = [ix EXCEPT !.before[s] = 0]
      /\ UNCHANGED <<cache, up, effective, obs, marks, rev, config, servers, lost, flawed, gens>>
  BY DEF ReconcileDirty, At
<1>2. Refreshing /\ ix.pc # "acquire"
  BY <1>1 DEF FInv, Progress
<1>3. /\ ix.g \in DOMAIN gens /\ Cur = gens[ix.g] /\ Cur.status = "staging"
      /\ ix \in IxType(Len(gens)) /\ TypeObs
  <2>1. ix.pc \notin {"idle", "acquire"}
    BY <1>1
  <2> QED BY <2>1, Here
<1>4. /\ ix'.pc = "clear" /\ ix'.op = ix.op /\ ix'.g = ix.g /\ ix'.hash = ix.hash
      /\ ix'.snap = ix.snap /\ ix'.got = ix.got
      /\ \A t \in Servers : ix'.before[t] = IF t = s THEN 0 ELSE ix.before[t]
  BY <1>1, <1>3 DEF IxType
<1>5. \A t \in Servers : dirty'[t] = IF t = s THEN ClearDirty(s) ELSE dirty[t]
  BY <1>1, <1>3 DEF TypeObs
<1>6. /\ \A g : Sourced(g)' <=> Sourced(g)
      /\ \A st : WithStatus(st)' = WithStatus(st)
      /\ Active' = Active /\ Current' = Current /\ Refreshing'
  BY <1>1, <1>2, <1>4 DEF Sourced, WithStatus, Active, Current, Refreshing
<1>7. WithStatus("staging") = {ix.g}
  BY <1>3 DEF WithStatus, IInv, Unique
<1>8. Ordered'
  <2>1. \A t \in Servers : dirty'[t] <= marks /\ ix'.before[t] <= marks
    BY <1>3, <1>4, <1>5 DEF FInv, Ordered, ClearDirty, TypeObs
  <2> QED BY <1>1, <1>4, <1>6, <2>1 DEF FInv, Ordered
<1>9. Rooted' /\ Scope'
  BY <1>1, <1>4, <1>6 DEF FInv, Rooted, Scope, Refreshing
<1>10. Progress'
  <2>1. Cur' = Cur
    BY <1>1, <1>4 DEF Cur
  <2> QED BY <1>1, <1>2, <1>4, <1>6, <2>1 DEF FInv, Progress
<1>11. Stages' /\ Recorded'
  BY <1>1, ObserversStand
<1>12. Agreement'
  <2>1. ASSUME NEW m \in Members, NEW v, Agree(m, v) PROVE Agree(m, v)'
    BY <1>1, <1>2, <1>4, <1>6, <2>1 DEF Agree
  <2> QED BY <1>1, <2>1 DEF FInv, Agreement, Recording
<1>13. Marked'
  <2>1. ASSUME NEW m \in Members, ServerOf[m] \notin lost, obs[ServerOf[m]].pc = "advance"
        PROVE  /\ dirty'[ServerOf[m]] = 0 => \A g \in WithStatus("staging") :
                     ServerOf[m] \in gens[g].srvs /\ Sourced(g) => gens[g].src[m] = effective[m]
               /\ ServerOf[m] \in ix.got
                  /\ (dirty'[ServerOf[m]] = 0 \/ ix'.before[ServerOf[m]] = dirty'[ServerOf[m]])
                     => ix.snap[m] = effective[m]
    <3> DEFINE t == ServerOf[m]
    <3>1. t \in Servers
      BY <2>1, CatalogAssumption
    <3>2. /\ dirty[t] = 0 => \A g \in WithStatus("staging") :
                 t \in gens[g].srvs /\ Sourced(g) => gens[g].src[m] = effective[m]
          /\ t \in ix.got /\ (dirty[t] = 0 \/ ix.before[t] = dirty[t]) => ix.snap[m] = effective[m]
      BY <1>2, <2>1 DEF FInv, Marked
    <3>3. CASE t # s \/ dirty[s] # ix.before[s]
      BY <1>4, <1>5, <3>1, <3>2, <3>3 DEF ClearDirty
    <3>4. CASE t = s /\ dirty[s] = ix.before[s]
      <4>1. gens[ix.g].srvs \subseteq servers /\ gens[ix.g].src = ix.snap
        BY <1>1, <1>2, <1>3, <1>7 DEF FInv, Progress
      <4>2. t \in ix.got => ix.snap[m] = effective[m]
        BY <3>2, <3>4
      <4> QED BY <1>1, <1>7, <3>4, <4>1, <4>2
    <3> QED BY <3>3, <3>4
  <2> QED BY <1>1, <1>4, <1>6, <2>1 DEF Marked
<1> QED BY <1>8, <1>9, <1>10, <1>11, <1>12, <1>13 DEF FInv

-----------------------------------------------------------------------------
(* Promotion, failures, restarts and an empty catalog.                     *)

\* No operation.
LEMMA IdleIs == /\ Idle.pc = "idle" /\ Idle.op = "idle" /\ Idle.hash = 0 /\ Idle.got = {}
                /\ \A s \in Servers : Idle.before[s] = 0
  BY DEF Idle

\* Once an operation has ended,
LEMMA EndedFresh ==
    ASSUME IInv, FInv, ix' = Idle, UNCHANGED <<dirty, marks, rev>>
    PROVE  /\ rev \in Nat /\ marks \in Nat /\ ~Refreshing' /\ Progress'
           /\ ix'.hash <= rev' /\ \A s \in Servers : dirty'[s] <= marks' /\ ix'.before[s] <= marks'
<1>1. rev \in Nat /\ marks \in Nat
  BY TypeParts DEF IInv, TypeObs
<1>2. ~Refreshing' /\ Progress'
  BY IdleIs DEF Refreshing, Progress
<1> QED BY <1>1, <1>2, IdleIs DEF FInv, Ordered

\* there is what it leaves:
LEMMA LeftFresh ==
    ASSUME IInv, FInv, ix' = Idle, UNCHANGED <<gens, dirty, marks, rev>>
    PROVE  /\ Ordered' /\ Rooted' /\ Progress' /\ ~Refreshing'
           /\ \A st : WithStatus(st)' = WithStatus(st)
           /\ Active' = Active /\ Current' = Current
<1>1. /\ \A st : WithStatus(st)' = WithStatus(st)
      /\ Active' = Active /\ Current' = Current
  BY DEF WithStatus, Active, Current
<1> QED BY <1>1, EndedFresh DEF FInv, Ordered, Rooted

\* part of a generation, when populating it was cut off.
LEMMA CutSourced ==
    ASSUME ix' = Idle, flawed' = CutNow
    PROVE  \A g : Sourced(g)' => Sourced(g)
  BY IdleIs DEF CutNow, At, Sourced

\* An error changes no source.
LEMMA FailFresh ==
    ASSUME IInv, FInv, Fail
    PROVE  FInv'
<1>1. /\ ix' = Idle /\ flawed' = CutNow
      /\ UNCHANGED <<cache, up, effective, obs, dirty, marks, rev, config, servers, lost, gens>>
  BY DEF Fail
<1>2. /\ Ordered' /\ Rooted' /\ Progress' /\ ~Refreshing'
      /\ \A st : WithStatus(st)' = WithStatus(st)
      /\ Active' = Active /\ Current' = Current
      /\ \A g : Sourced(g)' => Sourced(g)
  BY <1>1, LeftFresh, CutSourced
<1>3. Scope'
  BY <1>1, <1>2 DEF FInv, Scope
<1>4. Stages' /\ Recorded'
  BY <1>1, ObserversStand
<1>5. Agreement'
  <2>1. ASSUME NEW m \in Members, NEW v, Agree(m, v) PROVE Agree(m, v)'
    BY <1>1, <1>2, <2>1 DEF Agree
  <2> QED BY <1>1, <2>1 DEF FInv, Agreement, Recording
<1>6. Marked'
  BY <1>1, <1>2 DEF FInv, Marked
<1> QED BY <1>2, <1>3, <1>4, <1>5, <1>6 DEF FInv

\* After a restart nobody is connected and nobody records a change.
LEMMA RestartedIs ==
    ASSUME Restarted
    PROVE  /\ up' = {} /\ servers' = config /\ ix' = Idle
           /\ \A s \in Servers : obs'[s].pc = "idle" /\ obs'[s].chg = FALSE
           /\ Stages' /\ Recorded' /\ Marked'
<1>1. /\ up' = {} /\ servers' = config /\ ix' = Idle
      /\ \A s \in Servers : obs'[s].pc = "idle" /\ obs'[s].chg = FALSE
  BY DEF Restarted, IdleObs
<1>2. \A m \in Members : ServerOf[m] \in Servers
  BY CatalogAssumption
<1> QED BY <1>1, <1>2 DEF Stages, Recorded, Recording, Marked

\* A crash loses the changes that were being recorded.
LEMMA CrashFresh ==
    ASSUME IInv, FInv, Crash
    PROVE  FInv'
<1>1. /\ Restarted /\ flawed' = CutNow /\ UNCHANGED <<cache, dirty, marks, rev, config, gens>>
      /\ lost \subseteq lost' /\ \A s \in Servers : s \notin lost' => obs[s].chg # TRUE
      /\ TypeObs
  BY TypeParts DEF Crash, IInv
<1>2. /\ up' = {} /\ servers' = config /\ ix' = Idle
      /\ \A s \in Servers : obs'[s].pc = "idle" /\ obs'[s].chg = FALSE
      /\ Stages' /\ Recorded' /\ Marked'
  BY <1>1, RestartedIs
<1>3. /\ Ordered' /\ Rooted' /\ Progress' /\ ~Refreshing'
      /\ \A st : WithStatus(st)' = WithStatus(st)
      /\ Active' = Active /\ Current' = Current
      /\ \A g : Sourced(g)' => Sourced(g)
  BY <1>1, <1>2, LeftFresh, CutSourced
<1>4. Scope'
  BY <1>1, <1>2, <1>3 DEF FInv, Scope
<1>5. Agreement'
  <2>1. ASSUME NEW m \in Members, ServerOf[m] \notin lost'
        PROVE  \E v \in Contracts \cup {None} : Agree(m, v)'
    <3>1. ServerOf[m] \in Servers /\ obs[ServerOf[m]].chg = FALSE
      BY <1>1, <2>1, CatalogAssumption DEF TypeObs, ObsType
    <3>2. PICK v \in Contracts \cup {None} : Agree(m, v)
      BY <1>1, <2>1, <3>1 DEF FInv, Agreement, Stages, Recording
    <3>3. Agree(m, v)'
      BY <1>1, <1>2, <1>3, <3>1, <3>2 DEF Agree
    <3> QED BY <3>3
  <2> QED BY <2>1 DEF Agreement
<1> QED BY <1>2, <1>3, <1>4, <1>5 DEF FInv

\* An empty catalog disagrees with nobody.
LEMMA EmptyFresh ==
    ASSUME IInv', gens' = <<>>, ix' = Idle, \A m \in Members : cache'[m].c = None,
           \A s \in Servers : dirty'[s] = 0, up' \subseteq config',
           \A s \in Servers \ lost' : obs'[s].pc = "idle" /\ obs'[s].chg = FALSE,
           Stages'
    PROVE  FInv'
<1>1. DOMAIN gens' = {}
  OBVIOUS
<1>2. WithStatus("staging")' = {} /\ Active' = {} /\ Current' = {} /\ ~Refreshing'
  BY <1>1, IdleIs DEF WithStatus, Active, Current, Refreshing
<1>3. rev' \in Nat /\ marks' \in Nat /\ effective' \in ToolList
  BY TypePartsPrime DEF IInv, TypeObs
<1>4. Ordered'
  BY <1>1, <1>2, <1>3, IdleIs DEF Ordered
<1>5. Rooted' /\ Scope' /\ Progress'
  BY <1>1, <1>2, IdleIs DEF Rooted, Scope, Progress
<1>6. \A m \in Members : ServerOf[m] \in Servers
  BY CatalogAssumption
<1>7. Recorded' /\ Marked'
  BY <1>6 DEF Recorded, Recording, Marked
<1>8. Agreement'
  <2>1. ASSUME NEW m \in Members, ServerOf[m] \notin lost'
        PROVE  \E v \in Contracts \cup {None} : Agree(m, v)'
    <3>1. effective'[m] \in Contracts \cup {None} /\ Agree(m, effective[m])'
      BY <1>2, <1>3, <1>6, <2>1 DEF Agree, ToolList
    <3> QED BY <3>1
  <2> QED BY <2>1 DEF Agreement
<1> QED BY <1>4, <1>5, <1>7, <1>8 DEF FInv

\* Clear makes it so,
LEMMA ClearFresh ==
    ASSUME IInv, IInv', FInv, Clear
    PROVE  FInv'
<1>1. /\ gens' = <<>> /\ ix' = Idle /\ UNCHANGED <<up, effective, obs, config>>
      /\ cache' = [m \in Members |-> [c |-> None, avail |-> FALSE]]
      /\ dirty' = [s \in Servers |-> 0]
      /\ lost' = lost \cup {s \in Servers : obs[s].pc # "idle"}
  BY DEF Clear
<1>2. \A s \in Servers \ lost' : obs'[s].pc = "idle" /\ obs'[s].chg = FALSE
  BY <1>1 DEF FInv, Stages
<1>3. Stages' /\ up' \subseteq config'
  BY <1>1 DEF FInv, Stages, Recording, Scope
<1>4. (\A m \in Members : cache'[m].c = None) /\ \A s \in Servers : dirty'[s] = 0
  BY <1>1
<1> QED BY <1>1, <1>2, <1>3, <1>4, EmptyFresh

\* so does a restart with a corrupt database.
LEMMA OpenCorruptFresh ==
    ASSUME IInv', OpenCorrupt
    PROVE  FInv'
<1>1. /\ Restarted /\ gens' = <<>>
      /\ cache' = [m \in Members |-> [c |-> None, avail |-> FALSE]]
      /\ dirty' = [s \in Servers |-> 0]
  BY DEF OpenCorrupt
<1>2. /\ up' = {} /\ ix' = Idle /\ Stages'
      /\ \A s \in Servers : obs'[s].pc = "idle" /\ obs'[s].chg = FALSE
  BY <1>1, RestartedIs
<1>3. (\A m \in Members : cache'[m].c = None) /\ \A s \in Servers : dirty'[s] = 0
  BY <1>1
<1> QED BY <1>1, <1>2, <1>3, EmptyFresh

\* The promoted generation has the sources it was built with.
LEMMA PromoteFresh ==
    ASSUME IInv, FInv, Promote
    PROVE  FInv'
<1>1. /\ ix.pc = "promote" /\ ix' = Idle /\ UNCHANGED outVars /\ flawed' = flawed
      /\ ix.g \in DOMAIN gens /\ gens[ix.g].status = "staging" /\ DOMAIN gens' = DOMAIN gens
      /\ gens'[ix.g] = [gens[ix.g] EXCEPT !.status = "active"]
      /\ \A g \in DOMAIN gens \ {ix.g} :
           gens'[g] = IF gens[g].status = "active" THEN Superseded ELSE gens[g]
      /\ WithStatus("staging")' = {}
  BY PromoteKeeps
<1>2. gens[ix.g] \in Generations
  BY <1>1, Here
<1>3. UNCHANGED <<cache, up, effective, obs, dirty, marks, rev, config, servers, lost>>
  BY <1>1 DEF outVars
<1>4. /\ rev \in Nat /\ ~Refreshing' /\ Progress'
      /\ ix'.hash <= rev' /\ \A s \in Servers : dirty'[s] <= marks' /\ ix'.before[s] <= marks'
  BY <1>1, <1>3, EndedFresh
<1>5. /\ gens'[ix.g].hash = gens[ix.g].hash /\ gens'[ix.g].src = gens[ix.g].src
      /\ gens'[ix.g].srvs = gens[ix.g].srvs
  BY <1>1, <1>2 DEF Generations
<1>6. /\ Current' \subseteq Current
      /\ \A g \in Current' : gens'[g].hash = gens[g].hash /\ gens'[g].src = gens[g].src
                             /\ gens'[g].srvs = gens[g].srvs
  BY <1>1, <1>5, EmptyRows DEF Current
<1>7. \A g : Sourced(g)' <=> Sourced(g)
  BY <1>1, IdleIs DEF Sourced
<1> DEFINE Kept(g) == /\ gens'[g].hash = gens[g].hash /\ gens'[g].src = gens[g].src
                      /\ gens'[g].srvs = gens[g].srvs
<1>14. \A g \in DOMAIN gens : Kept(g) \/ (gens'[g].hash = 0 /\ gens'[g].src = NoTools)
  BY <1>1, <1>5, EmptyRows
<1>8. Ordered'
  <2>1. \A g \in DOMAIN gens' : gens'[g].hash <= rev
    BY <1>1, <1>4, <1>14 DEF FInv, Ordered
  <2> QED BY <1>1, <1>3, <1>4, <2>1 DEF Ordered
<1>9. Rooted'
  BY <1>1, <1>14 DEF FInv, Rooted, NoTools
<1>10. Scope'
  BY <1>3, <1>4, <1>6 DEF FInv, Scope
<1>11. Stages' /\ Recorded'
  BY <1>3, ObserversStand
<1>12. Agreement'
  <2>1. ASSUME NEW m \in Members, NEW v, Agree(m, v) PROVE Agree(m, v)'
    BY <1>3, <1>4, <1>6, <1>7, <2>1 DEF Agree
  <2> QED BY <1>3, <2>1 DEF FInv, Agreement, Recording
<1>13. Marked'
  BY <1>1, <1>3, <1>4 DEF Marked
<1> QED BY <1>4, <1>8, <1>9, <1>10, <1>11, <1>12, <1>13 DEF FInv

-----------------------------------------------------------------------------
(* Observers, sessions and the configuration.                              *)

\* A generation stays what it is while these step,
LEMMA OutsideSame ==
    ASSUME UNCHANGED <<gens, ix, flawed>>
    PROVE  /\ \A st : WithStatus(st)' = WithStatus(st)
           /\ Active' = Active /\ Current' = Current /\ Refreshing' = Refreshing
           /\ \A g : Sourced(g)' <=> Sourced(g)
  BY DEF WithStatus, Active, Current, Refreshing, Sourced

\* and so does the refresh;
LEMMA OutsideKeeps ==
    ASSUME FInv, UNCHANGED <<gens, ix, flawed, servers, rev>>
    PROVE  /\ Rooted' /\ Progress'
           /\ UNCHANGED <<dirty, marks>> => Ordered'
           /\ UNCHANGED config /\ up' \subseteq config => Scope'
<1>1. /\ \A st : WithStatus(st)' = WithStatus(st)
      /\ Active' = Active /\ Current' = Current /\ Refreshing' = Refreshing
      /\ \A g : Sourced(g)' <=> Sourced(g)
  BY OutsideSame
<1>2. Rooted'
  BY DEF FInv, Rooted
<1>3. Progress'
  <2>1. Cur' = Cur
    BY DEF Cur
  <2> QED BY <1>1, <2>1 DEF FInv, Progress
<1>4. UNCHANGED <<dirty, marks>> => Ordered'
  BY <1>1 DEF FInv, Ordered
<1>5. UNCHANGED config /\ up' \subseteq config => Scope'
  BY <1>1 DEF FInv, Scope
<1> QED BY <1>2, <1>3, <1>4, <1>5

\* but a new revision makes every one of them stale.
LEMMA RevisionKeeps ==
    ASSUME IInv, FInv, UNCHANGED <<gens, ix, flawed, servers, dirty, marks>>, rev' = rev + 1,
           up' \subseteq config'
    PROVE  /\ Ordered' /\ Rooted' /\ Scope' /\ Progress'
           /\ \A g \in Current' : gens'[g].hash # rev' /\ ix'.hash # rev'
           /\ ix'.hash # rev'
<1>1. /\ \A st : WithStatus(st)' = WithStatus(st)
      /\ Active' = Active /\ Current' = Current /\ Refreshing' = Refreshing
      /\ \A g : Sourced(g)' <=> Sourced(g)
  BY OutsideSame
<1>2. /\ rev \in Nat /\ ix.hash \in Nat /\ ix.hash <= rev
      /\ \A g \in DOMAIN gens : gens[g].hash \in Nat /\ gens[g].hash <= rev
  BY TypeParts, GensIsSeq DEF IInv, TypeObs, TypeRows, TypeIx, IxType, Generations, FInv, Ordered
<1>3. ix'.hash # rev' /\ \A g \in DOMAIN gens : gens'[g].hash # rev'
  BY <1>2
<1>4. Current \subseteq DOMAIN gens
  BY DEF Current
<1>5. Rooted'
  BY DEF FInv, Rooted
<1>6. Progress'
  <2>1. Cur' = Cur
    BY DEF Cur
  <2> QED BY <1>1, <2>1 DEF FInv, Progress
<1>7. Ordered'
  <2>1. ix'.hash <= rev' /\ \A g \in DOMAIN gens' : gens'[g].hash <= rev'
    BY <1>2
  <2> QED BY <1>1, <2>1 DEF FInv, Ordered
<1>8. Scope'
  BY <1>1, <1>3, <1>4 DEF Scope
<1> QED BY <1>1, <1>3, <1>4, <1>5, <1>6, <1>7, <1>8

\* What a generation that is alone in its status has of a tool.
LEMMA AuthoritativeIs ==
    ASSUME IInv, NEW m \in Members, NEW st \in {"staging", "active"}
    PROVE  /\ \A g \in WithStatus(st) : Authoritative(st, m) = gens[g].src[m]
           /\ WithStatus(st) = {} => Authoritative(st, m) = None
<1> DEFINE G == {g \in WithStatus(st) : gens[g].src[m] # None}
<1>1. Authoritative(st, m) = IF G = {} THEN None ELSE gens[Newest(G)].src[m]
  BY DEF Authoritative
<1>2. \A g, h \in WithStatus(st) : g = h
  BY DEF IInv, Unique, Active, WithStatus
<1>3. ASSUME G # {} PROVE Newest(G) \in G
  <2>1. DOMAIN gens = 1 .. Len(gens) /\ Len(gens) \in Nat
    BY TypeParts, GensIsSeq DEF IInv, TypeRows
  <2>2. G \subseteq 0 .. Len(gens)
    BY <2>1 DEF WithStatus
  <2> HIDE DEF G
  <2> QED BY <1>3, <2>1, <2>2, NewestIsIn
<1>4. \A g \in WithStatus(st) : Authoritative(st, m) = gens[g].src[m]
  BY <1>1, <1>2, <1>3
<1> QED BY <1>1, <1>4

\* A tool whose active contract is the current revision's keeps it in the
\* cache, unless its meaning has changed,
LEMMA ObservedKeeps ==
    ASSUME IInv, FInv, NEW s \in Servers, NEW tools \in ToolList, NEW m \in ToolsOf(s),
           NEW v \in Contracts \cup {None}, NEW g \in Active, gens[g].hash = rev, Agree(m, v),
           obs[s].chg = FALSE, ~SemanticChanged(s, tools)
    PROVE  /\ gens[g].src[m] \in {None, Observed(s, tools)[m].c}
           /\ s \in gens[g].srvs /\ Sourced(g) => gens[g].src[m] = Observed(s, tools)[m].c
<1>1. /\ m \in Members /\ ServerOf[m] = s /\ TypeObs /\ TypeRows /\ rev \in Nat
      /\ DOMAIN gens = 1 .. Len(gens) /\ \A h \in DOMAIN gens : gens[h] \in Generations
  BY TypeParts, GensIsSeq DEF ToolsOf, IInv, TypeObs
<1>2. g \in Current /\ g \in WithStatus("active") /\ g \in DOMAIN gens
  BY DEF Active, WithStatus, Current
<1>3. gens[g].src[m] \in {None, v} /\ (s \in gens[g].srvs /\ Sourced(g) => gens[g].src[m] = v)
  BY <1>1, <1>2 DEF Agree
<1>4. Authoritative("active", m) = gens[g].src[m]
  BY <1>1, <1>2, AuthoritativeIs
<1>5. Authoritative("staging", m) \in {None, v}
  <2>1. CASE WithStatus("staging") = {}
    BY <1>1, <2>1, AuthoritativeIs
  <2>2. ASSUME NEW h \in WithStatus("staging") PROVE Authoritative("staging", m) \in {None, v}
    <3>1. h \in Current /\ h \in DOMAIN gens /\ Authoritative("staging", m) = gens[h].src[m]
      BY <1>1, AuthoritativeIs DEF WithStatus, Current
    <3>2. gens[h].hash = rev
      <4>1. gens[h].hash <= rev /\ rev <= gens[h].hash /\ gens[h].hash \in Nat
        BY <1>1, <3>1 DEF FInv, Ordered, Generations
      <4> QED BY <1>1, <4>1
    <3> QED BY <3>1, <3>2 DEF Agree
  <2> QED BY <2>1, <2>2
<1>6. cache[m].c \in {None, v}
  BY <1>1 DEF Agree
<1>7. Seeded(m).c = IF cache[m].c # None THEN cache[m].c
                    ELSE IF Authoritative("staging", m) # None THEN Authoritative("staging", m)
                    ELSE Authoritative("active", m)
  BY DEF Seeded
<1>8. Observed(s, tools)[m].c = IF tools[m] # None THEN Canonical(m, tools[m]) ELSE Seeded(m).c
  <2>1. Seeded(m) \in [c : Contracts \cup {None}, avail : BOOLEAN]
    BY <1>1, AuthoritativeType DEF Seeded, TypeObs
  <2> QED BY <1>1, <2>1 DEF Observed
<1>9. s \in gens[g].srvs => Baseline(s)
  BY DEF Baseline
<1>10. tools[m] # None /\ Baseline(s) => MatchesAuthoritative(m, tools[m]) \/ SameSem(Seeded(m).c, tools[m])
  BY <1>1 DEF SemanticChanged
<1>11. CASE gens[g].src[m] # None
  <2>1. s \in gens[g].srvs /\ gens[g].src[m] = v /\ v # None
    BY <1>1, <1>2, <1>3, <1>11 DEF FInv, Rooted
  <2>2. Seeded(m).c = v
    BY <1>4, <1>5, <1>6, <1>7, <2>1
  <2>3. tools[m] # None => SameSem(v, tools[m])
    BY <1>4, <1>5, <1>9, <1>10, <2>1, <2>2 DEF MatchesAuthoritative, SameSem
  <2>4. tools[m] # None => Canonical(m, tools[m]) = v
    BY <1>4, <2>1, <2>3 DEF Canonical
  <2> QED BY <1>8, <2>1, <2>2, <2>4
<1>12. CASE gens[g].src[m] = None
  <2>1. ASSUME s \in gens[g].srvs, Sourced(g) PROVE Observed(s, tools)[m].c = None
    <3>1. v = None
      BY <1>3, <1>12, <2>1
    <3>2. Seeded(m).c = None
      BY <1>4, <1>5, <1>6, <1>7, <1>12, <3>1
    <3>3. tools[m] = None
      BY <1>4, <1>5, <1>9, <1>10, <1>12, <2>1, <3>1, <3>2 DEF MatchesAuthoritative, SameSem
    <3> QED BY <1>8, <3>2, <3>3
  <2> QED BY <1>12, <2>1
<1> QED BY <1>11, <1>12

\* so that what is observed without a change is what everybody holds.
LEMMA ObservedAgrees ==
    ASSUME IInv, FInv, NEW s \in Servers, NEW conn \in BOOLEAN, Observe(s, conn),
           NEW m \in ToolsOf(s), s \notin lost'
    PROVE  \E w \in Contracts \cup {None} : Agree(m, w)'
<1> DEFINE tools == Over(NoTools, s, live)
           chg == SemanticChanged(s, tools)
           c == Observed(s, tools)[m].c
<1>1. /\ UNCHANGED <<gens, ix, flawed, rev, up, effective>>
      /\ obs[s].pc = "idle" /\ (IF conn THEN s \notin up ELSE s \in up)
      /\ cache' = Observed(s, tools)
      /\ obs' = [obs EXCEPT ![s] =
            IF conn \/ chg THEN [pc |-> "read", conn |-> conn, chg |-> chg, at |-> tools] ELSE IdleObs]
      /\ s \notin lost /\ (~chg => ~Unnoticed(m, conn, c))
  BY DEF Observe
<1>2. TypeObs /\ TypeRows /\ m \in Members /\ ServerOf[m] = s
  BY TypeParts DEF IInv, ToolsOf
<1>3. tools \in ToolList /\ chg \in BOOLEAN
  BY <1>2, NoToolsType, OverType DEF TypeObs, SemanticChanged
<1>4. c \in Contracts \cup {None} /\ cache'[m].c = c
  BY <1>1, <1>2, <1>3, CacheType
<1> HIDE DEF tools, chg, c
<1>5. obs[s].chg = FALSE /\ obs[s].pc = "idle"
  BY <1>1 DEF FInv, Stages
<1>6. PICK v \in Contracts \cup {None} : Agree(m, v)
  BY <1>1, <1>2, <1>5 DEF FInv, Agreement, Recording
<1>7. /\ Current' = Current /\ Refreshing' = Refreshing /\ \A g : Sourced(g)' <=> Sourced(g)
  BY <1>1, OutsideSame
<1>8. obs'[s] = IF conn \/ chg THEN [pc |-> "read", conn |-> conn, chg |-> chg, at |-> tools] ELSE IdleObs
  BY <1>1, <1>2 DEF TypeObs
<1>9. CASE chg
  <2>1. obs'[s].chg = TRUE
    BY <1>3, <1>8, <1>9
  <2>2. Agree(m, v)'
    BY <1>1, <1>2, <1>6, <1>7, <2>1 DEF Agree
  <2> QED BY <2>2
<1>10. CASE ~chg /\ ~conn
  <2>1. effective[m] = c /\ effective[m] = v
    BY <1>1, <1>2, <1>6, <1>10 DEF Unnoticed, Agree
  <2>2. Agree(m, v)'
    BY <1>1, <1>2, <1>4, <1>6, <1>7, <2>1 DEF Agree
  <2> QED BY <2>2
<1>11. CASE ~chg /\ conn
  <2>1. /\ s \notin up /\ (s \in ix.got => ix.snap[m] = c)
        /\ \A g \in WithStatus("staging") :
              gens[g].src[m] \in {None, c} /\ (s \in gens[g].srvs /\ Sourced(g) => gens[g].src[m] = c)
    BY <1>1, <1>2, <1>11 DEF Unnoticed
  <2>2. ASSUME NEW g \in Active, gens[g].hash = rev
        PROVE  gens[g].src[m] \in {None, c} /\ (s \in gens[g].srvs /\ Sourced(g) => gens[g].src[m] = c)
    BY <1>3, <1>5, <1>6, <1>11, <2>2, ObservedKeeps DEF chg, c
  <2>3. \A g \in Current : g \in Active \/ g \in WithStatus("staging")
    <3>1. \A g \in DOMAIN gens : gens[g].status \in {"staging", "active", "superseded"}
      BY <1>2, GensIsSeq DEF TypeRows, Generations
    <3> QED BY <3>1 DEF Current, Active, WithStatus
  <2>4. PICK w \in Contracts \cup {None} : w = c
    BY <1>4
  <2>5. \A g \in Current : gens[g].hash = rev =>
           gens[g].src[m] \in {None, w} /\ (s \in gens[g].srvs /\ Sourced(g) => gens[g].src[m] = w)
    BY <2>1, <2>2, <2>3, <2>4
  <2>6. Agree(m, w)'
    BY <1>1, <1>2, <1>4, <1>7, <2>1, <2>4, <2>5 DEF Agree
  <2> QED BY <2>6
<1> QED BY <1>9, <1>10, <1>11

\* An observation is agreed on, or on its way to be recorded.
LEMMA ObserveFresh ==
    ASSUME IInv, FInv, NEW s \in Servers, NEW conn \in BOOLEAN, Observe(s, conn)
    PROVE  FInv'
<1> DEFINE tools == Over(NoTools, s, live)
           chg == SemanticChanged(s, tools)
<1>1. /\ UNCHANGED <<gens, ix, flawed, rev, up, effective, dirty, marks, config, servers>>
      /\ obs[s].pc = "idle" /\ (conn => s \notin up)
      /\ cache' = Observed(s, tools)
      /\ obs' = [obs EXCEPT ![s] =
            IF conn \/ chg THEN [pc |-> "read", conn |-> conn, chg |-> chg, at |-> tools] ELSE IdleObs]
      /\ lost' \in {lost, lost \cup {s}}
  BY DEF Observe
<1>2. TypeObs /\ chg \in BOOLEAN
  BY TypeParts DEF IInv, SemanticChanged
<1>3. \A m \in Members : ServerOf[m] # s => cache'[m] = cache[m]
  BY <1>1 DEF Observed
<1> HIDE DEF tools, chg
<1>4. /\ obs'[s] = IF conn \/ chg THEN [pc |-> "read", conn |-> conn, chg |-> chg, at |-> tools] ELSE IdleObs
      /\ \A t \in Servers \ {s} : obs'[t] = obs[t]
  BY <1>1, <1>2 DEF TypeObs
<1>5. /\ obs'[s].pc \in {"idle", "read"} /\ (obs'[s].pc = "idle" => obs'[s].chg = FALSE)
      /\ (obs'[s].pc = "read" => obs'[s].conn = conn /\ (conn = TRUE \/ obs'[s].chg = TRUE))
  <2>1. conn = TRUE \/ conn = FALSE
    OBVIOUS
  <2>2. CASE conn = TRUE
    BY <1>4, <2>2
  <2>3. CASE conn = FALSE /\ chg = TRUE
    BY <1>4, <2>3
  <2>4. CASE conn = FALSE /\ chg = FALSE
    <3>1. obs'[s] = IdleObs
      BY <1>4, <2>4
    <3> QED BY <3>1 DEF IdleObs
  <2> QED BY <1>2, <2>1, <2>2, <2>3, <2>4
<1>6. /\ \A st : WithStatus(st)' = WithStatus(st)
      /\ Active' = Active /\ Current' = Current /\ Refreshing' = Refreshing
      /\ \A g : Sourced(g)' <=> Sourced(g)
  BY <1>1, OutsideSame
<1>7. \A m \in Members : ServerOf[m] \in Servers
  BY CatalogAssumption
<1>8. Ordered' /\ Rooted' /\ Scope' /\ Progress'
  <2>1. up' \subseteq config
    BY <1>1 DEF FInv, Scope
  <2> QED BY <1>1, <2>1, OutsideKeeps
<1>9. Stages'
  BY <1>1, <1>4, <1>5 DEF FInv, Stages, Recording
<1>10. Recorded'
  BY <1>1, <1>3, <1>4, <1>5, <1>7 DEF FInv, Recorded, Recording
<1>11. Agreement'
  <2>1. ASSUME NEW m \in Members, ServerOf[m] \notin lost', ~Recording(ServerOf[m])'
        PROVE  \E v \in Contracts \cup {None} : Agree(m, v)'
    <3>1. CASE ServerOf[m] = s
      BY <2>1, <3>1, ObservedAgrees DEF ToolsOf
    <3>2. CASE ServerOf[m] # s
      <4>1. obs'[ServerOf[m]] = obs[ServerOf[m]] /\ cache'[m] = cache[m] /\ ServerOf[m] \notin lost
        BY <1>1, <1>3, <1>4, <1>7, <2>1, <3>2
      <4>2. PICK v \in Contracts \cup {None} : Agree(m, v)
        BY <2>1, <4>1 DEF FInv, Agreement, Recording
      <4>3. Agree(m, v)'
        BY <1>1, <1>6, <4>1, <4>2 DEF Agree
      <4> QED BY <4>3
    <3> QED BY <3>1, <3>2
  <2> QED BY <2>1 DEF Agreement
<1>12. Marked'
  BY <1>1, <1>4, <1>5, <1>6, <1>7 DEF FInv, Marked
<1> QED BY <1>8, <1>9, <1>10, <1>11, <1>12 DEF FInv

\* A session is used once the cache it shares has been read,
LEMMA ReadEffectiveFresh ==
    ASSUME IInv, FInv, NEW s \in Servers, ReadEffective(s)
    PROVE  FInv'
<1>1. /\ UNCHANGED <<gens, ix, flawed, rev, dirty, marks, config, servers, cache, lost>>
      /\ obs[s].pc = "read" /\ effective' = Over(effective, s, [m \in Members |-> cache[m].c])
      /\ IF obs[s].chg THEN obs' = [obs EXCEPT ![s].pc = "mark"] /\ UNCHANGED up
         ELSE obs' = [obs EXCEPT ![s] = IdleObs] /\ up' = up \cup ({s} \cap config)
  BY DEF ReadEffective, Finished
<1>2. TypeObs /\ obs[s] \in ObsType
  BY TypeParts DEF IInv, TypeObs
<1>3. \A m \in Members : effective'[m] = IF ServerOf[m] = s THEN cache[m].c ELSE effective[m]
  BY <1>1 DEF Over
<1>4. /\ \A st : WithStatus(st)' = WithStatus(st)
      /\ Active' = Active /\ Current' = Current /\ Refreshing' = Refreshing
      /\ \A g : Sourced(g)' <=> Sourced(g)
  BY <1>1, OutsideSame
<1>5. \A m \in Members : ServerOf[m] \in Servers
  BY CatalogAssumption
<1>6. up' \subseteq config /\ \A t \in Servers \ {s} : obs'[t] = obs[t] /\ (t \in up' <=> t \in up)
  BY <1>1, <1>2 DEF FInv, Scope, TypeObs
<1>7. Ordered' /\ Rooted' /\ Scope' /\ Progress'
  BY <1>1, <1>6, OutsideKeeps
<1>8. CASE obs[s].chg = TRUE
  <2>1. obs'[s].pc = "mark" /\ obs'[s].chg = TRUE /\ obs'[s].conn = obs[s].conn /\ up' = up
    BY <1>1, <1>2, <1>8 DEF ObsType, TypeObs
  <2>2. Stages'
    BY <1>1, <1>6, <2>1 DEF FInv, Stages, Recording
  <2>3. Recorded'
    BY <1>1, <1>3, <1>5, <1>6 DEF FInv, Recorded, Recording
  <2>4. Agreement'
    <3>1. ASSUME NEW m \in Members, ServerOf[m] \notin lost', ~Recording(ServerOf[m])'
          PROVE  \E v \in Contracts \cup {None} : Agree(m, v)'
      <4>1. ServerOf[m] # s
        BY <2>1, <3>1 DEF Recording
      <4>2. PICK v \in Contracts \cup {None} : Agree(m, v)
        BY <1>1, <1>5, <1>6, <3>1, <4>1 DEF FInv, Agreement, Recording
      <4>3. Agree(m, v)'
        BY <1>1, <1>3, <1>4, <1>5, <1>6, <4>1, <4>2 DEF Agree
      <4> QED BY <4>3
    <3> QED BY <3>1 DEF Agreement
  <2>5. Marked'
    BY <1>1, <1>3, <1>4, <1>5, <1>6, <2>1 DEF FInv, Marked
  <2> QED BY <1>7, <2>2, <2>3, <2>4, <2>5 DEF FInv
<1>9. CASE obs[s].chg = FALSE
  <2>1. obs'[s].pc = "idle" /\ obs'[s].chg = FALSE /\ obs'[s].conn = FALSE
    BY <1>1, <1>2, <1>9 DEF IdleObs, TypeObs
  <2>2. Stages'
    BY <1>1, <1>6, <2>1 DEF FInv, Stages, Recording
  <2>3. Recorded'
    BY <1>1, <1>3, <1>5, <1>6 DEF FInv, Recorded, Recording
  <2>4. Agreement'
    <3>1. ASSUME NEW m \in Members, ServerOf[m] \notin lost', ~Recording(ServerOf[m])'
          PROVE  \E v \in Contracts \cup {None} : Agree(m, v)'
      <4>1. ~Recording(ServerOf[m])
        BY <1>1, <1>5, <1>6, <3>1 DEF Recording
      <4>2. PICK v \in Contracts \cup {None} : Agree(m, v)
        BY <1>1, <3>1, <4>1 DEF FInv, Agreement
      <4>3. CASE ServerOf[m] = s
        <5>1. Agree(m, v)'
          BY <1>1, <1>3, <1>4, <1>9, <2>1, <4>2, <4>3 DEF Agree
        <5> QED BY <5>1
      <4>4. CASE ServerOf[m] # s
        <5>1. Agree(m, v)'
          BY <1>1, <1>3, <1>4, <1>5, <1>6, <4>2, <4>4 DEF Agree
        <5> QED BY <5>1
      <4> QED BY <4>3, <4>4
    <3> QED BY <3>1 DEF Agreement
  <2>5. Marked'
    BY <1>1, <1>3, <1>4, <1>5, <1>6, <2>1 DEF FInv, Marked
  <2> QED BY <1>7, <2>2, <2>3, <2>4, <2>5 DEF FInv
<1> QED BY <1>2, <1>8, <1>9 DEF ObsType

\* A new marker is older than no refresh that could clear it.
LEMMA MarkIs ==
    ASSUME IInv, FInv, NEW s \in Servers, Mark(s), UNCHANGED <<gens, ix, flawed, rev>>
    PROVE  /\ Ordered' /\ dirty'[s] # 0 /\ ix.before[s] # dirty'[s]
           /\ \A t \in Servers \ {s} : dirty'[t] = dirty[t]
<1>1. TypeObs /\ ix \in IxType(Len(gens))
  BY TypeParts DEF IInv, TypeIx
<1>2. marks' = marks + 1 /\ dirty'[s] = marks + 1 /\ \A t \in Servers \ {s} : dirty'[t] = dirty[t]
  BY <1>1 DEF Mark, TypeObs
<1>3. marks \in Nat /\ \A t \in Servers : dirty[t] \in Nat /\ ix.before[t] \in Nat
  BY <1>1 DEF TypeObs, IxType
<1>4. \A t \in Servers : dirty'[t] <= marks' /\ ix.before[t] <= marks
  BY <1>2, <1>3 DEF FInv, Ordered
<1>5. Ordered'
  <2>1. WithStatus("staging")' = WithStatus("staging") /\ Active' = Active
    BY OutsideSame
  <2>2. \A t \in Servers : ix'.before[t] <= marks'
    BY <1>2, <1>3, <1>4
  <2> QED BY <1>4, <2>1, <2>2 DEF FInv, Ordered
<1> QED BY <1>2, <1>3, <1>4, <1>5

\* A change is marked,
LEMMA ObserverMarkFresh ==
    ASSUME IInv, FInv, NEW s \in Servers, ObserverMark(s)
    PROVE  FInv'
<1>1. /\ UNCHANGED <<gens, ix, flawed, rev, config, servers, cache, lost, up, effective>>
      /\ obs[s].pc = "mark" /\ Mark(s) /\ obs' = [obs EXCEPT ![s].pc = "advance"]
  BY DEF ObserverMark
<1>2. TypeObs
  BY TypeParts DEF IInv
<1>3. /\ obs'[s].pc = "advance" /\ obs'[s].chg = obs[s].chg /\ obs'[s].conn = obs[s].conn
      /\ \A t \in Servers \ {s} : obs'[t] = obs[t]
  BY <1>1, <1>2 DEF TypeObs, ObsType
<1>4. /\ Ordered' /\ dirty'[s] # 0 /\ ix.before[s] # dirty'[s]
      /\ \A t \in Servers \ {s} : dirty'[t] = dirty[t]
  BY <1>1, MarkIs
<1>5. /\ \A st : WithStatus(st)' = WithStatus(st)
      /\ Active' = Active /\ Current' = Current /\ Refreshing' = Refreshing
      /\ \A g : Sourced(g)' <=> Sourced(g)
  BY <1>1, OutsideSame
<1>6. \A m \in Members : ServerOf[m] \in Servers
  BY CatalogAssumption
<1>7. Rooted' /\ Scope' /\ Progress'
  <2>1. up' \subseteq config
    BY <1>1 DEF FInv, Scope
  <2> QED BY <1>1, <2>1, OutsideKeeps
<1>8. \A t \in Servers : Recording(t)' <=> Recording(t)
  BY <1>1, <1>3 DEF Recording
<1>9. Stages' /\ Recorded'
  BY <1>1, <1>3, <1>6, <1>8 DEF FInv, Stages, Recorded, Recording
<1>10. Agreement'
  <2>1. ASSUME NEW m \in Members, NEW v, ~Recording(ServerOf[m])', Agree(m, v) PROVE Agree(m, v)'
    <3>1. ServerOf[m] # s
      BY <1>3, <2>1 DEF Recording
    <3> QED BY <1>1, <1>3, <1>5, <1>6, <2>1, <3>1 DEF Agree
  <2> QED BY <1>1, <1>6, <1>8, <2>1 DEF FInv, Agreement
<1>11. Marked'
  BY <1>1, <1>3, <1>4, <1>5, <1>6 DEF FInv, Marked
<1> QED BY <1>4, <1>7, <1>9, <1>10, <1>11 DEF FInv

\* and then makes every generation stale.
LEMMA ObserverAdvanceFresh ==
    ASSUME IInv, FInv, NEW s \in Servers, ObserverAdvance(s)
    PROVE  FInv'
<1>1. /\ UNCHANGED <<gens, ix, flawed, dirty, marks, config, servers, cache, lost, effective>>
      /\ obs[s].pc = "advance" /\ rev' = rev + 1
      /\ obs' = [obs EXCEPT ![s] = IdleObs] /\ up' = up \cup ({s} \cap config)
  BY DEF ObserverAdvance, Finished
<1>2. TypeObs
  BY TypeParts DEF IInv
<1>3. /\ obs'[s].pc = "idle" /\ obs'[s].chg = FALSE /\ obs'[s].conn = FALSE
      /\ \A t \in Servers \ {s} : obs'[t] = obs[t] /\ (t \in up' <=> t \in up)
      /\ up' \subseteq config
  BY <1>1, <1>2 DEF TypeObs, IdleObs, FInv, Scope
<1>4. /\ Ordered' /\ Rooted' /\ Scope' /\ Progress' /\ ix'.hash # rev'
      /\ \A g \in Current' : gens'[g].hash # rev'
  BY <1>1, <1>3, RevisionKeeps
<1>5. /\ \A st : WithStatus(st)' = WithStatus(st)
      /\ Refreshing' = Refreshing /\ \A g : Sourced(g)' <=> Sourced(g)
  BY <1>1, OutsideSame
<1>6. \A m \in Members : ServerOf[m] \in Servers
  BY CatalogAssumption
<1>7. Stages' /\ Recorded'
  BY <1>1, <1>3, <1>6 DEF FInv, Stages, Recorded, Recording
<1>8. Agreement'
  <2>1. ASSUME NEW m \in Members, ServerOf[m] \notin lost', ~Recording(ServerOf[m])'
        PROVE  \E v \in Contracts \cup {None} : Agree(m, v)'
    <3>1. CASE ServerOf[m] = s
      <4>1. cache[m].c = effective[m] /\ effective[m] \in Contracts \cup {None}
        BY <1>1, <1>2, <2>1, <3>1 DEF FInv, Recorded, Recording, TypeObs, ToolList
      <4>2. PICK v \in Contracts \cup {None} : v = effective[m]
        BY <4>1
      <4>3. Agree(m, v)'
        BY <1>1, <1>3, <1>4, <3>1, <4>1, <4>2 DEF Agree
      <4> QED BY <4>3
    <3>2. CASE ServerOf[m] # s
      <4>1. PICK v \in Contracts \cup {None} : Agree(m, v)
        BY <1>1, <1>3, <1>6, <2>1, <3>2 DEF FInv, Agreement, Recording
      <4>2. Agree(m, v)'
        BY <1>1, <1>3, <1>4, <1>6, <3>2, <4>1 DEF Agree
      <4> QED BY <4>2
    <3> QED BY <3>1, <3>2
  <2> QED BY <2>1 DEF Agreement
<1>9. Marked'
  BY <1>1, <1>3, <1>5, <1>6 DEF FInv, Marked
<1> QED BY <1>4, <1>7, <1>8, <1>9 DEF FInv

\* A change that is not recorded is lost.
LEMMA ObserverErrorFresh ==
    ASSUME IInv, FInv, NEW s \in Servers, ObserverError(s)
    PROVE  FInv'
<1>1. /\ UNCHANGED <<gens, ix, flawed, rev, dirty, marks, config, servers, cache, up, effective>>
      /\ obs' = [obs EXCEPT ![s] = IdleObs]
      /\ lost \subseteq lost' /\ (obs[s].chg = TRUE => s \in lost')
  BY DEF ObserverError
<1>2. TypeObs /\ obs[s].chg \in BOOLEAN
  BY TypeParts DEF IInv, TypeObs, ObsType
<1>3. /\ obs'[s].pc = "idle" /\ obs'[s].chg = FALSE /\ obs'[s].conn = FALSE
      /\ \A t \in Servers \ {s} : obs'[t] = obs[t]
  BY <1>1, <1>2 DEF TypeObs, IdleObs
<1>4. /\ \A st : WithStatus(st)' = WithStatus(st)
      /\ Active' = Active /\ Current' = Current /\ Refreshing' = Refreshing
      /\ \A g : Sourced(g)' <=> Sourced(g)
  BY <1>1, OutsideSame
<1>5. \A m \in Members : ServerOf[m] \in Servers
  BY CatalogAssumption
<1>6. Ordered' /\ Rooted' /\ Scope' /\ Progress'
  <2>1. up' \subseteq config
    BY <1>1 DEF FInv, Scope
  <2> QED BY <1>1, <2>1, OutsideKeeps
<1>7. Stages' /\ Recorded'
  BY <1>1, <1>3, <1>5 DEF FInv, Stages, Recorded, Recording
<1>8. Agreement'
  <2>1. ASSUME NEW m \in Members, ServerOf[m] \notin lost', ~Recording(ServerOf[m])'
        PROVE  \E v \in Contracts \cup {None} : Agree(m, v)'
    <3>1. ServerOf[m] = s => obs[s].chg = FALSE
      BY <1>1, <1>2, <2>1
    <3>2. ~Recording(ServerOf[m])
      BY <1>3, <1>5, <2>1, <3>1 DEF FInv, Stages, Recording
    <3>3. PICK v \in Contracts \cup {None} : Agree(m, v)
      BY <1>1, <2>1, <3>2 DEF FInv, Agreement
    <3>4. Agree(m, v)'
      BY <1>1, <1>3, <1>4, <1>5, <3>1, <3>3 DEF Agree
    <3> QED BY <3>4
  <2> QED BY <2>1 DEF Agreement
<1>9. Marked'
  BY <1>1, <1>3, <1>4, <1>5 DEF FInv, Marked
<1> QED BY <1>6, <1>7, <1>8, <1>9 DEF FInv

\* The router's marker is no observer's,
LEMMA RouterMarkFresh ==
    ASSUME IInv, FInv, NEW s \in Servers, RouterMark(s)
    PROVE  FInv'
<1>1. /\ UNCHANGED <<gens, ix, flawed, rev, config, servers, cache, lost, up, effective, obs>>
      /\ obs[s].pc = "idle" /\ Mark(s)
  BY DEF RouterMark
<1>2. Ordered' /\ \A t \in Servers \ {s} : dirty'[t] = dirty[t]
  BY <1>1, MarkIs
<1>3. /\ \A st : WithStatus(st)' = WithStatus(st)
      /\ Active' = Active /\ Current' = Current /\ Refreshing' = Refreshing
      /\ \A g : Sourced(g)' <=> Sourced(g)
  BY <1>1, OutsideSame
<1>4. \A m \in Members : ServerOf[m] \in Servers
  BY CatalogAssumption
<1>5. Rooted' /\ Scope' /\ Progress'
  <2>1. up' \subseteq config
    BY <1>1 DEF FInv, Scope
  <2> QED BY <1>1, <2>1, OutsideKeeps
<1>6. Stages' /\ Recorded'
  BY <1>1, ObserversStand
<1>7. Agreement'
  <2>1. ASSUME NEW m \in Members, NEW v, Agree(m, v) PROVE Agree(m, v)'
    BY <1>1, <1>3, <2>1 DEF Agree
  <2> QED BY <1>1, <2>1 DEF FInv, Agreement, Recording
<1>8. Marked'
  BY <1>1, <1>2, <1>3, <1>4 DEF FInv, Marked
<1> QED BY <1>2, <1>5, <1>6, <1>7, <1>8 DEF FInv

\* its revision and that of new settings make every generation stale,
LEMMA RevisionFresh ==
    ASSUME IInv, FInv, (\E s \in Servers : RouterAdvance(s)) \/ (\E S \in SUBSET Servers : SaveServers(S))
    PROVE  FInv'
<1>1. /\ UNCHANGED <<gens, ix, flawed, dirty, marks, servers, cache, lost, effective, obs>>
      /\ rev' = rev + 1 /\ up' \subseteq up /\ up' \subseteq config'
  <2>1. up \subseteq config
    BY DEF FInv, Scope
  <2> QED BY <2>1 DEF RouterAdvance, SaveServers
<1>2. /\ Ordered' /\ Rooted' /\ Scope' /\ Progress' /\ ix'.hash # rev'
      /\ \A g \in Current' : gens'[g].hash # rev'
  BY <1>1, RevisionKeeps
<1>3. /\ \A st : WithStatus(st)' = WithStatus(st)
      /\ Refreshing' = Refreshing /\ \A g : Sourced(g)' <=> Sourced(g)
  BY <1>1, OutsideSame
<1>4. Stages' /\ Recorded'
  BY <1>1 DEF FInv, Stages, Recorded, Recording
<1>5. Agreement'
  <2>1. ASSUME NEW m \in Members, NEW v, Agree(m, v) PROVE Agree(m, v)'
    BY <1>1, <1>2, <2>1 DEF Agree
  <2> QED BY <1>1, <2>1 DEF FInv, Agreement, Recording
<1>6. Marked'
  BY <1>1, <1>3 DEF FInv, Marked
<1> QED BY <1>2, <1>4, <1>5, <1>6 DEF FInv

\* a session that stops leaves everything as it is,
LEMMA DisconnectFresh ==
    ASSUME IInv, FInv, NEW s \in Servers, Disconnect(s)
    PROVE  FInv'
<1>1. /\ UNCHANGED <<gens, ix, flawed, rev, dirty, marks, config, servers, cache, lost, effective, obs>>
      /\ up' \subseteq up
  BY DEF Disconnect
<1>2. /\ \A st : WithStatus(st)' = WithStatus(st)
      /\ Active' = Active /\ Current' = Current /\ Refreshing' = Refreshing
      /\ \A g : Sourced(g)' <=> Sourced(g)
  BY <1>1, OutsideSame
<1>3. Ordered' /\ Rooted' /\ Scope' /\ Progress'
  <2>1. up' \subseteq config
    BY <1>1 DEF FInv, Scope
  <2> QED BY <1>1, <2>1, OutsideKeeps
<1>4. Stages' /\ Recorded'
  BY <1>1 DEF FInv, Stages, Recorded, Recording
<1>5. Agreement'
  <2>1. ASSUME NEW m \in Members, NEW v, Agree(m, v) PROVE Agree(m, v)'
    BY <1>1, <1>2, <2>1 DEF Agree
  <2> QED BY <1>1, <2>1 DEF FInv, Agreement, Recording
<1>6. Marked'
  BY <1>1, <1>2 DEF FInv, Marked
<1> QED BY <1>3, <1>4, <1>5, <1>6 DEF FInv

\* and so does a list that changes unseen, or a service that learns of new
\* settings.
LEMMA StillFresh ==
    ASSUME IInv, FInv,
           \/ \E m \in Members, c \in Contracts \cup {None} : LiveChange(m, c)
           \/ SetServers \/ UNCHANGED vars
    PROVE  FInv'
<1>1. /\ UNCHANGED <<gens, ix, flawed, rev, dirty, marks, config, cache, lost, up, effective, obs>>
      /\ (servers' = servers \/ (servers' = config /\ ix = Idle))
  BY DEF LiveChange, SetServers, vars
<1>2. /\ \A st : WithStatus(st)' = WithStatus(st)
      /\ Active' = Active /\ Current' = Current /\ Refreshing' = Refreshing
      /\ \A g : Sourced(g)' <=> Sourced(g)
  BY <1>1, OutsideSame
<1>3. Ordered' /\ Rooted' /\ Scope' /\ Progress'
  <2>1. CASE servers' = servers
    <3>1. up' \subseteq config
      BY <1>1 DEF FInv, Scope
    <3> QED BY <1>1, <2>1, <3>1, OutsideKeeps
  <2>2. CASE servers' = config /\ ix = Idle
    <3>1. Ordered' /\ Rooted' /\ Progress' /\ ~Refreshing'
      BY <1>1, <2>2, LeftFresh
    <3>2. Scope'
      BY <1>1, <1>2, <2>2, <3>1 DEF FInv, Scope
    <3> QED BY <3>1, <3>2
  <2> QED BY <1>1, <2>1, <2>2
<1>4. Stages' /\ Recorded'
  BY <1>1, ObserversStand
<1>5. Agreement'
  <2>1. ASSUME NEW m \in Members, NEW v, Agree(m, v) PROVE Agree(m, v)'
    BY <1>1, <1>2, <2>1 DEF Agree
  <2> QED BY <1>1, <2>1 DEF FInv, Agreement, Recording
<1>6. Marked'
  BY <1>1, <1>2 DEF FInv, Marked
<1> QED BY <1>3, <1>4, <1>5, <1>6 DEF FInv

\* In the beginning the catalog is empty.
LEMMA InitFInv == Init => FInv
<1> SUFFICES ASSUME Init PROVE FInv
  OBVIOUS
<1>1. /\ gens = <<>> /\ ix = Idle /\ up = {} /\ rev = 1 /\ marks = 0 /\ effective = NoTools
      /\ \A m \in Members : cache[m].c = None
      /\ \A s \in Servers : dirty[s] = 0 /\ obs[s].pc = "idle" /\ obs[s].chg = FALSE
  BY DEF Init, IdleObs
<1>2. DOMAIN gens = {}
  BY <1>1
<1>3. WithStatus("staging") = {} /\ Active = {} /\ Current = {} /\ ~Refreshing
  BY <1>1, <1>2, IdleIs DEF WithStatus, Active, Current, Refreshing
<1>4. \A m \in Members : ServerOf[m] \in Servers
  BY CatalogAssumption
<1>5. Ordered /\ Rooted /\ Scope /\ Progress
  BY <1>1, <1>2, <1>3, IdleIs DEF Ordered, Rooted, Scope, Progress
<1>6. Stages /\ Recorded /\ Marked
  BY <1>1, <1>4 DEF Stages, Recorded, Recording, Marked
<1>7. Agreement
  <2>1. ASSUME NEW m \in Members PROVE Agree(m, None)
    BY <1>1, <1>3, <1>4, <2>1 DEF Agree
  <2> QED BY <2>1 DEF Agreement
<1> QED BY <1>5, <1>6, <1>7 DEF FInv

\* Every step of the program keeps the agreement.
LEMMA NextFInv == IInv /\ IInv' /\ FInv /\ [Next]_vars => FInv'
<1> SUFFICES ASSUME IInv, IInv', FInv, [Next]_vars PROVE FInv'
  OBVIOUS
<1>1. ASSUME NEW s \in Servers, Observer(s) PROVE FInv'
  <2>1. ASSUME NEW conn \in BOOLEAN, Observe(s, conn) PROVE FInv'
    BY <2>1, ObserveFresh
  <2>2. CASE ReadEffective(s)
    BY <2>2, ReadEffectiveFresh
  <2>3. CASE ObserverMark(s)
    BY <2>3, ObserverMarkFresh
  <2>4. CASE ObserverAdvance(s)
    BY <2>4, ObserverAdvanceFresh
  <2>5. CASE ObserverError(s)
    BY <2>5, ObserverErrorFresh
  <2>6. CASE Disconnect(s)
    BY <2>6, DisconnectFresh
  <2>7. CASE RouterMark(s)
    BY <2>7, RouterMarkFresh
  <2>8. CASE RouterAdvance(s)
    BY <2>8, RevisionFresh
  <2> QED BY <1>1, <2>1, <2>2, <2>3, <2>4, <2>5, <2>6, <2>7, <2>8 DEF Observer
<1>2. CASE RefreshStep
  <2>1. CASE Refresh
    BY <2>1, RefreshFresh
  <2>2. CASE StageSupersede
    BY <2>2, StageSupersedeFresh
  <2>3. CASE StageCreate
    BY <2>3, StageCreateFresh
  <2>4. CASE StageReuse
    BY <2>4, StageReuseFresh
  <2>5. CASE PopulateTool
    BY <2>5, PopulateToolFresh
  <2>6. CASE PopulateDone
    BY <2>6, PopulateDoneFresh
  <2>7. CASE ReconcileDone
    BY <2>7, AgentQuiet, QuietKeeps
  <2>8. ASSUME NEW s \in Servers, AcquireSnapshot(s) PROVE FInv'
    BY <2>8, AcquireFresh
  <2>9. ASSUME NEW s \in Servers, PopulateServer(s) PROVE FInv'
    BY <2>9, PopulateServerFresh
  <2>10. ASSUME NEW s \in Servers, ReconcileDirty(s) PROVE FInv'
    BY <2>10, ReconcileDirtyFresh
  <2> QED BY <1>2, <2>1, <2>2, <2>3, <2>4, <2>5, <2>6, <2>7, <2>8, <2>9, <2>10 DEF RefreshStep
<1>3. CASE EnrichStep
  <2>1. Quiet
    BY <1>3, PrepQuiet, ReuseQuiet, MaterialQuiet, CapQuiet DEF EnrichStep
  <2> QED BY <2>1, QuietKeeps
<1>4. CASE AgentStep
  <2>1. CASE Promote
    BY <2>1, PromoteFresh
  <2>2. CASE ~Promote
    <3>1. Quiet
      BY <1>4, <2>2, AgentQuiet DEF AgentStep
    <3> QED BY <3>1, QuietKeeps
  <2> QED BY <2>1, <2>2
<1>5. CASE Fail
  BY <1>5, FailFresh
<1>6. CASE Clear
  BY <1>6, ClearFresh
<1>7. CASE \E S \in SUBSET Servers : SaveServers(S)
  BY <1>7, RevisionFresh
<1>8. CASE Crash
  BY <1>8, CrashFresh
<1>9. CASE OpenCorrupt
  BY <1>9, OpenCorruptFresh
<1>10. CASE (\E m \in Members, c \in Contracts \cup {None} : LiveChange(m, c)) \/ SetServers \/ UNCHANGED vars
  BY <1>10, StillFresh
<1> QED BY <1>1, <1>2, <1>3, <1>4, <1>5, <1>6, <1>7, <1>8, <1>9, <1>10 DEF Next

\* So both invariants hold in every reachable state.
LEMMA SpecFInv == Spec => [](IInv /\ FInv)
<1>1. Init => IInv /\ FInv
  BY InitIInv, InitFInv
<1>2. IInv /\ FInv /\ [Next]_vars => (IInv /\ FInv)'
  BY NextIInv, NextFInv
<1> QED BY <1>1, <1>2, PTL DEF Spec

\* When the index is ready, each connected session offers the contracts of the
\* active generation (executionrouter.Execute relies on it), unless its change
\* is being recorded, its recording was cut off, or the generation's
\* population was.
THEOREM ReadyMatches == Spec => []ReadyMatchesSessions
<1>1. IInv /\ FInv => ReadyMatchesSessions
  <2> SUFFICES ASSUME IInv, FInv, Ready, NEW g \in Active \ flawed, NEW m \in Members,
                      ServerOf[m] \in (gens[g].srvs \cap up \cap servers) \ (lost \cup inv),
                      obs[ServerOf[m]].pc \notin {"mark", "advance"}
               PROVE  effective[m] = gens[g].src[m]
    BY DEF ReadyMatchesSessions
  <2>1. gens[g].hash = rev
    BY DEF Ready, IInv, Unique
  <2>2. g \in Current /\ g \in WithStatus("active") /\ g \in DOMAIN gens
    BY DEF Current, Active, WithStatus
  <2>3. Sourced(g)
    <3>1. ix.pc = "populate" => gens[ix.g].status = "staging"
      BY RefreshingHere DEF FInv, Progress
    <3> QED BY <2>2, <3>1 DEF Sourced, WithStatus
  <2>4. PICK v \in Contracts \cup {None} : Agree(m, v)
    BY DEF FInv, Agreement, Recording
  <2> QED BY <2>1, <2>2, <2>3, <2>4 DEF Agree
<1> QED BY <1>1, SpecFInv, PTL

\* No step but a promotion makes a generation active.
LEMMA ActiveStays ==
    ASSUME IInv, [Next]_vars, ~Promote
    PROVE  Active' \subseteq Active
<1>1. Untouched => Active' \subseteq Active
  BY DEF Untouched
<1>2. UNCHANGED <<gens, flawed>> => Active' \subseteq Active
  BY <1>1, NothingWritten
<1>3. ASSUME NEW s \in Servers, Observer(s) PROVE Active' \subseteq Active
  BY <1>2, <1>3 DEF Observer, Observe, ReadEffective, ObserverMark, ObserverAdvance, ObserverError,
                    Disconnect, RouterMark, RouterAdvance
<1>4. CASE RefreshStep
  <2>1. CASE ReconcileDone \/ \E s \in Servers : AcquireSnapshot(s) \/ ReconcileDirty(s)
    BY <1>2, <2>1 DEF ReconcileDone, AcquireSnapshot, ReconcileDirty, IxOnly
  <2> QED BY <1>1, <1>4, <2>1, RefreshUntouched, StageUntouched, PopulateUntouched DEF RefreshStep
<1>5. CASE EnrichStep
  <2>1. CASE PrepRepair \/ RepairNext \/ MaterialDone \/ CapExists
    BY <1>2, <2>1 DEF PrepRepair, RepairNext, MaterialDone, CapExists, IxOnly
  <2> QED BY <1>1, <1>5, <2>1, ToolWorkUntouched, CapWorkUntouched DEF EnrichStep
<1>6. CASE AgentStep
  <2>1. CASE GetToolBatch \/ GetCapBatch \/ Commit \/ CommitCheck
    BY <1>2, <2>1 DEF GetToolBatch, GetCapBatch, Commit, Begin, CommitCheck, IxOnly
  <2>2. ASSUME NEW g \in DOMAIN gens, SubmitReview(g) PROVE Active' \subseteq Active
    <3>1. DOMAIN gens' = DOMAIN gens /\ \A h \in DOMAIN gens : gens'[h].status = gens[h].status
      BY <2>2, ReviewKeeps DEF Same
    <3> QED BY <3>1 DEF Active, WithStatus
  <2> QED BY <1>1, <1>6, <2>1, <2>2, SubmitUntouched DEF AgentStep
<1>7. CASE SetServers \/ (\E S \in SUBSET Servers : SaveServers(S)) \/ UNCHANGED vars
           \/ \E m \in Members, c \in Contracts \cup {None} : LiveChange(m, c)
  BY <1>2, <1>7 DEF SetServers, SaveServers, LiveChange, vars
<1>8. CASE Fail \/ Crash
  BY <1>1, <1>8, CutUntouched
<1>9. CASE Clear \/ OpenCorrupt
  BY <1>9 DEF Clear, OpenCorrupt, Active, WithStatus
<1> QED BY <1>3, <1>4, <1>5, <1>6, <1>7, <1>8, <1>9 DEF Next

\* A commit publishes nothing that is older than a marker whose revision is
\* still to come (indexing.Service.Commit, ClearDirtyIfUnchanged).
THEOREM PromotionsFresh == Spec => PromotedFresh
<1> DEFINE Step == \A g \in Active' \ (Active \cup flawed) : \A m \in Members :
          LET s == ServerOf[m]
          IN s \in (gens[g].srvs \cap servers) \ lost /\ obs[s].pc = "advance"
             => effective[m] = gens'[g].src[m]
<1>1. IInv /\ FInv /\ [Next]_vars => Step
  <2> SUFFICES ASSUME IInv, FInv, [Next]_vars PROVE Step
    OBVIOUS
  <2>1. CASE Promote
    <3>1. /\ ix.pc = "promote" /\ ix.g \in DOMAIN gens /\ gens[ix.g].status = "staging"
          /\ gens'[ix.g] = [gens[ix.g] EXCEPT !.status = "active"] /\ Active' = {ix.g} /\ NoDirty
      BY <2>1, PromoteKeeps DEF Promote, Promotable
    <3>2. ix.g \in WithStatus("staging") /\ gens[ix.g] \in Generations
      BY <3>1, Here DEF WithStatus
    <3>3. gens'[ix.g].src = gens[ix.g].src
      BY <3>1, <3>2 DEF Generations
    <3>4. \A m \in Members : ServerOf[m] \in Servers
      BY CatalogAssumption
    <3>5. ASSUME NEW m \in Members, ix.g \notin flawed,
                 ServerOf[m] \in (gens[ix.g].srvs \cap servers) \ lost, obs[ServerOf[m]].pc = "advance"
          PROVE  effective[m] = gens'[ix.g].src[m]
      <4>1. Sourced(ix.g) /\ dirty[ServerOf[m]] = 0
        BY <3>1, <3>4, <3>5 DEF Sourced, NoDirty
      <4> QED BY <3>2, <3>3, <3>5, <4>1 DEF FInv, Marked
    <3> QED BY <3>1, <3>5
  <2>2. CASE ~Promote
    BY <2>2, ActiveStays
  <2> QED BY <2>1, <2>2
<1>2. IInv /\ FInv /\ [Next]_vars => [Step]_vars
  BY <1>1
<1> QED BY <1>2, SpecFInv, PTL DEF Spec, PromotedFresh
=============================================================================

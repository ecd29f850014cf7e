------------------------- MODULE RoutingStateProofs -------------------------
(***************************************************************************)
(* Proofs about RoutingState, for every value of its constants: its type   *)
(* invariant, the order of the routing revisions, and that the generation  *)
(* gate fails closed as long as the secret store tells a secret it cannot  *)
(* read from one that does not exist.                                      *)
(***************************************************************************)
EXTENDS RoutingState, TLAPS

-----------------------------------------------------------------------------
(* Hashes *)

\* The hash of a well-typed configuration is a hash.
LEMMA HashType ==
    ASSUME NEW m \in ManagerConfig, NEW s \in ServersConfig, NEW x \in Secrets
    PROVE  ComputeHash(RoutingMaterial(m, s, x)) \in Hashes
BY DEF Hashes

\* What secrets.Get finds is a valuation of the secret references.
LEMMA ReadableType ==
    ASSUME disk.secrets \in Secrets
    PROVE  ReadableSecrets \subseteq Secrets
BY DEF ReadableSecrets, Secrets

\* Every outcome of computeHashLocked is a hash.
LEMMA ComputedType ==
    ASSUME disk.secrets \in Secrets,
           NEW m \in ManagerConfig, NEW s \in ServersConfig,
           NEW h \in computeHashLocked(m, s)
    PROVE  h \in Hashes
BY ReadableType, HashType DEF computeHashLocked

-----------------------------------------------------------------------------
(* Type correctness *)

\* The Coordinator's state has its type after a step that leaves the rest alone.
LEMMA BeginType ==
    ASSUME TypeOK, NEW next \in Disk, NEW ready \in BOOLEAN, Begin(next, ready)
    PROVE  TypeOK'
BY DEF Begin, TypeOK, elsewhere, Row

\* Writing a secret keeps the type of what is durable.
LEMMA SecretsType ==
    ASSUME disk \in Disk, NEW r \in AllRefs, NEW v \in Values \cup {Missing}
    PROVE  [disk EXCEPT !.secrets[r] = v] \in Disk
BY DEF Disk, Secrets

\* Every action keeps the types.
LEMMA TypeInvariant == TypeOK /\ [Next]_vars => TypeOK'
<1> SUFFICES ASSUME TypeOK, [Next]_vars PROVE TypeOK'
  OBVIOUS
<1>1. CASE Initialize
  BY <1>1 DEF Initialize, TypeOK, elsewhere, Row
<1>2. ASSUME NEW m \in ManagerConfig, SaveManager(m) PROVE TypeOK'
  <2>1. [disk EXCEPT !.manager = m] \in Disk
    BY DEF TypeOK, Disk
  <2>2. PICK ready \in BOOLEAN : Begin([disk EXCEPT !.manager = m], ready)
    BY <1>2 DEF SaveManager, TypeOK
  <2> QED BY <2>1, <2>2, BeginType
<1>3. ASSUME NEW s \in ServersConfig, SaveServers(s) PROVE TypeOK'
  <2>1. [disk EXCEPT !.servers = s] \in Disk
    BY DEF TypeOK, Disk
  <2>2. PICK ready \in BOOLEAN : Begin([disk EXCEPT !.servers = s], ready)
    BY <1>3 DEF SaveServers, TypeOK
  <2> QED BY <2>1, <2>2, BeginType
<1>4. ASSUME NEW r \in SecretRefs, NEW v \in Values \cup {Missing}, PutSecret(r, v)
      PROVE  TypeOK'
  <2>1. [disk EXCEPT !.secrets[r] = v] \in Disk
    BY SecretsType DEF TypeOK, AllRefs
  <2>2. CASE Begin([disk EXCEPT !.secrets[r] = v], FALSE)
    BY <2>1, <2>2, BeginType
  <2>3. CASE ~ Begin([disk EXCEPT !.secrets[r] = v], FALSE)
    <3>1. disk' = [disk EXCEPT !.secrets[r] = v]
          /\ UNCHANGED <<row, mem, call, tracker, elsewhere>>
      BY <1>4, <2>3 DEF PutSecret
    <3> QED BY <2>1, <3>1 DEF TypeOK, elsewhere
  <2> QED BY <2>2, <2>3
<1>5. ASSUME NEW v \in Values \cup {Missing}, SetOAuthCredentialIdentity(v) PROVE TypeOK'
  <2>1. [disk EXCEPT !.secrets[OAuthRef] = v] \in Disk
    BY SecretsType DEF TypeOK, AllRefs
  <2> QED BY <1>5, <2>1, BeginType DEF SetOAuthCredentialIdentity
<1>6. CASE Persist
  BY <1>6 DEF Persist, TypeOK, elsewhere
<1>7. CASE PersistFail
  BY <1>7 DEF PersistFail, TypeOK, Returned, elsewhere
<1>8. CASE Reload
  <2>1. PICK h \in computeHashLocked(disk.manager, disk.servers) :
            call' = [pc |-> "reconcile", disk |-> disk, hash |-> h]
    BY <1>8 DEF Reload
  <2>2. h \in Hashes
    BY <2>1, ComputedType DEF TypeOK, Disk
  <2> QED BY <1>8, <2>1, <2>2 DEF Reload, TypeOK, elsewhere
<1>9. CASE ReloadFail
  BY <1>9 DEF ReloadFail, TypeOK, Returned, elsewhere
<1>10. CASE Accept
  BY <1>10 DEF Accept, TypeOK, Returned, elsewhere, Disk
<1>11. ASSUME NEW h \in Observers \cup {Coordinator}, TrackerLoad(h) PROVE TypeOK'
  BY <1>11 DEF TrackerLoad, TypeOK, elsewhere
<1>12. CASE Reconcile
  <2>1. row' \in Row
    <3>1. CASE tracker.loaded.hash = call.hash
      BY <1>12, <3>1 DEF Reconcile, TypeOK
    <3>2. CASE tracker.loaded.hash # call.hash
      <4>1. tracker.loaded \in Row /\ call.hash \in Hashes \cup {NoHash}
        BY DEF TypeOK
      <4>2. row' = [tracker.loaded EXCEPT !.revision = @ + 1, !.hash = call.hash]
        BY <1>12, <3>2 DEF Reconcile
      <4>3. row' = [revision |-> tracker.loaded.revision + 1, hash |-> call.hash,
                    preference |-> tracker.loaded.preference]
        BY <4>1, <4>2 DEF Row
      <4>4. tracker.loaded.revision + 1 \in Nat /\ tracker.loaded.preference \in Nat
        BY <4>1 DEF Row
      <4> QED BY <4>1, <4>3, <4>4 DEF Row
    <3> QED BY <3>1, <3>2
  <2> QED BY <1>12, <2>1 DEF Reconcile, TypeOK, elsewhere
<1>13. CASE TrackerFail
  BY <1>13 DEF TrackerFail, TypeOK, Returned, Unlocked, elsewhere
<1>14. ASSUME NEW o \in Observers, AdvanceRoutingRevision(o) PROVE TypeOK'
  BY <1>14 DEF AdvanceRoutingRevision, TypeOK, elsewhere, Row
<1>15. ASSUME NEW a \in Authors, ReadPreferences(a) PROVE TypeOK'
  BY <1>15 DEF ReadPreferences, TypeOK, Row
<1>16. ASSUME NEW a \in Authors, NEW p \in Rules, NEW v \in Values \cup {Missing},
              PutRule(a, p, v)
       PROVE  TypeOK'
  BY <1>16 DEF PutRule, TypeOK, Row, Preference
<1>17. CASE IndexRefresh
  BY <1>17 DEF IndexRefresh, TypeOK
<1>18. CASE IndexCommit
  BY <1>18 DEF IndexCommit, TypeOK
<1>19. CASE Promote
  BY <1>19 DEF Promote, TypeOK
<1>20. CASE Crash
  BY <1>20 DEF Crash, TypeOK, Down, Returned, Unlocked
<1>21. CASE UNCHANGED vars
  BY <1>21 DEF vars, TypeOK
<1> QED
  BY <1>1, <1>2, <1>3, <1>4, <1>5, <1>6, <1>7, <1>8, <1>9, <1>10, <1>11, <1>12, <1>13,
     <1>14, <1>15, <1>16, <1>17, <1>18, <1>19, <1>20, <1>21
  DEF Next, Mutation, Tracking, Preferences

\* The types hold at the start.
LEMMA TypeInit == Init => TypeOK
BY DEF Init, TypeOK, Returned, Unlocked, Disk, Secrets, Row, Preference, ManagerConfig,
       ServersConfig

\* Every behaviour of the Coordinator, the Tracker, the preference store and the
\* indexing service keeps the types of RoutingState's variables.
THEOREM TypeCorrect == Spec => []TypeOK
BY TypeInit, TypeInvariant, PTL DEF Spec

-----------------------------------------------------------------------------
(* The routing revision *)

\* What the Tracker holds in its hands agrees with the row in the columns that
\* only the Tracker writes. The preference column may differ: routingprefs writes
\* it without Tracker.mu.
Tracked ==
    /\ tracker.holder # Nobody =>
          /\ tracker.loaded.hash = row.hash
          /\ tracker.loaded.revision = row.revision
    /\ tracker.holder = Coordinator => call.pc = "reconcile"

\* While Tracker.mu is held nobody else writes the hash and the routing revision.
LEMMA TrackedInvariant == TypeOK /\ Tracked /\ [Next]_vars => Tracked'
<1> SUFFICES ASSUME TypeOK, Tracked, [Next]_vars PROVE Tracked'
  OBVIOUS
<1>0. Nobody # Coordinator /\ Nobody \notin Observers /\ Coordinator \notin Observers
  BY ConstantsAssumption DEF Nobody, Coordinator
<1>1. ASSUME UNCHANGED <<row, tracker>>, call.pc = "reconcile" => UNCHANGED call
      PROVE  Tracked'
  BY <1>1 DEF Tracked
<1>2. CASE Mutation
  <2>1. UNCHANGED <<row, tracker>>
    BY <1>2 DEF Mutation, Initialize, SaveManager, SaveServers, PutSecret,
                SetOAuthCredentialIdentity, Begin, Persist, PersistFail, Reload,
                ReloadFail, Accept
  <2>2. call.pc = "reconcile" => UNCHANGED call
    BY <1>2 DEF Mutation, Initialize, SaveManager, SaveServers, PutSecret,
                SetOAuthCredentialIdentity, Begin, Persist, PersistFail, Reload,
                ReloadFail, Accept
  <2> QED BY <1>1, <2>1, <2>2
<1>3. ASSUME NEW h \in Observers \cup {Coordinator}, TrackerLoad(h) PROVE Tracked'
  BY <1>0, <1>3 DEF TrackerLoad, Tracked
<1>4. CASE Reconcile
  BY <1>0, <1>4 DEF Reconcile, Tracked
<1>5. CASE TrackerFail
  BY <1>0, <1>5 DEF TrackerFail, Unlocked, Tracked
<1>6. ASSUME NEW o \in Observers, AdvanceRoutingRevision(o) PROVE Tracked'
  BY <1>0, <1>6 DEF AdvanceRoutingRevision, Tracked
<1>7. ASSUME NEW a \in Authors, NEW p \in Rules, NEW v \in Values \cup {Missing},
             PutRule(a, p, v)
      PROVE  Tracked'
  BY <1>7 DEF PutRule, Tracked, TypeOK, Row
<1>8. CASE Crash
  BY <1>0, <1>8 DEF Crash, Unlocked, Tracked
<1>9. CASE \/ \E a \in Authors : ReadPreferences(a)
           \/ IndexRefresh \/ IndexCommit \/ Promote \/ UNCHANGED vars
  BY <1>1, <1>9 DEF ReadPreferences, IndexRefresh, IndexCommit, Promote, vars
<1> QED
  BY <1>2, <1>3, <1>4, <1>5, <1>6, <1>7, <1>8, <1>9 DEF Next, Tracking, Preferences

\* At the start the Tracker is free.
LEMMA TrackedInit == Init => Tracked
BY ConstantsAssumption DEF Init, Tracked, Unlocked, Nobody, Coordinator

\* What RevisionOrdersHashes asks of a step.
RevisionStep ==
    /\ row'.revision >= row.revision
    /\ row'.hash # row.hash => row'.revision > row.revision

\* A store writes what was loaded, or a greater revision.
LEMMA RevisionAdvances == TypeOK /\ Tracked /\ [Next]_vars => RevisionStep
<1> SUFFICES ASSUME TypeOK, Tracked, [Next]_vars PROVE RevisionStep
  OBVIOUS
<1>0. row \in Row /\ tracker.loaded \in Row
  BY DEF TypeOK
<1>1. ASSUME UNCHANGED row PROVE RevisionStep
  BY <1>0, <1>1 DEF RevisionStep, Row
<1>2. CASE Mutation
  BY <1>1, <1>2 DEF Mutation, Initialize, SaveManager, SaveServers, PutSecret,
                    SetOAuthCredentialIdentity, Begin, Persist, PersistFail, Reload,
                    ReloadFail, Accept
<1>3. CASE Reconcile
  <2>0. Nobody # Coordinator
    BY DEF Nobody, Coordinator
  <2>1. CASE tracker.loaded.hash = call.hash
    BY <1>1, <1>3, <2>1 DEF Reconcile
  <2>2. CASE tracker.loaded.hash # call.hash
    BY <1>0, <1>3, <2>0, <2>2 DEF Reconcile, Tracked, RevisionStep, Row
  <2> QED BY <2>1, <2>2
<1>4. ASSUME NEW o \in Observers, AdvanceRoutingRevision(o) PROVE RevisionStep
  BY <1>0, <1>4, ConstantsAssumption DEF AdvanceRoutingRevision, Tracked, RevisionStep, Row
<1>5. ASSUME NEW a \in Authors, NEW p \in Rules, NEW v \in Values \cup {Missing},
             PutRule(a, p, v)
      PROVE  RevisionStep
  BY <1>0, <1>5 DEF PutRule, RevisionStep, Row
<1>6. CASE \/ \E h \in Observers \cup {Coordinator} : TrackerLoad(h)
           \/ TrackerFail \/ Crash \/ IndexRefresh \/ IndexCommit \/ Promote
           \/ \E a \in Authors : ReadPreferences(a)
           \/ UNCHANGED vars
  BY <1>1, <1>6 DEF TrackerLoad, TrackerFail, Crash, IndexRefresh, IndexCommit, Promote,
                    ReadPreferences, vars
<1> QED
  BY <1>2, <1>3, <1>4, <1>5, <1>6 DEF Next, Tracking, Preferences

\* The Tracker's mutex is enough: whatever preference transactions fall between its
\* load and its store, the routing revision never goes back and a new hash always
\* comes with a new revision.
THEOREM RevisionOrder == Spec => RevisionOrdersHashes
<1>1. Init => TypeOK /\ Tracked
  BY TypeInit, TrackedInit
<1>2. TypeOK /\ Tracked /\ [Next]_vars => (TypeOK /\ Tracked)'
  BY TypeInvariant, TrackedInvariant
<1>3. TypeOK /\ Tracked /\ [Next]_vars =>
         [/\ row'.revision >= row.revision
          /\ row'.hash # row.hash => row'.revision > row.revision]_vars
  BY RevisionAdvances DEF RevisionStep
<1> QED
  BY <1>1, <1>2, <1>3, PTL DEF Spec, RevisionOrdersHashes

-----------------------------------------------------------------------------
(* The gate *)

\* Why an open gate is right, along the stages of a Coordinator call. While a call
\* that has not closed the gate is about to write, the gate must still be right, as
\* the write may fail and the call return; it must not be about to write a secret,
\* whose failed write may have happened. From the reload on the gate is closed and
\* the call knows exactly what is persisted, and when it opens the gate the row has
\* the hash.
GateInv ==
    /\ mem.ready /\ call.pc \in {"none", "persist"} =>
          /\ mem.hash = CurrentHash
          /\ row.hash = mem.hash
          /\ mem.servers = disk.servers
    /\ mem.ready /\ call.pc = "persist" => call.disk.secrets = disk.secrets
    /\ call.pc \in {"reconcile", "accept"} =>
          /\ ~mem.ready
          /\ call.disk = disk
          /\ call.hash = CurrentHash
    /\ call.pc = "accept" => row.hash = call.hash

\* At the start the gate is closed.
LEMMA GateInit == Init => GateInv
BY DEF Init, GateInv, Returned

\* The hash of secrets that can be read is the hash of what is persisted.
LEMMA HonestHash ==
    ASSUME "locked" \notin Faults, TypeOK,
           NEW h \in computeHashLocked(disk.manager, disk.servers)
    PROVE  h = CurrentHash
<1>1. disk.secrets = [r \in AllRefs |-> disk.secrets[r]]
  BY DEF TypeOK, Disk, Secrets
<1>2. ReadableSecrets = {disk.secrets}
  BY <1>1 DEF ReadableSecrets, Fails
<1> QED BY <1>2 DEF computeHashLocked, CurrentHash

\* A secret that no entry names does not enter the hash.
LEMMA OtherSecret ==
    ASSUME TypeOK, NEW r \in SecretRefs, r \notin disk.servers.refs, NEW v,
           disk' = [disk EXCEPT !.secrets[r] = v]
    PROVE  CurrentHash' = CurrentHash
<1>1. disk'.manager = disk.manager /\ disk'.servers = disk.servers
  BY DEF TypeOK, Disk
<1>2. \A x \in AllRefs : x # r => disk'.secrets[x] = disk.secrets[x]
  BY DEF TypeOK, Disk, Secrets
<1>3. OAuthRef \in AllRefs /\ OAuthRef # r /\ disk.servers.refs \subseteq AllRefs
  BY ConstantsAssumption DEF AllRefs, TypeOK, Disk, ServersConfig
<1>4. [x \in disk.servers.refs |-> disk'.secrets[x]] =
      [x \in disk.servers.refs |-> disk.secrets[x]]
  BY <1>2, <1>3
<1> QED BY <1>1, <1>2, <1>3, <1>4 DEF CurrentHash, RoutingMaterial

\* A call that starts with the gate left open is about to write a file.
LEMMA GateBegin ==
    ASSUME TypeOK, GateInv, NEW next \in Disk, NEW ready \in BOOLEAN, Begin(next, ready),
           ready => mem.ready /\ next.secrets = disk.secrets
    PROVE  GateInv'
<1>1. call' = [pc |-> "persist", disk |-> next, hash |-> NoHash]
      /\ mem' = [mem EXCEPT !.ready = ready] /\ UNCHANGED <<disk, row>> /\ call.pc = "none"
  BY DEF Begin
<1>2. mem'.ready = ready /\ mem'.hash = mem.hash /\ mem'.servers = mem.servers
  BY <1>1 DEF TypeOK
<1>3. CurrentHash' = CurrentHash
  BY <1>1 DEF CurrentHash
<1> QED BY <1>1, <1>2, <1>3 DEF GateInv

\* Every action keeps the gate right.
LEMMA GateInvariant ==
    ASSUME "locked" \notin Faults
    PROVE  TypeOK /\ Tracked /\ GateInv /\ [Next]_vars => GateInv'
<1> SUFFICES ASSUME TypeOK, Tracked, GateInv, [Next]_vars PROVE GateInv'
  OBVIOUS
<1>0. Nobody # Coordinator /\ Nobody \notin Observers
  BY ConstantsAssumption DEF Nobody, Coordinator
<1>a. UNCHANGED disk => CurrentHash' = CurrentHash
  BY DEF CurrentHash
<1>b. ASSUME UNCHANGED <<disk, mem, call>>, row'.hash = row.hash PROVE GateInv'
  BY <1>a, <1>b DEF GateInv
<1>1. CASE Initialize
  <2>1. mem'.ready = FALSE /\ call'.pc = "load"
    BY <1>1 DEF Initialize, TypeOK
  <2> QED BY <2>1 DEF GateInv
<1>2. ASSUME NEW m \in ManagerConfig, SaveManager(m) PROVE GateInv'
  <2>1. [disk EXCEPT !.manager = m] \in Disk
        /\ [disk EXCEPT !.manager = m].secrets = disk.secrets
    BY DEF TypeOK, Disk
  <2>2. PICK h : Begin([disk EXCEPT !.manager = m], mem.ready /\ h = mem.hash)
    BY <1>2 DEF SaveManager
  <2>3. (mem.ready /\ h = mem.hash) \in BOOLEAN
    BY DEF TypeOK
  <2> QED BY <2>1, <2>2, <2>3, GateBegin
<1>3. ASSUME NEW s \in ServersConfig, SaveServers(s) PROVE GateInv'
  <2>1. [disk EXCEPT !.servers = s] \in Disk
        /\ [disk EXCEPT !.servers = s].secrets = disk.secrets
    BY DEF TypeOK, Disk
  <2>2. PICK h : Begin([disk EXCEPT !.servers = s], mem.ready /\ h = mem.hash)
    BY <1>3 DEF SaveServers
  <2>3. (mem.ready /\ h = mem.hash) \in BOOLEAN
    BY DEF TypeOK
  <2> QED BY <2>1, <2>2, <2>3, GateBegin
<1>4. ASSUME NEW r \in SecretRefs, NEW v \in Values \cup {Missing}, PutSecret(r, v)
      PROVE  GateInv'
  <2>1. [disk EXCEPT !.secrets[r] = v] \in Disk
    BY SecretsType DEF TypeOK, AllRefs
  <2>2. CASE isRoutingSecretRef(mem.servers, r)
    BY <1>4, <2>1, <2>2, GateBegin DEF PutSecret
  <2>3. CASE ~ isRoutingSecretRef(mem.servers, r)
    <3>1. disk' = [disk EXCEPT !.secrets[r] = v] /\ UNCHANGED <<row, mem, call>>
          /\ call.pc = "none"
      BY <1>4, <2>3 DEF PutSecret
    <3>2. disk'.servers = disk.servers
      BY <3>1 DEF TypeOK, Disk
    <3>3. CASE mem.ready
      <4>1. r \notin disk.servers.refs
        BY <2>3, <3>1, <3>3 DEF GateInv, isRoutingSecretRef
      <4>2. CurrentHash' = CurrentHash
        BY <3>1, <4>1, OtherSecret
      <4> QED BY <3>1, <3>2, <4>2 DEF GateInv
    <3>4. CASE ~mem.ready
      BY <3>1, <3>4 DEF GateInv
    <3> QED BY <3>3, <3>4
  <2> QED BY <2>2, <2>3
<1>5. ASSUME NEW v \in Values \cup {Missing}, SetOAuthCredentialIdentity(v) PROVE GateInv'
  <2>1. [disk EXCEPT !.secrets[OAuthRef] = v] \in Disk
    BY SecretsType DEF TypeOK, AllRefs
  <2> QED BY <1>5, <2>1, GateBegin DEF SetOAuthCredentialIdentity
<1>6. CASE Persist
  <2>1. call'.pc = "load"
    BY <1>6 DEF Persist, TypeOK
  <2> QED BY <2>1 DEF GateInv
<1>7. CASE PersistFail
  <2>1. call.pc = "persist" /\ call'.pc = "none" /\ UNCHANGED <<row, mem>>
    BY <1>7 DEF PersistFail, Returned
  <2>2. mem.ready => UNCHANGED disk
    BY <1>7, <2>1 DEF PersistFail, GateInv
  <2> QED BY <1>a, <2>1, <2>2 DEF GateInv
<1>8. CASE Reload
  <2>1. PICK h \in computeHashLocked(disk.manager, disk.servers) :
            call' = [pc |-> "reconcile", disk |-> disk, hash |-> h]
    BY <1>8 DEF Reload
  <2>2. h = CurrentHash
    BY <2>1, HonestHash
  <2>3. mem'.ready = FALSE /\ UNCHANGED disk
    BY <1>8 DEF Reload, TypeOK
  <2> QED BY <1>a, <2>1, <2>2, <2>3 DEF GateInv
<1>9. CASE ReloadFail
  <2>1. mem'.ready = FALSE /\ call'.pc = "none"
    BY <1>9 DEF ReloadFail, Returned, TypeOK
  <2> QED BY <2>1 DEF GateInv
<1>10. CASE Accept
  <2>1. mem'.hash = call.hash /\ mem'.servers = call.disk.servers /\ call'.pc = "none"
        /\ UNCHANGED <<disk, row>> /\ call.pc = "accept"
    BY <1>10 DEF Accept, Returned
  <2> QED BY <1>a, <2>1 DEF GateInv
<1>11. CASE Reconcile
  <2>1. call.pc = "reconcile" /\ tracker.loaded.hash = row.hash
    BY <1>0, <1>11 DEF Reconcile, Tracked
  <2>2. call'.pc = "accept" /\ call'.disk = call.disk /\ call'.hash = call.hash
        /\ UNCHANGED <<disk, mem>>
    BY <1>11 DEF Reconcile, TypeOK
  <2>3. row'.hash = call.hash
    BY <1>11, <2>1 DEF Reconcile, TypeOK, Row
  <2> QED BY <1>a, <2>1, <2>2, <2>3 DEF GateInv
<1>12. CASE TrackerFail
  <2>1. CASE tracker.holder = Coordinator
    <3>1. call.pc = "reconcile" /\ call'.pc = "none" /\ UNCHANGED mem
      BY <1>12, <2>1 DEF TrackerFail, Tracked, Returned
    <3> QED BY <3>1 DEF GateInv
  <2>2. CASE tracker.holder # Coordinator
    BY <1>12, <1>b, <2>2 DEF TrackerFail
  <2> QED BY <2>1, <2>2
<1>13. ASSUME NEW o \in Observers, AdvanceRoutingRevision(o) PROVE GateInv'
  <2>1. row'.hash = row.hash
    BY <1>0, <1>13 DEF AdvanceRoutingRevision, Tracked, TypeOK, Row
  <2> QED BY <1>13, <1>b, <2>1 DEF AdvanceRoutingRevision
<1>14. ASSUME NEW a \in Authors, NEW p \in Rules, NEW v \in Values \cup {Missing},
              PutRule(a, p, v)
       PROVE  GateInv'
  <2>1. row'.hash = row.hash
    BY <1>14 DEF PutRule, TypeOK, Row
  <2> QED BY <1>14, <1>b, <2>1 DEF PutRule
<1>15. CASE Crash
  <2>1. mem'.ready = FALSE /\ call'.pc = "none"
    BY <1>15 DEF Crash, Down, Returned, TypeOK
  <2> QED BY <2>1 DEF GateInv
<1>16. CASE \/ \E h \in Observers \cup {Coordinator} : TrackerLoad(h)
            \/ \E a \in Authors : ReadPreferences(a)
            \/ IndexRefresh \/ IndexCommit \/ Promote \/ UNCHANGED vars
  BY <1>b, <1>16 DEF TrackerLoad, ReadPreferences, IndexRefresh, IndexCommit, Promote, vars
<1> QED
  BY <1>1, <1>2, <1>3, <1>4, <1>5, <1>6, <1>7, <1>8, <1>9, <1>10, <1>11, <1>12, <1>13,
     <1>14, <1>15, <1>16
  DEF Next, Mutation, Tracking, Preferences

\* What the two properties need of it.
LEMMA GateImplies == GateInv => GateFailClosed /\ GateOpenIsDurable
BY DEF GateInv, GateFailClosed, GateOpenIsDurable, GenerationCurrent, GateOpen

\* Whatever mutations, failed writes, failed reconciliations and crashes came
\* before, a generation that GenerationCurrent accepts was built for exactly what is
\* persisted: provided that the secret store reports a secret it cannot read as an
\* error (the run "locked" shows what happens otherwise).
THEOREM GateIsFailClosed ==
    ASSUME "locked" \notin Faults
    PROVE  Spec => []GateFailClosed
<1>1. Init => TypeOK /\ Tracked /\ GateInv
  BY TypeInit, TrackedInit, GateInit
<1>2. TypeOK /\ Tracked /\ GateInv /\ [Next]_vars => (TypeOK /\ Tracked /\ GateInv)'
  BY TypeInvariant, TrackedInvariant, GateInvariant
<1>3. GateInv => GateFailClosed
  BY GateImplies
<1> QED
  BY <1>1, <1>2, <1>3, PTL DEF Spec

\* Under the same proviso the gate and the durable row, which is all that Execute
\* looks at, agree whenever the gate is open.
THEOREM GateIsDurable ==
    ASSUME "locked" \notin Faults
    PROVE  Spec => []GateOpenIsDurable
<1>1. Init => TypeOK /\ Tracked /\ GateInv
  BY TypeInit, TrackedInit, GateInit
<1>2. TypeOK /\ Tracked /\ GateInv /\ [Next]_vars => (TypeOK /\ Tracked /\ GateInv)'
  BY TypeInvariant, TrackedInvariant, GateInvariant
<1>3. GateInv => GateOpenIsDurable
  BY GateImplies
<1> QED
  BY <1>1, <1>2, <1>3, PTL DEF Spec
=============================================================================

---------------------------- MODULE RoutingState ----------------------------
(***************************************************************************)
(* The routing-state consistency boundary: internal/v2state (Coordinator), *)
(* internal/routingstate (Tracker and its SQLite row), the revision that   *)
(* internal/routingprefs keeps in the same row, and the hash by which      *)
(* internal/indexing and internal/executionrouter decide that a generation *)
(* is current.                                                             *)
(*                                                                         *)
(* A Coordinator call holds Coordinator.mu from beginning to end and makes *)
(* several durable writes; a crash or an error may fall between any two.   *)
(* The Tracker loads the routing_state row, changes it and stores it back  *)
(* under Tracker.mu, which the preference store does not take: its own     *)
(* transactions fall between the load and the store.                       *)
(*                                                                         *)
(* SHA-256 of the routing material is taken to be injective, so a routing  *)
(* state hash is the set that holds the material; the empty string is {}.  *)
(***************************************************************************)
EXTENDS Naturals

CONSTANTS
    Embeddings,     \* identities of the selected embedding model and runtime
    Entries,        \* contents of servers.json, secret references apart
    SecretRefs,     \* secret references a Server Entry may name
    Values,         \* values a secret may have
    Observers,      \* goroutines that report changed tool contracts
    Authors,        \* callers that edit routing preferences
    Rules,          \* identities of routing preferences
    MaxRevision,    \* bound on the routing and the preference revision
    Faults          \* failures that may happen

AllFaults == {"crash", "disk", "secrets", "locked", "database"}

Missing == "missing"
OAuthRef == "oauth identity"
NoHash  == {}
Nobody  == "nobody"
Coordinator == "coordinator"

ASSUME ConstantsAssumption ==
    /\ MaxRevision \in Nat
    /\ Missing \notin Values
    /\ OAuthRef \notin SecretRefs
    /\ {Nobody, Coordinator} \cap Observers = {}
    /\ Faults \subseteq AllFaults

\* manager.json, as far as it matters; other stands for all operational settings.
ManagerConfig == [embedding : Embeddings, other : BOOLEAN]

\* servers.json: the entries, the secret references they name, and whether one
\* of them uses downstream OAuth.
ServersConfig == [entries : Entries, refs : SUBSET SecretRefs, oauth : BOOLEAN]

AllRefs == SecretRefs \cup {OAuthRef}
Secrets == [AllRefs -> Values \cup {Missing}]

RoutingMaterial(manager, servers, secrets) ==
    [embedding |-> manager.embedding, servers |-> servers,
     fingerprints |-> [r \in servers.refs |-> secrets[r]],
     identity |-> IF servers.oauth THEN secrets[OAuthRef] ELSE Missing]

ComputeHash(material) == {material}

VARIABLES
    disk,       \* manager.json, servers.json and the secret store
    row,        \* the routing_state row: both revisions and the hash
    mem,        \* Coordinator: manager, servers, currentHash, initialized, ready
    call,       \* the Coordinator call that holds Coordinator.mu
    tracker,    \* Tracker.mu: its holder, and the row it has loaded
    rules,      \* routing_preferences
    author,     \* what each author has read of the preferences
    index,      \* the indexing service: hash being built, hash checked to commit
    active      \* routing state hash of the active generation

vars == <<disk, row, mem, call, tracker, rules, author, index, active>>

\* The deterministic hash of what is persisted now.
CurrentHash == ComputeHash(RoutingMaterial(disk.manager, disk.servers, disk.secrets))

Returned == [pc |-> "none", disk |-> disk, hash |-> NoHash]
Down     == [mem EXCEPT !.initialized = FALSE, !.ready = FALSE]
Unlocked == [holder |-> Nobody, loaded |-> row]

Init ==
    /\ disk \in [manager : ManagerConfig, servers : ServersConfig,
                 secrets : {[r \in AllRefs |-> Missing]}]
    /\ row = [revision |-> 0, hash |-> NoHash, preference |-> 0]
    /\ mem = [manager |-> disk.manager, servers |-> disk.servers, hash |-> NoHash,
              initialized |-> FALSE, ready |-> FALSE]
    /\ call = Returned
    /\ tracker = Unlocked
    /\ rules = [p \in Rules |-> Missing]
    /\ author = [a \in Authors |-> [revision |-> 0, rules |-> rules]]
    /\ index = [building |-> NoHash, checked |-> FALSE]
    /\ active = NoHash

elsewhere == <<rules, author, index, active>>

-----------------------------------------------------------------------------
(* Coordinator: Initialize, SaveManager, SaveServers, PutSecret,             *)
(* DeleteSecret, SetOAuthCredentialIdentity, ClearOAuthCredentialIdentity.   *)

Fails(fault) == fault \in Faults

\* What secrets.Get finds. The Linux and macOS secret stores report a secret that
\* they cannot read as one that does not exist.
ReadableSecrets ==
    {[r \in AllRefs |-> IF r \in lost THEN Missing ELSE disk.secrets[r]] :
        lost \in IF Fails("locked") THEN SUBSET AllRefs ELSE {{}}}

\* Mutant of computeHashLocked: a secret that is missing is left out of the material.
computeHashSkipsMissing(manager, servers) ==
    {ComputeHash([RoutingMaterial(manager, servers, disk.secrets) EXCEPT
        !.fingerprints = [r \in {x \in servers.refs : disk.secrets[x] # Missing} |->
                             disk.secrets[r]]])}

computeHashLocked(manager, servers) ==
    {ComputeHash(RoutingMaterial(manager, servers, secrets)) : secrets \in ReadableSecrets}

\* The call takes Coordinator.mu with the durable state it is to produce.
Begin(next, ready) ==
    /\ call.pc = "none"
    /\ row.revision < MaxRevision
    /\ call' = [pc |-> "persist", disk |-> next, hash |-> NoHash]
    /\ mem' = [mem EXCEPT !.ready = ready]
    /\ UNCHANGED <<disk, row, tracker, elsewhere>>

\* Initialize has nothing to persist: the files and the fingerprint key exist.
Initialize ==
    /\ call.pc = "none" /\ ~mem.initialized
    /\ row.revision < MaxRevision
    /\ call' = [pc |-> "load", disk |-> disk, hash |-> NoHash]
    /\ mem' = [mem EXCEPT !.ready = FALSE]
    /\ UNCHANGED <<disk, row, tracker, elsewhere>>

\* SaveManager and SaveServers close the gate when the candidate hash differs.
\* An error before the write (a secret that cannot be read, server_busy) returns
\* without any change.
SaveManager(manager) ==
    /\ mem.initialized
    /\ \E candidate \in computeHashLocked(manager, mem.servers) :
          Begin([disk EXCEPT !.manager = manager], mem.ready /\ candidate = mem.hash)

SaveServers(servers) ==
    /\ mem.initialized
    /\ \E candidate \in computeHashLocked(mem.manager, servers) :
          Begin([disk EXCEPT !.servers = servers], mem.ready /\ candidate = mem.hash)

\* Mutant of isRoutingSecretRef: secret references of the entries are overlooked.
NeverRoutingSecretRef(servers, ref) == FALSE

isRoutingSecretRef(servers, ref) == ref \in servers.refs

\* PutSecret, and DeleteSecret with the value Missing. A secret no entry names
\* is written without closing the gate, and the call returns without reconciling.
PutSecret(ref, value) ==
    /\ mem.initialized
    /\ ref \in SecretRefs
    /\ IF isRoutingSecretRef(mem.servers, ref)
       THEN Begin([disk EXCEPT !.secrets[ref] = value], FALSE)
       ELSE /\ call.pc = "none"
            /\ disk' = [disk EXCEPT !.secrets[ref] = value]
            /\ UNCHANGED <<row, mem, call, tracker, elsewhere>>

\* SetOAuthCredentialIdentity, and ClearOAuthCredentialIdentity with Missing.
SetOAuthCredentialIdentity(value) ==
    /\ mem.initialized
    /\ mem.servers.oauth
    /\ Begin([disk EXCEPT !.secrets[OAuthRef] = value], FALSE)

\* The Linux and macOS stores report a deletion that failed as done.
Persist ==
    /\ call.pc = "persist"
    /\ disk' \in {call.disk} \cup
          {disk : r \in {x \in AllRefs : Fails("secrets") /\ call.disk.secrets[x] = Missing
                                                       /\ disk.secrets[x] # Missing}}
    /\ call' = [call EXCEPT !.pc = "load"]
    /\ UNCHANGED <<row, mem, tracker, elsewhere>>

\* The write fails and the call returns with the gate as it is. A config file is
\* replaced by a rename, so an error means that the old one is still there; of a
\* secret it is not known.
PersistFail ==
    /\ call.pc = "persist"
    /\ \/ Fails("disk") /\ call.disk.secrets = disk.secrets /\ UNCHANGED disk
       \/ Fails("secrets") /\ call.disk.secrets # disk.secrets /\ disk' \in {disk, call.disk}
    /\ call' = [Returned EXCEPT !.disk = disk']
    /\ UNCHANGED <<row, mem, tracker, elsewhere>>

\* reconcilePersistedLocked: the gate is closed, the files are read back and
\* their hash is computed.
Reload ==
    /\ call.pc = "load"
    /\ \E hash \in computeHashLocked(disk.manager, disk.servers) :
          call' = [pc |-> "reconcile", disk |-> disk, hash |-> hash]
    /\ mem' = [mem EXCEPT !.ready = FALSE]
    /\ UNCHANGED <<disk, row, tracker, elsewhere>>

ReloadFail ==
    /\ call.pc = "load"
    /\ Fails("disk") \/ Fails("secrets")
    /\ call' = Returned
    /\ mem' = [mem EXCEPT !.ready = FALSE]
    /\ UNCHANGED <<disk, row, tracker, elsewhere>>

\* The hash is on record: it becomes the current one and the gate opens.
Accept ==
    /\ call.pc = "accept"
    /\ mem' = [manager |-> call.disk.manager, servers |-> call.disk.servers,
               hash |-> call.hash, initialized |-> TRUE, ready |-> TRUE]
    /\ call' = Returned
    /\ UNCHANGED <<disk, row, tracker, elsewhere>>

-----------------------------------------------------------------------------
(* Tracker: Reconcile for the Coordinator, AdvanceRoutingRevision for the    *)
(* observers and for an execution that meets a changed contract.             *)

TrackerLoad(holder) ==
    /\ tracker.holder = Nobody
    /\ IF holder = Coordinator THEN call.pc = "reconcile" ELSE row.revision < MaxRevision
    /\ tracker' = [holder |-> holder, loaded |-> row]
    /\ UNCHANGED <<disk, row, mem, call, elsewhere>>

\* Mutant of Reconcile: the gate opens before the hash is stored.
ReconcileUnstored ==
    /\ tracker.holder = Coordinator
    /\ row' = row
    /\ call' = [call EXCEPT !.pc = "accept"]
    /\ tracker' = [holder |-> Nobody, loaded |-> row']
    /\ UNCHANGED <<disk, mem, elsewhere>>

\* Nothing is stored when the row already has the hash.
Reconcile ==
    /\ tracker.holder = Coordinator
    /\ row' = IF tracker.loaded.hash = call.hash
              THEN row
              ELSE [tracker.loaded EXCEPT !.revision = @ + 1, !.hash = call.hash]
    /\ call' = [call EXCEPT !.pc = "accept"]
    /\ tracker' = [holder |-> Nobody, loaded |-> row']
    /\ UNCHANGED <<disk, mem, elsewhere>>

\* Mutant of AdvanceRoutingRevision: Tracker.mu is not taken.
AdvanceUnlocked(o) ==
    /\ row.revision < MaxRevision
    /\ row' = [row EXCEPT !.revision = @ + 1]
    /\ UNCHANGED <<disk, mem, call, tracker, elsewhere>>

AdvanceRoutingRevision(o) ==
    /\ tracker.holder = o
    /\ row' = [tracker.loaded EXCEPT !.revision = @ + 1]
    /\ tracker' = [holder |-> Nobody, loaded |-> row']
    /\ UNCHANGED <<disk, mem, call, elsewhere>>

\* The load or the store fails; the Coordinator's call returns, gate closed.
TrackerFail ==
    /\ Fails("database")
    /\ tracker.holder # Nobody
    /\ call' = IF tracker.holder = Coordinator THEN Returned ELSE call
    /\ tracker' = Unlocked
    /\ UNCHANGED <<disk, row, mem, elsewhere>>

-----------------------------------------------------------------------------
(* Preferences: one serializable transaction reads the revision and writes.  *)

\* get_routing_preferences
ReadPreferences(a) ==
    /\ author' = [author EXCEPT ![a] = [revision |-> row.preference, rules |-> rules]]
    /\ UNCHANGED <<disk, row, mem, call, tracker, rules, index, active>>

\* PutRule, and DeleteRule with Missing: a write that changes nothing succeeds;
\* any other needs the expected revision.
PutRule(a, p, value) ==
    /\ rules[p] # value
    /\ row.preference = author[a].revision
    /\ row.preference < MaxRevision
    /\ rules' = [rules EXCEPT ![p] = value]
    /\ row' = [row EXCEPT !.preference = @ + 1]
    /\ UNCHANGED <<disk, mem, call, tracker, author, index, active>>

-----------------------------------------------------------------------------
(* Indexing and execution, as far as they compare hashes.                    *)

\* GenerationCurrent and CurrentRoutingStateHash need Coordinator.mu.
GateOpen == call.pc = "none" /\ mem.initialized /\ mem.ready

GenerationCurrent(hash) == GateOpen /\ hash # NoHash /\ hash = mem.hash

\* Refresh stages a generation for the hash it reads.
IndexRefresh ==
    /\ GateOpen
    /\ index' = [building |-> mem.hash, checked |-> FALSE]
    /\ UNCHANGED <<disk, row, mem, call, tracker, rules, author, active>>

\* Commit reads the hash again and hands it to Promote.
IndexCommit ==
    /\ GenerationCurrent(index.building)
    /\ index' = [index EXCEPT !.checked = TRUE]
    /\ UNCHANGED <<disk, row, mem, call, tracker, rules, author, active>>

Promote ==
    /\ index.checked
    /\ active' = index.building
    /\ index' = [building |-> NoHash, checked |-> FALSE]
    /\ UNCHANGED <<disk, row, mem, call, tracker, rules, author>>

\* Execute admits a call when the active generation has the hash of the row.
Admits == row.hash # NoHash /\ active = row.hash

-----------------------------------------------------------------------------
(* The process dies: what is not durable is gone. A staged generation stays. *)

Crash ==
    /\ Fails("crash")
    /\ mem' = Down
    /\ call' = Returned
    /\ tracker' = Unlocked
    /\ index' = [index EXCEPT !.checked = FALSE]
    /\ UNCHANGED <<disk, row, rules, author, active>>

Mutation ==
    \/ Initialize
    \/ \E manager \in ManagerConfig : SaveManager(manager)
    \/ \E servers \in ServersConfig : SaveServers(servers)
    \/ \E ref \in SecretRefs, value \in Values \cup {Missing} : PutSecret(ref, value)
    \/ \E value \in Values \cup {Missing} : SetOAuthCredentialIdentity(value)
    \/ Persist \/ PersistFail \/ Reload \/ ReloadFail \/ Accept

Tracking ==
    \/ \E h \in Observers \cup {Coordinator} : TrackerLoad(h)
    \/ Reconcile \/ TrackerFail
    \/ \E o \in Observers : AdvanceRoutingRevision(o)

Preferences ==
    \E a \in Authors : \/ ReadPreferences(a)
                       \/ \E p \in Rules, v \in Values \cup {Missing} : PutRule(a, p, v)

Next ==
    \/ Mutation \/ Tracking \/ Preferences
    \/ IndexRefresh \/ IndexCommit \/ Promote
    \/ Crash

Spec == Init /\ [][Next]_vars

-----------------------------------------------------------------------------
(* Properties *)

Disk == [manager : ManagerConfig, servers : ServersConfig, secrets : Secrets]

Hashes ==
    {ComputeHash(RoutingMaterial(m, s, x)) : m \in ManagerConfig, s \in ServersConfig, x \in Secrets}

Row == [revision : Nat, hash : Hashes \cup {NoHash}, preference : Nat]

Preference == [Rules -> Values \cup {Missing}]

\* Every variable has its type.
TypeOK ==
    /\ disk \in Disk
    /\ row \in Row
    /\ mem \in [manager : ManagerConfig, servers : ServersConfig,
                hash : Hashes \cup {NoHash}, initialized : BOOLEAN, ready : BOOLEAN]
    /\ call \in [pc : {"none", "persist", "load", "reconcile", "accept"}, disk : Disk,
                 hash : Hashes \cup {NoHash}]
    /\ tracker \in [holder : Observers \cup {Nobody, Coordinator}, loaded : Row]
    /\ rules \in Preference
    /\ author \in [Authors -> [revision : Nat, rules : Preference]]
    /\ index \in [building : Hashes \cup {NoHash}, checked : BOOLEAN]
    /\ active \in Hashes \cup {NoHash}

\* The gate fails closed: a generation GenerationCurrent accepts was built for
\* exactly what is persisted, whatever errors and crashes came before.
GateFailClosed == \A hash \in {active, index.building, mem.hash} :
                      GenerationCurrent(hash) => hash = CurrentHash

\* While the gate is open the durable row has the gate's hash, so that Execute,
\* which looks only at the row, and the gate agree.
GateOpenIsDurable == GateOpen => row.hash = mem.hash

\* The routing revision orders the routing states: it never goes back, and no two
\* hashes are ever recorded under one revision.
RevisionOrdersHashes ==
    [][/\ row'.revision >= row.revision
       /\ row'.hash # row.hash => row'.revision > row.revision]_vars

\* Routing is allowed only when the active generation matches the current
\* routing state: what Execute admits between two Coordinator calls was built for
\* what is persisted.
AdmittedIsCurrent ==
    mem.initialized /\ call.pc = "none" /\ Admits => active = CurrentHash

\* Optimistic conflict detection: a preference write that succeeds was made by an
\* author who had seen the preferences it changes as they were.
ConflictDetected ==
    [][rules' # rules =>
          \E a \in Authors : author[a].revision = row.preference /\ author[a].rules = rules]_vars
=============================================================================

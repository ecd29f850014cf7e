---------------------------- MODULE ServerConfig ----------------------------
(***************************************************************************)
(* The Server Entries and their copies.  servers.json (v2config.Store),    *)
(* V2App.servers, indexing.Service.servers and the entries of the routed   *)
(* lifecycle each hold the whole ServersConfig; SaveServer and             *)
(* DeleteServer (internal/app/v2_app.go) read one copy, change one entry   *)
(* and write all of them, one after the other and under no common lock.    *)
(* Boot is the first start: the cutover of a v1 directory, the fresh       *)
(* configuration, the loading of the files.                                *)
(***************************************************************************)
EXTENDS Integers, FiniteSets

CONSTANTS
    Ids,        \* server identifiers
    Values,     \* contents of a Server Entry
    Absent,     \* no entry
    Editors,    \* goroutines of the interface that edit entries
    MaxEdits,   \* bound on the edits
    MaxFaults   \* bound on failures and crashes

VARIABLES
    boot,       \* "down", "cutover", "fresh" or "up"
    config, data,       \* the directories config/ and data/: "none", "legacy" or "v2"
    stored, life, index, app, \* the copies of the ServersConfig
    edit,       \* the edit of each editor: its pc, entry and configuration
    kept,       \* history: the last acknowledged edit of each server, Nothing if
                \* the server is being edited, the edit failed or was not alone
    alone,      \* history: the edits under way that no other edit overlapped
    edits, fails

vars == <<boot, config, data, stored, life, index, app, edit, kept, alone, edits, fails>>
diskVars == <<boot, config, data>>
copies == <<stored, life, index, app>>

Nothing == [val |-> Absent, known |-> FALSE]
Empty == [i \in Ids |-> Absent]
IdleEdit == [pc |-> "idle", id |-> CHOOSE i \in Ids : TRUE, cfg |-> Empty]
Busy == {e \in Editors : edit[e].pc # "idle"}

Init ==
    /\ boot = "down"
    /\ config \in {"none", "legacy", "v2"}
    /\ data = config
    /\ stored \in IF config = "v2" THEN [Ids -> Values \cup {Absent}] ELSE {Empty}
    /\ life = Empty /\ index = Empty /\ app = Empty
    /\ edit = [e \in Editors |-> IdleEdit]
    /\ kept = [i \in Ids |-> Nothing] /\ alone = {}
    /\ edits = 0 /\ fails = 0

Fail == fails < MaxFaults /\ fails' = fails + 1

-----------------------------------------------------------------------------
(* ensureV2ConfigLayout and Store.LoadOrCreate, then NewV2App: a v2        *)
(* configuration is loaded into every copy, a directory without v2 files   *)
(* is moved aside, and without a directory a fresh one is staged.          *)
Load ==
    /\ boot = "down"
    /\ \/ /\ config = "v2" /\ boot' = "up" /\ data' = IF data = "none" THEN "v2" ELSE data
          /\ life' = stored /\ index' = stored /\ app' = stored
          /\ UNCHANGED config
       \/ config = "none" /\ boot' = "fresh" /\ UNCHANGED <<config, data, life, index, app>>
       \/ /\ config = "legacy" /\ boot' = "cutover" /\ config' = "none"
          /\ UNCHANGED <<data, life, index, app>>
    /\ UNCHANGED <<stored, edit, kept, alone, edits, fails>>

(* CutoverOpaqueLegacy after config/ was renamed: data/ follows, or config *)
(* is moved back.                                                          *)
CutoverData ==
    /\ boot = "cutover"
    /\ \/ data' = (IF data = "legacy" THEN "none" ELSE data) /\ boot' = "fresh"
          /\ UNCHANGED <<config, fails>>
       \/ Fail /\ config' = "legacy" /\ boot' = "down" /\ UNCHANGED data
    /\ UNCHANGED <<copies, edit, kept, alone, edits>>

(* initializeFresh: both files are staged and the directory is renamed.    *)
CommitFresh ==
    /\ boot = "fresh" /\ boot' = "down" /\ config' = "v2" /\ stored' = Empty
    /\ UNCHANGED <<data, life, index, app, edit, kept, alone, edits, fails>>

(* The process dies at any point; what was in memory is gone.              *)
Crash ==
    /\ boot # "down" /\ Fail /\ boot' = "down"
    /\ life' = Empty /\ index' = Empty /\ app' = Empty
    /\ edit' = [e \in Editors |-> IdleEdit] /\ alone' = {}
    /\ UNCHANGED <<config, data, stored, kept, edits>>

-----------------------------------------------------------------------------
(* The call of SaveServers with entry i of the copy of V2App.servers       *)
(* changed to v.                                                           *)
Submit(e, i, v) ==
    /\ boot = "up" /\ edit[e].pc = "idle" /\ edits < MaxEdits
    /\ edit' = [edit EXCEPT ![e] = [pc |-> "save", id |-> i, cfg |-> [app EXCEPT ![i] = v]]]
    /\ kept' = [kept EXCEPT ![i] = Nothing]
    /\ alone' = IF Busy = {} THEN {e} ELSE {}
    /\ edits' = edits + 1
    /\ UNCHANGED <<diskVars, copies, fails>>

SaveServer(e) == \E i \in Ids, v \in Values : Submit(e, i, v)

(* Deleting an unknown server returns at once.                             *)
DeleteServer(e) == \E i \in Ids : app[i] # Absent /\ Submit(e, i, Absent)

(* Store.SaveServers: atomicWriteJSON replaces the file.                   *)
WriteFile(cfg) == stored' = cfg

(* Coordinator.SaveServers under its own lock: refused or not written;     *)
(* written to the file and committed to the lifecycle, and then reconciled *)
(* with the routing state, or not, which is an error too.                  *)
StateSave(e) ==
    /\ edit[e].pc = "save"
    /\ \/ /\ Fail /\ edit' = [edit EXCEPT ![e] = IdleEdit] /\ alone' = alone \ {e}
          /\ \/ UNCHANGED <<stored, life>>
             \/ WriteFile(edit[e].cfg) /\ life' = edit[e].cfg
       \/ /\ WriteFile(edit[e].cfg) /\ life' = edit[e].cfg
          /\ edit' = [edit EXCEPT ![e].pc = "index"]
          /\ UNCHANGED <<fails, alone>>
    /\ UNCHANGED <<diskVars, index, app, kept, edits>>

(* indexing.Service.SetServers.                                            *)
IndexSet(e) ==
    /\ edit[e].pc = "index"
    /\ index' = edit[e].cfg /\ edit' = [edit EXCEPT ![e].pc = "app"]
    /\ UNCHANGED <<diskVars, stored, life, app, kept, alone, edits, fails>>

(* The rest of V2App.SaveServers: a.servers, and success is reported.      *)
NewApp_Forgotten(e) == app
NewApp(e) == edit[e].cfg

AppSet(e) ==
    /\ edit[e].pc = "app"
    /\ app' = NewApp(e)
    /\ edit' = [edit EXCEPT ![e] = IdleEdit]
    /\ kept' = [kept EXCEPT ![edit[e].id] =
                   IF e \in alone THEN [val |-> edit[e].cfg[edit[e].id], known |-> TRUE]
                   ELSE Nothing]
    /\ alone' = alone \ {e}
    /\ UNCHANGED <<diskVars, stored, life, index, edits, fails>>

Next ==
    \/ Load \/ CutoverData \/ CommitFresh \/ Crash
    \/ \E e \in Editors : SaveServer(e) \/ DeleteServer(e) \/ StateSave(e) \/ IndexSet(e) \/ AppSet(e)

Spec == Init /\ [][Next]_vars

-----------------------------------------------------------------------------
(* An edit that was acknowledged and that no other edit overlapped is in   *)
(* the file, and while the program is up in every copy, until that server  *)
(* is edited again: whatever other edits, overlapping each other or        *)
(* failing half way, and crashes come after it.  (Edits that overlap do    *)
(* lose each other's change: each writes the whole configuration it read.) *)
EditSurvives ==
    \A i \in Ids : kept[i].known =>
        /\ stored[i] = kept[i].val
        /\ boot = "up" => \A c \in {life, index, app} : c[i] = kept[i].val
=============================================================================

---------------------------- MODULE MCManagerApp ----------------------------
(* Small instances of the two halves of V2App: the Manager and its tunnel  *)
(* (ManagerApp), and the Server Entries (ServerConfig).  They share no     *)
(* variable, so a behaviour runs one of them while the other stands still. *)
EXTENDS ManagerApp

CONSTANTS Ids, Values, Absent, Editors, MaxEdits, MaxFaults

VARIABLES half, boot, config, data, stored, life, index, app, edit, kept, alone, edits, fails

Servers == INSTANCE ServerConfig
serverVars == <<boot, config, data, stored, life, index, app, edit, kept, alone, edits, fails>>

MCSettings == {[tunnel |-> "off", port |-> 1, os |-> 0],
               [tunnel |-> "on", port |-> 1, os |-> 1],
               [tunnel |-> "on", port |-> 2, os |-> 1]}

MCInit ==
    /\ Init /\ Servers!Init /\ half \in {"manager", "servers"}
    /\ half = "manager" => /\ config = "none" /\ active.version # 2 /\ manager.port = 1
                           /\ active = NoActive => cred = "stored"
    /\ half = "servers" => manager.tunnel = Off /\ cred = "stored" /\ active = NoActive

MCNext ==
    \/ half = "manager" /\ Next /\ UNCHANGED <<half, serverVars>>
    \/ half = "servers" /\ Servers!Next /\ UNCHANGED <<half, vars>>

(* The fairness is that of the manager's half; of the servers' half only   *)
(* an invariant is checked.                                                *)
MCSpec == MCInit /\ [][MCNext]_<<half, vars, serverVars>> /\ Fairness

(* EditSurvives of ServerConfig.                                           *)
EditSurvives == Servers!EditSurvives
=============================================================================

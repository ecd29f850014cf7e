----------------------------- MODULE ManagerApp -----------------------------
(***************************************************************************)
(* V2App and its v2ProductRuntime (internal/app): the Manager MCP listener,*)
(* the saving of manager settings, the supervisor of the one               *)
(* tunnel-client process (internal/tunnelclient, internal/process), the    *)
(* installer of its versions, and shutdown.                                *)
(*                                                                         *)
(* Every `go restartManagerTunnel` becomes, once it holds mgrMu, the       *)
(* attempt named by the mgrGen it took; the process an attempt starts has  *)
(* the attempt's name.  Generations are only ever compared for equality,   *)
(* so the counter is a name that is fresh when it is taken: names that     *)
(* nothing refers to any more are used again.  Settings stand for          *)
(* v2config.ManagerConfig: tunnel is what tunnel-client is run with        *)
(* ("off": not enabled or no Tunnel ID), port the listener's port, os the  *)
(* settings that prepareManagerChange applies to the operating system and  *)
(* the logger.                                                             *)
(***************************************************************************)
EXTENDS Integers, FiniteSets

CONSTANTS
    Settings,   \* the manager settings considered: records [tunnel, port, os]
    Savers,     \* goroutines of the interface that call SaveManager
    Versions,   \* released tunnel-client versions, positive numbers
    MaxGen,     \* bound on the generations referred to at one time
    MaxEvents   \* bound on what users and the environment do: credential
                \* writes, updates, rollbacks, failures and crashes together

ASSUME AppAssumption ==
    /\ Settings # {} /\ \A c \in Settings : c.tunnel \in STRING /\ c.port \in Nat \ {0}
    /\ Versions \subseteq Nat \ {0} /\ Versions # {}
    /\ MaxGen \in Nat \ {0} /\ MaxEvents \in Nat

VARIABLES
    ctxDone,    \* V2App.ctx is cancelled
    closer,     \* where Close stands, and the runtime it waits for
    late,       \* restartManagerTunnel goroutines that saw ctx live before it was
                \* cancelled, and enter mgrMu after it
    started, mcp, listening,    \* V2App.started, the port of V2App.mcp, the port listened on
    manager, file, os,  \* V2App.manager, manager.json, what the OS and the logger run with
    saver,      \* the call of SaveManager of each saver
    cred,       \* the runtime API key in the secret store: "none", "stored", or
                \* "broken" (a write cut short; every read fails)
    unread,     \* history: the store does not hold what the last attempt to read it
                \* found, or was changed otherwise than by a call that restarts the
                \* tunnel, and no restart followed
    spawned,    \* restartManagerTunnel goroutines that have not entered mgrMu
    gen, run, status,           \* mgrGen, mgrRuntime (0: nil), mgrStatus.State
    att,        \* the attempts, by generation
    proc,       \* the tunnel-client process of each attempt
    watch, retry,   \* attempts with a live watchManagerTunnel, a pending retry timer
    active, bin, inst,  \* active.json, the binaries on disk, the installs under way
    events      \* how many of the bounded events happened

appVars == <<started, mcp, listening, manager, file, os, saver>>
closeVars == <<ctxDone, closer, late>>
keyVars == <<cred, unread>>
supVars == <<spawned, gen, run, status, att, proc, watch, retry>>
instVars == <<active, bin, inst>>
vars == <<appVars, closeVars, supVars, instVars, keyVars, events>>

Gens == 1 .. MaxGen
Updater == 0                        \* the installs not made by an attempt
NoActive == [version |-> 0, previous |-> 0]
Off == "off"
Idle == [pc |-> "idle", old |-> CHOOSE c \in Settings : TRUE, next |-> CHOOSE c \in Settings : TRUE]
NoAttempt == [at |-> "none", old |-> 0, tunnel |-> Off, url |-> 0, bin |-> 0, out |-> Off]
NoInstall == [at |-> "none", v |-> 0]
Phases == {"none", "stop", "stopping", "config", "install", "launch", "wait",
           "failing", "report", "publish", "dropping", "done"}
Live == {"starting", "up"}          \* processes nobody has signalled

TypeOK ==
    /\ {ctxDone, started, unread} \subseteq BOOLEAN /\ cred \in {"none", "stored", "broken"}
    /\ closer \in {"no", "stopping", "done"} \X (0 .. MaxGen)
    /\ {mcp, listening} \subseteq {c.port : c \in Settings} \cup {0}
    /\ {manager, file} \subseteq Settings
    /\ saver \in [Savers -> [pc : {"idle", "prepared", "saved"}, old : Settings, next : Settings]]
    /\ spawned \in Nat /\ late \in 0 .. spawned /\ gen \in 0 .. MaxGen /\ run \in 0 .. MaxGen
    /\ status \in {"disabled", "starting", "ready", "degraded", "needs_credential", "stopped"}
    /\ \A g \in Gens : att[g].at \in Phases /\ att[g].old \in 0 .. MaxGen
    /\ proc \in [Gens -> {"none", "starting", "up", "stopping", "gone"}]
    /\ watch \subseteq Gens /\ retry \subseteq Gens
    /\ active \in [version : Versions \cup {0}, previous : Versions \cup {0}]
    /\ bin \in [Versions -> {"absent", "partial", "whole"}]
    /\ inst \in [Gens \cup {Updater} -> [at : {"none", "download", "extract", "probe"},
                                        v : Versions \cup {0}]]

(* NewV2App has loaded the settings; Start has not been called.            *)
Init ==
    /\ ctxDone = FALSE /\ closer = <<"no", 0>> /\ late = 0
    /\ manager \in Settings
    /\ file = manager /\ os = manager.os
    /\ started = FALSE /\ mcp = manager.port /\ listening = 0
    /\ saver = [s \in Savers |-> Idle]
    /\ cred \in {"none", "stored"} /\ unread = FALSE
    /\ spawned = 0 /\ gen = 0 /\ run = 0 /\ status = "disabled"
    /\ att = [g \in Gens |-> NoAttempt]
    /\ proc = [g \in Gens |-> "none"]
    /\ watch = {} /\ retry = {}
    /\ \/ active = NoActive /\ bin = [v \in Versions |-> "absent"]
       \/ \E v \in Versions :
            /\ active = [version |-> v, previous |-> 0]
            /\ bin = [w \in Versions |-> IF w = v THEN "whole" ELSE "absent"]
    /\ inst = [i \in Gens \cup {Updater} |-> NoInstall]
    /\ events = 0

Event == events < MaxEvents /\ events' = events + 1
Fault == Event
NoFault == events' = events

(* A call that is given ctx, or a timeout under it, fails at any time, and *)
(* at no cost once ctx is cancelled.                                       *)
Cut == IF ctxDone THEN NoFault ELSE Fault

(* run opens the interface when Start has succeeded; users act, and the    *)
(* updater runs, from then until the end is asked for.  `started` is       *)
(* cleared by a failed save as well and is not asked.                      *)
Opened == (spawned > 0 \/ gen # 0) /\ ~ctxDone

-----------------------------------------------------------------------------
(* The application: Start, SaveManager, shutdown.                          *)

(* V2Server.Start opens the listener on its port, Shutdown closes it.      *)
Listen(port) == listening' = port
Unlisten == listening' = 0

(* V2App.Start, called once by run: the listener, then product.start.  A   *)
(* failed listen ends run, whose deferred Close follows.                   *)
ProductStart == spawned' = 1

Start ==
    /\ ~started /\ ~ctxDone /\ gen = 0 /\ spawned = 0
    /\ \/ /\ started' = TRUE /\ Listen(mcp) /\ ProductStart
          /\ NoFault /\ UNCHANGED ctxDone
       \/ Fault /\ ctxDone' = TRUE /\ UNCHANGED <<started, listening, spawned>>
    /\ UNCHANGED <<mcp, manager, file, os, saver, closer, late, gen, run, status,
                   att, proc, watch, retry, instVars, keyVars>>

(* prepareManagerChange applies next to the operating system and the       *)
(* logger; what it returns undoes that.                                    *)
Prepare(old, next) == os' = IF next.os # old.os THEN next.os ELSE os
Rollback(old, next) == os' = IF next.os # old.os THEN old.os ELSE os

(* SaveManager up to a.mu.Lock: the settings are valid, `old` is a copy of *)
(* the settings of this moment, prepareManagerChange has applied next.     *)
SaveBegin(s) ==
    /\ Opened /\ saver[s].pc = "idle"
    /\ Event
    /\ \E next \in Settings :
        /\ saver' = [saver EXCEPT ![s] = [pc |-> "prepared", old |-> manager, next |-> next]]
        /\ Prepare(manager, next)
    /\ UNCHANGED <<started, mcp, listening, manager, file, closeVars, supVars, instVars,
                   keyVars>>

(* rebuildManagerLocked: a new server for next, not yet listening.         *)
Rebuild(next) == mcp' = next.port

(* SaveManager while it holds a.mu.  It fails when the state is not saved  *)
(* (the file may be written all the same), when the Manager cannot be      *)
(* rebuilt, or when the new listener cannot be opened.                     *)
SaveLocked(s) ==
    LET next == saver[s].next IN
    /\ saver[s].pc = "prepared"
    /\ \/ /\ Fault
          /\ file' \in {file, next} /\ Rollback(saver[s].old, next)
          /\ saver' = [saver EXCEPT ![s] = Idle]
          /\ UNCHANGED <<started, mcp, listening, manager>>
       \/ /\ Fault
          /\ file' = next /\ saver' = [saver EXCEPT ![s] = Idle]
          /\ \/ started /\ Unlisten /\ (UNCHANGED mcp \/ Rebuild(next))
             \/ ~started /\ UNCHANGED <<listening, mcp>>
          /\ started' = FALSE
          /\ UNCHANGED <<manager, os>>
       \/ /\ NoFault
          /\ file' = next /\ manager' = next /\ Rebuild(next)
          /\ IF started THEN Listen(next.port) ELSE UNCHANGED listening
          /\ saver' = [saver EXCEPT ![s].pc = "saved"]
          /\ UNCHANGED <<started, os>>
    /\ UNCHANGED <<closeVars, supVars, instVars, keyVars>>

(* managerChanged, after a.mu is released: restart the tunnel when what    *)
(* it depends on differs between old and next.                             *)
TunnelDiffers_NoPort(old, next) == old.tunnel # next.tunnel
TunnelDiffers(old, next) == old.tunnel # next.tunnel \/ old.port # next.port

ManagerChanged(s) ==
    /\ saver[s].pc = "saved"
    /\ saver' = [saver EXCEPT ![s] = Idle]
    /\ spawned' = spawned + (IF TunnelDiffers(saver[s].old, saver[s].next) THEN 1 ELSE 0)
    /\ UNCHANGED <<started, mcp, listening, manager, file, os, closeVars, gen, run,
                   status, att, proc, watch, retry, instVars, keyVars, events>>

(* PutSecret of the coordinator may fail before the secret store is        *)
(* written, in the middle, or after the key was stored, when the state of  *)
(* the index is read.                                                      *)
PutSecretFails ==
    /\ cred' \in {cred, "stored", "broken"}
    /\ unread' = (unread \/ cred' # cred)

(* SetManagerTunnelCredential: the tunnel is restarted if PutSecret        *)
(* succeeds.  A new key is not told from the old one.                      *)
SetCredential ==
    /\ Opened /\ Event
    /\ \/ cred' = "stored" /\ spawned' = spawned + 1 /\ UNCHANGED unread
       \/ PutSecretFails /\ UNCHANGED spawned
    /\ UNCHANGED <<appVars, closeVars, gen, run, status, att, proc, watch, retry, instVars>>

(* The commands `secret put` and `secret delete` of another process change *)
(* the store without the program being told.                               *)
SecretCommand ==
    /\ Event /\ cred' \in {"none", "stored", "broken"} \ {cred} /\ unread' = TRUE
    /\ UNCHANGED <<appVars, closeVars, supVars, instVars>>

(* A signal handler, the tray or the window asks for the end.              *)
RequestShutdown ==
    /\ Opened /\ ctxDone' = TRUE /\ late' \in 0 .. spawned
    /\ UNCHANGED <<appVars, closer, supVars, instVars, keyVars, events>>

Signalled(p) == [proc EXCEPT ![p] = IF @ \in Live THEN "stopping" ELSE @]
Stopped(p) == proc[p] \in {"gone", "none"}

(* v2ProductRuntime.close takes the runtime under a new generation (0: no  *)
(* attempt's) and signals it.                                              *)
ProductClose ==
    /\ run' = 0 /\ gen' = 0 /\ status' = "stopped"
    /\ closer' = <<"stopping", run>>
    /\ proc' = IF run = 0 THEN proc ELSE Signalled(run)

(* Close: started is cleared under a.mu, then the product is closed.       *)
Close ==
    /\ ctxDone /\ closer = <<"no", 0>>
    /\ started' = FALSE /\ ProductClose
    /\ UNCHANGED <<mcp, listening, manager, file, os, saver, ctxDone, late, spawned, att, watch,
                   retry, instVars, keyVars, events>>

(* Once the runtime is stopped: the server's Shutdown, lifecycle.Close and *)
(* catalog.Close.  Then the program ends, and with it every goroutine.     *)
Exit ==
    /\ closer[1] = "stopping" /\ (closer[2] # 0 => Stopped(closer[2]))
    /\ closer' = <<"done", 0>> /\ Unlisten
    /\ UNCHANGED <<started, mcp, manager, file, os, saver, ctxDone, late, supVars, instVars, keyVars,
                   events>>

exited == closer[1] = "done"

-----------------------------------------------------------------------------
(* The supervisor.  To(g, p) moves attempt g to phase p.                   *)

To(g, p) == att' = [att EXCEPT ![g].at = p]
Finish(g) == att' = [att EXCEPT ![g] = NoAttempt]
Report(g, o) == att' = [att EXCEPT ![g].at = "report", ![g].out = o]

Free == {g \in Gens : /\ g # gen /\ att[g] = NoAttempt /\ proc[g] = "none"
                      /\ g \notin watch \cup retry /\ \A h \in Gens : att[h].old # g}
Fresh == CHOOSE g \in Free : \A h \in Free : g <= h

(* restartManagerTunnel returns when ctx is cancelled, and else takes      *)
(* mgrMu, by when it may have been cancelled (late): the runtime there was *)
(* becomes its own to stop, and the generation its own.                    *)
Restart ==
    /\ spawned > 0 /\ spawned' = spawned - 1
    /\ \/ ctxDone /\ spawned > late /\ UNCHANGED <<late, gen, run, status, att, unread>>
       \/ /\ IF ctxDone THEN late > 0 /\ late' = late - 1 ELSE UNCHANGED late
          /\ Free # {}
          /\ gen' = Fresh /\ run' = 0 /\ status' = "starting" /\ unread' = FALSE
          /\ att' = [att EXCEPT ![Fresh] =
                        [NoAttempt EXCEPT !.at = IF run = 0 THEN "config" ELSE "stop", !.old = run]]
    /\ UNCHANGED <<appVars, ctxDone, closer, proc, watch, retry, instVars, cred, events>>

(* Runtime.Stop and Managed.Stop of the old runtime: signal it, then wait  *)
(* until it is gone.                                                       *)
StopOld(g) ==
    /\ \/ att[g].at = "stop" /\ proc' = Signalled(att[g].old) /\ To(g, "stopping")
       \/ att[g].at = "stopping" /\ Stopped(att[g].old)
          /\ att' = [att EXCEPT ![g].at = "config", ![g].old = 0] /\ UNCHANGED proc
    /\ UNCHANGED <<appVars, closeVars, spawned, gen, run, status, watch, retry, instVars, keyVars, events>>

(* CheckChannel: the release that the channel offers at this moment.       *)
Offered == Versions

(* The attempt copies the settings.  With a tunnel to run, EnsureChannel   *)
(* takes the active version if its file exists, and installs what the      *)
(* channel offers otherwise.                                               *)
Installed == IF active = NoActive THEN FALSE ELSE bin[active.version] # "absent"

Ensure(g) ==
    /\ att[g].at = "config"
    /\ \/ manager.tunnel = Off /\ Report(g, "disabled") /\ UNCHANGED inst
       \/ /\ manager.tunnel # Off /\ Installed
          /\ att' = [att EXCEPT ![g].at = "launch", ![g].tunnel = manager.tunnel,
                                ![g].bin = active.version]
          /\ UNCHANGED inst
       \/ /\ manager.tunnel # Off /\ ~Installed
          /\ att' = [att EXCEPT ![g].at = "install", ![g].tunnel = manager.tunnel]
          /\ \E v \in Offered : inst' = [inst EXCEPT ![g] = [at |-> "download", v |-> v]]
    /\ UNCHANGED <<appVars, closeVars, spawned, gen, run, status, proc, watch, retry, active, bin,
                   keyVars, events>>

(* tunnelclient.Start and process.Start: the URL is that of the server     *)
(* V2App has now.                                                          *)
StartProcess(g) ==
    /\ att' = [att EXCEPT ![g].at = "wait", ![g].url = mcp]
    /\ proc' = [proc EXCEPT ![g] = "starting"]

(* secrets.Get finds out what the store holds, or fails although the store *)
(* is whole: on Linux and macOS that looks like a key that does not exist, *)
(* whatever the reason, on Windows it does not.                            *)
KeyRead(g) == unread' = (unread /\ gen # g)
KeyNotRead(g) ==
    /\ cred # "broken" /\ Cut
    /\ \/ Report(g, "needs_credential") /\ unread' = (unread \/ (gen = g /\ cred = "stored"))
       \/ Report(g, "degraded") /\ UNCHANGED unread

(* The credential, then the capability of the local Manager and the        *)
(* process; a binary that is not whole does not start.                     *)
Launch(g) ==
    /\ att[g].at = "launch"
    /\ \/ KeyNotRead(g) /\ UNCHANGED proc
       \/ /\ KeyRead(g)
          /\ \/ cred = "none" /\ NoFault /\ Report(g, "needs_credential") /\ UNCHANGED proc
             \/ cred = "broken" /\ NoFault /\ Report(g, "degraded") /\ UNCHANGED proc
             \/ cred = "stored" /\ Cut /\ Report(g, "degraded") /\ UNCHANGED proc
             \/ /\ cred = "stored" /\ bin[att[g].bin] # "whole"
                /\ NoFault /\ Report(g, "degraded") /\ UNCHANGED proc
             \/ /\ cred = "stored" /\ bin[att[g].bin] = "whole"
                /\ NoFault /\ StartProcess(g)
    /\ UNCHANGED <<appVars, closeVars, spawned, gen, run, status, watch, retry, instVars, cred>>

(* waitReady: the process polls the control plane, or it ended, or the     *)
(* wait was cut short by a timeout or by shutdown, and it is stopped.      *)
WaitReady(g) ==
    /\ att[g].at = "wait"
    /\ \/ /\ proc[g] = "starting" /\ ~ctxDone
          /\ proc' = [proc EXCEPT ![g] = "up"] /\ To(g, "publish") /\ NoFault
       \/ /\ proc[g] = "gone" /\ Report(g, "degraded")
          /\ proc' = [proc EXCEPT ![g] = "none"] /\ NoFault
       \/ /\ proc[g] = "starting" /\ Cut
          /\ proc' = Signalled(g) /\ To(g, "failing")
    /\ UNCHANGED <<appVars, closeVars, spawned, gen, run, status, watch, retry, instVars, keyVars>>

StartFailed(g) ==
    /\ att[g].at = "failing" /\ Stopped(g) /\ Report(g, "degraded")
    /\ proc' = [proc EXCEPT ![g] = "none"]
    /\ UNCHANGED <<appVars, closeVars, spawned, gen, run, status, watch, retry, instVars,
                   keyVars, events>>

(* setManagerTunnelStatus: only the current generation has a say.          *)
SetStatus_Anyone(g) == status' = att[g].out
SetStatus(g) == status' = IF gen = g THEN att[g].out ELSE status

(* The end of an attempt that started nothing; managerTunnelStartFailed    *)
(* also schedules the retry.                                               *)
ReportStatus(g) ==
    /\ att[g].at = "report"
    /\ SetStatus(g) /\ Finish(g)
    /\ retry' = IF att[g].out = "degraded" /\ ~ctxDone THEN retry \cup {g} ELSE retry
    /\ UNCHANGED <<appVars, closeVars, spawned, gen, run, proc, watch, instVars, keyVars, events>>

(* The started runtime is published under mgrMu unless a newer attempt or  *)
(* shutdown superseded this one.                                           *)
Superseded_Never(g) == ctxDone
Superseded(g) == gen # g \/ ctxDone

Publish(g) ==
    /\ att[g].at = "publish"
    /\ IF Superseded(g)
       THEN /\ proc' = Signalled(g) /\ To(g, "dropping")
            /\ UNCHANGED <<run, status, watch>>
       ELSE /\ run' = g /\ status' = "ready" /\ watch' = watch \cup {g}
            /\ To(g, "done") /\ UNCHANGED proc
    /\ UNCHANGED <<appVars, closeVars, spawned, gen, retry, instVars, keyVars, events>>

Dropped(g) ==
    /\ att[g].at = "dropping" /\ Stopped(g) /\ Finish(g)
    /\ proc' = [proc EXCEPT ![g] = "none"]
    /\ UNCHANGED <<appVars, closeVars, spawned, gen, run, status, watch, retry, instVars,
                   keyVars, events>>

(* watchManagerTunnel: the runtime ended; if it is still the published one *)
(* a retry is scheduled.                                                   *)
Watch(g) ==
    /\ g \in watch /\ proc[g] = "gone" /\ watch' = watch \ {g} /\ Finish(g)
    /\ proc' = [proc EXCEPT ![g] = "none"]
    /\ IF ~ctxDone /\ gen = g /\ run = g
       THEN run' = 0 /\ status' = "degraded" /\ retry' = retry \cup {g}
       ELSE UNCHANGED <<run, status, retry>>
    /\ UNCHANGED <<appVars, closeVars, spawned, gen, instVars, keyVars, events>>

(* The retry timer of scheduleManagerTunnelRetry fires, or shutdown does.  *)
RetryValid(g) == gen = g /\ run = 0

Retry(g) ==
    /\ g \in retry /\ retry' = retry \ {g}
    /\ spawned' = spawned + (IF ~ctxDone /\ RetryValid(g) THEN 1 ELSE 0)
    /\ UNCHANGED <<appVars, closeVars, gen, run, status, att, proc, watch, instVars, keyVars, events>>

(* What happens to a process: it ends of itself, or after Managed.Stop     *)
(* signalled it, at the latest when it is killed at the end of the grace   *)
(* period or of the caller's context.                                      *)
Crash(g) ==
    /\ proc[g] \in Live /\ Fault /\ proc' = [proc EXCEPT ![g] = "gone"]
    /\ UNCHANGED <<appVars, closeVars, spawned, gen, run, status, att, watch, retry, instVars, keyVars>>

Ends(g) ==
    /\ proc[g] = "stopping" /\ proc' = [proc EXCEPT ![g] = "gone"]
    /\ UNCHANGED <<appVars, closeVars, spawned, gen, run, status, att, watch, retry, instVars, keyVars,
                   events>>

-----------------------------------------------------------------------------
(* The installer, which has no lock.  An install is made by attempt i or   *)
(* by InstallTunnelClientUpdate (i = Updater).                             *)

InstallEnds(i, ok) ==
    /\ inst' = [inst EXCEPT ![i] = NoInstall]
    /\ IF i = Updater
       THEN spawned' = spawned + (IF ok THEN 1 ELSE 0) /\ UNCHANGED att
       ELSE /\ UNCHANGED spawned
            /\ IF ok THEN att' = [att EXCEPT ![i].at = "launch", ![i].bin = inst[i].v]
                     ELSE Report(i, "degraded")

InUse(v) == \E g \in Gens : proc[g] \notin {"none", "gone"} /\ att[g].bin = v

(* The archive is fetched and its digest compared before the version's     *)
(* file is opened with O_TRUNC, which fails while the file is running.     *)
Download(i) ==
    LET v == inst[i].v IN
    /\ inst[i].at = "download"
    /\ \/ Fault /\ InstallEnds(i, FALSE) /\ UNCHANGED bin
       \/ InUse(v) /\ NoFault /\ InstallEnds(i, FALSE) /\ UNCHANGED bin
       \/ /\ ~InUse(v) /\ NoFault
          /\ bin' = [bin EXCEPT ![v] = "partial"]
          /\ inst' = [inst EXCEPT ![i].at = "extract"] /\ UNCHANGED <<spawned, att>>
    /\ UNCHANGED <<appVars, closeVars, gen, run, status, proc, watch, retry, active, keyVars>>

Extract(i) ==
    /\ inst[i].at = "extract"
    /\ \/ Fault /\ InstallEnds(i, FALSE) /\ UNCHANGED bin
       \/ /\ NoFault
          /\ bin' = [bin EXCEPT ![inst[i].v] = "whole"]
          /\ inst' = [inst EXCEPT ![i].at = "probe"] /\ UNCHANGED <<spawned, att>>
    /\ UNCHANGED <<appVars, closeVars, gen, run, status, proc, watch, retry, active, keyVars>>

(* writeActive replaces active.json by a rename.                           *)
WriteActive(record) == active' = record

(* promote: the version it replaces is kept as the previous one.           *)
Promoted(v) ==
    [version |-> v, previous |-> IF active.version # v THEN active.version ELSE active.previous]

ProbeAndPromote(i) ==
    /\ inst[i].at = "probe"
    /\ \/ Fault /\ InstallEnds(i, FALSE) /\ UNCHANGED active
       \/ NoFault /\ InstallEnds(i, TRUE) /\ WriteActive(Promoted(inst[i].v))
    /\ UNCHANGED <<appVars, closeVars, gen, run, status, proc, watch, retry, bin, keyVars>>

(* updaterLoop with AutoUpdate (a version other than the current one) or   *)
(* the user (any version) starts an install.                               *)
InstallUpdate ==
    /\ Opened /\ inst[Updater] = NoInstall
    /\ Event
    /\ \E v \in Offered : inst' = [inst EXCEPT ![Updater] = [at |-> "download", v |-> v]]
    /\ UNCHANGED <<appVars, closeVars, supVars, active, bin, keyVars>>

(* RollbackTunnelClient: the previous version if its file exists, else the *)
(* newest other version that has a file, whatever became of its install.   *)
Candidates == {v \in Versions : v # active.version /\ bin[v] # "absent"}
RollbackTo ==
    IF active.previous \in Candidates THEN active.previous
    ELSE CHOOSE v \in Candidates : \A w \in Candidates : w <= v

RollbackTunnelClient ==
    /\ Opened /\ Event
    /\ Candidates # {}
    /\ WriteActive([version |-> RollbackTo, previous |-> active.version])
    /\ spawned' = spawned + 1
    /\ UNCHANGED <<appVars, closeVars, gen, run, status, att, proc, watch, retry, bin, inst, keyVars>>

-----------------------------------------------------------------------------
SaverStep(s) == SaveLocked(s) \/ ManagerChanged(s)
Attempt(g) ==
    \/ StopOld(g) \/ Ensure(g) \/ Launch(g) \/ WaitReady(g) \/ StartFailed(g)
    \/ ReportStatus(g) \/ Publish(g) \/ Dropped(g)
InstallStep(i) == Download(i) \/ Extract(i) \/ ProbeAndPromote(i)

Program ==
    \/ Start \/ SetCredential \/ SecretCommand \/ RequestShutdown \/ Close \/ Exit
    \/ \E s \in Savers : SaveBegin(s) \/ SaverStep(s)
    \/ Restart \/ \E g \in Gens : Attempt(g) \/ Watch(g) \/ Retry(g)
    \/ InstallUpdate \/ RollbackTunnelClient \/ \E i \in Gens \cup {Updater} : InstallStep(i)

Next ==
    \/ ~exited /\ Program
    \/ \E g \in Gens : Crash(g) \/ Ends(g)

(* Goroutines that can run do; a signalled or killed process ends; what    *)
(* the environment does at will (crashes, shutdown) is not assumed.        *)
Fairness ==
    /\ WF_vars(~exited /\ Start)
    /\ WF_vars(~exited /\ Restart)
    /\ WF_vars(Close \/ Exit)
    /\ \A s \in Savers : WF_vars(~exited /\ SaverStep(s))
    /\ \A g \in Gens :
        /\ WF_vars(~exited /\ Attempt(g))
        /\ WF_vars(~exited /\ Watch(g)) /\ WF_vars(~exited /\ Retry(g))
        /\ WF_vars(Ends(g))
    /\ \A i \in Gens \cup {Updater} : WF_vars(~exited /\ InstallStep(i))

Spec == Init /\ [][Next]_vars /\ Fairness

-----------------------------------------------------------------------------
(* What the user is told is the truth: the status says ready exactly while *)
(* a runtime is published, however many attempts, failures and reports of  *)
(* superseded attempts overlap.                                            *)
StatusTruthful == (status = "ready") <=> (run # 0)

(* No stray tunnel: while the program runs, every tunnel-client process    *)
(* that nobody has told to stop is the published runtime, or belongs to    *)
(* the attempt that is starting it, or to the attempt or Close that is     *)
(* about to stop it.  In particular two tunnels never serve side by side.  *)
TunnelOwned ==
    ~exited => \A g \in Gens : proc[g] \in Live =>
        \/ run = g
        \/ att[g].at \in {"wait", "publish"}
        \/ \E h \in Gens : att[h].at = "stop" /\ att[h].old = g

(* The tunnel does what the settings say.                                  *)
TunnelAsSet ==
    IF manager.tunnel = Off THEN run = 0 /\ status = "disabled"
    ELSE IF cred = "none" THEN run = 0 /\ status = "needs_credential"
    ELSE /\ run # 0 /\ proc[run] = "up" /\ att[run].tunnel = manager.tunnel
         /\ started => att[run].url = listening

(* No file that an attempt needs is broken.                                *)
Launchable ==
    /\ cred # "broken"
    /\ IF active = NoActive THEN TRUE ELSE bin[active.version] = "whole"

(* However credential writes, updates, crashes, failures and retries       *)
(* interleave, the supervisor comes back again and again to a state where  *)
(* the tunnel is what the current settings say, unless the application is  *)
(* shut down, a file it needs is broken, or it has not seen what became of *)
(* the key: the last attempt took a key it could not read for missing,     *)
(* storing it was reported as failed although it is stored, or `secret`    *)
(* changed it.  None of these schedules another attempt.  (With two savers *)
(* it fails: a save that overlaps another compares next with an `old` that *)
(* is no longer there, and managerChanged sees no difference.)             *)
TunnelSettles == []<>(ctxDone \/ ~Launchable \/ unread \/ TunnelAsSet)

(* A stored key is used.  The status of a tunnel whose key was not seen    *)
(* says that no key is configured, and stays (restartManagerTunnel).       *)
StoredKeyIsUsed == []<>(ctxDone \/ ~Launchable \/ cred # "stored" \/ TunnelAsSet)

(* docs/adr/0001: the application must own the lifetime of every tunnel it *)
(* starts so all runtimes stop when Tunnel Manager exits.                  *)
NoTunnelOutlivesExit == exited => \A g \in Gens : proc[g] \notin Live
=============================================================================

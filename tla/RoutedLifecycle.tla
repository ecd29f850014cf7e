-------------------------- MODULE RoutedLifecycle --------------------------
(***************************************************************************)
(* The router-native lifecycle service: internal/routedlifecycle.          *)
(*                                                                         *)
(* Every configured server has a serverState guarded by two locks: op, a   *)
(* one-token channel held for the whole of a start, stop, restart, idle    *)
(* stop or commit, and mu, held only for the short sections that read and  *)
(* write the fields.  A mu section is one atomic step here; taking op is   *)
(* merged with the mu section that follows it, and returning the token     *)
(* with the last one, because nobody else can act on the token in between. *)
(* Closing a runtime and connecting one happen under op but outside mu, so *)
(* they are steps of their own.                                            *)
(*                                                                         *)
(* Left out: timestamps (a timer may fire at any time after it is armed),  *)
(* the tool snapshots (see the README), and the counters generation and    *)
(* idleSequence, which only ever serve to recognise that the session or    *)
(* the timer a goroutine captured is no longer the current one.  A session *)
(* identifier is reused only when nothing refers to it, so comparing       *)
(* sessions decides the same; cancelling a timer removes its callback.     *)
(***************************************************************************)
EXTENDS Naturals, FiniteSets

CONSTANTS
    Servers,    \* Server IDs
    Clients,    \* goroutines of routed calls and of the native controls
    Workers,    \* background goroutines: maintainAlwaysOn and StartAlwaysOn
    Sessions,   \* identifiers of downstream runtimes
    Configs,    \* the server configurations SaveServers may be given
    Boot,       \* the configuration loaded at start up
    Jobs,       \* the operations clients perform
    Faults      \* the failures of the environment that may happen

Modes   == {"AlwaysOn", "Managed", "Manual", "Disabled"}
AllJobs == {"acquire", "task", "start", "stop", "restart"}
AllFaults == {"crash", "connect", "close", "contract", "clock",
              "persist", "reconcile", "shutdown"}

NoServer  == "no server"
NoSession == "no session"
Free      == "free"
NoPending == {NoServer}

(***************************************************************************)
(* A Server Entry: its mode, and rev for everything else whose change is   *)
(* runtime-affecting (name, transport, environment, runtime settings).     *)
(***************************************************************************)
Entries == [mode : Modes, rev : Nat]
Absent  == [mode |-> "Absent", rev |-> 0]

ASSUME ConstantsAssumption ==
    /\ IsFiniteSet(Clients)
    /\ Clients \cap Workers = {}
    /\ {"free", "commit", "close", "idle"} \cap (Clients \cup Workers) = {}
    /\ NoServer \notin Servers
    /\ NoSession \notin Sessions
    /\ Boot \in [Servers -> Entries \cup {Absent}]
    /\ Configs \subseteq [Servers -> Entries \cup {Absent}]
    /\ Jobs \subseteq AllJobs
    /\ Faults \subseteq AllFaults

VARIABLES
    st,         \* [Servers -> serverState]
    sess,       \* [Sessions -> the downstream runtime]
    act,        \* [Actors -> local state of a goroutine]
    held,       \* [Servers -> runtime an idle stop, commit or Close took out]
    booting,    \* servers StartAlwaysOn has still to start
    shut,       \* progress of Service.Close
    mut,        \* the SaveServers call in progress, if any
    pending,    \* Service.pending: servers of the prepared mutation
    servers,    \* Coordinator.servers: what the next SaveServers diffs against
    closing,    \* Service.closing
    ctxDone     \* Service.ctx is cancelled

vars == <<st, sess, act, held, booting, shut, mut, pending, servers, closing, ctxDone>>

Actors == Clients \cup Workers
Owners == Actors \cup {Free, "commit", "close", "idle"}

-----------------------------------------------------------------------------
(* serverState and the helpers that run with its mu held. *)

serverState ==
    [registered : BOOLEAN, deleted : BOOLEAN, entry : Entries \cup {Absent},
     op : Owners, session : Sessions \cup {NoSession}, active : Nat,
     mutating : BOOLEAN, runtimeChanging : BOOLEAN,
     idle : {"none", "armed", "fired"}, idleSession : Sessions \cup {NoSession}]

newServerState(entry) ==
    [registered |-> entry # Absent, deleted |-> FALSE, entry |-> entry,
     op |-> Free, session |-> NoSession, active |-> 0,
     mutating |-> FALSE, runtimeChanging |-> FALSE,
     idle |-> "none", idleSession |-> NoSession]

Busy(r) == r.active > 0 \/ r.mutating \/ r.runtimeChanging

cancelIdleLocked(r) == [r EXCEPT !.idle = "none", !.idleSession = NoSession]

scheduleIdleLocked(r) ==
    IF \/ closing \/ r.deleted \/ r.entry.mode # "Managed" \/ r.active # 0
       \/ r.session = NoSession \/ r.mutating \/ r.runtimeChanging
    THEN cancelIdleLocked(r)
    ELSE [r EXCEPT !.idle = "armed", !.idleSession = r.session]

\* Every path that takes the runtime away: session = nil and cancelIdleLocked.
Detach(r) == [cancelIdleLocked(r) EXCEPT !.session = NoSession]

\* Mutant of releaseLocked: the last release does not start the idle clock.
releaseLockedUnarmed(r) == [r EXCEPT !.active = IF @ > 0 THEN @ - 1 ELSE 0]

\* release: one lease less, and the idle clock starts with the last one.
releaseLocked(r) ==
    LET dec == [r EXCEPT !.active = IF @ > 0 THEN @ - 1 ELSE 0]
    IN  IF dec.active = 0 THEN scheduleIdleLocked(dec) ELSE dec

\* A failed Acquire gives its lease back without touching the idle timer.
Unuse(r) == [r EXCEPT !.active = IF @ > 0 THEN @ - 1 ELSE 0]

-----------------------------------------------------------------------------
(* Downstream runtimes. reap: the watcher has detached it and is closing it. *)

NoRuntime == [status |-> "free", srv |-> NoServer, entry |-> Absent,
              changed |-> FALSE, watched |-> FALSE, reap |-> "no"]

Runtime ==
    [status : {"free", "live", "exited"}, srv : Servers \cup {NoServer},
     entry : Entries \cup {Absent}, changed : BOOLEAN, watched : BOOLEAN,
     reap : {"no", "close", "maintain"}]

Connected(s, entry) ==
    [NoRuntime EXCEPT !.status = "live", !.srv = s, !.entry = entry]

Live(x)     == sess[x].status = "live"
Exited(x)   == sess[x].status = "exited"

closeRuntime(x) == [sess EXCEPT ![x] = NoRuntime]

\* The session of r can no longer be handed out.
sessionStale(r) ==
    r.session # NoSession /\ (Exited(r.session) \/ sess[r.session].changed)

sessionContractChanged(r) == r.session # NoSession /\ sess[r.session].changed

-----------------------------------------------------------------------------
(* Goroutines. pc "wait" is a wait for op; with pc in OpPcs op is held.      *)
(* x is the session being closed, just connected, or leased, by pc.          *)

OpPcs   == {"close", "connect", "install", "discard"}
Pcs     == {"idle", "wait", "leased", "done", "check"} \cup OpPcs
UseJobs == {"acquire", "task"}

Idle == [pc |-> "idle", job |-> "none", srv |-> NoServer, x |-> NoSession,
         entry |-> Absent, cancelled |-> FALSE, released |-> FALSE,
         timer |-> "none", loop |-> FALSE]

ActorState ==
    [pc : Pcs, job : AllJobs \cup {"none", "drop"}, srv : Servers \cup {NoServer},
     x : Sessions \cup {NoSession}, entry : Entries \cup {Absent},
     cancelled : BOOLEAN, released : BOOLEAN,
     timer : {"none", "armed", "fired"}, loop : BOOLEAN]

Maintaining(s) == [Idle EXCEPT !.pc = "check", !.srv = s, !.loop = TRUE]

\* What a goroutine does after an operation failed: the maintainer loops.
Failed(a) == IF act[a].loop THEN Maintaining(act[a].srv) ELSE Idle

Become(a, rec) == act' = [act EXCEPT ![a] = rec]

\* The goroutines that count in active: mid-Acquire, or holding a lease.
Uses(a, s) ==
    /\ act[a].srv = s
    /\ act[a].job \in UseJobs
    /\ \/ act[a].pc \in OpPcs
       \/ act[a].pc = "leased" /\ ~act[a].released

Users(s) == {c \in Clients : Uses(c, s)}

Init ==
    /\ st = [s \in Servers |-> newServerState(Boot[s])]
    /\ sess = [x \in Sessions |-> NoRuntime]
    /\ act = [a \in Actors |-> Idle]
    /\ held = [s \in Servers |-> NoSession]
    /\ booting = {s \in Servers : Boot[s].mode = "AlwaysOn"}
    /\ shut = [phase |-> "up", todo |-> {}]
    /\ mut = [pc |-> "idle", next |-> Boot, todo |-> {}, claimed |-> {}, fresh |-> {}]
    /\ pending = NoPending
    /\ servers = Boot
    /\ closing = FALSE
    /\ ctxDone = FALSE


background == <<held, booting, shut, mut, pending, servers, closing, ctxDone>>

-----------------------------------------------------------------------------
(* Client operations: Acquire, AcquireTaskLease, Start, Stop, Restart.       *)

\* The checks an operation makes before it waits for op.
Admitted(job, r) ==
    /\ r.registered
    /\ job \in UseJobs \cup {"start"} => ~closing
    /\ job = "stop" => r.entry.mode # "AlwaysOn" /\ ~Busy(r)
    /\ job = "restart" => r.entry.mode # "Disabled" /\ ~Busy(r)

Begin(c, s, job) ==
    /\ act[c] = Idle
    /\ job \in Jobs
    /\ Admitted(job, st[s])
    /\ Become(c, [Idle EXCEPT !.pc = "wait", !.job = job, !.srv = s])
    /\ UNCHANGED <<st, sess, background>>

\* lockOperation returns the error of a cancelled context.
GiveUp(a) ==
    /\ act[a].pc = "wait"
    /\ a \in Clients \/ ctxDone
    /\ Become(a, Failed(a))
    /\ UNCHANGED <<st, sess, background>>

\* Mutant of Rejected: Stop does not repeat its busy check once it has op.
RejectedStopUnchecked(job, r) ==
    CASE job \in UseJobs \cup {"start"} ->
             \/ r.deleted \/ r.mutating \/ r.runtimeChanging
             \/ r.entry.mode = "Disabled"
             \/ sessionContractChanged(r) /\ r.active > 0
      [] job = "stop"    -> r.deleted \/ r.entry.mode = "AlwaysOn"
      [] job = "restart" -> Busy(r)

\* Mutant of Rejected: a waiter does not notice that its server was deleted.
RejectedNotDeleted(job, r) ==
    CASE job \in UseJobs \cup {"start"} ->
             \/ r.mutating \/ r.runtimeChanging
             \/ r.entry.mode = "Disabled"
             \/ sessionContractChanged(r) /\ r.active > 0
      [] job = "stop"    -> r.entry.mode = "AlwaysOn" \/ Busy(r)
      [] job = "restart" -> Busy(r)

\* The checks of the first mu section after op is taken.
Rejected(job, r) ==
    CASE job \in UseJobs \cup {"start"} ->
             \/ r.deleted \/ r.mutating \/ r.runtimeChanging
             \/ r.entry.mode = "Disabled"
             \/ sessionContractChanged(r) /\ r.active > 0
      [] job = "stop"    -> r.deleted \/ r.entry.mode = "AlwaysOn" \/ Busy(r)
      [] job = "restart" -> Busy(r)

\* a has its turn on op: it is at the head of an operation of kind jobs.
Enters(a, jobs) ==
    /\ act[a].pc = "wait"
    /\ act[a].job \in jobs
    /\ st[act[a].srv].op = Free

Refuse(a) ==
    /\ Enters(a, AllJobs)
    /\ Rejected(act[a].job, st[act[a].srv])
    /\ Become(a, Failed(a))
    /\ UNCHANGED <<st, sess, background>>

\* Acquire on a Manual server without a usable runtime: only the stale runtime
\* that was found, if any, is closed.
AcquireManualStopped(a) ==
    LET s == act[a].srv
        r == st[s]
    IN  /\ Enters(a, UseJobs)
        /\ ~Rejected(act[a].job, r)
        /\ r.entry.mode = "Manual"
        /\ r.session = NoSession \/ sessionStale(r)
        /\ IF sessionStale(r)
           THEN /\ st' = [st EXCEPT ![s] = [Detach(r) EXCEPT !.op = a]]
                /\ Become(a, [act[a] EXCEPT !.pc = "close", !.job = "drop",
                                            !.x = r.session])
           ELSE Become(a, Failed(a)) /\ UNCHANGED st
        /\ UNCHANGED <<sess, background>>

Leased(a, x) ==
    [Idle EXCEPT !.pc = "leased", !.job = act[a].job, !.srv = act[a].srv, !.x = x,
                 !.timer = IF act[a].job = "task" THEN "armed" ELSE "none"]

\* Acquire hands out the running session.
AcquireReuse(a) ==
    LET s == act[a].srv
        r == st[s]
    IN  /\ Enters(a, UseJobs)
        /\ ~Rejected(act[a].job, r)
        /\ r.session # NoSession /\ ~sessionStale(r)
        /\ st' = [st EXCEPT ![s] = [cancelIdleLocked(r) EXCEPT !.active = @ + 1]]
        /\ Become(a, Leased(a, r.session))
        /\ UNCHANGED <<sess, background>>

\* op is kept: first the stale runtime x is closed, if there is one, then a
\* new one is connected with the entry as it is now.
Proceed(a, x, entry) ==
    [act[a] EXCEPT !.pc = IF x = NoSession THEN "connect" ELSE "close",
                   !.x = x, !.entry = entry, !.cancelled = ctxDone]

\* Acquire without a usable session counts its lease before it connects.
AcquireColdStart(a) ==
    LET s == act[a].srv
        r == st[s]
    IN  /\ Enters(a, UseJobs)
        /\ ~Rejected(act[a].job, r)
        /\ r.entry.mode # "Manual"
        /\ r.session = NoSession \/ sessionStale(r)
        /\ st' = [st EXCEPT ![s] = [Detach(r) EXCEPT !.active = @ + 1, !.op = a]]
        /\ Become(a, Proceed(a, r.session, r.entry))
        /\ UNCHANGED <<sess, background>>

\* startState finds the server running.
StartRunning(a) ==
    LET r == st[act[a].srv]
    IN  /\ Enters(a, {"start"})
        /\ ~Rejected("start", r)
        /\ r.session # NoSession /\ ~sessionStale(r)
        /\ Become(a, Idle)
        /\ UNCHANGED <<st, sess, background>>

StartCold(a) ==
    LET s == act[a].srv
        r == st[s]
    IN  /\ Enters(a, {"start"})
        /\ ~Rejected("start", r)
        /\ r.session = NoSession \/ sessionStale(r)
        /\ st' = [st EXCEPT ![s] = [Detach(r) EXCEPT !.runtimeChanging = TRUE,
                                                     !.op = a]]
        /\ Become(a, Proceed(a, r.session, r.entry))
        /\ UNCHANGED <<sess, background>>

\* Mutant of StopEnter: the runtime is taken out and never closed.
StopEnterNoClose(a) ==
    LET s == act[a].srv
        r == st[s]
    IN  /\ Enters(a, {"stop"})
        /\ ~Rejected("stop", r)
        /\ st' = [st EXCEPT ![s] = Detach(r)]
        /\ Become(a, Idle)
        /\ UNCHANGED <<sess, background>>

StopEnter(a) ==
    LET s == act[a].srv
        r == st[s]
    IN  /\ Enters(a, {"stop"})
        /\ ~Rejected("stop", r)
        /\ IF r.session = NoSession
           THEN /\ st' = [st EXCEPT ![s] = Detach(r)]
                /\ Become(a, Idle)
           ELSE /\ st' = [st EXCEPT ![s] = [Detach(r) EXCEPT !.runtimeChanging = TRUE,
                                                             !.op = a]]
                /\ Become(a, [act[a] EXCEPT !.pc = "close", !.x = r.session])
        /\ UNCHANGED <<sess, background>>

\* Mutant of RestartEnter: the new runtime is connected before the old is closed.
RestartEnterOverlap(a) ==
    LET s == act[a].srv
        r == st[s]
    IN  /\ Enters(a, {"restart"})
        /\ ~Rejected("restart", r)
        /\ st' = [st EXCEPT ![s] = [Detach(r) EXCEPT !.runtimeChanging = TRUE,
                                                     !.op = a]]
        /\ Become(a, Proceed(a, NoSession, r.entry))
        /\ UNCHANGED <<sess, background>>

\* Restart repeats only the busy check once it has op.
RestartEnter(a) ==
    LET s == act[a].srv
        r == st[s]
    IN  /\ Enters(a, {"restart"})
        /\ ~Rejected("restart", r)
        /\ st' = [st EXCEPT ![s] = [Detach(r) EXCEPT !.runtimeChanging = TRUE,
                                                     !.op = a]]
        /\ Become(a, Proceed(a, r.session, r.entry))
        /\ UNCHANGED <<sess, background>>

\* Mutant of Finish: a failed Acquire keeps its lease.
FinishKeepsLease(a) ==
    LET r == st[act[a].srv]
    IN  IF act[a].job \in UseJobs \cup {"drop"}
        THEN [r EXCEPT !.op = Free]
        ELSE [r EXCEPT !.runtimeChanging = FALSE, !.op = Free]

\* Mutant of Finish: the error path leaves runtimeChanging up.
FinishKeepsChanging(a) ==
    LET r == st[act[a].srv]
    IN  IF act[a].job \in UseJobs
        THEN [Unuse(r) EXCEPT !.op = Free]
        ELSE [r EXCEPT !.op = Free]

\* Mutant of Finish: the error path does not return the token of op.
FinishKeepsOp(a) ==
    LET r == st[act[a].srv]
    IN  IF act[a].job \in UseJobs THEN Unuse(r) ELSE [r EXCEPT !.runtimeChanging = FALSE]

\* The end of an operation that holds op: runtimeChanging is lowered, the lease
\* of a failed Acquire is taken back, and op is returned.
Finish(a) ==
    LET r == st[act[a].srv]
    IN  IF act[a].job \in UseJobs \cup {"drop"}
        THEN [(IF act[a].job = "drop" THEN r ELSE Unuse(r)) EXCEPT !.op = Free]
        ELSE [r EXCEPT !.runtimeChanging = FALSE, !.op = Free]

\* closeRuntime of the runtime that was taken out. A failed close ends only
\* Restart; a stop or the manual refusal ends here anyway.
CloseOld(a) ==
    LET s == act[a].srv
    IN  /\ act[a].pc = "close"
        /\ sess' = closeRuntime(act[a].x)
        /\ \/ /\ act[a].job \in UseJobs \cup {"start", "restart"}
              /\ Become(a, Proceed(a, NoSession, act[a].entry))
              /\ UNCHANGED st
           \/ /\ \/ act[a].job \in {"stop", "drop"}
                 \/ act[a].job = "restart" /\ "close" \in Faults
              /\ st' = [st EXCEPT ![s] = Finish(a)]
              /\ Become(a, Idle)
        /\ UNCHANGED background

\* Connect refuses a Disabled entry, and a context that is already cancelled.
ConnectFail(a) ==
    /\ act[a].pc = "connect"
    /\ "connect" \in Faults \/ ctxDone \/ act[a].entry.mode = "Disabled"
    /\ st' = [st EXCEPT ![act[a].srv] = Finish(a)]
    /\ Become(a, Failed(a))
    /\ UNCHANGED <<sess, background>>

\* Acquire and startState look at closing again once they are connected.
ConnectOK(a, x) ==
    /\ act[a].pc = "connect"
    /\ ~act[a].cancelled /\ act[a].entry.mode # "Disabled"
    /\ sess[x] = NoRuntime
    /\ \A b \in Actors : act[b].x # x
    /\ sess' = [sess EXCEPT ![x] = Connected(act[a].srv, act[a].entry)]
    /\ Become(a, [act[a] EXCEPT
           !.pc = IF closing /\ act[a].job # "restart" THEN "discard" ELSE "install",
           !.x = x])
    /\ UNCHANGED <<st, background>>

Discard(a) ==
    /\ act[a].pc = "discard"
    /\ sess' = closeRuntime(act[a].x)
    /\ st' = [st EXCEPT ![act[a].srv] = Finish(a)]
    /\ Become(a, Failed(a))
    /\ UNCHANGED background

\* The connected session becomes the server's, with a watcher on it.
Install(a) ==
    LET s == act[a].srv
        r == [st[s] EXCEPT !.session = act[a].x]
    IN  /\ act[a].pc = "install"
        /\ IF act[a].job \in UseJobs
           THEN IF r.deleted \/ r.mutating \/ r.runtimeChanging
                THEN /\ st' = [st EXCEPT ![s] = Finish(a)]
                     /\ sess' = closeRuntime(act[a].x)
                     /\ Become(a, Failed(a))
                ELSE /\ st' = [st EXCEPT ![s] = [r EXCEPT !.op = Free]]
                     /\ sess' = [sess EXCEPT ![act[a].x].watched = TRUE]
                     /\ Become(a, Leased(a, act[a].x))
           ELSE LET done == [r EXCEPT !.runtimeChanging = FALSE, !.op = Free]
                IN  /\ st' = [st EXCEPT ![s] = IF r.active = 0
                                               THEN scheduleIdleLocked(done)
                                               ELSE done]
                    /\ sess' = [sess EXCEPT ![act[a].x].watched = TRUE]
                    /\ Become(a, Idle)
        /\ UNCHANGED background

-----------------------------------------------------------------------------
(* Use leases. Release may be called by the holder and by the expiry timer   *)
(* of a task lease; the CompareAndSwap on released lets one of them through. *)

\* Mutant of releaseOnce: no CompareAndSwap, and no clamp at zero.
releaseTwice(c) == st' = [st EXCEPT ![act[c].srv].active = @ - 1]

releaseOnce(c) ==
    st' = [st EXCEPT ![act[c].srv] = IF act[c].released THEN @ ELSE releaseLocked(@)]

Release(c) ==
    /\ act[c].pc = "leased"
    /\ releaseOnce(c)
    /\ Become(c, IF act[c].timer = "fired"
                 THEN [act[c] EXCEPT !.pc = "done", !.released = TRUE]
                 ELSE Idle)
    /\ UNCHANGED <<sess, background>>

TaskExpires(c) ==
    /\ act[c].timer = "armed"
    /\ Become(c, [act[c] EXCEPT !.timer = "fired"])
    /\ UNCHANGED <<st, sess, background>>

ExpiryRelease(c) ==
    /\ act[c].timer = "fired"
    /\ releaseOnce(c)
    /\ Become(c, IF act[c].pc = "done"
                 THEN Idle
                 ELSE [act[c] EXCEPT !.released = TRUE, !.timer = "none"])
    /\ UNCHANGED <<sess, background>>

-----------------------------------------------------------------------------
(* The environment: an owned process exits, or a call sees tool drift.       *)

Crash(x) ==
    /\ "crash" \in Faults
    /\ Live(x)
    /\ sess' = [sess EXCEPT ![x].status = "exited"]
    /\ UNCHANGED <<st, act, background>>

ContractChange(x) ==
    /\ "contract" \in Faults
    /\ Live(x) /\ ~sess[x].changed
    /\ \E c \in Clients : act[c].pc = "leased" /\ act[c].x = x
    /\ sess' = [sess EXCEPT ![x].changed = TRUE]
    /\ UNCHANGED <<st, act, background>>

-----------------------------------------------------------------------------
(* Background goroutines: watchSession, maintainAlwaysOn, StartAlwaysOn.     *)

FreeWorker(w) == w \in Workers /\ act[w] = Idle

\* go s.maintainAlwaysOn(st). Workers bounds the goroutines: when none is free, a
\* further maintainer of s is taken for one that already loops on s.
GoMaintain(s) ==
    \/ \E w \in Workers : FreeWorker(w) /\ Become(w, Maintaining(s))
    \/ /\ \A w \in Workers : ~FreeWorker(w)
       /\ \E w \in Workers : act[w].loop /\ act[w].srv = s
       /\ UNCHANGED act

\* watchSession: the exit of the current runtime takes it out of the server.
WatchDetach(x) ==
    LET s == sess[x].srv
        r == st[s]
    IN  /\ Exited(x) /\ sess[x].watched /\ sess[x].reap = "no"
        /\ r.op = Free /\ ~r.deleted /\ r.session = x
        /\ st' = [st EXCEPT ![s] = Detach(r)]
        /\ sess' = [sess EXCEPT ![x].reap =
               IF r.entry.mode = "AlwaysOn" /\ ~r.mutating /\ ~closing
               THEN "maintain" ELSE "close"]
        /\ UNCHANGED <<act, background>>

\* Mutant of WatchClose: the watcher does not start the maintainer.
WatchCloseOnly(x) ==
    /\ sess[x].reap # "no"
    /\ sess' = closeRuntime(x)
    /\ UNCHANGED <<st, act, background>>

\* The exited runtime is closed after op was returned.
WatchClose(x) ==
    /\ sess[x].reap # "no"
    /\ sess' = closeRuntime(x)
    /\ IF sess[x].reap = "maintain" THEN GoMaintain(sess[x].srv) ELSE UNCHANGED act
    /\ UNCHANGED <<st, background>>

MaintainExit(w) ==
    LET r == st[act[w].srv]
    IN  /\ act[w].pc = "check"
        /\ \/ closing \/ ctxDone
           \/ r.deleted \/ r.entry.mode # "AlwaysOn" \/ r.session # NoSession
        /\ Become(w, Idle)
        /\ UNCHANGED <<st, sess, background>>

\* While the server is mutating or changing the loop only waits.
MaintainTry(w) ==
    LET r == st[act[w].srv]
    IN  /\ act[w].pc = "check"
        /\ ~closing
        /\ ~r.deleted /\ r.entry.mode = "AlwaysOn" /\ r.session = NoSession
        /\ ~r.mutating /\ ~r.runtimeChanging
        /\ Become(w, [act[w] EXCEPT !.pc = "wait", !.job = "start"])
        /\ UNCHANGED <<st, sess, background>>

\* StartAlwaysOn: one startState per Always On server, its error is dropped.
StartAlwaysOn(s, w) ==
    /\ s \in booting
    /\ FreeWorker(w)
    /\ booting' = booting \ {s}
    /\ IF closing
       THEN UNCHANGED act
       ELSE Become(w, [Idle EXCEPT !.pc = "wait", !.job = "start", !.srv = s])
    /\ UNCHANGED <<st, sess, held, shut, mut, pending, servers, closing, ctxDone>>

-----------------------------------------------------------------------------
(* The idle timer.                                                           *)

afterHeld == <<booting, shut, mut, pending, servers, closing, ctxDone>>

IdleFire(s) ==
    /\ st[s].idle = "armed"
    /\ st' = [st EXCEPT ![s].idle = "fired"]
    /\ UNCHANGED <<sess, act, background>>

IdleEligible(r) ==
    /\ ~r.deleted /\ r.entry.mode = "Managed" /\ r.active = 0
    /\ ~r.mutating /\ ~r.runtimeChanging /\ r.session = r.idleSession

\* idleStop returns without a new timer when the server is not eligible now.
IdleDrop(s) ==
    /\ st[s].idle = "fired"
    /\ closing \/ ctxDone \/ (st[s].op = Free /\ ~IdleEligible(st[s]))
    /\ st' = [st EXCEPT ![s] = cancelIdleLocked(@)]
    /\ UNCHANGED <<sess, act, background>>

\* The deadline has moved past now: the timer is armed again.
IdleEarly(s) ==
    /\ "clock" \in Faults
    /\ st[s].idle = "fired" /\ ~closing
    /\ st[s].op = Free /\ IdleEligible(st[s])
    /\ st' = [st EXCEPT ![s] = scheduleIdleLocked(@)]
    /\ UNCHANGED <<sess, act, background>>

idleStop(s) ==
    /\ st[s].idle = "fired" /\ ~closing
    /\ st[s].op = Free /\ IdleEligible(st[s])
    /\ held' = [held EXCEPT ![s] = st[s].session]
    /\ st' = [st EXCEPT ![s] = [Detach(@) EXCEPT !.runtimeChanging = TRUE,
                                                 !.op = "idle"]]
    /\ UNCHANGED <<sess, act, afterHeld>>

\* The holder of op closes the runtime it took out and returns op.
CloseHeld(s, r) ==
    /\ held' = [held EXCEPT ![s] = NoSession]
    /\ sess' = IF held[s] = NoSession THEN sess ELSE closeRuntime(held[s])
    /\ st' = [st EXCEPT ![s] = [r EXCEPT !.runtimeChanging = FALSE, !.op = Free]]

IdleFinish(s) ==
    /\ st[s].op = "idle"
    /\ CloseHeld(s, st[s])
    /\ UNCHANGED <<act, afterHeld>>

-----------------------------------------------------------------------------
(* A server mutation: Coordinator.SaveServers (one at a time, under its own  *)
(* mutex) around PrepareServerMutation, CommitServerMutation and             *)
(* AbortServerMutation. While mut.pc = "claim" Service.mutationMu is held.   *)

unmoved == <<act, held, booting, shut, closing, ctxDone>>

\* Mutant of Affected: a change of mode does not count as runtime-affecting.
AffectedByContent(current, next) ==
    {s \in Servers : current[s] # Absent /\ next[s].rev # current[s].rev}

\* runtimeAffectingServerIDs
Affected(current, next) ==
    {s \in Servers : current[s] # Absent /\ next[s] # current[s]}

Unclaim(S) == [s \in Servers |-> IF s \in S THEN [st[s] EXCEPT !.mutating = FALSE]
                                            ELSE st[s]]

\* A Server ID is generated, so a deleted one does not come back.
SaveServers(next) ==
    /\ mut.pc = "idle" /\ ~closing
    /\ \A s \in Servers : st[s].deleted => next[s] = Absent
    /\ mut' = [mut EXCEPT !.pc = "prepare", !.next = next]
    /\ UNCHANGED <<st, sess, pending, servers, unmoved>>

PrepareBegin ==
    /\ mut.pc = "prepare"
    /\ mut' = [mut EXCEPT !.pc = "claim", !.todo = Affected(servers, mut.next)]
    /\ UNCHANGED <<st, sess, pending, servers, unmoved>>

\* Mutant of PrepareClaim: active leases do not make the server busy.
PrepareClaimInUse(s) ==
    /\ mut.pc = "claim" /\ s \in mut.todo
    /\ st[s].registered => ~(st[s].deleted \/ st[s].mutating \/ st[s].runtimeChanging)
    /\ st' = IF st[s].registered THEN [st EXCEPT ![s].mutating = TRUE] ELSE st
    /\ mut' = [mut EXCEPT !.todo = @ \ {s},
                          !.claimed = IF st[s].registered THEN @ \cup {s} ELSE @]
    /\ UNCHANGED <<sess, pending, servers, unmoved>>

\* The reservation of one affected server; a server that is not (or no longer)
\* in the map is skipped.
PrepareClaim(s) ==
    /\ mut.pc = "claim" /\ s \in mut.todo
    /\ st[s].registered => ~(st[s].deleted \/ Busy(st[s]))
    /\ st' = IF st[s].registered THEN [st EXCEPT ![s].mutating = TRUE] ELSE st
    /\ mut' = [mut EXCEPT !.todo = @ \ {s},
                          !.claimed = IF st[s].registered THEN @ \cup {s} ELSE @]
    /\ UNCHANGED <<sess, pending, servers, unmoved>>

\* Mutant of PrepareBusy: the earlier reservations stay.
PrepareBusyNoRollback(s) ==
    /\ mut.pc = "claim" /\ s \in mut.todo
    /\ st[s].registered /\ (st[s].deleted \/ Busy(st[s]))
    /\ mut' = [mut EXCEPT !.pc = "idle", !.next = servers, !.todo = {}, !.claimed = {}]
    /\ UNCHANGED <<st, sess, pending, servers, unmoved>>

\* server_busy: the earlier reservations are dropped and SaveServers fails.
PrepareBusy(s) ==
    /\ mut.pc = "claim" /\ s \in mut.todo
    /\ st[s].registered /\ (st[s].deleted \/ Busy(st[s]))
    /\ st' = Unclaim(mut.claimed)
    /\ mut' = [mut EXCEPT !.pc = "idle", !.next = servers, !.todo = {}, !.claimed = {}]
    /\ UNCHANGED <<sess, pending, servers, unmoved>>

PrepareDone ==
    /\ mut.pc = "claim" /\ mut.todo = {}
    /\ pending' = mut.claimed
    /\ mut' = [mut EXCEPT !.pc = "prepared", !.claimed = {}]
    /\ UNCHANGED <<st, sess, servers, unmoved>>

\* The hash or the config file could not be written: AbortServerMutation.
PersistFail ==
    /\ "persist" \in Faults
    /\ mut.pc = "prepared"
    /\ st' = IF pending = NoPending THEN st ELSE Unclaim(pending)
    /\ pending' = NoPending
    /\ mut' = [mut EXCEPT !.pc = "idle", !.next = servers]
    /\ UNCHANGED <<sess, servers, unmoved>>

\* CommitServerMutation takes pending, which Close may have cleared meanwhile,
\* and adds the new servers to the map.
CommitBegin ==
    LET fresh == {s \in Servers : mut.next[s] # Absent /\ ~st[s].registered}
    IN  /\ mut.pc = "prepared"
        /\ st' = [s \in Servers |-> IF s \in fresh THEN newServerState(mut.next[s])
                                                   ELSE st[s]]
        /\ mut' = [mut EXCEPT !.pc = "commit",
                     !.todo = {s \in Servers : st[s].registered} \cup fresh,
                     !.claimed = IF pending = NoPending THEN {} ELSE pending,
                     !.fresh = {s \in fresh : mut.next[s].mode = "AlwaysOn"}]
        /\ pending' = NoPending
        /\ UNCHANGED <<sess, servers, unmoved>>

\* The servers are committed one after the other, in no particular order.
BetweenServers == \A s \in Servers : st[s].op # "commit"

\* A server that was not reserved only gets its new entry.
CommitKeep(s) ==
    /\ mut.pc = "commit" /\ s \in mut.todo \ mut.claimed
    /\ BetweenServers
    /\ st' = IF mut.next[s] # Absent THEN [st EXCEPT ![s].entry = mut.next[s]] ELSE st
    /\ mut' = [mut EXCEPT !.todo = @ \ {s}]
    /\ UNCHANGED <<sess, pending, servers, unmoved>>

CommitDetach(s) ==
    /\ mut.pc = "commit" /\ s \in mut.todo \cap mut.claimed
    /\ BetweenServers
    /\ st[s].op = Free
    /\ held' = [held EXCEPT ![s] = st[s].session]
    /\ st' = [st EXCEPT ![s] =
           [Detach(@) EXCEPT !.op = "commit",
                             !.runtimeChanging = st[s].session # NoSession,
                             !.deleted = mut.next[s] = Absent,
                             !.entry = IF mut.next[s] = Absent THEN st[s].entry
                                                               ELSE mut.next[s]]]
    /\ mut' = [mut EXCEPT !.todo = @ \ {s}]
    /\ UNCHANGED <<sess, pending, servers, act, booting, shut, closing, ctxDone>>

\* The runtime is closed, a deleted server leaves the map, the reservation ends.
CommitFinish(s) ==
    /\ st[s].op = "commit"
    /\ CloseHeld(s, [st[s] EXCEPT !.mutating = FALSE,
                                  !.registered = mut.next[s] # Absent])
    /\ mut' = [mut EXCEPT !.claimed = @ \ {s}]
    /\ IF mut.next[s].mode = "AlwaysOn" /\ ~closing THEN GoMaintain(s) ELSE UNCHANGED act
    /\ UNCHANGED <<pending, servers, booting, shut, closing, ctxDone>>

CommitStartNew(s) ==
    /\ mut.pc = "commit" /\ mut.todo = {} /\ mut.claimed = {} /\ s \in mut.fresh
    /\ mut' = [mut EXCEPT !.fresh = @ \ {s}]
    /\ IF closing THEN UNCHANGED act ELSE GoMaintain(s)
    /\ UNCHANGED <<st, sess, pending, servers, held, booting, shut, closing, ctxDone>>

Committed ==
    /\ mut.pc = "commit" /\ mut.todo = {} /\ mut.claimed = {} /\ mut.fresh = {}

\* reconcilePersistedLocked: only its success updates Coordinator.servers.
ReconcileOK ==
    /\ Committed
    /\ servers' = mut.next
    /\ mut' = [mut EXCEPT !.pc = "idle"]
    /\ UNCHANGED <<st, sess, pending, unmoved>>

ReconcileFail ==
    /\ "reconcile" \in Faults
    /\ Committed
    /\ mut' = [mut EXCEPT !.pc = "idle", !.next = servers]
    /\ UNCHANGED <<st, sess, pending, servers, unmoved>>

-----------------------------------------------------------------------------
(* Shutdown: V2App.Close cancels the context and then calls Service.Close.   *)

AppCancel ==
    /\ "shutdown" \in Faults
    /\ ~ctxDone
    /\ ctxDone' = TRUE
    /\ UNCHANGED <<st, sess, act, held, booting, shut, mut, pending, servers, closing>>

CloseBegin ==
    /\ ctxDone /\ ~closing
    /\ closing' = TRUE
    /\ shut' = [shut EXCEPT !.phase = "abort"]
    /\ UNCHANGED <<st, sess, act, held, booting, mut, pending, servers, ctxDone>>

\* AbortServerMutation needs mutationMu; then one goroutine per known server.
CloseAbort ==
    /\ shut.phase = "abort" /\ mut.pc # "claim"
    /\ st' = IF pending = NoPending THEN st ELSE Unclaim(pending)
    /\ pending' = NoPending
    /\ shut' = [phase |-> "drain", todo |-> {s \in Servers : st[s].registered}]
    /\ UNCHANGED <<sess, act, held, booting, mut, servers, closing, ctxDone>>

\* Mutant of CloseDetach: Close takes the session without waiting for op.
CloseDetachNoWait(s) ==
    /\ shut.phase = "drain" /\ s \in shut.todo
    /\ held' = [held EXCEPT ![s] = st[s].session]
    /\ st' = [st EXCEPT ![s] = [Detach(@) EXCEPT !.op = "close",
                                    !.runtimeChanging = st[s].session # NoSession]]
    /\ UNCHANGED <<sess, act, booting, shut, mut, pending, servers, closing, ctxDone>>

CloseDetach(s) ==
    /\ shut.phase = "drain" /\ s \in shut.todo
    /\ st[s].op = Free
    /\ held' = [held EXCEPT ![s] = st[s].session]
    /\ st' = [st EXCEPT ![s] = [Detach(@) EXCEPT !.op = "close",
                                    !.runtimeChanging = st[s].session # NoSession]]
    /\ UNCHANGED <<sess, act, booting, shut, mut, pending, servers, closing, ctxDone>>

CloseFinish(s) ==
    /\ st[s].op = "close"
    /\ CloseHeld(s, st[s])
    /\ shut' = [shut EXCEPT !.todo = @ \ {s}]
    /\ UNCHANGED <<act, booting, mut, pending, servers, closing, ctxDone>>

CloseDone ==
    /\ shut.phase = "drain" /\ shut.todo = {}
    /\ shut' = [shut EXCEPT !.phase = "down"]
    /\ UNCHANGED <<st, sess, act, held, booting, mut, pending, servers, closing, ctxDone>>

-----------------------------------------------------------------------------

\* After Close every goroutine has returned and nothing is left to do.
Terminated ==
    /\ shut.phase = "down"
    /\ \A a \in Actors : act[a] = Idle
    /\ mut.pc = "idle"
    /\ UNCHANGED vars

Operation(a) ==
    \/ Refuse(a) \/ AcquireManualStopped(a) \/ AcquireReuse(a) \/ AcquireColdStart(a)
    \/ StartRunning(a) \/ StartCold(a) \/ StopEnter(a) \/ RestartEnter(a)
    \/ CloseOld(a) \/ ConnectFail(a) \/ Discard(a) \/ Install(a)

Background ==
    \/ \E x \in Sessions : WatchDetach(x) \/ WatchClose(x)
    \/ \E w \in Workers : MaintainExit(w) \/ MaintainTry(w)
    \/ \E s \in Servers, w \in Workers : StartAlwaysOn(s, w)
    \/ \E s \in Servers :
          IdleFire(s) \/ IdleDrop(s) \/ IdleEarly(s) \/ idleStop(s) \/ IdleFinish(s)

Mutation ==
    \/ \E next \in Configs : SaveServers(next)
    \/ PrepareBegin \/ PrepareDone \/ PersistFail \/ CommitBegin
    \/ ReconcileOK \/ ReconcileFail
    \/ \E s \in Servers : \/ PrepareClaim(s) \/ PrepareBusy(s) \/ CommitKeep(s)
                          \/ CommitDetach(s) \/ CommitFinish(s) \/ CommitStartNew(s)

Shutdown ==
    \/ AppCancel \/ CloseBegin \/ CloseAbort \/ CloseDone
    \/ \E s \in Servers : CloseDetach(s) \/ CloseFinish(s)

Next ==
    \/ \E c \in Clients, s \in Servers, job \in AllJobs : Begin(c, s, job)
    \/ \E a \in Actors : GiveUp(a) \/ Operation(a)
    \/ \E a \in Actors, x \in Sessions : ConnectOK(a, x)
    \/ \E c \in Clients : Release(c) \/ TaskExpires(c) \/ ExpiryRelease(c)
    \/ \E x \in Sessions : Crash(x) \/ ContractChange(x)
    \/ Background \/ Mutation \/ Shutdown \/ Terminated

Spec == Init /\ [][Next]_vars

(***************************************************************************)
(* Fairness. A goroutine that holds op goes on: closing and connecting are *)
(* bounded by the shutdown and startup timeouts. Waiters on the op channel *)
(* are served in FIFO order, hence strong fairness for taking it. A server *)
(* that is retried without end connects at some point. Armed timers fire.  *)
(* Clients, crashes, saves and the shutdown are not obliged to happen.     *)
(***************************************************************************)
Enter(a) ==
    \/ Refuse(a) \/ AcquireManualStopped(a) \/ AcquireReuse(a) \/ AcquireColdStart(a)
    \/ StartRunning(a) \/ StartCold(a) \/ StopEnter(a) \/ RestartEnter(a)

Connects(a) == \E x \in Sessions : ConnectOK(a, x)

Fairness ==
    /\ \A a \in Actors :
          /\ SF_vars(Enter(a))
          /\ WF_vars(CloseOld(a)) /\ WF_vars(Install(a)) /\ WF_vars(Discard(a))
          /\ WF_vars(ConnectFail(a) \/ Connects(a)) /\ SF_vars(Connects(a))
    /\ \A c \in Clients : WF_vars(TaskExpires(c)) /\ WF_vars(ExpiryRelease(c))
    /\ \A x \in Sessions : SF_vars(~ctxDone /\ WatchDetach(x)) /\ WF_vars(WatchClose(x))
    /\ \A w \in Workers : WF_vars(MaintainExit(w)) /\ WF_vars(MaintainTry(w))
    /\ \A s \in Servers :
          /\ WF_vars(\E w \in Workers : StartAlwaysOn(s, w))
          /\ WF_vars(IdleFire(s)) /\ WF_vars(IdleDrop(s))
          /\ SF_vars(idleStop(s)) /\ WF_vars(IdleFinish(s))
          /\ WF_vars(PrepareClaim(s) \/ PrepareBusy(s)) /\ WF_vars(CommitKeep(s))
          /\ SF_vars(CommitDetach(s)) /\ WF_vars(CommitFinish(s))
          /\ WF_vars(CommitStartNew(s))
          /\ SF_vars(CloseDetach(s)) /\ WF_vars(CloseFinish(s))
    /\ WF_vars(PrepareBegin) /\ WF_vars(PrepareDone) /\ WF_vars(PersistFail \/ CommitBegin)
    /\ WF_vars(ReconcileOK \/ ReconcileFail)
    /\ WF_vars(CloseBegin) /\ WF_vars(CloseAbort) /\ WF_vars(CloseDone)

FairSpec == Spec /\ Fairness

-----------------------------------------------------------------------------
(* Properties *)

Mutator ==
    [pc : {"idle", "prepare", "claim", "prepared", "commit"},
     next : [Servers -> Entries \cup {Absent}], todo : SUBSET Servers,
     claimed : SUBSET Servers, fresh : SUBSET Servers]

TypeOK ==
    /\ st \in [Servers -> serverState]
    /\ sess \in [Sessions -> Runtime]
    /\ act \in [Actors -> ActorState]
    /\ held \in [Servers -> Sessions \cup {NoSession}]
    /\ booting \subseteq Servers
    /\ shut \in [phase : {"up", "abort", "drain", "down"}, todo : SUBSET Servers]
    /\ mut \in Mutator
    /\ pending \in (SUBSET Servers) \cup {NoPending}
    /\ servers \in [Servers -> Entries \cup {Absent}]
    /\ closing \in BOOLEAN /\ ctxDone \in BOOLEAN

\* active_call_count is exact: it counts the goroutines that are inside Acquire
\* with a lease counted, or hold an unreleased lease, no more and no fewer.
LeaseAccounting == \A s \in Servers : st[s].active = Cardinality(Users(s))

\* While a server is reserved for a mutation nobody uses it and nobody can begin
\* to: the busy check and the reservation exclude every acquisition.
MutationExcludesUse == \A s \in Servers : st[s].mutating => Users(s) = {}

\* runtimeChanging is only up while somebody holds op: a flag left behind on an
\* error path would answer server_busy for ever.
ChangingIsHeld == \A s \in Servers : st[s].runtimeChanging => st[s].op # Free

\* A reservation always has an owner that will end it.
ReservationOwned ==
    \A s \in Servers :
        st[s].mutating =>
            \/ s \in mut.claimed
            \/ pending # NoPending /\ s \in pending

\* At most one live runtime per server, whoever owns it at the moment.
OneRuntime ==
    \A s \in Servers : \A x, y \in Sessions :
        /\ Live(x) /\ sess[x].srv = s
        /\ Live(y) /\ sess[y].srv = s
        => x = y

\* No runtime is lost: every live one is the server's session, or in the hands of
\* a goroutine that is about to install or close it.
NoOrphanRuntime ==
    \A x \in Sessions : Live(x) =>
        \/ st[sess[x].srv].session = x
        \/ held[sess[x].srv] = x
        \/ \E a \in Actors : act[a].pc \in OpPcs /\ act[a].x = x

\* A deleted server has no runtime.
DeletedHasNoRuntime ==
    \A s \in Servers : st[s].deleted => \A x \in Sessions : ~(Live(x) /\ sess[x].srv = s)
                                                          \/ held[s] = x

\* Until shutdown, the running session was started from the entry the service
\* now holds: no edit leaves a runtime of the old configuration behind.
SessionMatchesEntry ==
    \A s \in Servers : st[s].session # NoSession /\ ~closing =>
        sess[st[s].session].entry = st[s].entry

\* Close leaves nothing running.
ClosedMeansStopped == shut.phase = "down" => \A x \in Sessions : ~Live(x)

\* The Manager never closes a live runtime under an unreleased lease, except
\* when it shuts down.
LeaseProtectsRuntime ==
    [][\A c \in Clients :
          /\ act[c].pc = "leased" /\ ~act[c].released
          /\ Live(act[c].x) /\ ~closing
          => sess'[act[c].x].status # "free"]_vars

\* A runtime-affecting edit of a running service never lands on a server in use.
EditExcludesUse ==
    [][\A s \in Servers :
          st[s].registered /\ st'[s].entry # st[s].entry /\ ~closing => Users(s) = {}]_vars

\* An Always On server is brought up, again and again, while the Manager runs.
AlwaysOnMaintained ==
    \A s \in Servers :
        st[s].registered /\ st[s].entry.mode = "AlwaysOn" ~>
            \/ \E x \in Sessions : Live(x) /\ sess[x].srv = s
            \/ st[s].entry.mode # "AlwaysOn" \/ st[s].deleted
            \/ mut.pc # "idle" \/ ctxDone

\* A Managed server that nobody uses is stopped.
ManagedIdleStops ==
    \A s \in Servers :
        st[s].entry.mode = "Managed" /\ st[s].session # NoSession /\ st[s].active = 0 ~>
            \/ st[s].session = NoSession \/ st[s].active > 0
            \/ st[s].entry.mode # "Managed" \/ mut.pc # "idle" \/ ctxDone

\* Every operation that waits for op or holds it comes to an end.
OperationsReturn ==
    \A a \in Actors :
        act[a].pc \in OpPcs \cup {"wait"} ~> act[a].pc \in {"idle", "leased", "check"}

\* SaveServers returns, although CommitServerMutation waits for every affected
\* server's op without a deadline.
SaveReturns == mut.pc # "idle" ~> mut.pc = "idle"

\* Close returns once it was called.
CloseReturns == closing ~> shut.phase = "down"
=============================================================================

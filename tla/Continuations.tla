--------------------------- MODULE Continuations ---------------------------
(***************************************************************************)
(* Task continuations of one downstream server: the durable mapping of an  *)
(* opaque manager task id to a downstream task, the task-held use lease    *)
(* that keeps the server's runtime up while the task lives, and the timers *)
(* that end both.                                                          *)
(*                                                                         *)
(* A routed call that is answered with a task and the operations tasks/get,*)
(* tasks/update and tasks/cancel run concurrently (Procs); each step below *)
(* ends where the code takes or gives up a lock, calls the lifecycle, the  *)
(* catalog or the downstream server.  RoutedLifecycle models Acquire and   *)
(* the idle stop in full; here a lease is a reason not to stop.            *)
(***************************************************************************)
EXTENDS Naturals, FiniteSets

CONSTANTS
    Procs,      \* requests of upstream clients in progress
    Tasks,      \* opaque manager task ids, each used for one created task
    NoTask,     \* no task
    Aware,      \* does the runtime session offer the task methods: values of Init
    MaxFaults,  \* bound on faults
    Faults      \* which faults may happen

ASSUME ContinuationsAssumption ==
    /\ NoTask \notin Tasks /\ MaxFaults \in Nat /\ Aware \subseteq BOOLEAN
    /\ Faults \subseteq {"crash", "exit", "connect", "store", "cancel"}

VARIABLES
    row,       \* continuation_mappings: none, open, or created with a terminal status
    lease,     \* continuationService.taskLease: none, held, or ended by its own timer
    timer,     \* continuationService.timers
    deleting,  \* tasks whose expiry timer fired and has the row left to delete
    due,       \* tasks whose expiry time has passed
    phase,     \* up, closed (continuationService.closed), or off (no process)
    sess,      \* the runtime session of the server: none or live
    aware,     \* the session implements taskAwareRuntime
    pc, job, at, \* of a request: its place, its operation, its task
    using,     \* requests that hold a short use lease
    pend,      \* a task lease the request acquired and has not installed
    down,      \* the downstream task: none, working or done
    faults,    \* how many faults have happened
    told,      \* history: task ids an upstream client was given
    finished,  \* history: tasks that finishTask was called for
    missed,    \* history: tasks whose lease could not be had again at start
    stillborn  \* history: tasks mapped with a status that was terminal already

vars == <<row, lease, timer, deleting, due, phase, sess, aware, pc, job, at, using, pend,
          down, faults, told, finished, missed, stillborn>>

Ops == {"get", "update", "cancel"}

TypeOK ==
    /\ row \in [Tasks -> {"none", "open", "terminal"}]
    /\ lease \in [Tasks -> {"none", "held", "ended"}]
    /\ {timer, deleting, due, told, finished, missed, stillborn} \subseteq SUBSET Tasks
    /\ phase \in {"up", "closed", "off"} /\ sess \in {"none", "live"} /\ aware \in BOOLEAN
    /\ pc \in [Procs -> {"idle", "calling", "lease", "put", "install", "arm", "ensure",
                         "reacquire", "reinstall", "use", "ask", "finish", "delete"}]
    /\ job \in [Procs -> Ops \cup {"call"}] /\ at \in [Procs -> Tasks \cup {NoTask}]
    /\ using \subseteq Procs /\ pend \in [Procs -> {"none", "held", "ended"}]
    /\ down \in [Tasks -> {"none", "working", "done"}] /\ faults \in 0 .. MaxFaults

Fault(f) == f \in Faults /\ faults < MaxFaults /\ faults' = faults + 1
Or(f) == UNCHANGED faults \/ Fault(f)

Init ==
    /\ row = [t \in Tasks |-> "none"] /\ lease = [t \in Tasks |-> "none"]
    /\ timer = {} /\ deleting = {} /\ due = {} /\ phase = "up" /\ sess = "none" /\ aware \in Aware
    /\ pc = [p \in Procs |-> "idle"] /\ job = [p \in Procs |-> "call"]
    /\ at = [p \in Procs |-> NoTask] /\ using = {} /\ pend = [p \in Procs |-> "none"]
    /\ down = [t \in Tasks |-> "none"] /\ faults = 0
    /\ told = {} /\ finished = {} /\ missed = {} /\ stillborn = {}

Go(p, l) == pc' = [pc EXCEPT ![p] = l] /\ UNCHANGED <<job, at, using>>
\* The request is answered and its short lease, if it has one, released.
Done(p) == /\ pc' = [pc EXCEPT ![p] = "idle"] /\ job' = [job EXCEPT ![p] = "call"]
           /\ at' = [at EXCEPT ![p] = NoTask] /\ using' = using \ {p}
Forget(p) == pend' = [pend EXCEPT ![p] = "none"]

\* routedlifecycle.Acquire: a live session is reused, otherwise it connects.
Acquired == sess' = "live" /\ UNCHANGED faults
NotAcquired == sess = "none" /\ Fault("connect") /\ UNCHANGED sess

-----------------------------------------------------------------------------
(* A routed call that is answered with a task                              *)

Rows    == UNCHANGED <<row, told, finished, missed, stillborn>>
Leases  == UNCHANGED <<lease, timer, deleting, due, phase, aware>>

\* continuationSessionProvider.Session: the short lease of the routed call.
Session(p, t) ==
    /\ phase = "up" /\ pc[p] = "idle" /\ down[t] = "none" /\ \A q \in Procs : at[q] # t
    /\ Acquired /\ using' = using \cup {p}
    /\ pc' = [pc EXCEPT ![p] = "calling"] /\ at' = [at EXCEPT ![p] = t]
    /\ UNCHANGED <<job, pend, down>> /\ Rows /\ Leases

\* The server starts a task and answers with it; the status may already be
\* a terminal one.  The connection may also fail.
CallTool(p) ==
    /\ pc[p] = "calling"
    /\ \/ /\ sess = "live"
          /\ \E d \in {"working", "done"} :
                /\ down' = [down EXCEPT ![at[p]] = d]
                /\ stillborn' = IF d = "done" THEN stillborn \cup {at[p]} ELSE stillborn
          /\ Go(p, "lease")
       \/ sess = "none" /\ Done(p) /\ UNCHANGED <<down, stillborn>>
    /\ UNCHANGED <<row, told, finished, missed, sess, pend, faults>> /\ Leases

\* AcquireTaskLease, before the lease of the call is released.
AcquireTaskLease(p) ==
    /\ pc[p] = "lease"
    /\ \/ Acquired /\ pend' = [pend EXCEPT ![p] = "held"] /\ Go(p, "put")
       \/ NotAcquired /\ Done(p) /\ UNCHANGED pend
    /\ UNCHANGED down /\ Rows /\ Leases

\* PutContinuation; an error releases the lease again.
PutContinuation(p) ==
    /\ pc[p] = "put"
    /\ \/ /\ row' = [row EXCEPT ![at[p]] = IF at[p] \in stillborn THEN "terminal" ELSE "open"]
          /\ Go(p, "install") /\ UNCHANGED <<pend, faults>>
       \/ Fault("store") /\ Forget(p) /\ Done(p) /\ UNCHANGED row
    /\ UNCHANGED <<sess, down, told, finished, missed, stillborn>> /\ Leases

\* The lease is recorded, unless the service was closed meanwhile.
InstallTaskLease_Released(p) ==
    /\ pc[p] = "install" /\ Forget(p)
    /\ lease' = [lease EXCEPT ![at[p]] = "ended"] /\ Go(p, "arm") /\ UNCHANGED row
    /\ UNCHANGED <<sess, down, faults, told, finished, missed, timer, deleting, due, phase, aware, stillborn>>
InstallTaskLease(p) ==
    /\ pc[p] = "install" /\ Forget(p)
    /\ \/ /\ phase = "up" /\ lease' = [lease EXCEPT ![at[p]] = pend[p]]
          /\ Go(p, "arm") /\ UNCHANGED row
       \/ /\ phase # "up" /\ row' = [row EXCEPT ![at[p]] = "none"]
          /\ Done(p) /\ UNCHANGED lease
    /\ UNCHANGED <<sess, down, faults, told, finished, missed, timer, deleting, due, phase, aware, stillborn>>

\* installExpiryTimer, and the answer with the manager's id.
InstallExpiryTimer(p) ==
    /\ pc[p] = "arm" /\ Done(p) /\ told' = told \cup {at[p]}
    /\ timer' = IF phase = "up" /\ at[p] \notin due THEN timer \cup {at[p]} ELSE timer
    /\ UNCHANGED <<row, lease, deleting, due, phase, sess, aware, pend, down, faults,
                   finished, missed, stillborn>>

-----------------------------------------------------------------------------
(* tasks/get, tasks/update, tasks/cancel                                   *)

\* resolveTask: an expired mapping is deleted, a terminal one refused.
ResolveTask(p, t, k) ==
    /\ phase # "off" /\ pc[p] = "idle" /\ t \in told
    /\ IF row[t] = "open" /\ t \notin due
       THEN /\ pc' = [pc EXCEPT ![p] = "ensure"] /\ job' = [job EXCEPT ![p] = k]
            /\ at' = [at EXCEPT ![p] = t] /\ UNCHANGED row
       ELSE t \in due /\ row' = [row EXCEPT ![t] = "none"] /\ UNCHANGED <<pc, job, at>>
    /\ UNCHANGED <<sess, using, pend, down, faults, told, finished, missed, stillborn>> /\ Leases

\* ensureTaskLease: a recorded lease is enough, whether or not it has ended.
EnsureTaskLease(p) ==
    /\ pc[p] = "ensure"
    /\ IF phase # "up" \/ (lease[at[p]] = "none" /\ at[p] \in due) THEN Done(p)
       ELSE Go(p, IF lease[at[p]] = "none" THEN "reacquire" ELSE "use")
    /\ UNCHANGED <<sess, pend, down, faults>> /\ Rows /\ Leases

ReacquireTaskLease(p) ==
    /\ pc[p] = "reacquire"
    /\ \/ Acquired /\ pend' = [pend EXCEPT ![p] = "held"] /\ Go(p, "reinstall")
       \/ NotAcquired /\ Done(p) /\ UNCHANGED pend
    /\ UNCHANGED down /\ Rows /\ Leases

\* Another request may have been faster, and the service may be closed.
ReinstallTaskLease(p) ==
    /\ pc[p] = "reinstall" /\ Forget(p)
    /\ IF lease[at[p]] # "none" THEN Go(p, "use") /\ UNCHANGED <<lease, missed>>
       ELSE IF phase # "up" THEN Done(p) /\ UNCHANGED <<lease, missed>>
       ELSE /\ lease' = [lease EXCEPT ![at[p]] = pend[p]] /\ Go(p, "use")
            /\ missed' = missed \ {at[p]}
    /\ UNCHANGED <<row, timer, deleting, due, phase, sess, aware, down, faults, told, finished, stillborn>>

\* Acquire, for the operation itself.
UseTask(p) ==
    /\ pc[p] = "use"
    /\ \/ /\ Acquired /\ pc' = [pc EXCEPT ![p] = "ask"] /\ using' = using \cup {p}
          /\ UNCHANGED <<job, at>>
       \/ NotAcquired /\ Done(p)
    /\ UNCHANGED <<pend, down>> /\ Rows /\ Leases

\* taskRuntime and the downstream operation.  A task found terminal by get,
\* or by the poll that follows a cancel, is finished.  The short lease of get
\* is released first, that of cancel last.
Terminal(d) == d = "done"
AskTask(p) ==
    /\ pc[p] = "ask"
    /\ \/ (sess = "none" \/ ~aware \/ job[p] = "update") /\ Done(p) /\ UNCHANGED down
       \/ /\ sess = "live" /\ aware /\ job[p] # "update"
          /\ \E d \in {down[at[p]]} \cup (IF job[p] = "cancel" THEN {"done"} ELSE {}) :
                /\ down' = [down EXCEPT ![at[p]] = d]
                /\ IF Terminal(d)
                   THEN /\ pc' = [pc EXCEPT ![p] = "finish"] /\ UNCHANGED <<job, at>>
                        /\ using' = IF job[p] = "get" THEN using \ {p} ELSE using
                   ELSE Done(p)
    /\ UNCHANGED <<sess, pend, faults>> /\ Rows /\ Leases

\* finishTask: the lease and the timer go first, then the mapping.
TakeOut(t) == /\ lease' = [lease EXCEPT ![t] = "none"] /\ timer' = timer \ {t}
              /\ finished' = finished \cup {t}
FinishTask(p) ==
    /\ pc[p] = "finish" /\ TakeOut(at[p]) /\ Go(p, "delete")
    /\ UNCHANGED <<row, deleting, due, phase, sess, aware, pend, down, faults, told, missed, stillborn>>
\* The request's context may be cancelled before the delete.
DeleteContinuation(p) ==
    /\ pc[p] = "delete" /\ Done(p)
    /\ \/ row' = [row EXCEPT ![at[p]] = "none"] /\ UNCHANGED faults
       \/ Fault("cancel") /\ UNCHANGED row
    /\ UNCHANGED <<sess, pend, down, told, finished, missed, stillborn>> /\ Leases

-----------------------------------------------------------------------------
(* Time, the runtime session, closing and starting                         *)

\* The expiry time of a task passes: its row and its lease share it.
TimePasses(t) ==
    /\ down[t] # "none" /\ t \notin due /\ due' = due \cup {t}
    /\ UNCHANGED <<row, lease, timer, deleting, phase, sess, aware, pc, job, at, using, pend,
                   down, faults, told, finished, missed, stillborn>>
\* The lease's own timer releases it; the map still holds the object.
LeaseExpires_Never(t) == FALSE /\ UNCHANGED vars
LeaseExpires(t) ==
    /\ t \in due /\ lease[t] = "held" /\ lease' = [lease EXCEPT ![t] = "ended"]
    /\ UNCHANGED <<row, timer, deleting, due, phase, sess, aware, pc, job, at, using, pend,
                   down, faults, told, finished, missed, stillborn>>
PendingExpires(p) ==
    /\ at[p] \in due /\ pend[p] = "held" /\ pend' = [pend EXCEPT ![p] = "ended"]
    /\ UNCHANGED <<row, lease, timer, deleting, due, phase, sess, aware, pc, job, at, using,
                   down, faults, told, finished, missed, stillborn>>
\* The expiry timer calls finishTask with a background context.
TimerFires(t) ==
    /\ t \in timer \cap due /\ TakeOut(t) /\ deleting' = deleting \cup {t}
    /\ UNCHANGED <<row, due, phase, sess, aware, pc, job, at, using, pend, down, faults, told,
                   missed, stillborn>>
TimerDeletes(t) ==
    /\ t \in deleting /\ deleting' = deleting \ {t} /\ row' = [row EXCEPT ![t] = "none"]
    /\ UNCHANGED <<lease, timer, due, phase, sess, aware, pc, job, at, using, pend, down,
                   faults, told, finished, missed, stillborn>>

\* The runtime goes away: on its own, or because no lease holds it.
SessionGone == /\ sess = "live" /\ sess' = "none"
               /\ UNCHANGED <<row, lease, timer, deleting, due, phase, aware, pc, job, at, using,
                              pend, down, told, finished, missed, stillborn>>
SessionExits == Fault("exit") /\ SessionGone
IdleStop == /\ using = {} /\ \A t \in Tasks : lease[t] # "held" /\ \A p \in Procs : pend[p] # "held"
            /\ SessionGone /\ UNCHANGED faults

\* V2Server.Shutdown closes the service when requests are over or too late.
Close == /\ phase = "up" /\ phase' = "closed" /\ lease' = [t \in Tasks |-> "none"] /\ timer' = {}
         /\ UNCHANGED <<row, deleting, due, sess, aware, pc, job, at, using, pend, down, faults,
                        told, finished, missed, stillborn>>
\* The process ends: after Close, or by a crash.
Exit ==
    /\ IF phase = "closed" THEN UNCHANGED faults ELSE phase = "up" /\ Fault("crash")
    /\ phase' = "off" /\ sess' = "none" /\ using' = {} /\ timer' = {} /\ deleting' = {}
    /\ lease' = [t \in Tasks |-> "none"] /\ pend' = [p \in Procs |-> "none"]
    /\ pc' = [p \in Procs |-> "idle"] /\ job' = [p \in Procs |-> "call"]
    /\ at' = [p \in Procs |-> NoTask]
    /\ UNCHANGED <<row, due, aware, down, told, finished, missed, stillborn>>
\* newContinuationService deletes what has expired or was terminal and takes
\* the leases of the rest; a server that cannot be reached loses nothing.
Kept == {t \in Tasks : row[t] = "open" /\ t \notin due}
Survives_Leased(t, ok) == t \in ok
Survives(t, ok) == t \in Kept
NewContinuationService(ok) ==
    /\ phase = "off" /\ phase' = "up" /\ ok \subseteq Kept
    /\ IF ok = Kept THEN UNCHANGED faults ELSE Fault("connect")
    /\ sess' = IF ok = {} THEN "none" ELSE "live"
    /\ row' = [t \in Tasks |-> IF Survives(t, ok) THEN row[t] ELSE "none"]
    /\ lease' = [t \in Tasks |-> IF t \in ok THEN "held" ELSE "none"] /\ timer' = Kept
    /\ missed' = missed \cup (Kept \ ok)
    /\ UNCHANGED <<deleting, due, aware, pc, job, at, using, pend, down, told, finished, stillborn>>

Request(p) ==
    \/ \E t \in Tasks : Session(p, t) \/ \E k \in Ops : ResolveTask(p, t, k)
    \/ CallTool(p) \/ AcquireTaskLease(p) \/ PutContinuation(p) \/ InstallTaskLease(p)
    \/ InstallExpiryTimer(p) \/ EnsureTaskLease(p) \/ ReacquireTaskLease(p)
    \/ ReinstallTaskLease(p) \/ UseTask(p) \/ AskTask(p) \/ FinishTask(p)
    \/ DeleteContinuation(p) \/ PendingExpires(p)
Clock(t) == TimePasses(t) \/ LeaseExpires(t) \/ TimerFires(t) \/ TimerDeletes(t)
\* The downstream server completes a task.
TaskCompletes(t) ==
    /\ sess = "live" /\ down[t] = "working" /\ down' = [down EXCEPT ![t] = "done"]
    /\ UNCHANGED <<row, lease, timer, deleting, due, phase, sess, aware, pc, job, at, using,
                   pend, faults, told, finished, missed, stillborn>>

Next == \/ \E p \in Procs : Request(p)
        \/ \E t \in Tasks : Clock(t) \/ TaskCompletes(t)
        \/ SessionExits \/ IdleStop \/ Close \/ Exit
        \/ \E ok \in SUBSET Tasks : NewContinuationService(ok)

\* Timers fire; time passes.  Nothing is assumed of clients or servers.
Fairness == \A t \in Tasks : WF_vars(TimePasses(t)) /\ WF_vars(LeaseExpires(t))
Spec == Init /\ [][Next]_vars /\ Fairness

-----------------------------------------------------------------------------
(* Properties                                                              *)

\* A task whose id an upstream client holds pins the server's runtime: from
\* the answer of the routed call (whose own lease is released only after the
\* task-held lease is recorded) until finishTask or its expiry, in every
\* interleaving with other operations, closing and restarting.  Excepted are
\* the tasks whose server could not be reached at start, until an operation
\* takes their lease again.
TaskPinned ==
    \A t \in told : row[t] = "open" /\ phase = "up" /\ t \notin due \cup finished \cup missed
                    => lease[t] = "held"

\* A task id that was given out while the task was running resolves until the
\* task is finished or expires: across crashes, closing, failed leases and
\* unreachable servers.
TaskReachable ==
    \A t \in told : t \notin due \cup finished \cup stillborn => row[t] = "open"

\* No task-held lease is held for ever: also one that ensureTaskLease takes
\* again after finishTask removed the lease, the timer and the mapping.
TaskLeaseEnds == \A t \in Tasks : lease[t] = "held" ~> lease[t] # "held"
=============================================================================

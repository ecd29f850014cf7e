------------------------ MODULE ContinuationsProofs ------------------------
(***************************************************************************)
(* Proofs that a task handed to a client pins the runtime of its server    *)
(* and can be reached, for any number of requests, tasks and faults.       *)
(***************************************************************************)
EXTENDS Continuations, TLAPS

Creating == {"calling", "lease", "put", "install", "arm"}
Asking == {"ensure", "reacquire", "reinstall", "use", "ask", "finish", "delete"}

-----------------------------------------------------------------------------
(* Whose task it is.                                                       *)

\* A task that is being created is known to nobody else ...
Creators ==
    \A p \in Procs : pc[p] \in Creating =>
        /\ at[p] \in Tasks \ told
        /\ \A q \in Procs \ {p} : at[q] # at[p]

\* ... and clients only ask for the ones they were told of.
Askers ==
    \A p \in Procs : /\ pc[p] \in Asking => at[p] \in told
                     /\ pc[p] = "delete" => at[p] \in finished

\* An id is not used again: the downstream task exists.
Begun ==
    /\ \A t \in told : down[t] # "none"
    /\ \A p \in Procs : pc[p] \in Creating \ {"calling"} => down[at[p]] # "none"

\* No request outlives the process, and only expired rows are deleted by timers.
Stopped ==
    /\ phase = "off" => \A p \in Procs : pc[p] = "idle"
    /\ deleting \subseteq due

Owners == Creators /\ Askers /\ Begun /\ Stopped

-----------------------------------------------------------------------------
(* What a request has achieved before the task is promised.                *)

\* It holds the lease it is about to install,
Pending ==
    \A p \in Procs : pc[p] \in {"put", "install", "reinstall"} /\ at[p] \notin due
                     => pend[p] = "held"

\* has stored the mapping,
Mapped ==
    \A p \in Procs : pc[p] \in {"install", "arm"} /\ at[p] \notin due \cup stillborn
                     => row[at[p]] = "open"

\* and has installed the lease, unless the service was closed since.
Armed ==
    \A p \in Procs : pc[p] = "arm" /\ phase = "up" /\ at[p] \notin due
                     => lease[at[p]] = "held"

Progress == Pending /\ Mapped /\ Armed

IInv == TypeOK /\ Owners /\ Progress /\ TaskPinned /\ TaskReachable

-----------------------------------------------------------------------------
\* At the start no task exists and no request is under way.
LEMMA InitIInv == Init => IInv
<1> SUFFICES ASSUME Init PROVE IInv
  OBVIOUS
<1> USE ContinuationsAssumption DEF Init
<1>1. TypeOK
  BY DEF TypeOK, Ops
<1>2. Owners /\ Progress
  BY DEF Owners, Creators, Askers, Begun, Stopped, Progress, Pending, Mapped, Armed, Creating, Asking
<1>3. TaskPinned /\ TaskReachable
  BY DEF TaskPinned, TaskReachable
<1> QED BY <1>1, <1>2, <1>3 DEF IInv

-----------------------------------------------------------------------------
(* The routed call that creates a task.                                    *)

(* The id is taken only if no request has it and no task was made for it.  *)
LEMMA SessionStep ==
    ASSUME IInv, NEW p \in Procs, NEW t \in Tasks, Session(p, t)
    PROVE  IInv'
<1> USE ContinuationsAssumption
        DEF IInv, TypeOK, Owners, Creators, Askers, Begun, Stopped, Creating, Asking,
            Session, Acquired, Rows, Leases
<1>1. TypeOK'
  BY DEF Ops
<1>2. Owners'
  OBVIOUS
<1>3. Progress'
  BY DEF Progress, Pending, Mapped, Armed
<1>4. TaskPinned' /\ TaskReachable'
  BY DEF Progress, Pending, Mapped, Armed, TaskPinned, TaskReachable
<1> QED BY <1>1, <1>2, <1>3, <1>4

\* A new task gets an identifier that no client holds.
LEMMA CallToolStep ==
    ASSUME IInv, NEW p \in Procs, CallTool(p)
    PROVE  IInv'
<1> USE ContinuationsAssumption
        DEF IInv, TypeOK, Owners, Creators, Askers, Begun, Stopped, Creating, Asking,
            CallTool, Go, Done, Leases
<1>1. TypeOK'
  BY DEF Ops
<1>2. Owners'
  OBVIOUS
<1>3. Progress'
  BY DEF Progress, Pending, Mapped, Armed
<1>4. TaskPinned' /\ TaskReachable'
  BY DEF Progress, Pending, Mapped, Armed, TaskPinned, TaskReachable
<1> QED BY <1>1, <1>2, <1>3, <1>4

(* From here on the request itself holds a lease for the task.             *)
LEMMA AcquireTaskLeaseStep ==
    ASSUME IInv, NEW p \in Procs, AcquireTaskLease(p)
    PROVE  IInv'
<1> USE ContinuationsAssumption
        DEF IInv, TypeOK, Owners, Creators, Askers, Begun, Stopped, Creating, Asking,
            AcquireTaskLease, Acquired, NotAcquired, Fault, Go, Done, Rows, Leases
<1>1. TypeOK'
  BY DEF Ops
<1>2. Owners'
  OBVIOUS
<1>3. Progress'
  BY DEF Progress, Pending, Mapped, Armed
<1>4. TaskPinned' /\ TaskReachable'
  BY DEF Progress, Pending, Mapped, Armed, TaskPinned, TaskReachable
<1> QED BY <1>1, <1>2, <1>3, <1>4

\* The mapping is stored with the lease already in hand.
LEMMA PutContinuationStep ==
    ASSUME IInv, NEW p \in Procs, PutContinuation(p)
    PROVE  IInv'
<1> USE ContinuationsAssumption
        DEF IInv, TypeOK, Owners, Creators, Askers, Begun, Stopped, Creating, Asking,
            PutContinuation, Fault, Go, Done, Forget, Leases
<1>1. TypeOK'
  BY DEF Ops
<1>2. Owners'
  OBVIOUS
<1>3. Progress'
  BY DEF Progress, Pending, Mapped, Armed
<1>4. TaskPinned' /\ TaskReachable'
  BY DEF Progress, Pending, Mapped, Armed, TaskPinned, TaskReachable
<1> QED BY <1>1, <1>2, <1>3, <1>4

(* The lease passes from the request to the service, or all is undone.     *)
LEMMA InstallTaskLeaseStep ==
    ASSUME IInv, NEW p \in Procs, InstallTaskLease(p)
    PROVE  IInv'
<1> USE ContinuationsAssumption
        DEF IInv, TypeOK, Owners, Creators, Askers, Begun, Stopped, Creating, Asking,
            InstallTaskLease, Go, Done, Forget
<1>1. TypeOK'
  BY DEF Ops
<1>2. Owners'
  OBVIOUS
<1>3. Progress'
  BY DEF Progress, Pending, Mapped, Armed
<1>4. TaskPinned' /\ TaskReachable'
  BY DEF Progress, Pending, Mapped, Armed, TaskPinned, TaskReachable
<1> QED BY <1>1, <1>2, <1>3, <1>4

(* The task is promised: its mapping is stored, and its lease installed if *)
(* the service is up.                                                      *)
LEMMA InstallExpiryTimerStep ==
    ASSUME IInv, NEW p \in Procs, InstallExpiryTimer(p)
    PROVE  IInv'
<1> USE ContinuationsAssumption
        DEF IInv, TypeOK, Owners, Creators, Askers, Begun, Stopped, Creating, Asking,
            InstallExpiryTimer, Done
<1>1. TypeOK'
  BY DEF Ops
<1>2. Owners'
  OBVIOUS
<1>3. Progress'
  BY DEF Progress, Pending, Mapped, Armed
<1>4. TaskPinned' /\ TaskReachable'
  BY DEF Progress, Pending, Mapped, Armed, TaskPinned, TaskReachable
<1> QED BY <1>1, <1>2, <1>3, <1>4

-----------------------------------------------------------------------------
(* The operations of clients.                                              *)

(* Only an expired mapping is deleted.                                     *)
LEMMA ResolveTaskStep ==
    ASSUME IInv, NEW p \in Procs, NEW t \in Tasks, NEW k \in Ops, ResolveTask(p, t, k)
    PROVE  IInv'
<1> USE ContinuationsAssumption
        DEF IInv, TypeOK, Owners, Creators, Askers, Begun, Stopped, Creating, Asking,
            ResolveTask, Leases
<1>1. TypeOK'
  BY DEF Ops
<1>2. Owners'
  OBVIOUS
<1>3. Progress'
  BY DEF Progress, Pending, Mapped, Armed
<1>4. TaskPinned' /\ TaskReachable'
  BY DEF Progress, Pending, Mapped, Armed, TaskPinned, TaskReachable
<1> QED BY <1>1, <1>2, <1>3, <1>4

\* A request goes on only with the task of a client that was told of it.
LEMMA EnsureTaskLeaseStep ==
    ASSUME IInv, NEW p \in Procs, EnsureTaskLease(p)
    PROVE  IInv'
<1> USE ContinuationsAssumption
        DEF IInv, TypeOK, Owners, Creators, Askers, Begun, Stopped, Creating, Asking,
            EnsureTaskLease, Go, Done, Rows, Leases
<1>1. TypeOK'
  BY DEF Ops
<1>2. Owners'
  OBVIOUS
<1>3. Progress'
  BY DEF Progress, Pending, Mapped, Armed
<1>4. TaskPinned' /\ TaskReachable'
  BY DEF Progress, Pending, Mapped, Armed, TaskPinned, TaskReachable
<1> QED BY <1>1, <1>2, <1>3, <1>4

\* A lease that is taken again is held until it is installed.
LEMMA ReacquireTaskLeaseStep ==
    ASSUME IInv, NEW p \in Procs, ReacquireTaskLease(p)
    PROVE  IInv'
<1> USE ContinuationsAssumption
        DEF IInv, TypeOK, Owners, Creators, Askers, Begun, Stopped, Creating, Asking,
            ReacquireTaskLease, Acquired, NotAcquired, Fault, Go, Done, Rows, Leases
<1>1. TypeOK'
  BY DEF Ops
<1>2. Owners'
  OBVIOUS
<1>3. Progress'
  BY DEF Progress, Pending, Mapped, Armed
<1>4. TaskPinned' /\ TaskReachable'
  BY DEF Progress, Pending, Mapped, Armed, TaskPinned, TaskReachable
<1> QED BY <1>1, <1>2, <1>3, <1>4

(* Of two requests that take the lease again, one installs it.             *)
LEMMA ReinstallTaskLeaseStep ==
    ASSUME IInv, NEW p \in Procs, ReinstallTaskLease(p)
    PROVE  IInv'
<1> USE ContinuationsAssumption
        DEF IInv, TypeOK, Owners, Creators, Askers, Begun, Stopped, Creating, Asking,
            ReinstallTaskLease, Go, Done, Forget
<1>1. TypeOK'
  BY DEF Ops
<1>2. Owners'
  OBVIOUS
<1>3. Progress'
  BY DEF Progress, Pending, Mapped, Armed
<1>4. TaskPinned' /\ TaskReachable'
  BY DEF Progress, Pending, Mapped, Armed, TaskPinned, TaskReachable
<1> QED BY <1>1, <1>2, <1>3, <1>4

\* Forwarding an operation changes neither mapping nor lease.
LEMMA UseTaskStep ==
    ASSUME IInv, NEW p \in Procs, UseTask(p)
    PROVE  IInv'
<1> USE ContinuationsAssumption
        DEF IInv, TypeOK, Owners, Creators, Askers, Begun, Stopped, Creating, Asking,
            UseTask, Acquired, NotAcquired, Fault, Done, Rows, Leases
<1>1. TypeOK'
  BY DEF Ops
<1>2. Owners'
  OBVIOUS
<1>3. Progress'
  BY DEF Progress, Pending, Mapped, Armed
<1>4. TaskPinned' /\ TaskReachable'
  BY DEF Progress, Pending, Mapped, Armed, TaskPinned, TaskReachable
<1> QED BY <1>1, <1>2, <1>3, <1>4

\* Only an answer that the task has ended leads to finishTask.
LEMMA AskTaskStep ==
    ASSUME IInv, NEW p \in Procs, AskTask(p)
    PROVE  IInv'
<1> USE ContinuationsAssumption
        DEF IInv, TypeOK, Owners, Creators, Askers, Begun, Stopped, Creating, Asking,
            AskTask, Done, Rows, Leases, Terminal
<1>1. TypeOK'
  BY DEF Ops
<1>2. Owners'
  OBVIOUS
<1>3. Progress'
  BY DEF Progress, Pending, Mapped, Armed
<1>4. TaskPinned' /\ TaskReachable'
  BY DEF Progress, Pending, Mapped, Armed, TaskPinned, TaskReachable
<1> QED BY <1>1, <1>2, <1>3, <1>4

(* A task that loses its lease here is finished.                           *)
LEMMA FinishTaskStep ==
    ASSUME IInv, NEW p \in Procs, FinishTask(p)
    PROVE  IInv'
<1> USE ContinuationsAssumption
        DEF IInv, TypeOK, Owners, Creators, Askers, Begun, Stopped, Creating, Asking,
            FinishTask, TakeOut, Go
<1>1. TypeOK'
  BY DEF Ops
<1>2. Owners'
  OBVIOUS
<1>3. Progress'
  BY DEF Progress, Pending, Mapped, Armed
<1>4. TaskPinned' /\ TaskReachable'
  BY DEF Progress, Pending, Mapped, Armed, TaskPinned, TaskReachable
<1> QED BY <1>1, <1>2, <1>3, <1>4

(* The mapping that goes is that of a finished task.                       *)
LEMMA DeleteContinuationStep ==
    ASSUME IInv, NEW p \in Procs, DeleteContinuation(p)
    PROVE  IInv'
<1> USE ContinuationsAssumption
        DEF IInv, TypeOK, Owners, Creators, Askers, Begun, Stopped, Creating, Asking,
            DeleteContinuation, Fault, Done, Leases
<1>1. TypeOK'
  BY DEF Ops
<1>2. Owners'
  OBVIOUS
<1>3. Progress'
  BY DEF Progress, Pending, Mapped, Armed
<1>4. TaskPinned' /\ TaskReachable'
  BY DEF Progress, Pending, Mapped, Armed, TaskPinned, TaskReachable
<1> QED BY <1>1, <1>2, <1>3, <1>4

-----------------------------------------------------------------------------
(* Time.                                                                   *)

\* A lease that runs out before it is installed belongs to a task that is due.
LEMMA PendingExpiresStep ==
    ASSUME IInv, NEW p \in Procs, PendingExpires(p)
    PROVE  IInv'
<1> USE ContinuationsAssumption
        DEF IInv, TypeOK, Owners, Creators, Askers, Begun, Stopped, Creating, Asking,
            PendingExpires
<1>1. TypeOK'
  BY DEF Ops
<1>2. Owners'
  OBVIOUS
<1>3. Progress'
  BY DEF Progress, Pending, Mapped, Armed
<1>4. TaskPinned' /\ TaskReachable'
  BY DEF Progress, Pending, Mapped, Armed, TaskPinned, TaskReachable
<1> QED BY <1>1, <1>2, <1>3, <1>4

\* A task that becomes due is promised nothing any more.
LEMMA TimePassesStep ==
    ASSUME IInv, NEW t \in Tasks, TimePasses(t)
    PROVE  IInv'
<1> USE ContinuationsAssumption
        DEF IInv, TypeOK, Owners, Creators, Askers, Begun, Stopped, Creating, Asking,
            TimePasses
<1>1. TypeOK'
  BY DEF Ops
<1>2. Owners'
  OBVIOUS
<1>3. Progress'
  BY DEF Progress, Pending, Mapped, Armed
<1>4. TaskPinned' /\ TaskReachable'
  BY DEF Progress, Pending, Mapped, Armed, TaskPinned, TaskReachable
<1> QED BY <1>1, <1>2, <1>3, <1>4

(* The timers end only what is due.                                        *)
LEMMA LeaseExpiresStep ==
    ASSUME IInv, NEW t \in Tasks, LeaseExpires(t)
    PROVE  IInv'
<1> USE ContinuationsAssumption
        DEF IInv, TypeOK, Owners, Creators, Askers, Begun, Stopped, Creating, Asking,
            LeaseExpires
<1>1. TypeOK'
  BY DEF Ops
<1>2. Owners'
  OBVIOUS
<1>3. Progress'
  BY DEF Progress, Pending, Mapped, Armed
<1>4. TaskPinned' /\ TaskReachable'
  BY DEF Progress, Pending, Mapped, Armed, TaskPinned, TaskReachable
<1> QED BY <1>1, <1>2, <1>3, <1>4

\* Timers fire for tasks that are due.
LEMMA TimerFiresStep ==
    ASSUME IInv, NEW t \in Tasks, TimerFires(t)
    PROVE  IInv'
<1> USE ContinuationsAssumption
        DEF IInv, TypeOK, Owners, Creators, Askers, Begun, Stopped, Creating, Asking,
            TimerFires, TakeOut
<1>1. TypeOK'
  BY DEF Ops
<1>2. Owners'
  OBVIOUS
<1>3. Progress'
  BY DEF Progress, Pending, Mapped, Armed
<1>4. TaskPinned' /\ TaskReachable'
  BY DEF Progress, Pending, Mapped, Armed, TaskPinned, TaskReachable
<1> QED BY <1>1, <1>2, <1>3, <1>4

\* A timer deletes the mapping of an expired task only.
LEMMA TimerDeletesStep ==
    ASSUME IInv, NEW t \in Tasks, TimerDeletes(t)
    PROVE  IInv'
<1> USE ContinuationsAssumption
        DEF IInv, TypeOK, Owners, Creators, Askers, Begun, Stopped, Creating, Asking,
            TimerDeletes
<1>1. TypeOK'
  BY DEF Ops
<1>2. Owners'
  OBVIOUS
<1>3. Progress'
  BY DEF Progress, Pending, Mapped, Armed
<1>4. TaskPinned' /\ TaskReachable'
  BY DEF Progress, Pending, Mapped, Armed, TaskPinned, TaskReachable
<1> QED BY <1>1, <1>2, <1>3, <1>4

-----------------------------------------------------------------------------
(* The session, the service and the process.                               *)

\* The end of the downstream task changes nothing the Manager keeps.
LEMMA TaskCompletesStep ==
    ASSUME IInv, NEW t \in Tasks, TaskCompletes(t)
    PROVE  IInv'
<1> USE ContinuationsAssumption
        DEF IInv, TypeOK, Owners, Creators, Askers, Begun, Stopped, Creating, Asking,
            TaskCompletes
<1>1. TypeOK'
  BY DEF Ops
<1>2. Owners'
  OBVIOUS
<1>3. Progress'
  BY DEF Progress, Pending, Mapped, Armed
<1>4. TaskPinned' /\ TaskReachable'
  BY DEF Progress, Pending, Mapped, Armed, TaskPinned, TaskReachable
<1> QED BY <1>1, <1>2, <1>3, <1>4

\* An exit of the session takes no lease away.
LEMMA SessionExitsStep ==
    ASSUME IInv, SessionExits
    PROVE  IInv'
<1> USE ContinuationsAssumption
        DEF IInv, TypeOK, Owners, Creators, Askers, Begun, Stopped, Creating, Asking,
            SessionExits, SessionGone, Fault
<1>1. TypeOK'
  BY DEF Ops
<1>2. Owners'
  OBVIOUS
<1>3. Progress'
  BY DEF Progress, Pending, Mapped, Armed
<1>4. TaskPinned' /\ TaskReachable'
  BY DEF Progress, Pending, Mapped, Armed, TaskPinned, TaskReachable
<1> QED BY <1>1, <1>2, <1>3, <1>4

\* The idle stop takes no lease away.
LEMMA IdleStopStep ==
    ASSUME IInv, IdleStop
    PROVE  IInv'
<1> USE ContinuationsAssumption
        DEF IInv, TypeOK, Owners, Creators, Askers, Begun, Stopped, Creating, Asking,
            IdleStop, SessionGone
<1>1. TypeOK'
  BY DEF Ops
<1>2. Owners'
  OBVIOUS
<1>3. Progress'
  BY DEF Progress, Pending, Mapped, Armed
<1>4. TaskPinned' /\ TaskReachable'
  BY DEF Progress, Pending, Mapped, Armed, TaskPinned, TaskReachable
<1> QED BY <1>1, <1>2, <1>3, <1>4

(* Closing drops the leases, and with phase the promise of a runtime.      *)
LEMMA CloseStep ==
    ASSUME IInv, Close
    PROVE  IInv'
<1> USE ContinuationsAssumption
        DEF IInv, TypeOK, Owners, Creators, Askers, Begun, Stopped, Creating, Asking,
            Close
<1>1. TypeOK'
  BY DEF Ops
<1>2. Owners'
  OBVIOUS
<1>3. Progress'
  BY DEF Progress, Pending, Mapped, Armed
<1>4. TaskPinned' /\ TaskReachable'
  BY DEF Progress, Pending, Mapped, Armed, TaskPinned, TaskReachable
<1> QED BY <1>1, <1>2, <1>3, <1>4

(* No request survives the process; the mappings do.                       *)
LEMMA ExitStep ==
    ASSUME IInv, Exit
    PROVE  IInv'
<1> USE ContinuationsAssumption
        DEF IInv, TypeOK, Owners, Creators, Askers, Begun, Stopped, Creating, Asking,
            Exit, Fault
<1>1. TypeOK'
  BY DEF Ops
<1>2. Owners'
  OBVIOUS
<1>3. Progress'
  BY DEF Progress, Pending, Mapped, Armed
<1>4. TaskPinned' /\ TaskReachable'
  BY DEF Progress, Pending, Mapped, Armed, TaskPinned, TaskReachable
<1> QED BY <1>1, <1>2, <1>3, <1>4

(* What is open and not expired is leased again or counted as missed.      *)
LEMMA NewContinuationServiceStep ==
    ASSUME IInv, NEW ok \in SUBSET Tasks, NewContinuationService(ok)
    PROVE  IInv'
<1> USE ContinuationsAssumption
        DEF IInv, TypeOK, Owners, Creators, Askers, Begun, Stopped, Creating, Asking,
            NewContinuationService, Kept, Survives, Fault
<1>1. TypeOK'
  BY DEF Ops
<1>2. Owners'
  OBVIOUS
<1>3. Progress'
  BY DEF Progress, Pending, Mapped, Armed
<1>4. TaskPinned' /\ TaskReachable'
  BY DEF Progress, Pending, Mapped, Armed, TaskPinned, TaskReachable
<1> QED BY <1>1, <1>2, <1>3, <1>4

-----------------------------------------------------------------------------
\* Every step keeps the invariant.
LEMMA NextIInv == IInv /\ [Next]_vars => IInv'
<1> SUFFICES ASSUME IInv, [Next]_vars PROVE IInv'
  OBVIOUS
<1>1. ASSUME NEW p \in Procs, Request(p) PROVE IInv'
  BY <1>1, SessionStep, ResolveTaskStep, CallToolStep, AcquireTaskLeaseStep, PutContinuationStep,
     InstallTaskLeaseStep, InstallExpiryTimerStep, EnsureTaskLeaseStep, ReacquireTaskLeaseStep,
     ReinstallTaskLeaseStep, UseTaskStep, AskTaskStep, FinishTaskStep, DeleteContinuationStep,
     PendingExpiresStep
     DEF Request
<1>2. ASSUME NEW t \in Tasks, Clock(t) \/ TaskCompletes(t) PROVE IInv'
  BY <1>2, TimePassesStep, LeaseExpiresStep, TimerFiresStep, TimerDeletesStep, TaskCompletesStep
     DEF Clock
<1>3. CASE SessionExits \/ IdleStop \/ Close \/ Exit
  BY <1>3, SessionExitsStep, IdleStopStep, CloseStep, ExitStep
<1>4. ASSUME NEW ok \in SUBSET Tasks, NewContinuationService(ok) PROVE IInv'
  BY <1>4, NewContinuationServiceStep
<1>5. CASE UNCHANGED vars
  BY <1>5 DEF vars, IInv, TypeOK, Owners, Creators, Askers, Begun, Stopped, Progress, Pending,
              Mapped, Armed, TaskPinned, TaskReachable
<1> QED BY <1>1, <1>2, <1>3, <1>4, <1>5 DEF Next

\* The invariant holds throughout.
LEMMA SpecIInv == Spec => []IInv
  BY InitIInv, NextIInv, PTL DEF Spec

(* The state of the continuation service and of the requests keeps its     *)
(* shape.                                                                  *)
THEOREM TypeCorrect == Spec => []TypeOK
  BY SpecIInv, PTL DEF IInv

(* A task whose id a client holds pins the runtime of its server from the  *)
(* answer of the routed call until finishTask or its expiry, for any       *)
(* number of concurrent requests and tasks, through closing, crashes,      *)
(* restarts and failed connections.                                        *)
THEOREM TasksPinned == Spec => []TaskPinned
  BY SpecIInv, PTL DEF IInv

(* A task id that was given out for a running task resolves until the task *)
(* is finished or expires (continuation_mappings, newContinuationService). *)
THEOREM TasksReachable == Spec => []TaskReachable
  BY SpecIInv, PTL DEF IInv
=============================================================================

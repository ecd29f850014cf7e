----------------------------- MODULE Execution -----------------------------
(***************************************************************************)
(* Routed calls of one tool of one downstream server: the execution handle *)
(* that get_tool mints, the checks of executionrouter.Execute, the session *)
(* that the lifecycle leases, its view of the server's tool list, and the  *)
(* downstream tools/call with the callbacks the server may send meanwhile. *)
(*                                                                         *)
(* A contract stands for the tool's fingerprint and executor class, None   *)
(* for a tool that is not listed.  Catalog models how the index is built,  *)
(* RoutedLifecycle how sessions start and stop; both are one step here.    *)
(***************************************************************************)
EXTENDS Naturals, Sequences, FiniteSets

CONSTANTS
    Calls,       \* requests to an executor tool, each with its upstream client
    Contracts,   \* tool contracts
    Class,       \* the executor class of a contract
    First,       \* the contract that is listed and indexed at first
    None,        \* no tool, no call
    Dynamic,     \* does the server announce tools/list_changed: values of Init
    MaxChanges,  \* bound on changes of the server's tool list
    MaxGens,     \* bound on index generations
    MaxSessions, \* bound on sessions
    MaxFaults,   \* bound on faults
    Faults       \* which faults may happen

ASSUME ExecutionAssumption ==
    /\ First \in Contracts /\ None \notin Contracts \cup Calls /\ Contracts \subseteq DOMAIN Class
    /\ {MaxChanges, MaxSessions, MaxFaults} \subseteq Nat /\ MaxGens \in Nat \ {0}
    /\ Dynamic \subseteq BOOLEAN
    /\ Faults \subseteq {"exit", "connect", "restart", "cancel", "store"}

VARIABLES
    lists,    \* what the server lists for the tool now
    changes,  \* how often that has changed
    dynamic,  \* the server announces changes
    sess,     \* all sessions so far
    cur,      \* the lifecycle's session, or 0
    cached,   \* the tool's contract in the catalog's tool cache
    gen,      \* the active generation
    rev,      \* the routing revision, which stands for the routing state hash
    epoch,    \* the process epoch of the execution handles
    phase,    \* up, or closing (routedlifecycle.Service.closing)
    pc, snap, handle, on, result, \* of a call: its place, the hash it read, its
              \* handle, its session, what the server returned
    outcome,  \* of a call: none, or the outcome it was answered with
    exec,     \* calls the server is working on
    faults,   \* how many faults have happened
    ran,      \* history: the contract under which the server started a call
    drift,    \* history: calls whose server changed its list after the last check
    heard     \* history: <<call, client>>, callbacks and who was asked

vars == <<lists, changes, dynamic, sess, cur, cached, gen, rev, epoch, phase, pc, snap, handle,
          on, result, outcome, exec, faults, ran, drift, heard>>
srvVars  == <<lists, changes, dynamic, exec, ran, drift, heard>>
sessVars == <<sess, cur, cached>>
ixVars   == <<gen, rev, epoch, phase>>
callVars == <<pc, snap, handle, on, result, outcome>>

Lists == Contracts \cup {None}
Places == {"idle", "holding", "snap", "admitted", "leased", "checked", "called", "waiting",
           "inflight", "returned", "task", "done"}
Leased == {"leased", "checked", "called", "waiting", "inflight", "returned", "task"}
Outcomes == {"none", "not_started", "unknown", "completed"}

TypeOK ==
    /\ lists \in Lists /\ changes \in 0 .. MaxChanges /\ dynamic \in BOOLEAN
    /\ sess \in Seq([alive : BOOLEAN, initial : Lists, current : Lists, effective : Contracts,
                     seen : Lists, changed : BOOLEAN, wake : BOOLEAN,
                     owner : Calls \cup {None}])
    /\ Len(sess) <= MaxSessions /\ cur \in 0 .. Len(sess) /\ cached \in Contracts
    /\ gen \in [id : 1 .. MaxGens, c : Contracts, hash : Nat] /\ rev \in Nat \ {0}
    /\ epoch \in Nat /\ phase \in {"up", "closing"} /\ pc \in [Calls -> Places]
    /\ snap \in [Calls -> Nat] /\ on \in [Calls -> 0 .. Len(sess)]
    /\ handle \in [Calls -> [gen : 1 .. MaxGens, c : Contracts, epoch : Nat]]
    /\ result \in [Calls -> {"none", "plain", "task"}] /\ outcome \in [Calls -> Outcomes]
    /\ exec \subseteq Calls /\ drift \subseteq Calls /\ ran \in [Calls -> Lists]
    /\ heard \subseteq Calls \X Calls /\ faults \in 0 .. MaxFaults

Fault(f) == f \in Faults /\ faults < MaxFaults /\ faults' = faults + 1
Ready == gen.hash = rev
InUse == {c \in Calls : pc[c] \in Leased}

Init ==
    /\ lists = First /\ changes = 0 /\ dynamic \in Dynamic
    /\ sess = <<>> /\ cur = 0 /\ cached = First
    /\ gen = [id |-> 1, c |-> First, hash |-> 1] /\ rev = 1 /\ epoch = 0 /\ phase = "up"
    /\ pc = [c \in Calls |-> "idle"] /\ snap = [c \in Calls |-> 0]
    /\ handle = [c \in Calls |-> [gen |-> 1, c |-> First, epoch |-> 0]]
    /\ on = [c \in Calls |-> 0] /\ result = [c \in Calls |-> "none"]
    /\ outcome = [c \in Calls |-> "none"] /\ exec = {} /\ faults = 0
    /\ ran = [c \in Calls |-> None] /\ drift = {} /\ heard = {}

-----------------------------------------------------------------------------
(* The server and what sessions know of its tool list                      *)

\* The server changes, hides or shows the tool.
ListChange(l) ==
    /\ changes < MaxChanges /\ l # lists /\ lists' = l /\ changes' = changes + 1
    /\ drift' = drift \cup {c \in Calls : pc[c] \in {"waiting", "inflight"} /\ ran[c] = None}
    /\ UNCHANGED <<dynamic, exec, ran, heard, faults>>
    /\ UNCHANGED sessVars /\ UNCHANGED ixVars /\ UNCHANGED callVars

\* ObserveServerTools: is a listed contract neither the index's nor the cache's?
SemanticChange(l) == l \notin {None, gen.c, cached}
Caches(l) == IF l = None THEN cached ELSE l

\* connectWithPersistentToolIdentity: InitialTools is the cached identity.
NewSession == [alive |-> TRUE, initial |-> lists, current |-> lists, effective |-> Caches(lists),
               seen |-> lists, changed |-> FALSE, wake |-> FALSE, owner |-> None]
\* A session that is replaced is closed.
Retired == [i \in DOMAIN sess |-> IF i = cur THEN [sess[i] EXCEPT !.alive = FALSE, !.wake = FALSE]
                                  ELSE sess[i]]
Connect ==
    /\ Len(sess) < MaxSessions /\ sess' = Append(Retired, NewSession) /\ cur' = Len(sess) + 1
    /\ cached' = Caches(lists)
    /\ rev' = IF SemanticChange(lists) THEN rev + 1 ELSE rev

\* observeLiveSnapshot: a changed contract becomes the session's identity,
\* marks the server dirty and advances the revision.
Observed(s) ==
    [s EXCEPT !.effective = IF s.current # s.seen /\ SemanticChange(s.current)
                            THEN s.current ELSE s.effective,
              !.seen = s.current]
ObserveAt(i, s) ==
    /\ sess' = [sess EXCEPT ![i] = Observed(s)]
    /\ cached' = IF s.current # s.seen THEN Caches(s.current) ELSE cached
    /\ rev' = IF s.current # s.seen /\ SemanticChange(s.current) THEN rev + 1 ELSE rev
    /\ UNCHANGED <<cur, gen, epoch, phase>>

\* refreshToolsAsync after tools/list_changed, and setCurrentTools.
Refresh(i) ==
    /\ dynamic /\ sess[i].alive /\ sess[i].current # lists
    /\ sess' = [sess EXCEPT ![i].current = lists, ![i].wake = TRUE]
    /\ UNCHANGED <<cur, cached, faults>>
    /\ UNCHANGED srvVars /\ UNCHANGED ixVars /\ UNCHANGED callVars
\* watchLiveToolChanges
Watch(i) ==
    /\ sess[i].wake /\ sess[i].alive /\ ObserveAt(i, [sess[i] EXCEPT !.wake = FALSE])
    /\ UNCHANGED faults /\ UNCHANGED srvVars /\ UNCHANGED callVars

\* The runtime exits, or the lifecycle stops it because nobody uses it.
Ends(i) == /\ sess' = [sess EXCEPT ![i].alive = FALSE, ![i].wake = FALSE]
           /\ UNCHANGED cached /\ UNCHANGED srvVars /\ UNCHANGED ixVars /\ UNCHANGED callVars
SessionExits == cur # 0 /\ sess[cur].alive /\ Fault("exit") /\ Ends(cur) /\ UNCHANGED cur
IdleStop == cur # 0 /\ InUse = {} /\ Ends(cur) /\ cur' = 0 /\ UNCHANGED faults

\* A new generation is built from the session's InitialTools.
Reindex ==
    /\ ~Ready /\ cur # 0 /\ sess[cur].alive /\ gen.id < MaxGens
    /\ gen' = [id |-> gen.id + 1, c |-> sess[cur].effective, hash |-> rev]
    /\ UNCHANGED <<rev, epoch, phase, faults>>
    /\ UNCHANGED srvVars /\ UNCHANGED sessVars /\ UNCHANGED callVars

-----------------------------------------------------------------------------
(* executionrouter.Execute                                                 *)

Go(c, l) == pc' = [pc EXCEPT ![c] = l]
Answer(c, o) == Go(c, "done") /\ outcome' = [outcome EXCEPT ![c] = o]
Refuse(c) == Answer(c, "not_started")

\* get_tool mints a handle for the tool of the active generation.
Mint(c) ==
    /\ pc[c] = "idle" /\ phase = "up" /\ Ready /\ Go(c, "holding")
    /\ handle' = [handle EXCEPT ![c] = [gen |-> gen.id, c |-> gen.c, epoch |-> epoch]]
    /\ UNCHANGED <<snap, on, result, outcome, faults>>
    /\ UNCHANGED srvVars /\ UNCHANGED sessVars /\ UNCHANGED ixVars

\* Validate: a handle of an earlier process is refused.  Then the hash is read.
Validate(c) ==
    /\ pc[c] = "holding"
    /\ IF handle[c].epoch # epoch THEN Refuse(c) /\ UNCHANGED snap
       ELSE Go(c, "snap") /\ snap' = [snap EXCEPT ![c] = rev] /\ UNCHANGED outcome
    /\ UNCHANGED <<handle, on, result, faults>>
    /\ UNCHANGED srvVars /\ UNCHANGED sessVars /\ UNCHANGED ixVars

\* The active generation must have the hash and be the handle's; the tool's
\* class must be the executor's; the arguments must fit.
Admissible(c, executor) == /\ gen.hash = snap[c] /\ handle[c].gen = gen.id
                           /\ handle[c].c = gen.c /\ Class[gen.c] = executor
Admit(c, executor, fits) ==
    /\ pc[c] = "snap"
    /\ IF Admissible(c, executor) /\ fits THEN Go(c, "admitted") /\ UNCHANGED outcome
       ELSE Refuse(c)
    /\ snap' = [snap EXCEPT ![c] = 0] /\ UNCHANGED <<handle, on, result, faults>>
    /\ UNCHANGED srvVars /\ UNCHANGED sessVars /\ UNCHANGED ixVars

\* Acquire: a session whose contract changed is replaced when nobody uses it,
\* an exited one at once.
Usable(i) == i # 0 /\ sess[i].alive /\ ~sess[i].changed
Busy == cur # 0 /\ sess[cur].changed /\ InUse # {}
Acquire(c) ==
    /\ pc[c] = "admitted"
    /\ \/ /\ phase = "closing" \/ Busy
          /\ Refuse(c) /\ UNCHANGED <<on, sess, cur, cached, rev, faults>>
       \/ /\ phase = "up" /\ Usable(cur) /\ Go(c, "leased") /\ on' = [on EXCEPT ![c] = cur]
          /\ UNCHANGED <<outcome, sess, cur, cached, rev, faults>>
       \/ /\ phase = "up" /\ ~Usable(cur) /\ ~Busy /\ Connect
          /\ Go(c, "leased") /\ on' = [on EXCEPT ![c] = cur'] /\ UNCHANGED <<outcome, faults>>
       \/ /\ phase = "up" /\ ~Usable(cur) /\ ~Busy /\ Fault("connect") /\ cur' = 0
          /\ sess' = Retired /\ Refuse(c) /\ UNCHANGED <<on, cached, rev>>
    /\ UNCHANGED <<snap, handle, result, gen, epoch, phase>> /\ UNCHANGED srvVars

\* InitialTools must be the generation's tools; otherwise invalidateContract.
CheckLive(c) ==
    /\ pc[c] = "leased"
    /\ IF sess[on[c]].effective = handle[c].c THEN Go(c, "checked") /\ UNCHANGED <<outcome, rev>>
       ELSE Refuse(c) /\ rev' = rev + 1
    /\ UNCHANGED <<snap, handle, on, result, gen, epoch, phase, faults>>
    /\ UNCHANGED srvVars /\ UNCHANGED sessVars

\* persistentToolSession.CallTool: the live list is reconciled, and the tool
\* must be on it by name.
CheckAvailable(c) ==
    /\ pc[c] = "checked" /\ ObserveAt(on[c], sess[on[c]])
    /\ IF sess[on[c]].current = None THEN Refuse(c) ELSE Go(c, "called") /\ UNCHANGED outcome
    /\ UNCHANGED <<snap, handle, on, result, faults>> /\ UNCHANGED srvVars

\* Session.CallTool: the process must run and the contract be unchanged; a
\* server that announces no changes is asked for its list again.
Revalidates_Never(s) == FALSE
Revalidates(s) == ~dynamic
CheckSession(c) ==
    /\ pc[c] = "called"
    /\ LET i == on[c]
       IN  IF ~sess[i].alive \/ sess[i].changed THEN Refuse(c) /\ UNCHANGED sess
           ELSE IF Revalidates(sess[i]) /\ sess[i].initial # lists
           THEN Refuse(c) /\ sess' = [sess EXCEPT ![i].current = lists, ![i].changed = TRUE]
           ELSE Go(c, "waiting") /\ UNCHANGED <<sess, outcome>>
    /\ UNCHANGED <<snap, handle, on, result, cur, cached, faults>>
    /\ UNCHANGED srvVars /\ UNCHANGED ixVars
\* The list cannot be read again.
RevalidateFails(c) ==
    /\ pc[c] = "called" /\ Usable(on[c]) /\ Revalidates(sess[on[c]]) /\ Fault("cancel")
    /\ Answer(c, "unknown") /\ UNCHANGED <<snap, handle, on, result>>
    /\ UNCHANGED srvVars /\ UNCHANGED sessVars /\ UNCHANGED ixVars

\* callbackMu, and the upstream client as the target of callbacks.
LockFree_Always(i) == TRUE
LockFree(i) == sess[i].owner = None
Dispatch(c) ==
    /\ pc[c] = "waiting" /\ LockFree(on[c]) /\ Go(c, "inflight")
    /\ sess' = [sess EXCEPT ![on[c]].owner = c]
    /\ UNCHANGED <<snap, handle, on, result, outcome, cur, cached, faults>>
    /\ UNCHANGED srvVars /\ UNCHANGED ixVars

\* The request reaches the server, which starts the tool it has now.
ServerStarts(c) ==
    /\ pc[c] = "inflight" /\ sess[on[c]].alive /\ ran[c] = None /\ lists # None
    /\ ran' = [ran EXCEPT ![c] = lists] /\ exec' = exec \cup {c}
    /\ UNCHANGED <<lists, changes, dynamic, drift, heard, faults>>
    /\ UNCHANGED sessVars /\ UNCHANGED ixVars /\ UNCHANGED callVars
\* The server asks the client of a call for something, while it works on it.
Callback(c) ==
    /\ c \in exec /\ sess[on[c]].alive
    /\ heard' = IF sess[on[c]].owner = None THEN heard
                ELSE heard \cup {<<c, sess[on[c]].owner>>}
    /\ UNCHANGED <<lists, changes, dynamic, exec, ran, drift, faults>>
    /\ UNCHANGED sessVars /\ UNCHANGED ixVars /\ UNCHANGED callVars
\* The server ends the work on an abandoned call.
ServerGivesUp(c) ==
    /\ c \in exec /\ pc[c] = "done" /\ exec' = exec \ {c}
    /\ UNCHANGED <<lists, changes, dynamic, ran, drift, heard, faults>>
    /\ UNCHANGED sessVars /\ UNCHANGED ixVars /\ UNCHANGED callVars

Unlock(c) == sess' = [sess EXCEPT ![on[c]].owner = None]
\* The server answers: with a result, or with a task it goes on working on.
Reply(c, r) ==
    /\ pc[c] = "inflight" /\ c \in exec /\ sess[on[c]].alive /\ Unlock(c)
    /\ result' = [result EXCEPT ![c] = r] /\ Go(c, IF r = "task" THEN "task" ELSE "returned")
    /\ exec' = IF r = "task" THEN exec ELSE exec \ {c}
    /\ UNCHANGED <<lists, changes, dynamic, ran, drift, heard, snap, handle, on, outcome, cur,
                   cached, faults>>
    /\ UNCHANGED ixVars
\* The call fails: the runtime exited, the client cancelled, or the lifecycle
\* is closing.  Whether the tool ran cannot be told.
Interrupted_NotByClose(c) == ~sess[on[c]].alive
Interrupted(c) == ~sess[on[c]].alive \/ phase = "closing"
AfterError_Retryable(c) == "not_started"
AfterError_AsCompleted(c) == "completed"
AfterError(c) == "unknown"
Fail(c) ==
    /\ pc[c] = "inflight" /\ Unlock(c) /\ Answer(c, AfterError(c))
    /\ IF Interrupted(c) THEN UNCHANGED faults ELSE Fault("cancel")
    /\ UNCHANGED <<snap, handle, on, result, cur, cached>>
    /\ UNCHANGED srvVars /\ UNCHANGED ixVars

\* Resource links are mapped, and the result is measured: too large or not
\* representable, it is dropped, but the call did complete.
Complete(c) ==
    /\ pc[c] = "returned"
    /\ \/ Answer(c, "completed") /\ UNCHANGED faults
       \/ Answer(c, "unknown") /\ Fault("store")
    /\ UNCHANGED <<snap, handle, on, result>>
    /\ UNCHANGED srvVars /\ UNCHANGED sessVars /\ UNCHANGED ixVars
\* proxyCreatedTask takes a task-held lease, which may have to connect again.
\* An error of the kind "downstream unavailable" then makes the whole call
\* "not started".
ProxyTask(c) ==
    /\ pc[c] = "task"
    /\ \/ /\ phase = "up" /\ Usable(cur) /\ Answer(c, "completed")
          /\ UNCHANGED <<sess, cur, cached, rev, faults>>
       \/ /\ phase = "up" /\ Usable(cur) /\ Answer(c, "unknown") /\ Fault("store")
          /\ UNCHANGED <<sess, cur, cached, rev>>
       \/ /\ phase = "closing" \/ Busy
          /\ Answer(c, "unknown") /\ UNCHANGED <<sess, cur, cached, rev, faults>>
       \/ /\ phase = "up" /\ ~Usable(cur) /\ ~Busy /\ Connect
          /\ Answer(c, "completed") /\ UNCHANGED faults
       \/ /\ phase = "up" /\ ~Usable(cur) /\ ~Busy /\ Fault("connect") /\ cur' = 0
          /\ sess' = Retired /\ UNCHANGED <<cached, rev>>
          /\ \E o \in {"not_started", "unknown"} : Answer(c, o)
    /\ UNCHANGED <<snap, handle, on, result, gen, epoch, phase>> /\ UNCHANGED srvVars

-----------------------------------------------------------------------------
\* routedlifecycle.Close begins: contexts are cancelled, sessions refused.
Close == /\ phase = "up" /\ phase' = "closing"
         /\ UNCHANGED <<gen, rev, epoch, faults>>
         /\ UNCHANGED srvVars /\ UNCHANGED sessVars /\ UNCHANGED callVars
\* A new process: handles are kept by clients, everything else is gone.
Restart ==
    /\ Fault("restart") /\ phase' = "up" /\ epoch' = epoch + 1 /\ cur' = 0
    /\ sess' = [i \in DOMAIN sess |-> [sess[i] EXCEPT !.alive = FALSE, !.owner = None,
                                                     !.wake = FALSE]]
    /\ pc' = [c \in Calls |-> IF pc[c] \in {"idle", "holding"} THEN pc[c] ELSE "done"]
    /\ UNCHANGED <<snap, handle, on, result, outcome, cached, gen, rev>>
    /\ UNCHANGED srvVars

Execute(c) ==
    \/ Mint(c) \/ Validate(c) \/ Acquire(c) \/ CheckLive(c) \/ CheckAvailable(c)
    \/ \E e \in {Class[k] : k \in Contracts}, fits \in BOOLEAN : Admit(c, e, fits)
    \/ CheckSession(c) \/ RevalidateFails(c) \/ Dispatch(c) \/ Complete(c) \/ ProxyTask(c) \/ Fail(c)
Downstream(c) == \/ ServerStarts(c) \/ Callback(c) \/ ServerGivesUp(c)
                 \/ \E r \in {"plain", "task"} : Reply(c, r)

Next == \/ \E c \in Calls : Execute(c) \/ Downstream(c)
        \/ \E l \in Lists : ListChange(l)
        \/ \E i \in DOMAIN sess : Refresh(i) \/ Watch(i)
        \/ SessionExits \/ IdleStop \/ Reindex \/ Close \/ Restart

\* The goroutine of a request runs on; the server and the client need not.
Proceed(c) == pc[c] \in Leased /\ Execute(c) /\ faults' = faults
Fairness == \A c \in Calls : WF_vars(Proceed(c))
Spec == Init /\ [][Next]_vars /\ Fairness

-----------------------------------------------------------------------------
(* Properties                                                              *)

\* A server that does not announce changes runs a call only under the contract
\* that the handle was minted for, unless it changed its list after Session's
\* last look at it: whatever was indexed, cached, observed or reconnected
\* between get_tool and the call.
RunsCheckedContract ==
    \A c \in Calls : ran[c] # None /\ ~dynamic /\ c \notin drift => ran[c] = handle[c].c

\* A callback reaches the client of another request only when the server goes
\* on with a call whose own request has ended: by an error, or with a task.
CallbacksStayHome ==
    \A c, d \in Calls : <<c, d>> \in heard /\ c # d => pc[c] \in {"task", "done"}

\* An answer "not started", which invites the client to call again, is given
\* only when the server did not start the tool.  Excepted is a call answered
\* with a task whose lease cannot be had.
NotStartedIsTrue ==
    \A c \in Calls : outcome[c] = "not_started" /\ result[c] # "task" => ran[c] = None

\* What CallContract speaks of.
Started == {c \in Calls : ran[c] # None}
Over == {c \in Calls : pc[c] = "done"}
Tasks == {c \in Calls : result[c] = "task"}
Contract == INSTANCE CallContract WITH started <- Started, held <- Tasks, over <- Over, said <- outcome
\* Execution implements CallContract: whatever fails or is restarted meanwhile,
\* a call is started at most once and never after its answer, is answered at
\* most once, and "completed" is said only of a call that the server started.
AnsweredOnce == Contract!Spec

\* Once the lifecycle is closing every call in progress is answered, also one
\* that waits behind another for callbackMu, which does not watch its context.
ClosingDrains == phase = "closing" ~> (phase = "up" \/ InUse = {})
=============================================================================

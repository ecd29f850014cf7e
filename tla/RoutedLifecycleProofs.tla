----------------------- MODULE RoutedLifecycleProofs -----------------------
(***************************************************************************)
(* Proofs about RoutedLifecycle, for every set of servers, callers,        *)
(* background goroutines, configurations and faults.  First the type       *)
(* invariant, that active_call_count is exact, that a reserved server is   *)
(* not in use and that runtimeChanging never outlives the holder of op;    *)
(* then, on top of these, who owns a runtime and a reservation, that a     *)
(* runtime under a lease is not closed, that runtimes and edits go         *)
(* together, and that deleted servers and Close leave nothing running.     *)
(***************************************************************************)
EXTENDS RoutedLifecycle, FiniteSetTheorems, TLAPS

-----------------------------------------------------------------------------
(* The inductive invariant. None of the three properties is inductive alone: *)
(* the count is only right if a lease is given back by who holds it, and a   *)
(* flag is only lowered by who raised it, so the invariant says who is who.  *)

\* Every goroutine that is doing something, and every runtime, has a server.
Placed ==
    /\ \A a \in Actors : act[a].pc # "idle" => act[a].srv \in Servers
    /\ \A x \in Sessions :
          sess[x].status # "free" \/ sess[x].reap # "no" => sess[x].srv \in Servers

\* A goroutine inside an operation holds op of its server.
OpHeld == \A a \in Actors : act[a].pc \in OpPcs => st[act[a].srv].op = a

\* runtimeChanging was raised by who holds op now, and it will lower it: a
\* goroutine only does so in Start, Stop and Restart.
ChangingOwned ==
    \A s \in Servers : st[s].runtimeChanging =>
        /\ st[s].op # Free
        /\ st[s].op \in Actors =>
              /\ act[st[s].op].pc \in OpPcs
              /\ act[st[s].op].srv = s
              /\ act[st[s].op].job \in {"start", "stop", "restart"}

\* Only clients hold leases; a timer belongs to a lease.
LeaseShape ==
    /\ \A w \in Workers : act[w].job \in {"none", "start"}
    /\ \A a \in Actors :
          /\ act[a].pc = "leased" => act[a].job \in UseJobs
          /\ act[a].pc \notin {"leased", "done"} => act[a].timer = "none"
          /\ act[a].pc = "done" => act[a].released

\* Servers that are or once were in the map. Nothing ever refers to another one.
Known(s) == st[s].registered \/ st[s].deleted

KnownOnly ==
    /\ \A a \in Actors : act[a].pc # "idle" => Known(act[a].srv)
    /\ \A x \in Sessions :
          sess[x].status # "free" \/ sess[x].reap # "no" => Known(sess[x].srv)
    /\ \A s \in booting \cup mut.claimed \cup mut.fresh : Known(s)
    /\ pending # NoPending => \A s \in pending : Known(s)

\* A commit that holds op of a server is the one in progress, and it has already
\* marked the servers it deletes.
CommitOwned ==
    /\ mut.pc # "idle" => \A s \in Servers : st[s].deleted => mut.next[s] = Absent
    /\ \A s \in Servers : st[s].op = "commit" =>
          /\ mut.pc = "commit" /\ s \in mut.claimed
          /\ mut.next[s] = Absent => st[s].deleted

LeaseInv ==
    /\ OpHeld /\ ChangingOwned /\ LeaseShape /\ KnownOnly /\ CommitOwned
    /\ LeaseAccounting /\ MutationExcludesUse

-----------------------------------------------------------------------------
(* What the helpers that run with mu held leave alone *)

\* q differs from r at most in its leases, its session and its idle timer.
Kept(q, r) ==
    /\ q \in serverState
    /\ q.registered = r.registered /\ q.deleted = r.deleted /\ q.entry = r.entry
    /\ q.op = r.op /\ q.mutating = r.mutating /\ q.runtimeChanging = r.runtimeChanging

SameBut(q, r) == Kept(q, r) /\ q.active = r.active

\* cancelIdleLocked, scheduleIdleLocked and a detach touch nothing else.
LEMMA IdleHelpers ==
    ASSUME NEW r \in serverState
    PROVE  /\ SameBut(cancelIdleLocked(r), r)
           /\ SameBut(scheduleIdleLocked(r), r)
           /\ SameBut(Detach(r), r)
<1>1. SameBut(cancelIdleLocked(r), r)
  BY DEF SameBut, Kept, cancelIdleLocked, serverState
<1>2. SameBut(scheduleIdleLocked(r), r)
  <2>1. CASE scheduleIdleLocked(r) = cancelIdleLocked(r)
    BY <1>1, <2>1
  <2>2. CASE scheduleIdleLocked(r) = [r EXCEPT !.idle = "armed", !.idleSession = r.session]
    BY <2>2 DEF SameBut, Kept, serverState
  <2> QED BY <2>1, <2>2 DEF scheduleIdleLocked
<1>3. SameBut(Detach(r), r)
  BY <1>1 DEF SameBut, Kept, Detach, serverState
<1> QED BY <1>1, <1>2, <1>3

\* One lease less, never less than none.
Less(q, r) == Kept(q, r) /\ q.active = IF r.active > 0 THEN r.active - 1 ELSE 0

\* A failed Acquire and a release both take one lease off, whether or not the
\* idle clock starts.
LEMMA LessEffect ==
    ASSUME NEW r \in serverState
    PROVE  Less(Unuse(r), r) /\ Less(releaseLocked(r), r)
<1>1. (IF r.active > 0 THEN r.active - 1 ELSE 0) \in Nat
  BY DEF serverState
<1>2. Less(Unuse(r), r)
  BY <1>1 DEF Unuse, Less, Kept, serverState
<1>3. releaseLocked(r) = Unuse(r) \/ releaseLocked(r) = scheduleIdleLocked(Unuse(r))
  BY DEF releaseLocked, Unuse
<1>4. SameBut(scheduleIdleLocked(Unuse(r)), Unuse(r))
  BY <1>2, IdleHelpers DEF Less, Kept
<1> QED BY <1>2, <1>3, <1>4 DEF Less, Kept, SameBut

-----------------------------------------------------------------------------
(* Type correctness *)

ActorOK(p)   == p \in ActorState /\ (p.pc # "idle" => p.srv \in Servers)
RuntimeOK(q) == /\ q \in Runtime
                /\ q.status # "free" \/ q.reap # "no" => q.srv \in Servers

\* The records a goroutine may become.
LEMMA ActorRecords ==
    ASSUME NEW s \in Servers
    PROVE  /\ ActorOK(Idle)
           /\ ActorOK(Maintaining(s))
           /\ \A job \in AllJobs :
                 ActorOK([Idle EXCEPT !.pc = "wait", !.job = job, !.srv = s])
BY DEF ActorOK, ActorState, Idle, Maintaining, Pcs, AllJobs

\* The records an operation makes of a goroutine have their type: after a failure,
LEMMA FailedOK ==
    ASSUME NEW a \in Actors, ActorOK(act[a]), act[a].pc # "idle"
    PROVE  ActorOK(Failed(a))
BY ActorRecords DEF ActorOK, Failed

\* with a lease,
LEMMA LeasedOK ==
    ASSUME NEW a \in Actors, ActorOK(act[a]), act[a].pc # "idle",
           NEW x \in Sessions \cup {NoSession}
    PROVE  ActorOK(Leased(a, x))
<1>1. ASSUME NEW timer \in {"none", "armed"}
      PROVE  ActorOK([Idle EXCEPT !.pc = "leased", !.job = act[a].job,
                                  !.srv = act[a].srv, !.x = x, !.timer = timer])
  BY DEF ActorOK, ActorState, Idle, Pcs
<1> QED BY <1>1 DEF Leased

\* and on the way to a new runtime.
LEMMA ProceedOK ==
    ASSUME NEW a \in Actors, ActorOK(act[a]), act[a].pc # "idle", ctxDone \in BOOLEAN,
           NEW x \in Sessions \cup {NoSession}, NEW entry \in Entries \cup {Absent}
    PROVE  ActorOK(Proceed(a, x, entry))
BY DEF ActorOK, ActorState, Proceed, Pcs, OpPcs

\* The records of runtimes have their type.
LEMMA RuntimeRecords ==
    ASSUME NEW s \in Servers, NEW entry \in Entries \cup {Absent}
    PROVE  RuntimeOK(NoRuntime) /\ RuntimeOK(Connected(s, entry))
BY DEF RuntimeOK, Runtime, NoRuntime, Connected

\* The types of the variables that every operation changes, in the form in which
\* the steps below establish them.
StOK   == st \in [Servers -> serverState]
SessOK == sess \in [Sessions -> Runtime] /\ \A x \in Sessions : RuntimeOK(sess[x])
ActOK  == act \in [Actors -> ActorState] /\ \A a \in Actors : ActorOK(act[a])
RestOK ==
    /\ held \in [Servers -> Sessions \cup {NoSession}]
    /\ booting \subseteq Servers
    /\ shut \in [phase : {"up", "abort", "drain", "down"}, todo : SUBSET Servers]
    /\ mut \in Mutator
    /\ pending \in (SUBSET Servers) \cup {NoPending}
    /\ servers \in [Servers -> Entries \cup {Absent}]
    /\ closing \in BOOLEAN /\ ctxDone \in BOOLEAN

Typed == StOK /\ SessOK /\ ActOK /\ RestOK

\* The type invariant in the parts the proofs use.
LEMMA TypedIs == Typed <=> TypeOK /\ Placed
BY DEF Typed, StOK, SessOK, ActOK, RestOK, TypeOK, Placed, ActorOK, RuntimeOK

\* A goroutine that gets a record of the type keeps the types of all.
LEMMA BecomeOK ==
    ASSUME ActOK, NEW a \in Actors, NEW p, ActorOK(p), Become(a, p)
    PROVE  ActOK'
BY DEF ActOK, ActorOK, Become

\* So does a server,
LEMMA UpdateOK ==
    ASSUME StOK, NEW s, NEW r, s \in Servers => r \in serverState,
           st' = [st EXCEPT ![s] = r]
    PROVE  StOK'
BY DEF StOK

\* and a runtime.
LEMMA RuntimeSetOK ==
    ASSUME SessOK, NEW x, NEW q, RuntimeOK(q), sess' = [sess EXCEPT ![x] = q]
    PROVE  SessOK'
BY DEF SessOK, RuntimeOK

\* Closing a runtime keeps the types.
LEMMA CloseRuntimeOK ==
    ASSUME SessOK, NEW x, sess' = closeRuntime(x)
    PROVE  SessOK'
<1>1. RuntimeOK(NoRuntime)
  BY DEF RuntimeOK, Runtime, NoRuntime
<1> QED BY <1>1, RuntimeSetOK DEF closeRuntime

\* Spawning a maintainer keeps the types.
LEMMA GoMaintainOK ==
    ASSUME ActOK, NEW s \in Servers, GoMaintain(s)
    PROVE  ActOK'
BY ActorRecords, BecomeOK DEF GoMaintain, ActOK, FreeWorker, Actors, ActorOK

\* The end of an operation leaves a record of the type.
LEMMA FinishOK ==
    ASSUME StOK, NEW a \in Actors, act[a].srv \in Servers
    PROVE  Finish(a) \in serverState
<1> DEFINE r == st[act[a].srv]
<1>1. r \in serverState /\ Unuse(r) \in serverState
  BY LessEffect DEF StOK, Less, Kept
<1>2. Free \in Owners
  BY DEF Owners
<1> QED BY <1>1, <1>2 DEF Finish, serverState

\* The steps of an operation that has its turn on op.
LEMMA EnterTyped ==
    ASSUME Typed, NEW a \in Actors, Enter(a)
    PROVE  Typed'
<1> DEFINE s == act[a].srv
           r == st[s]
<1>1. /\ act[a].pc = "wait" /\ s \in Servers /\ r \in serverState
      /\ ActorOK(act[a]) /\ act[a] \in ActorState
  BY DEF Enter, Refuse, AcquireManualStopped, AcquireReuse, AcquireColdStart,
         StartRunning, StartCold, StopEnter, RestartEnter, Enters, Typed, ActOK,
         ActorOK, StOK
<1>2. /\ r.session \in Sessions \cup {NoSession} /\ r.entry \in Entries \cup {Absent}
      /\ r.active \in Nat /\ ctxDone \in BOOLEAN
      /\ Detach(r) \in serverState /\ cancelIdleLocked(r) \in serverState
      /\ Detach(r).active = r.active /\ cancelIdleLocked(r).active = r.active
  BY <1>1, IdleHelpers DEF serverState, Typed, RestOK, SameBut, Kept
<1>3. a \in Owners
  BY DEF Owners
<1>4. UNCHANGED <<sess, background>> => SessOK' /\ RestOK'
  BY DEF background, Typed, SessOK, RestOK, RuntimeOK
<1>5. ActorOK(Idle) /\ ActorOK(Failed(a)) /\ ActorOK(Leased(a, r.session))
      /\ ActorOK(Proceed(a, r.session, r.entry))
  BY <1>1, <1>2, ActorRecords, FailedOK, LeasedOK, ProceedOK
<1>6. \A job \in {act[a].job, "drop"} :
          ActorOK([act[a] EXCEPT !.pc = "close", !.job = job, !.x = r.session])
  BY <1>1, <1>2 DEF ActorOK, ActorState, Pcs, OpPcs
<1>7. ActorOK([act[a] EXCEPT !.pc = "close", !.x = r.session])
  BY <1>1, <1>2 DEF ActorOK, ActorState, Pcs, OpPcs
<1>8. /\ [Detach(r) EXCEPT !.op = a] \in serverState
      /\ [Detach(r) EXCEPT !.runtimeChanging = TRUE, !.op = a] \in serverState
      /\ [Detach(r) EXCEPT !.active = @ + 1, !.op = a] \in serverState
      /\ [cancelIdleLocked(r) EXCEPT !.active = @ + 1] \in serverState
  <2>1. ASSUME NEW q \in serverState
        PROVE  /\ [q EXCEPT !.op = a] \in serverState
               /\ [q EXCEPT !.runtimeChanging = TRUE, !.op = a] \in serverState
    BY <1>3 DEF serverState
  <2>2. ASSUME NEW q \in serverState
        PROVE  /\ [q EXCEPT !.active = @ + 1] \in serverState
               /\ [q EXCEPT !.active = @ + 1, !.op = a] \in serverState
    <3>1. q.active + 1 \in Nat
      BY DEF serverState
    <3> QED BY <3>1, <1>3 DEF serverState
  <2> QED BY <1>2, <2>1, <2>2
<1> HIDE DEF s, r
<1>9. UNCHANGED st => StOK'
  BY DEF Typed, StOK
<1>10. CASE Refuse(a)
  BY <1>10, <1>4, <1>5, <1>9, BecomeOK DEF Refuse, Typed
<1>11. CASE AcquireManualStopped(a)
  BY <1>11, <1>1, <1>4, <1>5, <1>6, <1>8, <1>9, BecomeOK, UpdateOK
  DEF AcquireManualStopped, Typed, s, r
<1>12. CASE AcquireReuse(a)
  BY <1>12, <1>4, <1>5, <1>8, BecomeOK, UpdateOK DEF AcquireReuse, Typed, s, r
<1>13. CASE AcquireColdStart(a)
  BY <1>13, <1>4, <1>5, <1>8, BecomeOK, UpdateOK DEF AcquireColdStart, Typed, s, r
<1>14. CASE StartRunning(a)
  BY <1>14, <1>4, <1>5, <1>9, BecomeOK DEF StartRunning, Typed
<1>15. CASE StartCold(a)
  BY <1>15, <1>4, <1>5, <1>8, BecomeOK, UpdateOK DEF StartCold, Typed, s, r
<1>16. CASE StopEnter(a)
  BY <1>16, <1>2, <1>4, <1>5, <1>7, <1>8, BecomeOK, UpdateOK DEF StopEnter, Typed, s, r
<1>17. CASE RestartEnter(a)
  BY <1>17, <1>4, <1>5, <1>8, BecomeOK, UpdateOK DEF RestartEnter, Typed, s, r
<1> QED
  BY <1>10, <1>11, <1>12, <1>13, <1>14, <1>15, <1>16, <1>17 DEF Enter

\* The steps of an operation that holds op.
LEMMA HoldTyped ==
    ASSUME Typed, NEW a \in Actors,
           \/ CloseOld(a) \/ ConnectFail(a) \/ Discard(a) \/ Install(a)
           \/ \E x \in Sessions : ConnectOK(a, x)
    PROVE  Typed'
<1> DEFINE s == act[a].srv
<1>1. /\ act[a].pc # "idle" /\ s \in Servers /\ st[s] \in serverState
      /\ ActorOK(act[a]) /\ act[a] \in ActorState
  BY DEF CloseOld, ConnectFail, Discard, Install, ConnectOK, Typed, ActOK, ActorOK, StOK
<1>2. /\ act[a].x \in Sessions \cup {NoSession} /\ act[a].entry \in Entries \cup {Absent}
      /\ ctxDone \in BOOLEAN /\ Finish(a) \in serverState
  BY <1>1, FinishOK DEF ActorState, Typed, RestOK
<1>3. UNCHANGED background => RestOK'
  BY DEF background, Typed, RestOK
<1>4. /\ ActorOK(Idle) /\ ActorOK(Failed(a)) /\ ActorOK(Leased(a, act[a].x))
      /\ ActorOK(Proceed(a, NoSession, act[a].entry))
  BY <1>1, <1>2, ActorRecords, FailedOK, LeasedOK, ProceedOK
<1>5. UNCHANGED st => StOK'
  BY DEF Typed, StOK
<1>6. UNCHANGED sess => SessOK'
  BY DEF Typed, SessOK, RuntimeOK
<1>7. CASE CloseOld(a)
  BY <1>7, <1>2, <1>3, <1>4, <1>5, BecomeOK, UpdateOK, CloseRuntimeOK DEF CloseOld, Typed
<1>8. CASE ConnectFail(a)
  BY <1>8, <1>2, <1>3, <1>4, <1>6, BecomeOK, UpdateOK DEF ConnectFail, Typed
<1>9. CASE Discard(a)
  BY <1>9, <1>2, <1>3, <1>4, BecomeOK, UpdateOK, CloseRuntimeOK DEF Discard, Typed
<1>10. ASSUME NEW x \in Sessions, ConnectOK(a, x) PROVE Typed'
  <2>1. RuntimeOK(Connected(s, act[a].entry))
    BY <1>1, <1>2, RuntimeRecords
  <2>2. \A pc \in {"install", "discard"} : ActorOK([act[a] EXCEPT !.pc = pc, !.x = x])
    BY <1>1 DEF ActorOK, ActorState, Pcs, OpPcs
  <2> QED
    BY <1>10, <2>1, <2>2, <1>3, <1>5, BecomeOK, RuntimeSetOK DEF ConnectOK, Typed
<1>11. CASE Install(a)
  <2> DEFINE r == [st[s] EXCEPT !.session = act[a].x]
             done == [r EXCEPT !.runtimeChanging = FALSE, !.op = Free]
  <2>1. r \in serverState /\ done \in serverState /\ [r EXCEPT !.op = Free] \in serverState
    BY <1>1, <1>2 DEF serverState, Owners
  <2>2. scheduleIdleLocked(done) \in serverState
    BY <2>1, IdleHelpers DEF SameBut, Kept
  <2>3. [sess EXCEPT ![act[a].x].watched = TRUE] \in [Sessions -> Runtime]
        /\ \A x \in Sessions : RuntimeOK([sess EXCEPT ![act[a].x].watched = TRUE][x])
    BY DEF Typed, SessOK, RuntimeOK, Runtime
  <2>4. sess' = [sess EXCEPT ![act[a].x].watched = TRUE] => SessOK'
    BY <2>3 DEF SessOK, RuntimeOK
  <2>5. SessOK'
    BY <1>11, <2>4, CloseRuntimeOK DEF Install, Typed
  <2>6. StOK'
    BY <1>11, <1>2, <2>1, <2>2, UpdateOK DEF Install, Typed
  <2> QED BY <1>11, <1>3, <1>4, <2>5, <2>6, BecomeOK DEF Install, Typed
<1> QED BY <1>7, <1>8, <1>9, <1>10, <1>11

\* Callers, leases and the environment.
LEMMA CallerTyped ==
    ASSUME Typed,
           \/ \E c \in Clients, s \in Servers, job \in AllJobs : Begin(c, s, job)
           \/ \E a \in Actors : GiveUp(a)
           \/ \E c \in Clients : Release(c) \/ TaskExpires(c) \/ ExpiryRelease(c)
           \/ \E x \in Sessions : Crash(x) \/ ContractChange(x)
    PROVE  Typed'
<1>1. UNCHANGED background => RestOK'
  BY DEF background, Typed, RestOK
<1>2. UNCHANGED st => StOK'
  BY DEF Typed, StOK
<1>3. UNCHANGED sess => SessOK'
  BY DEF Typed, SessOK, RuntimeOK
<1>4. UNCHANGED act => ActOK'
  BY DEF Typed, ActOK, ActorOK
<1>5. ASSUME NEW c \in Clients, NEW s \in Servers, NEW job \in AllJobs, Begin(c, s, job)
      PROVE  Typed'
  BY <1>5, <1>1, <1>2, <1>3, ActorRecords, BecomeOK DEF Begin, Typed, Actors
<1>6. ASSUME NEW a \in Actors, GiveUp(a) PROVE Typed'
  BY <1>6, <1>1, <1>2, <1>3, FailedOK, BecomeOK DEF GiveUp, Typed, ActOK
<1>7. ASSUME NEW c \in Clients, releaseOnce(c) PROVE StOK'
  <2>1. act[c].srv \in Servers => st[act[c].srv] \in serverState
                               /\ releaseLocked(st[act[c].srv]) \in serverState
    BY LessEffect DEF Typed, StOK, Less, Kept
  <2> QED BY <1>7, <2>1, UpdateOK DEF releaseOnce, Typed, StOK
<1>8. ASSUME NEW c \in Clients
      PROVE  /\ c \in Actors /\ ActorOK(Idle)
             /\ act[c].pc = "leased" =>
                    ActorOK([act[c] EXCEPT !.pc = "done", !.released = TRUE])
             /\ \A t \in {"none", "fired"} : ActorOK([act[c] EXCEPT !.timer = t])
             /\ ActorOK([act[c] EXCEPT !.released = TRUE, !.timer = "none"])
  BY DEF Typed, ActOK, ActorOK, ActorState, Actors, Idle, Pcs
<1>9. ASSUME NEW c \in Clients, Release(c) PROVE Typed'
  BY <1>9, <1>1, <1>3, <1>7, <1>8, BecomeOK DEF Release, Typed
<1>10. ASSUME NEW c \in Clients, TaskExpires(c) PROVE Typed'
  BY <1>10, <1>1, <1>2, <1>3, <1>8, BecomeOK DEF TaskExpires, Typed
<1>11. ASSUME NEW c \in Clients, ExpiryRelease(c) PROVE Typed'
  BY <1>11, <1>1, <1>3, <1>7, <1>8, BecomeOK DEF ExpiryRelease, Typed
<1>12. ASSUME NEW x \in Sessions, Crash(x) PROVE Typed'
  <2>1. SessOK'
    BY <1>12 DEF Crash, Live, Typed, SessOK, RuntimeOK, Runtime
  <2> QED BY <1>12, <1>1, <1>2, <1>4, <2>1 DEF Crash, Typed
<1>13. ASSUME NEW x \in Sessions, ContractChange(x) PROVE Typed'
  <2>1. sess' = [sess EXCEPT ![x].changed = TRUE]
    BY <1>13 DEF ContractChange
  <2>2. SessOK'
    BY <2>1 DEF Typed, SessOK, RuntimeOK, Runtime
  <2> QED BY <1>13, <1>1, <1>2, <1>4, <2>2 DEF ContractChange, Typed
<1> QED BY <1>5, <1>6, <1>9, <1>10, <1>11, <1>12, <1>13

\* The holder of op closes the runtime it took out.
LEMMA CloseHeldTyped ==
    ASSUME Typed, NEW s \in Servers, NEW r \in serverState, CloseHeld(s, r)
    PROVE  /\ StOK' /\ SessOK'
           /\ held' \in [Servers -> Sessions \cup {NoSession}]
<1>1. [r EXCEPT !.runtimeChanging = FALSE, !.op = Free] \in serverState
  BY DEF serverState, Owners
<1>2. StOK'
  BY <1>1, UpdateOK DEF CloseHeld, Typed
<1>3. SessOK'
  <2>1. UNCHANGED sess => SessOK'
    BY DEF Typed, SessOK, RuntimeOK
  <2> QED BY <2>1, CloseRuntimeOK DEF CloseHeld, Typed
<1> QED BY <1>2, <1>3 DEF CloseHeld, Typed, RestOK

\* The watcher, the maintainer, StartAlwaysOn and the idle timer.
LEMMA BackgroundTyped ==
    ASSUME Typed, Background
    PROVE  Typed'
<1>1. UNCHANGED background => RestOK'
  BY DEF background, Typed, RestOK
<1>2. UNCHANGED st => StOK'
  BY DEF Typed, StOK
<1>3. UNCHANGED sess => SessOK'
  BY DEF Typed, SessOK, RuntimeOK
<1>4. UNCHANGED act => ActOK'
  BY DEF Typed, ActOK, ActorOK
<1>5. ASSUME NEW x \in Sessions, WatchDetach(x) PROVE Typed'
  <2>1. sess[x].srv \in Servers /\ st[sess[x].srv] \in serverState
    BY <1>5 DEF WatchDetach, Exited, Typed, StOK, SessOK, RuntimeOK
  <2>2. Detach(st[sess[x].srv]) \in serverState
    BY <2>1, IdleHelpers DEF SameBut, Kept
  <2>3. StOK'
    BY <1>5, <2>2, UpdateOK DEF WatchDetach, Typed
  <2>4. \E why \in {"maintain", "close"} : sess' = [sess EXCEPT ![x].reap = why]
    BY <1>5 DEF WatchDetach
  <2>5. SessOK'
    BY <2>1, <2>4 DEF Typed, SessOK, RuntimeOK, Runtime
  <2> QED BY <1>5, <1>1, <1>4, <2>3, <2>5 DEF WatchDetach, Typed
<1>6. ASSUME NEW x \in Sessions, WatchClose(x) PROVE Typed'
  <2>1. sess[x].srv \in Servers
    BY <1>6 DEF WatchClose, Typed, SessOK, RuntimeOK
  <2> QED
    BY <1>6, <1>1, <1>2, <1>4, <2>1, CloseRuntimeOK, GoMaintainOK DEF WatchClose, Typed
<1>7. ASSUME NEW w \in Workers, MaintainExit(w) PROVE Typed'
  <2>1. ActorOK(Idle)
    BY DEF ActorOK, ActorState, Idle, Pcs
  <2> QED
    BY <1>7, <1>1, <1>2, <1>3, <2>1, BecomeOK DEF MaintainExit, Typed, Actors
<1>8. ASSUME NEW w \in Workers, MaintainTry(w) PROVE Typed'
  <2>1. act[w].pc = "check" => ActorOK([act[w] EXCEPT !.pc = "wait", !.job = "start"])
    BY DEF Typed, ActOK, ActorOK, ActorState, Pcs, AllJobs, Actors
  <2> QED
    BY <1>8, <1>1, <1>2, <1>3, <2>1, BecomeOK DEF MaintainTry, Typed, Actors
<1>9. ASSUME NEW s \in Servers, NEW w \in Workers, StartAlwaysOn(s, w) PROVE Typed'
  <2>1. ActorOK([Idle EXCEPT !.pc = "wait", !.job = "start", !.srv = s])
    BY ActorRecords DEF AllJobs
  <2>2. ActOK'
    BY <1>9, <1>4, <2>1, BecomeOK DEF StartAlwaysOn, Typed, Actors
  <2>3. RestOK'
    BY <1>9 DEF StartAlwaysOn, Typed, RestOK
  <2> QED BY <1>9, <1>2, <1>3, <2>2, <2>3 DEF StartAlwaysOn, Typed
<1>10. ASSUME NEW s \in Servers,
              IdleFire(s) \/ IdleDrop(s) \/ IdleEarly(s)
       PROVE  Typed'
  <2>1. st[s] \in serverState
    BY DEF Typed, StOK
  <2>2. /\ [st[s] EXCEPT !.idle = "fired"] \in serverState
        /\ cancelIdleLocked(st[s]) \in serverState
        /\ scheduleIdleLocked(st[s]) \in serverState
    BY <2>1, IdleHelpers DEF SameBut, Kept, serverState
  <2>3. StOK'
    BY <1>10, <2>2, UpdateOK DEF IdleFire, IdleDrop, IdleEarly, Typed
  <2> QED BY <1>10, <1>1, <1>3, <1>4, <2>3 DEF IdleFire, IdleDrop, IdleEarly, Typed
<1>11. ASSUME NEW s \in Servers, idleStop(s) PROVE Typed'
  <2>1. st[s] \in serverState /\ Detach(st[s]) \in serverState
    BY IdleHelpers DEF Typed, StOK, SameBut, Kept
  <2>2. [Detach(st[s]) EXCEPT !.runtimeChanging = TRUE, !.op = "idle"] \in serverState
    BY <2>1 DEF serverState, Owners
  <2>3. StOK'
    BY <1>11, <2>2, UpdateOK DEF idleStop, Typed
  <2>4. RestOK'
    BY <1>11, <2>1 DEF idleStop, afterHeld, Typed, RestOK, serverState
  <2> QED BY <1>11, <1>3, <1>4, <2>3, <2>4 DEF idleStop, Typed
<1>12. ASSUME NEW s \in Servers, IdleFinish(s) PROVE Typed'
  <2>1. st[s] \in serverState
    BY DEF Typed, StOK
  <2>2. StOK' /\ SessOK' /\ held' \in [Servers -> Sessions \cup {NoSession}]
    BY <1>12, <2>1, CloseHeldTyped DEF IdleFinish
  <2> QED BY <1>12, <1>4, <2>2 DEF IdleFinish, afterHeld, Typed, RestOK
<1> QED
  BY <1>5, <1>6, <1>7, <1>8, <1>9, <1>10, <1>11, <1>12 DEF Background

\* Reservations come and go, and a server leaves the map.
LEMMA FlagsTyped ==
    ASSUME NEW r \in serverState, NEW b \in BOOLEAN, NEW known \in BOOLEAN
    PROVE  /\ [r EXCEPT !.mutating = b] \in serverState
           /\ [r EXCEPT !.mutating = b, !.registered = known] \in serverState
BY DEF serverState

\* Lowering mutating on any set of servers keeps the type.
LEMMA UnclaimTyped ==
    ASSUME StOK, NEW S, st' = Unclaim(S)
    PROVE  StOK'
<1>1. \A s \in Servers : [st[s] EXCEPT !.mutating = FALSE] \in serverState
  BY FlagsTyped DEF StOK
<1> QED BY <1>1 DEF StOK, Unclaim

\* SaveServers and the three server-mutation calls.
LEMMA MutationTyped ==
    ASSUME Typed, Mutation
    PROVE  Typed'
<1>1. UNCHANGED st => StOK'
  BY DEF Typed, StOK
<1>2. UNCHANGED sess => SessOK'
  BY DEF Typed, SessOK, RuntimeOK
<1>3. UNCHANGED act => ActOK'
  BY DEF Typed, ActOK, ActorOK
<1>4. /\ mut \in Mutator /\ pending \in (SUBSET Servers) \cup {NoPending}
      /\ servers \in [Servers -> Entries \cup {Absent}]
      /\ st \in [Servers -> serverState]
  BY DEF Typed, RestOK, StOK
<1>5. ASSUME UNCHANGED unmoved, mut' \in Mutator,
             pending' \in (SUBSET Servers) \cup {NoPending},
             servers' \in [Servers -> Entries \cup {Absent}]
      PROVE  RestOK' /\ ActOK'
  BY <1>3, <1>5 DEF unmoved, Typed, RestOK
<1>6. ASSUME NEW next \in Configs, SaveServers(next) PROVE Typed'
  <2>1. next \in [Servers -> Entries \cup {Absent}]
    BY ConstantsAssumption
  <2>2. mut' \in Mutator
    BY <1>4, <1>6, <2>1 DEF SaveServers, Mutator
  <2> QED BY <1>1, <1>2, <1>4, <1>5, <1>6, <2>2 DEF SaveServers, Typed
<1>7. CASE PrepareBegin
  <2>1. mut' \in Mutator
    BY <1>4, <1>7 DEF PrepareBegin, Mutator, Affected
  <2> QED BY <1>1, <1>2, <1>4, <1>5, <1>7, <2>1 DEF PrepareBegin, Typed
<1>8. CASE PrepareDone
  <2>1. mut' \in Mutator /\ mut.claimed \in SUBSET Servers
    BY <1>4, <1>8 DEF PrepareDone, Mutator
  <2> QED BY <1>1, <1>2, <1>4, <1>5, <1>8, <2>1 DEF PrepareDone, Typed
<1>9. CASE PersistFail
  <2>1. mut' \in Mutator
    BY <1>4, <1>9 DEF PersistFail, Mutator
  <2>2. StOK'
    BY <1>1, <1>9, UnclaimTyped DEF PersistFail, Typed
  <2> QED BY <1>2, <1>4, <1>5, <1>9, <2>1, <2>2 DEF PersistFail, Typed
<1>10. CASE CommitBegin
  <2> DEFINE fresh == {s \in Servers : mut.next[s] # Absent /\ ~st[s].registered}
  <2>1. mut' \in Mutator
    <3>1. mut' = [mut EXCEPT !.pc = "commit",
                     !.todo = {s \in Servers : st[s].registered} \cup fresh,
                     !.claimed = IF pending = NoPending THEN {} ELSE pending,
                     !.fresh = {s \in fresh : mut.next[s].mode = "AlwaysOn"}]
      BY <1>10 DEF CommitBegin
    <3>2. (IF pending = NoPending THEN {} ELSE pending) \in SUBSET Servers
      BY <1>4
    <3> QED BY <1>4, <3>1, <3>2 DEF Mutator
  <2>2. \A s \in Servers : newServerState(mut.next[s]) \in serverState
    BY <1>4 DEF newServerState, serverState, Mutator, Owners
  <2>3. StOK'
    BY <1>4, <1>10, <2>2 DEF CommitBegin, StOK
  <2> QED BY <1>2, <1>4, <1>5, <1>10, <2>1, <2>3 DEF CommitBegin, Typed
<1>11. CASE ReconcileOK
  <2>1. mut' \in Mutator /\ mut.next \in [Servers -> Entries \cup {Absent}]
    BY <1>4, <1>11 DEF ReconcileOK, Mutator
  <2> QED BY <1>1, <1>2, <1>4, <1>5, <1>11, <2>1 DEF ReconcileOK, Typed
<1>12. CASE ReconcileFail
  <2>1. mut' \in Mutator
    BY <1>4, <1>12 DEF ReconcileFail, Mutator
  <2> QED BY <1>1, <1>2, <1>4, <1>5, <1>12, <2>1 DEF ReconcileFail, Typed
<1>13. ASSUME NEW s \in Servers, PrepareClaim(s) PROVE Typed'
  <2>1. mut' \in Mutator
    BY <1>4, <1>13 DEF PrepareClaim, Mutator
  <2>2. StOK'
    <3>1. [st[s] EXCEPT !.mutating = TRUE] \in serverState
      BY <1>4, FlagsTyped
    <3> QED BY <1>1, <1>4, <1>13, <3>1 DEF PrepareClaim, StOK
  <2> QED BY <1>2, <1>4, <1>5, <1>13, <2>1, <2>2 DEF PrepareClaim, Typed
<1>14. ASSUME NEW s \in Servers, PrepareBusy(s) PROVE Typed'
  <2>1. mut' \in Mutator
    BY <1>4, <1>14 DEF PrepareBusy, Mutator
  <2>2. StOK'
    BY <1>14, UnclaimTyped DEF PrepareBusy, Typed
  <2> QED BY <1>2, <1>4, <1>5, <1>14, <2>1, <2>2 DEF PrepareBusy, Typed
<1>15. ASSUME NEW s \in Servers, CommitKeep(s) PROVE Typed'
  <2>1. mut' \in Mutator
    BY <1>4, <1>15 DEF CommitKeep, Mutator
  <2>2. StOK'
    BY <1>4, <1>15 DEF CommitKeep, StOK, serverState, Mutator
  <2> QED BY <1>2, <1>4, <1>5, <1>15, <2>1, <2>2 DEF CommitKeep, Typed
<1>16. ASSUME NEW s \in Servers, CommitDetach(s) PROVE Typed'
  <2>1. mut' \in Mutator /\ mut.next[s] \in Entries \cup {Absent}
    BY <1>4, <1>16 DEF CommitDetach, Mutator
  <2> DEFINE r == Detach(st[s])
  <2>2. r \in serverState /\ st[s].entry \in Entries \cup {Absent}
        /\ st[s].session \in Sessions \cup {NoSession}
    BY <1>4, IdleHelpers DEF SameBut, Kept, serverState
  <2>3. ASSUME NEW e \in Entries \cup {Absent}, NEW d \in BOOLEAN, NEW ch \in BOOLEAN
        PROVE  [r EXCEPT !.op = "commit", !.runtimeChanging = ch, !.deleted = d,
                         !.entry = e] \in serverState
    BY <2>2 DEF serverState, Owners
  <2>4. StOK'
    <3>1. st' = [st EXCEPT ![s] =
             [r EXCEPT !.op = "commit", !.runtimeChanging = (st[s].session # NoSession),
                       !.deleted = (mut.next[s] = Absent),
                       !.entry = IF mut.next[s] = Absent THEN st[s].entry ELSE mut.next[s]]]
      BY <1>4, <1>16 DEF CommitDetach
    <3>2. (IF mut.next[s] = Absent THEN st[s].entry ELSE mut.next[s]) \in Entries \cup {Absent}
      BY <2>1, <2>2
    <3> HIDE DEF r
    <3> QED BY <2>3, <3>1, <3>2, UpdateOK DEF Typed
  <2>5. RestOK'
    BY <1>16, <2>1, <2>2 DEF CommitDetach, Typed, RestOK
  <2> QED BY <1>2, <1>3, <1>16, <2>4, <2>5 DEF CommitDetach, Typed
<1>17. ASSUME NEW s \in Servers, CommitFinish(s) PROVE Typed'
  <2>1. mut' \in Mutator
    BY <1>4, <1>17 DEF CommitFinish, Mutator
  <2> DEFINE r == [st[s] EXCEPT !.mutating = FALSE, !.registered = (mut.next[s] # Absent)]
  <2>2. r \in serverState
    BY <1>4, FlagsTyped
  <2>3. CloseHeld(s, r)
    BY <1>17 DEF CommitFinish
  <2> HIDE DEF r
  <2>4. StOK' /\ SessOK' /\ held' \in [Servers -> Sessions \cup {NoSession}]
    BY <2>2, <2>3, CloseHeldTyped
  <2>5. ActOK'
    BY <1>3, <1>17, GoMaintainOK DEF CommitFinish, Typed
  <2> QED BY <1>17, <2>1, <2>4, <2>5 DEF CommitFinish, Typed, RestOK
<1>18. ASSUME NEW s \in Servers, CommitStartNew(s) PROVE Typed'
  <2>1. mut' \in Mutator
    BY <1>4, <1>18 DEF CommitStartNew, Mutator
  <2>2. ActOK'
    BY <1>3, <1>18, GoMaintainOK DEF CommitStartNew, Typed
  <2> QED BY <1>1, <1>2, <1>18, <2>1, <2>2 DEF CommitStartNew, Typed, RestOK
<1> QED
  BY <1>6, <1>7, <1>8, <1>9, <1>10, <1>11, <1>12, <1>13, <1>14, <1>15, <1>16, <1>17,
     <1>18
  DEF Mutation

\* V2App.Close and Service.Close.
LEMMA ShutdownTyped ==
    ASSUME Typed, Shutdown
    PROVE  Typed'
<1>1. UNCHANGED st => StOK'
  BY DEF Typed, StOK
<1>2. UNCHANGED sess => SessOK'
  BY DEF Typed, SessOK, RuntimeOK
<1>3. UNCHANGED act => ActOK'
  BY DEF Typed, ActOK, ActorOK
<1>4. CASE AppCancel \/ CloseBegin \/ CloseDone
  BY <1>1, <1>2, <1>3, <1>4 DEF AppCancel, CloseBegin, CloseDone, Typed, RestOK
<1>5. CASE CloseAbort
  <2>1. StOK'
    BY <1>1, <1>5, UnclaimTyped DEF CloseAbort, Typed
  <2> QED BY <1>2, <1>3, <1>5, <2>1 DEF CloseAbort, Typed, RestOK
<1>6. ASSUME NEW s \in Servers, CloseDetach(s) PROVE Typed'
  <2>1. /\ st[s] \in serverState /\ Detach(st[s]) \in serverState
        /\ st[s].session \in Sessions \cup {NoSession}
    BY IdleHelpers DEF Typed, StOK, SameBut, Kept, serverState
  <2>2. ASSUME NEW ch \in BOOLEAN
        PROVE  [Detach(st[s]) EXCEPT !.op = "close", !.runtimeChanging = ch] \in serverState
    BY <2>1 DEF serverState, Owners
  <2>3. StOK'
    BY <1>6, <2>2, UpdateOK DEF CloseDetach, Typed
  <2> QED BY <1>2, <1>3, <1>6, <2>1, <2>3 DEF CloseDetach, Typed, RestOK
<1>7. ASSUME NEW s \in Servers, CloseFinish(s) PROVE Typed'
  <2>1. StOK' /\ SessOK' /\ held' \in [Servers -> Sessions \cup {NoSession}]
    BY <1>7, CloseHeldTyped DEF CloseFinish, Typed, StOK
  <2> QED BY <1>3, <1>7, <2>1 DEF CloseFinish, Typed, RestOK
<1> QED BY <1>4, <1>5, <1>6, <1>7 DEF Shutdown

\* The types hold at the start.
LEMMA TypeInit == Init => Typed
<1> SUFFICES ASSUME Init PROVE Typed
  OBVIOUS
<1>1. \A s \in Servers : newServerState(Boot[s]) \in serverState
  BY ConstantsAssumption DEF newServerState, serverState, Owners
<1>2. ActorOK(Idle) /\ RuntimeOK(NoRuntime)
  BY DEF ActorOK, ActorState, Idle, Pcs, RuntimeOK, Runtime, NoRuntime
<1>3. StOK /\ SessOK /\ ActOK
  BY <1>1, <1>2 DEF Init, StOK, SessOK, ActOK, ActorOK, RuntimeOK
<1>4. mut \in Mutator
  BY ConstantsAssumption DEF Init, Mutator
<1> QED BY <1>3, <1>4, ConstantsAssumption DEF Init, Typed, RestOK

\* Every action keeps the types.
LEMMA TypeInvariant == Typed /\ [Next]_vars => Typed'
<1> SUFFICES ASSUME Typed, [Next]_vars PROVE Typed'
  OBVIOUS
<1>1. CASE UNCHANGED vars
  BY <1>1 DEF vars, Typed, StOK, SessOK, ActOK, RestOK, ActorOK, RuntimeOK
<1>2. CASE Terminated
  BY <1>1, <1>2 DEF Terminated
<1>3. ASSUME NEW a \in Actors, Operation(a) PROVE Typed'
  BY <1>3, EnterTyped, HoldTyped DEF Operation, Enter
<1>4. ASSUME NEW a \in Actors, NEW x \in Sessions, ConnectOK(a, x) PROVE Typed'
  BY <1>4, HoldTyped
<1> QED
  BY <1>1, <1>2, <1>3, <1>4, CallerTyped, BackgroundTyped, MutationTyped, ShutdownTyped
  DEF Next

\* Every field of the serverState, of the downstream runtimes, of the goroutines and
\* of the mutation in progress keeps its type in every behaviour.
THEOREM TypeCorrect == Spec => []TypeOK
<1>1. Typed => TypeOK
  BY TypedIs
<1> QED BY <1>1, TypeInit, TypeInvariant, PTL DEF Spec

-----------------------------------------------------------------------------
(* Leases. A step changes at most one goroutine and one server's record, or  *)
(* several records and no goroutine that uses them: one lemma for each kind. *)

InUse(p) ==
    /\ p.job \in UseJobs
    /\ p.pc \in OpPcs \/ (p.pc = "leased" /\ ~p.released)

ShapeOK(p) ==
    /\ p.pc = "leased" => p.job \in UseJobs
    /\ p.pc \notin {"leased", "done"} => p.timer = "none"
    /\ p.pc = "done" => p.released

\* The users of a server can be counted.
LEMMA UsersFinite ==
    ASSUME NEW s \in Servers
    PROVE  IsFiniteSet(Users(s)) /\ Cardinality(Users(s)) \in Nat
BY ConstantsAssumption, FS_Subset, FS_CardinalityType DEF Users

\* Who uses a server, in terms of one goroutine.
LEMMA UsesIs == \A a, s : Uses(a, s) <=> act[a].srv = s /\ InUse(act[a])
BY DEF Uses, InUse

\* One goroutine of s begins to use it, stops using it, or does neither.
LEMMA CountStep ==
    ASSUME Typed, LeaseShape, LeaseAccounting, MutationExcludesUse,
           NEW a \in Actors, NEW s \in Servers, NEW p, NEW q,
           Become(a, p), st' = [st EXCEPT ![s] = q],
           act[a].srv = s \/ act[a].pc = "idle",
           p.srv = s \/ p.pc = "idle",
           q.mutating = st[s].mutating,
           \/ (InUse(p) <=> InUse(act[a])) /\ q.active = st[s].active
           \/ /\ InUse(p) /\ ~InUse(act[a]) /\ a \in Clients /\ ~st[s].mutating
              /\ q.active = st[s].active + 1
           \/ /\ ~InUse(p) /\ InUse(act[a])
              /\ q.active = IF st[s].active > 0 THEN st[s].active - 1 ELSE 0
    PROVE  LeaseAccounting' /\ MutationExcludesUse'
<1>1. /\ \A t \in Servers : st'[t] = IF t = s THEN q ELSE st[t]
      /\ \A b \in Actors : act'[b] = IF b = a THEN p ELSE act[b]
  BY DEF Typed, StOK, ActOK, Become
<1>2. Clients \subseteq Actors
  BY DEF Actors
<1>3. \A b, t : Uses(b, t)' <=> act'[b].srv = t /\ InUse(act'[b])
  BY DEF Uses, InUse
<1>4. \A t \in Servers : t # s => Users(t)' = Users(t)
  BY <1>1, <1>2, <1>3, UsesIs DEF Users, InUse, OpPcs
<1>5. \A t \in Servers : t # s => st'[t] = st[t]
  BY <1>1
<1>6. st'[s].active = Cardinality(Users(s)') /\ (st'[s].mutating => Users(s)' = {})
  <2>1. st[s].active = Cardinality(Users(s)) /\ (st[s].mutating => Users(s) = {})
    BY DEF LeaseAccounting, MutationExcludesUse
  <2>2. CASE (InUse(p) <=> InUse(act[a])) /\ q.active = st[s].active
    <3>1. Users(s)' = Users(s)
      BY <1>1, <1>2, <1>3, <2>2, UsesIs DEF Users, InUse, OpPcs
    <3> QED BY <1>1, <2>1, <2>2, <3>1
  <2>3. CASE /\ InUse(p) /\ ~InUse(act[a]) /\ a \in Clients /\ ~st[s].mutating
             /\ q.active = st[s].active + 1
    <3>1. Users(s)' = Users(s) \cup {a} /\ a \notin Users(s)
      BY <1>1, <1>2, <1>3, <2>3, UsesIs DEF Users, InUse, OpPcs
    <3>2. Cardinality(Users(s)') = Cardinality(Users(s)) + 1
      BY <3>1, UsersFinite, FS_AddElement
    <3> QED BY <1>1, <2>1, <2>3, <3>2
  <2>4. CASE /\ ~InUse(p) /\ InUse(act[a])
             /\ q.active = IF st[s].active > 0 THEN st[s].active - 1 ELSE 0
    <3>1. a \in Clients /\ act[a].srv = s
      BY <2>4 DEF LeaseShape, InUse, UseJobs, OpPcs, Actors
    <3>2. Users(s)' = Users(s) \ {a} /\ a \in Users(s)
      BY <1>1, <1>2, <1>3, <2>4, <3>1, UsesIs DEF Users
    <3>3. Cardinality(Users(s)') = Cardinality(Users(s)) - 1
      BY <3>2, UsersFinite, FS_RemoveElement
    <3>4. Cardinality(Users(s)) # 0
      BY <3>2, UsersFinite, FS_EmptySet
    <3> QED BY <1>1, <2>1, <2>4, <3>2, <3>3, <3>4, UsersFinite
  <2> QED BY <2>2, <2>3, <2>4
<1> QED BY <1>4, <1>5, <1>6 DEF LeaseAccounting, MutationExcludesUse

\* A goroutine takes op, keeps it or returns it, and raises or lowers
\* runtimeChanging only while it has it.
LEMMA OwnerStep ==
    ASSUME Typed, OpHeld, ChangingOwned, LeaseShape,
           NEW a \in Actors, NEW s \in Servers, NEW p, NEW q,
           Become(a, p), st' = [st EXCEPT ![s] = q],
           act[a].srv = s \/ act[a].pc = "idle",
           p.pc \in OpPcs => p.srv = s /\ q.op = a,
           q.op = st[s].op \/ st[s].op \in {Free, a},
           q.runtimeChanging =>
               \/ /\ q.op = a /\ p.pc \in OpPcs
                  /\ p.job \in {"start", "stop", "restart"}
               \/ q.op = st[s].op /\ q.op # a /\ st[s].runtimeChanging,
           a \in Workers => p.job \in {"none", "start"},
           ShapeOK(p)
    PROVE  OpHeld' /\ ChangingOwned' /\ LeaseShape'
<1>1. /\ \A t \in Servers : st'[t] = IF t = s THEN q ELSE st[t]
      /\ \A b \in Actors : act'[b] = IF b = a THEN p ELSE act[b]
  BY DEF Typed, StOK, ActOK, Become
<1>2. Workers \subseteq Actors
  BY DEF Actors
<1>3. \A b \in Actors : b # Free
  BY ConstantsAssumption DEF Actors, Free
<1>4. \A b \in Actors : act[b].pc # "idle" => act[b].srv \in Servers
  BY DEF Typed, ActOK, ActorOK
<1>5. OpHeld'
  <2> SUFFICES ASSUME NEW b \in Actors, act'[b].pc \in OpPcs
               PROVE  st'[act'[b].srv].op = b
    BY DEF OpHeld
  <2>1. CASE b = a
    BY <1>1, <2>1
  <2>2. CASE b # a
    BY <1>1, <1>3, <1>4, <2>2 DEF OpHeld, OpPcs
  <2> QED BY <2>1, <2>2
<1>6. ChangingOwned'
  <2> SUFFICES ASSUME NEW t \in Servers, st'[t].runtimeChanging
               PROVE  /\ st'[t].op # Free
                      /\ st'[t].op \in Actors =>
                            /\ act'[st'[t].op].pc \in OpPcs
                            /\ act'[st'[t].op].srv = t
                            /\ act'[st'[t].op].job \in {"start", "stop", "restart"}
    BY DEF ChangingOwned
  <2>1. CASE t = s
    BY <1>1, <1>3, <2>1 DEF ChangingOwned
  <2>2. CASE t # s
    BY <1>1, <1>3, <2>2 DEF ChangingOwned, OpPcs
  <2> QED BY <2>1, <2>2
<1>7. LeaseShape'
  BY <1>1, <1>2 DEF LeaseShape, ShapeOK
<1> QED BY <1>5, <1>6, <1>7

InBeing(m) == m.status # "free" \/ m.reap # "no"

\* A goroutine's step creates no runtime but for its own server, and neither
\* registers nor deletes a server.
LEMMA KnownStep ==
    ASSUME Typed, KnownOnly, CommitOwned,
           NEW a \in Actors, NEW s \in Servers, NEW p, NEW q,
           Become(a, p), st' = [st EXCEPT ![s] = q],
           Known(s), p.pc # "idle" => p.srv = s,
           q.registered = st[s].registered, q.deleted = st[s].deleted,
           q.op = "commit" => st[s].op = "commit",
           booting' \subseteq booting, UNCHANGED <<mut, pending>>,
           \A x \in Sessions : InBeing(sess'[x]) =>
               \/ sess'[x].srv = s
               \/ InBeing(sess[x]) /\ sess'[x].srv = sess[x].srv
    PROVE  KnownOnly' /\ CommitOwned'
<1>1. /\ \A t \in Servers : st'[t] = IF t = s THEN q ELSE st[t]
      /\ \A b \in Actors : act'[b] = IF b = a THEN p ELSE act[b]
  BY DEF Typed, StOK, ActOK, Become
<1>2. \A t \in Servers : Known(t)' <=> Known(t)
  BY <1>1 DEF Known
<1>3. /\ \A b \in Actors : act[b].pc # "idle" => act[b].srv \in Servers
      /\ \A x \in Sessions : InBeing(sess[x]) => sess[x].srv \in Servers
      /\ booting \subseteq Servers /\ mut.claimed \subseteq Servers
      /\ mut.fresh \subseteq Servers
      /\ pending # NoPending => pending \subseteq Servers
  BY DEF Typed, ActOK, ActorOK, SessOK, RuntimeOK, RestOK, Mutator, InBeing
<1>4. KnownOnly'
  <2>1. \A b \in Actors : act'[b].pc # "idle" => Known(act[b].srv)'
    BY <1>1, <1>2, <1>3 DEF KnownOnly, Known
  <2>2. \A x \in Sessions : InBeing(sess'[x]) => Known(sess[x].srv)'
    BY <1>2, <1>3 DEF KnownOnly, InBeing, Known
  <2>3. /\ \A t \in booting' \cup mut'.claimed \cup mut'.fresh : Known(t)'
        /\ pending' # NoPending => \A t \in pending' : Known(t)'
    BY <1>2, <1>3 DEF KnownOnly
  <2> QED BY <2>1, <2>2, <2>3 DEF KnownOnly, InBeing
<1>5. CommitOwned'
  BY <1>1 DEF CommitOwned
<1> QED BY <1>4, <1>5

\* What a goroutine a of server s may do: it becomes p and the record becomes q.
MoveOK(a, s, p, q) ==
    /\ act[a].srv = s \/ act[a].pc = "idle"
    /\ Known(s)
    /\ p.srv = s \/ p.pc = "idle"
    /\ p.pc \in OpPcs => q.op = a
    /\ q.op = st[s].op \/ (st[s].op \in {Free, a} /\ q.op \in {Free, a})
    /\ q.runtimeChanging =>
           \/ q.op = a /\ p.pc \in OpPcs /\ p.job \in {"start", "stop", "restart"}
           \/ q.op = st[s].op /\ q.op # a /\ st[s].runtimeChanging
    /\ a \in Workers => p.job \in {"none", "start"}
    /\ ShapeOK(p)
    /\ q.registered = st[s].registered /\ q.deleted = st[s].deleted
    /\ q.mutating = st[s].mutating

CountOK(a, s, p, q) ==
    \/ (InUse(p) <=> InUse(act[a])) /\ q.active = st[s].active
    \/ /\ InUse(p) /\ ~InUse(act[a]) /\ a \in Clients /\ ~st[s].mutating
       /\ q.active = st[s].active + 1
    \/ /\ ~InUse(p) /\ InUse(act[a])
       /\ q.active = IF st[s].active > 0 THEN st[s].active - 1 ELSE 0

SessMove(s) ==
    \A x \in Sessions : InBeing(sess'[x]) =>
        \/ sess'[x].srv = s
        \/ InBeing(sess[x]) /\ sess'[x].srv = sess[x].srv

\* A step of one goroutine and its server that is in order keeps the invariant.
LEMMA ActorStep ==
    ASSUME Typed, LeaseInv,
           NEW a \in Actors, NEW s \in Servers, NEW p, NEW q,
           Become(a, p), st' = [st EXCEPT ![s] = q],
           MoveOK(a, s, p, q), CountOK(a, s, p, q), SessMove(s),
           booting' \subseteq booting, UNCHANGED <<mut, pending>>
    PROVE  LeaseInv'
<1>1. a \notin {"free", "commit"}
  BY ConstantsAssumption DEF Actors
<1>2. OpHeld' /\ ChangingOwned' /\ LeaseShape'
  <2>1. p.pc \in OpPcs => p.srv = s /\ q.op = a
    BY DEF MoveOK, OpPcs
  <2> QED BY <2>1, OwnerStep DEF MoveOK, LeaseInv
<1>3. LeaseAccounting' /\ MutationExcludesUse'
  BY CountStep DEF MoveOK, CountOK, LeaseInv
<1>4. KnownOnly' /\ CommitOwned'
  <2>1. q.op = "commit" => st[s].op = "commit"
    BY <1>1 DEF MoveOK, Free
  <2>2. p.pc # "idle" => p.srv = s
    BY DEF MoveOK
  <2> QED BY <2>1, <2>2, KnownStep DEF MoveOK, SessMove, LeaseInv
<1> QED BY <1>2, <1>3, <1>4 DEF LeaseInv

\* go s.maintainAlwaysOn(st), if anything: the only goroutine that appears in the
\* steps of the watcher, of a commit and of Close.
Spawned ==
    \A b \in Actors :
        \/ act'[b] = act[b]
        \/ /\ b \in Workers /\ act[b].pc = "idle"
           /\ \E t \in Servers : Known(t) /\ act'[b] = Maintaining(t)

\* What such a step may do to a server: create its record, or change who, other
\* than a goroutine of an operation, holds op.
ServerOK(t) ==
    \/ /\ ~Known(t)
       /\ st'[t].op = Free /\ ~st'[t].runtimeChanging
       /\ st'[t].active = 0 /\ ~st'[t].mutating
    \/ /\ st[t].op \in Actors => st'[t].op = st[t].op
       /\ st'[t].runtimeChanging =>
              \/ st'[t].op \notin Actors \cup {Free}
              \/ st[t].runtimeChanging /\ st'[t].op = st[t].op
       /\ st'[t].active = st[t].active
       /\ st'[t].mutating => st[t].mutating \/ st[t].active = 0

\* So does a step of servers with no goroutine but a new maintainer,
LEMMA ServerStep ==
    ASSUME Typed, LeaseInv, Spawned, \A t \in Servers : ServerOK(t)
    PROVE  /\ OpHeld' /\ ChangingOwned' /\ LeaseShape'
           /\ LeaseAccounting' /\ MutationExcludesUse'
<1>1. \A t : /\ Maintaining(t).pc = "check" /\ Maintaining(t).job = "none"
             /\ Maintaining(t).timer = "none"
  BY DEF Maintaining, Idle
<1>2. \A b \in Actors : act'[b].pc \in OpPcs \cup {"leased", "done"} => act'[b] = act[b]
  BY <1>1 DEF Spawned, OpPcs
<1>3. \A b \in Clients : act'[b] = act[b]
  BY ConstantsAssumption DEF Spawned, Actors
<1>4. \A b \in Actors : act[b].pc # "idle" => act[b].srv \in Servers /\ Known(act[b].srv)
  BY DEF Typed, ActOK, ActorOK, LeaseInv, KnownOnly
<1>5. OpHeld'
  BY <1>2, <1>4 DEF OpHeld, LeaseInv, ServerOK, OpPcs
<1>6. ChangingOwned'
  <2> SUFFICES ASSUME NEW t \in Servers, st'[t].runtimeChanging
               PROVE  /\ st'[t].op # Free
                      /\ st'[t].op \in Actors =>
                            /\ act'[st'[t].op].pc \in OpPcs
                            /\ act'[st'[t].op].srv = t
                            /\ act'[st'[t].op].job \in {"start", "stop", "restart"}
    BY DEF ChangingOwned
  <2>1. \A b \in Actors : act[b].pc \in OpPcs => act'[b] = act[b]
    BY DEF Spawned, OpPcs
  <2> QED BY <2>1 DEF ServerOK, ChangingOwned, LeaseInv
<1>7. LeaseShape'
  <2>1. \A w \in Workers : act'[w].job \in {"none", "start"}
    BY <1>1 DEF Spawned, LeaseInv, LeaseShape, Actors
  <2>2. \A b \in Actors : ShapeOK(act'[b])
    BY <1>1 DEF Spawned, LeaseInv, LeaseShape, ShapeOK
  <2> QED BY <2>1, <2>2 DEF LeaseShape, ShapeOK
<1>8. \A t \in Servers : Users(t)' = Users(t)
  BY <1>3 DEF Users, Uses
<1>9. \A t \in Servers : ~Known(t) => Users(t) = {}
  BY <1>4 DEF Users, Uses, OpPcs, Actors
<1>10. \A t \in Servers : st[t].active = 0 => Users(t) = {}
  BY UsersFinite, FS_EmptySet DEF LeaseInv, LeaseAccounting
<1>11. LeaseAccounting'
  BY <1>8, <1>9, FS_EmptySet DEF LeaseAccounting, LeaseInv, ServerOK
<1>12. MutationExcludesUse'
  BY <1>8, <1>10 DEF MutationExcludesUse, LeaseInv, ServerOK
<1> QED BY <1>5, <1>6, <1>7, <1>11, <1>12

\* which refers to known servers only.
LEMMA KnownServerStep ==
    ASSUME Typed, LeaseInv, Spawned,
           \A t \in Servers : Known(t) => Known(t)',
           booting' \subseteq booting,
           \A t \in mut'.claimed \cup mut'.fresh : Known(t)',
           pending' # NoPending => \A t \in pending' : Known(t)',
           \A x \in Sessions : InBeing(sess'[x]) =>
               InBeing(sess[x]) /\ sess'[x].srv = sess[x].srv
    PROVE  KnownOnly'
<1>1. /\ \A b \in Actors : act[b].pc # "idle" => act[b].srv \in Servers
      /\ \A x \in Sessions : InBeing(sess[x]) => sess[x].srv \in Servers
      /\ booting \subseteq Servers
  BY DEF Typed, ActOK, ActorOK, SessOK, RuntimeOK, RestOK, InBeing
<1>2. \A t : Maintaining(t).srv = t
  BY DEF Maintaining, Idle
<1>3. \A b \in Actors : act'[b].pc # "idle" => Known(act[b].srv)'
  BY <1>1, <1>2 DEF Spawned, LeaseInv, KnownOnly, Known
<1>4. \A x \in Sessions : InBeing(sess'[x]) => Known(sess[x].srv)'
  BY <1>1 DEF LeaseInv, KnownOnly, InBeing, Known
<1>5. \A t \in booting' : Known(t)'
  BY <1>1 DEF LeaseInv, KnownOnly
<1> QED BY <1>3, <1>4, <1>5 DEF KnownOnly, InBeing

\* What closing and watching a runtime do to where it belongs.
LEMMA SessMoves ==
    ASSUME Typed, NEW s, NEW x,
           \/ UNCHANGED sess
           \/ sess' = closeRuntime(x)
           \/ sess' = [sess EXCEPT ![x].watched = TRUE]
    PROVE  SessMove(s)
BY DEF Typed, SessOK, Runtime, SessMove, InBeing, closeRuntime, NoRuntime

\* The records a goroutine becomes, as far as leases and op are concerned.
LEMMA ActorEffects ==
    ASSUME NEW a \in Actors, ActorOK(act[a]), NEW x, NEW entry
    PROVE  /\ Idle.pc = "idle" /\ Idle.job = "none" /\ ShapeOK(Idle) /\ ~InUse(Idle)
           /\ /\ Failed(a).pc = "idle" \/ (Failed(a).pc = "check" /\ Failed(a).srv = act[a].srv)
              /\ Failed(a).job = "none" /\ ShapeOK(Failed(a)) /\ ~InUse(Failed(a))
           /\ /\ Leased(a, x).pc = "leased" /\ Leased(a, x).srv = act[a].srv
              /\ Leased(a, x).job = act[a].job
              /\ act[a].job \in UseJobs => ShapeOK(Leased(a, x)) /\ InUse(Leased(a, x))
           /\ /\ Proceed(a, x, entry).pc \in OpPcs
              /\ Proceed(a, x, entry).srv = act[a].srv
              /\ Proceed(a, x, entry).job = act[a].job
              /\ act[a].timer = "none" => ShapeOK(Proceed(a, x, entry))
<1>1. /\ Idle.pc = "idle" /\ Idle.job = "none" /\ Idle.timer = "none"
      /\ \A t : /\ Maintaining(t).pc = "check" /\ Maintaining(t).srv = t
                /\ Maintaining(t).job = "none" /\ Maintaining(t).timer = "none"
  BY DEF Idle, Maintaining
<1>2. /\ ShapeOK(Idle) /\ ~InUse(Idle)
      /\ \A t : ShapeOK(Maintaining(t)) /\ ~InUse(Maintaining(t))
  BY <1>1 DEF ShapeOK, InUse, UseJobs
<1>3. Failed(a) = Idle \/ Failed(a) = Maintaining(act[a].srv)
  BY DEF Failed
<1>4. /\ Leased(a, x).pc = "leased" /\ Leased(a, x).srv = act[a].srv
      /\ Leased(a, x).job = act[a].job /\ Leased(a, x).released = FALSE
  BY DEF Leased, Idle
<1>5. /\ Proceed(a, x, entry).pc \in OpPcs
      /\ Proceed(a, x, entry).srv = act[a].srv /\ Proceed(a, x, entry).job = act[a].job
      /\ Proceed(a, x, entry).timer = act[a].timer
  BY DEF Proceed, ActorOK, ActorState, OpPcs
<1> QED BY <1>1, <1>2, <1>3, <1>4, <1>5 DEF ShapeOK, InUse, OpPcs

\* Operations that get their turn on op.
LEMMA EnterLeases ==
    ASSUME Typed, LeaseInv, NEW a \in Actors, Enter(a)
    PROVE  LeaseInv'
<1> DEFINE s == act[a].srv
           r == st[s]
<1>1. /\ act[a].pc = "wait" /\ s \in Servers /\ r \in serverState /\ r.op = Free
      /\ ActorOK(act[a]) /\ act[a] \in ActorState
  BY DEF Enter, Refuse, AcquireManualStopped, AcquireReuse, AcquireColdStart,
         StartRunning, StartCold, StopEnter, RestartEnter, Enters, Typed, ActOK,
         ActorOK, StOK
<1>2. Known(s) /\ act[a].timer = "none" /\ ~InUse(act[a]) /\ ShapeOK(act[a])
      /\ (a \in Workers => act[a].job \in {"none", "start"}) /\ a # Free
  BY <1>1, ConstantsAssumption
  DEF LeaseInv, KnownOnly, LeaseShape, InUse, ShapeOK, OpPcs, Actors, Free
<1>3. ~r.runtimeChanging
  BY <1>1 DEF LeaseInv, ChangingOwned
<1>4. SameBut(Detach(r), r) /\ SameBut(cancelIdleLocked(r), r)
  BY <1>1, IdleHelpers
<1>5. UNCHANGED st => st' = [st EXCEPT ![s] = r]
  BY <1>1 DEF Typed, StOK
<1>6. UNCHANGED <<sess, background>> =>
          SessMove(s) /\ booting' \subseteq booting /\ UNCHANGED <<mut, pending>>
  BY SessMoves DEF background
<1>7. act[a].job \in UseJobs => a \in Clients
  BY <1>2 DEF Actors, UseJobs
<1>8. ASSUME UNCHANGED <<sess, background>>, NEW p, NEW q,
             Become(a, p), st' = [st EXCEPT ![s] = q],
             MoveOK(a, s, p, q), CountOK(a, s, p, q)
      PROVE  LeaseInv'
  BY <1>1, <1>6, <1>8, ActorStep
<1> USE ActorEffects
<1>10. CASE Refuse(a)
  <2>1. MoveOK(a, s, Failed(a), r) /\ CountOK(a, s, Failed(a), r)
    BY <1>1, <1>2, <1>3 DEF MoveOK, CountOK, OpPcs
  <2> QED BY <1>5, <1>8, <1>10, <2>1 DEF Refuse
<1>11. CASE AcquireManualStopped(a)
  <2>1. CASE sessionStale(r)
    <3> DEFINE p == [act[a] EXCEPT !.pc = "close", !.job = "drop", !.x = r.session]
               q == [Detach(r) EXCEPT !.op = a]
    <3>1. /\ p.pc = "close" /\ p.job = "drop" /\ p.srv = s /\ p.timer = "none"
          /\ ShapeOK(p) /\ ~InUse(p)
      BY <1>1, <1>2 DEF ActorState, ShapeOK, InUse, UseJobs
    <3>2. /\ q.op = a /\ q.active = r.active /\ ~q.runtimeChanging
          /\ q.mutating = r.mutating /\ q.registered = r.registered
          /\ q.deleted = r.deleted
      BY <1>3, <1>4 DEF SameBut, Kept, serverState
    <3>3. a \in Clients \ Workers
      BY <1>7, <1>11, ConstantsAssumption DEF AcquireManualStopped, Enters
    <3>4. Become(a, p) /\ st' = [st EXCEPT ![s] = q] /\ UNCHANGED <<sess, background>>
      BY <1>11, <2>1 DEF AcquireManualStopped
    <3> HIDE DEF p, q
    <3>5. MoveOK(a, s, p, q) /\ CountOK(a, s, p, q)
      BY <1>1, <1>2, <3>1, <3>2, <3>3 DEF MoveOK, CountOK
    <3> QED BY <1>8, <3>4, <3>5
  <2>2. CASE ~sessionStale(r)
    <3>1. MoveOK(a, s, Failed(a), r) /\ CountOK(a, s, Failed(a), r)
      BY <1>1, <1>2, <1>3 DEF MoveOK, CountOK, OpPcs
    <3> QED BY <1>5, <1>8, <1>11, <2>2, <3>1 DEF AcquireManualStopped
  <2> QED BY <2>1, <2>2
<1>12. CASE AcquireReuse(a)
  <2> DEFINE p == Leased(a, r.session)
             q == [cancelIdleLocked(r) EXCEPT !.active = @ + 1]
  <2>1. /\ q.op = Free /\ q.active = r.active + 1 /\ ~q.runtimeChanging
        /\ q.mutating = r.mutating /\ q.registered = r.registered
        /\ q.deleted = r.deleted
    BY <1>1, <1>3, <1>4 DEF SameBut, Kept, serverState
  <2>2. act[a].job \in UseJobs /\ ~r.mutating
    BY <1>12 DEF AcquireReuse, Enters, Rejected, UseJobs
  <2>3. Become(a, p) /\ st' = [st EXCEPT ![s] = q] /\ UNCHANGED <<sess, background>>
    BY <1>12 DEF AcquireReuse
  <2> HIDE DEF q
  <2>4. MoveOK(a, s, p, q) /\ CountOK(a, s, p, q)
    BY <1>1, <1>2, <1>7, <2>1, <2>2 DEF MoveOK, CountOK, OpPcs
  <2> QED BY <1>8, <2>3, <2>4
<1>13. CASE AcquireColdStart(a)
  <2> DEFINE p == Proceed(a, r.session, r.entry)
             q == [Detach(r) EXCEPT !.active = @ + 1, !.op = a]
  <2>1. /\ q.op = a /\ q.active = r.active + 1 /\ ~q.runtimeChanging
        /\ q.mutating = r.mutating /\ q.registered = r.registered
        /\ q.deleted = r.deleted
    BY <1>1, <1>3, <1>4 DEF SameBut, Kept, serverState
  <2>2. act[a].job \in UseJobs /\ ~r.mutating
    BY <1>13 DEF AcquireColdStart, Enters, Rejected, UseJobs
  <2>3. Become(a, p) /\ st' = [st EXCEPT ![s] = q] /\ UNCHANGED <<sess, background>>
    BY <1>13 DEF AcquireColdStart
  <2>4. InUse(p)
    BY <1>1, <2>2 DEF InUse
  <2> HIDE DEF q
  <2>5. MoveOK(a, s, p, q) /\ CountOK(a, s, p, q)
    BY <1>1, <1>2, <1>7, <2>1, <2>2, <2>4 DEF MoveOK, CountOK
  <2> QED BY <1>8, <2>3, <2>5
<1>14. CASE StartRunning(a)
  <2>1. MoveOK(a, s, Idle, r) /\ CountOK(a, s, Idle, r)
    BY <1>1, <1>2, <1>3 DEF MoveOK, CountOK, OpPcs
  <2> QED BY <1>5, <1>8, <1>14, <2>1 DEF StartRunning
<1> DEFINE changing == [Detach(r) EXCEPT !.runtimeChanging = TRUE, !.op = a]
<1>15. /\ changing.op = a /\ changing.active = r.active
       /\ changing.mutating = r.mutating /\ changing.registered = r.registered
       /\ changing.deleted = r.deleted
  BY <1>4 DEF SameBut, Kept, serverState
<1>16. CASE StartCold(a) \/ RestartEnter(a)
  <2> DEFINE p == Proceed(a, r.session, r.entry)
  <2>1. act[a].job \in {"start", "stop", "restart"}
    BY <1>16 DEF StartCold, RestartEnter, Enters
  <2>2. /\ Become(a, p) /\ st' = [st EXCEPT ![s] = changing]
        /\ UNCHANGED <<sess, background>>
    BY <1>16 DEF StartCold, RestartEnter
  <2>3. ~InUse(p)
    BY <1>1, <2>1 DEF InUse, UseJobs
  <2> HIDE DEF changing
  <2>4. MoveOK(a, s, p, changing) /\ CountOK(a, s, p, changing)
    BY <1>1, <1>2, <1>15, <2>1, <2>3 DEF MoveOK, CountOK
  <2> QED BY <1>8, <2>2, <2>4
<1>17. CASE StopEnter(a)
  <2>1. CASE r.session = NoSession
    <3>1. /\ Detach(r).op = Free /\ Detach(r).active = r.active
          /\ ~Detach(r).runtimeChanging
          /\ Detach(r).mutating = r.mutating /\ Detach(r).registered = r.registered
          /\ Detach(r).deleted = r.deleted
      BY <1>1, <1>3, <1>4 DEF SameBut, Kept
    <3>2. MoveOK(a, s, Idle, Detach(r)) /\ CountOK(a, s, Idle, Detach(r))
      BY <1>1, <1>2, <3>1 DEF MoveOK, CountOK, OpPcs
    <3> QED BY <1>8, <1>17, <2>1, <3>2 DEF StopEnter
  <2>2. CASE r.session # NoSession
    <3> DEFINE p == [act[a] EXCEPT !.pc = "close", !.x = r.session]
    <3>1. act[a].job = "stop"
      BY <1>17 DEF StopEnter, Enters
    <3>2. /\ p.pc = "close" /\ p.job = "stop" /\ p.srv = s /\ p.timer = "none"
          /\ ShapeOK(p) /\ ~InUse(p)
      BY <1>1, <1>2, <3>1 DEF ActorState, ShapeOK, InUse, UseJobs
    <3>3. Become(a, p) /\ st' = [st EXCEPT ![s] = changing] /\ UNCHANGED <<sess, background>>
      BY <1>17, <2>2 DEF StopEnter
    <3> HIDE DEF p, changing
    <3>4. MoveOK(a, s, p, changing) /\ CountOK(a, s, p, changing)
      BY <1>1, <1>2, <1>15, <3>1, <3>2 DEF MoveOK, CountOK, OpPcs
    <3> QED BY <1>8, <3>3, <3>4
  <2> QED BY <2>1, <2>2
<1> QED BY <1>10, <1>11, <1>12, <1>13, <1>14, <1>16, <1>17 DEF Enter

\* The end of an operation: op is free, runtimeChanging is down, and a failed
\* Acquire has given its lease back.
LEMMA FinishEffect ==
    ASSUME Typed, LeaseInv, NEW a \in Actors, act[a].pc \in OpPcs
    PROVE  LET r == st[act[a].srv]
           IN  /\ Finish(a).op = Free /\ ~Finish(a).runtimeChanging
               /\ Finish(a).registered = r.registered /\ Finish(a).deleted = r.deleted
               /\ Finish(a).mutating = r.mutating
               /\ IF act[a].job \in UseJobs
                  THEN Finish(a).active = IF r.active > 0 THEN r.active - 1 ELSE 0
                  ELSE Finish(a).active = r.active
<1> DEFINE r == st[act[a].srv]
<1>1. act[a].srv \in Servers /\ r \in serverState
  BY DEF Typed, ActOK, ActorOK, StOK, OpPcs
<1>2. r.op = a
  BY DEF LeaseInv, OpHeld
<1>3. act[a].job \in UseJobs \cup {"drop"} => ~r.runtimeChanging
  BY <1>1, <1>2 DEF LeaseInv, ChangingOwned, UseJobs
<1>4. Less(Unuse(r), r)
  BY <1>1, LessEffect
<1>5. CASE act[a].job \in UseJobs
  <2>1. Finish(a) = [Unuse(r) EXCEPT !.op = Free]
    BY <1>5 DEF Finish, UseJobs
  <2> QED BY <1>3, <1>4, <1>5, <2>1 DEF Less, Kept, serverState
<1>6. CASE act[a].job = "drop"
  <2>1. Finish(a) = [r EXCEPT !.op = Free]
    BY <1>6 DEF Finish
  <2> QED BY <1>1, <1>3, <1>6, <2>1 DEF serverState, UseJobs
<1>7. CASE act[a].job \notin UseJobs \cup {"drop"}
  <2>1. Finish(a) = [r EXCEPT !.runtimeChanging = FALSE, !.op = Free]
    BY <1>7 DEF Finish
  <2> QED BY <1>1, <1>7, <2>1 DEF serverState
<1> QED BY <1>5, <1>6, <1>7

\* Operations that hold op.
LEMMA HoldLeases ==
    ASSUME Typed, LeaseInv, NEW a \in Actors,
           \/ CloseOld(a) \/ ConnectFail(a) \/ Discard(a) \/ Install(a)
           \/ \E x \in Sessions : ConnectOK(a, x)
    PROVE  LeaseInv'
<1> DEFINE s == act[a].srv
           r == st[s]
<1>1. act[a].pc \in OpPcs
  BY DEF CloseOld, ConnectFail, Discard, Install, ConnectOK, OpPcs
<1>2. /\ s \in Servers /\ r \in serverState /\ r.op = a
      /\ ActorOK(act[a]) /\ act[a] \in ActorState /\ act[a].pc # "idle"
  BY <1>1 DEF Typed, ActOK, ActorOK, StOK, LeaseInv, OpHeld, OpPcs
<1>3. Known(s) /\ act[a].timer = "none" /\ (InUse(act[a]) <=> act[a].job \in UseJobs)
      /\ (a \in Workers => act[a].job \in {"none", "start"}) /\ a # Free
  BY <1>1, <1>2, ConstantsAssumption
  DEF LeaseInv, KnownOnly, LeaseShape, InUse, OpPcs, Actors, Free
<1>4. r.runtimeChanging => act[a].job \in {"start", "stop", "restart"}
  BY <1>2 DEF LeaseInv, ChangingOwned
<1>5. UNCHANGED st => st' = [st EXCEPT ![s] = r]
  BY <1>2 DEF Typed, StOK
<1>6. UNCHANGED background => booting' \subseteq booting /\ UNCHANGED <<mut, pending>>
  BY DEF background
<1>7. ASSUME UNCHANGED background, SessMove(s), NEW p, NEW q,
             Become(a, p), st' = [st EXCEPT ![s] = q],
             MoveOK(a, s, p, q), CountOK(a, s, p, q)
      PROVE  LeaseInv'
  BY <1>2, <1>6, <1>7, ActorStep
<1>8. \A p \in {Idle, Failed(a)} : MoveOK(a, s, p, Finish(a)) /\ CountOK(a, s, p, Finish(a))
  BY <1>1, <1>2, <1>3, FinishEffect, ActorEffects DEF MoveOK, CountOK, OpPcs
<1>9. CASE CloseOld(a)
  <2> DEFINE p == Proceed(a, NoSession, act[a].entry)
  <2>1. SessMove(s)
    BY <1>9, SessMoves DEF CloseOld
  <2>2. InUse(p) <=> InUse(act[a])
    BY <1>2, <1>3, ActorEffects DEF InUse
  <2>3. MoveOK(a, s, p, r) /\ CountOK(a, s, p, r)
    BY <1>2, <1>3, <1>4, <2>2, ActorEffects DEF MoveOK, CountOK
  <2>4. CASE Become(a, p) /\ UNCHANGED st
    BY <1>5, <1>7, <1>9, <2>1, <2>3, <2>4 DEF CloseOld
  <2>5. CASE st' = [st EXCEPT ![s] = Finish(a)] /\ Become(a, Idle)
    BY <1>7, <1>8, <1>9, <2>1, <2>5 DEF CloseOld
  <2> QED BY <1>9, <2>4, <2>5 DEF CloseOld
<1>10. CASE ConnectFail(a)
  <2>1. SessMove(s)
    BY <1>10, SessMoves DEF ConnectFail
  <2> QED BY <1>7, <1>8, <1>10, <2>1 DEF ConnectFail
<1>11. CASE Discard(a)
  <2>1. SessMove(s)
    BY <1>11, SessMoves DEF Discard
  <2> QED BY <1>7, <1>8, <1>11, <2>1 DEF Discard
<1>12. ASSUME NEW x \in Sessions, ConnectOK(a, x) PROVE LeaseInv'
  <2>1. PICK pc \in {"install", "discard"} : Become(a, [act[a] EXCEPT !.pc = pc, !.x = x])
    BY <1>12 DEF ConnectOK
  <2> DEFINE p == [act[a] EXCEPT !.pc = pc, !.x = x]
  <2>2. /\ p.pc \in {"install", "discard"} /\ p.srv = s /\ p.job = act[a].job
        /\ p.timer = "none"
    BY <1>2, <1>3 DEF ActorState
  <2>3. SessMove(s)
    BY <1>12 DEF ConnectOK, SessMove, InBeing, Connected, NoRuntime, Typed, SessOK
  <2>4. Become(a, p) /\ UNCHANGED <<st, background>>
    BY <1>12, <2>1 DEF ConnectOK
  <2> HIDE DEF p
  <2>5. ShapeOK(p) /\ (InUse(p) <=> InUse(act[a]))
    BY <1>3, <2>2 DEF ShapeOK, InUse, OpPcs
  <2>6. MoveOK(a, s, p, r) /\ CountOK(a, s, p, r)
    BY <1>2, <1>3, <1>4, <2>2, <2>5 DEF MoveOK, CountOK, OpPcs
  <2> QED BY <1>5, <1>7, <2>3, <2>4, <2>6
<1>13. CASE Install(a)
  <2>1. SessMove(s) /\ UNCHANGED background
    BY <1>13, SessMoves DEF Install
  <2> DEFINE r1 == [r EXCEPT !.session = act[a].x]
             q1 == [r1 EXCEPT !.op = Free]
             q2 == [r1 EXCEPT !.runtimeChanging = FALSE, !.op = Free]
  <2>2. /\ r1.runtimeChanging = r.runtimeChanging
        /\ act[a].x \in Sessions \cup {NoSession}
    BY <1>2 DEF serverState, ActorState
  <2>3. /\ q1.op = Free /\ q1.runtimeChanging = r.runtimeChanging
        /\ q1.active = r.active /\ q1.mutating = r.mutating
        /\ q1.registered = r.registered /\ q1.deleted = r.deleted
    BY <1>2 DEF serverState
  <2>4. /\ q2.op = Free /\ ~q2.runtimeChanging
        /\ q2.active = r.active /\ q2.mutating = r.mutating
        /\ q2.registered = r.registered /\ q2.deleted = r.deleted
        /\ q2 \in serverState
    BY <1>2, <2>2 DEF serverState, Owners
  <2>5. CASE act[a].job \in UseJobs
    <3>1. CASE st' = [st EXCEPT ![s] = Finish(a)] /\ Become(a, Failed(a))
      BY <1>7, <1>8, <2>1, <3>1
    <3>2. CASE st' = [st EXCEPT ![s] = q1] /\ Become(a, Leased(a, act[a].x))
      <4> HIDE DEF q1
      <4>1. ~r.runtimeChanging
        BY <1>4, <2>5 DEF UseJobs
      <4>2. MoveOK(a, s, Leased(a, act[a].x), q1) /\ CountOK(a, s, Leased(a, act[a].x), q1)
        BY <1>2, <1>3, <2>3, <2>5, <4>1, ActorEffects DEF MoveOK, CountOK, OpPcs
      <4> QED BY <1>7, <2>1, <3>2, <4>2
    <3> QED BY <1>13, <2>5, <3>1, <3>2 DEF Install
  <2>6. CASE act[a].job \notin UseJobs
    <3>1. PICK q \in {q2, scheduleIdleLocked(q2)} : st' = [st EXCEPT ![s] = q]
      BY <1>13, <2>6 DEF Install
    <3>2. Become(a, Idle)
      BY <1>13, <2>6 DEF Install
    <3> HIDE DEF q2
    <3>3. SameBut(scheduleIdleLocked(q2), q2)
      BY <2>4, IdleHelpers
    <3>4. /\ q.op = Free /\ ~q.runtimeChanging
          /\ q.active = r.active /\ q.mutating = r.mutating
          /\ q.registered = r.registered /\ q.deleted = r.deleted
      BY <2>4, <3>1, <3>3 DEF SameBut, Kept
    <3>5. MoveOK(a, s, Idle, q) /\ CountOK(a, s, Idle, q)
      BY <1>2, <1>3, <2>6, <3>4, ActorEffects DEF MoveOK, CountOK, OpPcs
    <3> QED BY <1>7, <2>1, <3>1, <3>2, <3>5
  <2> QED BY <2>5, <2>6
<1> QED BY <1>9, <1>10, <1>11, <1>12, <1>13

\* Callers and leases; a crash or a contract change concerns only the runtime.
LEMMA CallerLeases ==
    ASSUME Typed, LeaseInv,
           \/ \E c \in Clients, s \in Servers, job \in AllJobs : Begin(c, s, job)
           \/ \E a \in Actors : GiveUp(a)
           \/ \E c \in Clients : Release(c) \/ TaskExpires(c) \/ ExpiryRelease(c)
           \/ \E x \in Sessions : Crash(x) \/ ContractChange(x)
    PROVE  LeaseInv'
<1>1. /\ \A a \in Actors : ActorOK(act[a]) /\ act[a] \in ActorState
      /\ \A s \in Servers : st[s] \in serverState
      /\ Clients \subseteq Actors /\ Clients \cap Workers = {}
      /\ \A a \in Actors : a # Free
  BY ConstantsAssumption DEF Typed, ActOK, StOK, Actors, Free
<1>2. ASSUME UNCHANGED <<sess, background>>, NEW a \in Actors, NEW s \in Servers,
             NEW p, NEW q, Become(a, p), st' = [st EXCEPT ![s] = q],
             MoveOK(a, s, p, q), CountOK(a, s, p, q)
      PROVE  LeaseInv'
  <2>1. SessMove(s) /\ booting' \subseteq booting /\ UNCHANGED <<mut, pending>>
    BY <1>2, SessMoves DEF background
  <2> QED BY <1>2, <2>1, ActorStep
<1>3. ASSUME NEW s \in Servers, UNCHANGED st PROVE st' = [st EXCEPT ![s] = st[s]]
  BY <1>3 DEF Typed, StOK
<1>4. ASSUME NEW a \in Actors, act[a].pc # "idle", act[a].pc \notin OpPcs
      PROVE  /\ act[a].srv \in Servers /\ Known(act[a].srv) /\ ShapeOK(act[a])
             /\ st[act[a].srv].runtimeChanging =>
                    st[act[a].srv].op # Free /\ st[act[a].srv].op # a
  BY <1>1, <1>4
  DEF ActorOK, LeaseInv, KnownOnly, LeaseShape, ShapeOK, ChangingOwned
<1>5. ASSUME NEW c \in Clients, NEW s \in Servers, NEW job \in AllJobs, Begin(c, s, job)
      PROVE  LeaseInv'
  <2> DEFINE p == [Idle EXCEPT !.pc = "wait", !.job = job, !.srv = s]
  <2>1. act[c] = Idle /\ st[s].registered /\ Become(c, p) /\ UNCHANGED <<st, sess, background>>
    BY <1>5 DEF Begin, Admitted
  <2>2. p.pc = "wait" /\ p.srv = s /\ p.timer = "none" /\ ShapeOK(p) /\ ~InUse(p)
    BY DEF Idle, ShapeOK, InUse, OpPcs
  <2>3. act[c].pc = "idle" /\ ~InUse(act[c])
    BY <2>1 DEF Idle, InUse, OpPcs
  <2>4. st[s].runtimeChanging => st[s].op # c
    BY <1>1, <2>3 DEF LeaseInv, ChangingOwned, OpPcs
  <2> HIDE DEF p
  <2>5. MoveOK(c, s, p, st[s]) /\ CountOK(c, s, p, st[s])
    BY <1>1, <2>1, <2>2, <2>3, <2>4 DEF MoveOK, CountOK, OpPcs, Known
  <2> QED BY <1>1, <1>2, <1>3, <2>1, <2>5
<1>6. ASSUME NEW a \in Actors, GiveUp(a) PROVE LeaseInv'
  <2>1. act[a].pc = "wait" /\ ~InUse(act[a])
    BY <1>6 DEF GiveUp, InUse, OpPcs
  <2>2. act[a].srv \in Servers /\ Known(act[a].srv)
        /\ (st[act[a].srv].runtimeChanging => st[act[a].srv].op # a)
    BY <1>4, <2>1 DEF OpPcs
  <2>3. MoveOK(a, act[a].srv, Failed(a), st[act[a].srv])
        /\ CountOK(a, act[a].srv, Failed(a), st[act[a].srv])
    BY <1>1, <2>1, <2>2, ActorEffects DEF MoveOK, CountOK, OpPcs
  <2> QED BY <1>2, <1>3, <1>6, <2>2, <2>3 DEF GiveUp
<1>7. ASSUME NEW c \in Clients, act[c].pc \in {"leased", "done"}
      PROVE  LET s == act[c].srv IN
             /\ s \in Servers /\ Known(s) /\ ShapeOK(act[c])
             /\ st[s].runtimeChanging => st[s].op # c
             /\ InUse(act[c]) <=> ~act[c].released
             /\ Less(releaseLocked(st[s]), st[s])
  <2>1. act[c].srv \in Servers /\ Known(act[c].srv) /\ ShapeOK(act[c])
        /\ (st[act[c].srv].runtimeChanging => st[act[c].srv].op # c)
    BY <1>1, <1>4, <1>7 DEF OpPcs
  <2>2. InUse(act[c]) <=> ~act[c].released
    BY <1>7, <2>1 DEF InUse, ShapeOK, OpPcs
  <2>3. Less(releaseLocked(st[act[c].srv]), st[act[c].srv])
    BY <1>1, <2>1, LessEffect
  <2> QED BY <2>1, <2>2, <2>3
\* Whoever calls Release, the lease is taken off if it had not been released yet.
<1>8. ASSUME NEW c \in Clients, act[c].pc \in {"leased", "done"},
             releaseOnce(c), UNCHANGED <<sess, background>>, NEW p, Become(c, p),
             ~InUse(p), ShapeOK(p), p.pc \notin OpPcs, p.srv = act[c].srv \/ p.pc = "idle"
      PROVE  LeaseInv'
  <2> DEFINE s == act[c].srv
             q == IF act[c].released THEN st[s] ELSE releaseLocked(st[s])
  <2>1. s \in Servers /\ st' = [st EXCEPT ![s] = q]
    BY <1>7, <1>8 DEF releaseOnce, Typed, StOK
  <2>2. MoveOK(c, s, p, q)
    BY <1>1, <1>7, <1>8 DEF MoveOK, Less, Kept
  <2>3. CountOK(c, s, p, q)
    BY <1>1, <1>7, <1>8 DEF CountOK, Less
  <2> QED BY <1>1, <1>2, <1>8, <2>1, <2>2, <2>3
<1>9. ASSUME NEW c \in Clients, Release(c) PROVE LeaseInv'
  <2> DEFINE p == IF act[c].timer = "fired"
                  THEN [act[c] EXCEPT !.pc = "done", !.released = TRUE] ELSE Idle
  <2>1. act[c].pc = "leased" /\ releaseOnce(c) /\ Become(c, p)
        /\ UNCHANGED <<sess, background>>
    BY <1>9 DEF Release
  <2>2. ~InUse(p) /\ ShapeOK(p) /\ p.pc \notin OpPcs
        /\ (p.srv = act[c].srv \/ p.pc = "idle")
    BY <1>1, ActorEffects DEF InUse, ShapeOK, OpPcs, ActorState
  <2> QED BY <1>8, <2>1, <2>2
<1>10. ASSUME NEW c \in Clients, ExpiryRelease(c) PROVE LeaseInv'
  <2> DEFINE p == IF act[c].pc = "done" THEN Idle
                  ELSE [act[c] EXCEPT !.released = TRUE, !.timer = "none"]
  <2>1. /\ act[c].timer = "fired" /\ releaseOnce(c) /\ Become(c, p)
        /\ UNCHANGED <<sess, background>>
    BY <1>10 DEF ExpiryRelease
  <2>2. act[c].pc \in {"leased", "done"}
    BY <1>1, <2>1 DEF LeaseInv, LeaseShape
  <2>3. ShapeOK(act[c])
    BY <1>7, <2>2
  <2>4. ~InUse(p) /\ ShapeOK(p) /\ p.pc \notin OpPcs
        /\ (p.srv = act[c].srv \/ p.pc = "idle")
    BY <1>1, <2>2, <2>3, ActorEffects DEF InUse, ShapeOK, OpPcs, ActorState
  <2> QED BY <1>8, <2>1, <2>2, <2>4
<1>11. ASSUME NEW c \in Clients, TaskExpires(c) PROVE LeaseInv'
  <2> DEFINE s == act[c].srv
             p == [act[c] EXCEPT !.timer = "fired"]
  <2>1. act[c].timer = "armed" /\ Become(c, p) /\ UNCHANGED <<st, sess, background>>
    BY <1>11 DEF TaskExpires
  <2>2. act[c].pc \in {"leased", "done"}
    BY <1>1, <2>1 DEF LeaseInv, LeaseShape
  <2>3. /\ p.pc = act[c].pc /\ p.srv = s /\ p.job = act[c].job
        /\ p.released = act[c].released
    BY <1>1 DEF ActorState
  <2>4. ShapeOK(p) /\ (InUse(p) <=> InUse(act[c]))
    BY <1>7, <2>2, <2>3 DEF ShapeOK, InUse
  <2> HIDE DEF p
  <2>5. s \in Servers /\ MoveOK(c, s, p, st[s]) /\ CountOK(c, s, p, st[s])
    BY <1>1, <1>7, <2>2, <2>3, <2>4 DEF MoveOK, CountOK, OpPcs
  <2> QED BY <1>1, <1>2, <1>3, <2>1, <2>5
<1>12. ASSUME NEW x \in Sessions, Crash(x) \/ ContractChange(x) PROVE LeaseInv'
  <2>1. /\ UNCHANGED <<st, act, booting, mut, pending>>
        /\ InBeing(sess[x])
        /\ \/ sess' = [sess EXCEPT ![x].status = "exited"]
           \/ sess' = [sess EXCEPT ![x].changed = TRUE]
    BY <1>12 DEF Crash, ContractChange, background, Live, InBeing
  <2>2. \A y \in Sessions : InBeing(sess'[y]) =>
            InBeing(sess[y]) /\ sess'[y].srv = sess[y].srv
    BY <2>1 DEF InBeing, Typed, SessOK, Runtime
  <2>3. KnownOnly'
    BY <2>1, <2>2 DEF LeaseInv, KnownOnly, Known, InBeing
  <2> QED
    BY <2>1, <2>3 DEF LeaseInv, OpHeld, ChangingOwned, LeaseShape, CommitOwned,
                      LeaseAccounting, MutationExcludesUse, Users, Uses
<1> QED BY <1>5, <1>6, <1>9, <1>10, <1>11, <1>12

\* A step that starts no goroutine but a maintainer, and leaves the mutation alone.
LEMMA QuietStep ==
    ASSUME Typed, LeaseInv, Spawned, \A t \in Servers : ServerOK(t),
           \A t \in Servers : /\ st'[t].registered = st[t].registered
                              /\ st'[t].deleted = st[t].deleted
                              /\ st'[t].op = "commit" => st[t].op = "commit",
           UNCHANGED <<booting, mut>>, pending' \in {pending, NoPending},
           \A x \in Sessions : InBeing(sess'[x]) =>
               InBeing(sess[x]) /\ sess'[x].srv = sess[x].srv
    PROVE  LeaseInv'
<1>1. /\ mut.claimed \subseteq Servers /\ mut.fresh \subseteq Servers
      /\ pending # NoPending => pending \subseteq Servers
  BY DEF Typed, RestOK, Mutator
<1>2. \A t \in Servers : Known(t) => Known(t)'
  BY DEF Known
<1>3. /\ \A t \in mut'.claimed \cup mut'.fresh : Known(t)'
      /\ pending' # NoPending => \A t \in pending' : Known(t)'
  BY <1>1, <1>2 DEF LeaseInv, KnownOnly
<1>4. KnownOnly'
  BY <1>2, <1>3, KnownServerStep
<1>5. CommitOwned'
  BY DEF LeaseInv, CommitOwned
<1> QED BY <1>4, <1>5, ServerStep DEF LeaseInv

\* The runtimes after a close: nothing new.
LEMMA SessLess ==
    ASSUME Typed, NEW x, sess' = sess \/ sess' = closeRuntime(x)
    PROVE  \A y \in Sessions : InBeing(sess'[y]) =>
               InBeing(sess[y]) /\ sess'[y].srv = sess[y].srv
BY DEF Typed, SessOK, InBeing, closeRuntime, NoRuntime

\* Only maintainers are spawned.
LEMMA SpawnedBy ==
    ASSUME Typed, NEW s \in Servers, Known(s), GoMaintain(s) \/ UNCHANGED act
    PROVE  Spawned
<1>1. CASE UNCHANGED act
  BY <1>1 DEF Spawned
<1>2. ASSUME NEW w \in Workers, FreeWorker(w), Become(w, Maintaining(s)) PROVE Spawned
  <2>1. act[w].pc = "idle"
    BY <1>2 DEF FreeWorker, Idle
  <2>2. \A b \in Actors : act'[b] = IF b = w THEN Maintaining(s) ELSE act[b]
    BY <1>2 DEF Become, Typed, ActOK, Actors
  <2> QED BY <1>2, <2>1, <2>2 DEF Spawned
<1> QED BY <1>1, <1>2 DEF GoMaintain

\* One record changes, and what it changes is none of the leases' business.
LEMMA RecordStep ==
    ASSUME Typed, LeaseInv, NEW s \in Servers, NEW q, st' = [st EXCEPT ![s] = q],
           \/ q.op = st[s].op /\ (q.runtimeChanging => st[s].runtimeChanging)
           \/ st[s].op \notin Actors /\ q.op \in {"idle", "close", "commit"}
           \/ st[s].op \notin Actors /\ q.op = Free /\ ~q.runtimeChanging,
           q.active = st[s].active, q.mutating => st[s].mutating
    PROVE  \A t \in Servers : ServerOK(t)
<1>1. \A t \in Servers : st'[t] = IF t = s THEN q ELSE st[t]
  BY DEF Typed, StOK
<1>2. {"idle", "close", "commit"} \cap (Actors \cup {Free}) = {}
  BY ConstantsAssumption DEF Actors, Free
<1> QED BY <1>1, <1>2 DEF ServerOK

\* The watcher, the maintainer, StartAlwaysOn and the idle timer.
LEMMA BackgroundLeases ==
    ASSUME Typed, LeaseInv, Background
    PROVE  LeaseInv'
<1>1. /\ \A a \in Actors : ActorOK(act[a]) /\ act[a] \in ActorState
      /\ \A s \in Servers : st[s] \in serverState
      /\ Workers \subseteq Actors /\ Free \notin Actors
      /\ {"idle", "close", "commit"} \cap Actors = {}
  BY ConstantsAssumption DEF Typed, ActOK, StOK, Actors, Free
<1>2. UNCHANGED background => UNCHANGED <<booting, mut, pending>>
  BY DEF background
<1>3. UNCHANGED act => Spawned
  BY DEF Spawned
<1>4. ASSUME NEW s \in Servers, NEW q, st' = [st EXCEPT ![s] = q],
             q.registered = st[s].registered, q.deleted = st[s].deleted,
             q.op = "commit" => st[s].op = "commit"
      PROVE  \A t \in Servers : /\ st'[t].registered = st[t].registered
                                /\ st'[t].deleted = st[t].deleted
                                /\ st'[t].op = "commit" => st[t].op = "commit"
  BY <1>4 DEF Typed, StOK
<1>5. ASSUME NEW x \in Sessions, WatchDetach(x) PROVE LeaseInv'
  <2> DEFINE s == sess[x].srv
             q == Detach(st[s])
  <2>1. s \in Servers /\ SameBut(q, st[s])
    BY <1>1, <1>5, IdleHelpers DEF WatchDetach, Exited, Typed, SessOK, RuntimeOK
  <2>2. /\ st' = [st EXCEPT ![s] = q] /\ UNCHANGED <<act, background>>
        /\ InBeing(sess[x]) /\ \E why : sess' = [sess EXCEPT ![x].reap = why]
    BY <1>5 DEF WatchDetach, Exited, InBeing
  <2>3. \A y \in Sessions : InBeing(sess'[y]) =>
            InBeing(sess[y]) /\ sess'[y].srv = sess[y].srv
    BY <2>2 DEF InBeing, Typed, SessOK, Runtime
  <2> HIDE DEF q
  <2>4. \A t \in Servers : ServerOK(t)
    BY <2>1, <2>2, RecordStep DEF SameBut, Kept
  <2> QED BY <1>2, <1>3, <1>4, <2>1, <2>2, <2>3, <2>4, QuietStep DEF SameBut, Kept
<1>6. ASSUME NEW x \in Sessions, WatchClose(x) PROVE LeaseInv'
  <2>1. sess[x].srv \in Servers /\ Known(sess[x].srv)
    BY <1>6 DEF WatchClose, Typed, SessOK, RuntimeOK, LeaseInv, KnownOnly
  <2>2. Spawned
    BY <1>6, <2>1, SpawnedBy DEF WatchClose
  <2>3. \A t \in Servers : ServerOK(t)
    BY <1>6 DEF WatchClose, ServerOK
  <2>4. \A y \in Sessions : InBeing(sess'[y]) =>
            InBeing(sess[y]) /\ sess'[y].srv = sess[y].srv
    BY <1>6, SessLess DEF WatchClose
  <2> QED BY <1>2, <1>6, <2>2, <2>3, <2>4, QuietStep DEF WatchClose
<1>7. ASSUME NEW w \in Workers, MaintainExit(w) \/ MaintainTry(w) PROVE LeaseInv'
  <2> DEFINE s == act[w].srv
             try == [act[w] EXCEPT !.pc = "wait", !.job = "start"]
  <2>1. act[w].pc = "check" /\ ~InUse(act[w]) /\ w \in Actors /\ w # Free
    BY <1>1, <1>7 DEF MaintainExit, MaintainTry, InUse, OpPcs
  <2>2. s \in Servers /\ Known(s) /\ act[w].timer = "none"
        /\ (st[s].runtimeChanging => st[s].op # w)
    BY <1>1, <2>1
    DEF ActorOK, LeaseInv, KnownOnly, LeaseShape, ChangingOwned, OpPcs
  <2>3. /\ try.pc = "wait" /\ try.job = "start" /\ try.srv = s /\ ShapeOK(try)
        /\ ~InUse(try)
    BY <1>1, <2>1, <2>2 DEF ActorState, ShapeOK, InUse, OpPcs
  <2>4. PICK p \in {Idle, try} : Become(w, p)
    BY <1>7 DEF MaintainExit, MaintainTry
  <2>5. UNCHANGED <<st, sess, background>>
    BY <1>7 DEF MaintainExit, MaintainTry
  <2> HIDE DEF try
  <2>6. st' = [st EXCEPT ![s] = st[s]] /\ SessMove(s)
    BY <2>2, <2>5, SessMoves DEF Typed, StOK
  <2>7. MoveOK(w, s, p, st[s]) /\ CountOK(w, s, p, st[s])
    BY <1>1, <2>1, <2>2, <2>3, <2>4, ActorEffects DEF MoveOK, CountOK, OpPcs
  <2> QED BY <1>2, <2>1, <2>2, <2>4, <2>5, <2>6, <2>7, ActorStep
<1>8. ASSUME NEW s \in Servers, NEW w \in Workers, StartAlwaysOn(s, w) PROVE LeaseInv'
  <2> DEFINE p == [Idle EXCEPT !.pc = "wait", !.job = "start", !.srv = s]
  <2>1. /\ UNCHANGED <<st, sess, mut, pending>> /\ booting' \subseteq booting
        /\ Known(s) /\ act[w] = Idle /\ w \in Actors
    BY <1>1, <1>8 DEF StartAlwaysOn, LeaseInv, KnownOnly, FreeWorker
  <2>2. st' = [st EXCEPT ![s] = st[s]] /\ SessMove(s)
    BY <2>1, SessMoves DEF Typed, StOK
  <2>3. /\ p.pc = "wait" /\ p.job = "start" /\ p.srv = s
        /\ ShapeOK(p) /\ ~InUse(p)
    BY DEF Idle, ShapeOK, InUse, OpPcs
  <2>4. act[w].pc = "idle" /\ ~InUse(act[w]) /\ act[w].job = "none" /\ ShapeOK(act[w])
    BY <2>1, ActorEffects, <1>1
  <2>5. st[s].runtimeChanging => st[s].op # w
    BY <2>1, <2>4 DEF LeaseInv, ChangingOwned, OpPcs
  <2>6. PICK p1 \in {act[w], p} : Become(w, p1)
    BY <1>8, <2>1 DEF StartAlwaysOn, Become, Typed, ActOK
  <2> HIDE DEF p
  <2>7. MoveOK(w, s, p1, st[s]) /\ CountOK(w, s, p1, st[s])
    BY <2>1, <2>3, <2>4, <2>5, <2>6 DEF MoveOK, CountOK, OpPcs
  <2> QED BY <2>1, <2>2, <2>6, <2>7, ActorStep
<1>9. ASSUME NEW s \in Servers, IdleFire(s) \/ IdleDrop(s) \/ IdleEarly(s) PROVE LeaseInv'
  <2>1. SameBut([st[s] EXCEPT !.idle = "fired"], st[s])
    BY <1>1 DEF SameBut, Kept, serverState
  <2>2. PICK q \in {[st[s] EXCEPT !.idle = "fired"], cancelIdleLocked(st[s]),
                    scheduleIdleLocked(st[s])} :
            st' = [st EXCEPT ![s] = q]
    BY <1>9 DEF IdleFire, IdleDrop, IdleEarly
  <2>3. SameBut(q, st[s])
    BY <1>1, <2>1, <2>2, IdleHelpers
  <2>4. UNCHANGED <<sess, act, background>>
    BY <1>9 DEF IdleFire, IdleDrop, IdleEarly
  <2>5. \A t \in Servers : ServerOK(t)
    BY <2>2, <2>3, RecordStep DEF SameBut, Kept
  <2> QED
    BY <1>2, <1>3, <1>4, <2>2, <2>3, <2>4, <2>5, SessLess, QuietStep DEF SameBut, Kept
<1>10. ASSUME NEW s \in Servers, idleStop(s) PROVE LeaseInv'
  <2> DEFINE q == [Detach(st[s]) EXCEPT !.runtimeChanging = TRUE, !.op = "idle"]
  <2>1. /\ q.registered = st[s].registered /\ q.deleted = st[s].deleted
        /\ q.op = "idle" /\ q.active = st[s].active /\ q.mutating = st[s].mutating
    BY <1>1, IdleHelpers DEF SameBut, Kept, serverState
  <2>2. st' = [st EXCEPT ![s] = q] /\ st[s].op = Free
        /\ UNCHANGED <<sess, act, booting, mut, pending>>
    BY <1>10 DEF idleStop, afterHeld
  <2> HIDE DEF q
  <2>3. \A t \in Servers : ServerOK(t)
    BY <1>1, <2>1, <2>2, RecordStep
  <2> QED BY <1>3, <1>4, <2>1, <2>2, <2>3, SessLess, QuietStep
<1>11. ASSUME NEW s \in Servers, IdleFinish(s) PROVE LeaseInv'
  <2> DEFINE q == [st[s] EXCEPT !.runtimeChanging = FALSE, !.op = Free]
  <2>1. /\ q.registered = st[s].registered /\ q.deleted = st[s].deleted
        /\ q.op = Free /\ ~q.runtimeChanging /\ q.active = st[s].active
        /\ q.mutating = st[s].mutating
    BY <1>1 DEF serverState
  <2>2. st' = [st EXCEPT ![s] = q] /\ st[s].op = "idle"
        /\ UNCHANGED <<act, booting, mut, pending>>
        /\ (sess' = sess \/ sess' = closeRuntime(held[s]))
    BY <1>11 DEF IdleFinish, CloseHeld, afterHeld
  <2> HIDE DEF q
  <2>3. \A t \in Servers : ServerOK(t)
    BY <1>1, <2>1, <2>2, RecordStep
  <2>4. Free # "commit"
    BY DEF Free
  <2> QED BY <1>3, <1>4, <2>1, <2>2, <2>3, <2>4, SessLess, QuietStep
<1> QED
  BY <1>5, <1>6, <1>7, <1>8, <1>9, <1>10, <1>11 DEF Background

\* A step of the mutation itself.
LEMMA MutationStep ==
    ASSUME Typed, LeaseInv, Spawned, \A t \in Servers : ServerOK(t),
           \A t \in Servers : Known(t) => Known(t)',
           UNCHANGED booting,
           \A t \in mut'.claimed \cup mut'.fresh : Known(t)',
           pending' # NoPending => \A t \in pending' : Known(t)',
           \A x \in Sessions : InBeing(sess'[x]) =>
               InBeing(sess[x]) /\ sess'[x].srv = sess[x].srv,
           CommitOwned'
    PROVE  LeaseInv'
<1>1. KnownOnly'
  BY KnownServerStep
<1> QED BY <1>1, ServerStep DEF LeaseInv

\* Dropping a reservation changes nothing else.
LEMMA UnclaimEffect ==
    ASSUME NEW r \in serverState, NEW q, q = r \/ q = [r EXCEPT !.mutating = FALSE]
    PROVE  /\ q.op = r.op /\ q.active = r.active
           /\ q.runtimeChanging = r.runtimeChanging
           /\ q.registered = r.registered /\ q.deleted = r.deleted
           /\ q.mutating => r.mutating
BY DEF serverState

\* SaveServers and the three server-mutation calls.
LEMMA MutationLeases ==
    ASSUME Typed, LeaseInv, Mutation
    PROVE  LeaseInv'
<1>1. /\ \A s \in Servers : st[s] \in serverState
      /\ st \in [Servers -> serverState]
      /\ Free \notin Actors /\ {"idle", "close", "commit"} \cap Actors = {}
      /\ mut \in Mutator /\ (pending # NoPending => pending \subseteq Servers)
      /\ mut.claimed \subseteq Servers /\ mut.fresh \subseteq Servers
  BY ConstantsAssumption DEF Typed, StOK, RestOK, Actors, Free, Mutator
<1>2. /\ \A t \in mut.claimed \cup mut.fresh : Known(t)
      /\ pending # NoPending => \A t \in pending : Known(t)
      /\ CommitOwned
  BY DEF LeaseInv, KnownOnly
<1>3. UNCHANGED act => Spawned
  BY DEF Spawned
<1>4. UNCHANGED sess => \A x \in Sessions : InBeing(sess'[x]) =>
                           InBeing(sess[x]) /\ sess'[x].srv = sess[x].srv
  OBVIOUS
<1>5. UNCHANGED st => /\ \A t \in Servers : ServerOK(t) /\ (Known(t) => Known(t)')
                      /\ \A t : Known(t)' <=> Known(t)
  BY DEF ServerOK, Known
<1>6. UNCHANGED unmoved => UNCHANGED <<act, booting>>
  BY DEF unmoved
\* Steps that only move the mutation on.
<1>7. ASSUME UNCHANGED <<st, sess, unmoved>>, CommitOwned',
             mut'.claimed \subseteq mut.claimed, mut'.fresh \subseteq mut.fresh,
             pending' \in {pending, mut.claimed}
      PROVE  LeaseInv'
  BY <1>2, <1>3, <1>4, <1>5, <1>6, <1>7, MutationStep
<1>8. ASSUME NEW next \in Configs, SaveServers(next) PROVE LeaseInv'
  <2>1. /\ mut'.claimed = mut.claimed /\ mut'.fresh = mut.fresh
        /\ mut'.next = next /\ mut'.pc = "prepare"
    BY <1>1, <1>8 DEF SaveServers, Mutator
  <2>2. CommitOwned'
    BY <1>2, <1>8, <2>1 DEF SaveServers, CommitOwned
  <2> QED BY <1>7, <1>8, <2>1, <2>2 DEF SaveServers
<1>9. CASE PrepareBegin
  <2>1. /\ mut'.claimed = mut.claimed /\ mut'.fresh = mut.fresh
        /\ mut'.next = mut.next /\ mut'.pc = "claim"
    BY <1>1, <1>9 DEF PrepareBegin, Mutator
  <2>2. CommitOwned'
    BY <1>2, <1>9, <2>1 DEF PrepareBegin, CommitOwned
  <2> QED BY <1>7, <1>9, <2>1, <2>2 DEF PrepareBegin
<1>10. CASE PrepareDone
  <2>1. /\ mut'.claimed = {} /\ mut'.fresh = mut.fresh
        /\ mut'.next = mut.next /\ mut'.pc = "prepared"
    BY <1>1, <1>10 DEF PrepareDone, Mutator
  <2>2. CommitOwned'
    BY <1>2, <1>10, <2>1 DEF PrepareDone, CommitOwned
  <2> QED BY <1>7, <1>10, <2>1, <2>2 DEF PrepareDone
<1>11. CASE ReconcileOK \/ ReconcileFail
  <2>1. mut'.claimed = mut.claimed /\ mut'.fresh = mut.fresh /\ mut'.pc = "idle"
        /\ mut.claimed = {}
    BY <1>1, <1>11 DEF ReconcileOK, ReconcileFail, Committed, Mutator
  <2>2. UNCHANGED <<st, sess, pending, unmoved>>
    BY <1>11 DEF ReconcileOK, ReconcileFail
  <2>3. CommitOwned'
    BY <1>2, <2>1, <2>2 DEF CommitOwned
  <2> QED BY <1>7, <2>1, <2>2, <2>3
\* Reservations are dropped.
<1>12. ASSUME NEW S, st' = Unclaim(S)
       PROVE  /\ \A t \in Servers : ServerOK(t) /\ (Known(t) <=> Known(t)')
              /\ \A t \in Servers : st'[t].op = st[t].op /\ st'[t].deleted = st[t].deleted
  <2>1. \A t \in Servers : st'[t] = st[t] \/ st'[t] = [st[t] EXCEPT !.mutating = FALSE]
    BY <1>12 DEF Unclaim
  <2>2. \A t \in Servers :
            /\ st'[t].op = st[t].op /\ st'[t].active = st[t].active
            /\ st'[t].runtimeChanging = st[t].runtimeChanging
            /\ st'[t].registered = st[t].registered /\ st'[t].deleted = st[t].deleted
            /\ st'[t].mutating => st[t].mutating
    BY <1>1, <2>1, UnclaimEffect
  <2> QED BY <2>2 DEF ServerOK, Known
<1>13. CASE PersistFail
  <2>1. mut'.claimed = mut.claimed /\ mut'.fresh = mut.fresh /\ mut'.pc = "idle"
        /\ mut.pc = "prepared" /\ pending' = NoPending /\ UNCHANGED <<sess, unmoved>>
    BY <1>1, <1>13 DEF PersistFail, Mutator
  <2>2. st' = st \/ st' = Unclaim(pending)
    BY <1>13 DEF PersistFail
  <2>3. \A t \in Servers : /\ ServerOK(t) /\ (Known(t) <=> Known(t)')
                           /\ st'[t].op = st[t].op
    BY <1>5, <1>12, <2>2
  <2>4. CommitOwned'
    BY <1>2, <2>1, <2>3 DEF CommitOwned
  <2> QED BY <1>1, <1>2, <1>3, <1>4, <1>6, <2>1, <2>3, <2>4, MutationStep
<1>14. ASSUME NEW s \in Servers, PrepareBusy(s) PROVE LeaseInv'
  <2>1. mut'.claimed = {} /\ mut'.fresh = mut.fresh /\ mut'.pc = "idle"
        /\ mut.pc = "claim" /\ UNCHANGED <<sess, pending, unmoved>>
    BY <1>1, <1>14 DEF PrepareBusy, Mutator
  <2>2. \A t \in Servers : /\ ServerOK(t) /\ (Known(t) <=> Known(t)')
                           /\ st'[t].op = st[t].op
    BY <1>12, <1>14 DEF PrepareBusy
  <2>3. CommitOwned'
    BY <1>2, <2>1, <2>2 DEF CommitOwned
  <2> QED BY <1>1, <1>2, <1>3, <1>4, <1>6, <2>1, <2>2, <2>3, MutationStep
<1>15. ASSUME NEW s \in Servers, PrepareClaim(s) PROVE LeaseInv'
  <2>1. /\ mut'.fresh = mut.fresh /\ mut'.pc = "claim" /\ mut.pc = "claim"
        /\ mut'.next = mut.next /\ UNCHANGED <<sess, pending, unmoved>>
        /\ mut'.claimed \subseteq mut.claimed \cup {s}
        /\ s \in mut'.claimed \ mut.claimed => Known(s)
    BY <1>1, <1>15 DEF PrepareClaim, Mutator, Known
  <2>2. \A t \in Servers :
            /\ st'[t].op = st[t].op /\ st'[t].active = st[t].active
            /\ st'[t].runtimeChanging = st[t].runtimeChanging
            /\ st'[t].registered = st[t].registered /\ st'[t].deleted = st[t].deleted
    BY <1>1, <1>15 DEF PrepareClaim, serverState
  <2>3. \A t \in Servers : st'[t].mutating => st[t].mutating \/ st[t].active = 0
    BY <1>1, <1>15 DEF PrepareClaim, serverState, Busy
  <2>4. \A t \in Servers : ServerOK(t) /\ (Known(t) <=> Known(t)')
    BY <2>2, <2>3 DEF ServerOK, Known
  <2>5. CommitOwned'
    BY <1>2, <2>1, <2>2 DEF CommitOwned
  <2>6. \A t \in mut'.claimed \cup mut'.fresh : Known(t)'
    BY <1>1, <1>2, <2>1, <2>4
  <2>7. pending' # NoPending => \A t \in pending' : Known(t)'
    BY <1>1, <1>2, <2>1, <2>4
  <2> QED BY <1>3, <1>4, <1>6, <2>1, <2>4, <2>5, <2>6, <2>7, MutationStep
<1>16. CASE CommitBegin
  <2> DEFINE fresh == {s \in Servers : mut.next[s] # Absent /\ ~st[s].registered}
  <2>1. /\ mut.pc = "prepared" /\ mut'.pc = "commit" /\ mut'.next = mut.next
        /\ mut'.claimed = (IF pending = NoPending THEN {} ELSE pending)
        /\ mut'.fresh \subseteq fresh
        /\ pending' = NoPending /\ UNCHANGED <<sess, unmoved>>
    BY <1>1, <1>16 DEF CommitBegin, Mutator
  <2>2. \A t \in Servers : st'[t] = IF t \in fresh THEN newServerState(mut.next[t])
                                                   ELSE st[t]
    BY <1>16 DEF CommitBegin
  <2>3. \A t \in fresh : ~Known(t)
    BY <1>2, <2>1 DEF CommitOwned, Known
  <2>4. \A t \in fresh : /\ st'[t].op = Free /\ ~st'[t].runtimeChanging
                         /\ st'[t].active = 0 /\ ~st'[t].mutating
                         /\ ~st'[t].deleted /\ st'[t].registered
    <3>1. ASSUME NEW e, e # Absent
          PROVE  LET n == newServerState(e)
                 IN  /\ n.op = Free /\ ~n.runtimeChanging /\ n.active = 0
                     /\ ~n.mutating /\ ~n.deleted /\ n.registered
      BY <3>1 DEF newServerState
    <3>2. \A t \in fresh : mut.next[t] # Absent /\ st'[t] = newServerState(mut.next[t])
      BY <2>2
    <3> HIDE DEF fresh
    <3> QED BY <3>1, <3>2
  <2>5. \A t \in Servers : ServerOK(t) /\ (Known(t) => Known(t)')
    BY <2>2, <2>3, <2>4 DEF ServerOK, Known
  <2>6. \A t \in mut'.claimed \cup mut'.fresh : Known(t)'
    BY <1>1, <1>2, <2>1, <2>4, <2>5 DEF Known
  <2>7. CommitOwned'
    <3>1. Free # "commit"
      BY DEF Free
    <3> QED BY <1>2, <2>1, <2>2, <2>4, <3>1 DEF CommitOwned
  <2> QED BY <1>3, <1>4, <1>6, <2>1, <2>5, <2>6, <2>7, MutationStep
<1>17. ASSUME NEW s \in Servers, CommitKeep(s) PROVE LeaseInv'
  <2>1. /\ mut'.claimed = mut.claimed /\ mut'.fresh = mut.fresh /\ mut'.pc = mut.pc
        /\ mut'.next = mut.next /\ UNCHANGED <<sess, pending, unmoved>>
    BY <1>1, <1>17 DEF CommitKeep, Mutator
  <2>2. \A t \in Servers :
            /\ st'[t].op = st[t].op /\ st'[t].active = st[t].active
            /\ st'[t].runtimeChanging = st[t].runtimeChanging
            /\ st'[t].registered = st[t].registered /\ st'[t].deleted = st[t].deleted
            /\ st'[t].mutating = st[t].mutating
    BY <1>1, <1>17 DEF CommitKeep, serverState
  <2>3. \A t \in Servers : ServerOK(t) /\ (Known(t) <=> Known(t)')
    BY <2>2 DEF ServerOK, Known
  <2>4. CommitOwned'
    BY <1>2, <2>1, <2>2 DEF CommitOwned
  <2> QED BY <1>1, <1>2, <1>3, <1>4, <1>6, <2>1, <2>3, <2>4, MutationStep
<1>18. ASSUME NEW s \in Servers, CommitDetach(s) PROVE LeaseInv'
  <2>1. /\ mut'.claimed = mut.claimed /\ mut'.fresh = mut.fresh /\ mut'.pc = "commit"
        /\ mut'.next = mut.next /\ UNCHANGED <<sess, act, pending, booting>>
        /\ s \in mut.claimed /\ mut.pc = "commit" /\ st[s].op = Free
    BY <1>1, <1>18 DEF CommitDetach, Mutator
  <2> DEFINE r == Detach(st[s])
             q == [r EXCEPT !.op = "commit", !.runtimeChanging = (st[s].session # NoSession),
                            !.deleted = (mut.next[s] = Absent),
                            !.entry = IF mut.next[s] = Absent THEN st[s].entry
                                                              ELSE mut.next[s]]
  <2>2. SameBut(r, st[s])
    BY <1>1, IdleHelpers
  <2>3. /\ q.op = "commit" /\ q.active = st[s].active /\ q.mutating = st[s].mutating
        /\ q.registered = st[s].registered /\ (q.deleted <=> mut.next[s] = Absent)
    BY <2>2 DEF SameBut, Kept, serverState
  <2>4. st' = [st EXCEPT ![s] = q]
    BY <1>18 DEF CommitDetach
  <2> HIDE DEF q
  <2>5. \A t \in Servers : ServerOK(t)
    BY <1>1, <2>1, <2>3, <2>4, RecordStep
  <2>6. \A t \in Servers : st'[t] = IF t = s THEN q ELSE st[t]
    BY <1>1, <2>4
  <2>7. st[s].deleted => mut.next[s] = Absent
    BY <1>2, <2>1 DEF CommitOwned
  <2>8. \A t \in Servers : Known(t) => Known(t)'
    BY <2>3, <2>6, <2>7 DEF Known
  <2>9. CommitOwned'
    BY <1>2, <2>1, <2>3, <2>6 DEF CommitOwned
  <2>10. \A t \in mut'.claimed \cup mut'.fresh : Known(t)'
    BY <1>1, <1>2, <2>1, <2>8
  <2>11. pending' # NoPending => \A t \in pending' : Known(t)'
    BY <1>1, <1>2, <2>1, <2>8
  <2> QED BY <1>3, <1>4, <2>1, <2>5, <2>8, <2>9, <2>10, <2>11, MutationStep
<1>19. ASSUME NEW s \in Servers, CommitFinish(s) PROVE LeaseInv'
  <2> DEFINE r == [st[s] EXCEPT !.mutating = FALSE, !.registered = (mut.next[s] # Absent)]
             q == [r EXCEPT !.runtimeChanging = FALSE, !.op = Free]
  <2>1. /\ mut'.claimed = mut.claimed \ {s} /\ mut'.fresh = mut.fresh /\ mut'.pc = mut.pc
        /\ mut'.next = mut.next /\ UNCHANGED <<pending, booting>>
        /\ st[s].op = "commit" /\ (sess' = sess \/ sess' = closeRuntime(held[s]))
    BY <1>1, <1>19 DEF CommitFinish, CloseHeld, Mutator
  <2>2. st' = [st EXCEPT ![s] = q]
    BY <1>19 DEF CommitFinish, CloseHeld
  <2>3. /\ q.op = Free /\ ~q.runtimeChanging /\ ~q.mutating /\ q.active = st[s].active
        /\ (q.registered <=> mut.next[s] # Absent) /\ q.deleted = st[s].deleted
    BY <1>1 DEF serverState
  <2> HIDE DEF q
  <2>4. \A t \in Servers : ServerOK(t)
    BY <1>1, <2>1, <2>2, <2>3, RecordStep
  <2>5. \A t \in Servers : st'[t] = IF t = s THEN q ELSE st[t]
    BY <1>1, <2>2
  <2>6. \A t \in Servers : Known(t) => Known(t)'
    BY <1>2, <2>1, <2>3, <2>5 DEF Known, CommitOwned
  <2>7. Spawned
    <3>1. Known(s)
      BY <1>2, <2>1 DEF CommitOwned
    <3> QED BY <1>19, <3>1, SpawnedBy DEF CommitFinish
  <2>8. CommitOwned'
    <3>1. Free # "commit"
      BY DEF Free
    <3> QED BY <1>2, <2>1, <2>3, <2>5, <3>1 DEF CommitOwned
  <2>9. \A t \in mut'.claimed \cup mut'.fresh : Known(t)'
    BY <1>1, <1>2, <2>1, <2>6
  <2>10. pending' # NoPending => \A t \in pending' : Known(t)'
    BY <1>1, <1>2, <2>1, <2>6
  <2>11. \A x \in Sessions : InBeing(sess'[x]) =>
             InBeing(sess[x]) /\ sess'[x].srv = sess[x].srv
    BY <2>1, SessLess
  <2> QED BY <2>1, <2>4, <2>6, <2>7, <2>8, <2>9, <2>10, <2>11, MutationStep
<1>20. ASSUME NEW s \in Servers, CommitStartNew(s) PROVE LeaseInv'
  <2>1. /\ mut'.claimed = mut.claimed /\ mut'.fresh \subseteq mut.fresh
        /\ mut'.pc = mut.pc /\ mut'.next = mut.next
        /\ UNCHANGED <<st, sess, pending, booting>> /\ Known(s)
    BY <1>1, <1>2, <1>20 DEF CommitStartNew, Mutator
  <2>2. Spawned
    BY <1>20, <2>1, SpawnedBy DEF CommitStartNew
  <2>3. CommitOwned'
    BY <1>2, <2>1 DEF CommitOwned
  <2> QED BY <1>2, <1>4, <1>5, <2>1, <2>2, <2>3, MutationStep
<1> QED
  BY <1>8, <1>9, <1>10, <1>11, <1>13, <1>14, <1>15, <1>16, <1>17, <1>18, <1>19, <1>20
  DEF Mutation

\* V2App.Close and Service.Close.
LEMMA ShutdownLeases ==
    ASSUME Typed, LeaseInv, Shutdown
    PROVE  LeaseInv'
<1>1. /\ \A s \in Servers : st[s] \in serverState
      /\ st \in [Servers -> serverState]
      /\ Free \notin Actors /\ {"idle", "close", "commit"} \cap Actors = {}
      /\ Free # "commit"
  BY ConstantsAssumption DEF Typed, StOK, Actors, Free
<1>2. UNCHANGED act => Spawned
  BY DEF Spawned
<1>3. CASE AppCancel \/ CloseBegin \/ CloseDone
  <2>1. UNCHANGED <<st, sess, act, booting, mut, pending>>
    BY <1>3 DEF AppCancel, CloseBegin, CloseDone
  <2>2. \A t \in Servers : ServerOK(t)
    BY <2>1 DEF ServerOK
  <2> QED BY <1>2, <2>1, <2>2, SessLess, QuietStep
<1>4. CASE CloseAbort
  <2>1. UNCHANGED <<sess, act, booting, mut>> /\ pending' = NoPending
        /\ (st' = st \/ st' = Unclaim(pending))
    BY <1>4 DEF CloseAbort
  <2>2. \A t \in Servers : st'[t] = st[t] \/ st'[t] = [st[t] EXCEPT !.mutating = FALSE]
    BY <2>1 DEF Unclaim
  <2>3. \A t \in Servers :
            /\ st'[t].op = st[t].op /\ st'[t].active = st[t].active
            /\ st'[t].runtimeChanging = st[t].runtimeChanging
            /\ st'[t].registered = st[t].registered /\ st'[t].deleted = st[t].deleted
            /\ st'[t].mutating => st[t].mutating
    BY <1>1, <2>2, UnclaimEffect
  <2>4. \A t \in Servers : ServerOK(t)
    BY <2>3 DEF ServerOK
  <2> QED BY <1>2, <2>1, <2>3, <2>4, SessLess, QuietStep
<1>5. ASSUME NEW s \in Servers, NEW q, st' = [st EXCEPT ![s] = q],
             q.registered = st[s].registered, q.deleted = st[s].deleted,
             q.op # "commit"
      PROVE  \A t \in Servers : /\ st'[t].registered = st[t].registered
                                /\ st'[t].deleted = st[t].deleted
                                /\ st'[t].op = "commit" => st[t].op = "commit"
  BY <1>1, <1>5
<1>6. ASSUME NEW s \in Servers, CloseDetach(s) PROVE LeaseInv'
  <2> DEFINE q == [Detach(st[s]) EXCEPT !.op = "close",
                                        !.runtimeChanging = (st[s].session # NoSession)]
  <2>1. /\ q.registered = st[s].registered /\ q.deleted = st[s].deleted
        /\ q.op = "close" /\ q.active = st[s].active /\ q.mutating = st[s].mutating
    BY <1>1, IdleHelpers DEF SameBut, Kept, serverState
  <2>2. st' = [st EXCEPT ![s] = q] /\ st[s].op = Free
        /\ UNCHANGED <<sess, act, booting, mut, pending>>
    BY <1>6 DEF CloseDetach
  <2> HIDE DEF q
  <2>3. \A t \in Servers : ServerOK(t)
    BY <1>1, <2>1, <2>2, RecordStep
  <2> QED BY <1>2, <1>5, <2>1, <2>2, <2>3, SessLess, QuietStep
<1>7. ASSUME NEW s \in Servers, CloseFinish(s) PROVE LeaseInv'
  <2> DEFINE q == [st[s] EXCEPT !.runtimeChanging = FALSE, !.op = Free]
  <2>1. /\ q.registered = st[s].registered /\ q.deleted = st[s].deleted
        /\ q.op = Free /\ ~q.runtimeChanging /\ q.active = st[s].active
        /\ q.mutating = st[s].mutating
    BY <1>1 DEF serverState
  <2>2. st' = [st EXCEPT ![s] = q] /\ st[s].op = "close"
        /\ UNCHANGED <<act, booting, mut, pending>>
        /\ (sess' = sess \/ sess' = closeRuntime(held[s]))
    BY <1>7 DEF CloseFinish, CloseHeld
  <2> HIDE DEF q
  <2>3. \A t \in Servers : ServerOK(t)
    BY <1>1, <2>1, <2>2, RecordStep
  <2> QED BY <1>1, <1>2, <1>5, <2>1, <2>2, <2>3, SessLess, QuietStep
<1> QED BY <1>3, <1>4, <1>6, <1>7 DEF Shutdown

\* Nobody uses anything at the start.
LEMMA LeaseInit == Init => LeaseInv
<1> SUFFICES ASSUME Init PROVE LeaseInv
  OBVIOUS
<1>1. \A s \in Servers : /\ st[s].op = Free /\ st[s].active = 0 /\ ~st[s].mutating
                         /\ ~st[s].runtimeChanging /\ ~st[s].deleted
                         /\ (st[s].registered <=> Boot[s] # Absent)
  BY DEF Init, newServerState
<1>2. \A a \in Actors : act[a].pc = "idle" /\ act[a].job = "none" /\ act[a].timer = "none"
  BY DEF Init, Idle
<1>3. \A x \in Sessions : sess[x].status = "free" /\ sess[x].reap = "no"
  BY DEF Init, NoRuntime
<1>4. \A s \in booting : Known(s)
  BY <1>1 DEF Init, Absent, Known
<1>5. \A s \in Servers : Users(s) = {}
  BY <1>2 DEF Users, Uses, UseJobs, Actors
<1>6. OpHeld /\ ChangingOwned
  BY <1>1, <1>2 DEF OpHeld, ChangingOwned, OpPcs
<1>7. LeaseShape
  BY <1>2 DEF LeaseShape, Actors
<1>8. KnownOnly
  BY <1>2, <1>3, <1>4 DEF KnownOnly, Init
<1>9. CommitOwned
  BY <1>1 DEF CommitOwned, Init, Free
<1>10. LeaseAccounting /\ MutationExcludesUse
  BY <1>1, <1>5, FS_EmptySet DEF LeaseAccounting, MutationExcludesUse
<1> QED BY <1>6, <1>7, <1>8, <1>9, <1>10 DEF LeaseInv

\* Every action keeps the invariant.
LEMMA LeaseInvariant == Typed /\ LeaseInv /\ [Next]_vars => LeaseInv'
<1> SUFFICES ASSUME Typed, LeaseInv, [Next]_vars PROVE LeaseInv'
  OBVIOUS
<1>1. CASE UNCHANGED vars
  <2>1. UNCHANGED <<st, sess, act, booting, mut, pending>>
    BY <1>1 DEF vars
  <2>2. Spawned /\ \A t \in Servers : ServerOK(t)
    BY <2>1 DEF Spawned, ServerOK
  <2> QED BY <2>1, <2>2, SessLess, QuietStep
<1>2. CASE Terminated
  BY <1>1, <1>2 DEF Terminated
<1>3. ASSUME NEW a \in Actors, Operation(a) PROVE LeaseInv'
  BY <1>3, EnterLeases, HoldLeases DEF Operation, Enter
<1>4. ASSUME NEW a \in Actors, NEW x \in Sessions, ConnectOK(a, x) PROVE LeaseInv'
  BY <1>4, HoldLeases
<1> QED
  BY <1>1, <1>2, <1>3, <1>4, CallerLeases, BackgroundLeases, MutationLeases,
     ShutdownLeases
  DEF Next

\* Typed and LeaseInv together hold in every reachable state.
LEMMA LeasesHold == Spec => [](Typed /\ LeaseInv)
BY TypeInit, TypeInvariant, LeaseInit, LeaseInvariant, PTL DEF Spec

\* active_call_count is exact: however acquisitions fail, leases are released twice,
\* task leases expire and servers are edited, deleted and shut down around them, it
\* is the number of goroutines that use the server.
THEOREM LeasesAreCounted == Spec => []LeaseAccounting
<1>1. LeaseInv => LeaseAccounting
  BY DEF LeaseInv
<1> QED BY <1>1, LeasesHold, PTL

\* While PrepareServerMutation or CommitServerMutation has a server reserved, nobody
\* uses it, so a commit takes the runtime away from nobody.
THEOREM MutationsExcludeUse == Spec => []MutationExcludesUse
<1>1. LeaseInv => MutationExcludesUse
  BY DEF LeaseInv
<1> QED BY <1>1, LeasesHold, PTL

\* No path through an operation, a failing one included, leaves runtimeChanging up
\* after it returned op: a server cannot become busy for ever.
THEOREM ChangingNeedsOp == Spec => []ChangingIsHeld
<1>1. LeaseInv => ChangingIsHeld
  BY DEF LeaseInv, ChangingOwned, ChangingIsHeld
<1> QED BY <1>1, LeasesHold, PTL

-----------------------------------------------------------------------------
(* Runtimes. Whoever holds op of a server has its runtime, if there is one:  *)
(* the goroutine of an operation in x, an idle stop, a commit or Close in    *)
(* held; while op is free it is the session.                                 *)

Bg == {"idle", "commit", "close"}

\* x is a runtime of s that is not closed yet and that no watcher has taken.
Of(x, s) == sess[x].status # "free" /\ sess[x].srv = s /\ sess[x].reap = "no"

ServerOwns(s) ==
    /\ st[s].op # Free => st[s].session = NoSession
    /\ held[s] # NoSession => st[s].op \in Bg /\ Of(held[s], s)
    /\ st[s].session # NoSession => Of(st[s].session, s)

ActorOwns(a) ==
    act[a].pc \in OpPcs =>
        /\ (act[a].pc = "connect" <=> act[a].x = NoSession)
        /\ act[a].x # NoSession => Of(act[a].x, act[a].srv)

Own ==
    /\ \A s \in Servers : ServerOwns(s)
    /\ \A a \in Actors : ActorOwns(a)
    /\ NoOrphanRuntime

\* What the helpers do to the session.
LEMMA SessionHelpers ==
    ASSUME NEW r \in serverState
    PROVE  /\ cancelIdleLocked(r).session = r.session
           /\ scheduleIdleLocked(r).session = r.session
           /\ Detach(r).session = NoSession
           /\ Unuse(r).session = r.session
           /\ releaseLocked(r).session = r.session
<1>1. cancelIdleLocked(r).session = r.session
  BY DEF cancelIdleLocked, serverState
<1>2. ASSUME NEW q \in serverState PROVE scheduleIdleLocked(q).session = q.session
  BY DEF scheduleIdleLocked, cancelIdleLocked, serverState
<1>3. Detach(r).session = NoSession
  BY DEF Detach, cancelIdleLocked, serverState
<1>4. Unuse(r).session = r.session /\ Unuse(r) \in serverState
  BY LessEffect DEF Unuse, serverState, Less, Kept
<1>5. releaseLocked(r) = Unuse(r) \/ releaseLocked(r) = scheduleIdleLocked(Unuse(r))
  BY DEF releaseLocked, Unuse
<1> QED BY <1>1, <1>2, <1>3, <1>4, <1>5

\* What the type invariant says of one server, goroutine and runtime.
LEMMA TypedFields ==
    ASSUME Typed
    PROVE  /\ \A s \in Servers : /\ st[s] \in serverState /\ st[s].session \in Sessions \cup {NoSession}
                                 /\ held[s] \in Sessions \cup {NoSession}
           /\ \A a \in Actors : /\ act[a] \in ActorState /\ act[a].x \in Sessions \cup {NoSession}
                                /\ act[a].pc # "idle" => act[a].srv \in Servers
           /\ \A x \in Sessions : sess[x] \in Runtime /\ (Live(x) => sess[x].srv \in Servers)
<1>1. \A s \in Servers : st[s] \in serverState /\ held[s] \in Sessions \cup {NoSession}
  BY DEF Typed, StOK, RestOK
<1>2. \A a \in Actors : act[a] \in ActorState /\ (act[a].pc # "idle" => act[a].srv \in Servers)
  BY DEF Typed, ActOK, ActorOK
<1>3. \A x \in Sessions : sess[x] \in Runtime /\ (Live(x) => sess[x].srv \in Servers)
  BY DEF Typed, SessOK, RuntimeOK, Live
<1>4. \A s \in Servers : st[s].session \in Sessions \cup {NoSession}
  BY <1>1 DEF serverState
<1>5. \A a \in Actors : act[a].x \in Sessions \cup {NoSession}
  BY <1>2 DEF ActorState
<1> QED BY <1>1, <1>2, <1>3, <1>4, <1>5

\* The names of the owners of op are distinct.
LEMMA OwnerNames ==
    /\ Free \notin Actors \cup Bg /\ Actors \cap Bg = {} /\ NoSession \notin Sessions
    /\ "connect" \in OpPcs /\ {"wait", "idle", "leased", "check", "done"} \cap OpPcs = {}
BY ConstantsAssumption DEF Actors, Bg, Free, OpPcs

\* A runtime in one place is in no other.
LEMMA OneHolder ==
    ASSUME Typed, OpHeld, Own
    PROVE  /\ \A s, t \in Servers : st[s].session # NoSession =>
                /\ st[s].session # held[t]
                /\ st[t].session = st[s].session => s = t
           /\ \A s, t \in Servers : held[s] # NoSession /\ held[t] = held[s] => s = t
           /\ \A a \in Actors : act[a].pc \in OpPcs /\ act[a].x # NoSession =>
                /\ \A s \in Servers : act[a].x \notin {st[s].session, held[s]}
                /\ \A b \in Actors \ {a} : act[b].pc \in OpPcs => act[b].x # act[a].x
<1>1. \A s, t \in Servers : st[s].session # NoSession =>
        /\ st[s].session # held[t]
        /\ st[t].session = st[s].session => s = t
  BY OwnerNames DEF Own, ServerOwns, Of
<1>2. \A s, t \in Servers : held[s] # NoSession /\ held[t] = held[s] => s = t
  BY DEF Own, ServerOwns, Of
<1>3. ASSUME NEW a \in Actors, act[a].pc \in OpPcs, act[a].x # NoSession
      PROVE  /\ \A s \in Servers : act[a].x \notin {st[s].session, held[s]}
             /\ \A b \in Actors \ {a} : act[b].pc \in OpPcs => act[b].x # act[a].x
  <2>1. Of(act[a].x, act[a].srv) /\ st[act[a].srv].op = a
    BY <1>3 DEF Own, ActorOwns, OpHeld
  <2>2. a # Free /\ a \notin Bg
    BY OwnerNames
  <2>3. \A s \in Servers : act[a].x \notin {st[s].session, held[s]}
    BY <1>3, <2>1, <2>2 DEF Own, ServerOwns, Of
  <2>4. \A b \in Actors \ {a} : act[b].pc \in OpPcs => act[b].x # act[a].x
    BY <1>3, <2>1 DEF Own, ActorOwns, Of, OpHeld
  <2> QED BY <2>3, <2>4
<1> QED BY <1>1, <1>2, <1>3

\* No runtime changes hands.
LEMMA OwnQuiet ==
    ASSUME Typed, Own, held' = held,
           \A x \in Sessions :
               /\ sess'[x].status = "live" => sess[x].status = "live"
               /\ sess[x].status # "free" => sess'[x].status # "free"
               /\ sess'[x].srv = sess[x].srv /\ sess'[x].reap = sess[x].reap,
           \A s \in Servers :
               \/ st'[s].session = st[s].session /\ st'[s].op = st[s].op
               \/ /\ st'[s].session = NoSession /\ st'[s].op = Free
                  /\ st[s].session = NoSession /\ held[s] = NoSession,
           \A b \in Actors : act[b].pc \in OpPcs \/ act'[b].pc \in OpPcs => act'[b] = act[b]
    PROVE  Own'
<1> USE TypedFields, OwnerNames
<1>1. \A x \in Sessions, s \in Servers :
        sess[x].status # "free" /\ sess[x].srv = s /\ sess[x].reap = "no" =>
        sess'[x].status # "free" /\ sess'[x].srv = s /\ sess'[x].reap = "no"
  OBVIOUS
<1>2. \A s \in Servers : ServerOwns(s)'
  BY <1>1 DEF Own, ServerOwns, Of
<1>3. \A a \in Actors : ActorOwns(a)'
  <2> TAKE a \in Actors
  <2>1. CASE act'[a].pc \in OpPcs
    <3>1. act'[a] = act[a] /\ act[a].pc \in OpPcs /\ act[a].srv \in Servers /\ ActorOwns(a)
      BY <2>1 DEF Own
    <3> QED BY <1>1, <3>1 DEF ActorOwns, Of
  <2> QED BY <2>1 DEF ActorOwns
<1>4. NoOrphanRuntime'
  <2> SUFFICES ASSUME NEW x \in Sessions, sess'[x].status = "live"
               PROVE  \/ st'[sess'[x].srv].session = x
                      \/ held'[sess'[x].srv] = x
                      \/ \E a \in Actors : act'[a].pc \in OpPcs /\ act'[a].x = x
    BY DEF NoOrphanRuntime, Live
  <2>1. Live(x) /\ sess'[x].srv = sess[x].srv /\ sess[x].srv \in Servers
    BY DEF Live
  <2>2. \/ st[sess[x].srv].session = x
        \/ held[sess[x].srv] = x
        \/ \E a \in Actors : act[a].pc \in OpPcs /\ act[a].x = x
    BY <2>1 DEF Own, NoOrphanRuntime
  <2> QED BY <2>1, <2>2
<1> QED BY <1>2, <1>3, <1>4 DEF Own

\* Only server s and its runtimes are concerned, and they are in order again.
LEMMA OwnStep ==
    ASSUME Typed, OpHeld, Own, NEW s \in Servers,
           \A t \in Servers \ {s} :
               /\ st'[t].session = st[t].session /\ st'[t].op = st[t].op
               /\ held'[t] = held[t],
           \A b \in Actors :
               \/ act'[b] = act[b]
               \/ /\ act[b].pc \in OpPcs => act[b].srv = s
                  /\ act'[b].pc \in OpPcs => act'[b].srv = s,
           \A x \in Sessions :
               \/ sess'[x] = sess[x]
               \/ /\ sess[x].status # "free" => sess[x].srv = s
                  /\ sess'[x].status # "free" => sess'[x].srv = s,
           ServerOwns(s)',
           \A b \in Actors : act'[b].pc \in OpPcs /\ act'[b].srv = s => ActorOwns(b)',
           \A x \in Sessions : sess'[x].status = "live" /\ sess'[x].srv = s =>
               \/ st'[s].session = x
               \/ held'[s] = x
               \/ \E b \in Actors : act'[b].pc \in OpPcs /\ act'[b].x = x
    PROVE  Own'
<1> USE TypedFields, OwnerNames
<1>1. ASSUME NEW t \in Servers, t # s PROVE ServerOwns(t)'
  <2>1. ServerOwns(t)
    BY DEF Own
  <2>2. \A x \in Sessions : Of(x, t) => Of(x, t)'
    BY <1>1 DEF Of
  <2> QED BY <1>1, <2>1, <2>2 DEF ServerOwns
<1>2. ASSUME NEW b \in Actors, act'[b].pc \in OpPcs PROVE ActorOwns(b)'
  <2>1. CASE act'[b].srv # s
    <3>1. act'[b] = act[b] /\ ActorOwns(b) /\ act[b].srv \in Servers
      BY <1>2, <2>1 DEF Own
    <3>2. \A x \in Sessions : Of(x, act[b].srv) =>
            sess'[x].status # "free" /\ sess'[x].srv = act[b].srv /\ sess'[x].reap = "no"
      BY <2>1, <3>1 DEF Of
    <3> QED BY <1>2, <3>1, <3>2 DEF ActorOwns, Of
  <2> QED BY <1>2, <2>1
<1>3. NoOrphanRuntime'
  <2> SUFFICES ASSUME NEW x \in Sessions, sess'[x].status = "live"
               PROVE  \/ st'[sess'[x].srv].session = x
                      \/ held'[sess'[x].srv] = x
                      \/ \E a \in Actors : act'[a].pc \in OpPcs /\ act'[a].x = x
    BY DEF NoOrphanRuntime, Live
  <2>1. CASE sess'[x].srv # s
    <3>1. sess'[x] = sess[x] /\ Live(x) /\ sess[x].srv \in Servers /\ sess[x].srv # s
      BY <2>1 DEF Live
    <3>2. CASE \E a \in Actors : act[a].pc \in OpPcs /\ act[a].x = x
      <4>1. PICK a \in Actors : act[a].pc \in OpPcs /\ act[a].x = x
        BY <3>2
      <4>2. act[a].srv = sess[x].srv
        BY <4>1 DEF Own, ActorOwns, Of
      <4>3. act'[a] = act[a]
        BY <3>1, <4>1, <4>2
      <4> QED BY <4>1, <4>3
    <3> QED BY <3>1, <3>2 DEF Own, NoOrphanRuntime
  <2> QED BY <2>1
<1> QED BY <1>1, <1>2, <1>3 DEF Own, ActorOwns

\* Nobody holds op: the session is the only runtime.
LEMMA SoleFree ==
    ASSUME Typed, OpHeld, Own, NEW s \in Servers, st[s].op = Free
    PROVE  /\ held[s] = NoSession
           /\ \A b \in Actors : act[b].pc \in OpPcs => act[b].srv # s
           /\ \A x \in Sessions : Live(x) /\ sess[x].srv = s => st[s].session = x
<1> USE TypedFields, OwnerNames
<1>1. held[s] = NoSession
  BY DEF Own, ServerOwns
<1>2. \A b \in Actors : act[b].pc \in OpPcs => act[b].srv # s
  BY DEF OpHeld
<1>3. \A b \in Actors, x \in Sessions : act[b].pc \in OpPcs /\ act[b].x = x =>
        sess[x].srv # s
  BY <1>2 DEF Own, ActorOwns, Of
<1> QED BY <1>1, <1>2, <1>3 DEF Own, NoOrphanRuntime

\* A goroutine holds op: what it has in x is the only runtime.
LEMMA SoleActor ==
    ASSUME Typed, OpHeld, Own, NEW a \in Actors, act[a].pc \in OpPcs
    PROVE  /\ held[act[a].srv] = NoSession /\ st[act[a].srv].session = NoSession
           /\ act[a].srv \in Servers
           /\ \A b \in Actors \ {a} : act[b].pc \in OpPcs => act[b].srv # act[a].srv
           /\ \A x \in Sessions : Live(x) /\ sess[x].srv = act[a].srv => act[a].x = x
           /\ act[a].x # NoSession => Of(act[a].x, act[a].srv)
           /\ (act[a].pc = "connect" <=> act[a].x = NoSession)
<1> USE TypedFields, OwnerNames
<1>0. act[a].srv \in Servers /\ st[act[a].srv].op = a
  BY DEF OpHeld
<1>1. held[act[a].srv] = NoSession /\ st[act[a].srv].session = NoSession
  BY <1>0 DEF Own, ServerOwns
<1>2. \A b \in Actors \ {a} : act[b].pc \in OpPcs => act[b].srv # act[a].srv
  BY <1>0 DEF OpHeld
<1>3. \A b \in Actors \ {a}, x \in Sessions : act[b].pc \in OpPcs /\ act[b].x = x =>
        sess[x].srv # act[a].srv
  BY <1>2 DEF Own, ActorOwns, Of
<1>4. \A x \in Sessions : Live(x) /\ sess[x].srv = act[a].srv => act[a].x = x
  BY <1>1, <1>3 DEF Own, NoOrphanRuntime
<1>5. /\ act[a].x # NoSession => Of(act[a].x, act[a].srv)
      /\ (act[a].pc = "connect" <=> act[a].x = NoSession)
  BY DEF Own, ActorOwns
<1> QED BY <1>0, <1>1, <1>2, <1>4, <1>5

\* An idle stop, a commit or Close holds op: what it has in held is the only one.
LEMMA SoleHeld ==
    ASSUME Typed, OpHeld, Own, NEW s \in Servers, st[s].op \in Bg
    PROVE  /\ st[s].session = NoSession
           /\ \A b \in Actors : act[b].pc \in OpPcs => act[b].srv # s
           /\ \A x \in Sessions : Live(x) /\ sess[x].srv = s => held[s] = x
           /\ held[s] # NoSession => Of(held[s], s)
<1> USE TypedFields, OwnerNames
<1>1. st[s].session = NoSession /\ (held[s] # NoSession => Of(held[s], s))
  BY DEF Own, ServerOwns
<1>2. \A b \in Actors : act[b].pc \in OpPcs => act[b].srv # s
  BY DEF OpHeld
<1>3. \A b \in Actors, x \in Sessions : act[b].pc \in OpPcs /\ act[b].x = x =>
        sess[x].srv # s
  BY <1>2 DEF Own, ActorOwns, Of
<1> QED BY <1>1, <1>2, <1>3 DEF Own, NoOrphanRuntime

-----------------------------------------------------------------------------
(* The ways a runtime changes hands *)

\* Nothing happens on another server.
Elsewhere(s) ==
    \A t \in Servers \ {s} :
        /\ st'[t].session = st[t].session /\ st'[t].op = st[t].op
        /\ held'[t] = held[t]

\* No goroutine other than a is in, enters or leaves an operation.
OthersGoOn(a) ==
    \A b \in Actors \ {a} : act'[b] = act[b] \/ {act[b].pc, act'[b].pc} \cap OpPcs = {}

\* A goroutine takes op, and the session with it.
LEMMA ActorTakes ==
    ASSUME Typed, OpHeld, Own, NEW a \in Actors, NEW s \in Servers,
           act[a].pc \notin OpPcs, st[s].op = Free, sess' = sess,
           Elsewhere(s), OthersGoOn(a), held'[s] = held[s],
           st'[s].session = NoSession, st'[s].op = a,
           act'[a].srv = s, act'[a].x = st[s].session,
           act'[a].pc \in OpPcs,
           act'[a].pc = "connect" <=> st[s].session = NoSession
    PROVE  Own'
<1> USE TypedFields, OwnerNames, SoleFree
<1>1. ServerOwns(s) /\ ServerOwns(s)'
  BY DEF Own, ServerOwns
<1>2. \A b \in Actors \ {a} : act'[b].pc \in OpPcs => act'[b].srv # s
  BY DEF OthersGoOn
<1>3. ActorOwns(a)'
  BY <1>1 DEF ActorOwns, ServerOwns, Of
<1>4. \A b \in Actors :
          \/ act'[b] = act[b]
          \/ /\ act[b].pc \in OpPcs => act[b].srv = s
             /\ act'[b].pc \in OpPcs => act'[b].srv = s
  BY DEF OthersGoOn
<1>5. \A x \in Sessions : sess'[x].status = "live" /\ sess'[x].srv = s => act'[a].x = x
  BY DEF Live
<1> QED BY <1>1, <1>2, <1>3, <1>4, <1>5, OwnStep DEF Elsewhere

\* A goroutine returns op after it closed the runtime it had.
LEMMA ActorFrees ==
    ASSUME Typed, OpHeld, Own, NEW a \in Actors, act[a].pc \in OpPcs,
           Elsewhere(act[a].srv), OthersGoOn(a), held' = held,
           st'[act[a].srv].session = st[act[a].srv].session,
           act'[a].pc \notin OpPcs,
           \A x \in Sessions :
               sess'[x] = IF x = act[a].x THEN NoRuntime ELSE sess[x]
    PROVE  Own'
<1> USE TypedFields, OwnerNames, SoleActor
<1>s. PICK s \in Servers : s = act[a].srv
  BY DEF OpPcs
<1>1. ServerOwns(s)'
  BY <1>s DEF ServerOwns
<1>2. \A b \in Actors : act'[b].pc \in OpPcs => act'[b].srv # s
  BY <1>s DEF OthersGoOn
<1>4. \A b \in Actors :
          \/ act'[b] = act[b]
          \/ /\ act[b].pc \in OpPcs => act[b].srv = s
             /\ act'[b].pc \in OpPcs => act'[b].srv = s
  BY <1>s DEF OthersGoOn
<1>5. \A x \in Sessions :
          \/ sess'[x] = sess[x]
          \/ /\ sess[x].status # "free" => sess[x].srv = s
             /\ sess'[x].status = "free"
  BY <1>s DEF Of, NoRuntime
<1>6. \A x \in Sessions : ~(sess'[x].status = "live" /\ sess'[x].srv = s)
  BY <1>s DEF Live, NoRuntime
<1> QED BY <1>s, <1>1, <1>2, <1>4, <1>5, <1>6, OwnStep DEF Elsewhere

\* It keeps op and goes on to connect a new one.
LEMMA ActorReconnects ==
    ASSUME Typed, OpHeld, Own, NEW a \in Actors, act[a].pc \in OpPcs,
           st' = st, OthersGoOn(a), held' = held,
           act'[a].pc = "connect", act'[a].x = NoSession, act'[a].srv = act[a].srv,
           \A x \in Sessions :
               sess'[x] = IF x = act[a].x THEN NoRuntime ELSE sess[x]
    PROVE  Own'
<1> USE TypedFields, OwnerNames, SoleActor
<1>s. PICK s \in Servers : s = act[a].srv
  BY DEF OpPcs
<1>1. ServerOwns(s)'
  BY <1>s DEF ServerOwns
<1>2. \A b \in Actors \ {a} : act'[b].pc \in OpPcs => act'[b].srv # s
  BY <1>s DEF OthersGoOn
<1>3. ActorOwns(a)'
  BY <1>s DEF ActorOwns
<1>4. \A b \in Actors :
          \/ act'[b] = act[b]
          \/ /\ act[b].pc \in OpPcs => act[b].srv = s
             /\ act'[b].pc \in OpPcs => act'[b].srv = s
  BY <1>s DEF OthersGoOn
<1>5. \A x \in Sessions :
          \/ sess'[x] = sess[x]
          \/ /\ sess[x].status # "free" => sess[x].srv = s
             /\ sess'[x].status = "free"
  BY <1>s DEF Of, NoRuntime
<1>6. \A x \in Sessions : ~(sess'[x].status = "live" /\ sess'[x].srv = s)
  BY <1>s DEF Live, NoRuntime
<1> QED BY <1>s, <1>1, <1>2, <1>3, <1>4, <1>5, <1>6, OwnStep DEF Elsewhere

\* It has connected one, that nobody had.
LEMMA ActorConnects ==
    ASSUME Typed, OpHeld, Own, NEW a \in Actors, act[a].pc = "connect", NEW y \in Sessions,
           st' = st, OthersGoOn(a), held' = held,
           act'[a].pc \in OpPcs \ {"connect"}, act'[a].x = y, act'[a].srv = act[a].srv,
           sess[y] = NoRuntime, sess'[y] = Connected(act[a].srv, act[a].entry),
           \A x \in Sessions \ {y} : sess'[x] = sess[x]
    PROVE  Own'
<1> USE TypedFields, OwnerNames, SoleActor
<1>s. PICK s \in Servers : s = act[a].srv
  BY DEF OpPcs
<1>0. /\ sess'[y].status = "live" /\ sess'[y].srv = s /\ sess'[y].reap = "no"
      /\ sess[y].status = "free"
  BY <1>s DEF Connected, NoRuntime
<1>1. ServerOwns(s)'
  BY <1>s DEF ServerOwns
<1>2. \A b \in Actors \ {a} : act'[b].pc \in OpPcs => act'[b].srv # s
  BY <1>s DEF OthersGoOn
<1>3. ActorOwns(a)'
  BY <1>s, <1>0 DEF ActorOwns, Of
<1>4. \A b \in Actors :
          \/ act'[b] = act[b]
          \/ /\ act[b].pc \in OpPcs => act[b].srv = s
             /\ act'[b].pc \in OpPcs => act'[b].srv = s
  BY <1>s DEF OthersGoOn
<1>5. \A x \in Sessions :
          \/ sess'[x] = sess[x]
          \/ /\ sess[x].status # "free" => sess[x].srv = s
             /\ sess'[x].status # "free" => sess'[x].srv = s
  BY <1>s, <1>0
<1>6. \A x \in Sessions : sess'[x].status = "live" /\ sess'[x].srv = s => act'[a].x = x
  BY <1>s DEF Live
<1> QED BY <1>s, <1>1, <1>2, <1>3, <1>4, <1>5, <1>6, OwnStep DEF Elsewhere

\* It installs the runtime and returns op.
LEMMA ActorInstalls ==
    ASSUME Typed, OpHeld, Own, NEW a \in Actors, act[a].pc = "install",
           Elsewhere(act[a].srv), OthersGoOn(a), held' = held,
           st'[act[a].srv].session = act[a].x, st'[act[a].srv].op = Free,
           act'[a].pc \notin OpPcs,
           \A x \in Sessions :
               /\ sess'[x].status = sess[x].status /\ sess'[x].srv = sess[x].srv
               /\ sess'[x].reap = sess[x].reap
               /\ x # act[a].x => sess'[x] = sess[x]
    PROVE  Own'
<1> USE TypedFields, OwnerNames
<1>s. PICK s \in Servers : s = act[a].srv
  BY SoleActor DEF OpPcs
<1>0. /\ act[a].pc \in OpPcs /\ s \in Servers /\ Of(act[a].x, s) /\ act[a].x \in Sessions
      /\ held[s] = NoSession
      /\ \A b \in Actors \ {a} : act[b].pc \in OpPcs => act[b].srv # act[a].srv
      /\ \A x \in Sessions : Live(x) /\ sess[x].srv = act[a].srv => act[a].x = x
  <2>1. act[a].pc \in OpPcs
    BY <1>s DEF OpPcs
  <2> QED BY <1>s, <2>1, SoleActor
<1>1. ServerOwns(s)'
  BY <1>s, <1>0 DEF ServerOwns, Of
<1>2. \A b \in Actors : act'[b].pc \in OpPcs => act'[b].srv # s
  BY <1>s, <1>0 DEF OthersGoOn
<1>4. \A b \in Actors :
          \/ act'[b] = act[b]
          \/ /\ act[b].pc \in OpPcs => act[b].srv = s
             /\ act'[b].pc \in OpPcs => act'[b].srv = s
  BY <1>s DEF OthersGoOn
<1>5. \A x \in Sessions :
          \/ sess'[x] = sess[x]
          \/ /\ sess[x].status # "free" => sess[x].srv = s
             /\ sess'[x].status # "free" => sess'[x].srv = s
  BY <1>s, <1>0 DEF Of
<1>6. \A x \in Sessions : sess'[x].status = "live" /\ sess'[x].srv = s =>
        st'[s].session = x
  BY <1>s, <1>0 DEF Live
<1>7. s \in Servers
  BY <1>s, <1>0
<1> QED BY <1>s, <1>1, <1>2, <1>4, <1>5, <1>6, <1>7, OwnStep DEF Elsewhere

\* An idle stop, a commit or Close takes op, and the session with it.
LEMMA ServerTakes ==
    ASSUME Typed, OpHeld, Own, NEW s \in Servers, st[s].op = Free,
           Elsewhere(s), sess' = sess, act' = act,
           st'[s].session = NoSession, st'[s].op \in Bg, held'[s] = st[s].session
    PROVE  Own'
<1> USE TypedFields, OwnerNames, SoleFree
<1>1. ServerOwns(s) /\ ServerOwns(s)'
  BY DEF Own, ServerOwns, Of
<1>2. \A b \in Actors : act'[b].pc \in OpPcs => act'[b].srv # s
  OBVIOUS
<1>3. \A x \in Sessions : sess'[x].status = "live" /\ sess'[x].srv = s => held'[s] = x
  BY DEF Live
<1> QED BY <1>1, <1>2, <1>3, OwnStep DEF Elsewhere

\* It returns op after it closed what it had.
LEMMA ServerFrees ==
    ASSUME Typed, OpHeld, Own, NEW s \in Servers, st[s].op \in Bg,
           Elsewhere(s), OthersGoOn(Free), held'[s] = NoSession,
           st'[s].session = st[s].session,
           \A x \in Sessions :
               sess'[x] = IF x = held[s] THEN NoRuntime ELSE sess[x]
    PROVE  Own'
<1> USE TypedFields, OwnerNames, SoleHeld
<1>1. ServerOwns(s)'
  BY DEF ServerOwns
<1>2. \A b \in Actors : act'[b].pc \in OpPcs => act'[b].srv # s
  BY DEF OthersGoOn
<1>4. \A b \in Actors :
          \/ act'[b] = act[b]
          \/ /\ act[b].pc \in OpPcs => act[b].srv = s
             /\ act'[b].pc \in OpPcs => act'[b].srv = s
  BY DEF OthersGoOn
<1>5. \A x \in Sessions :
          \/ sess'[x] = sess[x]
          \/ /\ sess[x].status # "free" => sess[x].srv = s
             /\ sess'[x].status = "free"
  BY DEF Of, NoRuntime
<1>6. \A x \in Sessions : ~(sess'[x].status = "live" /\ sess'[x].srv = s)
  BY DEF Live, NoRuntime
<1> QED BY <1>1, <1>2, <1>4, <1>5, <1>6, OwnStep DEF Elsewhere

\* The watcher takes the exited runtime, or closes it.
LEMMA WatcherMoves ==
    ASSUME Typed, OpHeld, Own, NEW y \in Sessions, sess[y].srv \in Servers,
           Elsewhere(sess[y].srv), OthersGoOn(Free), held' = held,
           st'[sess[y].srv].op = st[sess[y].srv].op,
           \/ st'[sess[y].srv].session = NoSession /\ st[sess[y].srv].session = y
              /\ st[sess[y].srv].op = Free
           \/ st'[sess[y].srv].session = st[sess[y].srv].session /\ sess[y].reap # "no",
           sess'[y].status # "live",
           sess'[y].status # "free" => sess'[y].srv = sess[y].srv,
           \A x \in Sessions \ {y} : sess'[x] = sess[x]
    PROVE  Own'
<1> USE TypedFields, OwnerNames
<1>s. PICK s \in Servers : s = sess[y].srv
  OBVIOUS
<1>1. \A x \in Sessions : x # y => (Of(x, s) <=> Of(x, s)')
  BY <1>s DEF Of
<1>2. ~Of(y, s) => \A b \in Actors : act[b].pc \in OpPcs /\ act[b].srv = s => act[b].x # y
  BY <1>s DEF Own, ActorOwns
<1>3. st[s].op = Free => \A b \in Actors : act[b].pc \in OpPcs => act[b].srv # s
  BY <1>s, SoleFree
<1>4. ServerOwns(s)'
  BY <1>s, <1>1, SoleFree DEF ServerOwns, Own, Of
<1>5. \A b \in Actors : act'[b].pc \in OpPcs => act'[b] = act[b]
  BY <1>s DEF OthersGoOn
<1>6. \A b \in Actors : act'[b].pc \in OpPcs /\ act'[b].srv = s => ActorOwns(b)'
  <2> TAKE b \in Actors
  <2> HAVE act'[b].pc \in OpPcs /\ act'[b].srv = s
  <2>1. act'[b] = act[b] /\ ActorOwns(b)
    BY <1>s, <1>5 DEF Own
  <2>2. ~Of(y, s)
    BY <1>s, <1>3, <2>1 DEF Of
  <2>3. act[b].x # y
    BY <1>s, <1>2, <2>1, <2>2
  <2> QED BY <1>s, <1>1, <2>1, <2>3 DEF ActorOwns, Of
<1>7. \A b \in Actors :
          \/ act'[b] = act[b]
          \/ /\ act[b].pc \in OpPcs => act[b].srv = s
             /\ act'[b].pc \in OpPcs => act'[b].srv = s
  BY <1>s DEF OthersGoOn
<1>8. \A x \in Sessions : sess'[x].status = "live" /\ sess'[x].srv = s =>
               \/ st'[s].session = x
               \/ held'[s] = x
               \/ \E b \in Actors : act'[b].pc \in OpPcs /\ act'[b].x = x
  <2> SUFFICES ASSUME NEW x \in Sessions, sess'[x].status = "live", sess'[x].srv = s
               PROVE  \/ st'[s].session = x
                      \/ held'[s] = x
                      \/ \E b \in Actors : act'[b].pc \in OpPcs /\ act'[b].x = x
    BY <1>s
  <2>1. x # y /\ Live(x) /\ sess[x].srv = s
    BY <1>s DEF Live
  <2>2. \A b \in Actors : act[b].pc \in OpPcs => act'[b] = act[b]
    BY <1>s DEF OthersGoOn
  <2> QED BY <1>s, <2>1, <2>2 DEF Own, NoOrphanRuntime
<1>9. \A x \in Sessions :
          \/ sess'[x] = sess[x]
          \/ /\ sess[x].status # "free" => sess[x].srv = s
             /\ sess'[x].status # "free" => sess'[x].srv = s
  BY <1>s
<1> QED BY <1>s, <1>4, <1>6, <1>7, <1>8, <1>9, OwnStep DEF Elsewhere

\* One goroutine, or one server, at a time.
LEMMA BecomeMoves ==
    ASSUME Typed, NEW a \in Actors, NEW p, Become(a, p)
    PROVE  /\ act'[a] = p /\ OthersGoOn(a)
           /\ act[a].pc \notin OpPcs /\ p.pc \notin OpPcs => OthersGoOn(Free)
BY DEF Typed, ActOK, Become, OthersGoOn

\* A step in which no goroutine moves disturbs none of them.
LEMMA SameActors == act' = act => OthersGoOn(Free)
BY DEF OthersGoOn

\* A step on one server leaves the others alone.
LEMMA UpdateMoves ==
    ASSUME Typed, NEW s \in Servers, NEW q, st' = [st EXCEPT ![s] = q],
           held' = held \/ \E h : held' = [held EXCEPT ![s] = h]
    PROVE  st'[s] = q /\ Elsewhere(s)
BY DEF Typed, StOK, RestOK, Elsewhere

\* A step that leaves the sessions, op and what is held alone.
LEMMA OwnStill ==
    ASSUME Typed, Own, sess' = sess, held' = held, OthersGoOn(Free),
           \A s \in Servers : st'[s].session = st[s].session /\ st'[s].op = st[s].op
    PROVE  Own'
BY OwnQuiet, OwnerNames DEF OthersGoOn

\* A server whose session and op stay as they are disturbs nothing.
LEMMA OwnRecord ==
    ASSUME Typed, Own, sess' = sess, held' = held, OthersGoOn(Free),
           NEW s \in Servers, NEW q, st' = [st EXCEPT ![s] = q],
           q.session = st[s].session, q.op = st[s].op
    PROVE  Own'
BY OwnStill, UpdateMoves DEF Elsewhere

\* Closing a runtime forgets it and touches no other.
LEMMA CloseIs ==
    ASSUME Typed, NEW y
    PROVE  \A x \in Sessions : closeRuntime(y)[x] = IF x = y THEN NoRuntime ELSE sess[x]
BY DEF Typed, SessOK, closeRuntime

\* Operations that get their turn on op.
LEMMA EnterOwn ==
    ASSUME Typed, OpHeld, Own, NEW a \in Actors, Enter(a)
    PROVE  Own'
<1>s. PICK s : s = act[a].srv
  OBVIOUS
<1>r. PICK r : r = st[s]
  OBVIOUS
<1>1. /\ act[a].pc = "wait" /\ s \in Servers /\ r \in serverState /\ r.op = Free
      /\ ActorOK(act[a]) /\ act[a] \in ActorState
      /\ UNCHANGED <<sess, background>>
  BY <1>s, <1>r DEF Enter, Refuse, AcquireManualStopped, AcquireReuse, AcquireColdStart,
         StartRunning, StartCold, StopEnter, RestartEnter, Enters, Typed, ActOK,
         ActorOK, StOK
<1>2. /\ act[a].pc \notin OpPcs /\ held' = held /\ sess' = sess
      /\ r.session \in Sessions \cup {NoSession}
  BY <1>1 DEF OpPcs, background, serverState
<1>3. /\ Idle.pc \notin OpPcs /\ Failed(a).pc \notin OpPcs
      /\ \A x : Leased(a, x).pc \notin OpPcs
      /\ \A x, e : /\ Proceed(a, x, e).x = x /\ Proceed(a, x, e).srv = act[a].srv
                   /\ Proceed(a, x, e).pc = IF x = NoSession THEN "connect" ELSE "close"
  BY <1>1 DEF Idle, Failed, Maintaining, Leased, Proceed, OpPcs, ActorState
<1>4. /\ cancelIdleLocked(r).session = r.session /\ Detach(r).session = NoSession
      /\ SameBut(Detach(r), r) /\ SameBut(cancelIdleLocked(r), r)
  BY <1>1, SessionHelpers, IdleHelpers
\* Nothing is taken.
<1>5. ASSUME NEW p, Become(a, p), p.pc \notin OpPcs, NEW q,
             \/ UNCHANGED st
             \/ st' = [st EXCEPT ![s] = q] /\ q.session = r.session /\ q.op = r.op
      PROVE  Own'
  <2>1. OthersGoOn(Free)
    BY <1>2, <1>5, BecomeMoves
  <2> QED BY <1>1, <1>2, <1>r, <1>5, <2>1, OwnStill, OwnRecord
\* op is taken.
<1>6. ASSUME NEW p, Become(a, p), NEW q, st' = [st EXCEPT ![s] = q],
             q.session = NoSession, q.op = a,
             p.srv = s, p.x = r.session,
             p.pc = IF r.session = NoSession THEN "connect" ELSE "close"
      PROVE  Own'
  <2>1. act'[a] = p /\ OthersGoOn(a) /\ st'[s] = q /\ Elsewhere(s)
    BY <1>1, <1>2, <1>6, BecomeMoves, UpdateMoves
  <2>2. /\ act'[a].srv = s /\ act'[a].x = st[s].session /\ act'[a].pc \in OpPcs
        /\ (act'[a].pc = "connect" <=> st[s].session = NoSession)
    BY <1>6, <1>r, <2>1 DEF OpPcs
  <2> QED BY <1>1, <1>2, <1>r, <1>6, <2>1, <2>2, ActorTakes
<1>7. CASE Refuse(a)
  BY <1>3, <1>5, <1>7 DEF Refuse
<1>8. CASE AcquireManualStopped(a)
  <2>1. CASE sessionStale(r)
    <3>p. PICK p : p = [act[a] EXCEPT !.pc = "close", !.job = "drop", !.x = r.session]
      OBVIOUS
    <3>q. PICK q : q = [Detach(r) EXCEPT !.op = a]
      OBVIOUS
    <3>1. p.pc = "close" /\ p.srv = s /\ p.x = r.session /\ r.session # NoSession
      BY <1>1, <1>s, <2>1, <3>p DEF ActorState, sessionStale
    <3>2. q.op = a /\ q.session = NoSession
      BY <1>4, <3>q DEF SameBut, Kept, serverState
    <3>3. Become(a, p) /\ st' = [st EXCEPT ![s] = q]
      BY <1>8, <1>s, <1>r, <2>1, <3>p, <3>q DEF AcquireManualStopped
    <3> QED BY <1>6, <3>1, <3>2, <3>3
  <2>2. CASE ~sessionStale(r)
    BY <1>3, <1>5, <1>8, <1>s, <1>r, <2>2 DEF AcquireManualStopped
  <2> QED BY <2>1, <2>2
<1>9. CASE AcquireReuse(a)
  <2>q. PICK q : q = [cancelIdleLocked(r) EXCEPT !.active = @ + 1]
    OBVIOUS
  <2>1. q.op = r.op /\ q.session = r.session
    BY <1>4, <2>q DEF SameBut, Kept, serverState
  <2>2. Become(a, Leased(a, r.session)) /\ st' = [st EXCEPT ![s] = q]
    BY <1>9, <1>s, <1>r, <2>q DEF AcquireReuse
  <2> QED BY <1>3, <1>5, <2>1, <2>2
<1>10. CASE AcquireColdStart(a)
  <2>q. PICK q : q = [Detach(r) EXCEPT !.active = @ + 1, !.op = a]
    OBVIOUS
  <2>1. q.op = a /\ q.session = NoSession
    BY <1>4, <2>q DEF SameBut, Kept, serverState
  <2>2. Become(a, Proceed(a, r.session, r.entry))
    BY <1>10, <1>s, <1>r, Zenon DEF AcquireColdStart
  <2>3. st' = [st EXCEPT ![s] = q]
    BY <1>10, <1>s, <1>r, <2>q, Zenon DEF AcquireColdStart
  <2>4. PICK p : p = Proceed(a, r.session, r.entry)
    OBVIOUS
  <2>5. /\ p.srv = s /\ p.x = r.session
        /\ p.pc = IF r.session = NoSession THEN "connect" ELSE "close"
    BY <1>3, <1>s, <2>4
  <2> QED BY <1>6, <2>1, <2>2, <2>3, <2>4, <2>5
<1>11. CASE StartRunning(a)
  BY <1>3, <1>5, <1>11 DEF StartRunning
<1>q. PICK changing : changing = [Detach(r) EXCEPT !.runtimeChanging = TRUE, !.op = a]
  OBVIOUS
<1>12. changing.op = a /\ changing.session = NoSession
  BY <1>4, <1>q DEF SameBut, Kept, serverState
<1>13. CASE StartCold(a) \/ RestartEnter(a)
  <2>1. Become(a, Proceed(a, r.session, r.entry))
    BY <1>13, <1>s, <1>r, Zenon DEF StartCold, RestartEnter
  <2>2. st' = [st EXCEPT ![s] = changing]
    BY <1>13, <1>s, <1>r, <1>q, Zenon DEF StartCold, RestartEnter
  <2>3. PICK p : p = Proceed(a, r.session, r.entry)
    OBVIOUS
  <2>4. /\ p.srv = s /\ p.x = r.session
        /\ p.pc = IF r.session = NoSession THEN "connect" ELSE "close"
    BY <1>3, <1>s, <2>3
  <2> QED BY <1>6, <1>12, <2>1, <2>2, <2>3, <2>4
<1>14. CASE StopEnter(a)
  <2>1. CASE r.session = NoSession
    <3>1. Detach(r).session = r.session /\ Detach(r).op = r.op
      BY <1>4, <2>1 DEF SameBut, Kept
    <3>2. Become(a, Idle) /\ st' = [st EXCEPT ![s] = Detach(r)]
      BY <1>14, <1>s, <1>r, <2>1 DEF StopEnter
    <3> QED BY <1>3, <1>5, <3>1, <3>2
  <2>2. CASE r.session # NoSession
    <3>p. PICK p : p = [act[a] EXCEPT !.pc = "close", !.x = r.session]
      OBVIOUS
    <3>1. p.pc = "close" /\ p.srv = s /\ p.x = r.session
      BY <1>1, <1>s, <3>p DEF ActorState
    <3>2. Become(a, p) /\ st' = [st EXCEPT ![s] = changing]
      BY <1>14, <1>s, <1>r, <1>q, <2>2, <3>p DEF StopEnter
    <3> QED BY <1>6, <1>12, <2>2, <3>1, <3>2
  <2> QED BY <2>1, <2>2
<1> QED BY <1>7, <1>8, <1>9, <1>10, <1>11, <1>13, <1>14 DEF Enter

\* An operation that ends leaves the session to its caller.
LEMMA FinishSession ==
    ASSUME Typed, NEW a \in Actors, act[a].srv \in Servers
    PROVE  Finish(a).session = st[act[a].srv].session
<1>1. st[act[a].srv] \in serverState
  BY TypedFields
<1>2. /\ Unuse(st[act[a].srv]).session = st[act[a].srv].session
      /\ Unuse(st[act[a].srv]) \in serverState
  BY <1>1, SessionHelpers, LessEffect DEF Less, Kept
<1> QED BY <1>1, <1>2 DEF Finish, serverState

\* Operations that hold op.
LEMMA HoldOwn ==
    ASSUME Typed, OpHeld, Own, NEW a \in Actors,
           \/ CloseOld(a) \/ ConnectFail(a) \/ Discard(a) \/ Install(a)
           \/ \E x \in Sessions : ConnectOK(a, x)
    PROVE  Own'
<1>s. PICK s : s = act[a].srv
  OBVIOUS
<1>1. /\ act[a].pc \in OpPcs /\ held' = held /\ UNCHANGED background
      /\ act[a].pc = "connect" \/ act[a].x \in Sessions
      /\ s \in Servers /\ act[a] \in ActorState /\ act[a].pc # "idle"
  <2>1. act[a].pc \in OpPcs /\ UNCHANGED background
    BY DEF CloseOld, ConnectFail, Discard, Install, ConnectOK, OpPcs
  <2> QED BY <1>s, <2>1, SoleActor, TypedFields, OwnerNames DEF background
<1>2. /\ Idle.pc \notin OpPcs /\ Failed(a).pc \notin OpPcs
      /\ Leased(a, act[a].x).pc \notin OpPcs
      /\ \A e : /\ Proceed(a, NoSession, e).x = NoSession
                /\ Proceed(a, NoSession, e).srv = act[a].srv
                /\ Proceed(a, NoSession, e).pc = "connect"
  BY <1>1 DEF Idle, Failed, Maintaining, Leased, Proceed, OpPcs, ActorState
\* op is returned, and what was in x is closed.
<1>3. ASSUME NEW p \in {Idle, Failed(a)}, Become(a, p), st' = [st EXCEPT ![s] = Finish(a)],
             \/ sess' = closeRuntime(act[a].x)
             \/ sess' = sess /\ act[a].pc = "connect"
      PROVE  Own'
  <2>1. act'[a] = p /\ OthersGoOn(a) /\ st'[s] = Finish(a) /\ Elsewhere(s)
    BY <1>1, <1>3, BecomeMoves, UpdateMoves
  <2>2. \A x \in Sessions : sess'[x] = IF x = act[a].x THEN NoRuntime ELSE sess[x]
    BY <1>1, <1>3, CloseIs, SoleActor, OwnerNames
  <2> QED BY <1>1, <1>2, <1>3, <1>s, <2>1, <2>2, FinishSession, ActorFrees
<1>4. CASE CloseOld(a)
  <2>1. CASE Become(a, Proceed(a, NoSession, act[a].entry)) /\ UNCHANGED st
    <3>1. act'[a] = Proceed(a, NoSession, act[a].entry) /\ OthersGoOn(a)
      BY <2>1, BecomeMoves
    <3>2. \A x \in Sessions : sess'[x] = IF x = act[a].x THEN NoRuntime ELSE sess[x]
      BY <1>4, CloseIs DEF CloseOld
    <3> QED BY <1>1, <1>2, <2>1, <3>1, <3>2, ActorReconnects
  <2>2. CASE Become(a, Idle) /\ st' = [st EXCEPT ![s] = Finish(a)]
    BY <1>3, <1>4, <2>2 DEF CloseOld
  <2> QED BY <1>4, <1>s, <2>1, <2>2 DEF CloseOld
<1>5. CASE ConnectFail(a)
  BY <1>3, <1>5, <1>s DEF ConnectFail
<1>6. CASE Discard(a)
  BY <1>3, <1>6, <1>s DEF Discard
<1>7. ASSUME NEW x \in Sessions, ConnectOK(a, x) PROVE Own'
  <2>1. PICK p : /\ p.pc \in {"install", "discard"} /\ p.srv = s /\ p.x = x
                 /\ Become(a, p)
    <3>1. PICK pc \in {"install", "discard"} : Become(a, [act[a] EXCEPT !.pc = pc, !.x = x])
      BY <1>7 DEF ConnectOK
    <3>2. LET p == [act[a] EXCEPT !.pc = pc, !.x = x]
          IN  p.pc = pc /\ p.srv = s /\ p.x = x
      BY <1>1, <1>s DEF ActorState
    <3> QED BY <3>1, <3>2
  <2>2. act'[a] = p /\ OthersGoOn(a) /\ p.pc \in OpPcs \ {"connect"}
    BY <2>1, BecomeMoves DEF OpPcs
  <2>3. /\ act[a].pc = "connect" /\ st' = st /\ sess[x] = NoRuntime
        /\ sess'[x] = Connected(act[a].srv, act[a].entry)
        /\ \A y \in Sessions \ {x} : sess'[y] = sess[y]
    BY <1>7 DEF ConnectOK, Typed, SessOK
  <2> QED BY <1>1, <1>s, <2>1, <2>2, <2>3, ActorConnects
<1>8. CASE Install(a)
  <2>r. PICK r : r = [st[s] EXCEPT !.session = act[a].x]
    OBVIOUS
  <2>0. r \in serverState /\ r.session = act[a].x /\ act[a].pc = "install"
        /\ act[a].x \in Sessions
    BY <1>1, <1>8, <2>r, TypedFields DEF serverState, Install
  <2>1. CASE Become(a, Failed(a)) /\ st' = [st EXCEPT ![s] = Finish(a)]
             /\ sess' = closeRuntime(act[a].x)
    BY <1>3, <2>1
  <2>2. ASSUME NEW p, Become(a, p), p.pc \notin OpPcs, NEW q,
               st' = [st EXCEPT ![s] = q], q.session = act[a].x, q.op = Free,
               sess' = [sess EXCEPT ![act[a].x].watched = TRUE]
        PROVE  Own'
    <3>1. act'[a] = p /\ OthersGoOn(a) /\ st'[s] = q /\ Elsewhere(s)
      BY <1>1, <2>2, BecomeMoves, UpdateMoves
    <3>2. \A x \in Sessions :
               /\ sess'[x].status = sess[x].status /\ sess'[x].srv = sess[x].srv
               /\ sess'[x].reap = sess[x].reap
               /\ x # act[a].x => sess'[x] = sess[x]
      BY <2>2 DEF Typed, SessOK, Runtime
    <3> QED BY <1>1, <1>s, <2>0, <2>2, <3>1, <3>2, ActorInstalls
  <2>3. CASE /\ st' = [st EXCEPT ![s] = [r EXCEPT !.op = Free]]
             /\ sess' = [sess EXCEPT ![act[a].x].watched = TRUE]
             /\ Become(a, Leased(a, act[a].x))
    <3>1. [r EXCEPT !.op = Free].session = act[a].x /\ [r EXCEPT !.op = Free].op = Free
      BY <2>0 DEF serverState
    <3> QED BY <1>2, <2>2, <2>3, <3>1
  <2>4. CASE act[a].job \notin UseJobs
    <3>d. PICK done : done = [r EXCEPT !.runtimeChanging = FALSE, !.op = Free]
      OBVIOUS
    <3>1. /\ done \in serverState /\ done.session = act[a].x /\ done.op = Free
      BY <2>0, <3>d DEF serverState, Owners
    <3>2. /\ scheduleIdleLocked(done).session = act[a].x
          /\ scheduleIdleLocked(done).op = Free
      BY <3>1, SessionHelpers, IdleHelpers DEF SameBut, Kept
    <3>3. PICK q \in {done, scheduleIdleLocked(done)} : st' = [st EXCEPT ![s] = q]
      BY <1>8, <1>s, <2>r, <2>4, <3>d DEF Install
    <3>4. Become(a, Idle) /\ sess' = [sess EXCEPT ![act[a].x].watched = TRUE]
      BY <1>8, <2>4 DEF Install
    <3> QED BY <1>2, <2>2, <3>1, <3>2, <3>3, <3>4
  <2> QED BY <1>8, <1>s, <2>r, <2>1, <2>3, <2>4 DEF Install
<1> QED BY <1>4, <1>5, <1>6, <1>7, <1>8

\* Callers and leases; a crash and a contract change leave the runtime where it is.
LEMMA CallerOwn ==
    ASSUME Typed, LeaseInv, Own,
           \/ \E c \in Clients, s \in Servers, job \in AllJobs : Begin(c, s, job)
           \/ \E a \in Actors : GiveUp(a)
           \/ \E c \in Clients : Release(c) \/ TaskExpires(c) \/ ExpiryRelease(c)
           \/ \E x \in Sessions : Crash(x) \/ ContractChange(x)
    PROVE  Own'
<1>1. Clients \subseteq Actors /\ (UNCHANGED background => held' = held)
  BY DEF Actors, background
<1>2. \A a \in Actors : Idle.pc \notin OpPcs /\ Failed(a).pc \notin OpPcs
  BY DEF Idle, Failed, Maintaining, OpPcs
<1>3. ASSUME NEW a \in Actors, NEW p, Become(a, p), {act[a].pc, p.pc} \cap OpPcs = {},
             sess' = sess, UNCHANGED background,
             st' = st \/ \E s \in Servers, q \in serverState :
                            /\ st' = [st EXCEPT ![s] = q]
                            /\ q.session = st[s].session /\ q.op = st[s].op
      PROVE  Own'
  <2>1. OthersGoOn(Free)
    BY <1>3, BecomeMoves
  <2> QED BY <1>1, <1>3, <2>1, OwnStill, OwnRecord
<1>4. ASSUME NEW c \in Clients, NEW s \in Servers, NEW job \in AllJobs, Begin(c, s, job)
      PROVE  Own'
  <2>p. PICK p : p = [Idle EXCEPT !.pc = "wait", !.job = job, !.srv = s]
    OBVIOUS
  <2>1. act[c].pc = "idle" /\ p.pc = "wait"
    <3>1. act[c] = Idle
      BY <1>4 DEF Begin
    <3>2. Idle.pc = "idle"
      BY DEF Idle
    <3>3. p.pc = "wait"
      BY <2>p DEF Idle
    <3> QED BY <3>1, <3>2, <3>3
  <2>2. Become(c, p) /\ UNCHANGED <<st, sess, background>>
    BY <1>4, <2>p DEF Begin
  <2>3. {act[c].pc, p.pc} \cap OpPcs = {}
    BY <2>1 DEF OpPcs
  <2> QED BY <1>1, <1>3, <2>2, <2>3
<1>5. ASSUME NEW a \in Actors, GiveUp(a) PROVE Own'
  BY <1>2, <1>3, <1>5 DEF GiveUp, OpPcs
<1>6. ASSUME NEW c \in Clients, Release(c) \/ TaskExpires(c) \/ ExpiryRelease(c)
      PROVE  Own'
  <2>1. /\ act[c] \in ActorState /\ c \in Actors
        /\ act[c].pc # "idle" => act[c].srv \in Servers
    BY <1>1, TypedFields
  <2>2. ASSUME NEW s \in Servers, s = act[c].srv, releaseOnce(c)
        PROVE  \E q \in serverState :
                    /\ st' = [st EXCEPT ![s] = q]
                    /\ q.session = st[s].session /\ q.op = st[s].op
    <3>1. PICK q \in {st[s], releaseLocked(st[s])} : st' = [st EXCEPT ![s] = q]
      BY <2>2 DEF releaseOnce
    <3>2. st[s] \in serverState
      BY TypedFields
    <3>3. q \in serverState /\ q.session = st[s].session /\ q.op = st[s].op
      BY <3>1, <3>2, SessionHelpers, LessEffect DEF Less, Kept
    <3> QED BY <3>1, <3>3
  <2>3. CASE Release(c)
    <3>1. PICK p : Become(c, p) /\ p \in {Idle, [act[c] EXCEPT !.pc = "done", !.released = TRUE]}
      BY <2>3 DEF Release
    <3>2. {act[c].pc, p.pc} \cap OpPcs = {} /\ act[c].srv \in Servers
      BY <1>2, <2>1, <2>3, <3>1 DEF Release, OpPcs, ActorState
    <3> QED BY <1>3, <2>1, <2>2, <2>3, <3>1, <3>2 DEF Release
  <2>4. CASE TaskExpires(c) \/ ExpiryRelease(c)
    <3>1. PICK p \in {Idle, [act[c] EXCEPT !.timer = "fired"],
                      [act[c] EXCEPT !.released = TRUE, !.timer = "none"]} : Become(c, p)
      BY <2>4 DEF TaskExpires, ExpiryRelease
    <3>2. act[c].pc \in {"leased", "done"}
      BY <2>1, <2>4 DEF TaskExpires, ExpiryRelease, LeaseInv, LeaseShape
    <3>3. p.pc \in {Idle.pc, act[c].pc}
      BY <2>1, <3>1 DEF ActorState
    <3>4. {act[c].pc, p.pc} \cap OpPcs = {} /\ act[c].srv \in Servers
      BY <1>2, <2>1, <3>2, <3>3 DEF OpPcs
    <3>5. sess' = sess /\ UNCHANGED background /\ (st' = st \/ releaseOnce(c))
      BY <2>4 DEF TaskExpires, ExpiryRelease
    <3> QED BY <1>3, <2>1, <2>2, <3>1, <3>4, <3>5
  <2> QED BY <1>6, <2>3, <2>4
<1>7. ASSUME NEW x \in Sessions, Crash(x) \/ ContractChange(x) PROVE Own'
  <2>1. /\ UNCHANGED <<st, act, background>> /\ sess[x].status = "live"
        /\ \/ sess' = [sess EXCEPT ![x].status = "exited"]
           \/ sess' = [sess EXCEPT ![x].changed = TRUE]
    BY <1>7 DEF Crash, ContractChange, Live
  <2>2. \A y \in Sessions :
               /\ sess'[y].status = "live" => sess[y].status = "live"
               /\ sess[y].status # "free" => sess'[y].status # "free"
               /\ sess'[y].srv = sess[y].srv /\ sess'[y].reap = sess[y].reap
    BY <2>1 DEF Typed, SessOK, Runtime
  <2> QED BY <1>1, <2>1, <2>2, OwnQuiet
<1> QED BY <1>4, <1>5, <1>6, <1>7

\* A maintainer that is spawned was idle before.
LEMMA MaintainMoves ==
    ASSUME Typed, NEW s \in Servers, GoMaintain(s) \/ UNCHANGED act
    PROVE  OthersGoOn(Free)
<1>1. \A w \in Workers : FreeWorker(w) => act[w].pc = "idle" /\ w \in Actors
  BY DEF FreeWorker, Idle, Actors
<1>2. Maintaining(s).pc = "check"
  BY DEF Maintaining, Idle
<1>3. ASSUME NEW w \in Workers, FreeWorker(w), Become(w, Maintaining(s))
      PROVE  OthersGoOn(Free)
  BY <1>1, <1>2, <1>3, BecomeMoves DEF OpPcs
<1> QED BY <1>3, SameActors DEF GoMaintain

\* CloseHeld, with whatever else its caller writes into the record.
LEMMA HeldCloses ==
    ASSUME Typed, OpHeld, Own, NEW s \in Servers, st[s].op \in Bg, OthersGoOn(Free),
           NEW r, r.session = st[s].session, r \in serverState, CloseHeld(s, r)
    PROVE  Own'
<1>q. PICK q : q = [r EXCEPT !.runtimeChanging = FALSE, !.op = Free]
  OBVIOUS
<1>1. q.session = st[s].session
  BY <1>q DEF serverState
<1>2. st' = [st EXCEPT ![s] = q] /\ held' = [held EXCEPT ![s] = NoSession]
  BY <1>q DEF CloseHeld
<1>3. st'[s] = q /\ Elsewhere(s)
  BY <1>2, UpdateMoves
<1>4. held'[s] = NoSession
  BY <1>2 DEF Typed, RestOK
<1>5. \A x \in Sessions : sess'[x] = IF x = held[s] THEN NoRuntime ELSE sess[x]
  BY CloseIs, OwnerNames DEF CloseHeld
<1> QED BY <1>1, <1>3, <1>4, <1>5, ServerFrees

\* What was detached is now in held.
LEMMA HeldTakes ==
    ASSUME Typed, OpHeld, Own, NEW s \in Servers, st[s].op = Free,
           NEW q, st' = [st EXCEPT ![s] = q], q.session = NoSession, q.op \in Bg,
           held' = [held EXCEPT ![s] = st[s].session], UNCHANGED <<sess, act>>
    PROVE  Own'
<1>1. st'[s] = q /\ Elsewhere(s)
  BY UpdateMoves
<1>2. held'[s] = st[s].session
  BY DEF Typed, RestOK
<1> QED BY <1>1, <1>2, ServerTakes

\* The watcher, the maintainer, StartAlwaysOn and the idle timer.
LEMMA BackgroundOwn ==
    ASSUME Typed, OpHeld, Own, Background
    PROVE  Own'
<1>1. /\ \A s \in Servers : st[s] \in serverState
      /\ \A w \in Workers : w \in Actors /\ act[w] \in ActorState
      /\ (UNCHANGED background => held' = held)
  BY TypedFields DEF Actors, background
<1>2. ASSUME NEW w \in Workers, NEW p, Become(w, p), {act[w].pc, p.pc} \cap OpPcs = {},
             UNCHANGED <<st, sess, held>>
      PROVE  Own'
  <2>1. OthersGoOn(Free)
    BY <1>1, <1>2, BecomeMoves
  <2> QED BY <1>2, <2>1, OwnStill
<1>3. ASSUME NEW y \in Sessions, WatchDetach(y) PROVE Own'
  <2>q. PICK q : q = Detach(st[sess[y].srv])
    OBVIOUS
  <2>1. /\ sess[y].srv \in Servers /\ sess[y].status = "exited"
        /\ st[sess[y].srv].op = Free /\ st[sess[y].srv].session = y
        /\ UNCHANGED <<act, background>>
        /\ st' = [st EXCEPT ![sess[y].srv] = q]
    BY <1>3, <2>q DEF WatchDetach, Exited, Typed, SessOK, RuntimeOK
  <2>2. q.session = NoSession /\ q.op = Free
    BY <1>1, <2>1, <2>q, SessionHelpers, IdleHelpers DEF SameBut, Kept
  <2>3. PICK why : sess' = [sess EXCEPT ![y].reap = why]
    BY <1>3 DEF WatchDetach
  <2>4. /\ sess'[y].status = sess[y].status /\ sess'[y].srv = sess[y].srv
        /\ \A x \in Sessions \ {y} : sess'[x] = sess[x]
    BY <2>3 DEF Typed, SessOK, Runtime
  <2>5. st'[sess[y].srv] = q /\ Elsewhere(sess[y].srv) /\ held' = held
    BY <1>1, <2>1, UpdateMoves
  <2>6. OthersGoOn(Free)
    BY <2>1, SameActors
  <2> QED BY <2>1, <2>2, <2>4, <2>5, <2>6, WatcherMoves
<1>4. ASSUME NEW y \in Sessions, WatchClose(y) PROVE Own'
  <2>1. /\ sess[y].srv \in Servers /\ sess[y].reap # "no" /\ st' = st /\ held' = held
        /\ sess' = closeRuntime(y)
    BY <1>1, <1>4 DEF WatchClose, Typed, SessOK, RuntimeOK
  <2>2. OthersGoOn(Free)
    BY <1>4, <2>1, MaintainMoves DEF WatchClose
  <2>3. sess'[y].status = "free" /\ \A x \in Sessions \ {y} : sess'[x] = sess[x]
    BY <2>1, CloseIs DEF NoRuntime
  <2> QED BY <2>1, <2>2, <2>3, WatcherMoves DEF Elsewhere
<1>5. ASSUME NEW w \in Workers, MaintainExit(w) \/ MaintainTry(w) PROVE Own'
  <2>1. PICK p \in {Idle, [act[w] EXCEPT !.pc = "wait", !.job = "start"]} : Become(w, p)
    BY <1>5 DEF MaintainExit, MaintainTry
  <2>2. act[w].pc = "check" /\ UNCHANGED <<st, sess, held>>
    BY <1>1, <1>5 DEF MaintainExit, MaintainTry
  <2>3. p.pc \in {"idle", "wait"}
    <3>1. Idle.pc = "idle"
      BY DEF Idle
    <3>2. [act[w] EXCEPT !.pc = "wait", !.job = "start"].pc = "wait"
      BY <1>1 DEF ActorState
    <3> QED BY <2>1, <3>1, <3>2
  <2>4. {act[w].pc, p.pc} \cap OpPcs = {}
    BY <2>2, <2>3 DEF OpPcs
  <2> QED BY <1>2, <2>1, <2>2, <2>4
<1>6. ASSUME NEW s \in Servers, NEW w \in Workers, StartAlwaysOn(s, w) PROVE Own'
  <2>p. PICK p : p = [Idle EXCEPT !.pc = "wait", !.job = "start", !.srv = s]
    OBVIOUS
  <2>1. act[w].pc = "idle" /\ p.pc = "wait" /\ UNCHANGED <<st, sess, held>>
    BY <1>6, <2>p DEF StartAlwaysOn, FreeWorker, Idle
  <2>2. UNCHANGED act \/ Become(w, p)
    BY <1>6, <2>p DEF StartAlwaysOn
  <2>3. CASE UNCHANGED act
    BY <2>1, <2>3, SameActors, OwnStill
  <2>4. CASE Become(w, p)
    BY <1>2, <2>1, <2>4 DEF OpPcs
  <2> QED BY <2>2, <2>3, <2>4
<1>7. ASSUME NEW s \in Servers, IdleFire(s) \/ IdleDrop(s) \/ IdleEarly(s) PROVE Own'
  <2>1. PICK q \in {[st[s] EXCEPT !.idle = "fired"], cancelIdleLocked(st[s]),
                    scheduleIdleLocked(st[s])} :
            st' = [st EXCEPT ![s] = q]
    BY <1>7 DEF IdleFire, IdleDrop, IdleEarly
  <2>2. [st[s] EXCEPT !.idle = "fired"].session = st[s].session
        /\ [st[s] EXCEPT !.idle = "fired"].op = st[s].op
    BY <1>1 DEF serverState
  <2>3. q.session = st[s].session /\ q.op = st[s].op
    <3>1. /\ cancelIdleLocked(st[s]).session = st[s].session
          /\ cancelIdleLocked(st[s]).op = st[s].op
          /\ scheduleIdleLocked(st[s]).session = st[s].session
          /\ scheduleIdleLocked(st[s]).op = st[s].op
      BY <1>1, SessionHelpers, IdleHelpers DEF SameBut, Kept
    <3> QED BY <2>1, <2>2, <3>1
  <2>4. sess' = sess /\ held' = held /\ OthersGoOn(Free)
    BY <1>1, <1>7, SameActors DEF IdleFire, IdleDrop, IdleEarly
  <2> QED BY <2>1, <2>3, <2>4, OwnRecord
<1>8. ASSUME NEW s \in Servers, idleStop(s) PROVE Own'
  <2>q. PICK q : q = [Detach(st[s]) EXCEPT !.runtimeChanging = TRUE, !.op = "idle"]
    OBVIOUS
  <2>1. q.session = NoSession /\ q.op \in Bg
    BY <1>1, <2>q, SessionHelpers, IdleHelpers DEF SameBut, Kept, serverState, Bg
  <2>2. /\ st' = [st EXCEPT ![s] = q] /\ st[s].op = Free /\ UNCHANGED <<sess, act>>
        /\ held' = [held EXCEPT ![s] = st[s].session]
    BY <1>8, <2>q DEF idleStop
  <2> QED BY <2>1, <2>2, HeldTakes
<1>9. ASSUME NEW s \in Servers, IdleFinish(s) PROVE Own'
  <2>1. st[s].op \in Bg /\ CloseHeld(s, st[s]) /\ OthersGoOn(Free)
    BY <1>9, SameActors DEF IdleFinish, Bg
  <2> QED BY <1>1, <2>1, HeldCloses
<1> QED BY <1>3, <1>4, <1>5, <1>6, <1>7, <1>8, <1>9 DEF Background

\* Dropping reservations moves nothing.
LEMMA UnclaimStill ==
    ASSUME Typed, NEW S, st' = Unclaim(S)
    PROVE  \A s \in Servers : st'[s].session = st[s].session /\ st'[s].op = st[s].op
<1>1. \A s \in Servers : st'[s] = st[s] \/ st'[s] = [st[s] EXCEPT !.mutating = FALSE]
  BY DEF Unclaim
<1> QED BY <1>1, TypedFields DEF serverState

\* A server that is not in the map and never was has no runtime.
LEMMA UnknownIsEmpty ==
    ASSUME Typed, LeaseInv, Own, NEW s \in Servers, ~Known(s)
    PROVE  st[s].session = NoSession /\ held[s] = NoSession
<1>1. \A x \in Sessions : ~Of(x, s)
  BY DEF Of, LeaseInv, KnownOnly
<1> QED BY <1>1, TypedFields DEF Own, ServerOwns

\* SaveServers and the three server-mutation calls.
LEMMA MutationOwn ==
    ASSUME Typed, LeaseInv, Own, Mutation
    PROVE  Own'
<1>1. /\ \A s \in Servers : st[s] \in serverState
      /\ UNCHANGED unmoved => held' = held /\ OthersGoOn(Free)
      /\ OpHeld
  BY TypedFields, SameActors DEF unmoved, LeaseInv
<1>2. CASE \/ \E next \in Configs : SaveServers(next)
           \/ PrepareBegin \/ PrepareDone \/ ReconcileOK \/ ReconcileFail
  <2>1. UNCHANGED <<st, sess, unmoved>>
    BY <1>2 DEF SaveServers, PrepareBegin, PrepareDone, ReconcileOK, ReconcileFail
  <2> QED BY <1>1, <2>1, OwnStill
<1>3. ASSUME PersistFail \/ \E s \in Servers : PrepareBusy(s) PROVE Own'
  <2>1. UNCHANGED <<sess, unmoved>> /\ (st' = st \/ \E S : st' = Unclaim(S))
    BY <1>3 DEF PersistFail, PrepareBusy
  <2>2. \A s \in Servers : st'[s].session = st[s].session /\ st'[s].op = st[s].op
    BY <2>1, UnclaimStill
  <2> QED BY <1>1, <2>1, <2>2, OwnStill
<1>4. ASSUME NEW s \in Servers, PrepareClaim(s) \/ CommitKeep(s) PROVE Own'
  <2>1. PICK q \in {[st[s] EXCEPT !.mutating = TRUE], [st[s] EXCEPT !.entry = mut.next[s]]} :
            st' = st \/ st' = [st EXCEPT ![s] = q]
    BY <1>4 DEF PrepareClaim, CommitKeep
  <2>2. q.session = st[s].session /\ q.op = st[s].op
    BY <1>1, <2>1 DEF serverState
  <2>3. UNCHANGED <<sess, unmoved>>
    BY <1>4 DEF PrepareClaim, CommitKeep
  <2> QED BY <1>1, <2>1, <2>2, <2>3, OwnStill, OwnRecord
<1>5. CASE CommitBegin
  <2>1. PICK fresh : /\ fresh = {s \in Servers : mut.next[s] # Absent /\ ~st[s].registered}
                     /\ st' = [s \in Servers |-> IF s \in fresh THEN newServerState(mut.next[s])
                                                                ELSE st[s]]
    BY <1>5 DEF CommitBegin
  <2>2. UNCHANGED <<sess, unmoved>> /\ mut.pc # "idle"
    BY <1>5 DEF CommitBegin
  <2>3. \A s \in fresh : s \in Servers /\ ~Known(s)
    BY <2>1, <2>2 DEF LeaseInv, CommitOwned, Known
  <2>4. \A s \in Servers :
            \/ st'[s] = st[s]
            \/ /\ st'[s].session = NoSession /\ st'[s].op = Free
               /\ st[s].session = NoSession /\ held[s] = NoSession
    BY <2>1, <2>3, UnknownIsEmpty DEF newServerState
  <2> QED BY <1>1, <2>2, <2>4, OwnQuiet, OwnerNames DEF OthersGoOn
<1>6. ASSUME NEW s \in Servers, CommitDetach(s) PROVE Own'
  <2>1. PICK changing, deleted, entry :
            st' = [st EXCEPT ![s] = [Detach(@) EXCEPT !.op = "commit",
                                        !.runtimeChanging = changing,
                                        !.deleted = deleted, !.entry = entry]]
    BY <1>6, Zenon DEF CommitDetach
  <2>q. PICK q : q = [Detach(st[s]) EXCEPT !.op = "commit", !.runtimeChanging = changing,
                                           !.deleted = deleted, !.entry = entry]
    OBVIOUS
  <2>2. q.session = NoSession /\ q.op \in Bg
    BY <1>1, <2>q, SessionHelpers, IdleHelpers DEF SameBut, Kept, serverState, Bg
  <2>3. /\ st[s].op = Free /\ UNCHANGED <<sess, act>>
        /\ held' = [held EXCEPT ![s] = st[s].session]
    BY <1>6 DEF CommitDetach
  <2>4. st' = [st EXCEPT ![s] = q]
    BY <2>1, <2>q
  <2> QED BY <1>1, <2>2, <2>3, <2>4, HeldTakes
<1>7. ASSUME NEW s \in Servers, CommitFinish(s) PROVE Own'
  <2>r. PICK r : r = [st[s] EXCEPT !.mutating = FALSE, !.registered = mut.next[s] # Absent]
    OBVIOUS
  <2>1. r.session = st[s].session /\ r \in serverState
    BY <1>1, <2>r DEF serverState
  <2>2. st[s].op \in Bg /\ CloseHeld(s, r)
    BY <1>7, <2>r DEF CommitFinish, Bg
  <2>3. OthersGoOn(Free)
    BY <1>7, MaintainMoves DEF CommitFinish
  <2> QED BY <1>1, <2>1, <2>2, <2>3, HeldCloses
<1>8. ASSUME NEW s \in Servers, CommitStartNew(s) PROVE Own'
  <2>1. UNCHANGED <<st, sess, held>>
    BY <1>8 DEF CommitStartNew
  <2>2. OthersGoOn(Free)
    BY <1>8, MaintainMoves DEF CommitStartNew
  <2> QED BY <2>1, <2>2, OwnStill
<1> QED BY <1>2, <1>3, <1>4, <1>5, <1>6, <1>7, <1>8 DEF Mutation

\* Service.Close.
LEMMA ShutdownOwn ==
    ASSUME Typed, OpHeld, Own, Shutdown
    PROVE  Own'
<1>1. \A s \in Servers : st[s] \in serverState
  BY TypedFields
<1>2. CASE AppCancel \/ CloseBegin \/ CloseDone
  <2>1. UNCHANGED <<st, sess, act, held>>
    BY <1>2 DEF AppCancel, CloseBegin, CloseDone
  <2> QED BY <2>1, SameActors, OwnStill
<1>3. CASE CloseAbort
  <2>1. UNCHANGED <<sess, act, held>> /\ (st' = st \/ \E S : st' = Unclaim(S))
    BY <1>3 DEF CloseAbort
  <2>2. \A s \in Servers : st'[s].session = st[s].session /\ st'[s].op = st[s].op
    BY <2>1, UnclaimStill
  <2> QED BY <2>1, <2>2, SameActors, OwnStill
<1>4. ASSUME NEW s \in Servers, CloseDetach(s) PROVE Own'
  <2>q. PICK q : q = [Detach(st[s]) EXCEPT !.op = "close",
                                    !.runtimeChanging = st[s].session # NoSession]
    OBVIOUS
  <2>1. q.session = NoSession /\ q.op \in Bg
    BY <1>1, <2>q, SessionHelpers, IdleHelpers DEF SameBut, Kept, serverState, Bg
  <2>2. /\ st' = [st EXCEPT ![s] = q] /\ st[s].op = Free /\ UNCHANGED <<sess, act>>
        /\ held' = [held EXCEPT ![s] = st[s].session]
    BY <1>4, <2>q DEF CloseDetach
  <2> QED BY <2>1, <2>2, HeldTakes
<1>5. ASSUME NEW s \in Servers, CloseFinish(s) PROVE Own'
  <2>1. st[s].op \in Bg /\ CloseHeld(s, st[s]) /\ OthersGoOn(Free)
    BY <1>5, SameActors DEF CloseFinish, Bg
  <2> QED BY <1>1, <2>1, HeldCloses
<1> QED BY <1>2, <1>3, <1>4, <1>5 DEF Shutdown

\* At the start nothing runs.
LEMMA OwnInit == Init => Own
<1> SUFFICES ASSUME Init PROVE Own
  OBVIOUS
<1>1. \A s \in Servers : ServerOwns(s)
  BY DEF Init, ServerOwns, newServerState
<1>2. \A a \in Actors : ActorOwns(a)
  BY DEF Init, ActorOwns, Idle, OpPcs
<1>3. NoOrphanRuntime
  BY DEF Init, NoOrphanRuntime, Live, NoRuntime
<1> QED BY <1>1, <1>2, <1>3 DEF Own

\* Every action keeps the owners in order.
LEMMA OwnInvariant == Typed /\ LeaseInv /\ Own /\ [Next]_vars => Own'
<1> SUFFICES ASSUME Typed, LeaseInv, Own, [Next]_vars PROVE Own'
  OBVIOUS
<1>0. OpHeld
  BY DEF LeaseInv
<1>1. ASSUME NEW a \in Actors, Operation(a) PROVE Own'
  BY <1>0, <1>1, EnterOwn, HoldOwn DEF Operation, Enter
<1>2. ASSUME NEW a \in Actors, NEW x \in Sessions, ConnectOK(a, x) PROVE Own'
  BY <1>0, <1>2, HoldOwn
<1>3. CASE UNCHANGED vars
  BY <1>3, OwnStill, SameActors DEF vars
<1>4. CASE Background
  BY <1>0, <1>4, BackgroundOwn
<1>5. CASE Mutation
  BY <1>5, MutationOwn
<1>6. CASE Shutdown
  BY <1>0, <1>6, ShutdownOwn
<1>7. CASE Terminated
  BY <1>3, <1>7 DEF Terminated
<1> QED BY <1>1, <1>2, <1>3, <1>4, <1>5, <1>6, <1>7, CallerOwn DEF Next

\* Ownership as an invariant of the specification.
LEMMA OwnershipHolds == Spec => [](Typed /\ LeaseInv /\ Own)
<1>1. Typed /\ LeaseInv /\ Own /\ [Next]_vars => (Typed /\ LeaseInv /\ Own)'
  BY TypeInvariant, LeaseInvariant, OwnInvariant
<1>2. Init => Typed /\ LeaseInv /\ Own
  BY TypeInit, LeaseInit, OwnInit
<1> QED BY <1>1, <1>2, PTL DEF Spec

\* At most one live runtime per server: whoever starts a runtime holds op of the
\* server and has taken out and closed the one before.
THEOREM OneRuntimeEach == Spec => []OneRuntime
<1>1. Typed /\ LeaseInv /\ Own => OneRuntime
  <2> SUFFICES ASSUME Typed, LeaseInv, Own, NEW s \in Servers,
                      NEW x \in Sessions, NEW y \in Sessions,
                      Live(x), sess[x].srv = s, Live(y), sess[y].srv = s
               PROVE  x = y
    BY DEF OneRuntime
  <2>0. OpHeld /\ st[s].op \in Owners
    BY TypedFields DEF LeaseInv, serverState
  <2>1. CASE st[s].op = Free
    BY <2>0, <2>1, SoleFree
  <2>2. CASE st[s].op \in Bg
    BY <2>0, <2>2, SoleHeld
  <2>3. CASE \E a \in Actors : act[a].pc \in OpPcs /\ act[a].srv = s
    BY <2>0, <2>3, SoleActor
  <2>4. CASE st[s].op \in Actors /\ \A a \in Actors : act[a].pc \in OpPcs => act[a].srv # s
    <3>1. \A a \in Actors, z \in Sessions : act[a].pc \in OpPcs /\ act[a].x = z => sess[z].srv # s
      BY <2>4, OwnerNames DEF Own, ActorOwns, Of
    <3> QED BY <2>4, <3>1, OwnerNames DEF Own, NoOrphanRuntime, ServerOwns
  <2> QED BY <2>0, <2>1, <2>2, <2>3, <2>4 DEF Owners, Bg
<1> QED BY <1>1, OwnershipHolds, PTL

\* Every live runtime is the server's session, or with somebody who will close or
\* install it: no error path of a start, stop, idle stop, commit or Close drops one.
THEOREM NoRuntimeIsLost == Spec => []NoOrphanRuntime
<1>1. Own => NoOrphanRuntime
  BY DEF Own
<1> QED BY <1>1, OwnershipHolds, PTL

-----------------------------------------------------------------------------
(* What a mutation and Close alone may touch *)

\* The four fields of a server that only a mutation writes, and op in the hands
\* of a commit or of Close.
Alike(q, r) ==
    /\ q.registered = r.registered /\ q.deleted = r.deleted
    /\ q.entry = r.entry /\ q.mutating = r.mutating
    /\ q.op # r.op => q.op \notin {"commit", "close"} /\ r.op \notin {"commit", "close"}

Passing == Actors \cup {Free, "idle"}

\* A passing owner is neither a commit nor Close.
LEMMA PassingOwners ==
    \A o \in Passing : o \in Owners /\ o # "commit" /\ o # "close"
BY ConstantsAssumption DEF Passing, Owners, Actors, Free

\* A free op is a passing owner.
LEMMA FreePasses == Free \in Passing
BY DEF Passing

\* Calls, leases, watchers, maintainers and idle timers leave them alone.
Calling ==
    \/ \E c \in Clients, s \in Servers, job \in AllJobs : Begin(c, s, job)
    \/ \E a \in Actors : GiveUp(a) \/ Operation(a)
    \/ \E a \in Actors, x \in Sessions : ConnectOK(a, x)
    \/ \E c \in Clients : Release(c) \/ TaskExpires(c) \/ ExpiryRelease(c)
    \/ \E x \in Sessions : Crash(x) \/ ContractChange(x)
    \/ Background

\* A step that writes one record, or none.
AlikeStep ==
    \/ st' = st
    \/ \E s \in Servers, q \in serverState : st' = [st EXCEPT ![s] = q] /\ Alike(q, st[s])

\* The helpers of serverState leave the mutation fields and the entry alone.
LEMMA AlikeRecords ==
    ASSUME NEW r \in serverState
    PROVE  /\ \A q : Kept(q, r) => Alike(q, r) /\ q \in serverState
           /\ Kept(Detach(r), r) /\ Kept(cancelIdleLocked(r), r)
           /\ Kept(scheduleIdleLocked(r), r) /\ Kept(releaseLocked(r), r) /\ Kept(Unuse(r), r)
           /\ \A o \in Passing : r.op = Free =>
                /\ Alike([Detach(r) EXCEPT !.op = o], r)
                /\ [Detach(r) EXCEPT !.op = o] \in serverState
           /\ \A o \in Passing : r.op = Free =>
                LET q == [Detach(r) EXCEPT !.active = @ + 1, !.op = o]
                IN  Alike(q, r) /\ q \in serverState
           /\ \A o \in Passing : r.op = Free =>
                LET q == [Detach(r) EXCEPT !.runtimeChanging = TRUE, !.op = o]
                IN  Alike(q, r) /\ q \in serverState
<1>1. /\ Kept(Detach(r), r) /\ Kept(cancelIdleLocked(r), r)
      /\ Kept(scheduleIdleLocked(r), r) /\ Kept(releaseLocked(r), r) /\ Kept(Unuse(r), r)
  BY IdleHelpers, LessEffect DEF SameBut, Less
<1>2. \A q : Kept(q, r) => Alike(q, r) /\ q \in serverState
  BY DEF Kept, Alike
<1>3. \A d \in serverState, o \in Passing : r.op = Free /\ Alike(d, r) =>
        /\ Alike([d EXCEPT !.op = o], r) /\ [d EXCEPT !.op = o] \in serverState
  BY PassingOwners, FreePasses DEF Alike, serverState
<1>4. \A d \in serverState, o \in Passing : r.op = Free /\ Alike(d, r) =>
        /\ Alike([d EXCEPT !.runtimeChanging = TRUE, !.op = o], r)
        /\ [d EXCEPT !.runtimeChanging = TRUE, !.op = o] \in serverState
  BY PassingOwners, FreePasses DEF Alike, serverState
<1>5. \A d \in serverState, o \in Passing : r.op = Free /\ Alike(d, r) =>
        /\ Alike([d EXCEPT !.active = @ + 1, !.op = o], r)
        /\ [d EXCEPT !.active = @ + 1, !.op = o] \in serverState
  <2> TAKE d \in serverState, o \in Passing
  <2>1. d.active + 1 \in Nat
    BY DEF serverState
  <2>2. \A n \in Nat : r.op = Free /\ Alike(d, r) =>
          /\ Alike([d EXCEPT !.active = n, !.op = o], r)
          /\ [d EXCEPT !.active = n, !.op = o] \in serverState
    BY PassingOwners, FreePasses DEF Alike, serverState
  <2> QED BY <2>1, <2>2
<1>d. PICK d : d = Detach(r)
  OBVIOUS
<1>6. d \in serverState /\ Alike(d, r)
  BY <1>1, <1>2, <1>d
<1> QED BY <1>1, <1>2, <1>3, <1>4, <1>5, <1>6, <1>d

\* So does the end of an operation.
LEMMA FinishAlike ==
    ASSUME NEW a, st[act[a].srv] \in serverState, st[act[a].srv].op \in Passing
    PROVE  Alike(Finish(a), st[act[a].srv]) /\ Finish(a) \in serverState
<1>r. PICK r : r = st[act[a].srv]
  OBVIOUS
<1>1. \A q \in serverState : Alike(q, r) =>
        Alike([q EXCEPT !.op = Free], r) /\ [q EXCEPT !.op = Free] \in serverState
  BY <1>r, PassingOwners, FreePasses DEF Alike, serverState
<1>2. \A q \in serverState : Alike(q, r) =>
        /\ Alike([q EXCEPT !.runtimeChanging = FALSE, !.op = Free], r)
        /\ [q EXCEPT !.runtimeChanging = FALSE, !.op = Free] \in serverState
  BY <1>r, PassingOwners, FreePasses DEF Alike, serverState
<1>3. Kept(Unuse(r), r) /\ Kept(r, r)
  BY <1>r, LessEffect DEF Less, Kept
<1>4. Alike(Unuse(r), r) /\ Unuse(r) \in serverState /\ Alike(r, r) /\ r \in serverState
  BY <1>3 DEF Kept, Alike
<1> QED BY <1>1, <1>2, <1>4, <1>r DEF Finish

\* Callers and the background leave the mutation, Close and the edits alone.
LEMMA CallingKeeps ==
    ASSUME Typed, OpHeld, Calling
    PROVE  /\ AlikeStep
           /\ UNCHANGED <<shut, mut, pending, servers, closing, ctxDone>>
<1>1. /\ \A s \in Servers : st[s] \in serverState
      /\ \A a \in Actors : act[a].pc # "idle" => act[a].srv \in Servers
      /\ \A a \in Actors : a \in Passing
      /\ \A a \in Actors : act[a].pc \in OpPcs => st[act[a].srv].op \in Passing
      /\ Clients \subseteq Actors /\ Workers \subseteq Actors
      /\ UNCHANGED background => UNCHANGED <<shut, mut, pending, servers, closing, ctxDone>>
  BY TypedFields DEF Passing, Actors, background, OpHeld
<1>2. ASSUME NEW s \in Servers, NEW q, st' = [st EXCEPT ![s] = q],
             Alike(q, st[s]) /\ q \in serverState
      PROVE  AlikeStep
  BY <1>2 DEF AlikeStep
<1>3. ASSUME NEW a \in Actors, Enter(a) PROVE AlikeStep /\ UNCHANGED background
  <2>s. PICK s : s = act[a].srv
    OBVIOUS
  <2>r. PICK r : r = st[s]
    OBVIOUS
  <2>1. s \in Servers /\ r \in serverState /\ UNCHANGED background /\ r.op = Free
    BY <1>1, <1>3, <2>s, <2>r DEF Enter, Refuse, AcquireManualStopped, AcquireReuse,
           AcquireColdStart, StartRunning, StartCold, StopEnter, RestartEnter, Enters
  <2>2. PICK q \in {Detach(r), [Detach(r) EXCEPT !.op = a],
                    [cancelIdleLocked(r) EXCEPT !.active = @ + 1],
                    [Detach(r) EXCEPT !.active = @ + 1, !.op = a],
                    [Detach(r) EXCEPT !.runtimeChanging = TRUE, !.op = a]} :
            st' = st \/ st' = [st EXCEPT ![s] = q]
    BY <1>3, <2>s, <2>r DEF Enter, Refuse, AcquireManualStopped, AcquireReuse,
           AcquireColdStart, StartRunning, StartCold, StopEnter, RestartEnter
  <2>3. Kept(cancelIdleLocked(r), r)
    BY <2>1, AlikeRecords
  <2>4. LET d == [cancelIdleLocked(r) EXCEPT !.active = @ + 1]
        IN  Alike(d, r) /\ d \in serverState
    BY <2>3 DEF Kept, Alike, serverState
  <2>5. Alike(q, r) /\ q \in serverState
    BY <1>1, <2>1, <2>2, <2>4, AlikeRecords
  <2> QED BY <1>2, <2>1, <2>r, <2>2, <2>5 DEF AlikeStep
<1>4. ASSUME NEW a \in Actors, CloseOld(a) \/ ConnectFail(a) \/ Discard(a)
      PROVE  AlikeStep /\ UNCHANGED background
  <2>1. /\ act[a].srv \in Servers /\ UNCHANGED background /\ act[a].pc \in OpPcs
        /\ st' = st \/ st' = [st EXCEPT ![act[a].srv] = Finish(a)]
    BY <1>1, <1>4 DEF CloseOld, ConnectFail, Discard, OpPcs
  <2> QED BY <1>1, <1>2, <2>1, FinishAlike DEF AlikeStep
<1>5. ASSUME NEW a \in Actors, Install(a) PROVE AlikeStep /\ UNCHANGED background
  <2>s. PICK s : s = act[a].srv
    OBVIOUS
  <2>r. PICK r : r = [st[s] EXCEPT !.session = act[a].x]
    OBVIOUS
  <2>d. PICK done : done = [r EXCEPT !.runtimeChanging = FALSE, !.op = Free]
    OBVIOUS
  <2>f. PICK free : free = [r EXCEPT !.op = Free]
    OBVIOUS
  <2>0. act[a].pc \in OpPcs
    BY <1>5 DEF Install, OpPcs
  <2>1. s \in Servers /\ UNCHANGED background /\ act[a].x \in Sessions \cup {NoSession}
        /\ st[s].op \in Passing
    BY <1>1, <1>5, <2>0, <2>s, TypedFields DEF Install
  <2>2. r \in serverState /\ Alike(r, st[s])
    BY <1>1, <2>1, <2>r DEF serverState, Alike
  <2>3. done \in serverState /\ Alike(done, st[s])
    BY <2>1, <2>2, <2>d, PassingOwners, FreePasses DEF serverState, Alike
  <2>4. free \in serverState /\ Alike(free, st[s])
    BY <2>1, <2>2, <2>f, PassingOwners, FreePasses DEF serverState, Alike
  <2>5. Kept(scheduleIdleLocked(done), done)
    BY <2>3, AlikeRecords
  <2>6. PICK q \in {Finish(a), free, done, scheduleIdleLocked(done)} : st' = [st EXCEPT ![s] = q]
    BY <1>5, <2>s, <2>r, <2>d, <2>f DEF Install
  <2>7. Alike(q, st[s]) /\ q \in serverState
    BY <1>1, <2>1, <2>s, <2>3, <2>4, <2>5, <2>6, FinishAlike DEF Kept, Alike
  <2> QED BY <1>2, <2>1, <2>6, <2>7
<1>6. ASSUME NEW a \in Actors, NEW x \in Sessions, ConnectOK(a, x)
      PROVE  AlikeStep /\ UNCHANGED background
  BY <1>6 DEF ConnectOK, AlikeStep
<1>7. ASSUME \/ \E c \in Clients, s \in Servers, job \in AllJobs : Begin(c, s, job)
             \/ \E a \in Actors : GiveUp(a)
             \/ \E c \in Clients : TaskExpires(c)
             \/ \E x \in Sessions : Crash(x) \/ ContractChange(x) \/ WatchClose(x)
             \/ \E w \in Workers : MaintainExit(w) \/ MaintainTry(w)
      PROVE  AlikeStep /\ UNCHANGED background
  BY <1>7 DEF Begin, GiveUp, TaskExpires, Crash, ContractChange, WatchClose, MaintainExit,
              MaintainTry, AlikeStep
<1>8. ASSUME NEW c \in Clients, Release(c) \/ ExpiryRelease(c)
      PROVE  AlikeStep /\ UNCHANGED background
  <2>1. UNCHANGED background /\ (act[c].pc # "idle" \/ act[c].timer = "fired")
    BY <1>8 DEF Release, ExpiryRelease
  <2>2. PICK q : /\ q = IF act[c].released THEN st[act[c].srv] ELSE releaseLocked(st[act[c].srv])
                 /\ st' = [st EXCEPT ![act[c].srv] = q]
    BY <1>8 DEF Release, ExpiryRelease, releaseOnce
  <2>3. CASE act[c].srv \in Servers
    <3>1. Kept(releaseLocked(st[act[c].srv]), st[act[c].srv])
      BY <1>1, <2>3, AlikeRecords
    <3>2. Alike(q, st[act[c].srv]) /\ q \in serverState
      BY <1>1, <2>2, <2>3, <3>1 DEF Kept, Alike
    <3> QED BY <1>2, <1>8, <2>2, <2>3, <3>2 DEF Release, ExpiryRelease
  <2>4. CASE act[c].srv \notin Servers
    <3>1. st' = st
      BY <2>2, <2>4 DEF Typed, StOK
    <3> QED BY <1>8, <3>1 DEF AlikeStep, Release, ExpiryRelease
  <2> QED BY <2>3, <2>4
<1>9. ASSUME NEW x \in Sessions, WatchDetach(x) PROVE AlikeStep /\ UNCHANGED background
  <2>1. /\ sess[x].srv \in Servers /\ UNCHANGED background
        /\ st' = [st EXCEPT ![sess[x].srv] = Detach(st[sess[x].srv])]
    BY <1>9 DEF WatchDetach, Exited, Typed, SessOK, RuntimeOK
  <2> QED BY <1>1, <1>2, <2>1, AlikeRecords
<1>10. ASSUME NEW s \in Servers, NEW w \in Workers, StartAlwaysOn(s, w)
       PROVE  AlikeStep /\ UNCHANGED <<shut, mut, pending, servers, closing, ctxDone>>
  BY <1>10 DEF StartAlwaysOn, AlikeStep
<1>11. ASSUME NEW s \in Servers, IdleFire(s) \/ IdleDrop(s) \/ IdleEarly(s)
       PROVE  AlikeStep /\ UNCHANGED background
  <2>1. PICK q \in {[st[s] EXCEPT !.idle = "fired"], cancelIdleLocked(st[s]),
                    scheduleIdleLocked(st[s])} :
            st' = [st EXCEPT ![s] = q]
    BY <1>11 DEF IdleFire, IdleDrop, IdleEarly
  <2>2. Alike([st[s] EXCEPT !.idle = "fired"], st[s])
        /\ [st[s] EXCEPT !.idle = "fired"] \in serverState
    BY <1>1 DEF serverState, Alike
  <2>3. /\ Kept(cancelIdleLocked(st[s]), st[s]) /\ Kept(scheduleIdleLocked(st[s]), st[s])
        /\ \A d : Kept(d, st[s]) => Alike(d, st[s]) /\ d \in serverState
    BY <1>1, AlikeRecords
  <2>4. Alike(q, st[s]) /\ q \in serverState
    BY <2>1, <2>2, <2>3
  <2>5. UNCHANGED background
    BY <1>11 DEF IdleFire, IdleDrop, IdleEarly
  <2> QED BY <1>2, <2>1, <2>4, <2>5
<1>12. ASSUME NEW s \in Servers, idleStop(s) \/ IdleFinish(s)
       PROVE  AlikeStep /\ UNCHANGED <<shut, mut, pending, servers, closing, ctxDone>>
  <2>1. UNCHANGED <<shut, mut, pending, servers, closing, ctxDone>>
    BY <1>12 DEF idleStop, IdleFinish, afterHeld
  <2>r. PICK r : r = st[s]
    OBVIOUS
  <2>d. PICK d : d = [Detach(r) EXCEPT !.runtimeChanging = TRUE, !.op = "idle"]
    OBVIOUS
  <2>f. PICK f : f = [r EXCEPT !.runtimeChanging = FALSE, !.op = Free]
    OBVIOUS
  <2>0. r \in serverState /\ {Free, "idle"} \subseteq Passing
    BY <1>1, <2>r DEF Passing
  <2>2. PICK q : /\ st' = [st EXCEPT ![s] = q]
                 /\ (q = d /\ r.op = Free) \/ (q = f /\ r.op = "idle")
    BY <1>12, <2>r, <2>d, <2>f DEF idleStop, IdleFinish, CloseHeld
  <2>3. r.op = "idle" => Alike(f, r) /\ f \in serverState
    BY <2>0, <2>f, PassingOwners, FreePasses DEF serverState, Alike
  <2>4. r.op = Free => Alike(d, r) /\ d \in serverState
    BY <2>0, <2>d, AlikeRecords
  <2>5. Alike(q, st[s]) /\ q \in serverState
    BY <2>2, <2>3, <2>4, <2>r
  <2> QED BY <1>2, <2>1, <2>2, <2>5
<1>13. CASE Background
  BY <1>1, <1>7, <1>9, <1>10, <1>11, <1>12, <1>13 DEF Background
<1>14. ASSUME NEW a \in Actors, Operation(a)
       PROVE  AlikeStep /\ UNCHANGED background
  BY <1>3, <1>4, <1>5, <1>14 DEF Operation, Enter
<1> QED BY <1>1, <1>6, <1>7, <1>8, <1>13, <1>14 DEF Calling

\* The same, server by server.
LEMMA AlikeServers ==
    ASSUME Typed, AlikeStep
    PROVE  \A s \in Servers : Alike(st'[s], st[s])
BY DEF Typed, StOK, AlikeStep, Alike

-----------------------------------------------------------------------------
(* Reservations *)

\* What is reserved, and who will end the reservation. A reservation is in the
\* hands of Prepare, then of pending, then of the commit, never of two of them.
Reserved ==
    /\ \A s \in mut.claimed : st[s].mutating
    /\ pending # NoPending => mut.pc = "prepared" /\ \A s \in pending : st[s].mutating
    /\ mut.pc \notin {"claim", "commit"} => mut.claimed = {}
    /\ ReservationOwned

\* Close runs after closing was raised, and closing after the context is cancelled.
Closers ==
    /\ shut.phase # "up" => closing
    /\ \A s \in Servers : st[s].op = "close" => shut.phase = "drain" /\ s \in shut.todo
    /\ closing => ctxDone

\* What the type invariant says of the mutation in progress.
LEMMA MutatorFields ==
    ASSUME Typed
    PROVE  /\ mut \in Mutator /\ mut.claimed \subseteq Servers
           /\ pending # NoPending => pending \subseteq Servers
           /\ NoPending # {} /\ ~(NoPending \subseteq Servers)
           /\ \A s \in Servers : st[s] \in serverState /\ st[s].mutating \in BOOLEAN
BY ConstantsAssumption DEF Typed, RestOK, StOK, Mutator, NoPending, serverState

\* The steps of SaveServers hand a reservation on or drop it.
LEMMA ReservedMutation ==
    ASSUME Typed, LeaseInv, Reserved, Mutation
    PROVE  Reserved'
<1>1. /\ mut \in Mutator /\ mut.claimed \subseteq Servers
      /\ pending # NoPending => pending \subseteq Servers
      /\ \A s \in Servers : st[s] \in serverState
      /\ st \in [Servers -> serverState]
  BY MutatorFields DEF Typed, StOK
<1>2. ASSUME NEW S, st' = Unclaim(S)
      PROVE  \A s \in Servers : st'[s].mutating = IF s \in S THEN FALSE ELSE st[s].mutating
  BY <1>1, <1>2 DEF Unclaim, serverState
<1>3. CASE \/ \E next \in Configs : SaveServers(next)
           \/ PrepareBegin \/ ReconcileOK \/ ReconcileFail
  <2>1. /\ UNCHANGED <<st, pending>> /\ mut'.claimed = mut.claimed
        /\ mut.pc # "prepared" /\ mut'.pc \in {"idle", "prepare", "claim"}
        /\ mut.pc \in {"claim", "commit"} => mut.claimed = {}
    BY <1>1, <1>3 DEF SaveServers, PrepareBegin, ReconcileOK, ReconcileFail, Committed, Mutator
  <2> QED BY <2>1 DEF Reserved, ReservationOwned
<1>4. CASE PrepareDone
  <2>1. /\ UNCHANGED st /\ pending' = mut.claimed /\ mut'.claimed = {}
        /\ mut'.pc = "prepared" /\ mut.pc = "claim"
    BY <1>1, <1>4 DEF PrepareDone, Mutator
  <2>2. pending = NoPending /\ pending' # NoPending
    BY <1>1, <2>1, MutatorFields DEF Reserved
  <2> QED BY <2>1, <2>2 DEF Reserved, ReservationOwned
<1>5. CASE PersistFail
  <2>1. /\ mut.pc = "prepared" /\ mut'.pc = "idle" /\ mut'.claimed = mut.claimed
        /\ pending' = NoPending
        /\ IF pending = NoPending THEN st' = st ELSE st' = Unclaim(pending)
    BY <1>1, <1>5 DEF PersistFail, Mutator
  <2>2. \A s \in Servers : st'[s].mutating = FALSE
    <3> TAKE s \in Servers
    <3>1. st[s].mutating => pending # NoPending /\ s \in pending
      BY <2>1 DEF Reserved, ReservationOwned
    <3> QED BY <1>2, <2>1, <3>1, MutatorFields
  <2> QED BY <2>1, <2>2 DEF Reserved, ReservationOwned
<1>6. CASE CommitBegin
  <2>1. PICK fresh : /\ fresh = {s \in Servers : mut.next[s] # Absent /\ ~st[s].registered}
                     /\ st' = [s \in Servers |-> IF s \in fresh THEN newServerState(mut.next[s])
                                                                ELSE st[s]]
    BY <1>6 DEF CommitBegin
  <2>2. /\ mut.pc = "prepared" /\ mut'.pc = "commit" /\ pending' = NoPending
        /\ mut'.claimed = IF pending = NoPending THEN {} ELSE pending
    BY <1>1, <1>6 DEF CommitBegin, Mutator
  <2>3. \A s \in fresh : s \in Servers /\ ~Known(s)
    BY <2>1, <2>2 DEF LeaseInv, CommitOwned, Known
  <2>4. \A s \in Servers : st'[s].mutating = IF s \in fresh THEN FALSE ELSE st[s].mutating
    BY <2>1 DEF newServerState
  <2>5. pending # NoPending => pending \cap fresh = {}
    BY <2>3 DEF LeaseInv, KnownOnly
  <2>6. \A s \in mut'.claimed : s \in Servers /\ st'[s].mutating
    BY <1>1, <2>2, <2>4, <2>5 DEF Reserved
  <2>7. \A s \in Servers : st'[s].mutating => s \in mut'.claimed
    BY <2>2, <2>4 DEF Reserved, ReservationOwned
  <2> QED BY <2>2, <2>6, <2>7 DEF Reserved, ReservationOwned
<1>7. ASSUME NEW s \in Servers, PrepareClaim(s) PROVE Reserved'
  <2>1. /\ mut.pc = "claim" /\ mut'.pc = "claim" /\ pending' = pending
        /\ mut'.claimed = IF st[s].registered THEN mut.claimed \cup {s} ELSE mut.claimed
    BY <1>1, <1>7 DEF PrepareClaim, Mutator
  <2>2. \A t \in Servers : st'[t].mutating = IF st[s].registered /\ t = s THEN TRUE ELSE st[t].mutating
    BY <1>1, <1>7 DEF PrepareClaim, serverState
  <2> QED BY <1>1, <2>1, <2>2 DEF Reserved, ReservationOwned
<1>8. ASSUME NEW s \in Servers, PrepareBusy(s) PROVE Reserved'
  <2>1. /\ mut.pc = "claim" /\ mut'.pc = "idle" /\ pending' = pending
        /\ mut'.claimed = {} /\ st' = Unclaim(mut.claimed)
    BY <1>1, <1>8 DEF PrepareBusy, Mutator
  <2>2. \A t \in Servers : st'[t].mutating = FALSE
    <3> TAKE t \in Servers
    <3>1. st[t].mutating => t \in mut.claimed
      BY <2>1 DEF Reserved, ReservationOwned
    <3> QED BY <1>2, <2>1, <3>1, MutatorFields
  <2> QED BY <2>1, <2>2 DEF Reserved, ReservationOwned
<1>9. ASSUME NEW s \in Servers, CommitKeep(s) \/ CommitDetach(s) \/ CommitStartNew(s)
      PROVE  Reserved'
  <2>1. /\ mut'.claimed = mut.claimed /\ mut'.pc = "commit" /\ mut.pc = "commit"
        /\ pending' = pending
    BY <1>1, <1>9 DEF CommitKeep, CommitDetach, CommitStartNew, Mutator
  <2>2. \A t \in Servers : st'[t].mutating = st[t].mutating
    <3>1. CASE CommitKeep(s)
      BY <1>1, <3>1 DEF CommitKeep, serverState
    <3>2. CASE CommitDetach(s)
      <4>1. PICK changing, deleted, entry :
            st' = [st EXCEPT ![s] = [Detach(@) EXCEPT !.op = "commit",
                                        !.runtimeChanging = changing,
                                        !.deleted = deleted, !.entry = entry]]
        BY <3>2, Zenon DEF CommitDetach
      <4>2. Detach(st[s]) \in serverState /\ Detach(st[s]).mutating = st[s].mutating
        BY <1>1, AlikeRecords DEF Kept
      <4>3. [Detach(st[s]) EXCEPT !.op = "commit", !.runtimeChanging = changing,
                !.deleted = deleted, !.entry = entry].mutating = st[s].mutating
        BY <4>2 DEF serverState
      <4> QED BY <1>1, <4>1, <4>3
    <3>3. CASE CommitStartNew(s)
      BY <3>3 DEF CommitStartNew
    <3> QED BY <1>9, <3>1, <3>2, <3>3
  <2> QED BY <1>1, <2>1, <2>2 DEF Reserved, ReservationOwned
<1>10. ASSUME NEW s \in Servers, CommitFinish(s) PROVE Reserved'
  <2>1. /\ mut'.claimed = mut.claimed \ {s} /\ mut'.pc = mut.pc /\ pending' = pending
        /\ mut.pc = "commit"
    BY <1>1, <1>10 DEF CommitFinish, Mutator, LeaseInv, CommitOwned
  <2>2. \A t \in Servers : st'[t].mutating = IF t = s THEN FALSE ELSE st[t].mutating
    <3>q. PICK q : q = [[st[s] EXCEPT !.mutating = FALSE, !.registered = mut.next[s] # Absent]
                        EXCEPT !.runtimeChanging = FALSE, !.op = Free]
      OBVIOUS
    <3>1. st' = [st EXCEPT ![s] = q]
      BY <1>10, <3>q DEF CommitFinish, CloseHeld
    <3>2. q.mutating = FALSE
      BY <1>1, <3>q DEF serverState
    <3> QED BY <1>1, <3>1, <3>2
  <2> QED BY <1>1, <2>1, <2>2 DEF Reserved, ReservationOwned
<1> QED BY <1>3, <1>4, <1>5, <1>6, <1>7, <1>8, <1>9, <1>10 DEF Mutation

\* A step that touches no reservation keeps them in order.
LEMMA ReservedStill ==
    ASSUME Typed, Reserved, UNCHANGED <<mut, pending>>,
           \A s \in Servers : st'[s].mutating = st[s].mutating
    PROVE  Reserved'
BY MutatorFields DEF Reserved, ReservationOwned

\* Close drops what is pending together with its reservations.
LEMMA ReservedShutdown ==
    ASSUME Typed, Reserved, Shutdown
    PROVE  Reserved'
<1>1. /\ \A s \in Servers : st[s] \in serverState
      /\ st \in [Servers -> serverState]
      /\ mut.claimed \subseteq Servers
  BY MutatorFields DEF Typed, StOK
<1>2. CASE AppCancel \/ CloseBegin \/ CloseDone
  BY <1>2, ReservedStill DEF AppCancel, CloseBegin, CloseDone
<1>3. CASE CloseAbort
  <2>1. /\ mut.pc # "claim" /\ UNCHANGED mut /\ pending' = NoPending
        /\ IF pending = NoPending THEN st' = st ELSE st' = Unclaim(pending)
    BY <1>3 DEF CloseAbort
  <2>2. CASE pending = NoPending
    BY <2>1, <2>2 DEF Reserved, ReservationOwned
  <2>3. CASE pending # NoPending
    <3>1. \A s \in Servers : st'[s].mutating = IF s \in pending THEN FALSE ELSE st[s].mutating
      BY <1>1, <2>1, <2>3 DEF Unclaim, serverState
    <3>2. mut.claimed = {}
      BY <2>3 DEF Reserved
    <3> QED BY <2>1, <3>1, <3>2 DEF Reserved, ReservationOwned
  <2> QED BY <2>2, <2>3
<1>4. ASSUME NEW s \in Servers, CloseDetach(s) \/ CloseFinish(s) PROVE Reserved'
  <2>d. PICK d : d = Detach(st[s])
    OBVIOUS
  <2>1. d \in serverState /\ d.mutating = st[s].mutating
    BY <1>1, <2>d, AlikeRecords DEF Kept
  <2>2. PICK q \in {[d EXCEPT !.op = "close", !.runtimeChanging = st[s].session # NoSession],
                    [st[s] EXCEPT !.runtimeChanging = FALSE, !.op = Free]} :
            st' = [st EXCEPT ![s] = q]
    BY <1>4, <2>d DEF CloseDetach, CloseFinish, CloseHeld
  <2>3. [d EXCEPT !.op = "close", !.runtimeChanging = st[s].session # NoSession].mutating
            = st[s].mutating
    BY <2>1 DEF serverState
  <2>4. [st[s] EXCEPT !.runtimeChanging = FALSE, !.op = Free].mutating = st[s].mutating
    BY <1>1 DEF serverState
  <2>5. \A t \in Servers : st'[t].mutating = st[t].mutating
    BY <1>1, <2>2, <2>3, <2>4
  <2> QED BY <1>4, <2>5, ReservedStill DEF CloseDetach, CloseFinish
<1> QED BY <1>2, <1>3, <1>4 DEF Shutdown

\* Every action keeps the reservations in order.
LEMMA ReservedInvariant == Typed /\ LeaseInv /\ Reserved /\ [Next]_vars => Reserved'
<1> SUFFICES ASSUME Typed, LeaseInv, Reserved, [Next]_vars PROVE Reserved'
  OBVIOUS
<1>1. CASE Calling
  BY <1>1, CallingKeeps, AlikeServers, ReservedStill DEF Alike, LeaseInv
<1>2. CASE UNCHANGED vars
  BY <1>2, ReservedStill DEF vars
<1> QED BY <1>1, <1>2, ReservedMutation, ReservedShutdown DEF Next, Calling, Terminated

-----------------------------------------------------------------------------
(* Leases and the runtimes they are for *)

Leases(c) == act[c].pc = "leased" /\ ~act[c].released

\* A lease is for a runtime; while that runs and the Manager is up, it is the
\* server's session.
LeaseKeeps ==
    /\ \A c \in Clients : act[c].pc = "leased" => act[c].x \in Sessions
    /\ \A c \in Clients : Leases(c) /\ Live(act[c].x) /\ ~closing =>
          st[act[c].srv].session = act[c].x

\* The three things that could part a lease from its runtime.
LEMMA KeepsStep ==
    ASSUME Typed, LeaseKeeps, closing => closing',
           \A c \in Clients : act'[c].pc = "leased" =>
               \/ /\ act[c].pc = "leased"
                  /\ act'[c].x = act[c].x /\ act'[c].srv = act[c].srv
                  /\ act[c].released => act'[c].released
               \/ act'[c].x \in Sessions /\ st'[act'[c].srv].session = act'[c].x,
           \A c \in Clients :
               act[c].pc = "leased" /\ sess'[act[c].x].status = "live" => Live(act[c].x),
           \A s \in Servers :
               \/ st'[s].session = st[s].session
               \/ closing
               \/ \A c \in Clients : Leases(c) /\ act[c].srv = s => ~Live(act[c].x)
    PROVE  LeaseKeeps'
<1>1. \A c \in Clients : act[c].pc = "leased" => act[c].srv \in Servers
  BY TypedFields DEF Actors
<1>2. \A c \in Clients : act'[c].pc = "leased" => act'[c].x \in Sessions
  BY DEF LeaseKeeps
<1>3. ASSUME NEW c \in Clients, act'[c].pc = "leased", ~act'[c].released,
             sess'[act'[c].x].status = "live", ~closing'
      PROVE  st'[act'[c].srv].session = act'[c].x
  <2>1. CASE st'[act'[c].srv].session # act'[c].x
    <3>1. /\ act[c].pc = "leased" /\ ~act[c].released
          /\ act'[c].x = act[c].x /\ act'[c].srv = act[c].srv
      BY <1>3, <2>1
    <3>2. Leases(c) /\ Live(act[c].x) /\ ~closing
      BY <1>3, <3>1 DEF Leases
    <3> QED BY <1>1, <3>1, <3>2 DEF LeaseKeeps
  <2> QED BY <2>1
<1> QED BY <1>2, <1>3 DEF LeaseKeeps, Leases, Live

\* A server without leases, by the count or by a reservation.
LEMMA NobodyLeases ==
    ASSUME Typed, LeaseInv, NEW s \in Servers, st[s].active = 0 \/ st[s].mutating
    PROVE  \A c \in Clients : Leases(c) => act[c].srv # s
<1>1. Users(s) = {}
  <2>1. CASE st[s].active = 0
    BY <2>1, UsersFinite, FS_EmptySet DEF LeaseInv, LeaseAccounting
  <2>2. CASE st[s].mutating
    BY <2>2 DEF LeaseInv, MutationExcludesUse
  <2> QED BY <2>1, <2>2
<1>2. \A c \in Clients : Leases(c) => act[c].job \in UseJobs
  BY DEF Leases, LeaseInv, LeaseShape, Actors
<1> QED BY <1>1, <1>2 DEF Users, Uses, Leases

\* While op is held there is no session, so no lease is for a live runtime.
LEMMA NoLiveLease ==
    ASSUME Typed, Own, LeaseKeeps, NEW s \in Servers, st[s].op # Free
    PROVE  closing \/ \A c \in Clients : Leases(c) /\ act[c].srv = s => ~Live(act[c].x)
BY OwnerNames DEF Own, ServerOwns, LeaseKeeps, Leases

\* Nor while the session is stale and may be taken out.
LEMMA NoStaleLease ==
    ASSUME Typed, LeaseInv, LeaseKeeps, NEW s \in Servers, sessionStale(st[s]),
           ~(sessionContractChanged(st[s]) /\ st[s].active > 0)
    PROVE  closing \/ \A c \in Clients : Leases(c) /\ act[c].srv = s => ~Live(act[c].x)
<1>1. CASE Exited(st[s].session)
  BY <1>1 DEF LeaseKeeps, Exited, Live
<1>2. CASE ~Exited(st[s].session)
  <2>1. st[s].active = 0
    BY <1>2, TypedFields DEF sessionStale, sessionContractChanged, serverState
  <2> QED BY <2>1, NobodyLeases
<1> QED BY <1>1, <1>2

\* Only a server without callers in Acquire loses its session to an operation.
LEMMA EnterKeeps ==
    ASSUME Typed, LeaseInv, Own, LeaseKeeps, NEW a \in Actors, Enter(a)
    PROVE  LeaseKeeps'
<1>s. PICK s : s = act[a].srv
  OBVIOUS
<1>r. PICK r : r = st[s]
  OBVIOUS
<1>1. /\ act[a].pc = "wait" /\ s \in Servers /\ r \in serverState /\ r.op = Free
      /\ act[a] \in ActorState /\ sess' = sess /\ closing' = closing
      /\ act[a].job \in AllJobs
  BY <1>s, <1>r, TypedFields DEF Enter, Refuse, AcquireManualStopped, AcquireReuse,
     AcquireColdStart, StartRunning, StartCold, StopEnter, RestartEnter, Enters, background,
     AllJobs, UseJobs
<1>2. r.session \in Sessions \cup {NoSession}
  BY <1>1 DEF serverState
<1>3. /\ Idle.pc # "leased" /\ Failed(a).pc # "leased"
      /\ \A x : Leased(a, x).x = x /\ Leased(a, x).srv = act[a].srv
      /\ \A x, e : Proceed(a, x, e).pc # "leased"
      /\ \A x, j : [act[a] EXCEPT !.pc = "close", !.job = j, !.x = x].pc # "leased"
  BY <1>1 DEF Idle, Failed, Maintaining, Leased, Proceed, ActorState
<1>4. ASSUME NEW p, Become(a, p),
             p.pc = "leased" => /\ p.x \in Sessions /\ p.srv \in Servers
                                /\ st'[p.srv].session = p.x,
             \/ \A t \in Servers : st'[t].session = st[t].session
             \/ /\ \A t \in Servers \ {s} : st'[t].session = st[t].session
                /\ closing \/ \A c \in Clients : Leases(c) /\ act[c].srv = s => ~Live(act[c].x)
      PROVE  LeaseKeeps'
  <2>1. \A c \in Clients : act'[c] = IF c = a THEN p ELSE act[c]
    BY <1>4 DEF Become, Typed, ActOK, Actors
  <2> QED BY <1>1, <1>4, <2>1, KeepsStep DEF Live
<1>5. ASSUME NEW q, st' = [st EXCEPT ![s] = q]
      PROVE  st'[s] = q /\ \A t \in Servers \ {s} : st'[t].session = st[t].session
  BY <1>1, <1>5 DEF Typed, StOK
<1>6. CASE Refuse(a)
  BY <1>3, <1>4, <1>6 DEF Refuse
<1>7. CASE StartRunning(a)
  BY <1>3, <1>4, <1>7 DEF StartRunning
<1>8. CASE AcquireReuse(a)
  <2>q. PICK q : q = [cancelIdleLocked(r) EXCEPT !.active = @ + 1]
    OBVIOUS
  <2>1. q.session = r.session /\ r.session \in Sessions
    <3>1. cancelIdleLocked(r).session = r.session /\ cancelIdleLocked(r) \in serverState
      BY <1>1, SessionHelpers, AlikeRecords DEF Kept
    <3>2. r.session # NoSession
      BY <1>8, <1>s, <1>r DEF AcquireReuse
    <3> QED BY <1>2, <2>q, <3>1, <3>2 DEF serverState
  <2>2. Become(a, Leased(a, r.session))
    BY <1>8, <1>s, <1>r, Zenon DEF AcquireReuse
  <2>3. st' = [st EXCEPT ![s] = q]
    BY <1>8, <1>s, <1>r, <2>q DEF AcquireReuse
  <2>4. \A t \in Servers : st'[t].session = st[t].session
    BY <1>5, <1>r, <2>1, <2>3
  <2>p. PICK p : p = Leased(a, r.session)
    OBVIOUS
  <2>5. p.x = r.session /\ p.srv = s
    BY <1>3, <1>s, <2>p
  <2> QED BY <1>1, <1>4, <1>r, <2>p, <2>1, <2>2, <2>4, <2>5
<1>9. ASSUME NEW p, Become(a, p), p.pc # "leased", NEW q, st' = [st EXCEPT ![s] = q],
             closing \/ \A c \in Clients : Leases(c) /\ act[c].srv = s => ~Live(act[c].x)
      PROVE  LeaseKeeps'
  BY <1>4, <1>5, <1>9
<1>10. CASE AcquireManualStopped(a)
  <2>1. CASE sessionStale(r)
    <3>1. ~(sessionContractChanged(r) /\ r.active > 0)
      BY <1>10, <1>s, <1>r DEF AcquireManualStopped, Rejected, Enters, UseJobs
    <3>2. closing \/ \A c \in Clients : Leases(c) /\ act[c].srv = s => ~Live(act[c].x)
      BY <1>1, <1>r, <2>1, <3>1, NoStaleLease
    <3>p. PICK p : p = [act[a] EXCEPT !.pc = "close", !.job = "drop", !.x = r.session]
      OBVIOUS
    <3>3. Become(a, p) /\ p.pc # "leased"
      BY <1>3, <1>10, <1>s, <1>r, <2>1, <3>p DEF AcquireManualStopped
    <3>4. PICK q : st' = [st EXCEPT ![s] = q]
      BY <1>10, <1>s, <1>r, <2>1 DEF AcquireManualStopped
    <3> QED BY <1>9, <3>2, <3>3, <3>4
  <2>2. CASE ~sessionStale(r)
    BY <1>3, <1>4, <1>10, <1>s, <1>r, <2>2 DEF AcquireManualStopped
  <2> QED BY <2>1, <2>2
<1>11. CASE AcquireColdStart(a) \/ StartCold(a)
  <2>1. ~(sessionContractChanged(r) /\ r.active > 0)
    BY <1>11, <1>s, <1>r DEF AcquireColdStart, StartCold, Rejected, Enters, UseJobs
  <2>2. closing \/ \A c \in Clients : Leases(c) /\ act[c].srv = s => ~Live(act[c].x)
    <3>1. CASE sessionStale(r)
      BY <1>1, <1>r, <2>1, <3>1, NoStaleLease
    <3>2. CASE r.session = NoSession
      BY <1>1, <1>r, <3>2, OwnerNames DEF LeaseKeeps, Leases
    <3> QED BY <1>11, <1>s, <1>r, <3>1, <3>2 DEF AcquireColdStart, StartCold
  <2>3. PICK p : Become(a, p) /\ p.pc # "leased"
    BY <1>3, <1>11 DEF AcquireColdStart, StartCold
  <2>4. PICK q : st' = [st EXCEPT ![s] = q]
    BY <1>11, <1>s DEF AcquireColdStart, StartCold
  <2> QED BY <1>9, <2>2, <2>3, <2>4
<1>12. CASE StopEnter(a) \/ RestartEnter(a)
  <2>1. r.active = 0
    <3>1. ~Busy(r)
      BY <1>12, <1>s, <1>r DEF StopEnter, RestartEnter, Rejected, UseJobs
    <3> QED BY <1>1, <3>1 DEF Busy, serverState
  <2>2. \A c \in Clients : Leases(c) /\ act[c].srv = s => ~Live(act[c].x)
    BY <1>1, <1>r, <2>1, NobodyLeases
  <2>3. PICK p \in {Idle, [act[a] EXCEPT !.pc = "close", !.x = r.session],
                    Proceed(a, r.session, r.entry)} : Become(a, p)
    BY <1>12, <1>s, <1>r DEF StopEnter, RestartEnter
  <2>5. p.pc # "leased"
    <3>1. [act[a] EXCEPT !.pc = "close", !.x = r.session].pc # "leased"
      BY <1>1 DEF ActorState
    <3>2. Proceed(a, r.session, r.entry).pc # "leased"
      BY <1>3
    <3> QED BY <1>3, <2>3, <3>1, <3>2
  <2>4. PICK q : st' = [st EXCEPT ![s] = q]
    BY <1>12, <1>s DEF StopEnter, RestartEnter
  <2> QED BY <1>9, <2>2, <2>3, <2>4, <2>5
<1> QED BY <1>6, <1>7, <1>8, <1>10, <1>11, <1>12 DEF Enter

\* The other steps of Calling: what they make of the sessions, of the runtimes and
\* of the leases.
LEMMA HoldKeeps ==
    ASSUME Typed, LeaseInv, Own, LeaseKeeps, NEW a \in Actors,
           \/ CloseOld(a) \/ ConnectFail(a) \/ Discard(a) \/ Install(a)
           \/ \E x \in Sessions : ConnectOK(a, x)
    PROVE  LeaseKeeps'
<1>s. PICK s : s = act[a].srv
  OBVIOUS
<1>1. /\ act[a].pc \in OpPcs /\ closing' = closing
      /\ s \in Servers /\ act[a] \in ActorState /\ act[a].pc # "idle" /\ st[s].op = a
      /\ act[a].pc = "connect" \/ act[a].x \in Sessions
  <2>1. act[a].pc \in OpPcs /\ UNCHANGED background
    BY DEF CloseOld, ConnectFail, Discard, Install, ConnectOK, OpPcs
  <2> QED BY <1>s, <2>1, SoleActor, TypedFields, OwnerNames DEF background, LeaseInv, OpHeld
<1>2. closing \/ \A c \in Clients : Leases(c) /\ act[c].srv = s => ~Live(act[c].x)
  BY <1>1, NoLiveLease, OwnerNames
<1>3. ASSUME NEW p, Become(a, p),
             p.pc = "leased" => p.x = act[a].x /\ p.srv = s /\ st'[s].session = act[a].x
                                /\ act[a].x \in Sessions,
             st' = st \/ \E q : st' = [st EXCEPT ![s] = q],
             \A c \in Clients :
                 act[c].pc = "leased" /\ sess'[act[c].x].status = "live" => Live(act[c].x)
      PROVE  LeaseKeeps'
  <2>1. \A c \in Clients : act'[c] = IF c = a THEN p ELSE act[c]
    BY <1>3 DEF Become, Typed, ActOK, Actors
  <2>2. \A t \in Servers \ {s} : st'[t].session = st[t].session
    BY <1>3 DEF Typed, StOK
  <2> QED BY <1>1, <1>2, <1>3, <2>1, <2>2, KeepsStep
<1>4. /\ Idle.pc # "leased" /\ Failed(a).pc # "leased"
      /\ \A e : Proceed(a, NoSession, e).pc # "leased"
      /\ Leased(a, act[a].x).x = act[a].x /\ Leased(a, act[a].x).srv = s
  BY <1>1, <1>s DEF Idle, Failed, Maintaining, Leased, Proceed, ActorState
<1>5. \A c \in Clients : act[c].pc = "leased" => act[c].x \in Sessions
  BY DEF LeaseKeeps
<1>6. ASSUME sess' = sess \/ \E y : sess' = closeRuntime(y)
      PROVE  \A c \in Clients :
                 act[c].pc = "leased" /\ sess'[act[c].x].status = "live" => Live(act[c].x)
  BY <1>5, <1>6, CloseIs DEF Live, NoRuntime
<1>7. CASE CloseOld(a)
  <2>1. PICK p \in {Idle, Proceed(a, NoSession, act[a].entry)} : Become(a, p)
    BY <1>7 DEF CloseOld
  <2>2. sess' = closeRuntime(act[a].x) /\ (st' = st \/ st' = [st EXCEPT ![s] = Finish(a)])
    BY <1>7, <1>s DEF CloseOld
  <2> QED BY <1>3, <1>4, <1>6, <2>1, <2>2
<1>8. CASE ConnectFail(a) \/ Discard(a)
  <2>1. /\ Become(a, Failed(a)) /\ st' = [st EXCEPT ![s] = Finish(a)]
        /\ sess' = sess \/ sess' = closeRuntime(act[a].x)
    BY <1>8, <1>s DEF ConnectFail, Discard
  <2> QED BY <1>3, <1>4, <1>6, <2>1
<1>9. ASSUME NEW x \in Sessions, ConnectOK(a, x) PROVE LeaseKeeps'
  <2>1. PICK p : Become(a, p) /\ p.pc # "leased"
    <3>1. PICK pc \in {"install", "discard"} : Become(a, [act[a] EXCEPT !.pc = pc, !.x = x])
      BY <1>9 DEF ConnectOK
    <3>2. [act[a] EXCEPT !.pc = pc, !.x = x].pc = pc
      BY <1>1 DEF ActorState
    <3> QED BY <3>1, <3>2
  <2>2. /\ st' = st /\ \A y \in Sessions \ {x} : sess'[y] = sess[y]
        /\ \A b \in Actors : act[b].x # x
    BY <1>9 DEF ConnectOK, Typed, SessOK
  <2>3. \A c \in Clients :
            act[c].pc = "leased" /\ sess'[act[c].x].status = "live" => Live(act[c].x)
    BY <1>5, <2>2 DEF Live, Actors
  <2> QED BY <1>3, <2>1, <2>2, <2>3
<1>10. CASE Install(a)
  <2>1. CASE /\ Become(a, Failed(a)) /\ st' = [st EXCEPT ![s] = Finish(a)]
             /\ sess' = closeRuntime(act[a].x)
    BY <1>3, <1>4, <1>6, <2>1
  <2>2. ASSUME sess' = [sess EXCEPT ![act[a].x].watched = TRUE]
        PROVE  \A c \in Clients :
                 act[c].pc = "leased" /\ sess'[act[c].x].status = "live" => Live(act[c].x)
    BY <1>5, <2>2 DEF Live, Typed, SessOK, Runtime
  <2>3. CASE act[a].job \notin UseJobs
    <3>1. /\ Become(a, Idle) /\ sess' = [sess EXCEPT ![act[a].x].watched = TRUE]
          /\ \E q : st' = [st EXCEPT ![s] = q]
      BY <1>10, <1>s, <2>3 DEF Install
    <3> QED BY <1>3, <1>4, <2>2, <3>1
  <2>4. CASE /\ st' = [st EXCEPT ![s] = [[st[s] EXCEPT !.session = act[a].x] EXCEPT !.op = Free]]
             /\ sess' = [sess EXCEPT ![act[a].x].watched = TRUE]
             /\ Become(a, Leased(a, act[a].x))
    <3>q. PICK q : q = [[st[s] EXCEPT !.session = act[a].x] EXCEPT !.op = Free]
      OBVIOUS
    <3>1. q.session = act[a].x
      BY <1>1, <3>q, TypedFields DEF serverState
    <3>2. st'[s].session = act[a].x
      BY <1>1, <2>4, <3>q, <3>1 DEF Typed, StOK
    <3>3. act[a].x \in Sessions
      BY <1>1, <1>10 DEF Install
    <3>p. PICK p : p = Leased(a, act[a].x)
      OBVIOUS
    <3>4. Become(a, p) /\ p.x = act[a].x /\ p.srv = s
      BY <1>4, <2>4, <3>p
    <3> QED BY <1>3, <2>2, <2>4, <3>2, <3>3, <3>4
  <2> QED BY <1>10, <1>s, <2>1, <2>3, <2>4 DEF Install
<1> QED BY <1>7, <1>8, <1>9, <1>10

\* Steps that leave goroutines that lease, and sessions, alone.
LEMMA KeepsQuiet ==
    ASSUME Typed, LeaseKeeps, closing => closing',
           \A c \in Clients : act'[c].pc = "leased" =>
               /\ act[c].pc = "leased"
               /\ act'[c].x = act[c].x /\ act'[c].srv = act[c].srv
               /\ act[c].released => act'[c].released,
           \A x \in Sessions : sess'[x].status = "live" => sess[x].status = "live",
           \A s \in Servers :
               \/ st'[s].session = st[s].session
               \/ closing
               \/ \A c \in Clients : Leases(c) /\ act[c].srv = s => ~Live(act[c].x)
    PROVE  LeaseKeeps'
<1>1. \A c \in Clients :
          act[c].pc = "leased" /\ sess'[act[c].x].status = "live" => Live(act[c].x)
  BY DEF LeaseKeeps, Live
<1> QED BY <1>1, KeepsStep

\* Beginning, giving up, releasing and crashing part no lease from its runtime.
LEMMA CallerKeeps ==
    ASSUME Typed, LeaseKeeps,
           \/ \E c \in Clients, s \in Servers, job \in AllJobs : Begin(c, s, job)
           \/ \E a \in Actors : GiveUp(a)
           \/ \E c \in Clients : Release(c) \/ TaskExpires(c) \/ ExpiryRelease(c)
           \/ \E x \in Sessions : Crash(x) \/ ContractChange(x)
    PROVE  LeaseKeeps'
<1>1. /\ UNCHANGED background => closing' = closing
      /\ \A a \in Actors : act[a] \in ActorState
      /\ Clients \subseteq Actors
      /\ \A s \in Servers : st[s] \in serverState
  BY TypedFields DEF background, Actors
<1>2. ASSUME NEW a \in Actors, NEW p, Become(a, p),
             p.pc = "leased" => /\ act[a].pc = "leased"
                                /\ p.x = act[a].x /\ p.srv = act[a].srv
                                /\ act[a].released => p.released,
             UNCHANGED <<sess, background>>,
             \A t \in Servers : st'[t].session = st[t].session
      PROVE  LeaseKeeps'
  <2>1. \A c \in Clients : act'[c] = IF c = a THEN p ELSE act[c]
    BY <1>2 DEF Become, Typed, ActOK, Actors
  <2> QED BY <1>1, <1>2, <2>1, KeepsQuiet
<1>3. ASSUME NEW c \in Clients, NEW s \in Servers, NEW job \in AllJobs, Begin(c, s, job)
      PROVE  LeaseKeeps'
  <2>p. PICK p : p = [Idle EXCEPT !.pc = "wait", !.job = job, !.srv = s]
    OBVIOUS
  <2>1. p.pc = "wait"
    BY <2>p DEF Idle
  <2>2. Become(c, p) /\ UNCHANGED <<st, sess, background>>
    BY <1>3, <2>p DEF Begin
  <2> QED BY <1>1, <1>2, <2>1, <2>2
<1>4. ASSUME NEW a \in Actors, GiveUp(a) PROVE LeaseKeeps'
  <2>1. Failed(a).pc # "leased"
    BY DEF Failed, Idle, Maintaining
  <2> QED BY <1>2, <1>4, <2>1 DEF GiveUp
<1>5. ASSUME NEW c \in Clients, releaseOnce(c)
      PROVE  \A t \in Servers : st'[t].session = st[t].session
  <2>1. \A t \in Servers : st'[t] \in {st[t], releaseLocked(st[t])}
    BY <1>5 DEF releaseOnce, Typed, StOK
  <2> QED BY <1>1, <2>1, SessionHelpers
<1>6. ASSUME NEW c \in Clients, Release(c) \/ TaskExpires(c) \/ ExpiryRelease(c)
      PROVE  LeaseKeeps'
  <2>1. PICK p \in {Idle, [act[c] EXCEPT !.pc = "done", !.released = TRUE],
                    [act[c] EXCEPT !.timer = "fired"],
                    [act[c] EXCEPT !.released = TRUE, !.timer = "none"]} : Become(c, p)
    BY <1>6 DEF Release, TaskExpires, ExpiryRelease
  <2>2. Idle.pc # "leased"
    BY DEF Idle
  <2>3. [act[c] EXCEPT !.pc = "done", !.released = TRUE].pc # "leased"
    BY <1>1 DEF ActorState
  <2>4. \A p1 \in {[act[c] EXCEPT !.timer = "fired"],
                   [act[c] EXCEPT !.released = TRUE, !.timer = "none"]} :
            /\ p1.pc = act[c].pc /\ p1.x = act[c].x /\ p1.srv = act[c].srv
            /\ act[c].released => p1.released
    BY <1>1 DEF ActorState
  <2>5. UNCHANGED <<sess, background>> /\ (st' = st \/ releaseOnce(c))
    BY <1>6 DEF Release, TaskExpires, ExpiryRelease
  <2>6. p.pc = "leased" => /\ act[c].pc = "leased"
                           /\ p.x = act[c].x /\ p.srv = act[c].srv
                           /\ act[c].released => p.released
    BY <2>1, <2>2, <2>3, <2>4
  <2> QED BY <1>1, <1>2, <1>5, <2>1, <2>5, <2>6
<1>7. ASSUME NEW x \in Sessions, Crash(x) \/ ContractChange(x) PROVE LeaseKeeps'
  <2>1. /\ UNCHANGED <<st, act, background>> /\ sess[x].status = "live"
        /\ \/ sess' = [sess EXCEPT ![x].status = "exited"]
           \/ sess' = [sess EXCEPT ![x].changed = TRUE]
    BY <1>7 DEF Crash, ContractChange, Live
  <2>2. \A y \in Sessions : sess'[y].status = "live" => sess[y].status = "live"
    BY <2>1 DEF Typed, SessOK, Runtime
  <2> QED BY <1>1, <2>1, <2>2, KeepsQuiet
<1> QED BY <1>3, <1>4, <1>6, <1>7

\* A maintainer starts on a worker, which leases nothing.
LEMMA MaintainLeases ==
    ASSUME Typed, NEW s \in Servers, GoMaintain(s) \/ UNCHANGED act
    PROVE  \A c \in Clients : act'[c] = act[c]
<1>1. \A w \in Workers : w \notin Clients
  BY ConstantsAssumption
<1> QED BY <1>1 DEF GoMaintain, Become, Typed, ActOK, Actors

\* Closing what was taken out closes nothing that is a session.
LEMMA CloseHeldKeeps ==
    ASSUME Typed, NEW s \in Servers, NEW r \in serverState, r.session = st[s].session,
           CloseHeld(s, r)
    PROVE  /\ \A x \in Sessions : sess'[x].status = "live" => sess[x].status = "live"
           /\ \A t \in Servers : st'[t].session = st[t].session
<1>1. \A x \in Sessions : sess'[x].status = "live" => sess[x].status = "live"
  BY CloseIs DEF CloseHeld, NoRuntime
<1>q. PICK q : q = [r EXCEPT !.runtimeChanging = FALSE, !.op = Free]
  OBVIOUS
<1>2. q.session = st[s].session
  BY <1>q DEF serverState
<1>3. st' = [st EXCEPT ![s] = q]
  BY <1>q DEF CloseHeld
<1> QED BY <1>1, <1>2, <1>3 DEF Typed, StOK

\* The watcher only takes exited runtimes, the idle stop only unused ones.
LEMMA BackgroundKeeps ==
    ASSUME Typed, LeaseInv, Own, LeaseKeeps, Background
    PROVE  LeaseKeeps'
<1>1. /\ UNCHANGED background \/ UNCHANGED afterHeld => closing' = closing
      /\ \A s \in Servers : st[s] \in serverState
  BY TypedFields DEF background, afterHeld
<1>2. ASSUME NEW x \in Sessions, WatchDetach(x) PROVE LeaseKeeps'
  <2>1. /\ UNCHANGED <<act, background>> /\ sess[x].srv \in Servers
        /\ sess[x].status = "exited" /\ st[sess[x].srv].session = x
        /\ st' = [st EXCEPT ![sess[x].srv] = Detach(st[sess[x].srv])]
        /\ \E why : sess' = [sess EXCEPT ![x].reap = why]
    BY <1>2 DEF WatchDetach, Exited, Typed, SessOK, RuntimeOK
  <2>2. \A y \in Sessions : sess'[y].status = "live" => sess[y].status = "live"
    BY <2>1 DEF Typed, SessOK, Runtime
  <2>3. \A t \in Servers \ {sess[x].srv} : st'[t].session = st[t].session
    BY <2>1 DEF Typed, StOK
  <2>4. closing \/ \A c \in Clients : Leases(c) /\ act[c].srv = sess[x].srv => ~Live(act[c].x)
    BY <2>1 DEF LeaseKeeps, Leases, Live
  <2> QED BY <1>1, <2>1, <2>2, <2>3, <2>4, KeepsQuiet
<1>3. ASSUME NEW x \in Sessions, WatchClose(x) PROVE LeaseKeeps'
  <2>1. sess' = closeRuntime(x) /\ UNCHANGED <<st, background>> /\ sess[x].srv \in Servers
    BY <1>3 DEF WatchClose, Typed, SessOK, RuntimeOK
  <2>2. \A c \in Clients : act'[c] = act[c]
    BY <1>3, <2>1, MaintainLeases DEF WatchClose
  <2>3. \A y \in Sessions : sess'[y].status = "live" => sess[y].status = "live"
    BY <2>1, CloseIs DEF NoRuntime
  <2> QED BY <1>1, <2>1, <2>2, <2>3, KeepsQuiet
<1>4. ASSUME NEW w \in Workers, \/ MaintainExit(w) \/ MaintainTry(w)
                                \/ \E s \in Servers : StartAlwaysOn(s, w)
      PROVE  LeaseKeeps'
  <2>1. w \in Actors /\ w \notin Clients
    BY ConstantsAssumption DEF Actors
  <2>2. UNCHANGED <<st, sess, closing>> /\ (UNCHANGED act \/ \E p : Become(w, p))
    BY <1>1, <1>4 DEF MaintainExit, MaintainTry, StartAlwaysOn
  <2>3. \A c \in Clients : act'[c] = act[c]
    BY <2>1, <2>2 DEF Become, Typed, ActOK, Actors
  <2> QED BY <2>2, <2>3, KeepsQuiet
<1>5. ASSUME NEW s \in Servers, IdleFire(s) \/ IdleDrop(s) \/ IdleEarly(s) PROVE LeaseKeeps'
  <2>1. PICK q \in {[st[s] EXCEPT !.idle = "fired"], cancelIdleLocked(st[s]),
                    scheduleIdleLocked(st[s])} :
            st' = [st EXCEPT ![s] = q]
    BY <1>5 DEF IdleFire, IdleDrop, IdleEarly
  <2>2. [st[s] EXCEPT !.idle = "fired"].session = st[s].session
    BY <1>1 DEF serverState
  <2>3. q.session = st[s].session
    <3>1. /\ cancelIdleLocked(st[s]).session = st[s].session
          /\ scheduleIdleLocked(st[s]).session = st[s].session
      BY <1>1, SessionHelpers
    <3> QED BY <2>1, <2>2, <3>1
  <2>4. \A t \in Servers : st'[t].session = st[t].session
    BY <2>1, <2>3 DEF Typed, StOK
  <2>5. UNCHANGED <<sess, act, closing>>
    BY <1>1, <1>5 DEF IdleFire, IdleDrop, IdleEarly
  <2> QED BY <2>4, <2>5, KeepsQuiet
<1>6. ASSUME NEW s \in Servers, idleStop(s) PROVE LeaseKeeps'
  <2>1. /\ UNCHANGED <<sess, act, closing>> /\ st[s].active = 0
        /\ \E q : st' = [st EXCEPT ![s] = q]
    BY <1>1, <1>6 DEF idleStop, IdleEligible
  <2>2. \A t \in Servers \ {s} : st'[t].session = st[t].session
    BY <2>1 DEF Typed, StOK
  <2>3. \A c \in Clients : Leases(c) /\ act[c].srv = s => ~Live(act[c].x)
    BY <2>1, NobodyLeases
  <2> QED BY <2>1, <2>2, <2>3, KeepsQuiet
<1>7. ASSUME NEW s \in Servers, IdleFinish(s) PROVE LeaseKeeps'
  BY <1>1, <1>7, CloseHeldKeeps, KeepsQuiet DEF IdleFinish
<1> QED BY <1>2, <1>3, <1>4, <1>5, <1>6, <1>7 DEF Background

\* A commit only takes out the runtime of a reserved, hence unused, server.
LEMMA MutationKeeps ==
    ASSUME Typed, LeaseInv, Own, Reserved, LeaseKeeps, Mutation
    PROVE  LeaseKeeps'
<1>1. /\ UNCHANGED unmoved => UNCHANGED <<act, closing>>
      /\ \A s \in Servers : st[s] \in serverState
  BY TypedFields DEF unmoved
<1>2. ASSUME NEW s \in Servers, CommitDetach(s) PROVE LeaseKeeps'
  <2>1. /\ UNCHANGED <<sess, act, closing>> /\ s \in mut.claimed
    BY <1>2 DEF CommitDetach
  <2>2. \E q : st' = [st EXCEPT ![s] = q]
    BY <1>2, Zenon DEF CommitDetach
  <2>3. \A t \in Servers \ {s} : st'[t].session = st[t].session
    BY <2>2 DEF Typed, StOK
  <2>4. \A c \in Clients : Leases(c) /\ act[c].srv = s => ~Live(act[c].x)
    BY <2>1, NobodyLeases DEF Reserved
  <2> QED BY <2>1, <2>3, <2>4, KeepsQuiet
<1>3. ASSUME NEW s \in Servers, CommitFinish(s) PROVE LeaseKeeps'
  <2>r. PICK r : r = [st[s] EXCEPT !.mutating = FALSE, !.registered = mut.next[s] # Absent]
    OBVIOUS
  <2>1. r.session = st[s].session /\ r \in serverState
    BY <1>1, <2>r DEF serverState
  <2>2. CloseHeld(s, r) /\ closing' = closing
    BY <1>3, <2>r DEF CommitFinish
  <2>3. \A c \in Clients : act'[c] = act[c]
    BY <1>3, MaintainLeases DEF CommitFinish
  <2> QED BY <2>1, <2>2, <2>3, CloseHeldKeeps, KeepsQuiet
<1>4. ASSUME NEW s \in Servers, CommitStartNew(s) PROVE LeaseKeeps'
  <2>1. UNCHANGED <<st, sess, closing>>
    BY <1>4 DEF CommitStartNew
  <2>2. \A c \in Clients : act'[c] = act[c]
    BY <1>4, MaintainLeases DEF CommitStartNew
  <2> QED BY <2>1, <2>2, KeepsQuiet
<1>5. ASSUME \/ \E next \in Configs : SaveServers(next)
             \/ PrepareBegin \/ PrepareDone \/ PersistFail \/ CommitBegin
             \/ ReconcileOK \/ ReconcileFail
             \/ \E s \in Servers : PrepareClaim(s) \/ PrepareBusy(s) \/ CommitKeep(s)
      PROVE  LeaseKeeps'
  <2>1. UNCHANGED <<sess, act, closing>>
    BY <1>1, <1>5 DEF SaveServers, PrepareBegin, PrepareDone, PersistFail, CommitBegin,
       ReconcileOK, ReconcileFail, PrepareClaim, PrepareBusy, CommitKeep
  <2>2. \A s \in Servers : st'[s].session = st[s].session
    <3>1. CASE \/ \E next \in Configs : SaveServers(next)
               \/ PrepareBegin \/ PrepareDone \/ ReconcileOK \/ ReconcileFail
      BY <3>1 DEF SaveServers, PrepareBegin, PrepareDone, ReconcileOK, ReconcileFail
    <3>2. CASE PersistFail \/ \E s \in Servers : PrepareBusy(s)
      <4>1. st' = st \/ \E S : st' = Unclaim(S)
        BY <3>2 DEF PersistFail, PrepareBusy
      <4> QED BY <4>1, UnclaimStill
    <3>3. ASSUME NEW s \in Servers, PrepareClaim(s) \/ CommitKeep(s)
          PROVE  \A t \in Servers : st'[t].session = st[t].session
      <4>1. PICK q \in {[st[s] EXCEPT !.mutating = TRUE], [st[s] EXCEPT !.entry = mut.next[s]]} :
                st' = st \/ st' = [st EXCEPT ![s] = q]
        BY <3>3 DEF PrepareClaim, CommitKeep
      <4>2. q.session = st[s].session
        BY <1>1, <4>1 DEF serverState
      <4> QED BY <4>1, <4>2 DEF Typed, StOK
    <3>4. CASE CommitBegin
      <4>1. PICK fresh : /\ fresh = {s \in Servers : mut.next[s] # Absent /\ ~st[s].registered}
                     /\ st' = [s \in Servers |-> IF s \in fresh THEN newServerState(mut.next[s])
                                                                ELSE st[s]]
                     /\ mut.pc # "idle"
        BY <3>4 DEF CommitBegin
      <4>2. \A s \in fresh : s \in Servers /\ ~Known(s)
        BY <4>1 DEF LeaseInv, CommitOwned, Known
      <4> QED BY <4>1, <4>2, UnknownIsEmpty DEF newServerState
    <3> QED BY <1>5, <3>1, <3>2, <3>3, <3>4
  <2> QED BY <2>1, <2>2, KeepsQuiet
<1> QED BY <1>2, <1>3, <1>4, <1>5 DEF Mutation

\* Close takes everything, but only once closing is up.
LEMMA ShutdownKeeps ==
    ASSUME Typed, LeaseInv, Own, Closers, LeaseKeeps, Shutdown
    PROVE  LeaseKeeps'
<1>1. \A s \in Servers : st[s] \in serverState
  BY TypedFields
<1>2. CASE AppCancel \/ CloseBegin \/ CloseDone
  BY <1>2, KeepsQuiet DEF AppCancel, CloseBegin, CloseDone
<1>3. CASE CloseAbort
  <2>1. UNCHANGED <<sess, act, closing>> /\ (st' = st \/ \E S : st' = Unclaim(S))
    BY <1>3 DEF CloseAbort
  <2>2. \A s \in Servers : st'[s].session = st[s].session
    BY <2>1, UnclaimStill
  <2> QED BY <2>1, <2>2, KeepsQuiet
<1>4. ASSUME NEW s \in Servers, CloseDetach(s) PROVE LeaseKeeps'
  <2>1. UNCHANGED <<sess, act, closing>> /\ closing
    BY <1>4 DEF CloseDetach, Closers
  <2> QED BY <2>1, KeepsQuiet
<1>5. ASSUME NEW s \in Servers, CloseFinish(s) PROVE LeaseKeeps'
  BY <1>1, <1>5, CloseHeldKeeps, KeepsQuiet DEF CloseFinish
<1> QED BY <1>2, <1>3, <1>4, <1>5 DEF Shutdown

-----------------------------------------------------------------------------
(* Close *)

\* A step of the mutation hands op only to the commit.
LEMMA MutationOps ==
    ASSUME Typed, LeaseInv, Mutation
    PROVE  /\ \A s \in Servers : st'[s].op = st[s].op \/ st'[s].op \in {"commit", Free}
           /\ UNCHANGED <<shut, closing, ctxDone>>
<1>1. UNCHANGED <<shut, closing, ctxDone>>
  BY DEF Mutation, SaveServers, PrepareBegin, PrepareDone, PersistFail, CommitBegin, ReconcileOK,
     ReconcileFail, PrepareClaim, PrepareBusy, CommitKeep, CommitDetach, CommitFinish,
     CommitStartNew, unmoved
<1>2. \A s \in Servers : st[s] \in serverState
  BY TypedFields
<1>3. CASE \/ \E next \in Configs : SaveServers(next)
           \/ PrepareBegin \/ PrepareDone \/ ReconcileOK \/ ReconcileFail
           \/ \E s \in Servers : CommitStartNew(s)
  BY <1>1, <1>3 DEF SaveServers, PrepareBegin, PrepareDone, ReconcileOK, ReconcileFail,
     CommitStartNew
<1>4. CASE PersistFail \/ \E s \in Servers : PrepareBusy(s)
  <2>1. st' = st \/ \E S : st' = Unclaim(S)
    BY <1>4 DEF PersistFail, PrepareBusy
  <2> QED BY <1>1, <2>1, UnclaimStill
<1>5. ASSUME NEW s \in Servers, PrepareClaim(s) \/ CommitKeep(s)
      PROVE  \A t \in Servers : st'[t].op = st[t].op
  <2>1. PICK q \in {[st[s] EXCEPT !.mutating = TRUE], [st[s] EXCEPT !.entry = mut.next[s]]} :
            st' = st \/ st' = [st EXCEPT ![s] = q]
    BY <1>5 DEF PrepareClaim, CommitKeep
  <2>2. q.op = st[s].op
    BY <1>2, <2>1 DEF serverState
  <2> QED BY <2>1, <2>2 DEF Typed, StOK
<1>6. CASE CommitBegin
  <2>1. PICK fresh : st' = [s \in Servers |-> IF s \in fresh THEN newServerState(mut.next[s])
                                                             ELSE st[s]]
    BY <1>6 DEF CommitBegin
  <2>2. \A s \in Servers : newServerState(mut.next[s]).op = Free
    BY DEF newServerState
  <2>3. \A s \in Servers : st'[s].op = st[s].op \/ st'[s].op = Free
    BY <2>1, <2>2
  <2> QED BY <1>1, <2>3
<1>7. ASSUME NEW s \in Servers, CommitDetach(s)
      PROVE  \A t \in Servers : st'[t].op = st[t].op \/ st'[t].op = "commit"
  <2>1. PICK changing, deleted, entry :
            st' = [st EXCEPT ![s] = [Detach(@) EXCEPT !.op = "commit",
                                        !.runtimeChanging = changing,
                                        !.deleted = deleted, !.entry = entry]]
    BY <1>7, Zenon DEF CommitDetach
  <2>2. Detach(st[s]) \in serverState
    BY <1>2, AlikeRecords
  <2>3. [Detach(st[s]) EXCEPT !.op = "commit", !.runtimeChanging = changing,
                !.deleted = deleted, !.entry = entry].op = "commit"
    BY <2>2 DEF serverState
  <2> QED BY <2>1, <2>3 DEF Typed, StOK
<1>8. ASSUME NEW s \in Servers, CommitFinish(s)
      PROVE  \A t \in Servers : st'[t].op = st[t].op \/ st'[t].op = Free
  <2>q. PICK q : q = [[st[s] EXCEPT !.mutating = FALSE, !.registered = mut.next[s] # Absent]
                        EXCEPT !.runtimeChanging = FALSE, !.op = Free]
    OBVIOUS
  <2>1. st' = [st EXCEPT ![s] = q]
    BY <1>8, <2>q DEF CommitFinish, CloseHeld
  <2>2. q.op = Free
    BY <1>2, <2>q DEF serverState
  <2> QED BY <2>1, <2>2 DEF Typed, StOK
<1> QED BY <1>1, <1>3, <1>4, <1>5, <1>6, <1>7, <1>8 DEF Mutation

\* Every action keeps Close and its owners in order.
LEMMA ClosersInvariant == Typed /\ LeaseInv /\ Closers /\ [Next]_vars => Closers'
<1> SUFFICES ASSUME Typed, LeaseInv, Closers, [Next]_vars PROVE Closers'
  OBVIOUS
<1>1. CASE Calling
  BY <1>1, CallingKeeps, AlikeServers DEF Alike, Closers, LeaseInv
<1>2. CASE UNCHANGED vars
  BY <1>2 DEF vars, Closers
<1>3. CASE Mutation
  BY <1>3, MutationOps DEF Closers, Free
<1>4. CASE AppCancel \/ CloseBegin \/ CloseDone
  BY <1>4 DEF AppCancel, CloseBegin, CloseDone, Closers, Typed, RestOK
<1>5. CASE CloseAbort
  <2>1. \A s \in Servers : st'[s].op = st[s].op
    <3>1. st' = st \/ \E S : st' = Unclaim(S)
      BY <1>5 DEF CloseAbort
    <3> QED BY <3>1, UnclaimStill
  <2> QED BY <1>5, <2>1 DEF CloseAbort, Closers
<1>6. ASSUME NEW s \in Servers, CloseDetach(s) PROVE Closers'
  <2>1. /\ UNCHANGED <<shut, closing, ctxDone>> /\ shut.phase = "drain" /\ s \in shut.todo
        /\ \E q : st' = [st EXCEPT ![s] = q]
    BY <1>6 DEF CloseDetach
  <2>2. \A t \in Servers \ {s} : st'[t].op = st[t].op
    BY <2>1 DEF Typed, StOK
  <2> QED BY <2>1, <2>2 DEF Closers
<1>7. ASSUME NEW s \in Servers, CloseFinish(s) PROVE Closers'
  <2>q. PICK q : q = [st[s] EXCEPT !.runtimeChanging = FALSE, !.op = Free]
    OBVIOUS
  <2>1. st' = [st EXCEPT ![s] = q] /\ UNCHANGED <<closing, ctxDone>>
        /\ shut' = [shut EXCEPT !.todo = @ \ {s}] /\ st[s].op = "close"
    BY <1>7, <2>q DEF CloseFinish, CloseHeld
  <2>2. q.op = Free
    BY <2>q, TypedFields DEF serverState
  <2>3. \A t \in Servers : st'[t].op = IF t = s THEN Free ELSE st[t].op
    BY <2>1, <2>2 DEF Typed, StOK
  <2>4. shut'.phase = shut.phase /\ shut'.todo = shut.todo \ {s}
    BY <2>1 DEF Typed, RestOK
  <2> QED BY <2>1, <2>3, <2>4 DEF Closers, Free
<1> QED BY <1>1, <1>2, <1>3, <1>4, <1>5, <1>6, <1>7 DEF Next, Calling, Shutdown, Terminated

\* Every action keeps leases and runtimes together.
LEMMA KeepsInvariant ==
    Typed /\ LeaseInv /\ Own /\ Reserved /\ Closers /\ LeaseKeeps /\ [Next]_vars => LeaseKeeps'
<1> SUFFICES ASSUME Typed, LeaseInv, Own, Reserved, Closers, LeaseKeeps, [Next]_vars
             PROVE  LeaseKeeps'
  OBVIOUS
<1>1. ASSUME NEW a \in Actors, Operation(a) PROVE LeaseKeeps'
  BY <1>1, EnterKeeps, HoldKeeps DEF Operation, Enter
<1>2. ASSUME NEW a \in Actors, NEW x \in Sessions, ConnectOK(a, x) PROVE LeaseKeeps'
  BY <1>2, HoldKeeps
<1>3. CASE UNCHANGED vars
  BY <1>3, KeepsQuiet DEF vars
<1> QED BY <1>1, <1>2, <1>3, CallerKeeps, BackgroundKeeps, MutationKeeps, ShutdownKeeps
        DEF Next, Terminated

\* Everything so far: who owns what.
Owned ==
    /\ Typed /\ LeaseInv /\ Own
    /\ Reserved /\ Closers /\ LeaseKeeps

\* The initial state.
LEMMA OwnedInit == Init => Owned
<1> SUFFICES ASSUME Init PROVE Owned
  OBVIOUS
<1>1. Reserved
  BY DEF Init, Reserved, ReservationOwned, newServerState
<1>2. Closers
  BY DEF Init, Closers, newServerState, Free
<1>3. LeaseKeeps
  BY DEF Init, LeaseKeeps, Leases, Idle, Actors
<1> QED BY <1>1, <1>2, <1>3, TypeInit, LeaseInit, OwnInit DEF Owned

\* The whole of it is inductive.
LEMMA OwnedInvariant == Owned /\ [Next]_vars => Owned'
BY TypeInvariant, LeaseInvariant, OwnInvariant, ReservedInvariant, ClosersInvariant,
   KeepsInvariant DEF Owned

\* So it is an invariant of the specification.
LEMMA OwnedHolds == Spec => []Owned
BY OwnedInit, OwnedInvariant, PTL DEF Spec

\* Every reservation has an owner that will end it: it is passed from Prepare to
\* pending to the commit, and dropped on every way out.
THEOREM ReservationsEnd == Spec => []ReservationOwned
<1>1. Owned => ReservationOwned
  BY DEF Owned, Reserved
<1> QED BY <1>1, OwnedHolds, PTL

\* Only a runtime that somebody has taken out is closed.
LEMMA FreesTaken ==
    ASSUME Typed, [Next]_vars, NEW x \in Sessions, Live(x), sess'[x].status = "free"
    PROVE  \/ \E a \in Actors : act[a].pc \in OpPcs /\ act[a].x = x
           \/ \E s \in Servers : held[s] = x
           \/ sess[x].reap # "no"
<1>1. sess[x].status = "live" /\ sess' # sess
  BY DEF Live
<1>2. ASSUME NEW y, sess' = closeRuntime(y) PROVE x = y
  BY <1>1, <1>2, CloseIs
<1>3. ASSUME NEW a \in Actors, Operation(a) \/ \E y \in Sessions : ConnectOK(a, y)
      PROVE  \E b \in Actors : act[b].pc \in OpPcs /\ act[b].x = x
  <2>1. CASE Enter(a)
    BY <1>1, <2>1 DEF Enter, Refuse, AcquireManualStopped, AcquireReuse, AcquireColdStart,
       StartRunning, StartCold, StopEnter, RestartEnter
  <2>2. CASE CloseOld(a) \/ ConnectFail(a) \/ Discard(a)
    BY <1>1, <1>2, <2>2 DEF CloseOld, ConnectFail, Discard, OpPcs
  <2>3. CASE Install(a)
    <3>1. CASE sess' = closeRuntime(act[a].x)
      BY <1>2, <2>3, <3>1 DEF Install, OpPcs
    <3>2. CASE sess' = [sess EXCEPT ![act[a].x].watched = TRUE]
      BY <1>1, <3>2 DEF Typed, SessOK, Runtime
    <3> QED BY <2>3, <3>1, <3>2 DEF Install
  <2>4. ASSUME NEW y \in Sessions, ConnectOK(a, y) PROVE FALSE
    <3>1. sess'[x] = Connected(act[a].srv, act[a].entry) \/ sess'[x] = sess[x]
      BY <2>4 DEF ConnectOK, Typed, SessOK
    <3>2. Connected(act[a].srv, act[a].entry).status = "live"
      BY DEF Connected, NoRuntime
    <3> QED BY <1>1, <3>1, <3>2
  <2> QED BY <1>3, <2>1, <2>2, <2>3, <2>4 DEF Operation, Enter
<1>4. ASSUME NEW y \in Sessions, Crash(y) \/ ContractChange(y) \/ WatchDetach(y)
      PROVE  FALSE
  <2>1. \/ sess' = [sess EXCEPT ![y].status = "exited"]
        \/ sess' = [sess EXCEPT ![y].changed = TRUE]
        \/ \E why : sess' = [sess EXCEPT ![y].reap = why]
    BY <1>4 DEF Crash, ContractChange, WatchDetach
  <2> QED BY <1>1, <2>1 DEF Typed, SessOK, Runtime
<1>5. ASSUME NEW y \in Sessions, WatchClose(y) PROVE sess[x].reap # "no"
  BY <1>2, <1>5 DEF WatchClose
<1>6. ASSUME NEW s \in Servers, NEW r, CloseHeld(s, r) PROVE held[s] = x
  BY <1>1, <1>2, <1>6 DEF CloseHeld
<1>7. CASE Background
  <2>1. ASSUME NEW w \in Workers, \/ MaintainExit(w) \/ MaintainTry(w)
                                  \/ \E s \in Servers : StartAlwaysOn(s, w)
        PROVE  FALSE
    BY <1>1, <2>1 DEF MaintainExit, MaintainTry, StartAlwaysOn
  <2>2. ASSUME NEW s \in Servers, IdleFire(s) \/ IdleDrop(s) \/ IdleEarly(s) \/ idleStop(s)
        PROVE  FALSE
    BY <1>1, <2>2 DEF IdleFire, IdleDrop, IdleEarly, idleStop
  <2>3. ASSUME NEW s \in Servers, IdleFinish(s) PROVE held[s] = x
    BY <1>6, <2>3 DEF IdleFinish
  <2> QED BY <1>4, <1>5, <1>7, <2>1, <2>2, <2>3 DEF Background
<1>8. CASE Mutation
  <2>1. ASSUME NEW s \in Servers, CommitFinish(s) PROVE held[s] = x
    BY <1>6, <2>1 DEF CommitFinish
  <2>2. sess' = sess \/ \E s \in Servers : CommitFinish(s)
    BY <1>8 DEF Mutation, SaveServers, PrepareBegin, PrepareDone, PersistFail, CommitBegin,
       ReconcileOK, ReconcileFail, PrepareClaim, PrepareBusy, CommitKeep, CommitDetach,
       CommitStartNew
  <2> QED BY <1>1, <2>1, <2>2
<1>9. CASE Shutdown
  <2>1. ASSUME NEW s \in Servers, CloseFinish(s) PROVE held[s] = x
    BY <1>6, <2>1 DEF CloseFinish
  <2>2. sess' = sess \/ \E s \in Servers : CloseFinish(s)
    BY <1>9 DEF Shutdown, AppCancel, CloseBegin, CloseAbort, CloseDone, CloseDetach
  <2> QED BY <1>1, <2>1, <2>2
<1>10. ASSUME \/ \E c \in Clients, s \in Servers, job \in AllJobs : Begin(c, s, job)
              \/ \E a \in Actors : GiveUp(a)
              \/ \E c \in Clients : Release(c) \/ TaskExpires(c) \/ ExpiryRelease(c)
              \/ UNCHANGED vars \/ Terminated
       PROVE  FALSE
  BY <1>1, <1>10 DEF Begin, GiveUp, Release, TaskExpires, ExpiryRelease, Terminated, vars
<1> QED BY <1>3, <1>4, <1>7, <1>8, <1>9, <1>10 DEF Next

\* The Manager never closes a live runtime under an unreleased lease, unless it
\* shuts down: what is closed was taken out, and what is leased was not.
THEOREM LeasesProtectRuntimes == Spec => LeaseProtectsRuntime
<1>1. Owned /\ [Next]_vars =>
        [\A c \in Clients :
          /\ act[c].pc = "leased" /\ ~act[c].released
          /\ Live(act[c].x) /\ ~closing
          => sess'[act[c].x].status # "free"]_vars
  <2> SUFFICES ASSUME Owned, [Next]_vars, NEW c \in Clients,
                      act[c].pc = "leased", ~act[c].released, Live(act[c].x), ~closing
               PROVE  sess'[act[c].x].status # "free"
    OBVIOUS
  <2>0. Typed /\ OpHeld /\ Own /\ LeaseKeeps
    BY DEF Owned, LeaseInv
  <2>1. /\ act[c].srv \in Servers /\ act[c].x \in Sessions
        /\ st[act[c].srv].session = act[c].x
    BY <2>0, TypedFields DEF LeaseKeeps, Leases, Actors
  <2>2. sess[act[c].x].reap = "no"
    BY <2>0, <2>1, OwnerNames DEF Own, ServerOwns, Of
  <2>3. ~\E a \in Actors : act[a].pc \in OpPcs /\ act[a].x = act[c].x
    BY <2>0, <2>1, OneHolder, OwnerNames
  <2>4. ~\E s \in Servers : held[s] = act[c].x
    BY <2>0, <2>1, OneHolder, OwnerNames
  <2> QED BY <2>0, <2>1, <2>2, <2>3, <2>4, FreesTaken
<1>2. Owned /\ [Next]_vars =>
        [\A c \in Clients :
          /\ act[c].pc = "leased" /\ ~act[c].released
          /\ Live(act[c].x) /\ ~closing
          => sess'[act[c].x].status # "free"]_vars
  BY <1>1
<1> QED BY <1>2, OwnedHolds, PTL DEF Spec, LeaseProtectsRuntime

-----------------------------------------------------------------------------
(* Edits. SaveServers diffs the new configuration against                    *)
(* Coordinator.servers, which stays behind when a reconciliation fails;      *)
(* unless that happens, it holds the entries of the service, and every       *)
(* server whose entry a commit changes was found by the diff and reserved.   *)
(* Either way a commit only holds op of servers that are in the map.         *)

Diffed ==
    /\ \A s \in Servers : st[s].op = "commit" => st[s].registered /\ s \notin mut.todo
    /\ mut.pc = "commit" => \A s \in mut.todo : st[s].registered
    /\ ~closing /\ "reconcile" \notin Faults => \A s \in Servers : st[s].registered =>
          /\ st[s].entry # Absent
          /\ mut.pc # "commit" => servers[s] = st[s].entry
          /\ mut.next[s] # st[s].entry =>
                /\ mut.pc = "claim" => s \in mut.todo \cup mut.claimed
                /\ mut.pc = "prepared" => pending # NoPending /\ s \in pending
                /\ mut.pc = "commit" =>
                      IF s \in mut.todo THEN s \in mut.claimed
                                        ELSE mut.next[s] = Absent /\ st[s].op = "commit"

\* Lowering reservations changes nothing else.
LEMMA UnclaimKeeps ==
    ASSUME Typed, NEW S, st' = Unclaim(S)
    PROVE  \A s \in Servers : /\ st'[s].registered = st[s].registered
                              /\ st'[s].entry = st[s].entry /\ st'[s].op = st[s].op
                              /\ st'[s].deleted = st[s].deleted
<1>1. \A s \in Servers : st'[s] = st[s] \/ st'[s] = [st[s] EXCEPT !.mutating = FALSE]
  BY DEF Unclaim
<1> QED BY <1>1, TypedFields DEF serverState

\* Without an edit, only Close lets go of what is pending.
LEMMA DiffedStill ==
    ASSUME Typed, Diffed, UNCHANGED mut, closing \/ UNCHANGED <<servers, pending>>,
           closing => closing',
           \A s \in Servers : /\ st'[s].registered = st[s].registered
                              /\ st'[s].entry = st[s].entry
                              /\ st'[s].op = "commit" <=> st[s].op = "commit"
    PROVE  Diffed'
<1>1. mut.todo \subseteq Servers
  BY MutatorFields DEF Mutator
<1> QED BY <1>1 DEF Diffed

\* The diff against entries that are those of the service finds what changes; each
\* server found stays found until it is committed.
LEMMA DiffedMutation ==
    ASSUME Typed, LeaseInv, Reserved, Diffed, Mutation
    PROVE  Diffed'
<1>1. /\ \A s \in Servers : st[s] \in serverState
      /\ mut \in Mutator /\ mut.todo \subseteq Servers /\ mut.claimed \subseteq Servers
      /\ ~(NoPending \subseteq Servers) /\ UNCHANGED closing
  BY MutatorFields DEF Mutator, Mutation, SaveServers, PrepareBegin, PrepareDone, PersistFail,
     CommitBegin, ReconcileOK, ReconcileFail, PrepareClaim, PrepareBusy, CommitKeep,
     CommitDetach, CommitFinish, CommitStartNew, unmoved
<1>2. mut.pc # "commit" => \A s \in Servers : st[s].op # "commit"
  BY DEF LeaseInv, CommitOwned
<1>3. ASSUME NEW next \in Configs, SaveServers(next) PROVE Diffed'
  <2>1. /\ UNCHANGED <<st, servers>> /\ mut.pc = "idle" /\ mut'.pc = "prepare"
    BY <1>1, <1>3 DEF SaveServers, Mutator
  <2> QED BY <1>1, <1>2, <2>1 DEF Diffed
<1>4. CASE PrepareBegin
  <2>1. /\ UNCHANGED <<st, servers>> /\ mut.pc = "prepare" /\ mut'.pc = "claim"
        /\ mut'.next = mut.next /\ mut'.todo = Affected(servers, mut.next)
    BY <1>1, <1>4 DEF PrepareBegin, Mutator
  <2> QED BY <1>1, <1>2, <2>1 DEF Diffed, Affected
<1>5. CASE PrepareDone
  <2>1. /\ UNCHANGED <<st, servers>> /\ mut.pc = "claim" /\ mut'.pc = "prepared"
        /\ mut'.next = mut.next /\ mut.todo = {} /\ pending' = mut.claimed
    BY <1>1, <1>5 DEF PrepareDone, Mutator
  <2> QED BY <1>1, <1>2, <2>1 DEF Diffed
<1>6. CASE PersistFail \/ \E s \in Servers : PrepareBusy(s)
  <2>1. /\ UNCHANGED servers /\ mut'.pc = "idle" /\ mut.pc \in {"claim", "prepared"}
        /\ st' = st \/ \E S : st' = Unclaim(S)
    BY <1>1, <1>6 DEF PersistFail, PrepareBusy, Mutator
  <2>2. \A s \in Servers : /\ st'[s].registered = st[s].registered
                           /\ st'[s].entry = st[s].entry /\ st'[s].op = st[s].op
    BY <2>1, UnclaimKeeps
  <2> QED BY <1>1, <1>2, <2>1, <2>2 DEF Diffed
<1>7. ASSUME NEW s \in Servers, PrepareClaim(s) PROVE Diffed'
  <2>1. /\ UNCHANGED servers /\ mut.pc = "claim" /\ mut'.pc = "claim"
        /\ mut'.next = mut.next /\ mut'.todo = mut.todo \ {s}
        /\ mut'.claimed = IF st[s].registered THEN mut.claimed \cup {s} ELSE mut.claimed
    BY <1>1, <1>7 DEF PrepareClaim, Mutator
  <2>2. \A t \in Servers : /\ st'[t].registered = st[t].registered
                           /\ st'[t].entry = st[t].entry /\ st'[t].op = st[t].op
    BY <1>1, <1>7 DEF PrepareClaim, serverState
  <2> QED BY <1>1, <1>2, <2>1, <2>2 DEF Diffed
<1>8. CASE CommitBegin
  <2>1. PICK fresh :
            /\ fresh = {s \in Servers : mut.next[s] # Absent /\ ~st[s].registered}
            /\ st' = [s \in Servers |-> IF s \in fresh THEN newServerState(mut.next[s])
                                                       ELSE st[s]]
            /\ mut.pc = "prepared" /\ mut'.pc = "commit" /\ mut'.next = mut.next
            /\ mut'.todo = {s \in Servers : st[s].registered} \cup fresh
            /\ mut'.claimed = IF pending = NoPending THEN {} ELSE pending
    BY <1>1, <1>8 DEF CommitBegin, Mutator
  <2>2. \A s \in fresh : /\ newServerState(mut.next[s]).registered
                         /\ newServerState(mut.next[s]).entry = mut.next[s]
                         /\ newServerState(mut.next[s]).op = Free
    BY <2>1 DEF newServerState
  <2>3. \A s \in Servers :
            IF s \in fresh THEN /\ st'[s].registered /\ st'[s].entry = mut.next[s]
                                /\ st'[s].op = Free /\ mut.next[s] # Absent
                           ELSE st'[s] = st[s]
    BY <2>1, <2>2
  <2> QED BY <1>1, <1>2, <2>1, <2>3 DEF Diffed, Free
<1>9. ASSUME NEW s \in Servers, CommitKeep(s) PROVE Diffed'
  <2>1. /\ UNCHANGED <<servers, pending>> /\ mut.pc = "commit" /\ mut'.pc = "commit"
        /\ mut'.next = mut.next /\ mut'.todo = mut.todo \ {s} /\ mut'.claimed = mut.claimed
        /\ s \in mut.todo \ mut.claimed
    BY <1>1, <1>9 DEF CommitKeep, Mutator
  <2>2. \A t \in Servers :
            /\ st'[t].registered = st[t].registered /\ st'[t].op = st[t].op
            /\ st'[t].entry = IF t = s /\ mut.next[s] # Absent THEN mut.next[s] ELSE st[t].entry
    <3>q. PICK q : q = [st[s] EXCEPT !.entry = mut.next[s]]
      OBVIOUS
    <3>1. q.registered = st[s].registered /\ q.op = st[s].op /\ q.entry = mut.next[s]
      BY <1>1, <3>q DEF serverState
    <3>2. st' = IF mut.next[s] # Absent THEN [st EXCEPT ![s] = q] ELSE st
      BY <1>9, <3>q DEF CommitKeep
    <3> QED BY <3>1, <3>2 DEF Typed, StOK
  <2> QED BY <1>1, <2>1, <2>2 DEF Diffed
<1>10. ASSUME NEW s \in Servers, CommitDetach(s) PROVE Diffed'
  <2>1. /\ UNCHANGED <<servers, pending>> /\ mut.pc = "commit" /\ mut'.pc = "commit"
        /\ mut'.next = mut.next /\ mut'.todo = mut.todo \ {s} /\ mut'.claimed = mut.claimed
        /\ s \in mut.todo
    BY <1>1, <1>10 DEF CommitDetach, Mutator
  <2>e. PICK entry : entry = IF mut.next[s] = Absent THEN st[s].entry ELSE mut.next[s]
    OBVIOUS
  <2>2. PICK changing, deleted :
            st' = [st EXCEPT ![s] = [Detach(@) EXCEPT !.op = "commit",
                                        !.runtimeChanging = changing,
                                        !.deleted = deleted, !.entry = entry]]
    BY <1>10, <2>e, Zenon DEF CommitDetach
  <2>3. Detach(st[s]) \in serverState /\ Detach(st[s]).registered = st[s].registered
    BY <1>1, AlikeRecords DEF Kept
  <2>q. PICK q : q = [Detach(st[s]) EXCEPT !.op = "commit", !.runtimeChanging = changing,
                                           !.deleted = deleted, !.entry = entry]
    OBVIOUS
  <2>4. q.registered = st[s].registered /\ q.op = "commit" /\ q.entry = entry
    BY <2>3, <2>q DEF serverState
  <2>5. \A t \in Servers : IF t = s
            THEN /\ st'[t].registered = st[s].registered /\ st'[t].op = "commit"
                 /\ st'[t].entry = entry
            ELSE st'[t] = st[t]
    BY <1>1, <2>2, <2>q, <2>4 DEF Typed, StOK
  <2> QED BY <1>1, <2>1, <2>e, <2>5 DEF Diffed
<1>11. ASSUME NEW s \in Servers, CommitFinish(s) PROVE Diffed'
  <2>1. /\ UNCHANGED <<servers, pending>> /\ mut.pc = "commit" /\ mut'.pc = mut.pc
        /\ mut'.next = mut.next /\ mut'.todo = mut.todo /\ mut'.claimed = mut.claimed \ {s}
        /\ st[s].op = "commit"
    BY <1>1, <1>11 DEF CommitFinish, Mutator, LeaseInv, CommitOwned
  <2>q. PICK q : q = [[st[s] EXCEPT !.mutating = FALSE, !.registered = mut.next[s] # Absent]
                        EXCEPT !.runtimeChanging = FALSE, !.op = Free]
    OBVIOUS
  <2>2. st' = [st EXCEPT ![s] = q]
    BY <1>11, <2>q DEF CommitFinish, CloseHeld
  <2>3. (q.registered <=> mut.next[s] # Absent) /\ q.op = Free /\ q.entry = st[s].entry
    BY <1>1, <2>q DEF serverState
  <2>4. \A t \in Servers : st'[t] = IF t = s THEN q ELSE st[t]
    BY <2>2 DEF Typed, StOK
  <2> QED BY <1>1, <2>1, <2>3, <2>4 DEF Diffed, Free
<1>12. ASSUME NEW s \in Servers, CommitStartNew(s) PROVE Diffed'
  <2>1. /\ UNCHANGED <<st, servers, pending>> /\ mut'.pc = mut.pc
        /\ mut'.next = mut.next /\ mut'.todo = mut.todo /\ mut'.claimed = mut.claimed
    BY <1>1, <1>12 DEF CommitStartNew, Mutator
  <2> QED BY <1>1, <2>1 DEF Diffed
<1>13. CASE ReconcileOK
  <2>1. /\ UNCHANGED st /\ servers' = mut.next /\ mut.pc = "commit" /\ mut'.pc = "idle"
        /\ mut'.next = mut.next /\ mut.todo = {} /\ mut.claimed = {} /\ mut'.todo = {}
    BY <1>1, <1>13 DEF ReconcileOK, Committed, Mutator
  <2>2. \A s \in Servers : st[s].op # "commit"
    BY <2>1 DEF LeaseInv, CommitOwned
  <2> QED BY <1>1, <2>1, <2>2 DEF Diffed
<1>14. CASE ReconcileFail
  <2>1. /\ UNCHANGED st /\ "reconcile" \in Faults /\ mut.pc = "commit" /\ mut'.pc = "idle"
        /\ mut.claimed = {}
    BY <1>1, <1>14 DEF ReconcileFail, Committed, Mutator
  <2>2. \A s \in Servers : st[s].op # "commit"
    BY <2>1 DEF LeaseInv, CommitOwned
  <2> QED BY <1>1, <2>1, <2>2 DEF Diffed
<1> QED BY <1>3, <1>4, <1>5, <1>6, <1>7, <1>8, <1>9, <1>10, <1>11, <1>12, <1>13, <1>14 DEF Mutation

\* Close takes pending away, but only once closing is up.
LEMMA DiffedShutdown ==
    ASSUME Typed, LeaseInv, Closers, Diffed, Shutdown
    PROVE  Diffed'
<1>1. /\ \A s \in Servers : st[s] \in serverState
      /\ UNCHANGED <<mut, servers>>
  BY TypedFields DEF Shutdown, AppCancel, CloseBegin, CloseAbort, CloseDone, CloseDetach,
     CloseFinish
<1>2. CASE AppCancel \/ CloseBegin \/ CloseDone
  BY <1>2, <1>1, DiffedStill DEF AppCancel, CloseBegin, CloseDone
<1>3. CASE CloseAbort
  <2>1. UNCHANGED closing /\ closing /\ (st' = st \/ \E S : st' = Unclaim(S))
    BY <1>3 DEF CloseAbort, Closers
  <2>2. \A s \in Servers : /\ st'[s].registered = st[s].registered
                           /\ st'[s].entry = st[s].entry /\ st'[s].op = st[s].op
    BY <2>1, UnclaimKeeps
  <2> QED BY <1>1, <2>1, <2>2, DiffedStill
<1>4. ASSUME NEW s \in Servers, CloseDetach(s) PROVE Diffed'
  <2>q. PICK q : q = [Detach(st[s]) EXCEPT !.op = "close",
                                           !.runtimeChanging = st[s].session # NoSession]
    OBVIOUS
  <2>1. /\ st' = [st EXCEPT ![s] = q] /\ UNCHANGED <<closing, pending>> /\ st[s].op = Free
    BY <1>4, <2>q DEF CloseDetach
  <2>2. Detach(st[s]) \in serverState /\ Kept(Detach(st[s]), st[s])
    BY <1>1, AlikeRecords
  <2>3. q.registered = st[s].registered /\ q.entry = st[s].entry /\ q.op = "close"
    BY <2>2, <2>q DEF Kept, serverState
  <2> QED BY <1>1, <2>1, <2>3, DiffedStill DEF Typed, StOK, Free
<1>5. ASSUME NEW s \in Servers, CloseFinish(s) PROVE Diffed'
  <2>q. PICK q : q = [st[s] EXCEPT !.runtimeChanging = FALSE, !.op = Free]
    OBVIOUS
  <2>1. /\ st' = [st EXCEPT ![s] = q] /\ UNCHANGED <<closing, pending>> /\ st[s].op = "close"
    BY <1>5, <2>q DEF CloseFinish, CloseHeld
  <2>2. q.registered = st[s].registered /\ q.entry = st[s].entry /\ q.op = Free
    BY <1>1, <2>q DEF serverState
  <2> QED BY <1>1, <2>1, <2>2, DiffedStill DEF Typed, StOK, Free
<1> QED BY <1>2, <1>3, <1>4, <1>5 DEF Shutdown

\* Every action keeps the diff complete.
LEMMA DiffedInvariant == Owned /\ Diffed /\ [Next]_vars => Diffed'
<1> SUFFICES ASSUME Owned, Diffed, [Next]_vars PROVE Diffed'
  OBVIOUS
<1>1. CASE Calling
  <2>1. AlikeStep /\ UNCHANGED <<mut, servers, pending, closing>>
    BY <1>1, CallingKeeps DEF Owned, LeaseInv
  <2> QED BY <2>1, AlikeServers, DiffedStill DEF Owned, Alike
<1>2. CASE UNCHANGED vars
  BY <1>2, DiffedStill DEF vars, Owned
<1> QED BY <1>1, <1>2, DiffedMutation, DiffedShutdown DEF Owned, Next, Calling, Terminated

\* At the start the configuration is the one the service was made from.
LEMMA DiffedInit == Init => Diffed
<1> SUFFICES ASSUME Init PROVE Diffed
  OBVIOUS
<1>1. /\ mut.pc = "idle" /\ servers = Boot
      /\ \A s \in Servers : /\ st[s].op = Free /\ st[s].entry = Boot[s]
                            /\ st[s].registered => Boot[s] # Absent
  BY DEF Init, newServerState
<1> QED BY <1>1 DEF Diffed, Free

\* The entry of a server changes when it is added and when a commit that has
\* reserved it takes its runtime out, in both cases while nobody holds op.
LEMMA EntryMoves ==
    ASSUME "reconcile" \notin Faults, Owned, Diffed, ~closing, [Next]_vars, NEW s \in Servers,
           st'[s].entry # st[s].entry
    PROVE  /\ st'[s].session = NoSession
           /\ \A a \in Actors : act[a].pc \in OpPcs => act[a].srv # s
           /\ st[s].registered => s \in mut.claimed
<1>1. /\ \A t \in Servers : st[t] \in serverState
      /\ Typed /\ LeaseInv /\ Own
      /\ st \in [Servers -> serverState]
  BY TypedFields DEF Owned, Typed, StOK
<1>2. ~Calling /\ ~(UNCHANGED st)
  <2>1. Calling => \A t \in Servers : st'[t].entry = st[t].entry
    BY <1>1, CallingKeeps, AlikeServers DEF LeaseInv, Alike
  <2> QED BY <2>1
<1>3. ~Shutdown
  <2>1. CASE AppCancel \/ CloseBegin \/ CloseDone
    BY <1>2, <2>1 DEF AppCancel, CloseBegin, CloseDone
  <2>2. CASE CloseAbort \/ \E t \in Servers : CloseDetach(t)
    BY <2>2 DEF CloseAbort, CloseDetach, Owned, Closers
  <2>3. ASSUME NEW t \in Servers, CloseFinish(t) PROVE FALSE
    BY <2>3 DEF CloseFinish, Owned, Closers
  <2> QED BY <2>1, <2>2, <2>3 DEF Shutdown
<1>4. ~(PersistFail \/ \E t \in Servers : PrepareBusy(t))
  BY <1>1, <1>2, UnclaimKeeps DEF PersistFail, PrepareBusy
<1>5. ASSUME NEW t \in Servers, PrepareClaim(t) PROVE FALSE
  BY <1>1, <1>5 DEF PrepareClaim, serverState
<1>6. ASSUME NEW t \in Servers, CommitKeep(t) PROVE FALSE
  <2>1. t \in mut.todo \ mut.claimed /\ mut.pc = "commit"
    BY <1>6 DEF CommitKeep
  <2>2. mut.next[t] = st[t].entry
    BY <2>1 DEF Diffed
  <2> QED BY <1>1, <1>6, <2>2 DEF CommitKeep, serverState
<1>7. ASSUME NEW t \in Servers, CommitFinish(t) PROVE FALSE
  <2>q. PICK q : q = [[st[t] EXCEPT !.mutating = FALSE, !.registered = mut.next[t] # Absent]
                        EXCEPT !.runtimeChanging = FALSE, !.op = Free]
    OBVIOUS
  <2>1. st' = [st EXCEPT ![t] = q]
    BY <1>7, <2>q DEF CommitFinish, CloseHeld
  <2>2. q.entry = st[t].entry
    BY <1>1, <2>q DEF serverState
  <2> QED BY <1>1, <2>1, <2>2
<1>8. CASE CommitBegin
  <2>1. PICK fresh :
            /\ fresh = {t \in Servers : mut.next[t] # Absent /\ ~st[t].registered}
            /\ st' = [t \in Servers |-> IF t \in fresh THEN newServerState(mut.next[t])
                                                       ELSE st[t]]
            /\ mut.pc # "idle"
    BY <1>8 DEF CommitBegin
  <2>2. s \in fresh /\ ~Known(s)
    BY <1>1, <2>1 DEF LeaseInv, CommitOwned, Known
  <2>3. \A a \in Actors : act[a].pc \in OpPcs => act[a].srv # s
    BY <1>1, <2>2, OwnerNames DEF LeaseInv, KnownOnly
  <2>4. newServerState(mut.next[s]).session = NoSession
    BY DEF newServerState
  <2> QED BY <2>1, <2>2, <2>3, <2>4
<1>9. ASSUME NEW t \in Servers, CommitDetach(t)
      PROVE  /\ s = t /\ s \in mut.claimed /\ st'[s].session = NoSession
             /\ \A a \in Actors : act[a].pc \in OpPcs => act[a].srv # s
  <2>1. t \in mut.claimed /\ st[t].op = Free
    BY <1>9 DEF CommitDetach
  <2>2. PICK changing, deleted, entry :
            st' = [st EXCEPT ![t] = [Detach(@) EXCEPT !.op = "commit",
                                        !.runtimeChanging = changing,
                                        !.deleted = deleted, !.entry = entry]]
    BY <1>9, Zenon DEF CommitDetach
  <2>3. Detach(st[t]) \in serverState /\ Detach(st[t]).session = NoSession
    BY <1>1, AlikeRecords, SessionHelpers
  <2>4. [Detach(st[t]) EXCEPT !.op = "commit", !.runtimeChanging = changing,
                !.deleted = deleted, !.entry = entry].session = NoSession
    BY <2>3 DEF serverState
  <2>5. s = t /\ st'[s].session = NoSession
    BY <1>1, <2>2, <2>4
  <2>6. \A a \in Actors : act[a].pc \in OpPcs => act[a].srv # s
    BY <1>1, <2>1, <2>5, SoleFree DEF LeaseInv
  <2> QED BY <2>1, <2>5, <2>6
<1>10. CASE \/ \E next \in Configs : SaveServers(next)
            \/ PrepareBegin \/ PrepareDone \/ ReconcileOK \/ ReconcileFail
            \/ \E t \in Servers : CommitStartNew(t)
  BY <1>2, <1>10 DEF SaveServers, PrepareBegin, PrepareDone, ReconcileOK, ReconcileFail,
     CommitStartNew
<1>11. Mutation
  BY <1>2, <1>3 DEF Next, Calling, Terminated, vars
<1> QED BY <1>4, <1>5, <1>6, <1>7, <1>8, <1>9, <1>10, <1>11 DEF Mutation

\* Unless a reconciliation failed before, a commit only gives a new entry to servers
\* that it has reserved, and so to none in use: the diff of SaveServers misses none.
THEOREM EditsExcludeUse == ASSUME "reconcile" \notin Faults PROVE Spec => EditExcludesUse
<1> DEFINE EditStep == \A s \in Servers :
               st[s].registered /\ st'[s].entry # st[s].entry /\ ~closing => Users(s) = {}
<1>1. Owned /\ Diffed /\ [Next]_vars => EditStep
  <2> SUFFICES ASSUME Owned, Diffed, [Next]_vars, NEW s \in Servers, st[s].registered,
                      st'[s].entry # st[s].entry, ~closing
               PROVE  Users(s) = {}
    OBVIOUS
  <2>1. st[s].mutating
    BY EntryMoves DEF Owned, Reserved
  <2> QED BY <2>1 DEF Owned, LeaseInv, MutationExcludesUse
<1>2. Owned /\ Diffed /\ [Next]_vars => [EditStep]_vars
  BY <1>1
<1> HIDE DEF EditStep
<1>3. Spec => [][EditStep]_vars
  BY <1>2, OwnedHolds, DiffedInit, DiffedInvariant, PTL DEF Spec
<1> QED BY <1>3, PTL DEF EditExcludesUse, EditStep

-----------------------------------------------------------------------------
(* Runtimes and the entries they were started from *)

\* a is on its way to a new runtime.
Going(a) ==
    /\ act[a].pc \in OpPcs
    /\ act[a].pc = "close" => act[a].job \in UseJobs \cup {"start", "restart"}

\* The session, and whatever an operation is bringing up, is of the entry the
\* service holds now.
Current == ~closing =>
    /\ SessionMatchesEntry
    /\ \A a \in Actors : Going(a) =>
          /\ act[a].entry = st[act[a].srv].entry
          /\ act[a].pc \in {"install", "discard"} => sess[act[a].x].entry = act[a].entry

\* The runtime y is closed, and neither a session nor in the hands of a goroutine
\* that goes on.
Closes(y) ==
    /\ sess' = closeRuntime(y)
    /\ \A s \in Servers : st[s].session # y
    /\ \A b \in Actors : act[b].pc \in OpPcs /\ act[b].x = y => ~(act'[b].pc \in OpPcs /\ act'[b].x = y)

\* What a step must keep: a session is the old one, or of the right entry; so is
\* what a goroutine is bringing up.
LEMMA CurrentStep ==
    ASSUME "reconcile" \notin Faults, Owned, Diffed, Current, [Next]_vars, ~closing, ~closing',
           \/ \A x \in Sessions : sess'[x].entry = sess[x].entry
           \/ \E y : Closes(y)
           \/ \E y \in Sessions : /\ sess[y].status = "free"
                                  /\ \A x \in Sessions \ {y} : sess'[x] = sess[x],
           \A s \in Servers :
               \/ st'[s].session \in {NoSession, st[s].session}
               \/ sess'[st'[s].session].entry = st'[s].entry,
           \A b \in Actors :
               \/ act'[b] = act[b]
               \/ act'[b].pc \notin OpPcs
               \/ act'[b].pc = "close" /\ act'[b].job \notin UseJobs \cup {"start", "restart"}
               \/ /\ act'[b].entry = st'[act'[b].srv].entry
                  /\ act'[b].pc \in {"install", "discard"} =>
                        sess'[act'[b].x].entry = act'[b].entry
    PROVE  Current'
<1>0. Typed /\ OpHeld /\ Own
  BY DEF Owned, LeaseInv
<1>1. \A x \in Sessions :
          \/ sess'[x].entry = sess[x].entry
          \/ sess[x].status = "free"
          \/ Closes(x)
  BY CloseIs, <1>0 DEF Closes
<1>2. \A s \in Servers : st[s].session # NoSession =>
          st[s].session \in Sessions /\ sess[st[s].session].status # "free"
  BY <1>0, TypedFields DEF Own, ServerOwns, Of
<1>3. \A s \in Servers : st[s].session # NoSession =>
          sess'[st[s].session].entry = sess[st[s].session].entry
  BY <1>1, <1>2 DEF Closes
<1>4. ASSUME NEW s \in Servers, st'[s].session # NoSession
      PROVE  sess'[st'[s].session].entry = st'[s].entry
  <2>1. st'[s].entry = st[s].entry
    BY <1>4, EntryMoves
  <2>2. CASE st'[s].session = st[s].session
    BY <1>3, <1>4, <2>1, <2>2 DEF Current, SessionMatchesEntry
  <2> QED BY <1>4, <2>2
<1>5. ASSUME NEW b \in Actors, Going(b)'
      PROVE  /\ act'[b].entry = st'[act'[b].srv].entry
             /\ act'[b].pc \in {"install", "discard"} => sess'[act'[b].x].entry = act'[b].entry
  <2>1. CASE act'[b] = act[b]
    <3>1. act[b].pc \in OpPcs /\ Going(b) /\ act[b].srv \in Servers
      BY <1>0, <1>5, <2>1, TypedFields, OwnerNames DEF Going
    <3>2. st'[act[b].srv].entry = st[act[b].srv].entry
      BY <3>1, EntryMoves
    <3>3. ASSUME act[b].pc \in {"install", "discard"}
          PROVE  sess'[act[b].x].entry = sess[act[b].x].entry
      <4>1. act[b].x \in Sessions /\ sess[act[b].x].status # "free"
        BY <1>0, <3>1, <3>3, TypedFields DEF Own, ActorOwns, Of
      <4> QED BY <1>1, <2>1, <3>1, <4>1 DEF Closes
    <3> QED BY <2>1, <3>1, <3>2, <3>3 DEF Current
  <2> QED BY <1>5, <2>1 DEF Going
<1> QED BY <1>4, <1>5 DEF Current, SessionMatchesEntry

\* Taking op: what is closed keeps its goroutine, what is connected gets the entry
\* of now.
LEMMA EnterCurrent ==
    ASSUME "reconcile" \notin Faults, Owned, Diffed, Current, [Next]_vars, NEW a \in Actors, Enter(a)
    PROVE  Current'
<1>s. PICK s : s = act[a].srv
  OBVIOUS
<1>r. PICK r : r = st[s]
  OBVIOUS
<1>0. Typed /\ LeaseInv /\ Own
  BY DEF Owned
<1>1. /\ act[a].pc = "wait" /\ s \in Servers /\ r \in serverState /\ r.op = Free
      /\ act[a] \in ActorState /\ sess' = sess /\ closing' = closing
  BY <1>0, <1>s, <1>r, TypedFields DEF Enter, Refuse, AcquireManualStopped, AcquireReuse,
     AcquireColdStart, StartRunning, StartCold, StopEnter, RestartEnter, Enters, background
<1>2. PICK q \in {Detach(r), [Detach(r) EXCEPT !.op = a],
                  [cancelIdleLocked(r) EXCEPT !.active = @ + 1],
                  [Detach(r) EXCEPT !.active = @ + 1, !.op = a],
                  [Detach(r) EXCEPT !.runtimeChanging = TRUE, !.op = a]} :
          st' = st \/ st' = [st EXCEPT ![s] = q]
  BY <1>s, <1>r DEF Enter, Refuse, AcquireManualStopped, AcquireReuse,
     AcquireColdStart, StartRunning, StartCold, StopEnter, RestartEnter
<1>3. q.session \in {NoSession, r.session}
  <2>d. PICK d : d = Detach(r)
    OBVIOUS
  <2>c. PICK c : c = cancelIdleLocked(r)
    OBVIOUS
  <2>1. d \in serverState /\ d.session = NoSession /\ c \in serverState /\ c.session = r.session
    BY <1>1, <2>d, <2>c, AlikeRecords, SessionHelpers DEF Kept
  <2>2. /\ [d EXCEPT !.op = a].session = NoSession
        /\ [c EXCEPT !.active = @ + 1].session = r.session
        /\ [d EXCEPT !.active = @ + 1, !.op = a].session = NoSession
        /\ [d EXCEPT !.runtimeChanging = TRUE, !.op = a].session = NoSession
    BY <2>1 DEF serverState
  <2> QED BY <1>2, <2>d, <2>c, <2>1, <2>2
<1>4. \A t \in Servers : st'[t].session \in {NoSession, st[t].session}
  BY <1>0, <1>2, <1>3, <1>r DEF Typed, StOK
<1>5. \A t \in Servers : st'[t].entry = st[t].entry
  <2>1. Calling
    BY DEF Enter, Calling, Operation
  <2> QED BY <1>0, <2>1, CallingKeeps, AlikeServers DEF LeaseInv, Alike
<1>6. PICK p : /\ Become(a, p)
               /\ \/ p \in {Idle, Failed(a), Leased(a, r.session)}
                  \/ p = Proceed(a, r.session, r.entry)
                  \/ p = [act[a] EXCEPT !.pc = "close", !.job = "drop", !.x = r.session]
                  \/ act[a].job = "stop" /\ p = [act[a] EXCEPT !.pc = "close", !.x = r.session]
  <2>1. CASE AcquireManualStopped(a)
    BY <1>s, <1>r, <2>1 DEF AcquireManualStopped
  <2>2. CASE StopEnter(a)
    BY <1>s, <1>r, <2>2 DEF StopEnter, Enters
  <2>3. CASE Refuse(a) \/ StartRunning(a)
    BY <2>3 DEF Refuse, StartRunning
  <2>4. CASE AcquireColdStart(a) \/ StartCold(a) \/ RestartEnter(a)
    BY <1>s, <1>r, <2>4 DEF AcquireColdStart, StartCold, RestartEnter
  <2>5. CASE AcquireReuse(a)
    BY <1>s, <1>r, <2>5, Zenon DEF AcquireReuse
  <2> QED BY <2>1, <2>2, <2>3, <2>4, <2>5 DEF Enter
<1>7. /\ Idle.pc \notin OpPcs /\ Failed(a).pc \notin OpPcs /\ Leased(a, r.session).pc \notin OpPcs
  BY DEF Idle, Failed, Maintaining, Leased, OpPcs
<1>8. LET d == Proceed(a, r.session, r.entry)
      IN  d.entry = r.entry /\ d.srv = s /\ d.pc \notin {"install", "discard"}
  BY <1>1, <1>s DEF Proceed, ActorState
<1>9. LET d == [act[a] EXCEPT !.pc = "close", !.job = "drop", !.x = r.session]
      IN  d.pc = "close" /\ d.job = "drop"
  BY <1>1 DEF ActorState
<1>10. LET d == [act[a] EXCEPT !.pc = "close", !.x = r.session]
       IN  d.pc = "close" /\ d.job = act[a].job
  BY <1>1 DEF ActorState
<1>11. \/ p.pc \notin OpPcs
       \/ p.pc = "close" /\ p.job \notin UseJobs \cup {"start", "restart"}
       \/ p.entry = r.entry /\ p.srv = s /\ p.pc \notin {"install", "discard"}
  BY <1>6, <1>7, <1>8, <1>9, <1>10 DEF UseJobs
<1>12. \A b \in Actors : act'[b] = IF b = a THEN p ELSE act[b]
  BY <1>0, <1>6 DEF Become, Typed, ActOK
<1>13. st'[s].entry = r.entry
  BY <1>1, <1>5, <1>r
<1>14. CASE ~closing
  BY <1>1, <1>4, <1>11, <1>12, <1>13, <1>14, CurrentStep
<1> QED BY <1>1, <1>14 DEF Current

\* Holding op: a goroutine closes what only it has, and installs what it connected.
LEMMA HoldCurrent ==
    ASSUME "reconcile" \notin Faults, Owned, Diffed, Current, [Next]_vars, NEW a \in Actors,
           \/ CloseOld(a) \/ ConnectFail(a) \/ Discard(a) \/ Install(a)
           \/ \E x \in Sessions : ConnectOK(a, x)
    PROVE  Current'
<1>s. PICK s : s = act[a].srv
  OBVIOUS
<1>0. Typed /\ LeaseInv /\ Own
  BY DEF Owned
<1>1. /\ act[a].pc \in OpPcs /\ closing' = closing
      /\ s \in Servers /\ act[a] \in ActorState
      /\ act[a].pc # "connect" => act[a].x \in Sessions
      /\ act[a].pc = "connect" => act[a].x = NoSession
  <2>1. act[a].pc \in OpPcs /\ UNCHANGED background
    BY DEF CloseOld, ConnectFail, Discard, Install, ConnectOK, OpPcs
  <2> QED BY <1>0, <1>s, <2>1, SoleActor, TypedFields, OwnerNames DEF background, Own, ActorOwns
<1>2. SUFFICES ASSUME ~closing PROVE Current'
  BY <1>1 DEF Current
<1>3. \A t \in Servers : st'[t].entry = st[t].entry
  <2>1. Calling
    BY DEF Calling, Operation
  <2> QED BY <1>0, <2>1, CallingKeeps, AlikeServers DEF LeaseInv, Alike
<1>4. Going(a) => /\ act[a].entry = st[s].entry
                  /\ act[a].pc \in {"install", "discard"} => sess[act[a].x].entry = act[a].entry
  BY <1>2, <1>s DEF Current
<1>5. ASSUME NEW p, Become(a, p) PROVE \A b \in Actors : act'[b] = IF b = a THEN p ELSE act[b]
  BY <1>0, <1>5 DEF Become, Typed, ActOK
<1>6. ASSUME NEW p, Become(a, p), p.pc \notin OpPcs \/ p.x # act[a].x,
             act[a].pc # "connect", sess' = closeRuntime(act[a].x)
      PROVE  Closes(act[a].x)
  <2>1. act[a].x # NoSession
    BY <1>1, <1>6, OwnerNames
  <2>2. /\ \A t \in Servers : act[a].x # st[t].session
        /\ \A b \in Actors \ {a} : act[b].pc \in OpPcs => act[b].x # act[a].x
    BY <1>0, <1>1, <2>1, OneHolder DEF LeaseInv
  <2> QED BY <1>5, <1>6, <2>2 DEF Closes
<1>7. Finish(a).session = st[s].session
  BY <1>0, <1>1, <1>s, FinishSession
<1>8. st' = [st EXCEPT ![s] = Finish(a)] \/ st' = st =>
          \A t \in Servers : st'[t].session = st[t].session
  BY <1>0, <1>7 DEF Typed, StOK
<1>9. /\ Idle.pc \notin OpPcs /\ Failed(a).pc \notin OpPcs
      /\ Leased(a, act[a].x).pc \notin OpPcs
  BY DEF Idle, Failed, Maintaining, Leased, OpPcs
<1>p. PICK next : next = Proceed(a, NoSession, act[a].entry)
  OBVIOUS
<1>10. next.pc = "connect" /\ next.x = NoSession /\ next.srv = s /\ next.entry = act[a].entry
  BY <1>1, <1>s, <1>p DEF Proceed, ActorState
<1>11. CASE CloseOld(a)
  <2>1. /\ sess' = closeRuntime(act[a].x) /\ act[a].pc = "close"
        /\ st' = [st EXCEPT ![s] = Finish(a)] \/ st' = st
    BY <1>11, <1>s DEF CloseOld
  <2>2. CASE Become(a, Idle)
    <3>1. Closes(act[a].x)
      BY <1>6, <1>9, <2>1, <2>2
    <3> QED BY <1>1, <1>2, <1>5, <1>8, <1>9, <2>1, <2>2, <3>1, CurrentStep
  <2>3. CASE Become(a, next) /\ act[a].job \in UseJobs \cup {"start", "restart"}
    <3>1. Closes(act[a].x)
      BY <1>1, <1>6, <1>10, <2>1, <2>3, OwnerNames
    <3>2. next.entry = st'[s].entry
      BY <1>1, <1>3, <1>4, <1>10, <2>1, <2>3 DEF Going
    <3> QED BY <1>1, <1>2, <1>5, <1>8, <1>10, <2>1, <2>3, <3>1, <3>2, CurrentStep
  <2> QED BY <1>11, <1>p, <2>2, <2>3 DEF CloseOld
<1>12. CASE ConnectFail(a)
  <2>1. /\ Become(a, Failed(a)) /\ st' = [st EXCEPT ![s] = Finish(a)] /\ sess' = sess
    BY <1>12, <1>s DEF ConnectFail
  <2> QED BY <1>1, <1>2, <1>5, <1>8, <1>9, <2>1, CurrentStep
<1>13. ASSUME Become(a, Failed(a)), st' = [st EXCEPT ![s] = Finish(a)],
              act[a].pc # "connect", sess' = closeRuntime(act[a].x)
       PROVE  Current'
  <2>1. Closes(act[a].x)
    BY <1>6, <1>9, <1>13
  <2> QED BY <1>1, <1>2, <1>5, <1>8, <1>9, <1>13, <2>1, CurrentStep
<1>14. CASE Discard(a)
  BY <1>13, <1>14, <1>s DEF Discard
<1>15. ASSUME NEW x \in Sessions, ConnectOK(a, x) PROVE Current'
  <2>1. /\ act[a].pc = "connect" /\ st' = st /\ sess[x] = NoRuntime
        /\ sess' = [sess EXCEPT ![x] = Connected(s, act[a].entry)]
    BY <1>15, <1>s DEF ConnectOK
  <2>2. PICK pc \in {"install", "discard"} : Become(a, [act[a] EXCEPT !.pc = pc, !.x = x])
    BY <1>15 DEF ConnectOK
  <2>p. PICK p : p = [act[a] EXCEPT !.pc = pc, !.x = x]
    OBVIOUS
  <2>3. p.entry = act[a].entry /\ p.srv = s /\ p.x = x
    BY <1>1, <1>s, <2>p DEF ActorState
  <2>4. act[a].entry = st'[s].entry
    BY <1>1, <1>4, <2>1 DEF Going
  <2>5. sess'[x].entry = act[a].entry /\ \A y \in Sessions \ {x} : sess'[y] = sess[y]
    BY <1>0, <2>1 DEF Connected, NoRuntime, Typed, SessOK
  <2>6. sess[x].status = "free"
    BY <2>1 DEF NoRuntime
  <2>7. /\ act'[a].entry = st'[act'[a].srv].entry /\ sess'[act'[a].x].entry = act'[a].entry
        /\ \A b \in Actors \ {a} : act'[b] = act[b]
    BY <1>5, <2>2, <2>p, <2>3, <2>4, <2>5
  <2>8. \A t \in Servers : st'[t].session \in {NoSession, st[t].session}
    BY <2>1
  <2>9. ~closing' /\ \E y \in Sessions : /\ sess[y].status = "free"
                                        /\ \A x1 \in Sessions \ {y} : sess'[x1] = sess[x1]
    BY <1>1, <1>2, <2>5, <2>6
  <2> QED BY <1>2, <2>7, <2>8, <2>9, CurrentStep
<1>16. CASE Install(a)
  <2>0. act[a].pc = "install"
    BY <1>16 DEF Install
  <2>1. sess[act[a].x].entry = st[s].entry
    BY <1>1, <1>4, <2>0 DEF Going
  <2>2. CASE /\ Become(a, Failed(a)) /\ st' = [st EXCEPT ![s] = Finish(a)]
             /\ sess' = closeRuntime(act[a].x)
    BY <1>13, <2>0, <2>2
  <2>3. ASSUME NEW p, p.pc \notin OpPcs, Become(a, p),
               sess' = [sess EXCEPT ![act[a].x].watched = TRUE],
               NEW q, q.session \in {NoSession, act[a].x}, st' = [st EXCEPT ![s] = q]
        PROVE  Current'
    <3>1. \A x \in Sessions : sess'[x].entry = sess[x].entry
      BY <1>0, <2>3 DEF Typed, SessOK, Runtime
    <3>2. st'[s] = q /\ \A t \in Servers \ {s} : st'[t] = st[t]
      BY <1>0, <1>1, <2>3 DEF Typed, StOK
    <3>3. sess'[act[a].x].entry = st'[s].entry
      BY <1>1, <1>3, <2>0, <2>1, <3>1
    <3>4. \A t \in Servers : \/ st'[t].session \in {NoSession, st[t].session}
                             \/ sess'[st'[t].session].entry = st'[t].entry
      BY <2>3, <3>2, <3>3
    <3> QED BY <1>1, <1>2, <1>5, <2>3, <3>1, <3>4, CurrentStep
  <2>r. PICK r : r = [st[s] EXCEPT !.session = act[a].x]
    OBVIOUS
  <2>d. PICK done : done = [r EXCEPT !.runtimeChanging = FALSE, !.op = Free]
    OBVIOUS
  <2>f. PICK free : free = [r EXCEPT !.op = Free]
    OBVIOUS
  <2>4. r \in serverState /\ r.session = act[a].x
    BY <1>0, <1>1, <2>0, <2>r, TypedFields DEF serverState
  <2>5. done \in serverState /\ done.session = act[a].x
    BY <2>4, <2>d, PassingOwners, FreePasses DEF serverState
  <2>6. free.session = act[a].x
    BY <2>4, <2>f DEF serverState
  <2>7. scheduleIdleLocked(done).session = act[a].x
    BY <2>5, SessionHelpers
  <2>8. CASE act[a].job \notin UseJobs
    <3>1. /\ Become(a, Idle) /\ sess' = [sess EXCEPT ![act[a].x].watched = TRUE]
          /\ st' = [st EXCEPT ![s] = scheduleIdleLocked(done)] \/ st' = [st EXCEPT ![s] = done]
      BY <1>16, <1>s, <2>r, <2>d, <2>8 DEF Install
    <3> QED BY <1>9, <2>3, <2>5, <2>7, <3>1
  <2>9. CASE /\ Become(a, Leased(a, act[a].x)) /\ st' = [st EXCEPT ![s] = free]
             /\ sess' = [sess EXCEPT ![act[a].x].watched = TRUE]
    <3>p. PICK p : p = Leased(a, act[a].x)
      OBVIOUS
    <3>1. p.pc \notin OpPcs
      BY <1>9, <3>p
    <3>2. Become(a, p)
      BY <2>9, <3>p
    <3>3. \A x \in Sessions : sess'[x].entry = sess[x].entry
      BY <1>0, <2>9 DEF Typed, SessOK, Runtime
    <3>4. st'[s] = free /\ \A t \in Servers \ {s} : st'[t] = st[t]
      BY <1>0, <1>1, <2>9 DEF Typed, StOK
    <3>5. sess'[act[a].x].entry = st'[s].entry
      BY <1>1, <1>3, <2>0, <2>1, <3>3
    <3>6. \A t \in Servers : \/ st'[t].session \in {NoSession, st[t].session}
                             \/ sess'[st'[t].session].entry = st'[t].entry
      BY <2>6, <3>4, <3>5
    <3>7. \A b \in Actors : act'[b] = act[b] \/ act'[b].pc \notin OpPcs
      BY <1>5, <3>1, <3>2
    <3> QED BY <1>1, <1>2, <3>3, <3>6, <3>7, CurrentStep
  <2> QED BY <1>16, <1>s, <2>r, <2>f, <2>2, <2>8, <2>9 DEF Install
<1> QED BY <1>11, <1>12, <1>14, <1>15, <1>16

\* Steps outside of the operations: no goroutine goes on to a new runtime, and no
\* server gets one.
LEMMA QuietCurrent ==
    ASSUME "reconcile" \notin Faults, Owned, Diffed, Current, [Next]_vars, closing => closing',
           closing' \/ \A s \in Servers : st'[s].session \in {NoSession, st[s].session},
           closing' \/ \A b \in Actors : act'[b] = act[b] \/ act'[b].pc \notin OpPcs,
           \/ closing'
           \/ \A x \in Sessions : sess'[x].entry = sess[x].entry
           \/ \E y : /\ sess' = closeRuntime(y)
                     /\ \A s \in Servers : st[s].session # y
                     /\ \A b \in Actors : act[b].pc \in OpPcs => act[b].x # y
    PROVE  Current'
<1>1. CASE closing'
  BY <1>1 DEF Current
<1>2. CASE ~closing'
  BY <1>2, CurrentStep DEF Closes
<1> QED BY <1>1, <1>2

\* Closing what was taken out.
LEMMA HeldCurrent ==
    ASSUME "reconcile" \notin Faults, Owned, Diffed, Current, [Next]_vars, closing => closing',
           NEW s \in Servers, NEW r \in serverState, r.session = st[s].session,
           CloseHeld(s, r), \A b \in Actors : act'[b] = act[b] \/ act'[b].pc \notin OpPcs
    PROVE  Current'
<1>0. Typed /\ OpHeld /\ Own
  BY DEF Owned, LeaseInv
<1>1. \A t \in Servers : st'[t].session = st[t].session
  BY <1>0, CloseHeldKeeps
<1>2. CASE held[s] = NoSession
  BY <1>1, <1>2, QuietCurrent DEF CloseHeld
<1>3. CASE held[s] # NoSession
  <2>1. \A t \in Servers : st[t].session # held[s]
    BY <1>0, <1>3, OneHolder
  <2>2. \A b \in Actors : act[b].pc \in OpPcs => act[b].x # held[s]
    BY <1>0, <1>3, OneHolder
  <2>3. sess' = closeRuntime(held[s])
    BY <1>3 DEF CloseHeld
  <2> QED BY <1>1, <2>1, <2>2, <2>3, QuietCurrent
<1> QED BY <1>2, <1>3

\* A maintainer that is started is not in an operation.
LEMMA MaintainsOutside ==
    ASSUME Typed, NEW s \in Servers, GoMaintain(s) \/ UNCHANGED act
    PROVE  \A b \in Actors : act'[b] = act[b] \/ act'[b].pc \notin OpPcs
<1>1. Maintaining(s).pc = "check"
  BY DEF Maintaining, Idle
<1> QED BY <1>1, OwnerNames DEF GoMaintain, Become, Typed, ActOK

\* Callers do nothing to runtimes.
LEMMA CallerCurrent ==
    ASSUME "reconcile" \notin Faults, Owned, Diffed, Current, [Next]_vars,
           \/ \E c \in Clients, s \in Servers, job \in AllJobs : Begin(c, s, job)
           \/ \E a \in Actors : GiveUp(a)
           \/ \E c \in Clients : Release(c) \/ TaskExpires(c) \/ ExpiryRelease(c)
           \/ \E x \in Sessions : Crash(x) \/ ContractChange(x)
    PROVE  Current'
<1>0. /\ Typed /\ LeaseInv /\ Clients \subseteq Actors
      /\ \A s \in Servers : st[s] \in serverState
      /\ \A a \in Actors : act[a] \in ActorState
      /\ UNCHANGED background => closing' = closing
  BY TypedFields DEF Owned, Actors, background
<1>1. ASSUME NEW a \in Actors, NEW p, Become(a, p), p.pc \notin OpPcs,
             UNCHANGED <<sess, background>>, \A t \in Servers : st'[t].session = st[t].session
      PROVE  Current'
  <2>1. \A b \in Actors : act'[b] = IF b = a THEN p ELSE act[b]
    BY <1>0, <1>1 DEF Become, Typed, ActOK
  <2> QED BY <1>0, <1>1, <2>1, QuietCurrent
<1>2. ASSUME NEW c \in Clients, NEW s \in Servers, NEW job \in AllJobs, Begin(c, s, job)
      PROVE  Current'
  <2>p. PICK p : p = [Idle EXCEPT !.pc = "wait", !.job = job, !.srv = s]
    OBVIOUS
  <2>1. p.pc \notin OpPcs
    BY <2>p DEF Idle, OpPcs
  <2>2. Become(c, p) /\ UNCHANGED <<st, sess, background>>
    BY <1>2, <2>p DEF Begin
  <2> QED BY <1>0, <1>1, <2>1, <2>2
<1>3. ASSUME NEW a \in Actors, GiveUp(a) PROVE Current'
  <2>1. Failed(a).pc \notin OpPcs
    BY DEF Failed, Idle, Maintaining, OpPcs
  <2> QED BY <1>1, <1>3, <2>1 DEF GiveUp
<1>4. ASSUME NEW c \in Clients, releaseOnce(c)
      PROVE  \A t \in Servers : st'[t].session = st[t].session
  <2>1. \A t \in Servers : st'[t] \in {st[t], releaseLocked(st[t])}
    BY <1>0, <1>4 DEF releaseOnce, Typed, StOK
  <2> QED BY <1>0, <2>1, SessionHelpers
<1>5. ASSUME NEW c \in Clients, Release(c) \/ TaskExpires(c) \/ ExpiryRelease(c)
      PROVE  Current'
  <2>1. PICK p \in {Idle, [act[c] EXCEPT !.pc = "done", !.released = TRUE],
                    [act[c] EXCEPT !.timer = "fired"],
                    [act[c] EXCEPT !.released = TRUE, !.timer = "none"]} : Become(c, p)
    BY <1>5 DEF Release, TaskExpires, ExpiryRelease
  <2>2. act[c].pc \notin OpPcs
    <3>1. act[c].timer # "none" \/ act[c].pc = "leased"
      BY <1>5 DEF Release, TaskExpires, ExpiryRelease
    <3> QED BY <1>0, <3>1, OwnerNames DEF LeaseInv, LeaseShape
  <2>3. p.pc \in {"idle", "done", act[c].pc}
    <3>1. Idle.pc = "idle"
      BY DEF Idle
    <3>2. [act[c] EXCEPT !.pc = "done", !.released = TRUE].pc = "done"
      BY <1>0 DEF ActorState
    <3>3. [act[c] EXCEPT !.timer = "fired"].pc = act[c].pc
      BY <1>0 DEF ActorState
    <3>4. [act[c] EXCEPT !.released = TRUE, !.timer = "none"].pc = act[c].pc
      BY <1>0 DEF ActorState
    <3> QED BY <2>1, <3>1, <3>2, <3>3, <3>4
  <2>4. p.pc \notin OpPcs
    BY <2>2, <2>3 DEF OpPcs
  <2>5. UNCHANGED <<sess, background>> /\ (st' = st \/ releaseOnce(c))
    BY <1>5 DEF Release, TaskExpires, ExpiryRelease
  <2> QED BY <1>0, <1>1, <1>4, <2>1, <2>4, <2>5
<1>6. ASSUME NEW x \in Sessions, Crash(x) \/ ContractChange(x) PROVE Current'
  <2>1. /\ UNCHANGED <<st, act, background>>
        /\ \/ sess' = [sess EXCEPT ![x].status = "exited"]
           \/ sess' = [sess EXCEPT ![x].changed = TRUE]
    BY <1>6 DEF Crash, ContractChange
  <2>2. \A y \in Sessions : sess'[y].entry = sess[y].entry
    BY <1>0, <2>1 DEF Typed, SessOK, Runtime
  <2> QED BY <1>0, <2>1, <2>2, QuietCurrent
<1> QED BY <1>2, <1>3, <1>5, <1>6

\* The watcher and the idle stop only take runtimes away.
LEMMA BackgroundCurrent ==
    ASSUME "reconcile" \notin Faults, Owned, Diffed, Current, [Next]_vars, Background
    PROVE  Current'
<1>0. /\ Typed /\ LeaseInv /\ Own
      /\ \A s \in Servers : st[s] \in serverState
      /\ UNCHANGED background \/ UNCHANGED afterHeld => closing' = closing
  BY TypedFields DEF Owned, background, afterHeld
<1>1. ASSUME NEW x \in Sessions, WatchDetach(x) PROVE Current'
  <2>1. /\ UNCHANGED <<act, background>> /\ sess[x].srv \in Servers
        /\ st' = [st EXCEPT ![sess[x].srv] = Detach(st[sess[x].srv])]
        /\ \E why : sess' = [sess EXCEPT ![x].reap = why]
    BY <1>0, <1>1 DEF WatchDetach, Exited, Typed, SessOK, RuntimeOK
  <2>2. \A y \in Sessions : sess'[y].entry = sess[y].entry
    BY <1>0, <2>1 DEF Typed, SessOK, Runtime
  <2>3. \A t \in Servers : st'[t].session \in {NoSession, st[t].session}
    BY <1>0, <2>1, SessionHelpers DEF Typed, StOK
  <2> QED BY <1>0, <2>1, <2>2, <2>3, QuietCurrent
<1>2. ASSUME NEW x \in Sessions, WatchClose(x) PROVE Current'
  <2>1. /\ sess' = closeRuntime(x) /\ UNCHANGED <<st, background>> /\ sess[x].srv \in Servers
        /\ sess[x].reap # "no"
    BY <1>0, <1>2 DEF WatchClose, Typed, SessOK, RuntimeOK
  <2>2. \A b \in Actors : act'[b] = act[b] \/ act'[b].pc \notin OpPcs
    BY <1>0, <1>2, <2>1, MaintainsOutside DEF WatchClose
  <2>3. \A s \in Servers : st[s].session # x
    BY <1>0, <2>1, OwnerNames DEF Own, ServerOwns, Of
  <2>4. \A b \in Actors : act[b].pc \in OpPcs => act[b].x # x
    BY <1>0, <2>1, OwnerNames DEF Own, ActorOwns, Of
  <2> QED BY <1>0, <2>1, <2>2, <2>3, <2>4, QuietCurrent
<1>3. ASSUME NEW w \in Workers, \/ MaintainExit(w) \/ MaintainTry(w)
                                \/ \E s \in Servers : StartAlwaysOn(s, w)
      PROVE  Current'
  <2>1. UNCHANGED <<st, sess, closing>>
    BY <1>0, <1>3 DEF MaintainExit, MaintainTry, StartAlwaysOn
  <2>2. PICK p : /\ UNCHANGED act \/ Become(w, p)
                 /\ \/ p = Idle
                    \/ p = [act[w] EXCEPT !.pc = "wait", !.job = "start"]
                    \/ \E s \in Servers : p = [Idle EXCEPT !.pc = "wait", !.job = "start", !.srv = s]
    BY <1>3 DEF MaintainExit, MaintainTry, StartAlwaysOn
  <2>3. p.pc \in {"idle", "wait"}
    <3>1. act[w] \in ActorState
      BY <1>0, TypedFields DEF Actors
    <3>2. \A s : [Idle EXCEPT !.pc = "wait", !.job = "start", !.srv = s].pc = "wait"
      BY DEF Idle
    <3>3. [act[w] EXCEPT !.pc = "wait", !.job = "start"].pc = "wait"
      BY <3>1 DEF ActorState
    <3>4. Idle.pc = "idle"
      BY DEF Idle
    <3> QED BY <2>2, <3>2, <3>3, <3>4
  <2>4. \A b \in Actors : act'[b] = act[b] \/ act'[b].pc \notin OpPcs
    BY <1>0, <2>2, <2>3, OwnerNames DEF Become, Typed, ActOK
  <2> QED BY <2>1, <2>4, QuietCurrent
<1>4. ASSUME NEW s \in Servers, IdleFire(s) \/ IdleDrop(s) \/ IdleEarly(s) PROVE Current'
  <2>1. PICK q \in {[st[s] EXCEPT !.idle = "fired"], cancelIdleLocked(st[s]),
                    scheduleIdleLocked(st[s])} :
            st' = [st EXCEPT ![s] = q]
    BY <1>4 DEF IdleFire, IdleDrop, IdleEarly
  <2>2. [st[s] EXCEPT !.idle = "fired"].session = st[s].session
    BY <1>0 DEF serverState
  <2>3. q.session = st[s].session
    <3>1. /\ cancelIdleLocked(st[s]).session = st[s].session
          /\ scheduleIdleLocked(st[s]).session = st[s].session
      BY <1>0, SessionHelpers
    <3> QED BY <2>1, <2>2, <3>1
  <2>4. \A t \in Servers : st'[t].session = st[t].session
    BY <1>0, <2>1, <2>3 DEF Typed, StOK
  <2>5. UNCHANGED <<sess, act, closing>>
    BY <1>0, <1>4 DEF IdleFire, IdleDrop, IdleEarly
  <2> QED BY <2>4, <2>5, QuietCurrent
<1>5. ASSUME NEW s \in Servers, idleStop(s) PROVE Current'
  <2>q. PICK q : q = [Detach(st[s]) EXCEPT !.runtimeChanging = TRUE, !.op = "idle"]
    OBVIOUS
  <2>1. UNCHANGED <<sess, act, closing>> /\ st' = [st EXCEPT ![s] = q]
    BY <1>0, <1>5, <2>q DEF idleStop
  <2>2. Detach(st[s]) \in serverState /\ Detach(st[s]).session = NoSession
    BY <1>0, AlikeRecords, SessionHelpers
  <2>3. q.session = NoSession
    BY <2>q, <2>2 DEF serverState
  <2>4. \A t \in Servers : st'[t].session \in {NoSession, st[t].session}
    BY <1>0, <2>1, <2>3 DEF Typed, StOK
  <2> QED BY <2>1, <2>4, QuietCurrent
<1>6. ASSUME NEW s \in Servers, IdleFinish(s) PROVE Current'
  BY <1>0, <1>6, HeldCurrent DEF IdleFinish
<1> QED BY <1>1, <1>2, <1>3, <1>4, <1>5, <1>6 DEF Background

\* An edit takes the runtime of the old entry out before it writes the new one.
LEMMA MutationCurrent ==
    ASSUME "reconcile" \notin Faults, Owned, Diffed, Current, [Next]_vars, Mutation
    PROVE  Current'
<1>0. /\ Typed /\ LeaseInv /\ Own
      /\ \A s \in Servers : st[s] \in serverState
      /\ UNCHANGED unmoved => UNCHANGED <<act, closing>>
  BY TypedFields DEF Owned, unmoved
<1>1. ASSUME NEW s \in Servers, CommitDetach(s) PROVE Current'
  <2>1. UNCHANGED <<sess, act, closing>>
    BY <1>1 DEF CommitDetach
  <2>2. PICK changing, deleted, entry :
            st' = [st EXCEPT ![s] = [Detach(@) EXCEPT !.op = "commit",
                                        !.runtimeChanging = changing,
                                        !.deleted = deleted, !.entry = entry]]
    BY <1>1, Zenon DEF CommitDetach
  <2>3. Detach(st[s]) \in serverState /\ Detach(st[s]).session = NoSession
    BY <1>0, AlikeRecords, SessionHelpers
  <2>4. [Detach(st[s]) EXCEPT !.op = "commit", !.runtimeChanging = changing,
                !.deleted = deleted, !.entry = entry].session = NoSession
    BY <2>3 DEF serverState
  <2>5. \A t \in Servers : st'[t].session \in {NoSession, st[t].session}
    BY <1>0, <2>2, <2>4 DEF Typed, StOK
  <2> QED BY <2>1, <2>5, QuietCurrent
<1>2. ASSUME NEW s \in Servers, CommitFinish(s) PROVE Current'
  <2>r. PICK r : r = [st[s] EXCEPT !.mutating = FALSE, !.registered = mut.next[s] # Absent]
    OBVIOUS
  <2>1. r.session = st[s].session /\ r \in serverState
    BY <1>0, <2>r DEF serverState
  <2>2. CloseHeld(s, r) /\ closing' = closing
    BY <1>2, <2>r DEF CommitFinish
  <2>3. \A b \in Actors : act'[b] = act[b] \/ act'[b].pc \notin OpPcs
    BY <1>0, <1>2, MaintainsOutside DEF CommitFinish
  <2> QED BY <2>1, <2>2, <2>3, HeldCurrent
<1>3. ASSUME NEW s \in Servers, CommitStartNew(s) PROVE Current'
  <2>1. UNCHANGED <<st, sess, closing>>
    BY <1>3 DEF CommitStartNew
  <2>2. \A b \in Actors : act'[b] = act[b] \/ act'[b].pc \notin OpPcs
    BY <1>0, <1>3, MaintainsOutside DEF CommitStartNew
  <2> QED BY <2>1, <2>2, QuietCurrent
<1>4. ASSUME \/ \E next \in Configs : SaveServers(next)
             \/ PrepareBegin \/ PrepareDone \/ PersistFail \/ CommitBegin
             \/ ReconcileOK \/ ReconcileFail
             \/ \E s \in Servers : PrepareClaim(s) \/ PrepareBusy(s) \/ CommitKeep(s)
      PROVE  Current'
  <2>1. UNCHANGED <<sess, act, closing>>
    BY <1>0, <1>4 DEF SaveServers, PrepareBegin, PrepareDone, PersistFail, CommitBegin,
       ReconcileOK, ReconcileFail, PrepareClaim, PrepareBusy, CommitKeep
  <2>2. \A s \in Servers : st'[s].session \in {NoSession, st[s].session}
    <3>1. CASE \/ \E next \in Configs : SaveServers(next)
               \/ PrepareBegin \/ PrepareDone \/ ReconcileOK \/ ReconcileFail
      BY <3>1 DEF SaveServers, PrepareBegin, PrepareDone, ReconcileOK, ReconcileFail
    <3>2. CASE PersistFail \/ \E s \in Servers : PrepareBusy(s)
      <4>1. st' = st \/ \E S : st' = Unclaim(S)
        BY <3>2 DEF PersistFail, PrepareBusy
      <4> QED BY <1>0, <4>1, UnclaimStill
    <3>3. ASSUME NEW s \in Servers, PrepareClaim(s) \/ CommitKeep(s)
          PROVE  \A t \in Servers : st'[t].session = st[t].session
      <4>1. PICK q \in {[st[s] EXCEPT !.mutating = TRUE], [st[s] EXCEPT !.entry = mut.next[s]]} :
                st' = st \/ st' = [st EXCEPT ![s] = q]
        BY <3>3 DEF PrepareClaim, CommitKeep
      <4>2. q.session = st[s].session
        BY <1>0, <4>1 DEF serverState
      <4> QED BY <1>0, <4>1, <4>2 DEF Typed, StOK
    <3>4. CASE CommitBegin
      <4>1. PICK fresh :
                st' = [s \in Servers |-> IF s \in fresh THEN newServerState(mut.next[s])
                                                        ELSE st[s]]
        BY <3>4 DEF CommitBegin
      <4>2. \A s \in Servers : newServerState(mut.next[s]).session = NoSession
        BY DEF newServerState
      <4> QED BY <4>1, <4>2
    <3> QED BY <1>4, <3>1, <3>2, <3>3, <3>4
  <2> QED BY <2>1, <2>2, QuietCurrent
<1> QED BY <1>1, <1>2, <1>3, <1>4 DEF Mutation

\* Once closing is up the invariant asks for nothing.
LEMMA ShutdownCurrent ==
    ASSUME "reconcile" \notin Faults, Owned, Diffed, Current, [Next]_vars, Shutdown
    PROVE  Current'
<1>1. ASSUME AppCancel \/ CloseBegin PROVE Current'
  BY <1>1, QuietCurrent DEF AppCancel, CloseBegin
<1>2. ASSUME CloseAbort \/ CloseDone \/ \E s \in Servers : CloseDetach(s) \/ CloseFinish(s)
      PROVE  closing /\ closing' = closing
  BY <1>2 DEF CloseAbort, CloseDone, CloseDetach, CloseFinish, Owned, Closers
<1> QED BY <1>1, <1>2 DEF Shutdown, Current

\* Every action keeps runtimes and entries together.
LEMMA CurrentInvariant ==
    ASSUME "reconcile" \notin Faults
    PROVE  Owned /\ Diffed /\ Current /\ [Next]_vars => Current'
<1> SUFFICES ASSUME Owned, Diffed, Current, [Next]_vars PROVE Current'
  OBVIOUS
<1>1. ASSUME NEW a \in Actors, Operation(a) PROVE Current'
  BY <1>1, EnterCurrent, HoldCurrent DEF Operation, Enter
<1>2. ASSUME NEW a \in Actors, NEW x \in Sessions, ConnectOK(a, x) PROVE Current'
  BY <1>2, HoldCurrent
<1>3. CASE UNCHANGED vars
  BY <1>3, QuietCurrent DEF vars
<1> QED BY <1>1, <1>2, <1>3, CallerCurrent, BackgroundCurrent, MutationCurrent, ShutdownCurrent
        DEF Next, Terminated

\* At the start nothing runs.
LEMMA CurrentInit == Init => Current
BY DEF Init, Current, SessionMatchesEntry, newServerState, Going, Idle, OpPcs

\* Unless a reconciliation failed before, the running session of a server was started
\* from the entry the service holds: no edit leaves a runtime of the old configuration
\* behind, and no start that overlaps an edit installs one.
THEOREM SessionsMatchEntries ==
    ASSUME "reconcile" \notin Faults PROVE Spec => []SessionMatchesEntry
<1>1. Current => SessionMatchesEntry
  BY DEF Current, SessionMatchesEntry
<1> QED BY <1>1, OwnedHolds, DiffedInit, DiffedInvariant, CurrentInit, CurrentInvariant, PTL DEF Spec

-----------------------------------------------------------------------------
(* Deleted servers and shutdown. What any step may do to a server and to a   *)
(* goroutine, whichever step it is.                                          *)

\* A session comes from the goroutine that installs it; who takes one out keeps it.
ServerMotion(s) ==
    /\ \/ st'[s].session \in {NoSession, st[s].session}
       \/ \E a \in Actors : act[a].pc = "install" /\ act[a].srv = s
    /\ held'[s] \in {NoSession, held[s], st[s].session}
    /\ st'[s].op = "idle" => st[s].op = "idle" \/ ~st'[s].deleted

\* A goroutine in an operation was in it before, and then it had a context that is
\* not cancelled if it got beyond connecting; or it has just taken op.
ActorMotion(b) ==
    act'[b].pc \in OpPcs =>
        \/ act'[b] = act[b]
        \/ /\ act[b].pc \in OpPcs /\ act'[b].srv = act[b].srv
           /\ act[b].pc = "connect" => ~act[b].cancelled
        \/ /\ act[b].pc = "wait" /\ act'[b].srv = act[b].srv
           /\ act[b].job = "restart" \/ ~st[act[b].srv].deleted
           /\ st[act[b].srv].session = NoSession =>
                 act'[b].pc = "connect" /\ act'[b].cancelled = ctxDone

Motion == /\ \A s \in Servers : ServerMotion(s)
          /\ \A b \in Actors : ActorMotion(b)

\* A step that writes the record of one server.
LEMMA OneMoves ==
    ASSUME Typed, NEW s \in Servers, NEW q, st' = st \/ st' = [st EXCEPT ![s] = q],
           \/ q.session \in {NoSession, st[s].session}
           \/ \E a \in Actors : act[a].pc = "install" /\ act[a].srv = s,
           \/ held' = held
           \/ \E h \in {NoSession, st[s].session} : held' = [held EXCEPT ![s] = h],
           q.op # "idle" \/ q.op = st[s].op \/ ~q.deleted
    PROVE  \A t \in Servers : ServerMotion(t)
BY DEF ServerMotion, Typed, StOK, RestOK

\* A step that moves one goroutine, or none into an operation.
LEMMA OneActs ==
    ASSUME Typed, NEW a \in Actors, NEW p, UNCHANGED act \/ Become(a, p),
           p.pc \in OpPcs =>
               \/ /\ act[a].pc \in OpPcs /\ p.srv = act[a].srv
                  /\ act[a].pc = "connect" => ~act[a].cancelled
               \/ /\ act[a].pc = "wait" /\ p.srv = act[a].srv
                  /\ act[a].job = "restart" \/ ~st[act[a].srv].deleted
                  /\ st[act[a].srv].session = NoSession =>
                        p.pc = "connect" /\ p.cancelled = ctxDone
    PROVE  \A b \in Actors : ActorMotion(b)
<1>1. \A b \in Actors : act'[b] = act[b] \/ (b = a /\ act'[b] = p)
  BY DEF Become, Typed, ActOK
<1> QED BY <1>1 DEF ActorMotion

\* Taking op: only a restart takes op of a server that is deleted, and without a
\* session to close it connects under the context of now.
LEMMA EnterMotion ==
    ASSUME Typed, LeaseInv, NEW a \in Actors, Enter(a)
    PROVE  Motion
<1>s. PICK s : s = act[a].srv
  OBVIOUS
<1>r. PICK r : r = st[s]
  OBVIOUS
<1>1. /\ act[a].pc = "wait" /\ s \in Servers /\ r \in serverState /\ r.op = Free
      /\ act[a] \in ActorState /\ held' = held
  BY <1>s, <1>r, TypedFields DEF Enter, Refuse, AcquireManualStopped, AcquireReuse,
     AcquireColdStart, StartRunning, StartCold, StopEnter, RestartEnter, Enters, background
<1>2. PICK q \in {Detach(r), [Detach(r) EXCEPT !.op = a],
                  [cancelIdleLocked(r) EXCEPT !.active = @ + 1],
                  [Detach(r) EXCEPT !.active = @ + 1, !.op = a],
                  [Detach(r) EXCEPT !.runtimeChanging = TRUE, !.op = a]} :
          st' = st \/ st' = [st EXCEPT ![s] = q]
  BY <1>s, <1>r DEF Enter, Refuse, AcquireManualStopped, AcquireReuse,
     AcquireColdStart, StartRunning, StartCold, StopEnter, RestartEnter
<1>3. q.session \in {NoSession, r.session} /\ q.op \in {r.op, a}
  <2>d. PICK d : d = Detach(r)
    OBVIOUS
  <2>c. PICK c : c = cancelIdleLocked(r)
    OBVIOUS
  <2>1. /\ d \in serverState /\ d.session = NoSession /\ d.op = r.op
        /\ c \in serverState /\ c.session = r.session /\ c.op = r.op
    BY <1>1, <2>d, <2>c, AlikeRecords, SessionHelpers DEF Kept
  <2>2. /\ [d EXCEPT !.op = a].session = NoSession
        /\ [c EXCEPT !.active = @ + 1].session = r.session
        /\ [d EXCEPT !.active = @ + 1, !.op = a].session = NoSession
        /\ [d EXCEPT !.runtimeChanging = TRUE, !.op = a].session = NoSession
    BY <2>1 DEF serverState
  <2>3. /\ [d EXCEPT !.op = a].op = a
        /\ [c EXCEPT !.active = @ + 1].op = r.op
        /\ [d EXCEPT !.active = @ + 1, !.op = a].op = a
        /\ [d EXCEPT !.runtimeChanging = TRUE, !.op = a].op = a
    BY <2>1 DEF serverState
  <2> QED BY <1>2, <2>d, <2>c, <2>1, <2>2, <2>3
<1>4. a # "idle"
  BY OwnerNames DEF Bg
<1>5. \A t \in Servers : ServerMotion(t)
  BY <1>1, <1>2, <1>3, <1>4, <1>r, OneMoves
<1>6. PICK p : /\ Become(a, p)
               /\ \/ p \in {Idle, Failed(a), Leased(a, r.session)}
                  \/ ~Rejected(act[a].job, r) /\ p = Proceed(a, r.session, r.entry)
                  \/ /\ ~Rejected(act[a].job, r) /\ r.session # NoSession
                     /\ act[a].job \in UseJobs
                     /\ p = [act[a] EXCEPT !.pc = "close", !.job = "drop", !.x = r.session]
                  \/ /\ ~Rejected(act[a].job, r) /\ r.session # NoSession
                     /\ act[a].job = "stop"
                     /\ p = [act[a] EXCEPT !.pc = "close", !.x = r.session]
  <2>1. CASE AcquireManualStopped(a)
    BY <1>s, <1>r, <2>1 DEF AcquireManualStopped, Enters, sessionStale
  <2>2. CASE StopEnter(a)
    BY <1>s, <1>r, <2>2 DEF StopEnter, Enters
  <2>3. CASE Refuse(a) \/ StartRunning(a)
    BY <2>3 DEF Refuse, StartRunning
  <2>4. CASE AcquireColdStart(a) \/ StartCold(a) \/ RestartEnter(a)
    BY <1>s, <1>r, <2>4 DEF AcquireColdStart, StartCold, RestartEnter, Enters
  <2>5. CASE AcquireReuse(a)
    BY <1>s, <1>r, <2>5, Zenon DEF AcquireReuse
  <2> QED BY <2>1, <2>2, <2>3, <2>4, <2>5 DEF Enter
<1>7. ~Rejected(act[a].job, r) => act[a].job = "restart" \/ ~r.deleted
  <2>1. act[a].job \in UseJobs \cup {"start", "stop", "restart"}
    BY DEF Enter, Refuse, AcquireManualStopped, AcquireReuse, AcquireColdStart, StartRunning,
       StartCold, StopEnter, RestartEnter, Enters, AllJobs, UseJobs
  <2> QED BY <2>1 DEF Rejected, UseJobs
<1>8. /\ Idle.pc \notin OpPcs /\ Failed(a).pc \notin OpPcs /\ Leased(a, r.session).pc \notin OpPcs
  BY DEF Idle, Failed, Maintaining, Leased, OpPcs
<1>9. LET d == Proceed(a, r.session, r.entry)
      IN  /\ d.srv = s /\ d.cancelled = ctxDone
          /\ r.session = NoSession => d.pc = "connect"
  BY <1>1, <1>s DEF Proceed, ActorState
<1>10. /\ [act[a] EXCEPT !.pc = "close", !.job = "drop", !.x = r.session].srv = s
       /\ [act[a] EXCEPT !.pc = "close", !.x = r.session].srv = s
  BY <1>1, <1>s DEF ActorState
<1>11. p.pc \in OpPcs => /\ p.srv = s
                         /\ act[a].job = "restart" \/ ~r.deleted
                         /\ r.session = NoSession => p.pc = "connect" /\ p.cancelled = ctxDone
  BY <1>6, <1>7, <1>8, <1>9, <1>10
<1>12. \A b \in Actors : ActorMotion(b)
  BY <1>1, <1>6, <1>11, <1>s, <1>r, OneActs
<1> QED BY <1>5, <1>12 DEF Motion

\* Holding op: only an install gives the server a session, and nothing comes of a
\* connect whose context is cancelled.
LEMMA HoldMotion ==
    ASSUME Typed, LeaseInv, NEW a \in Actors,
           \/ CloseOld(a) \/ ConnectFail(a) \/ Discard(a) \/ Install(a)
           \/ \E x \in Sessions : ConnectOK(a, x)
    PROVE  Motion
<1>s. PICK s : s = act[a].srv
  OBVIOUS
<1>1. /\ act[a].pc \in OpPcs /\ held' = held /\ s \in Servers /\ act[a] \in ActorState
  <2>1. act[a].pc \in OpPcs /\ UNCHANGED background
    BY DEF CloseOld, ConnectFail, Discard, Install, ConnectOK, OpPcs
  <2> QED BY <1>s, <2>1, TypedFields, OwnerNames DEF background
<1>2. /\ Finish(a).session = st[s].session /\ Finish(a).op = Free
  BY <1>1, <1>s, FinishSession, FinishEffect
<1>3. /\ Idle.pc \notin OpPcs /\ Failed(a).pc \notin OpPcs
      /\ Leased(a, act[a].x).pc \notin OpPcs
  BY DEF Idle, Failed, Maintaining, Leased, OpPcs
<1>4. st' = st \/ st' = [st EXCEPT ![s] = Finish(a)] => \A t \in Servers : ServerMotion(t)
  BY <1>1, <1>2, OneMoves DEF Free
<1>5. ASSUME NEW p, Become(a, p),
             p.pc \in OpPcs => p.srv = s /\ (act[a].pc = "connect" => ~act[a].cancelled)
      PROVE  \A b \in Actors : ActorMotion(b)
  BY <1>1, <1>5, <1>s, OneActs
<1>6. CASE CloseOld(a)
  <2>1. Proceed(a, NoSession, act[a].entry).srv = s
    BY <1>1, <1>s DEF Proceed, ActorState
  <2>2. PICK p \in {Idle, Proceed(a, NoSession, act[a].entry)} : Become(a, p)
    BY <1>6 DEF CloseOld
  <2>3. act[a].pc = "close" /\ (st' = st \/ st' = [st EXCEPT ![s] = Finish(a)])
    BY <1>6, <1>s DEF CloseOld
  <2>4. p.pc \in OpPcs => p.srv = s
    BY <1>3, <2>1, <2>2
  <2> QED BY <1>4, <1>5, <2>2, <2>3, <2>4 DEF Motion
<1>7. CASE ConnectFail(a) \/ Discard(a)
  <2>1. Become(a, Failed(a)) /\ st' = [st EXCEPT ![s] = Finish(a)]
    BY <1>7, <1>s DEF ConnectFail, Discard
  <2> QED BY <1>3, <1>4, <1>5, <2>1 DEF Motion
<1>8. ASSUME NEW x \in Sessions, ConnectOK(a, x) PROVE Motion
  <2>1. PICK pc \in {"install", "discard"} : Become(a, [act[a] EXCEPT !.pc = pc, !.x = x])
    BY <1>8 DEF ConnectOK
  <2>p. PICK p : p = [act[a] EXCEPT !.pc = pc, !.x = x]
    OBVIOUS
  <2>2. p.srv = s /\ Become(a, p)
    BY <1>1, <1>s, <2>1, <2>p DEF ActorState
  <2>3. ~act[a].cancelled /\ st' = st
    BY <1>8 DEF ConnectOK
  <2> QED BY <1>4, <1>5, <2>2, <2>3 DEF Motion
<1>9. CASE Install(a)
  <2>1. PICK p \in {Idle, Failed(a), Leased(a, act[a].x)} : Become(a, p)
    BY <1>9 DEF Install
  <2>2. \A b \in Actors : ActorMotion(b)
    BY <1>3, <1>5, <2>1
  <2>r. PICK r : r = [st[s] EXCEPT !.session = act[a].x]
    OBVIOUS
  <2>d. PICK done : done = [r EXCEPT !.runtimeChanging = FALSE, !.op = Free]
    OBVIOUS
  <2>f. PICK free : free = [r EXCEPT !.op = Free]
    OBVIOUS
  <2>3. r \in serverState
    BY <1>1, <2>r, TypedFields DEF serverState
  <2>4. done \in serverState /\ done.op = Free /\ free.op = Free
    BY <2>3, <2>d, <2>f, PassingOwners, FreePasses DEF serverState
  <2>5. scheduleIdleLocked(done).op = Free
    BY <2>4, AlikeRecords DEF Kept
  <2>6. PICK q \in {Finish(a), free, done, scheduleIdleLocked(done)} : st' = [st EXCEPT ![s] = q]
    BY <1>9, <1>s, <2>r, <2>d, <2>f DEF Install
  <2>7. q.op = Free /\ act[a].pc = "install"
    BY <1>2, <1>9, <2>4, <2>5, <2>6 DEF Install
  <2>8. \A t \in Servers : ServerMotion(t)
    BY <1>1, <1>s, <2>6, <2>7, OneMoves DEF Free
  <2> QED BY <2>2, <2>8 DEF Motion
<1> QED BY <1>6, <1>7, <1>8, <1>9

\* Callers outside of an operation move no runtime.
LEMMA CallerMotion ==
    ASSUME Typed, LeaseInv,
           \/ \E c \in Clients, s \in Servers, job \in AllJobs : Begin(c, s, job)
           \/ \E a \in Actors : GiveUp(a)
           \/ \E c \in Clients : Release(c) \/ TaskExpires(c) \/ ExpiryRelease(c)
           \/ \E x \in Sessions : Crash(x) \/ ContractChange(x)
    PROVE  Motion
<1>0. /\ Clients \subseteq Actors
      /\ \A s \in Servers : st[s] \in serverState
      /\ \A a \in Actors : act[a] \in ActorState
      /\ UNCHANGED background => held' = held
  BY TypedFields DEF Actors, background
<1>1. ASSUME held' = held, \A t \in Servers : st'[t].session = st[t].session /\ st'[t].op = st[t].op
      PROVE  \A t \in Servers : ServerMotion(t)
  BY <1>1 DEF ServerMotion
<1>2. ASSUME NEW a \in Actors, NEW p, Become(a, p), p.pc \notin OpPcs
      PROVE  \A b \in Actors : ActorMotion(b)
  BY <1>2, OneActs
<1>3. ASSUME NEW c \in Clients, NEW s \in Servers, NEW job \in AllJobs, Begin(c, s, job)
      PROVE  Motion
  <2>p. PICK p : p = [Idle EXCEPT !.pc = "wait", !.job = job, !.srv = s]
    OBVIOUS
  <2>1. p.pc \notin OpPcs
    BY <2>p DEF Idle, OpPcs
  <2>2. Become(c, p) /\ UNCHANGED <<st, background>>
    BY <1>3, <2>p DEF Begin
  <2> QED BY <1>0, <1>1, <1>2, <2>1, <2>2 DEF Motion
<1>4. ASSUME NEW a \in Actors, GiveUp(a) PROVE Motion
  <2>1. Failed(a).pc \notin OpPcs
    BY DEF Failed, Idle, Maintaining, OpPcs
  <2> QED BY <1>0, <1>1, <1>2, <1>4, <2>1 DEF GiveUp, Motion
<1>5. ASSUME NEW c \in Clients, releaseOnce(c)
      PROVE  \A t \in Servers : st'[t].session = st[t].session /\ st'[t].op = st[t].op
  <2>1. \A t \in Servers : st'[t] \in {st[t], releaseLocked(st[t])}
    BY <1>5 DEF releaseOnce, Typed, StOK
  <2>2. \A t \in Servers : Kept(releaseLocked(st[t]), st[t])
    BY <1>0, AlikeRecords
  <2> QED BY <1>0, <2>1, <2>2, SessionHelpers DEF Kept
<1>6. ASSUME NEW c \in Clients, Release(c) \/ TaskExpires(c) \/ ExpiryRelease(c)
      PROVE  Motion
  <2>1. PICK p \in {Idle, [act[c] EXCEPT !.pc = "done", !.released = TRUE],
                    [act[c] EXCEPT !.timer = "fired"],
                    [act[c] EXCEPT !.released = TRUE, !.timer = "none"]} : Become(c, p)
    BY <1>6 DEF Release, TaskExpires, ExpiryRelease
  <2>2. act[c].pc \notin OpPcs
    <3>1. act[c].timer # "none" \/ act[c].pc = "leased"
      BY <1>6 DEF Release, TaskExpires, ExpiryRelease
    <3> QED BY <1>0, <3>1, OwnerNames DEF LeaseInv, LeaseShape
  <2>3. p.pc \in {"idle", "done", act[c].pc}
    <3>1. Idle.pc = "idle"
      BY DEF Idle
    <3>2. [act[c] EXCEPT !.pc = "done", !.released = TRUE].pc = "done"
      BY <1>0 DEF ActorState
    <3>3. [act[c] EXCEPT !.timer = "fired"].pc = act[c].pc
      BY <1>0 DEF ActorState
    <3>4. [act[c] EXCEPT !.released = TRUE, !.timer = "none"].pc = act[c].pc
      BY <1>0 DEF ActorState
    <3> QED BY <2>1, <3>1, <3>2, <3>3, <3>4
  <2>4. p.pc \notin OpPcs
    BY <2>2, <2>3 DEF OpPcs
  <2>5. UNCHANGED background /\ (st' = st \/ releaseOnce(c))
    BY <1>6 DEF Release, TaskExpires, ExpiryRelease
  <2> QED BY <1>0, <1>1, <1>2, <1>5, <2>1, <2>4, <2>5 DEF Motion
<1>7. ASSUME NEW x \in Sessions, Crash(x) \/ ContractChange(x) PROVE Motion
  BY <1>0, <1>1, <1>7 DEF Crash, ContractChange, Motion, ActorMotion
<1> QED BY <1>3, <1>4, <1>6, <1>7

\* A step that takes no session and moves no goroutine into an operation.
LEMMA QuietMotion ==
    ASSUME held' = held,
           \A t \in Servers : /\ st'[t].session \in {NoSession, st[t].session}
                              /\ st'[t].op = st[t].op \/ st'[t].op # "idle",
           \A b \in Actors : act'[b] = act[b] \/ act'[b].pc \notin OpPcs
    PROVE  Motion
BY DEF Motion, ServerMotion, ActorMotion

\* Closing what was taken out.
LEMMA HeldMotion ==
    ASSUME Typed, NEW s \in Servers, NEW r \in serverState, r.session = st[s].session,
           CloseHeld(s, r), \A b \in Actors : act'[b] = act[b] \/ act'[b].pc \notin OpPcs
    PROVE  Motion
<1>q. PICK q : q = [r EXCEPT !.runtimeChanging = FALSE, !.op = Free]
  OBVIOUS
<1>1. q.session = st[s].session /\ q.op = Free
  BY <1>q DEF serverState
<1>2. st' = [st EXCEPT ![s] = q] /\ held' = [held EXCEPT ![s] = NoSession]
  BY <1>q DEF CloseHeld
<1>3. \A t \in Servers : ServerMotion(t)
  BY <1>1, <1>2, OneMoves DEF Free
<1> QED BY <1>3 DEF Motion, ActorMotion

\* Taking out the session while op is free.
LEMMA TakesMotion ==
    ASSUME Typed, NEW s \in Servers, NEW q, st' = [st EXCEPT ![s] = q], act' = act,
           q.session = NoSession, held' = [held EXCEPT ![s] = st[s].session],
           q.op # "idle" \/ ~q.deleted
    PROVE  Motion
<1>1. \A t \in Servers : ServerMotion(t)
  BY OneMoves
<1> QED BY <1>1 DEF Motion, ActorMotion

\* The watcher, the maintainers and the idle timer.
LEMMA BackgroundMotion ==
    ASSUME Typed, Background
    PROVE  Motion
<1>0. /\ \A s \in Servers : st[s] \in serverState
      /\ UNCHANGED background => held' = held
  BY TypedFields DEF background
<1>1. ASSUME NEW x \in Sessions, WatchDetach(x) PROVE Motion
  <2>1. /\ UNCHANGED <<act, background>> /\ sess[x].srv \in Servers
        /\ st' = [st EXCEPT ![sess[x].srv] = Detach(st[sess[x].srv])]
    BY <1>1 DEF WatchDetach, Exited, Typed, SessOK, RuntimeOK
  <2>2. \A t \in Servers : Detach(st[t]).op = st[t].op /\ Detach(st[t]).session = NoSession
    BY <1>0, AlikeRecords, SessionHelpers DEF Kept
  <2>3. \A t \in Servers : /\ st'[t].session \in {NoSession, st[t].session}
                           /\ st'[t].op = st[t].op
    BY <2>1, <2>2 DEF Typed, StOK
  <2> QED BY <1>0, <2>1, <2>3, QuietMotion
<1>2. ASSUME NEW x \in Sessions, WatchClose(x) PROVE Motion
  <2>1. UNCHANGED <<st, background>> /\ sess[x].srv \in Servers
    BY <1>2 DEF WatchClose, Typed, SessOK, RuntimeOK
  <2>2. \A b \in Actors : act'[b] = act[b] \/ act'[b].pc \notin OpPcs
    BY <1>2, <2>1, MaintainsOutside DEF WatchClose
  <2> QED BY <1>0, <2>1, <2>2, QuietMotion
<1>3. ASSUME NEW w \in Workers, \/ MaintainExit(w) \/ MaintainTry(w)
                                \/ \E s \in Servers : StartAlwaysOn(s, w)
      PROVE  Motion
  <2>1. UNCHANGED <<st, held>>
    BY <1>0, <1>3 DEF MaintainExit, MaintainTry, StartAlwaysOn
  <2>2. PICK p : /\ UNCHANGED act \/ Become(w, p)
                 /\ \/ p = Idle
                    \/ p = [act[w] EXCEPT !.pc = "wait", !.job = "start"]
                    \/ \E s \in Servers : p = [Idle EXCEPT !.pc = "wait", !.job = "start", !.srv = s]
    BY <1>3 DEF MaintainExit, MaintainTry, StartAlwaysOn
  <2>3. p.pc \in {"idle", "wait"}
    <3>1. act[w] \in ActorState
      BY TypedFields DEF Actors
    <3>2. \A s : [Idle EXCEPT !.pc = "wait", !.job = "start", !.srv = s].pc = "wait"
      BY DEF Idle
    <3>3. [act[w] EXCEPT !.pc = "wait", !.job = "start"].pc = "wait"
      BY <3>1 DEF ActorState
    <3>4. Idle.pc = "idle"
      BY DEF Idle
    <3> QED BY <2>2, <3>2, <3>3, <3>4
  <2>4. \A b \in Actors : act'[b] = act[b] \/ act'[b].pc \notin OpPcs
    BY <2>2, <2>3, OwnerNames DEF Become, Typed, ActOK
  <2> QED BY <2>1, <2>4, QuietMotion
<1>4. ASSUME NEW s \in Servers, IdleFire(s) \/ IdleDrop(s) \/ IdleEarly(s) PROVE Motion
  <2>1. PICK q \in {[st[s] EXCEPT !.idle = "fired"], cancelIdleLocked(st[s]),
                    scheduleIdleLocked(st[s])} :
            st' = [st EXCEPT ![s] = q]
    BY <1>4 DEF IdleFire, IdleDrop, IdleEarly
  <2>2. /\ [st[s] EXCEPT !.idle = "fired"].session = st[s].session
        /\ [st[s] EXCEPT !.idle = "fired"].op = st[s].op
    BY <1>0 DEF serverState
  <2>3. q.session = st[s].session /\ q.op = st[s].op
    <3>1. /\ cancelIdleLocked(st[s]).session = st[s].session
          /\ scheduleIdleLocked(st[s]).session = st[s].session
      BY <1>0, SessionHelpers
    <3>2. /\ cancelIdleLocked(st[s]).op = st[s].op
          /\ scheduleIdleLocked(st[s]).op = st[s].op
      BY <1>0, AlikeRecords DEF Kept
    <3> QED BY <2>1, <2>2, <3>1, <3>2
  <2>4. \A t \in Servers : st'[t].session = st[t].session /\ st'[t].op = st[t].op
    BY <1>0, <2>1, <2>3 DEF Typed, StOK
  <2>5. UNCHANGED <<act, held>>
    BY <1>0, <1>4 DEF IdleFire, IdleDrop, IdleEarly
  <2> QED BY <2>4, <2>5, QuietMotion
<1>5. ASSUME NEW s \in Servers, idleStop(s) PROVE Motion
  <2>q. PICK q : q = [Detach(st[s]) EXCEPT !.runtimeChanging = TRUE, !.op = "idle"]
    OBVIOUS
  <2>1. /\ act' = act /\ st' = [st EXCEPT ![s] = q] /\ ~st[s].deleted
        /\ held' = [held EXCEPT ![s] = st[s].session]
    BY <1>5, <2>q DEF idleStop, IdleEligible
  <2>2. /\ Detach(st[s]) \in serverState /\ Detach(st[s]).session = NoSession
        /\ Detach(st[s]).deleted = st[s].deleted
    BY <1>0, AlikeRecords, SessionHelpers DEF Kept
  <2>3. q.session = NoSession /\ ~q.deleted
    BY <2>q, <2>1, <2>2 DEF serverState
  <2> QED BY <2>1, <2>3, TakesMotion
<1>6. ASSUME NEW s \in Servers, IdleFinish(s) PROVE Motion
  BY <1>0, <1>6, HeldMotion DEF IdleFinish
<1> QED BY <1>1, <1>2, <1>3, <1>4, <1>5, <1>6 DEF Background

\* An edit takes sessions out under op "commit".
LEMMA MutationMotion ==
    ASSUME Typed, Mutation
    PROVE  Motion
<1>0. /\ \A s \in Servers : st[s] \in serverState
      /\ UNCHANGED unmoved => UNCHANGED <<act, held>>
  BY TypedFields DEF unmoved
<1>1. ASSUME NEW s \in Servers, CommitDetach(s) PROVE Motion
  <2>1. act' = act /\ held' = [held EXCEPT ![s] = st[s].session]
    BY <1>1 DEF CommitDetach
  <2>2. PICK changing, deleted, entry :
            st' = [st EXCEPT ![s] = [Detach(@) EXCEPT !.op = "commit",
                                        !.runtimeChanging = changing,
                                        !.deleted = deleted, !.entry = entry]]
    BY <1>1, Zenon DEF CommitDetach
  <2>q. PICK q : q = [Detach(st[s]) EXCEPT !.op = "commit", !.runtimeChanging = changing,
                                           !.deleted = deleted, !.entry = entry]
    OBVIOUS
  <2>3. Detach(st[s]) \in serverState /\ Detach(st[s]).session = NoSession
    BY <1>0, AlikeRecords, SessionHelpers
  <2>4. q.session = NoSession /\ q.op = "commit"
    BY <2>3, <2>q DEF serverState
  <2>5. st' = [st EXCEPT ![s] = q]
    BY <2>2, <2>q
  <2> QED BY <2>1, <2>4, <2>5, TakesMotion
<1>2. ASSUME NEW s \in Servers, CommitFinish(s) PROVE Motion
  <2>r. PICK r : r = [st[s] EXCEPT !.mutating = FALSE, !.registered = mut.next[s] # Absent]
    OBVIOUS
  <2>1. r.session = st[s].session /\ r \in serverState
    BY <1>0, <2>r DEF serverState
  <2>2. CloseHeld(s, r)
    BY <1>2, <2>r DEF CommitFinish
  <2>3. \A b \in Actors : act'[b] = act[b] \/ act'[b].pc \notin OpPcs
    BY <1>2, MaintainsOutside DEF CommitFinish
  <2> QED BY <2>1, <2>2, <2>3, HeldMotion
<1>3. ASSUME NEW s \in Servers, CommitStartNew(s) PROVE Motion
  <2>1. UNCHANGED <<st, held>>
    BY <1>3 DEF CommitStartNew
  <2>2. \A b \in Actors : act'[b] = act[b] \/ act'[b].pc \notin OpPcs
    BY <1>3, MaintainsOutside DEF CommitStartNew
  <2> QED BY <2>1, <2>2, QuietMotion
<1>4. ASSUME \/ \E next \in Configs : SaveServers(next)
             \/ PrepareBegin \/ PrepareDone \/ PersistFail \/ CommitBegin
             \/ ReconcileOK \/ ReconcileFail
             \/ \E s \in Servers : PrepareClaim(s) \/ PrepareBusy(s) \/ CommitKeep(s)
      PROVE  Motion
  <2>1. UNCHANGED <<act, held>>
    BY <1>0, <1>4 DEF SaveServers, PrepareBegin, PrepareDone, PersistFail, CommitBegin,
       ReconcileOK, ReconcileFail, PrepareClaim, PrepareBusy, CommitKeep
  <2>2. \A t \in Servers : /\ st'[t].session \in {NoSession, st[t].session}
                           /\ st'[t].op = st[t].op \/ st'[t].op # "idle"
    <3>1. CASE \/ \E next \in Configs : SaveServers(next)
               \/ PrepareBegin \/ PrepareDone \/ ReconcileOK \/ ReconcileFail
      BY <3>1 DEF SaveServers, PrepareBegin, PrepareDone, ReconcileOK, ReconcileFail
    <3>2. CASE PersistFail \/ \E s \in Servers : PrepareBusy(s)
      <4>1. st' = st \/ \E S : st' = Unclaim(S)
        BY <3>2 DEF PersistFail, PrepareBusy
      <4> QED BY <4>1, UnclaimStill, UnclaimKeeps
    <3>3. ASSUME NEW s \in Servers, PrepareClaim(s) \/ CommitKeep(s)
          PROVE  \A t \in Servers : st'[t].session = st[t].session /\ st'[t].op = st[t].op
      <4>1. PICK q \in {[st[s] EXCEPT !.mutating = TRUE], [st[s] EXCEPT !.entry = mut.next[s]]} :
                st' = st \/ st' = [st EXCEPT ![s] = q]
        BY <3>3 DEF PrepareClaim, CommitKeep
      <4>2. q.session = st[s].session /\ q.op = st[s].op
        BY <1>0, <4>1 DEF serverState
      <4> QED BY <1>0, <4>1, <4>2 DEF Typed, StOK
    <3>4. CASE CommitBegin
      <4>1. PICK fresh :
                st' = [s \in Servers |-> IF s \in fresh THEN newServerState(mut.next[s])
                                                        ELSE st[s]]
        BY <3>4 DEF CommitBegin
      <4>2. \A s \in Servers : /\ newServerState(mut.next[s]).session = NoSession
                               /\ newServerState(mut.next[s]).op = Free
        BY DEF newServerState
      <4> QED BY <4>1, <4>2 DEF Free
    <3> QED BY <1>4, <3>1, <3>2, <3>3, <3>4
  <2> QED BY <2>1, <2>2, QuietMotion
<1> QED BY <1>1, <1>2, <1>3, <1>4 DEF Mutation

\* Close takes sessions out under op "close".
LEMMA ShutdownMotion ==
    ASSUME Typed, Shutdown
    PROVE  Motion
<1>0. \A s \in Servers : st[s] \in serverState
  BY TypedFields
<1>1. CASE AppCancel \/ CloseBegin \/ CloseDone
  <2>1. UNCHANGED <<st, act, held>>
    BY <1>1 DEF AppCancel, CloseBegin, CloseDone
  <2> QED BY <2>1, QuietMotion
<1>2. CASE CloseAbort
  <2>1. UNCHANGED <<act, held>> /\ (st' = st \/ \E S : st' = Unclaim(S))
    BY <1>2 DEF CloseAbort
  <2>2. \A t \in Servers : st'[t].session = st[t].session /\ st'[t].op = st[t].op
    BY <2>1, UnclaimStill, UnclaimKeeps
  <2> QED BY <2>1, <2>2, QuietMotion
<1>3. ASSUME NEW s \in Servers, CloseDetach(s) PROVE Motion
  <2>1. act' = act /\ held' = [held EXCEPT ![s] = st[s].session]
    BY <1>3 DEF CloseDetach
  <2>2. PICK changing : st' = [st EXCEPT ![s] = [Detach(@) EXCEPT !.op = "close",
                                                    !.runtimeChanging = changing]]
    BY <1>3, Zenon DEF CloseDetach
  <2>q. PICK q : q = [Detach(st[s]) EXCEPT !.op = "close", !.runtimeChanging = changing]
    OBVIOUS
  <2>3. Detach(st[s]) \in serverState /\ Detach(st[s]).session = NoSession
    BY <1>0, AlikeRecords, SessionHelpers
  <2>4. q.session = NoSession /\ q.op = "close"
    BY <2>3, <2>q DEF serverState
  <2>5. st' = [st EXCEPT ![s] = q]
    BY <2>2, <2>q
  <2> QED BY <2>1, <2>4, <2>5, TakesMotion
<1>4. ASSUME NEW s \in Servers, CloseFinish(s) PROVE Motion
  BY <1>0, <1>4, HeldMotion DEF CloseFinish
<1> QED BY <1>1, <1>2, <1>3, <1>4 DEF Shutdown

\* Every step moves runtimes in these ways only.
LEMMA Motions ==
    ASSUME Owned, [Next]_vars
    PROVE  Motion
<1>0. Typed /\ LeaseInv
  BY DEF Owned
<1>1. ASSUME NEW a \in Actors, Operation(a) PROVE Motion
  BY <1>0, <1>1, EnterMotion, HoldMotion DEF Operation, Enter
<1>2. ASSUME NEW a \in Actors, NEW x \in Sessions, ConnectOK(a, x) PROVE Motion
  BY <1>0, <1>2, HoldMotion
<1>3. CASE UNCHANGED vars
  BY <1>3, QuietMotion DEF vars
<1> QED BY <1>0, <1>1, <1>2, <1>3, CallerMotion, BackgroundMotion, MutationMotion, ShutdownMotion
        DEF Next, Terminated

\* Without restarts: a goroutine only restarts a server if a client asked for it.
NoRestart == \A a \in Actors : act[a].job # "restart"

\* The jobs a goroutine may get in a step that does not begin one.
LEMMA JobsStay ==
    ASSUME Typed, Calling
    PROVE  \A b \in Actors : \/ act'[b].job \in {act[b].job, "none", "drop", "start"}
                             \/ act'[b].job \in Jobs
<1>0. /\ \A a \in Actors : act[a] \in ActorState /\ (act[a].pc # "idle" => act[a].srv \in Servers)
      /\ Clients \subseteq Actors /\ Workers \subseteq Actors
  BY TypedFields DEF Actors
<1>1. ASSUME NEW a \in Actors, NEW p, Become(a, p),
             p.job \in {act[a].job, "none", "drop", "start"} \/ p.job \in Jobs
      PROVE  \A b \in Actors : \/ act'[b].job \in {act[b].job, "none", "drop", "start"}
                               \/ act'[b].job \in Jobs
  BY <1>1 DEF Become, Typed, ActOK
<1>2. ASSUME act' = act
      PROVE  \A b \in Actors : act'[b].job = act[b].job
  BY <1>2
<1>3. Idle.job = "none" /\ \A s : Maintaining(s).job = "none"
  BY DEF Idle, Maintaining
<1>4. \A a \in Actors : Failed(a).job = "none"
  BY <1>3 DEF Failed
<1>5. \A a \in Actors : \A x : Leased(a, x).job = act[a].job
  BY DEF Leased, Idle
<1>6. \A a \in Actors : \A x, entry : Proceed(a, x, entry).job = act[a].job
  BY <1>0 DEF Proceed, ActorState
<1>7. ASSUME NEW s \in Servers, GoMaintain(s)
      PROVE  \A b \in Actors : \/ act'[b].job \in {act[b].job, "none", "drop", "start"}
                               \/ act'[b].job \in Jobs
  BY <1>0, <1>1, <1>2, <1>3, <1>7 DEF GoMaintain
<1>8. ASSUME NEW c \in Clients, NEW s \in Servers, NEW job \in AllJobs, Begin(c, s, job)
      PROVE  \E p : Become(c, p) /\ p.job \in Jobs
  <2>1. [Idle EXCEPT !.pc = "wait", !.job = job, !.srv = s].job = job
    BY DEF Idle
  <2> QED BY <1>8, <2>1 DEF Begin
<1>9. ASSUME NEW a \in Actors, GiveUp(a) \/ Operation(a) \/ \E x \in Sessions : ConnectOK(a, x)
      PROVE  \E p : /\ Become(a, p)
                    /\ p.job \in {act[a].job, "none", "drop", "start"}
  <2>1. CASE GiveUp(a) \/ Refuse(a) \/ ConnectFail(a) \/ Discard(a)
    BY <1>4, <2>1 DEF GiveUp, Refuse, ConnectFail, Discard
  <2>2. CASE AcquireReuse(a)
    BY <1>5, <2>2 DEF AcquireReuse
  <2>3. CASE AcquireColdStart(a) \/ StartCold(a) \/ RestartEnter(a)
    BY <1>6, <2>3 DEF AcquireColdStart, StartCold, RestartEnter
  <2>4. CASE StartRunning(a)
    BY <1>3, <2>4 DEF StartRunning
  <2>5. CASE AcquireManualStopped(a)
    <3>1. \A x : [act[a] EXCEPT !.pc = "close", !.job = "drop", !.x = x].job = "drop"
      BY <1>0 DEF ActorState
    <3>2. PICK p : /\ Become(a, p)
                   /\ \/ p = Failed(a)
                      \/ \E x : p = [act[a] EXCEPT !.pc = "close", !.job = "drop", !.x = x]
      BY <2>5 DEF AcquireManualStopped
    <3> QED BY <1>4, <3>1, <3>2
  <2>6. CASE StopEnter(a)
    <3>1. \A x : [act[a] EXCEPT !.pc = "close", !.x = x].job = act[a].job
      BY <1>0 DEF ActorState
    <3>2. PICK p : /\ Become(a, p)
                   /\ \/ p = Idle
                      \/ \E x : p = [act[a] EXCEPT !.pc = "close", !.x = x]
      BY <2>6 DEF StopEnter
    <3> QED BY <1>3, <3>1, <3>2
  <2>7. CASE CloseOld(a)
    BY <1>3, <1>6, <2>7 DEF CloseOld
  <2>8. CASE Install(a)
    BY <1>3, <1>4, <1>5, <2>8 DEF Install
  <2>9. ASSUME NEW x \in Sessions, ConnectOK(a, x)
        PROVE  \E p : Become(a, p) /\ p.job = act[a].job
    <3>1. PICK pc \in {"install", "discard"} : Become(a, [act[a] EXCEPT !.pc = pc, !.x = x])
      BY <2>9 DEF ConnectOK
    <3>2. [act[a] EXCEPT !.pc = pc, !.x = x].job = act[a].job
      BY <1>0 DEF ActorState
    <3> QED BY <3>1, <3>2
  <2> QED BY <1>9, <2>1, <2>2, <2>3, <2>4, <2>5, <2>6, <2>7, <2>8, <2>9 DEF Operation
<1>10. ASSUME NEW c \in Clients, Release(c) \/ TaskExpires(c) \/ ExpiryRelease(c)
       PROVE  \E p : Become(c, p) /\ p.job \in {act[c].job, "none"}
  <2>1. PICK p \in {Idle, [act[c] EXCEPT !.pc = "done", !.released = TRUE],
                    [act[c] EXCEPT !.timer = "fired"],
                    [act[c] EXCEPT !.released = TRUE, !.timer = "none"]} : Become(c, p)
    BY <1>10 DEF Release, TaskExpires, ExpiryRelease
  <2>2. /\ [act[c] EXCEPT !.pc = "done", !.released = TRUE].job = act[c].job
        /\ [act[c] EXCEPT !.timer = "fired"].job = act[c].job
        /\ [act[c] EXCEPT !.released = TRUE, !.timer = "none"].job = act[c].job
    BY <1>0 DEF ActorState
  <2> QED BY <1>3, <2>1, <2>2
<1>11. ASSUME NEW x \in Sessions, Crash(x) \/ ContractChange(x) \/ WatchDetach(x)
       PROVE  act' = act
  BY <1>11 DEF Crash, ContractChange, WatchDetach
<1>12. ASSUME NEW x \in Sessions, WatchClose(x)
       PROVE  act' = act \/ \E s \in Servers : GoMaintain(s)
  BY <1>12 DEF WatchClose, Typed, SessOK, RuntimeOK
<1>13. ASSUME NEW w \in Workers, \/ MaintainExit(w) \/ MaintainTry(w)
                                 \/ \E s \in Servers : StartAlwaysOn(s, w)
       PROVE  act' = act \/ \E p : Become(w, p) /\ p.job \in {"none", "start"}
  <2>1. \A s : [Idle EXCEPT !.pc = "wait", !.job = "start", !.srv = s].job = "start"
    BY DEF Idle
  <2>2. [act[w] EXCEPT !.pc = "wait", !.job = "start"].job = "start"
    BY <1>0 DEF ActorState
  <2> QED BY <1>3, <1>13, <2>1, <2>2 DEF MaintainExit, MaintainTry, StartAlwaysOn
<1>14. ASSUME NEW s \in Servers,
              IdleFire(s) \/ IdleDrop(s) \/ IdleEarly(s) \/ idleStop(s) \/ IdleFinish(s)
       PROVE  act' = act
  BY <1>14 DEF IdleFire, IdleDrop, IdleEarly, idleStop, IdleFinish
<1>15. CASE Background
  BY <1>0, <1>1, <1>2, <1>7, <1>11, <1>12, <1>13, <1>14, <1>15 DEF Background
<1>16. CASE ~Background
  BY <1>0, <1>1, <1>2, <1>8, <1>9, <1>10, <1>11, <1>16 DEF Calling
<1> QED BY <1>15, <1>16

\* Edits and Close only start maintainers.
LEMMA JobsElsewhere ==
    ASSUME Typed, Mutation \/ Shutdown
    PROVE  \A b \in Actors : act'[b].job \in {act[b].job, "none"}
<1>1. act' = act \/ \E s \in Servers : GoMaintain(s)
  BY DEF Mutation, Shutdown, SaveServers, PrepareBegin, PrepareDone, PersistFail, CommitBegin,
     ReconcileOK, ReconcileFail, PrepareClaim, PrepareBusy, CommitKeep, CommitDetach,
     CommitFinish, CommitStartNew, AppCancel, CloseBegin, CloseAbort, CloseDone, CloseDetach,
     CloseFinish, unmoved
<1>2. \A s : Maintaining(s).job = "none"
  BY DEF Idle, Maintaining
<1> QED BY <1>1, <1>2 DEF GoMaintain, Become, Typed, ActOK

\* Nobody restarts if no client asks for it.
LEMMA NoRestartStep ==
    ASSUME "restart" \notin Jobs, Typed, NoRestart, [Next]_vars
    PROVE  NoRestart'
<1>1. Calling \/ Mutation \/ Shutdown \/ act' = act
  BY DEF Next, Calling, Terminated, vars
<1> QED BY <1>1, JobsStay, JobsElsewhere DEF NoRestart

-----------------------------------------------------------------------------
(* Deleted servers. *)

\* Nobody is in an operation on a deleted server, and it has no session; what the
\* commit took out of it is in held.
Gone ==
    \A s \in Servers : st[s].deleted =>
        /\ st[s].session = NoSession /\ st[s].op # "idle"
        /\ \A a \in Actors : act[a].pc \in OpPcs => act[a].srv # s

\* Only a commit deletes a server, with its op in hand.
LEMMA DeletedBy ==
    ASSUME Owned, [Next]_vars, NEW s \in Servers, st'[s].deleted, ~st[s].deleted
    PROVE  CommitDetach(s)
<1>0. Typed /\ LeaseInv /\ OpHeld /\ \A t \in Servers : st[t] \in serverState
  BY TypedFields DEF Owned, LeaseInv
<1>1. CASE Calling
  <2>1. AlikeStep
    BY <1>0, <1>1, CallingKeeps
  <2> QED BY <1>0, <2>1, AlikeServers DEF Alike
<1>2. CASE Mutation
  <2>1. ASSUME NEW t \in Servers, t # s, \E q : st' = [st EXCEPT ![t] = q]
        PROVE  st'[s] = st[s]
    BY <1>0, <2>1 DEF Typed, StOK
  <2>2. ASSUME NEW t \in Servers, CommitDetach(t) PROVE t = s
    BY <2>1, <2>2 DEF CommitDetach
  <2>3. ASSUME NEW t \in Servers, CommitFinish(t) PROVE FALSE
    <3>r. PICK r : r = [st[t] EXCEPT !.mutating = FALSE, !.registered = mut.next[t] # Absent]
      OBVIOUS
    <3>q. PICK q : q = [r EXCEPT !.runtimeChanging = FALSE, !.op = Free]
      OBVIOUS
    <3>1. r \in serverState /\ r.deleted = st[t].deleted
      BY <1>0, <3>r DEF serverState
    <3>2. q.deleted = st[t].deleted
      BY <3>1, <3>q DEF serverState
    <3>3. st' = [st EXCEPT ![t] = q]
      BY <2>3, <3>r, <3>q DEF CommitFinish, CloseHeld
    <3> QED BY <1>0, <3>2, <3>3 DEF Typed, StOK
  <2>4. ASSUME NEW t \in Servers, PrepareClaim(t) \/ CommitKeep(t) PROVE FALSE
    <3>1. PICK q \in {[st[t] EXCEPT !.mutating = TRUE], [st[t] EXCEPT !.entry = mut.next[t]]} :
              st' = st \/ st' = [st EXCEPT ![t] = q]
      BY <2>4 DEF PrepareClaim, CommitKeep
    <3>2. q.deleted = st[t].deleted
      BY <1>0, <3>1 DEF serverState
    <3> QED BY <1>0, <3>1, <3>2 DEF Typed, StOK
  <2>5. ASSUME PersistFail \/ \E t \in Servers : PrepareBusy(t) PROVE FALSE
    <3>1. st' = st \/ \E S : st' = Unclaim(S)
      BY <2>5 DEF PersistFail, PrepareBusy
    <3> QED BY <1>0, <3>1, UnclaimKeeps
  <2>6. ASSUME CommitBegin PROVE FALSE
    <3>1. PICK fresh :
              st' = [t \in Servers |-> IF t \in fresh THEN newServerState(mut.next[t])
                                                      ELSE st[t]]
      BY <2>6 DEF CommitBegin
    <3>2. ~newServerState(mut.next[s]).deleted
      BY DEF newServerState
    <3> QED BY <3>1, <3>2
  <2>7. ASSUME \/ \E next \in Configs : SaveServers(next)
               \/ PrepareBegin \/ PrepareDone \/ ReconcileOK \/ ReconcileFail
               \/ \E t \in Servers : CommitStartNew(t)
        PROVE  FALSE
    BY <2>7 DEF SaveServers, PrepareBegin, PrepareDone, ReconcileOK, ReconcileFail, CommitStartNew
  <2> QED BY <1>2, <2>2, <2>3, <2>4, <2>5, <2>6, <2>7 DEF Mutation
<1>3. CASE Shutdown
  <2>1. ASSUME AppCancel \/ CloseBegin \/ CloseAbort \/ CloseDone PROVE FALSE
    <3>1. st' = st \/ \E S : st' = Unclaim(S)
      BY <2>1 DEF AppCancel, CloseBegin, CloseAbort, CloseDone
    <3> QED BY <1>0, <3>1, UnclaimKeeps
  <2>2. ASSUME NEW t \in Servers, CloseDetach(t) PROVE FALSE
    <3>1. PICK changing : st' = [st EXCEPT ![t] = [Detach(@) EXCEPT !.op = "close",
                                                      !.runtimeChanging = changing]]
      BY <2>2, Zenon DEF CloseDetach
    <3>2. Detach(st[t]) \in serverState /\ Detach(st[t]).deleted = st[t].deleted
      BY <1>0, AlikeRecords DEF Kept
    <3>3. [Detach(st[t]) EXCEPT !.op = "close", !.runtimeChanging = changing].deleted
              = st[t].deleted
      BY <3>2 DEF serverState
    <3> QED BY <1>0, <3>1, <3>3 DEF Typed, StOK
  <2>3. ASSUME NEW t \in Servers, CloseFinish(t) PROVE FALSE
    <3>1. [st[t] EXCEPT !.runtimeChanging = FALSE, !.op = Free].deleted = st[t].deleted
      BY <1>0 DEF serverState
    <3>2. st' = [st EXCEPT ![t] = [st[t] EXCEPT !.runtimeChanging = FALSE, !.op = Free]]
      BY <2>3 DEF CloseFinish, CloseHeld
    <3> QED BY <1>0, <3>1, <3>2 DEF Typed, StOK
  <2> QED BY <1>3, <2>1, <2>2, <2>3 DEF Shutdown
<1>4. CASE st' = st
  BY <1>4
<1>5. Calling \/ Mutation \/ Shutdown \/ st' = st
  BY DEF Next, Calling, Terminated, vars
<1> QED BY <1>1, <1>2, <1>3, <1>4, <1>5

\* What a commit leaves of a server it deletes.
LEMMA DetachLeaves ==
    ASSUME Typed, NEW s \in Servers, CommitDetach(s)
    PROVE  /\ st[s].op = Free /\ act' = act
           /\ st'[s].session = NoSession /\ st'[s].op = "commit"
<1>1. PICK changing, deleted, entry :
          st' = [st EXCEPT ![s] = [Detach(@) EXCEPT !.op = "commit",
                                      !.runtimeChanging = changing,
                                      !.deleted = deleted, !.entry = entry]]
  BY Zenon DEF CommitDetach
<1>2. Detach(st[s]) \in serverState /\ Detach(st[s]).session = NoSession
  BY TypedFields, AlikeRecords, SessionHelpers
<1>q. PICK q : q = [Detach(st[s]) EXCEPT !.op = "commit", !.runtimeChanging = changing,
                                         !.deleted = deleted, !.entry = entry]
  OBVIOUS
<1>3. q.session = NoSession /\ q.op = "commit"
  BY <1>2, <1>q DEF serverState
<1>4. st'[s] = q
  BY <1>1, <1>q DEF Typed, StOK
<1> QED BY <1>3, <1>4 DEF CommitDetach

\* A deleted server stays without a runtime unless a restart comes.
LEMMA GoneStep ==
    ASSUME Owned, NoRestart, Gone, [Next]_vars
    PROVE  Gone'
<1>0. Typed /\ OpHeld /\ Own
  BY DEF Owned, LeaseInv
<1>1. Motion
  BY Motions
<1> SUFFICES ASSUME NEW s \in Servers, st'[s].deleted
             PROVE  /\ st'[s].session = NoSession /\ st'[s].op # "idle"
                    /\ \A a \in Actors : act'[a].pc \in OpPcs => act'[a].srv # s
  BY DEF Gone
<1>2. CASE ~st[s].deleted
  <2>1. /\ st[s].op = Free /\ act' = act
        /\ st'[s].session = NoSession /\ st'[s].op = "commit"
    BY <1>0, <1>2, DeletedBy, DetachLeaves
  <2> QED BY <1>0, <2>1, SoleFree
<1>3. CASE st[s].deleted
  <2>1. /\ st[s].session = NoSession /\ st[s].op # "idle"
        /\ \A a \in Actors : act[a].pc \in OpPcs => act[a].srv # s
    BY <1>3 DEF Gone
  <2>2. ServerMotion(s) /\ \A a \in Actors : ActorMotion(a)
    BY <1>1 DEF Motion
  <2>3. st'[s].session = NoSession /\ st'[s].op # "idle"
    BY <2>1, <2>2, "install" \in OpPcs DEF ServerMotion, OpPcs
  <2>4. ASSUME NEW a \in Actors, act'[a].pc \in OpPcs PROVE act'[a].srv # s
    BY <1>3, <2>1, <2>2, <2>4 DEF ActorMotion, NoRestart
  <2> QED BY <2>3, <2>4
<1> QED BY <1>2, <1>3

-----------------------------------------------------------------------------
(* Close. *)

\* Once Close has dealt with a server, it has no runtime, and what still tries to
\* connect one does it with a cancelled context.
Quenched ==
    /\ shut.phase = "down" => shut.todo = {}
    /\ shut.phase \in {"drain", "down"} =>
          \A s \in Servers \ shut.todo :
              /\ st[s].session = NoSession /\ held[s] = NoSession
              /\ \A a \in Actors : act[a].pc \in OpPcs /\ act[a].srv = s =>
                    act[a].pc = "connect" /\ act[a].cancelled

\* The progress of Close is made by Close.
LEMMA CloseMoves ==
    ASSUME Owned, [Next]_vars
    PROVE  \/ shut' = shut \/ CloseBegin \/ CloseAbort \/ CloseDone
           \/ \E s \in Servers : CloseFinish(s)
<1>1. Typed /\ LeaseInv /\ OpHeld
  BY DEF Owned, LeaseInv
<1>2. Calling \/ Mutation \/ Shutdown \/ shut' = shut
  BY DEF Next, Calling, Terminated, vars
<1>3. Calling => shut' = shut
  BY <1>1, CallingKeeps
<1>4. Mutation => shut' = shut
  BY <1>1, MutationOps
<1>5. Shutdown => \/ shut' = shut \/ CloseBegin \/ CloseAbort \/ CloseDone
                  \/ \E s \in Servers : CloseFinish(s)
  BY DEF Shutdown, AppCancel, CloseDetach
<1> QED BY <1>2, <1>3, <1>4, <1>5

\* A server that is not in the map when Close looks has no runtime.
LEMMA UnlistedIsEmpty ==
    ASSUME Owned, Diffed, Gone, shut.phase = "abort", NEW s \in Servers, ~st[s].registered
    PROVE  /\ st[s].session = NoSession /\ held[s] = NoSession
           /\ \A a \in Actors : act[a].pc \in OpPcs => act[a].srv # s
<1>0. Typed /\ LeaseInv /\ OpHeld /\ Own /\ Closers /\ ServerOwns(s)
  BY DEF Owned, LeaseInv, Own
<1>1. CASE st[s].deleted
  <2>1. /\ st[s].session = NoSession /\ st[s].op # "idle"
        /\ \A a \in Actors : act[a].pc \in OpPcs => act[a].srv # s
    BY <1>1 DEF Gone
  <2>2. st[s].op # "commit" /\ st[s].op # "close"
    BY <1>0 DEF Diffed, Closers
  <2> QED BY <1>0, <2>1, <2>2 DEF ServerOwns, Bg
<1>2. CASE ~st[s].deleted
  <2>1. /\ \A a \in Actors : act[a].pc # "idle" => act[a].srv # s
        /\ \A x \in Sessions : sess[x].status # "free" => sess[x].srv # s
    BY <1>0, <1>2 DEF LeaseInv, KnownOnly, Known
  <2>2. /\ st[s].session \in Sessions \cup {NoSession}
        /\ held[s] \in Sessions \cup {NoSession}
    BY <1>0, TypedFields
  <2>3. st[s].session = NoSession /\ held[s] = NoSession
    BY <1>0, <2>1, <2>2 DEF ServerOwns, Of
  <2> QED BY <2>1, <2>3 DEF OpPcs
<1> QED BY <1>1, <1>2

\* What Close has stopped stays stopped.
LEMMA QuenchedStays ==
    ASSUME Owned, Quenched, [Next]_vars, shut.phase \in {"drain", "down"},
           NEW s \in Servers \ shut.todo
    PROVE  /\ st'[s].session = NoSession /\ held'[s] = NoSession
           /\ \A a \in Actors : act'[a].pc \in OpPcs /\ act'[a].srv = s =>
                 act'[a].pc = "connect" /\ act'[a].cancelled
<1>1. /\ st[s].session = NoSession /\ held[s] = NoSession
      /\ \A a \in Actors : act[a].pc \in OpPcs /\ act[a].srv = s =>
            act[a].pc = "connect" /\ act[a].cancelled
  BY DEF Quenched
<1>2. ServerMotion(s) /\ \A a \in Actors : ActorMotion(a)
  BY Motions DEF Motion
<1>3. ctxDone = TRUE
  BY DEF Owned, Closers, Typed, RestOK
<1>4. st'[s].session = NoSession /\ held'[s] = NoSession
  BY <1>1, <1>2 DEF ServerMotion, OpPcs
<1>5. ASSUME NEW a \in Actors, act'[a].pc \in OpPcs, act'[a].srv = s
      PROVE  act'[a].pc = "connect" /\ act'[a].cancelled
  <2>1. CASE act'[a] = act[a]
    BY <1>1, <1>5, <2>1
  <2>2. CASE act[a].pc \in OpPcs /\ act[a].srv = s
    BY <1>1, <1>2, <1>5, <2>2 DEF ActorMotion, OpPcs
  <2>3. CASE act[a].pc = "wait"
    BY <1>1, <1>2, <1>3, <1>5, <2>3 DEF ActorMotion, OpPcs
  <2> QED BY <1>2, <1>5, <2>1, <2>2, <2>3 DEF ActorMotion
<1> QED BY <1>4, <1>5

\* Every step keeps what Close has stopped as it is.
LEMMA QuenchedStep ==
    ASSUME Owned, Diffed, Gone, Quenched, [Next]_vars
    PROVE  Quenched'
<1>0. Typed /\ OpHeld /\ Own /\ Closers /\ LeaseInv
  BY DEF Owned, LeaseInv
<1>s. shut \in [phase : {"up", "abort", "drain", "down"}, todo : SUBSET Servers]
  BY <1>0 DEF Typed, RestOK
<1>1. CASE shut' = shut
  BY <1>1, QuenchedStays DEF Quenched
<1>2. CASE CloseBegin
  <2>1. shut'.phase = "abort"
    BY <1>2, <1>s DEF CloseBegin
  <2> QED BY <2>1 DEF Quenched
<1>3. CASE CloseDone
  <2>1. shut.phase = "drain" /\ shut.todo = {} /\ shut'.todo = {}
    BY <1>3, <1>s DEF CloseDone
  <2> QED BY <2>1, QuenchedStays DEF Quenched
<1>4. CASE CloseAbort
  <2>1. /\ shut.phase = "abort" /\ shut'.phase = "drain" /\ UNCHANGED <<act, held>>
        /\ shut'.todo = {s \in Servers : st[s].registered}
        /\ st' = st \/ \E S : st' = Unclaim(S)
    BY <1>4 DEF CloseAbort
  <2>2. \A s \in Servers : st'[s].session = st[s].session
    BY <1>0, <2>1, UnclaimStill
  <2>3. \A s \in Servers \ shut'.todo :
            /\ st[s].session = NoSession /\ held[s] = NoSession
            /\ \A a \in Actors : act[a].pc \in OpPcs => act[a].srv # s
    BY <2>1, UnlistedIsEmpty
  <2> QED BY <2>1, <2>2, <2>3 DEF Quenched
<1>5. ASSUME NEW t \in Servers, CloseFinish(t) PROVE Quenched'
  <2>1. /\ st[t].op = "close" /\ act' = act /\ CloseHeld(t, st[t])
        /\ shut.phase = "drain" /\ shut'.phase = "drain" /\ shut'.todo = shut.todo \ {t}
    BY <1>0, <1>5, <1>s DEF CloseFinish, Closers
  <2>2. /\ st[t].session = NoSession
        /\ \A a \in Actors : act[a].pc \in OpPcs => act[a].srv # t
    BY <1>0, <2>1, SoleHeld DEF Bg
  <2>3. st'[t].session = NoSession
    BY <1>0, <2>1, <2>2, TypedFields, CloseHeldKeeps
  <2>4. held'[t] = NoSession
    BY <1>0, <2>1 DEF CloseHeld, Typed, RestOK
  <2> QED BY <2>1, <2>2, <2>3, <2>4, QuenchedStays DEF Quenched
<1> QED BY <1>1, <1>2, <1>3, <1>4, <1>5, CloseMoves

-----------------------------------------------------------------------------

\* At the start nothing is deleted, closed or restarting.
LEMMA GoneInit == Init => NoRestart /\ Gone /\ Quenched
BY DEF Init, NoRestart, Gone, Quenched, newServerState, Idle

\* The three hold together.
LEMMA GoneHolds ==
    ASSUME "restart" \notin Jobs
    PROVE  Spec => [](Owned /\ Gone /\ Quenched)
<1>1. Owned /\ Diffed /\ NoRestart /\ Gone /\ Quenched /\ [Next]_vars
          => NoRestart' /\ Gone' /\ Quenched'
  BY NoRestartStep, GoneStep, QuenchedStep DEF Owned
<1> QED BY <1>1, OwnedHolds, DiffedInit, DiffedInvariant, GoneInit, PTL DEF Spec

\* If no restart is waiting, a deleted server has no runtime other than the one the
\* commit that deletes it is closing: no operation that waited for op brings one up.
THEOREM DeletedAreStopped ==
    ASSUME "restart" \notin Jobs PROVE Spec => []DeletedHasNoRuntime
<1>1. Owned /\ Gone => DeletedHasNoRuntime
  <2> SUFFICES ASSUME Owned, Gone, NEW s \in Servers, st[s].deleted, NEW x \in Sessions,
                      Live(x), sess[x].srv = s
               PROVE  held[s] = x
    BY DEF DeletedHasNoRuntime
  <2>1. Typed /\ OpHeld /\ Own
    BY DEF Owned, LeaseInv
  <2>2. ASSUME NEW a \in Actors, act[a].pc \in OpPcs, act[a].x = x PROVE FALSE
    <3>1. act[a].srv = s
      BY <2>1, <2>2, OwnerNames DEF Own, ActorOwns, Of
    <3> QED BY <2>2, <3>1 DEF Gone
  <2>3. st[s].session # x
    BY OwnerNames DEF Gone
  <2> QED BY <2>1, <2>2, <2>3 DEF Own, NoOrphanRuntime
<1> QED BY <1>1, GoneHolds, PTL

\* If no restart is waiting, nothing runs after Close: neither the sessions it found
\* nor what was connecting while it went through the servers is left behind.
THEOREM CloseStopsAll ==
    ASSUME "restart" \notin Jobs PROVE Spec => []ClosedMeansStopped
<1>1. Owned /\ Quenched => ClosedMeansStopped
  <2> SUFFICES ASSUME Owned, Quenched, shut.phase = "down", NEW x \in Sessions, Live(x)
               PROVE  FALSE
    BY DEF ClosedMeansStopped
  <2>1. Typed /\ OpHeld /\ Own
    BY DEF Owned, LeaseInv
  <2>2. sess[x].srv \in Servers \ shut.todo
    BY <2>1, TypedFields DEF Quenched
  <2>3. ASSUME NEW a \in Actors, act[a].pc \in OpPcs, act[a].x = x PROVE FALSE
    <3>1. act[a].srv = sess[x].srv /\ act[a].pc # "connect"
      BY <2>1, <2>3, OwnerNames DEF Own, ActorOwns, Of
    <3> QED BY <2>2, <2>3, <3>1 DEF Quenched
  <2>4. st[sess[x].srv].session # x /\ held[sess[x].srv] # x
    BY <2>2, OwnerNames DEF Quenched
  <2> QED BY <2>1, <2>3, <2>4 DEF Own, NoOrphanRuntime
<1> QED BY <1>1, GoneHolds, PTL
=============================================================================

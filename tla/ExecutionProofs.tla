-------------------------- MODULE ExecutionProofs --------------------------
(***************************************************************************)
(* Proofs about routed calls: what runs is what was checked, callbacks     *)
(* stay with their request, "not started" is true, and a call is as        *)
(* CallContract says; for any number of calls, contracts, sessions, list   *)
(* changes and faults.                                                     *)
(***************************************************************************)
EXTENDS Execution, TLAPS

SessionType == [alive : BOOLEAN, initial : Lists, current : Lists, effective : Contracts,
                seen : Lists, changed : BOOLEAN, wake : BOOLEAN, owner : Calls \cup {None}]

\* While a session of a server that announces nothing is not found changed, it
\* is as it was made.
AsMade(s) == s.changed = FALSE => /\ s.current = s.initial /\ s.seen = s.initial
                                  /\ s.initial # None => s.effective = s.initial

Sessions == dynamic = FALSE => \A i \in 1 .. Len(sess) : AsMade(sess[i])

\* A leased call has a session, and one in flight holds its callback lock.
OnSession ==
    \A c \in Calls : /\ pc[c] \in Leased \/ c \in exec => on[c] \in 1 .. Len(sess)
                     /\ pc[c] = "inflight" => sess[on[c]].owner = c

\* What a call has found out about its session still holds while the session
\* is not found changed, and then of the server until its list changes.
Checked ==
    dynamic = FALSE => \A c \in Calls :
        /\ pc[c] \in {"checked", "called"} /\ sess[on[c]].changed = FALSE =>
               /\ sess[on[c]].effective = handle[c].c
               /\ pc[c] = "called" => sess[on[c]].initial # None
        /\ pc[c] \in {"waiting", "inflight"} /\ ran[c] = None /\ c \notin drift =>
               lists = handle[c].c

\* The server has a call only after it was sent, and no answer comes before the end.
Progress ==
    \A c \in Calls :
        /\ ran[c] # None => pc[c] \in {"inflight", "returned", "task", "done"}
        /\ c \in exec => pc[c] \in {"inflight", "task", "done"}
        /\ pc[c] # "done" => outcome[c] = "none"
        /\ pc[c] = "task" => result[c] = "task"
        /\ pc[c] \notin {"task", "done"} => result[c] # "task"

IInv == /\ TypeOK /\ Sessions /\ OnSession /\ Checked /\ Progress
        /\ RunsCheckedContract /\ CallbacksStayHome /\ NotStartedIsTrue

\* The type invariant in four parts.
TypeServer == /\ lists \in Lists /\ changes \in 0 .. MaxChanges /\ dynamic \in BOOLEAN
              /\ exec \subseteq Calls /\ drift \subseteq Calls /\ ran \in [Calls -> Lists]
              /\ heard \subseteq Calls \X Calls
TypeSession == /\ sess \in Seq(SessionType) /\ Len(sess) <= MaxSessions
               /\ cur \in 0 .. Len(sess) /\ cached \in Contracts
TypeIndex == /\ gen \in [id : 1 .. MaxGens, c : Contracts, hash : Nat] /\ rev \in Nat \ {0}
             /\ epoch \in Nat /\ phase \in {"up", "closing"}
TypeCall == /\ pc \in [Calls -> Places] /\ snap \in [Calls -> Nat] /\ on \in [Calls -> 0 .. Len(sess)]
            /\ handle \in [Calls -> [gen : 1 .. MaxGens, c : Contracts, epoch : Nat]]
            /\ result \in [Calls -> {"none", "plain", "task"}] /\ outcome \in [Calls -> Outcomes]

\* The type invariant is its four parts and the number of faults,
LEMMA TypeParts ==
    TypeOK <=> TypeServer /\ TypeSession /\ TypeIndex /\ TypeCall /\ faults \in 0 .. MaxFaults
  BY DEF TypeOK, TypeServer, TypeSession, TypeIndex, TypeCall, SessionType

\* also after a step.
LEMMA TypePartsPrime ==
    TypeOK' <=> TypeServer' /\ TypeSession' /\ TypeIndex' /\ TypeCall' /\ faults' \in 0 .. MaxFaults
  BY DEF TypeOK, TypeServer, TypeSession, TypeIndex, TypeCall, SessionType

\* What is not written keeps its type.
LEMMA TypesStand ==
    TypeOK => /\ UNCHANGED srvVars => TypeServer'
              /\ UNCHANGED sessVars => TypeSession'
              /\ UNCHANGED ixVars => TypeIndex'
              /\ UNCHANGED <<sessVars, callVars>> => TypeCall'
  BY DEF TypeOK, srvVars, sessVars, ixVars, callVars, TypeServer, TypeSession, TypeIndex, TypeCall, SessionType

\* Faults are counted up to their bound.
LEMMA FaultTypes == ASSUME TypeOK, NEW f, Fault(f) PROVE faults' \in 0 .. MaxFaults
  BY ExecutionAssumption DEF TypeOK, Fault

-----------------------------------------------------------------------------
\* A function on 1 .. n is a sequence.
LEMMA FunctionIsSeq ==
    ASSUME NEW S, NEW n \in Nat, NEW f \in [1 .. n -> S]
    PROVE  f \in Seq(S) /\ Len(f) = n
  OBVIOUS

\* The sessions are a bounded sequence.
LEMMA SessIsSeq ==
    TypeOK => /\ sess \in Seq(SessionType) /\ DOMAIN sess = 1 .. Len(sess)
              /\ Len(sess) \in Nat /\ Len(sess) <= MaxSessions
<1>1. TypeOK => sess \in Seq(SessionType) /\ Len(sess) <= MaxSessions
  BY DEF TypeOK, SessionType
<1> QED BY <1>1

Evolves ==
    /\ sess' \in Seq(SessionType) /\ Len(sess) <= Len(sess') /\ Len(sess') <= MaxSessions
    /\ dynamic = FALSE =>
        /\ \A i \in 1 .. Len(sess) :
            sess'[i].changed = FALSE => /\ sess[i].changed = FALSE
                                        /\ sess'[i].initial = sess[i].initial
                                        /\ sess'[i].current = sess[i].current
                                        /\ sess'[i].seen = sess[i].seen
                                        /\ sess'[i].effective = sess[i].effective
        /\ \A i \in Len(sess) + 1 .. Len(sess') : AsMade(sess'[i])

Owners == \A i \in 1 .. Len(sess) : sess'[i].owner = sess[i].owner

\* Sessions that evolve stay as they were made until they are found changed.
LEMMA EvolvesSessions ==
    ASSUME TypeOK, Sessions, Evolves, dynamic' = dynamic
    PROVE  Sessions'
<1> SUFFICES ASSUME dynamic = FALSE, NEW i \in 1 .. Len(sess') PROVE AsMade(sess'[i])
  BY DEF Sessions, AsMade
<1>1. CASE i \in 1 .. Len(sess)
  BY <1>1 DEF Evolves, Sessions, AsMade
<1>2. CASE i \in Len(sess) + 1 .. Len(sess')
  BY <1>2 DEF Evolves
<1>3. Len(sess) \in Nat /\ Len(sess') \in Nat
  BY SessIsSeq DEF Evolves
<1> QED BY <1>1, <1>2, <1>3

\* Sessions that are left alone evolve trivially.
LEMMA Stands == TypeOK /\ UNCHANGED sess => Evolves /\ Owners
<1> SUFFICES ASSUME TypeOK, UNCHANGED sess PROVE Evolves /\ Owners
  OBVIOUS
<1>1. sess \in Seq(SessionType) /\ Len(sess) \in Nat /\ Len(sess) <= MaxSessions
  BY SessIsSeq
<1>2. Len(sess) + 1 .. Len(sess) = {}
  BY <1>1
<1> QED BY <1>1, <1>2 DEF Evolves, Owners

\* Writing one session leaves the others alone.
LEMMA Updates ==
    ASSUME TypeOK, NEW i \in 1 .. Len(sess), NEW s \in SessionType, sess' = [sess EXCEPT ![i] = s]
    PROVE  /\ sess' \in Seq(SessionType) /\ Len(sess') = Len(sess) /\ sess'[i] = s
           /\ \A j \in (1 .. Len(sess)) \ {i} : sess'[j] = sess[j]
  BY SessIsSeq

\* What s keeps of session i, unless it is found changed.
Keeps(s, i) ==
    dynamic = FALSE /\ s.changed = FALSE =>
        /\ sess[i].changed = FALSE /\ s.initial = sess[i].initial /\ s.current = sess[i].current
        /\ s.seen = sess[i].seen /\ s.effective = sess[i].effective

\* A session written within bounds evolves.
LEMMA UpdateEvolves ==
    ASSUME TypeOK, NEW i \in 1 .. Len(sess), NEW s \in SessionType, sess' = [sess EXCEPT ![i] = s],
           Keeps(s, i)
    PROVE  Evolves /\ (s.owner = sess[i].owner => Owners)
<1>1. /\ sess' \in Seq(SessionType) /\ Len(sess') = Len(sess) /\ sess'[i] = s
      /\ \A j \in (1 .. Len(sess)) \ {i} : sess'[j] = sess[j]
  BY Updates
<1>2. Len(sess) \in Nat /\ Len(sess) <= MaxSessions
  BY SessIsSeq
<1>3. Len(sess) + 1 .. Len(sess') = {}
  BY <1>1, <1>2
<1>4. Owners \/ s.owner # sess[i].owner
  BY <1>1 DEF Owners
<1>5. Evolves
  BY <1>1, <1>2, <1>3 DEF Evolves, Keeps
<1> QED BY <1>4, <1>5

\* An observation finds a session changed or leaves what was compared alone.
LEMMA ObserveEvolves ==
    ASSUME TypeOK, Sessions, NEW i \in 1 .. Len(sess), NEW w \in BOOLEAN,
           ObserveAt(i, [sess[i] EXCEPT !.wake = w])
    PROVE  Evolves /\ Owners
<1> DEFINE s == [sess[i] EXCEPT !.wake = w]
<1>1. sess[i] \in SessionType
  BY SessIsSeq
<1>2. s \in SessionType /\ Observed(s) \in SessionType
  BY <1>1 DEF Observed, SessionType, SemanticChange, Lists
<1>3. /\ Observed(s).owner = sess[i].owner /\ Observed(s).changed = sess[i].changed
      /\ Observed(s).initial = sess[i].initial /\ Observed(s).current = sess[i].current
      /\ Observed(s).seen = sess[i].current
      /\ sess[i].current = sess[i].seen => Observed(s).effective = sess[i].effective
  BY <1>1 DEF Observed, SessionType
<1>4. sess' = [sess EXCEPT ![i] = Observed(s)]
  BY DEF ObserveAt
<1> HIDE DEF s
<1>5. Keeps(Observed(s), i)
  BY <1>3 DEF Keeps, Sessions, AsMade
<1> QED BY <1>2, <1>3, <1>4, <1>5, UpdateEvolves

\* Retiring the current session touches none of its lists.
LEMMA RetiredEvolves ==
    ASSUME TypeOK
    PROVE  /\ Retired \in Seq(SessionType) /\ Len(Retired) = Len(sess)
           /\ \A i \in 1 .. Len(sess) :
                /\ Retired[i].owner = sess[i].owner /\ Retired[i].changed = sess[i].changed
                /\ Keeps(Retired[i], i)
<1>1. sess \in Seq(SessionType) /\ Len(sess) \in Nat /\ DOMAIN sess = 1 .. Len(sess)
  BY SessIsSeq
<1>2. \A i \in 1 .. Len(sess) : sess[i] \in SessionType
  BY <1>1
<1>3. \A i \in 1 .. Len(sess) : Retired[i] \in SessionType
  BY <1>1, <1>2 DEF Retired, SessionType
<1>4. Retired \in [1 .. Len(sess) -> SessionType]
  BY <1>1, <1>3 DEF Retired
<1>5. Retired \in Seq(SessionType) /\ Len(Retired) = Len(sess)
  BY <1>1, <1>4, FunctionIsSeq
<1>6. \A i \in 1 .. Len(sess) :
        /\ Retired[i].owner = sess[i].owner /\ Retired[i].changed = sess[i].changed
        /\ Keeps(Retired[i], i)
  BY <1>1, <1>2 DEF Retired, SessionType, Keeps
<1> QED BY <1>5, <1>6

\* So the sessions evolve.
LEMMA RetireEvolves ==
    ASSUME TypeOK, sess' = Retired
    PROVE  Evolves /\ Owners
<1>1. Len(sess) \in Nat /\ Len(sess) <= MaxSessions
  BY SessIsSeq
<1>2. Len(sess') = Len(sess) /\ Len(sess) + 1 .. Len(sess) = {}
  BY <1>1, RetiredEvolves
<1>3. \A i \in 1 .. Len(sess) : Keeps(sess'[i], i) /\ sess'[i].owner = sess[i].owner
  BY RetiredEvolves
<1>4. sess' \in Seq(SessionType)
  BY RetiredEvolves
<1> QED BY <1>1, <1>2, <1>3, <1>4 DEF Evolves, Owners, Keeps

\* A new session is added and the others are kept.
LEMMA ConnectEvolves ==
    ASSUME TypeOK, Connect
    PROVE  /\ Evolves /\ Owners /\ cur' \in 1 .. Len(sess')
           /\ cached' \in Contracts /\ rev' \in Nat \ {0}
<1>1. Len(sess) \in Nat /\ Len(sess) < MaxSessions /\ MaxSessions \in Nat
  BY SessIsSeq, ExecutionAssumption DEF Connect
<1>2. NewSession \in SessionType /\ AsMade(NewSession)
  BY ExecutionAssumption DEF NewSession, SessionType, AsMade, Caches, TypeOK, Lists
<1>3. /\ sess' \in Seq(SessionType) /\ Len(sess') = Len(sess) + 1
      /\ sess'[Len(sess) + 1] = NewSession
      /\ \A i \in 1 .. Len(sess) : sess'[i] = Retired[i]
  BY <1>1, <1>2, RetiredEvolves DEF Connect
<1>4. Len(sess) + 1 .. Len(sess') = {Len(sess) + 1}
  BY <1>1, <1>3
<1>5. \A i \in 1 .. Len(sess) : Keeps(sess'[i], i) /\ sess'[i].owner = sess[i].owner
  BY <1>3, RetiredEvolves
<1>6. Evolves /\ Owners
  BY <1>1, <1>2, <1>3, <1>4, <1>5 DEF Evolves, Owners, Keeps
<1>7. cached' \in Contracts /\ rev' \in Nat \ {0}
  BY ExecutionAssumption DEF Connect, Caches, TypeOK, Lists
<1> QED BY <1>1, <1>3, <1>6, <1>7 DEF Connect

\* The end of a session keeps its lists and its callback lock.
LEMMA EndsEvolves ==
    ASSUME TypeOK, NEW i \in 1 .. Len(sess), Ends(i)
    PROVE  Evolves /\ Owners
<1>1. sess[i] \in SessionType
  BY SessIsSeq
<1> DEFINE s == [sess[i] EXCEPT !.alive = FALSE, !.wake = FALSE]
<1>2. s \in SessionType /\ s.owner = sess[i].owner /\ Keeps(s, i)
  BY <1>1 DEF SessionType, Keeps
<1>3. sess' = [sess EXCEPT ![i] = s]
  BY <1>1, SessIsSeq DEF Ends, SessionType
<1> QED BY <1>2, <1>3, UpdateEvolves

\* A step of one call that is not in flight keeps the invariant, if what it claims to have found is so.
LEMMA CallMoves ==
    ASSUME IInv, NEW c \in Calls, NEW p \in Places, pc[c] \notin {"idle", "inflight"},
           Evolves, Owners, TypeOK', UNCHANGED srvVars, UNCHANGED <<handle, result>>,
           pc' = [pc EXCEPT ![c] = p],
           \A d \in Calls \ {c} : on'[d] = on[d] /\ outcome'[d] = outcome[d],
           p \notin {"inflight", "task"}, pc[c] \in {"task", "done"} => p = "done",
           p \in Leased \/ c \in exec => on'[c] \in 1 .. Len(sess'),
           p # "done" => outcome'[c] = "none" /\ ran[c] = None /\ c \notin exec,
           dynamic = FALSE /\ p \in {"checked", "called"} /\ sess'[on'[c]].changed = FALSE =>
               /\ sess'[on'[c]].effective = handle[c].c
               /\ p = "called" => sess'[on'[c]].initial # None,
           dynamic = FALSE /\ p = "waiting" => lists = handle[c].c,
           outcome'[c] = "not_started" => ran[c] = None \/ result[c] = "task"
    PROVE  IInv'
<1> USE DEF srvVars
<1>1. Sessions'
  BY EvolvesSessions DEF IInv
<1>2. pc'[c] = p /\ \A d \in Calls \ {c} : pc'[d] = pc[d]
  BY DEF IInv, TypeOK
<1>3. \A d \in Calls \ {c} : pc[d] \in Leased \/ d \in exec => on'[d] \in 1 .. Len(sess) /\ on'[d] \in 1 .. Len(sess')
  <2>1. Len(sess) \in Nat /\ Len(sess') \in Nat /\ Len(sess) <= Len(sess')
    BY SessIsSeq DEF IInv, Evolves
  <2> QED BY <2>1 DEF IInv, OnSession
<1>4. OnSession'
  BY <1>2, <1>3 DEF IInv, OnSession, Owners, Leased
<1>5. Checked'
  BY <1>2, <1>3 DEF IInv, Checked, Evolves, Leased
<1>6. Progress'
  BY <1>2 DEF IInv, Progress
<1>7. RunsCheckedContract'
  BY DEF IInv, RunsCheckedContract
<1>8. CallbacksStayHome'
  BY <1>2 DEF IInv, CallbacksStayHome
<1>9. NotStartedIsTrue'
  BY DEF IInv, NotStartedIsTrue
<1> QED BY <1>1, <1>4, <1>5, <1>6, <1>7, <1>8, <1>9 DEF IInv

(* A step that leaves the calls and the server alone.                      *)
LEMMA SessionMoves ==
    ASSUME IInv, Evolves, Owners, TypeOK', UNCHANGED srvVars, UNCHANGED callVars
    PROVE  IInv'
<1> USE DEF srvVars, callVars
<1>1. Sessions'
  BY EvolvesSessions DEF IInv
<1>2. \A d \in Calls : pc[d] \in Leased \/ d \in exec => on[d] \in 1 .. Len(sess) /\ on[d] \in 1 .. Len(sess')
  <2>1. Len(sess) \in Nat /\ Len(sess') \in Nat /\ Len(sess) <= Len(sess')
    BY SessIsSeq DEF IInv, Evolves
  <2> QED BY <2>1 DEF IInv, OnSession
<1>3. OnSession'
  BY <1>2 DEF IInv, OnSession, Owners, Leased
<1>4. Checked'
  BY <1>2 DEF IInv, Checked, Evolves, Leased
<1>5. Progress' /\ RunsCheckedContract'
  BY DEF IInv, Progress, RunsCheckedContract
<1>6. CallbacksStayHome' /\ NotStartedIsTrue'
  BY DEF IInv, CallbacksStayHome, NotStartedIsTrue
<1> QED BY <1>1, <1>3, <1>4, <1>5, <1>6 DEF IInv

-----------------------------------------------------------------------------
(* The server.                                                             *)

(* From the last look at the list until the server starts the tool, a      *)
(* change of the list is noticed as drift.                                 *)
LEMMA ListChangeStep ==
    ASSUME IInv, NEW l \in Lists, ListChange(l)
    PROVE  IInv'
<1> USE DEF IInv, ListChange, sessVars, ixVars, callVars
<1>1. TypeOK'
  <2>1. changes' \in 0 .. MaxChanges /\ drift' \subseteq Calls
    BY ExecutionAssumption DEF TypeOK
  <2>2. TypeServer'
    BY <2>1 DEF TypeOK, TypeServer
  <2> QED BY <2>2, TypesStand, TypePartsPrime DEF TypeOK
<1>2. Sessions' /\ OnSession'
  BY DEF Sessions, OnSession
<1>3. Checked' /\ Progress'
  BY DEF Checked, Progress
<1>4. RunsCheckedContract' /\ CallbacksStayHome' /\ NotStartedIsTrue'
  BY DEF RunsCheckedContract, CallbacksStayHome, NotStartedIsTrue
<1> QED BY <1>1, <1>2, <1>3, <1>4

\* The server starts a call under its list of now, which is the handle's unless it changed since the call was sent.
LEMMA ServerStartsStep ==
    ASSUME IInv, NEW c \in Calls, ServerStarts(c)
    PROVE  IInv'
<1> USE DEF IInv, ServerStarts, sessVars, ixVars, callVars
<1>1. TypeOK'
  <2>1. TypeServer'
    BY DEF TypeOK, TypeServer
  <2> QED BY <2>1, TypesStand, TypePartsPrime DEF TypeOK
<1>2. Sessions' /\ OnSession'
  BY DEF Sessions, OnSession, Leased
<1>3. Checked' /\ Progress'
  BY DEF Checked, Progress, TypeOK
<1>4. RunsCheckedContract'
  BY DEF RunsCheckedContract, Checked, TypeOK
<1>5. CallbacksStayHome' /\ NotStartedIsTrue'
  BY DEF CallbacksStayHome, NotStartedIsTrue, Progress, TypeOK
<1> QED BY <1>1, <1>2, <1>3, <1>4, <1>5

(* A call in flight holds the lock of its session, so that it is its own   *)
(* client that is asked.                                                   *)
LEMMA CallbackStep ==
    ASSUME IInv, NEW c \in Calls, Callback(c)
    PROVE  IInv'
<1> USE DEF IInv, Callback, sessVars, ixVars, callVars
<1>1. pc[c] \in {"inflight", "task", "done"}
  BY DEF Progress
<1>2. heard' \subseteq heard \cup ({c} \X {sess[on[c]].owner})
  OBVIOUS
<1>3. CallbacksStayHome'
  BY <1>1, <1>2 DEF CallbacksStayHome, OnSession
<1>4. TypeOK'
  <2>1. heard' \subseteq Calls \X Calls
    <3>1. CASE sess[on[c]].owner = None
      BY <3>1 DEF TypeOK
    <3>2. CASE sess[on[c]].owner # None
      <4>1. on[c] \in 1 .. Len(sess)
        BY DEF OnSession
      <4>2. sess[on[c]] \in SessionType
        BY <4>1, SessIsSeq
      <4> QED BY <1>2, <3>2, <4>2 DEF SessionType, TypeOK
    <3> QED BY <3>1, <3>2
  <2>2. TypeServer'
    BY <2>1 DEF TypeOK, TypeServer
  <2> QED BY <2>2, TypesStand, TypePartsPrime DEF TypeOK
<1>5. Sessions' /\ OnSession' /\ Checked' /\ Progress'
  BY DEF Sessions, OnSession, Checked, Progress
<1>6. RunsCheckedContract' /\ NotStartedIsTrue'
  BY DEF RunsCheckedContract, NotStartedIsTrue
<1> QED BY <1>3, <1>4, <1>5, <1>6

\* A server gives up a call whose request has ended.
LEMMA ServerGivesUpStep ==
    ASSUME IInv, NEW c \in Calls, ServerGivesUp(c)
    PROVE  IInv'
<1> USE DEF IInv, ServerGivesUp, sessVars, ixVars, callVars
<1>1. TypeOK'
  <2>1. TypeServer'
    BY DEF TypeOK, TypeServer
  <2> QED BY <2>1, TypesStand, TypePartsPrime DEF TypeOK
<1>2. Sessions' /\ OnSession' /\ Checked' /\ Progress'
  BY DEF Sessions, OnSession, Checked, Progress
<1>3. RunsCheckedContract' /\ CallbacksStayHome' /\ NotStartedIsTrue'
  BY DEF RunsCheckedContract, CallbacksStayHome, NotStartedIsTrue
<1> QED BY <1>1, <1>2, <1>3

-----------------------------------------------------------------------------
(* The sessions and the index.                                             *)
LEMMA RefreshStep ==
    ASSUME IInv, NEW i \in DOMAIN sess, Refresh(i)
    PROVE  IInv'
<1>1. i \in 1 .. Len(sess) /\ sess[i] \in SessionType
  BY SessIsSeq DEF IInv
<1> DEFINE s == [sess[i] EXCEPT !.current = lists, !.wake = TRUE]
<1>2. s \in SessionType /\ s.owner = sess[i].owner
  BY <1>1 DEF SessionType, IInv, TypeOK
<1>3. dynamic # FALSE
  BY Zenon DEF Refresh
<1>4. Keeps(s, i)
  BY <1>3 DEF Keeps
<1>5. sess' = [sess EXCEPT ![i] = s]
  BY <1>1, SessIsSeq DEF Refresh, SessionType, IInv
<1> HIDE DEF s
<1>6. Evolves /\ Owners
  BY <1>1, <1>2, <1>4, <1>5, UpdateEvolves DEF IInv
<1>7. Len(sess') = Len(sess) /\ sess' \in Seq(SessionType)
  BY <1>1, <1>2, <1>5, Updates DEF IInv
<1>8. TypeOK'
  <2>1. TypeSession' /\ TypeCall'
    BY <1>7 DEF Refresh, callVars, IInv, TypeOK, TypeSession, TypeCall
  <2> QED BY <2>1, TypesStand, TypePartsPrime DEF Refresh, IInv, TypeOK
<1> QED BY <1>6, <1>8, SessionMoves DEF Refresh

\* An observation keeps the types.
LEMMA ObserveTypes ==
    ASSUME IInv, NEW i \in 1 .. Len(sess), NEW w \in BOOLEAN, ObserveAt(i, [sess[i] EXCEPT !.wake = w])
    PROVE  TypeSession' /\ TypeIndex' /\ Len(sess') = Len(sess)
<1> DEFINE s == [sess[i] EXCEPT !.wake = w]
<1>1. sess[i] \in SessionType
  BY SessIsSeq DEF IInv
<1>2. s \in SessionType /\ Observed(s) \in SessionType
  BY <1>1 DEF Observed, SessionType, SemanticChange, Lists
<1>3. sess' \in Seq(SessionType) /\ Len(sess') = Len(sess)
  BY <1>2, Updates DEF ObserveAt, IInv
<1>4. s.current \in Contracts \cup {None}
  BY <1>2 DEF SessionType, Lists
<1> HIDE DEF s
<1>5. cached' \in Contracts /\ rev' \in Nat \ {0} /\ UNCHANGED <<cur, gen, epoch, phase>>
  BY <1>4 DEF ObserveAt, Caches, IInv, TypeOK, s
<1> QED BY <1>3, <1>5 DEF TypeSession, TypeIndex, IInv, TypeOK

\* The watcher of tool lists observes one session.
LEMMA WatchStep ==
    ASSUME IInv, NEW i \in DOMAIN sess, Watch(i)
    PROVE  IInv'
<1>1. i \in 1 .. Len(sess) /\ ObserveAt(i, [sess[i] EXCEPT !.wake = FALSE])
  BY SessIsSeq DEF IInv, Watch
<1>2. Evolves /\ Owners /\ TypeSession' /\ TypeIndex' /\ Len(sess') = Len(sess)
  BY <1>1, ObserveEvolves, ObserveTypes DEF IInv
<1>3. TypeCall'
  BY <1>2 DEF Watch, callVars, IInv, TypeOK, TypeCall
<1>4. TypeOK'
  BY <1>2, <1>3, TypesStand, TypePartsPrime DEF Watch, IInv, TypeOK
<1> QED BY <1>2, <1>4, SessionMoves DEF Watch

\* A session that ends keeps the invariant.
LEMMA EndsStep ==
    ASSUME IInv, cur # 0, Ends(cur), cur' \in {0, cur}, faults' \in 0 .. MaxFaults
    PROVE  IInv'
<1>1. cur \in 1 .. Len(sess) /\ Len(sess) \in Nat
  BY SessIsSeq DEF IInv, TypeOK
<1>2. Evolves /\ Owners
  BY <1>1, EndsEvolves DEF IInv
<1>3. Len(sess') = Len(sess) /\ sess' \in Seq(SessionType)
  BY <1>1, <1>2, SessIsSeq DEF Ends, Evolves, IInv
<1>4. TypeSession' /\ TypeCall'
  BY <1>1, <1>3 DEF Ends, callVars, IInv, TypeOK, TypeSession, TypeCall
<1>5. TypeOK'
  BY <1>4, TypesStand, TypePartsPrime DEF Ends, IInv
<1> QED BY <1>2, <1>5, SessionMoves DEF Ends

\* An exit of the current session.
LEMMA SessionExitsStep == IInv /\ SessionExits => IInv'
  BY EndsStep, FaultTypes DEF SessionExits, IInv

\* An idle stop of the current session.
LEMMA IdleStopStep == IInv /\ IdleStop => IInv'
<1> SUFFICES ASSUME IInv, IdleStop PROVE IInv'
  OBVIOUS
<1>1. faults' \in 0 .. MaxFaults
  BY DEF IdleStop, IInv, TypeOK
<1> QED BY <1>1, EndsStep DEF IdleStop

\* A new generation does not touch the calls under way.
LEMMA ReindexStep == IInv /\ Reindex => IInv'
<1> SUFFICES ASSUME IInv, Reindex PROVE IInv'
  OBVIOUS
<1>1. Evolves /\ Owners
  BY Stands DEF IInv, Reindex, sessVars
<1>2. cur \in 1 .. Len(sess)
  BY SessIsSeq DEF IInv, Reindex, TypeOK
<1>3. sess[cur].effective \in Contracts
  <2>1. sess[cur] \in SessionType
    BY <1>2, SessIsSeq DEF IInv
  <2> QED BY <2>1 DEF SessionType
<1>4. TypeIndex'
  <2>1. gen.id + 1 \in 1 .. MaxGens /\ rev \in Nat
    BY ExecutionAssumption DEF IInv, Reindex, TypeOK
  <2>2. gen' \in [id : 1 .. MaxGens, c : Contracts, hash : Nat]
    BY <1>3, <2>1 DEF Reindex
  <2> QED BY <2>2 DEF IInv, Reindex, TypeOK, TypeIndex
<1>5. TypeOK'
  BY <1>4, TypesStand, TypePartsPrime DEF IInv, Reindex, TypeOK
<1> QED BY <1>1, <1>5, SessionMoves DEF Reindex

\* Closing the service does not touch the calls under way.
LEMMA CloseStep == IInv /\ Close => IInv'
<1> SUFFICES ASSUME IInv, Close PROVE IInv'
  OBVIOUS
<1>1. Evolves /\ Owners
  BY Stands DEF IInv, Close, sessVars
<1>2. TypeIndex'
  BY DEF IInv, Close, TypeOK, TypeIndex
<1>3. TypeOK'
  BY <1>2, TypesStand, TypePartsPrime DEF IInv, Close, TypeOK
<1> QED BY <1>1, <1>3, SessionMoves DEF Close

-----------------------------------------------------------------------------
(* The calls.                                                              *)

\* The types of the calls when one of them moves or is answered.
LEMMA GoTypes ==
    ASSUME TypeOK, NEW c \in Calls, NEW p \in Places, Go(c, p)
    PROVE  pc' \in [Calls -> Places] /\ pc' = [pc EXCEPT ![c] = p]
  BY DEF TypeOK, Go

\* An answer ends its call and touches no other.
LEMMA AnswerTypes ==
    ASSUME TypeOK, NEW c \in Calls, NEW o \in Outcomes, Answer(c, o)
    PROVE  /\ pc' \in [Calls -> Places] /\ pc' = [pc EXCEPT ![c] = "done"]
           /\ outcome' \in [Calls -> Outcomes] /\ outcome'[c] = o
           /\ \A d \in Calls \ {c} : outcome'[d] = outcome[d]
  BY DEF TypeOK, Answer, Go, Places

\* A call that is answered leaves nothing to check.
LEMMA Answered ==
    ASSUME IInv, NEW c \in Calls, NEW o \in Outcomes, Answer(c, o), pc[c] \notin {"idle", "inflight"},
           o = "not_started" => ran[c] = None \/ result[c] = "task",
           Evolves, Owners, TypeOK', UNCHANGED srvVars, UNCHANGED <<handle, result, on>>
    PROVE  IInv'
<1>1. /\ pc' = [pc EXCEPT ![c] = "done"] /\ outcome'[c] = o
      /\ \A d \in Calls \ {c} : outcome'[d] = outcome[d]
  BY AnswerTypes DEF IInv
<1>2. c \in exec => on'[c] \in 1 .. Len(sess')
  <2>1. Len(sess) \in Nat /\ Len(sess') \in Nat /\ Len(sess) <= Len(sess')
    BY SessIsSeq DEF IInv, Evolves
  <2> QED BY <2>1 DEF IInv, OnSession
<1>3. "done" \in Places /\ "done" \notin Leased
  BY DEF Places, Leased
<1> QED BY <1>1, <1>2, <1>3, CallMoves

\* What has not been sent has not been started.
LEMMA NotSent ==
    ASSUME IInv, NEW c \in Calls, pc[c] \notin {"inflight", "returned", "task", "done"}
    PROVE  ran[c] = None /\ c \notin exec /\ outcome[c] = "none"
  BY DEF IInv, Progress

\* A new handle belongs to a call that has not begun.
LEMMA MintStep ==
    ASSUME IInv, NEW c \in Calls, Mint(c)
    PROVE  IInv'
<1> USE DEF IInv, Mint, srvVars, sessVars, ixVars
<1>1. pc' \in [Calls -> Places] /\ pc' = [pc EXCEPT ![c] = "holding"]
  BY GoTypes DEF Places
<1>2. handle' \in [Calls -> [gen : 1 .. MaxGens, c : Contracts, epoch : Nat]]
      /\ \A d \in Calls \ {c} : handle'[d] = handle[d]
  BY DEF TypeOK
<1>3. TypeOK'
  <2>1. TypeCall'
    BY <1>1, <1>2 DEF TypeOK, TypeCall
  <2> QED BY <2>1, TypesStand, TypePartsPrime DEF TypeOK
<1>4. Sessions' /\ OnSession'
  BY <1>1 DEF Sessions, OnSession, Leased, TypeOK
<1>5. Checked'
  BY <1>1, <1>2 DEF Checked, TypeOK
<1>6. Progress' /\ RunsCheckedContract'
  BY <1>1, <1>2 DEF Progress, RunsCheckedContract, TypeOK
<1>7. CallbacksStayHome' /\ NotStartedIsTrue'
  BY <1>1 DEF CallbacksStayHome, NotStartedIsTrue, TypeOK
<1> QED BY <1>3, <1>4, <1>5, <1>6, <1>7

\* A handle of another epoch is refused before anything is sent.
LEMMA ValidateStep ==
    ASSUME IInv, NEW c \in Calls, Validate(c)
    PROVE  IInv'
<1>1. Evolves /\ Owners
  BY Stands DEF IInv, Validate, sessVars
<1>2. ran[c] = None /\ c \notin exec /\ outcome[c] = "none"
  BY NotSent DEF Validate
<1>3. CASE Refuse(c) /\ UNCHANGED snap
  <2>1. TypeCall'
    BY <1>3, AnswerTypes DEF IInv, Validate, sessVars, TypeOK, TypeCall, Refuse, Outcomes
  <2>2. TypeOK'
    BY <2>1, TypesStand, TypePartsPrime DEF IInv, Validate, TypeOK
  <2> QED BY <1>1, <1>2, <1>3, <2>2, Answered DEF Validate, Refuse, Outcomes
<1>4. CASE Go(c, "snap") /\ snap' = [snap EXCEPT ![c] = rev] /\ UNCHANGED outcome
  <2>1. pc' \in [Calls -> Places] /\ pc' = [pc EXCEPT ![c] = "snap"] /\ "snap" \in Places \ Leased
    BY <1>4, GoTypes DEF IInv, Places, Leased
  <2>2. TypeCall'
    BY <1>4, <2>1 DEF IInv, Validate, sessVars, TypeOK, TypeCall
  <2>3. TypeOK'
    BY <2>2, TypesStand, TypePartsPrime DEF IInv, Validate, TypeOK
  <2> QED BY <1>1, <1>2, <1>4, <2>1, <2>3, CallMoves DEF Validate
<1> QED BY <1>3, <1>4 DEF Validate

\* Admission refuses a call or lets it go on, before anything is sent.
LEMMA AdmitStep ==
    ASSUME IInv, NEW c \in Calls, NEW e, NEW fits, Admit(c, e, fits)
    PROVE  IInv'
<1>1. Evolves /\ Owners
  BY Stands DEF IInv, Admit, sessVars
<1>2. ran[c] = None /\ c \notin exec /\ outcome[c] = "none"
  BY NotSent DEF Admit
<1>3. CASE Refuse(c)
  <2>1. TypeCall'
    BY <1>3, AnswerTypes DEF IInv, Admit, sessVars, TypeOK, TypeCall, Refuse, Outcomes
  <2>2. TypeOK'
    BY <2>1, TypesStand, TypePartsPrime DEF IInv, Admit, TypeOK
  <2> QED BY <1>1, <1>2, <1>3, <2>2, Answered DEF Admit, Refuse, Outcomes
<1>4. CASE Go(c, "admitted") /\ UNCHANGED outcome
  <2>1. pc' \in [Calls -> Places] /\ pc' = [pc EXCEPT ![c] = "admitted"] /\ "admitted" \in Places \ Leased
    BY <1>4, GoTypes DEF IInv, Places, Leased
  <2>2. TypeCall'
    BY <1>4, <2>1 DEF IInv, Admit, sessVars, TypeOK, TypeCall
  <2>3. TypeOK'
    BY <2>2, TypesStand, TypePartsPrime DEF IInv, Admit, TypeOK
  <2> QED BY <1>1, <1>2, <1>4, <2>1, <2>3, CallMoves DEF Admit
<1> QED BY <1>3, <1>4 DEF Admit

\* A call on a session stays on one when sessions are added.
LEMMA OnTypes ==
    ASSUME TypeOK, Evolves
    PROVE  /\ on \in [Calls -> 0 .. Len(sess')] /\ Len(sess') \in Nat
           /\ 0 .. Len(sess) \subseteq 0 .. Len(sess')
<1>1. Len(sess) \in Nat /\ Len(sess') \in Nat /\ Len(sess) <= Len(sess')
  BY SessIsSeq DEF Evolves
<1>2. on \in [Calls -> 0 .. Len(sess)]
  BY DEF TypeOK
<1>3. 0 .. Len(sess) \subseteq 0 .. Len(sess')
  BY <1>1
<1> QED BY <1>1, <1>2, <1>3

(* The session a call gets, kept or new, has no other guarantee yet.       *)
LEMMA AcquireStep ==
    ASSUME IInv, NEW c \in Calls, Acquire(c)
    PROVE  IInv'
<1> USE DEF IInv
<1>1. pc[c] = "admitted" /\ UNCHANGED <<snap, handle, result, gen, epoch, phase>> /\ UNCHANGED srvVars
  BY DEF Acquire
<1>2. ran[c] = None /\ c \notin exec /\ outcome[c] = "none"
  BY <1>1, NotSent
<1>3. CASE Refuse(c) /\ UNCHANGED <<on, sess, cur, cached, rev, faults>>
  <2>1. Evolves /\ Owners
    BY <1>3, Stands
  <2>2. TypeCall'
    BY <1>1, <1>3, AnswerTypes DEF TypeOK, TypeCall, Refuse, Outcomes
  <2>3. TypeOK'
    BY <1>1, <1>3, <2>2, TypesStand, TypePartsPrime DEF TypeOK, sessVars, ixVars
  <2> QED BY <1>1, <1>2, <1>3, <2>1, <2>3, Answered DEF Refuse, Outcomes
<1>4. CASE /\ Usable(cur) /\ Go(c, "leased") /\ on' = [on EXCEPT ![c] = cur]
           /\ UNCHANGED <<outcome, sess, cur, cached, rev, faults>>
  <2>1. Evolves /\ Owners
    BY <1>4, Stands
  <2>2. pc' \in [Calls -> Places] /\ pc' = [pc EXCEPT ![c] = "leased"] /\ "leased" \in Places
    BY <1>4, GoTypes DEF Places
  <2>3. cur \in 1 .. Len(sess)
    BY <1>4, SessIsSeq DEF Usable, TypeOK
  <2>4. on' \in [Calls -> 0 .. Len(sess)] /\ on'[c] = cur /\ \A d \in Calls \ {c} : on'[d] = on[d]
    BY <1>4 DEF TypeOK
  <2>5. TypeCall'
    BY <1>1, <1>4, <2>2, <2>4 DEF TypeOK, TypeCall
  <2>6. TypeOK'
    BY <1>1, <1>4, <2>5, TypesStand, TypePartsPrime DEF TypeOK, sessVars, ixVars
  <2> QED BY <1>1, <1>2, <1>4, <2>1, <2>2, <2>3, <2>4, <2>6, CallMoves
<1>5. CASE Connect /\ Go(c, "leased") /\ on' = [on EXCEPT ![c] = cur'] /\ UNCHANGED <<outcome, faults>>
  <2>1. /\ Evolves /\ Owners /\ cur' \in 1 .. Len(sess')
        /\ cached' \in Contracts /\ rev' \in Nat \ {0}
    BY <1>5, ConnectEvolves
  <2>2. pc' \in [Calls -> Places] /\ pc' = [pc EXCEPT ![c] = "leased"] /\ "leased" \in Places
    BY <1>5, GoTypes DEF Places
  <2>3. on' \in [Calls -> 0 .. Len(sess')] /\ on'[c] = cur' /\ \A d \in Calls \ {c} : on'[d] = on[d]
    <3>1. cur' \in 0 .. Len(sess')
      BY <2>1, OnTypes
    <3> QED BY <1>5, <2>1, <3>1, OnTypes
  <2>4. TypeCall'
    BY <1>1, <1>5, <2>2, <2>3 DEF TypeOK, TypeCall
  <2>5. TypeSession' /\ TypeIndex'
    BY <1>1, <2>1 DEF TypeOK, TypeSession, TypeIndex, Evolves
  <2>6. TypeOK'
    BY <1>1, <1>5, <2>4, <2>5, TypesStand, TypePartsPrime DEF TypeOK
  <2> QED BY <1>1, <1>2, <1>5, <2>1, <2>2, <2>3, <2>6, CallMoves
<1>6. CASE Fault("connect") /\ cur' = 0 /\ sess' = Retired /\ Refuse(c) /\ UNCHANGED <<on, cached, rev>>
  <2>1. Evolves /\ Owners
    BY <1>6, RetireEvolves
  <2>2. TypeCall'
    BY <1>1, <1>6, <2>1, AnswerTypes, OnTypes DEF TypeOK, TypeCall, Refuse, Outcomes
  <2>3. TypeSession' /\ TypeIndex'
    BY <1>1, <1>6, <2>1, OnTypes DEF TypeOK, TypeSession, TypeIndex, Evolves
  <2>4. TypeOK'
    BY <1>1, <1>6, <2>2, <2>3, FaultTypes, TypesStand, TypePartsPrime
  <2> QED BY <1>1, <1>2, <1>6, <2>1, <2>4, Answered DEF Refuse, Outcomes
<1> QED BY <1>3, <1>4, <1>5, <1>6 DEF Acquire

\* The comparison with the session leaves the call with what it has found.
LEMMA CheckLiveStep ==
    ASSUME IInv, NEW c \in Calls, CheckLive(c)
    PROVE  IInv'
<1> USE DEF IInv
<1>1. pc[c] = "leased" /\ UNCHANGED <<snap, handle, on, result, gen, epoch, phase, faults>>
      /\ UNCHANGED srvVars /\ UNCHANGED sessVars
  BY DEF CheckLive
<1>2. ran[c] = None /\ c \notin exec /\ outcome[c] = "none"
  BY <1>1, NotSent
<1>3. Evolves /\ Owners
  BY <1>1, Stands DEF sessVars
<1>4. TypeIndex'
  BY <1>1 DEF CheckLive, TypeOK, TypeIndex
<1>5. CASE Refuse(c)
  <2>1. TypeCall'
    BY <1>1, <1>5, AnswerTypes DEF TypeOK, TypeCall, sessVars, Refuse, Outcomes
  <2>2. TypeOK'
    BY <1>1, <1>4, <2>1, TypesStand, TypePartsPrime DEF TypeOK
  <2> QED BY <1>1, <1>2, <1>3, <1>5, <2>2, Answered DEF Refuse, Outcomes
<1>6. CASE sess[on[c]].effective = handle[c].c /\ Go(c, "checked") /\ UNCHANGED outcome
  <2>1. pc' \in [Calls -> Places] /\ pc' = [pc EXCEPT ![c] = "checked"] /\ "checked" \in Places
    BY <1>6, GoTypes DEF Places
  <2>2. TypeCall'
    BY <1>1, <1>6, <2>1 DEF TypeOK, TypeCall, sessVars
  <2>3. TypeOK'
    BY <1>1, <1>4, <2>2, TypesStand, TypePartsPrime DEF TypeOK
  <2>4. sess' = sess /\ on[c] \in 1 .. Len(sess)
    BY <1>1 DEF OnSession, Leased, sessVars
  <2> QED BY <1>1, <1>2, <1>3, <1>6, <2>1, <2>3, <2>4, CallMoves
<1> QED BY <1>5, <1>6 DEF CheckLive

\* The observation before the call finds a change or leaves what was compared alone.
LEMMA CheckAvailableStep ==
    ASSUME IInv, NEW c \in Calls, CheckAvailable(c)
    PROVE  IInv'
<1> USE DEF IInv
<1>1. pc[c] = "checked" /\ UNCHANGED <<snap, handle, on, result, faults>> /\ UNCHANGED srvVars
  BY DEF CheckAvailable
<1>2. ran[c] = None /\ c \notin exec /\ outcome[c] = "none"
  BY <1>1, NotSent
<1>3. on[c] \in 1 .. Len(sess)
  BY <1>1 DEF OnSession, Leased
<1>4. sess[on[c]] \in SessionType
  BY <1>3, SessIsSeq
<1>5. ObserveAt(on[c], [sess[on[c]] EXCEPT !.wake = sess[on[c]].wake])
      /\ sess[on[c]].wake \in BOOLEAN
  <2>1. [sess[on[c]] EXCEPT !.wake = sess[on[c]].wake] = sess[on[c]] /\ sess[on[c]].wake \in BOOLEAN
    BY <1>4 DEF SessionType
  <2> QED BY <2>1 DEF CheckAvailable
<1>6. Evolves /\ Owners /\ TypeSession' /\ TypeIndex' /\ Len(sess') = Len(sess)
  BY <1>3, <1>5, ObserveEvolves, ObserveTypes
<1>7. CASE Refuse(c)
  <2>1. TypeCall'
    BY <1>1, <1>6, <1>7, AnswerTypes DEF TypeOK, TypeCall, Refuse, Outcomes
  <2>2. TypeOK'
    BY <1>1, <1>6, <2>1, TypesStand, TypePartsPrime DEF TypeOK
  <2> QED BY <1>1, <1>2, <1>6, <1>7, <2>2, Answered DEF Refuse, Outcomes
<1>8. CASE sess[on[c]].current # None /\ Go(c, "called") /\ UNCHANGED outcome
  <2>1. pc' \in [Calls -> Places] /\ pc' = [pc EXCEPT ![c] = "called"] /\ "called" \in Places
    BY <1>8, GoTypes DEF Places
  <2>2. TypeCall'
    BY <1>1, <1>6, <1>8, <2>1 DEF TypeOK, TypeCall
  <2>3. TypeOK'
    BY <1>1, <1>6, <2>2, TypesStand, TypePartsPrime DEF TypeOK
  <2>4. dynamic = FALSE /\ sess'[on[c]].changed = FALSE =>
          sess'[on[c]].effective = handle[c].c /\ sess'[on[c]].initial # None
    BY <1>1, <1>3, <1>6, <1>8 DEF Evolves, Checked, Sessions, AsMade
  <2> QED BY <1>1, <1>2, <1>3, <1>6, <1>8, <2>1, <2>3, <2>4, CallMoves
<1> QED BY <1>7, <1>8 DEF CheckAvailable

(* Session's own look at the list: what it finds is what the handle names. *)
LEMMA CheckSessionStep ==
    ASSUME IInv, NEW c \in Calls, CheckSession(c)
    PROVE  IInv'
<1> USE DEF IInv
<1>1. /\ pc[c] = "called" /\ UNCHANGED <<snap, handle, on, result, cur, cached, faults>>
      /\ UNCHANGED srvVars /\ UNCHANGED ixVars
  BY DEF CheckSession
<1>2. ran[c] = None /\ c \notin exec /\ outcome[c] = "none"
  BY <1>1, NotSent
<1>3. on[c] \in 1 .. Len(sess)
  BY <1>1 DEF OnSession, Leased
<1>4. sess[on[c]] \in SessionType
  BY <1>3, SessIsSeq
<1>5. CASE Refuse(c) /\ UNCHANGED sess
  <2>1. Evolves /\ Owners
    BY <1>5, Stands
  <2>2. TypeCall'
    BY <1>1, <1>5, AnswerTypes DEF TypeOK, TypeCall, Refuse, Outcomes
  <2>3. TypeOK'
    BY <1>1, <1>5, <2>2, TypesStand, TypePartsPrime DEF TypeOK, sessVars
  <2> QED BY <1>1, <1>2, <1>5, <2>1, <2>3, Answered DEF Refuse, Outcomes
<1>6. CASE Refuse(c) /\ sess' = [sess EXCEPT ![on[c]].current = lists, ![on[c]].changed = TRUE]
  <2> DEFINE s == [sess[on[c]] EXCEPT !.current = lists, !.changed = TRUE]
  <2>1. s \in SessionType /\ s.owner = sess[on[c]].owner
    BY <1>4 DEF SessionType, TypeOK
  <2>2. s.changed # FALSE
    BY <1>4, Zenon DEF SessionType
  <2>3. Keeps(s, on[c])
    BY <2>2 DEF Keeps
  <2>4. sess' = [sess EXCEPT ![on[c]] = s]
    BY <1>3, <1>4, <1>6, SessIsSeq DEF SessionType
  <2> HIDE DEF s
  <2>5. Evolves /\ Owners
    BY <1>3, <2>1, <2>3, <2>4, UpdateEvolves
  <2>6. Len(sess') = Len(sess) /\ sess' \in Seq(SessionType)
    BY <1>3, <2>1, <2>4, Updates
  <2>7. TypeSession' /\ TypeCall'
    BY <1>1, <1>6, <2>6, AnswerTypes DEF TypeOK, TypeSession, TypeCall, Refuse, Outcomes
  <2>8. TypeOK'
    BY <1>1, <2>7, TypesStand, TypePartsPrime DEF TypeOK
  <2> QED BY <1>1, <1>2, <1>6, <2>5, <2>8, Answered DEF Refuse, Outcomes
<1>7. CASE /\ ~(sess[on[c]].changed)
           /\ ~(Revalidates(sess[on[c]]) /\ sess[on[c]].initial # lists)
           /\ Go(c, "waiting") /\ UNCHANGED <<sess, outcome>>
  <2>1. Evolves /\ Owners
    BY <1>7, Stands
  <2>2. pc' \in [Calls -> Places] /\ pc' = [pc EXCEPT ![c] = "waiting"] /\ "waiting" \in Places
    BY <1>7, GoTypes DEF Places
  <2>3. TypeCall'
    BY <1>1, <1>7, <2>2 DEF TypeOK, TypeCall
  <2>4. TypeOK'
    BY <1>1, <1>7, <2>3, TypesStand, TypePartsPrime DEF TypeOK, sessVars
  <2>5. sess[on[c]].changed = FALSE
    <3>1. sess[on[c]].changed \in BOOLEAN
      BY <1>4 DEF SessionType
    <3> QED BY <1>7, <3>1, Zenon
  <2>6. dynamic = FALSE => sess[on[c]].initial = lists
    BY <1>7, Zenon DEF Revalidates
  <2>7. dynamic = FALSE => lists = handle[c].c
    BY <1>1, <1>3, <2>5, <2>6 DEF Checked, Sessions, AsMade
  <2> QED BY <1>1, <1>2, <1>3, <1>7, <2>1, <2>2, <2>4, <2>7, CallMoves
<1> QED BY <1>5, <1>6, <1>7 DEF CheckSession

\* A step that only answers a call.
LEMMA AnswersOnly ==
    ASSUME IInv, NEW c \in Calls, NEW o \in Outcomes, Answer(c, o), pc[c] \notin {"idle", "inflight"},
           o # "not_started", faults' \in 0 .. MaxFaults, UNCHANGED <<snap, handle, on, result>>,
           UNCHANGED srvVars, UNCHANGED sessVars, UNCHANGED ixVars
    PROVE  IInv'
<1>1. Evolves /\ Owners
  BY Stands DEF IInv, sessVars
<1>2. TypeCall'
  BY AnswerTypes DEF IInv, TypeOK, TypeCall, sessVars
<1>3. TypeOK'
  BY <1>2, TypesStand, TypePartsPrime DEF IInv
<1> QED BY <1>1, <1>3, Answered

\* A call that is cancelled in the last look ends as unknown.
LEMMA RevalidateFailsStep ==
    ASSUME IInv, NEW c \in Calls, RevalidateFails(c)
    PROVE  IInv'
<1>1. faults' \in 0 .. MaxFaults
  BY FaultTypes DEF IInv, RevalidateFails
<1> QED BY <1>1, AnswersOnly DEF RevalidateFails, Outcomes

\* A call that returned is answered as completed or unknown, never as not started.
LEMMA CompleteStep ==
    ASSUME IInv, NEW c \in Calls, Complete(c)
    PROVE  IInv'
<1>1. faults' \in 0 .. MaxFaults
  BY FaultTypes DEF IInv, Complete, TypeOK
<1> QED BY <1>1, AnswersOnly DEF Complete, Outcomes

(* A lost task lease is answered "not started" although the tool ran; the  *)
(* result it had is the exception that NotStartedIsTrue makes.             *)
LEMMA ProxyTaskStep ==
    ASSUME IInv, NEW c \in Calls, ProxyTask(c)
    PROVE  IInv'
<1> USE DEF IInv
<1>1. /\ pc[c] = "task" /\ UNCHANGED <<snap, handle, on, result, gen, epoch, phase>>
      /\ UNCHANGED srvVars
  BY DEF ProxyTask
<1>2. result[c] = "task"
  BY <1>1 DEF Progress
<1>3. PICK o \in Outcomes : Answer(c, o)
  BY DEF ProxyTask, Outcomes
<1>4. faults' \in 0 .. MaxFaults
  BY FaultTypes DEF ProxyTask, TypeOK
<1>5. Evolves /\ Owners /\ TypeSession' /\ rev' \in Nat \ {0}
  <2>1. CASE UNCHANGED <<sess, cur, cached, rev>>
    BY <2>1, Stands, TypesStand DEF sessVars, TypeOK
  <2>2. CASE Connect
    <3>1. /\ Evolves /\ Owners /\ cur' \in 1 .. Len(sess')
          /\ cached' \in Contracts /\ rev' \in Nat \ {0}
      BY <2>2, ConnectEvolves
    <3>2. cur' \in 0 .. Len(sess')
      BY <3>1, OnTypes
    <3> QED BY <3>1, <3>2 DEF TypeSession, Evolves
  <2>3. CASE cur' = 0 /\ sess' = Retired /\ UNCHANGED <<cached, rev>>
    <3>1. Evolves /\ Owners
      BY <2>3, RetireEvolves
    <3> QED BY <2>3, <3>1, OnTypes DEF TypeSession, Evolves, TypeOK
  <2> QED BY <2>1, <2>2, <2>3 DEF ProxyTask
<1>6. TypeIndex'
  BY <1>1, <1>5 DEF TypeIndex, TypeOK
<1>7. TypeCall'
  BY <1>1, <1>3, <1>5, AnswerTypes, OnTypes DEF TypeOK, TypeCall
<1>8. TypeOK'
  BY <1>1, <1>4, <1>5, <1>6, <1>7, TypesStand, TypePartsPrime
<1> QED BY <1>1, <1>2, <1>3, <1>5, <1>8, Answered

\* Taking or giving back the callback lock of a call's session.
LEMMA LockMoves ==
    ASSUME IInv, NEW c \in Calls, NEW o \in Calls \cup {None}, on[c] \in 1 .. Len(sess),
           sess' = [sess EXCEPT ![on[c]].owner = o], sess[on[c]].owner \in {None, c}
    PROVE  /\ Evolves /\ Len(sess') = Len(sess) /\ sess' \in Seq(SessionType)
           /\ sess'[on[c]].owner = o
           /\ \A d \in Calls \ {c} : pc[d] = "inflight" => sess'[on[d]].owner = d
<1>1. sess[on[c]] \in SessionType
  BY SessIsSeq DEF IInv
<1> DEFINE s == [sess[on[c]] EXCEPT !.owner = o]
<1>2. s \in SessionType /\ s.owner = o /\ Keeps(s, on[c])
  BY <1>1 DEF SessionType, Keeps
<1>3. sess' = [sess EXCEPT ![on[c]] = s]
  BY <1>1, SessIsSeq DEF SessionType, IInv
<1> HIDE DEF s
<1>4. /\ Evolves /\ sess' \in Seq(SessionType) /\ Len(sess') = Len(sess) /\ sess'[on[c]] = s
      /\ \A j \in (1 .. Len(sess)) \ {on[c]} : sess'[j] = sess[j]
  BY <1>2, <1>3, Updates, UpdateEvolves DEF IInv
<1>5. ASSUME NEW d \in Calls \ {c}, pc[d] = "inflight"
      PROVE  sess'[on[d]].owner = d
  <2>1. on[d] \in 1 .. Len(sess) /\ sess[on[d]].owner = d
    BY <1>5 DEF IInv, OnSession, Leased
  <2>2. on[d] # on[c]
    BY <2>1, ExecutionAssumption
  <2> QED BY <1>4, <2>1, <2>2
<1> QED BY <1>2, <1>4, <1>5

\* A call that is sent owns the callback lock of its session.
LEMMA DispatchStep ==
    ASSUME IInv, NEW c \in Calls, Dispatch(c)
    PROVE  IInv'
<1> USE DEF IInv
<1>1. /\ pc[c] = "waiting" /\ UNCHANGED <<snap, handle, on, result, outcome, cur, cached, faults>>
      /\ UNCHANGED srvVars /\ UNCHANGED ixVars
  BY DEF Dispatch
<1>2. ran[c] = None /\ c \notin exec /\ outcome[c] = "none"
  BY <1>1, NotSent
<1>3. on[c] \in 1 .. Len(sess)
  BY <1>1 DEF OnSession, Leased
<1>4. /\ Evolves /\ Len(sess') = Len(sess) /\ sess' \in Seq(SessionType)
      /\ sess'[on[c]].owner = c
      /\ \A d \in Calls \ {c} : pc[d] = "inflight" => sess'[on[d]].owner = d
  BY <1>3, LockMoves DEF Dispatch, LockFree
<1>5. pc' \in [Calls -> Places] /\ pc'[c] = "inflight" /\ \A d \in Calls \ {c} : pc'[d] = pc[d]
  <2>1. pc \in [Calls -> Places] /\ Go(c, "inflight") /\ "inflight" \in Places
    BY DEF Dispatch, Places, TypeOK
  <2> QED BY <2>1, GoTypes DEF Go
<1>6. TypeOK'
  <2>1. TypeSession' /\ TypeCall'
    BY <1>1, <1>4, <1>5 DEF TypeSession, TypeCall, TypeOK
  <2> QED BY <1>1, <2>1, TypesStand, TypePartsPrime DEF TypeOK
<1>7. Sessions'
  BY <1>1, <1>4, EvolvesSessions DEF srvVars
<1>8. OnSession'
  BY <1>1, <1>3, <1>4, <1>5 DEF OnSession, Leased, srvVars
<1>9. Checked'
  BY <1>1, <1>4, <1>5 DEF Checked, Evolves, OnSession, Leased, srvVars
<1>10. Progress' /\ RunsCheckedContract'
  BY <1>1, <1>2, <1>5 DEF Progress, RunsCheckedContract, srvVars
<1>11. CallbacksStayHome' /\ NotStartedIsTrue'
  BY <1>1, <1>5 DEF CallbacksStayHome, NotStartedIsTrue, srvVars
<1> QED BY <1>6, <1>7, <1>8, <1>9, <1>10, <1>11

\* The lock of a call in flight is its own.
LEMMA Held ==
    ASSUME IInv, NEW c \in Calls, pc[c] = "inflight"
    PROVE  on[c] \in 1 .. Len(sess) /\ sess[on[c]].owner = c
  BY DEF IInv, OnSession, Leased

\* The server's reply ends the flight of a call.
LEMMA ReplyStep ==
    ASSUME IInv, NEW c \in Calls, NEW r \in {"plain", "task"}, Reply(c, r)
    PROVE  IInv'
<1> USE DEF IInv
<1>1. /\ pc[c] = "inflight" /\ c \in exec /\ result' = [result EXCEPT ![c] = r]
      /\ exec' = IF r = "task" THEN exec ELSE exec \ {c}
      /\ UNCHANGED <<lists, changes, dynamic, ran, drift, heard, snap, handle, on, outcome, cur,
                     cached, faults>>
      /\ UNCHANGED ixVars
  BY DEF Reply
<1>2. on[c] \in 1 .. Len(sess) /\ sess[on[c]].owner = c
  BY <1>1, Held
<1>3. /\ Evolves /\ Len(sess') = Len(sess) /\ sess' \in Seq(SessionType)
      /\ \A d \in Calls \ {c} : pc[d] = "inflight" => sess'[on[d]].owner = d
  BY <1>2, LockMoves DEF Reply, Unlock
<1> DEFINE p == IF r = "task" THEN "task" ELSE "returned"
<1>4. /\ pc' \in [Calls -> Places] /\ pc'[c] = p /\ \A d \in Calls \ {c} : pc'[d] = pc[d]
  <2>1. pc \in [Calls -> Places] /\ Go(c, p) /\ p \in Places
    BY DEF Reply, Places, TypeOK
  <2> QED BY <2>1, GoTypes DEF Go
<1>5. /\ result' \in [Calls -> {"none", "plain", "task"}]
      /\ result'[c] = r /\ \A d \in Calls \ {c} : result'[d] = result[d]
  BY <1>1 DEF TypeOK
<1>6. TypeOK'
  <2>1. TypeSession' /\ TypeCall'
    BY <1>1, <1>3, <1>4, <1>5 DEF TypeSession, TypeCall, TypeOK
  <2>2. TypeServer'
    BY <1>1 DEF TypeServer, TypeOK
  <2> QED BY <1>1, <2>1, <2>2, TypesStand, TypePartsPrime DEF TypeOK
<1>7. Sessions'
  BY <1>1, <1>3, EvolvesSessions
<1>8. OnSession'
  BY <1>1, <1>2, <1>3, <1>4 DEF OnSession, Leased
<1>9. Checked'
  BY <1>1, <1>3, <1>4 DEF Checked, Evolves, OnSession, Leased
<1>10. Progress' /\ RunsCheckedContract'
  BY <1>1, <1>4, <1>5 DEF Progress, RunsCheckedContract
<1>11. CallbacksStayHome' /\ NotStartedIsTrue'
  BY <1>1, <1>4, <1>5 DEF CallbacksStayHome, NotStartedIsTrue, Progress
<1> QED BY <1>6, <1>7, <1>8, <1>9, <1>10, <1>11

\* A call in flight that fails is answered as unknown, and gives up its callback lock.
LEMMA FailStep ==
    ASSUME IInv, NEW c \in Calls, Fail(c)
    PROVE  IInv'
<1> USE DEF IInv
<1>1. /\ pc[c] = "inflight" /\ UNCHANGED <<snap, handle, on, result, cur, cached>>
      /\ UNCHANGED srvVars /\ UNCHANGED ixVars
  BY DEF Fail
<1>2. on[c] \in 1 .. Len(sess) /\ sess[on[c]].owner = c
  BY <1>1, Held
<1>3. /\ Evolves /\ Len(sess') = Len(sess) /\ sess' \in Seq(SessionType)
      /\ \A d \in Calls \ {c} : pc[d] = "inflight" => sess'[on[d]].owner = d
  BY <1>2, LockMoves DEF Fail, Unlock
<1>4. /\ pc' \in [Calls -> Places] /\ pc'[c] = "done" /\ \A d \in Calls \ {c} : pc'[d] = pc[d]
      /\ outcome' \in [Calls -> Outcomes] /\ outcome'[c] = "unknown"
      /\ \A d \in Calls \ {c} : outcome'[d] = outcome[d]
  BY AnswerTypes DEF Fail, AfterError, Outcomes, TypeOK
<1>5. faults' \in 0 .. MaxFaults
  BY FaultTypes DEF Fail, TypeOK
<1>6. TypeOK'
  <2>1. TypeSession' /\ TypeCall'
    BY <1>1, <1>3, <1>4 DEF TypeSession, TypeCall, TypeOK
  <2> QED BY <1>1, <1>5, <2>1, TypesStand, TypePartsPrime
<1>7. Sessions'
  BY <1>1, <1>3, EvolvesSessions DEF srvVars
<1>8. OnSession'
  BY <1>1, <1>2, <1>3, <1>4 DEF OnSession, Leased, srvVars
<1>9. Checked'
  BY <1>1, <1>3, <1>4 DEF Checked, Evolves, OnSession, Leased, srvVars
<1>10. Progress' /\ RunsCheckedContract'
  BY <1>1, <1>4 DEF Progress, RunsCheckedContract, srvVars
<1>11. CallbacksStayHome' /\ NotStartedIsTrue'
  BY <1>1, <1>4 DEF CallbacksStayHome, NotStartedIsTrue, srvVars
<1> QED BY <1>6, <1>7, <1>8, <1>9, <1>10, <1>11

-----------------------------------------------------------------------------
(* The process.                                                            *)
LEMMA RestartStep == IInv /\ Restart => IInv'
<1> SUFFICES ASSUME IInv, Restart PROVE IInv'
  OBVIOUS
<1> USE DEF IInv
<1>1. /\ cur' = 0 /\ phase' = "up" /\ epoch' = epoch + 1
      /\ UNCHANGED <<snap, handle, on, result, outcome, cached, gen, rev>> /\ UNCHANGED srvVars
  BY DEF Restart
<1>2. /\ sess \in Seq(SessionType) /\ DOMAIN sess = 1 .. Len(sess)
      /\ Len(sess) \in Nat /\ Len(sess) <= MaxSessions
  BY SessIsSeq
<1>3. \A i \in 1 .. Len(sess) : sess[i] \in SessionType
  BY <1>2
<1>4. /\ sess' \in [1 .. Len(sess) -> SessionType]
      /\ \A i \in 1 .. Len(sess) : Keeps(sess'[i], i)
  BY <1>2, <1>3 DEF Restart, SessionType, Keeps
<1>5. sess' \in Seq(SessionType) /\ Len(sess') = Len(sess)
  BY <1>2, <1>4, FunctionIsSeq
<1>6. Evolves
  <2>1. Len(sess) + 1 .. Len(sess') = {}
    BY <1>2, <1>5
  <2> QED BY <1>2, <1>4, <1>5, <2>1 DEF Evolves, Keeps
<1>7. /\ pc' \in [Calls -> Places]
      /\ \A c \in Calls : pc'[c] = IF pc[c] \in {"idle", "holding"} THEN pc[c] ELSE "done"
  BY DEF Restart, TypeOK, Places
<1>8. TypeOK'
  <2>1. faults' \in 0 .. MaxFaults
    BY FaultTypes DEF Restart
  <2>2. TypeSession' /\ TypeCall' /\ TypeIndex'
    BY <1>1, <1>2, <1>5, <1>7 DEF TypeSession, TypeCall, TypeIndex, TypeOK
  <2> QED BY <1>1, <2>1, <2>2, TypesStand, TypePartsPrime
<1>9. Sessions'
  BY <1>1, <1>6, EvolvesSessions DEF srvVars
<1>10. OnSession' /\ Checked'
  BY <1>1, <1>5, <1>7 DEF OnSession, Checked, Leased, srvVars
<1>11. Progress' /\ RunsCheckedContract'
  BY <1>1, <1>7 DEF Progress, RunsCheckedContract, srvVars
<1>12. CallbacksStayHome' /\ NotStartedIsTrue'
  BY <1>1, <1>7 DEF CallbacksStayHome, NotStartedIsTrue, srvVars
<1> QED BY <1>8, <1>9, <1>10, <1>11, <1>12

\* At the start there is no session and no call.
LEMMA InitIInv == Init => IInv
<1> SUFFICES ASSUME Init PROVE IInv
  OBVIOUS
<1> USE ExecutionAssumption DEF Init
<1>1. Len(sess) = 0 /\ sess \in Seq(SessionType) /\ 1 .. Len(sess) = {}
  OBVIOUS
<1>2. TypeSession /\ TypeServer
  BY <1>1 DEF TypeSession, TypeServer, Lists
<1>3. TypeIndex
  BY DEF TypeIndex
<1>4. TypeCall
  BY <1>1 DEF TypeCall, Places, Outcomes
<1>5. TypeOK
  BY <1>2, <1>3, <1>4, TypeParts
<1>6. Sessions /\ OnSession
  BY <1>1 DEF Sessions, OnSession, Leased
<1>7. Checked /\ Progress
  BY DEF Checked, Progress
<1>8. RunsCheckedContract /\ CallbacksStayHome /\ NotStartedIsTrue
  BY DEF RunsCheckedContract, CallbacksStayHome, NotStartedIsTrue
<1> QED BY <1>5, <1>6, <1>7, <1>8 DEF IInv

\* Every step keeps the invariant.
LEMMA NextIInv == IInv /\ [Next]_vars => IInv'
<1> SUFFICES ASSUME IInv, [Next]_vars PROVE IInv'
  OBVIOUS
<1>1. ASSUME NEW c \in Calls, Execute(c) PROVE IInv'
  <2>1. CASE \E e \in {Class[k] : k \in Contracts}, fits \in BOOLEAN : Admit(c, e, fits)
    BY <2>1, AdmitStep
  <2> QED BY <1>1, <2>1, MintStep, ValidateStep, AcquireStep, CheckLiveStep, CheckAvailableStep,
             CheckSessionStep, RevalidateFailsStep, DispatchStep, CompleteStep, ProxyTaskStep,
             FailStep DEF Execute
<1>2. ASSUME NEW c \in Calls, Downstream(c) PROVE IInv'
  BY <1>2, ServerStartsStep, CallbackStep, ServerGivesUpStep, ReplyStep DEF Downstream
<1>3. CASE UNCHANGED vars
  <2>1. /\ UNCHANGED srvVars /\ UNCHANGED sessVars /\ UNCHANGED ixVars /\ UNCHANGED callVars
        /\ UNCHANGED faults
    BY <1>3 DEF vars, srvVars, sessVars, ixVars, callVars
  <2>2. Evolves /\ Owners
    BY <2>1, Stands DEF IInv, sessVars
  <2>3. TypeOK'
    BY <2>1, TypesStand, TypePartsPrime DEF IInv, TypeOK
  <2> QED BY <2>1, <2>2, <2>3, SessionMoves
<1> QED BY <1>1, <1>2, <1>3, ListChangeStep, RefreshStep, WatchStep, SessionExitsStep, IdleStopStep,
           ReindexStep, CloseStep, RestartStep DEF Next

\* The invariant holds throughout.
LEMMA SpecIInv == Spec => []IInv
  BY InitIInv, NextIInv, PTL DEF Spec

\* Every variable of Execution keeps its type: no call has a session that does
\* not exist, whatever is replaced, retired or restarted under it.
THEOREM TypeCorrect == Spec => []TypeOK
<1>1. IInv => TypeOK
  BY DEF IInv
<1> QED BY <1>1, SpecIInv, PTL

\* Session.CallTool and Router.Execute: a server that announces no list changes
\* starts a call only under the contract its handle was minted for, unless its
\* list changed after the session's last look.
THEOREM ContractsChecked == Spec => []RunsCheckedContract
<1>1. IInv => RunsCheckedContract
  BY DEF IInv
<1> QED BY <1>1, SpecIInv, PTL

\* callbackMu: while a call is in flight, no callback of it is sent to the
\* client of another call, whatever else uses the session.
THEOREM CallbacksAtHome == Spec => []CallbacksStayHome
<1>1. IInv => CallbacksStayHome
  BY DEF IInv
<1> QED BY <1>1, SpecIInv, PTL

\* The outcome "not started": no call that the server has started is answered
\* so, apart from the one whose task could not be leased.
THEOREM NotStartedHolds == Spec => []NotStartedIsTrue
<1>1. IInv => NotStartedIsTrue
  BY DEF IInv
<1> QED BY <1>1, SpecIInv, PTL

-----------------------------------------------------------------------------
(* Execution implements CallContract.                                      *)

\* What the server works on, answered or made a task of, it has started.
Ran == \A c \in Calls : c \in exec \/ pc[c] \in {"returned", "task"} => ran[c] # None

\* Before it is sent no call was started.
Unsent == {"holding", "snap", "admitted", "leased", "checked", "called"}

Moves(c) == Go(c, "snap") \/ Go(c, "admitted") \/ Go(c, "leased") \/ Go(c, "checked")
            \/ Go(c, "called") \/ Go(c, "waiting") \/ Go(c, "inflight") \/ Go(c, "holding")

\* A step of the manager for a call moves it on, or answers it: "not started"
\* only before the call is sent or for a task, "completed" only after the reply.
LEMMA ExecuteShape ==
    ASSUME NEW c \in Calls, Execute(c)
    PROVE  /\ UNCHANGED srvVars /\ UNCHANGED result /\ pc[c] # "done"
           /\ \/ pc[c] \notin {"task", "done"} /\ Moves(c) /\ UNCHANGED outcome
              \/ pc[c] \in Unsent \cup {"task"} /\ Answer(c, "not_started")
              \/ pc[c] \in {"returned", "task"} /\ Answer(c, "completed")
              \/ Answer(c, "unknown")
<1> USE DEF Moves, Unsent, Refuse
<1>1. CASE Mint(c) \/ Validate(c) \/ \E e \in {Class[k] : k \in Contracts}, fits \in BOOLEAN : Admit(c, e, fits)
  BY <1>1 DEF Mint, Validate, Admit
<1>2. CASE Acquire(c) \/ CheckLive(c) \/ CheckAvailable(c)
  BY <1>2 DEF Acquire, CheckLive, CheckAvailable
<1>3. CASE CheckSession(c) \/ RevalidateFails(c) \/ Dispatch(c)
  BY <1>3 DEF CheckSession, RevalidateFails, Dispatch
<1>4. CASE Complete(c) \/ Fail(c)
  BY <1>4 DEF Complete, Fail, AfterError
<1>5. CASE ProxyTask(c)
  BY <1>5 DEF ProxyTask
<1> QED BY <1>1, <1>2, <1>3, <1>4, <1>5 DEF Execute

\* The other steps that are not of a call leave the calls and the server's work alone.
LEMMA OthersShape ==
    ASSUME \/ \E l \in Lists : ListChange(l)
           \/ \E i \in DOMAIN sess : Refresh(i) \/ Watch(i)
           \/ SessionExits \/ IdleStop \/ Reindex \/ Close \/ UNCHANGED vars
    PROVE  UNCHANGED <<pc, outcome, result, ran, exec>>
<1>1. CASE \E i \in DOMAIN sess : Refresh(i) \/ Watch(i)
  BY <1>1 DEF Refresh, Watch, srvVars, callVars
<1>2. CASE SessionExits \/ IdleStop
  BY <1>2 DEF SessionExits, IdleStop, Ends, srvVars, callVars
<1> QED BY <1>1, <1>2 DEF ListChange, Reindex, Close, srvVars, callVars, vars

\* Every step keeps Ran: the server replies only to what it has started, and
\* what it has started stays so.
LEMMA RanStep ==
    ASSUME TypeOK, Ran, [Next]_vars
    PROVE  Ran'
<1>0. pc \in [Calls -> Places] /\ ran \in [Calls -> Lists]
  BY DEF TypeOK
<1>1. ASSUME NEW c \in Calls, Execute(c) PROVE Ran'
  <2>1. UNCHANGED <<ran, exec>>
    BY <1>1, ExecuteShape DEF srvVars
  <2>2. \A d \in Calls : pc'[d] \in {"returned", "task"} => pc'[d] = pc[d]
    BY <1>0, <1>1, ExecuteShape DEF Moves, Go, Answer
  <2> QED BY <2>1, <2>2 DEF Ran
<1>2. ASSUME NEW c \in Calls, Downstream(c) PROVE Ran'
  <2>1. CASE ServerStarts(c)
    BY <1>0, <2>1 DEF ServerStarts, callVars, Ran
  <2>2. CASE Callback(c) \/ ServerGivesUp(c)
    BY <2>2 DEF Callback, ServerGivesUp, callVars, Ran
  <2>3. CASE \E r \in {"plain", "task"} : Reply(c, r)
    BY <1>0, <2>3 DEF Reply, Go, Ran
  <2> QED BY <1>2, <2>1, <2>2, <2>3 DEF Downstream
<1>3. CASE Restart
  BY <1>0, <1>3 DEF Restart, srvVars, Ran
<1> QED BY <1>1, <1>2, <1>3, OthersShape DEF Next, Ran

\* What the contract sees of the calls.
Promise == <<Started, Tasks, Over, outcome>>

\* An answer ends the call for the contract, too.
LEMMA AnswerSeen ==
    ASSUME TypeOK, NEW c \in Calls, NEW o, Answer(c, o), UNCHANGED <<ran, result>>, pc[c] # "done"
    PROVE  Contract!Ends(c, o)
<1>1. pc'[c] = "done" /\ \A d \in Calls \ {c} : pc'[d] = pc[d]
  BY DEF Answer, Go, TypeOK
<1>2. Over' = Over \cup {c} /\ c \notin Over
  BY <1>1 DEF Over
<1> QED BY <1>2 DEF Contract!Ends, Answer, Started, Tasks

\* A step of the manager answers the call as the contract allows, or is not seen.
LEMMA ExecuteImplements ==
    ASSUME IInv, Ran, NEW c \in Calls, Execute(c)
    PROVE  Contract!Refuse(c) \/ Contract!Finish(c) \/ Contract!Lose(c) \/ UNCHANGED Promise
<1>1. UNCHANGED <<ran, result>> /\ TypeOK
  BY ExecuteShape DEF srvVars, IInv
<1>2. CASE pc[c] \notin {"task", "done"} /\ Moves(c) /\ UNCHANGED outcome
  <2>1. Over' = Over
    BY <1>1, <1>2 DEF Moves, Go, TypeOK, Over
  <2> QED BY <1>1, <1>2, <2>1 DEF Promise, Started, Tasks
<1>3. CASE pc[c] \in Unsent \cup {"task"} /\ Answer(c, "not_started")
  <2>1. Contract!Ends(c, "not_started")
    BY <1>1, <1>3, AnswerSeen DEF Unsent
  <2>2. c \in Started => c \in Tasks
    BY <1>3 DEF Started, Tasks, Unsent, IInv, Progress
  <2> QED BY <2>1, <2>2 DEF Contract!Refuse
<1>4. CASE pc[c] \in {"returned", "task"} /\ Answer(c, "completed")
  <2>1. Contract!Ends(c, "completed")
    BY <1>1, <1>4, AnswerSeen
  <2>2. c \in Started
    BY <1>4 DEF Started, Ran
  <2> QED BY <2>1, <2>2 DEF Contract!Finish
<1>5. CASE Answer(c, "unknown")
  BY <1>1, <1>5, ExecuteShape, AnswerSeen DEF Contract!Lose
<1> QED BY <1>2, <1>3, <1>4, <1>5, ExecuteShape

\* The server starts an open call once, and may make a task of what it started.
LEMMA DownstreamImplements ==
    ASSUME IInv, Ran, NEW c \in Calls, Downstream(c)
    PROVE  Contract!Start(c) \/ Contract!Defer(c) \/ UNCHANGED Promise
<1>1. /\ pc \in [Calls -> Places] /\ ran \in [Calls -> Lists]
      /\ result \in [Calls -> {"none", "plain", "task"}]
  BY DEF IInv, TypeOK
<1>2. CASE ServerStarts(c)
  <2>1. /\ pc[c] = "inflight" /\ ran[c] = None /\ lists # None
        /\ ran' = [ran EXCEPT ![c] = lists] /\ UNCHANGED <<pc, outcome, result>>
    BY <1>2 DEF ServerStarts, callVars
  <2>2. Started' = Started \cup {c} /\ c \notin Started \cup Over
    BY <1>1, <2>1 DEF Started, Over
  <2> QED BY <2>1, <2>2 DEF Contract!Start, Over, Tasks
<1>3. CASE Callback(c) \/ ServerGivesUp(c)
  BY <1>3 DEF Callback, ServerGivesUp, callVars, Promise, Started, Tasks, Over
<1>4. ASSUME NEW r \in {"plain", "task"}, Reply(c, r) PROVE Contract!Defer(c) \/ UNCHANGED Promise
  <2>1. /\ pc[c] = "inflight" /\ ran[c] # None /\ UNCHANGED <<ran, outcome>>
        /\ pc'[c] # "done" /\ \A d \in Calls \ {c} : pc'[d] = pc[d]
        /\ result' = [result EXCEPT ![c] = r]
    BY <1>1, <1>4 DEF Reply, Go, Ran
  <2>2. Over' = Over /\ Started' = Started /\ c \in Started \ Over
    BY <2>1 DEF Over, Started
  <2>3. CASE r = "task"
    <3>1. Tasks' = Tasks \cup {c}
      BY <1>1, <2>1, <2>3 DEF Tasks
    <3> QED BY <2>1, <2>2, <3>1 DEF Contract!Defer
  <2>4. CASE r = "plain"
    <3>1. result[c] # "task"
      BY <2>1 DEF IInv, Progress
    <3>2. Tasks' = Tasks
      BY <1>1, <2>1, <2>4, <3>1 DEF Tasks
    <3> QED BY <2>1, <2>2, <3>2 DEF Promise
  <2> QED BY <2>3, <2>4
<1> QED BY <1>2, <1>3, <1>4 DEF Downstream

\* A new process abandons the calls of the one before.
LEMMA RestartImplements ==
    ASSUME IInv, Restart
    PROVE  \E S \in SUBSET Calls : Contract!Abandon(S)
<1> DEFINE S == {c \in Calls : pc[c] \notin {"idle", "holding"}}
<1>1. /\ UNCHANGED <<ran, outcome, result>>
      /\ \A c \in Calls : pc'[c] = IF c \in S THEN "done" ELSE pc[c]
  BY DEF Restart, srvVars
<1>2. Over' = Over \cup S
  BY <1>1 DEF Over
<1>3. Contract!Abandon(S)
  BY <1>1, <1>2 DEF Contract!Abandon, Started, Tasks
<1> QED BY <1>3

\* Every step is a step of the contract or is not seen.
LEMMA StepImplements == IInv /\ Ran /\ [Next]_vars => [Contract!Next]_Promise
<1> SUFFICES ASSUME IInv, Ran, [Next]_vars PROVE Contract!Next \/ UNCHANGED Promise
  OBVIOUS
<1>1. ASSUME NEW c \in Calls, Execute(c) PROVE Contract!Next \/ UNCHANGED Promise
  BY <1>1, ExecuteImplements DEF Contract!Next
<1>2. ASSUME NEW c \in Calls, Downstream(c) PROVE Contract!Next \/ UNCHANGED Promise
  BY <1>2, DownstreamImplements DEF Contract!Next
<1>3. CASE Restart
  BY <1>3, RestartImplements DEF Contract!Next
<1>4. CASE UNCHANGED <<pc, outcome, result, ran, exec>>
  BY <1>4 DEF Promise, Started, Tasks, Over
<1> QED BY <1>1, <1>2, <1>3, <1>4, OthersShape DEF Next

\* At the start nothing is started, held or answered.
LEMMA InitImplements == Init => Contract!Init /\ Ran
  BY DEF Init, Started, Tasks, Over, Ran, Contract!Init

\* Router.Execute never replays: whatever the server, the client, the lifecycle
\* and new processes do, a call is started at most once and never after its
\* answer, is answered at most once, "completed" is said only of a call that
\* was started, and "not started" of none that was, but for a task's.
THEOREM ExecutionImplementsContract == Spec => AnsweredOnce
<1>1. IInv /\ Ran /\ [Next]_vars => Ran'
  BY RanStep DEF IInv
<1>2. Contract!promise = Promise
  BY DEF Contract!promise, Promise
<1>3. [Contract!Next]_Promise => [Contract!Next]_(Contract!promise)
  BY <1>2 DEF Contract!promise, Promise
<1> QED BY <1>1, <1>3, InitImplements, StepImplements, SpecIInv, PTL DEF Spec, AnsweredOnce, Contract!Spec
=============================================================================

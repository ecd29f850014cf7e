-------------------------- MODULE ManagerAppProofs --------------------------
(***************************************************************************)
(* Proofs that the status of the tunnel is truthful and that no            *)
(* tunnel-client process is left unowned, for any settings, number of      *)
(* savers, versions, attempts and events.                                  *)
(***************************************************************************)
EXTENDS ManagerApp, WellFoundedInduction, TLAPS

AttFields == {"at", "old", "tunnel", "url", "bin", "out"}
Installs == Gens \cup {Updater}
Outcomes == {"disabled", "degraded", "needs_credential"}

\* The shape of the supervisor's state, as far as the arguments need it.
AttShape ==
    /\ att = [g \in Gens |-> att[g]]
    /\ \A g \in Gens : att[g] = [f \in AttFields |-> att[g][f]]
InstShape ==
    /\ inst = [i \in Installs |-> inst[i]]
    /\ \A i \in Installs : inst[i] = [f \in {"at", "v"} |-> inst[i][f]]
Shape ==
    /\ AttShape /\ InstShape
    /\ {gen, run} \subseteq Gens \cup {0} /\ watch \subseteq Gens
    /\ proc \in [Gens -> {"none", "starting", "up", "stopping", "gone"}]

\* The published runtime is that of the current generation, whose attempt is
\* over; so a report of the current generation finds none published.
Published == run # 0 => run = gen /\ att[run].at \in {"done", "none"}

\* What is watched is done, what installs waits for it, and no report says
\* "ready".
Watched == \A g \in watch : att[g].at = "done"
Installing == \A g \in Gens : inst[g].at # "none" => att[g].at = "install"
Reported == \A g \in Gens : att[g].at = "report" => att[g].out \in Outcomes

\* TunnelOwned also holds after the end of the program: nothing starts then.
Owned ==
    \A g \in Gens : proc[g] \in Live =>
        \/ run = g
        \/ att[g].at \in {"wait", "publish"}
        \/ \E h \in Gens : att[h].at = "stop" /\ att[h].old = g

IInv == /\ Shape /\ Published /\ Watched /\ Installing /\ Reported
        /\ StatusTruthful /\ Owned

-----------------------------------------------------------------------------
(* Facts about the operators of the model.                                 *)

\* Zero, no runtime, is not a generation.
LEMMA ZeroIsNoGen == 0 \notin Gens
  BY AppAssumption DEF Gens

(* A set of numbers has a least element, if any.                           *)
LEMMA Least ==
    ASSUME NEW T, T \subseteq Nat, T # {}
    PROVE  \E x \in T : \A y \in T : x <= y
<1>1. \E x \in T : \A y \in T : ~(<<y, x>> \in OpToRel(<, Nat))
  BY WFMin, NatLessThanWellFounded
<1>2. PICK x \in T : \A y \in T : ~(<<y, x>> \in OpToRel(<, Nat))
  BY <1>1
<1>3. \A y \in T : ~(y < x)
  BY <1>2 DEF OpToRel
<1> QED BY <1>3

(* Hence the generation a restart takes is one that nothing refers to.     *)
LEMMA FreshIsFree == Free # {} => Fresh \in Free
<1> SUFFICES ASSUME Free # {} PROVE Fresh \in Free
  OBVIOUS
<1>1. Free \subseteq Nat
  BY AppAssumption DEF Free, Gens
<1>2. \E g \in Free : \A h \in Free : g <= h
  BY <1>1, Least
<1> QED BY <1>2 DEF Fresh

\* The record of a generation without an attempt.
LEMMA NoAttemptShape == NoAttempt = [f \in AttFields |-> NoAttempt[f]] /\ NoAttempt.at = "none"
  BY DEF NoAttempt, AttFields

(* Changes of one attempt leave the others alone.                          *)
Only(g) == AttShape' /\ \A h \in Gens \ {g} : att'[h] = att[h]

\* An attempt that goes on moves only itself.
LEMMA ToMoves ==
    ASSUME AttShape, NEW g \in Gens, NEW p, To(g, p)
    PROVE  Only(g) /\ att'[g].at = p
  BY DEF Only, AttShape, To, AttFields

\* So does one that ends,
LEMMA FinishMoves ==
    ASSUME AttShape, NEW g \in Gens, Finish(g)
    PROVE  Only(g) /\ att'[g].at = "none"
  BY NoAttemptShape DEF Only, AttShape, Finish

\* and one that is about to report an outcome.
LEMMA ReportMoves ==
    ASSUME AttShape, NEW g \in Gens, NEW o \in Outcomes, Report(g, o)
    PROVE  Only(g) /\ att'[g].at = "report" /\ att'[g].out \in Outcomes
  BY DEF Only, AttShape, Report, AttFields

\* Signalling ends one process and leaves the others alone.
LEMMA SignalledProcs ==
    ASSUME Shape, NEW p, proc' = Signalled(p)
    PROVE  /\ proc' \in [Gens -> {"none", "starting", "up", "stopping", "gone"}]
           /\ \A h \in Gens : IF h = p THEN proc'[h] \notin Live ELSE proc'[h] = proc[h]
  BY DEF Shape, Signalled, Live

(* Steps outside the supervisor.                                           *)
Elsewhere == UNCHANGED <<gen, run, status, att, proc, watch, inst>>

\* Steps outside of the supervisor do not concern it.
LEMMA ElsewhereStep == IInv /\ Elsewhere => IInv'
<1> SUFFICES ASSUME IInv, Elsewhere PROVE IInv'
  OBVIOUS
<1> USE DEF IInv, Elsewhere
<1>1. Shape'
  BY DEF Shape, AttShape, InstShape
<1>2. Published' /\ Watched' /\ Installing' /\ Reported' /\ StatusTruthful'
  BY DEF Published, Watched, Installing, Reported, StatusTruthful
<1>3. Owned'
  BY DEF Owned
<1> QED BY <1>1, <1>2, <1>3

(* A step of an attempt that is under way publishes nothing; a live        *)
(* process is one that the attempt starts, or was owned and is not the one *)
(* the attempt was to stop.                                                *)
LEMMA AttemptMoves ==
    ASSUME IInv, NEW g \in Gens, att[g].at \notin {"none", "done"}, Only(g),
           att'[g].at = "report" => att'[g].out \in Outcomes,
           InstShape', Installing', StatusTruthful', UNCHANGED <<gen, run, watch>>,
           proc' \in [Gens -> {"none", "starting", "up", "stopping", "gone"}],
           \A h \in Gens : proc'[h] \in Live =>
               \/ h = g /\ att'[g].at \in {"wait", "publish"}
               \/ /\ proc[h] \in Live /\ ~(att[g].at = "stop" /\ att[g].old = h)
                  /\ ~(h = g /\ att[g].at \in {"wait", "publish"})
    PROVE  IInv'
<1> USE DEF IInv, Only
<1>1. Shape'
  BY DEF Shape
<1>2. Published' /\ Watched'
  BY ZeroIsNoGen DEF Published, Watched, Shape
<1>3. Reported'
  BY DEF Reported
<1>4. Owned'
  <2> SUFFICES ASSUME NEW h \in Gens, proc'[h] \in Live
               PROVE  \/ run' = h
                      \/ att'[h].at \in {"wait", "publish"}
                      \/ \E k \in Gens : att'[k].at = "stop" /\ att'[k].old = h
    BY DEF Owned
  <2>1. CASE h = g /\ att'[g].at \in {"wait", "publish"}
    BY <2>1
  <2>2. CASE /\ proc[h] \in Live /\ ~(att[g].at = "stop" /\ att[g].old = h)
             /\ ~(h = g /\ att[g].at \in {"wait", "publish"})
    BY <2>2 DEF Owned
  <2> QED BY <2>1, <2>2
<1> QED BY <1>1, <1>2, <1>3, <1>4

-----------------------------------------------------------------------------
\* At the start there is no attempt and no process.
LEMMA InitIInv == Init => IInv
<1> SUFFICES ASSUME Init PROVE IInv
  OBVIOUS
<1> USE DEF Init
<1>1. Shape
  BY NoAttemptShape DEF Shape, AttShape, InstShape, Installs, NoInstall
<1>2. Published /\ Watched /\ Installing /\ Reported
  BY ZeroIsNoGen DEF Published, Watched, Installing, Reported, NoAttempt, NoInstall
<1>3. StatusTruthful /\ Owned
  BY DEF StatusTruthful, Owned, Live
<1> QED BY <1>1, <1>2, <1>3 DEF IInv

-----------------------------------------------------------------------------
(* Shutdown and restart take the published runtime.                        *)
LEMMA CloseStep ==
    ASSUME IInv, Close
    PROVE  IInv'
<1> USE DEF IInv, Close, ProductClose, instVars
<1>1. /\ proc' \in [Gens -> {"none", "starting", "up", "stopping", "gone"}]
      /\ \A h \in Gens : proc'[h] \in Live => proc[h] \in Live /\ h # run
  BY ZeroIsNoGen, SignalledProcs DEF Shape
<1>2. Shape'
  BY <1>1 DEF Shape, AttShape, InstShape
<1>3. Published' /\ Watched' /\ Installing' /\ Reported' /\ StatusTruthful'
  BY DEF Published, Watched, Installing, Reported, StatusTruthful
<1>4. Owned'
  BY <1>1 DEF Owned
<1> QED BY <1>2, <1>3, <1>4

\* A restart takes an unused generation and unpublishes the runtime, which the new attempt will stop.
LEMMA RestartStep ==
    ASSUME IInv, Restart
    PROVE  IInv'
<1>1. CASE UNCHANGED <<gen, run, status, att>>
  BY <1>1, ElsewhereStep DEF Elsewhere, Restart, instVars
<1>2. CASE Free # {} /\ gen' = Fresh /\ run' = 0 /\ status' = "starting"
           /\ att' = [att EXCEPT ![Fresh] =
                        [NoAttempt EXCEPT !.at = IF run = 0 THEN "config" ELSE "stop", !.old = run]]
  <2> DEFINE n == Fresh
             new == [NoAttempt EXCEPT !.at = IF run = 0 THEN "config" ELSE "stop", !.old = run]
  <2>1. n \in Gens /\ att[n] = NoAttempt /\ n \notin watch /\ proc[n] = "none"
    BY <1>2, FreshIsFree DEF Free
  <2>2. new = [f \in AttFields |-> new[f]] /\ new.at = (IF run = 0 THEN "config" ELSE "stop")
        /\ new.old = run
    BY NoAttemptShape DEF AttFields
  <2> HIDE DEF n, new
  <2>3. att' = [att EXCEPT ![n] = new] /\ gen' = n
    BY <1>2 DEF n, new
  <2>4. Only(n) /\ att'[n] = new
    BY <2>1, <2>2, <2>3 DEF Only, IInv, Shape, AttShape
  <2>5. UNCHANGED <<proc, watch, inst>> /\ run' = 0
    BY <1>2 DEF Restart, instVars
  <2>6. Shape'
    BY <2>1, <2>3, <2>4, <2>5 DEF IInv, Shape, Only, InstShape
  <2>7. Published' /\ Watched'
    BY <2>1, <2>4, <2>5 DEF IInv, Published, Watched, Shape, Only
  <2>8. Installing'
    BY <2>1, <2>4, <2>5, NoAttemptShape DEF IInv, Installing, Only
  <2>9. Reported'
    BY <2>2, <2>4 DEF IInv, Reported, Only
  <2>10. StatusTruthful'
    BY <1>2, <2>5 DEF StatusTruthful
  <2>11. Owned'
    BY <2>1, <2>2, <2>4, <2>5, NoAttemptShape, ZeroIsNoGen DEF IInv, Owned, Only, Live
  <2> QED BY <2>6, <2>7, <2>8, <2>9, <2>10, <2>11 DEF IInv
<1> QED BY <1>1, <1>2 DEF Restart

-----------------------------------------------------------------------------
(* The attempts.                                                           *)
LEMMA StopOldStep ==
    ASSUME IInv, NEW g \in Gens, StopOld(g)
    PROVE  IInv'
<1>1. UNCHANGED <<gen, run, status, watch, inst>>
  BY DEF StopOld, instVars
<1>2. CASE att[g].at = "stop" /\ proc' = Signalled(att[g].old) /\ To(g, "stopping")
  <2>1. Only(g) /\ att'[g].at = "stopping"
    BY <1>2, ToMoves DEF IInv, Shape
  <2>2. InstShape' /\ StatusTruthful'
    BY <1>1 DEF IInv, Shape, InstShape, StatusTruthful
  <2>3. Installing'
    BY <1>1, <1>2, <2>1 DEF IInv, Installing, Only
  <2> QED BY <1>1, <1>2, <2>1, <2>2, <2>3, SignalledProcs, AttemptMoves DEF IInv
<1>3. CASE att[g].at = "stopping" /\ Stopped(att[g].old) /\ UNCHANGED proc
           /\ att' = [att EXCEPT ![g].at = "config", ![g].old = 0]
  <2>1. Only(g) /\ att'[g].at = "config"
    BY <1>3 DEF IInv, Shape, Only, AttShape, AttFields
  <2>2. InstShape' /\ StatusTruthful'
    BY <1>1 DEF IInv, Shape, InstShape, StatusTruthful
  <2>3. Installing'
    BY <1>1, <1>3, <2>1 DEF IInv, Installing, Only
  <2> QED BY <1>1, <1>3, <2>1, <2>2, <2>3, AttemptMoves DEF IInv, Shape
<1> QED BY <1>2, <1>3 DEF StopOld

\* The installation of an attempt runs only while the attempt waits for it.
LEMMA EnsureStep ==
    ASSUME IInv, NEW g \in Gens, Ensure(g)
    PROVE  IInv'
<1>1. att[g].at = "config" /\ UNCHANGED <<gen, run, status, proc, watch>>
  BY DEF Ensure
<1>2. Only(g) /\ (att'[g].at = "report" => att'[g].out \in Outcomes)
      /\ \/ UNCHANGED inst
         \/ /\ att'[g].at = "install"
            /\ \E v \in Offered : inst' = [inst EXCEPT ![g] = [at |-> "download", v |-> v]]
  <2>1. CASE Report(g, "disabled") /\ UNCHANGED inst
    BY <2>1, ReportMoves DEF IInv, Shape, Outcomes
  <2>2. CASE /\ att' = [att EXCEPT ![g].at = "launch", ![g].tunnel = manager.tunnel,
                                   ![g].bin = active.version]
             /\ UNCHANGED inst
    <3>1. Only(g) /\ att'[g].at = "launch"
      BY <2>2 DEF IInv, Shape, Only, AttShape, AttFields
    <3> QED BY <2>2, <3>1
  <2>3. CASE /\ att' = [att EXCEPT ![g].at = "install", ![g].tunnel = manager.tunnel]
             /\ \E v \in Offered : inst' = [inst EXCEPT ![g] = [at |-> "download", v |-> v]]
    <3>1. Only(g) /\ att'[g].at = "install"
      BY <2>3 DEF IInv, Shape, Only, AttShape, AttFields
    <3> QED BY <2>3, <3>1
  <2> QED BY <2>1, <2>2, <2>3 DEF Ensure
<1>3. InstShape' /\ \A h \in Gens \ {g} : inst'[h] = inst[h]
  <2>1. CASE UNCHANGED inst
    BY <2>1 DEF IInv, Shape, InstShape
  <2>2. CASE \E v \in Offered : inst' = [inst EXCEPT ![g] = [at |-> "download", v |-> v]]
    BY <2>2 DEF IInv, Shape, InstShape, Installs
  <2> QED BY <1>2, <2>1, <2>2
<1>4. Installing'
  BY <1>1, <1>2, <1>3 DEF IInv, Installing, Only
<1>5. StatusTruthful'
  BY <1>1 DEF IInv, StatusTruthful
<1> QED BY <1>1, <1>2, <1>3, <1>4, <1>5, AttemptMoves DEF IInv, Shape

(* The process an attempt starts is its own until it is published.         *)
LEMMA LaunchStep ==
    ASSUME IInv, NEW g \in Gens, Launch(g)
    PROVE  IInv'
<1>1. att[g].at = "launch" /\ UNCHANGED <<gen, run, status, watch, inst>>
  BY DEF Launch, instVars
<1>2. InstShape' /\ StatusTruthful'
  BY <1>1 DEF IInv, Shape, InstShape, StatusTruthful
<1>3. CASE (Report(g, "needs_credential") \/ Report(g, "degraded")) /\ UNCHANGED proc
  <2>1. Only(g) /\ att'[g].at = "report" /\ att'[g].out \in Outcomes
    BY <1>3, ReportMoves DEF IInv, Shape, Outcomes
  <2>2. Installing'
    BY <1>1, <2>1 DEF IInv, Installing, Only
  <2> QED BY <1>1, <1>2, <1>3, <2>1, <2>2, AttemptMoves DEF IInv, Shape
<1>4. CASE StartProcess(g)
  <2>1. Only(g) /\ att'[g].at = "wait"
    BY <1>4 DEF StartProcess, IInv, Shape, Only, AttShape, AttFields
  <2>2. Installing'
    BY <1>1, <2>1 DEF IInv, Installing, Only
  <2>3. proc' \in [Gens -> {"none", "starting", "up", "stopping", "gone"}]
        /\ \A h \in Gens \ {g} : proc'[h] = proc[h]
    BY <1>4 DEF StartProcess, IInv, Shape
  <2> QED BY <1>1, <1>2, <2>1, <2>2, <2>3, AttemptMoves DEF IInv
<1> QED BY <1>3, <1>4 DEF Launch, KeyNotRead

\* A process is awaited by the attempt that started it.
LEMMA WaitReadyStep ==
    ASSUME IInv, NEW g \in Gens, WaitReady(g)
    PROVE  IInv'
<1>1. att[g].at = "wait" /\ UNCHANGED <<gen, run, status, watch, inst>>
  BY DEF WaitReady, instVars
<1>2. InstShape' /\ StatusTruthful'
  BY <1>1 DEF IInv, Shape, InstShape, StatusTruthful
<1>3. Only(g) => Installing' \/ inst[g].at # "none"
  BY <1>1 DEF IInv, Installing, Only
<1>4. inst[g].at = "none"
  BY <1>1 DEF IInv, Installing
<1>5. CASE proc' = [proc EXCEPT ![g] = "up"] /\ To(g, "publish")
  <2>1. Only(g) /\ att'[g].at = "publish"
    BY <1>5, ToMoves DEF IInv, Shape
  <2>2. proc' \in [Gens -> {"none", "starting", "up", "stopping", "gone"}]
        /\ \A h \in Gens \ {g} : proc'[h] = proc[h]
    BY <1>5 DEF IInv, Shape
  <2> QED BY <1>1, <1>2, <1>3, <1>4, <2>1, <2>2, AttemptMoves DEF IInv
<1>6. CASE Report(g, "degraded") /\ proc' = [proc EXCEPT ![g] = "none"]
  <2>1. Only(g) /\ att'[g].at = "report" /\ att'[g].out \in Outcomes
    BY <1>6, ReportMoves DEF IInv, Shape, Outcomes
  <2>2. proc' \in [Gens -> {"none", "starting", "up", "stopping", "gone"}]
        /\ proc'[g] \notin Live /\ \A h \in Gens \ {g} : proc'[h] = proc[h]
    BY <1>6 DEF IInv, Shape, Live
  <2> QED BY <1>1, <1>2, <1>3, <1>4, <2>1, <2>2, AttemptMoves DEF IInv
<1>7. CASE proc' = Signalled(g) /\ To(g, "failing")
  <2>1. Only(g) /\ att'[g].at = "failing"
    BY <1>7, ToMoves DEF IInv, Shape
  <2> QED BY <1>1, <1>2, <1>3, <1>4, <1>7, <2>1, SignalledProcs, AttemptMoves DEF IInv
<1> QED BY <1>5, <1>6, <1>7 DEF WaitReady

\* An attempt whose start failed reports it after its process has stopped.
LEMMA StartFailedStep ==
    ASSUME IInv, NEW g \in Gens, StartFailed(g)
    PROVE  IInv'
<1>1. att[g].at = "failing" /\ UNCHANGED <<gen, run, status, watch, inst>>
  BY DEF StartFailed, instVars
<1>2. InstShape' /\ StatusTruthful'
  BY <1>1 DEF IInv, Shape, InstShape, StatusTruthful
<1>3. Only(g) /\ att'[g].at = "report" /\ att'[g].out \in Outcomes
  BY ReportMoves DEF StartFailed, IInv, Shape, Outcomes
<1>4. Installing'
  BY <1>1, <1>3 DEF IInv, Installing, Only
<1>5. proc' \in [Gens -> {"none", "starting", "up", "stopping", "gone"}]
      /\ proc'[g] \notin Live /\ \A h \in Gens \ {g} : proc'[h] = proc[h]
  BY DEF StartFailed, IInv, Shape, Live
<1> QED BY <1>1, <1>2, <1>3, <1>4, <1>5, AttemptMoves DEF IInv

(* A report of the current generation finds no runtime published, because  *)
(* the published one is of the current generation and its attempt is over. *)
LEMMA ReportStatusStep ==
    ASSUME IInv, NEW g \in Gens, ReportStatus(g)
    PROVE  IInv'
<1>1. att[g].at = "report" /\ UNCHANGED <<gen, run, watch, proc, inst>>
  BY DEF ReportStatus, instVars
<1>2. Only(g) /\ att'[g].at = "none"
  BY FinishMoves DEF ReportStatus, IInv, Shape
<1>3. InstShape' /\ Installing'
  BY <1>1, <1>2 DEF IInv, Shape, InstShape, Installing, Only
<1>4. StatusTruthful'
  <2>1. att[g].out # "ready"
    BY <1>1 DEF IInv, Reported, Outcomes
  <2>2. CASE gen = g
    <3>1. run = 0
      BY <1>1, <2>2 DEF IInv, Published
    <3> QED BY <1>1, <2>1, <2>2, <3>1 DEF ReportStatus, SetStatus, StatusTruthful
  <2>3. CASE gen # g
    BY <1>1, <2>3 DEF IInv, ReportStatus, SetStatus, StatusTruthful
  <2> QED BY <2>2, <2>3
<1> QED BY <1>1, <1>2, <1>3, <1>4, AttemptMoves DEF IInv, Shape

(* Publishing under mgrMu, where the generation is compared.               *)
LEMMA PublishStep ==
    ASSUME IInv, NEW g \in Gens, Publish(g)
    PROVE  IInv'
<1>1. att[g].at = "publish" /\ UNCHANGED <<gen, inst>>
  BY DEF Publish, instVars
<1>2. CASE Superseded(g)
  <2>1. proc' = Signalled(g) /\ To(g, "dropping") /\ UNCHANGED <<run, status, watch>>
    BY <1>2 DEF Publish
  <2>2. Only(g) /\ att'[g].at = "dropping"
    BY <2>1, ToMoves DEF IInv, Shape
  <2>3. InstShape' /\ Installing' /\ StatusTruthful'
    BY <1>1, <2>1, <2>2 DEF IInv, Shape, InstShape, Installing, StatusTruthful, Only
  <2> QED BY <1>1, <2>1, <2>2, <2>3, SignalledProcs, AttemptMoves DEF IInv
<1>3. CASE ~Superseded(g)
  <2>1. /\ run' = g /\ status' = "ready" /\ watch' = watch \cup {g}
        /\ To(g, "done") /\ UNCHANGED proc
    BY <1>3 DEF Publish
  <2>2. gen = g
    BY <1>3 DEF Superseded
  <2>3. Only(g) /\ att'[g].at = "done"
    BY <2>1, ToMoves DEF IInv, Shape
  <2>4. Shape'
    BY <1>1, <2>1, <2>3 DEF IInv, Shape, InstShape, Only
  <2>5. Published' /\ Watched' /\ Reported'
    BY <1>1, <2>1, <2>2, <2>3 DEF IInv, Shape, Published, Watched, Reported, Only
  <2>6. Installing'
    BY <1>1, <2>3 DEF IInv, Installing, Only
  <2>7. StatusTruthful'
    BY <2>1, ZeroIsNoGen DEF StatusTruthful
  <2>8. Owned'
    <3>1. run \in {0, g}
      BY <2>2 DEF IInv, Published
    <3> QED BY <1>1, <2>1, <2>3, <3>1, ZeroIsNoGen DEF IInv, Owned, Only
  <2> QED BY <2>4, <2>5, <2>6, <2>7, <2>8 DEF IInv
<1> QED BY <1>2, <1>3

\* A superseded attempt ends after its process has stopped.
LEMMA DroppedStep ==
    ASSUME IInv, NEW g \in Gens, Dropped(g)
    PROVE  IInv'
<1>1. att[g].at = "dropping" /\ UNCHANGED <<gen, run, status, watch, inst>>
  BY DEF Dropped, instVars
<1>2. Only(g) /\ att'[g].at = "none"
  BY FinishMoves DEF Dropped, IInv, Shape
<1>3. InstShape' /\ Installing' /\ StatusTruthful'
  BY <1>1, <1>2 DEF IInv, Shape, InstShape, Installing, StatusTruthful, Only
<1>4. proc' \in [Gens -> {"none", "starting", "up", "stopping", "gone"}]
      /\ proc'[g] \notin Live /\ \A h \in Gens \ {g} : proc'[h] = proc[h]
  BY DEF Dropped, IInv, Shape, Live
<1> QED BY <1>1, <1>2, <1>3, <1>4, AttemptMoves DEF IInv

-----------------------------------------------------------------------------
(* The end of a runtime: nothing live is lost, and the status follows.     *)
LEMMA WatchStep ==
    ASSUME IInv, NEW g \in Gens, Watch(g)
    PROVE  IInv'
<1>1. g \in watch /\ proc[g] = "gone" /\ watch' = watch \ {g} /\ UNCHANGED <<gen, inst>>
      /\ att[g].at = "done"
  BY DEF Watch, instVars, IInv, Watched
<1>2. Only(g) /\ att'[g].at = "none"
  BY FinishMoves DEF Watch, IInv, Shape
<1>3. proc' \in [Gens -> {"none", "starting", "up", "stopping", "gone"}]
      /\ proc'[g] \notin Live /\ \A h \in Gens \ {g} : proc'[h] = proc[h]
  BY DEF Watch, IInv, Shape, Live
<1>4. \/ run = g /\ run' = 0 /\ status' = "degraded"
      \/ UNCHANGED <<run, status>>
  BY DEF Watch
<1>5. Shape'
  BY <1>1, <1>2, <1>3, <1>4 DEF IInv, Shape, InstShape, Only
<1>6. Published' /\ Watched' /\ Reported'
  BY <1>1, <1>2, <1>4, ZeroIsNoGen DEF IInv, Shape, Published, Watched, Reported, Only
<1>7. Installing' /\ StatusTruthful'
  BY <1>1, <1>2, <1>4, ZeroIsNoGen DEF IInv, Installing, StatusTruthful, Only
<1>8. Owned'
  <2>1. \A h \in Gens : proc'[h] \in Live => h # g /\ proc[h] \in Live
    BY <1>3
  <2> QED BY <1>1, <1>2, <1>4, <2>1 DEF IInv, Owned, Only
<1> QED BY <1>5, <1>6, <1>7, <1>8 DEF IInv

\* A process that ends needs no owner.
LEMMA ProcessEndsStep ==
    ASSUME IInv, NEW g \in Gens, Crash(g) \/ Ends(g)
    PROVE  IInv'
<1>1. UNCHANGED <<gen, run, status, att, watch, inst>>
  BY DEF Crash, Ends, instVars
<1>2. proc' \in [Gens -> {"none", "starting", "up", "stopping", "gone"}]
      /\ proc'[g] \notin Live /\ \A h \in Gens \ {g} : proc'[h] = proc[h]
  BY DEF Crash, Ends, IInv, Shape, Live
<1>3. Shape'
  BY <1>1, <1>2 DEF IInv, Shape, AttShape, InstShape
<1>4. Published' /\ Watched' /\ Installing' /\ Reported' /\ StatusTruthful'
  BY <1>1 DEF IInv, Published, Watched, Installing, Reported, StatusTruthful
<1>5. Owned'
  BY <1>1, <1>2 DEF IInv, Owned
<1> QED BY <1>3, <1>4, <1>5 DEF IInv

-----------------------------------------------------------------------------
(* The installer: an install of the updater touches no attempt, and one of *)
(* an attempt only that attempt, which waits for it.                       *)
LEMMA InstallMoves ==
    ASSUME IInv, NEW i \in Installs, inst[i].at # "none", InstShape',
           \A j \in Installs \ {i} : inst'[j] = inst[j],
           UNCHANGED <<gen, run, status, proc, watch>>,
           \/ UNCHANGED att /\ (i \in Gens => inst'[i].at # "none")
           \/ UNCHANGED att /\ i \notin Gens
           \/ /\ i \in Gens /\ Only(i) /\ inst'[i].at = "none"
              /\ att'[i].at = "launch" \/ (att'[i].at = "report" /\ att'[i].out \in Outcomes)
    PROVE  IInv'
<1>1. StatusTruthful'
  BY DEF IInv, StatusTruthful
<1>2. CASE i \in Gens
  <2>1. att[i].at = "install"
    BY <1>2 DEF IInv, Installing
  <2>2. CASE UNCHANGED att /\ inst'[i].at # "none"
    <3>1. Only(i)
      BY <2>2 DEF Only, IInv, Shape, AttShape
    <3>2. Installing'
      BY <2>1, <2>2 DEF IInv, Installing, Installs
    <3> QED BY <1>1, <1>2, <2>1, <2>2, <3>1, <3>2, AttemptMoves DEF IInv, Shape
  <2>3. CASE /\ Only(i) /\ inst'[i].at = "none"
             /\ att'[i].at = "launch" \/ (att'[i].at = "report" /\ att'[i].out \in Outcomes)
    <3>1. Installing'
      BY <2>3 DEF IInv, Installing, Installs, Only
    <3> QED BY <1>1, <1>2, <2>1, <2>3, <3>1, AttemptMoves DEF IInv, Shape
  <2> QED BY <1>2, <2>2, <2>3
<1>3. CASE i \notin Gens /\ UNCHANGED att
  <2>1. Shape'
    BY <1>3 DEF IInv, Shape, AttShape
  <2>2. Published' /\ Watched' /\ Reported' /\ Installing'
    BY <1>3 DEF IInv, Published, Watched, Reported, Installing, Installs
  <2>3. Owned'
    BY <1>3 DEF IInv, Owned
  <2> QED BY <1>1, <2>1, <2>2, <2>3 DEF IInv
<1> QED BY <1>2, <1>3

\* What the end of an installation does to its attempt.
LEMMA InstallEndsMoves ==
    ASSUME IInv, NEW i \in Installs, NEW ok \in BOOLEAN, InstallEnds(i, ok)
    PROVE  /\ InstShape' /\ inst'[i].at = "none" /\ \A j \in Installs \ {i} : inst'[j] = inst[j]
           /\ IF i = Updater THEN UNCHANGED att
              ELSE /\ i \in Gens /\ Only(i)
                   /\ att'[i].at = "launch" \/ (att'[i].at = "report" /\ att'[i].out \in Outcomes)
<1>1. InstShape' /\ inst'[i].at = "none" /\ \A j \in Installs \ {i} : inst'[j] = inst[j]
  BY DEF InstallEnds, NoInstall, IInv, Shape, InstShape
<1>2. CASE i = Updater
  BY <1>1, <1>2 DEF InstallEnds
<1>3. CASE i # Updater /\ ok
  <2>1. att' = [att EXCEPT ![i].at = "launch", ![i].bin = inst[i].v] /\ i \in Gens
    BY <1>3 DEF InstallEnds, Installs
  <2>2. Only(i) /\ att'[i].at = "launch"
    BY <2>1 DEF IInv, Shape, Only, AttShape, AttFields
  <2> QED BY <1>1, <1>3, <2>1, <2>2
<1>4. CASE i # Updater /\ ~ok
  <2>1. Report(i, "degraded") /\ i \in Gens
    BY <1>4 DEF InstallEnds, Installs
  <2> QED BY <1>1, <1>4, <2>1, ReportMoves DEF IInv, Shape, Outcomes
<1> QED BY <1>2, <1>3, <1>4

\* An installation that goes on moves only itself.
LEMMA InstallAt ==
    ASSUME IInv, NEW i \in Installs, NEW a, inst' = [inst EXCEPT ![i].at = a]
    PROVE  InstShape' /\ inst'[i].at = a /\ \A j \in Installs \ {i} : inst'[j] = inst[j]
  BY DEF IInv, Shape, InstShape

\* The steps of an installation.
LEMMA InstallStepStep ==
    ASSUME IInv, NEW i \in Installs, InstallStep(i)
    PROVE  IInv'
<1>1. inst[i].at # "none" /\ UNCHANGED <<gen, run, status, proc, watch>>
  BY DEF InstallStep, Download, Extract, ProbeAndPromote
<1>2. CASE InstallEnds(i, TRUE) \/ InstallEnds(i, FALSE)
  <2>1. Updater \notin Gens
    BY ZeroIsNoGen DEF Updater
  <2> QED BY <1>1, <1>2, <2>1, InstallEndsMoves, InstallMoves
<1>3. CASE UNCHANGED att /\ (inst' = [inst EXCEPT ![i].at = "extract"]
                             \/ inst' = [inst EXCEPT ![i].at = "probe"])
  BY <1>1, <1>3, InstallAt, InstallMoves
<1> QED BY <1>2, <1>3 DEF InstallStep, Download, Extract, ProbeAndPromote

\* The updater installs for no attempt.
LEMMA InstallUpdateStep ==
    ASSUME IInv, InstallUpdate
    PROVE  IInv'
<1>1. UNCHANGED <<gen, run, status, att, proc, watch>>
  BY DEF InstallUpdate, supVars
<1>2. InstShape' /\ \A j \in Gens : inst'[j] = inst[j]
  BY ZeroIsNoGen DEF InstallUpdate, IInv, Shape, InstShape, Installs, Updater
<1>3. Shape'
  BY <1>1, <1>2 DEF IInv, Shape, AttShape
<1>4. Published' /\ Watched' /\ Installing' /\ Reported' /\ StatusTruthful'
  BY <1>1, <1>2 DEF IInv, Published, Watched, Installing, Reported, StatusTruthful
<1>5. Owned'
  BY <1>1 DEF IInv, Owned
<1> QED BY <1>3, <1>4, <1>5 DEF IInv

-----------------------------------------------------------------------------
\* Every step of the program keeps the invariant.
LEMMA ProgramIInv == IInv /\ Program => IInv'
<1> SUFFICES ASSUME IInv, Program PROVE IInv'
  OBVIOUS
<1>1. CASE Start \/ SetCredential \/ SecretCommand \/ RequestShutdown \/ Exit \/ RollbackTunnelClient
  BY <1>1, ElsewhereStep DEF Elsewhere, Start, SetCredential, SecretCommand, RequestShutdown, Exit,
                             RollbackTunnelClient, supVars, instVars
<1>2. ASSUME NEW s \in Savers, SaveBegin(s) \/ SaverStep(s) PROVE IInv'
  BY <1>2, ElsewhereStep DEF Elsewhere, SaveBegin, SaverStep, SaveLocked, ManagerChanged, supVars,
                             instVars
<1>3. ASSUME NEW g \in Gens, Attempt(g) PROVE IInv'
  BY <1>3, StopOldStep, EnsureStep, LaunchStep, WaitReadyStep, StartFailedStep, ReportStatusStep,
     PublishStep, DroppedStep DEF Attempt
<1>4. ASSUME NEW g \in Gens, Watch(g) \/ Retry(g) PROVE IInv'
  <2>1. CASE Retry(g)
    BY <2>1, ElsewhereStep DEF Elsewhere, Retry, instVars
  <2> QED BY <1>4, <2>1, WatchStep
<1>5. ASSUME NEW i \in Gens \cup {Updater}, InstallStep(i) PROVE IInv'
  BY <1>5, InstallStepStep DEF Installs
<1> QED BY <1>1, <1>2, <1>3, <1>4, <1>5, CloseStep, RestartStep, InstallUpdateStep DEF Program

\* Every step keeps the invariant.
LEMMA NextIInv == IInv /\ [Next]_vars => IInv'
<1> SUFFICES ASSUME IInv, [Next]_vars PROVE IInv'
  OBVIOUS
<1>1. CASE UNCHANGED vars
  BY <1>1, ElsewhereStep DEF Elsewhere, vars, supVars, instVars
<1> QED BY <1>1, ProgramIInv, ProcessEndsStep DEF Next

\* The invariant holds throughout.
LEMMA SpecIInv == Spec => []IInv
  BY InitIInv, NextIInv, PTL DEF Spec

(* The status says ready exactly while a runtime is published, however     *)
(* many attempts, failures and reports of superseded attempts overlap      *)
(* (v2ProductRuntime: setManagerTunnelStatus compares the generation).     *)
THEOREM StatusIsTruthful == Spec => []StatusTruthful
  BY SpecIInv, PTL DEF IInv

(* No stray tunnel: every tunnel-client process that nobody has told to    *)
(* stop is published, or its attempt is starting it, or the attempt that   *)
(* superseded it is about to stop it (restartManagerTunnel, Close).        *)
THEOREM TunnelsOwned == Spec => []TunnelOwned
<1>1. IInv => TunnelOwned
  BY DEF IInv, Owned, TunnelOwned
<1> QED BY <1>1, SpecIInv, PTL
=============================================================================

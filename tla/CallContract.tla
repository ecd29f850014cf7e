---------------------------- MODULE CallContract ----------------------------
(***************************************************************************)
(* What the executor tools promise of a routed call: the server starts it  *)
(* at most once and never after its answer, it is answered at most once,   *)
(* and what the answer says of the start is so.                            *)
(***************************************************************************)
CONSTANT Calls

VARIABLES
    started,  \* calls that the server has started
    held,     \* calls that it goes on with as a task
    over,     \* calls that are answered, or ended with their process
    said      \* of a call: none, or what it was answered with

promise == <<started, held, over, said>>

Init == started = {} /\ held = {} /\ over = {} /\ said = [c \in Calls |-> "none"]

Start(c) == /\ c \notin started \cup over /\ started' = started \cup {c}
            /\ UNCHANGED <<held, over, said>>
Defer(c) == /\ c \in started \ over /\ held' = held \cup {c}
            /\ UNCHANGED <<started, over, said>>

Ends(c, o) == /\ c \notin over /\ over' = over \cup {c} /\ said' = [said EXCEPT ![c] = o]
              /\ UNCHANGED <<started, held>>
\* "Not started" is said of what was started only for a task that cannot be handed over.
Refuse(c) == (c \in started => c \in held) /\ Ends(c, "not_started")
Finish(c) == c \in started /\ Ends(c, "completed")
Lose(c)   == Ends(c, "unknown")

\* The process ends: its calls get no answer and are not resumed.
Abandon(S) == over' = over \cup S /\ UNCHANGED <<started, held, said>>

Next == \/ \E S \in SUBSET Calls : Abandon(S)
        \/ \E c \in Calls : Start(c) \/ Defer(c) \/ Refuse(c) \/ Finish(c) \/ Lose(c)
Spec == Init /\ [][Next]_promise
=============================================================================

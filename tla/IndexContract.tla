--------------------------- MODULE IndexContract ---------------------------
(***************************************************************************)
(* What the semantic index promises to discovery and execution: at any     *)
(* moment there is at most one published index; it is replaced as a whole  *)
(* by a newer one or withdrawn as a whole, never edited in place, and      *)
(* whatever is published is whole.                                         *)
(***************************************************************************)
EXTENDS Naturals

CONSTANTS Tools, Sources, Answers, None

VARIABLE index   \* the published index, or None

\* A published index: the source contract of each tool, the guidance and the
\* enriched vectors made for it, and the capability hierarchy with the
\* guidance it was made from.
Views == [id : Nat \ {0}, src : [Tools -> Sources \cup {None}],
          guid : [Tools -> Answers \cup {None}], vectors : SUBSET Tools,
          basis : [Tools -> Answers \cup {None}], hierarchy : Answers \cup {None}]

Whole(v) == /\ \A t \in Tools : v.src[t] # None => v.guid[t] # None /\ t \in v.vectors
            /\ v.hierarchy # None /\ v.basis = v.guid

Init == index = None

Publish == /\ index' \in Views /\ Whole(index')
           /\ index # None => index'.id > index.id
Reset   == index # None /\ index' = None

Spec == Init /\ [][Publish \/ Reset]_index
=============================================================================

------------------------- MODULE ServerConfigProofs -------------------------
(***************************************************************************)
(* Proof that an acknowledged edit of a Server Entry survives, for any     *)
(* number of servers, editors, edits, failures and crashes.                *)
(***************************************************************************)
EXTENDS ServerConfig, TLAPS

Configs == [Ids -> Values \cup {Absent}]
EditType == [pc : {"idle", "save", "index", "app"}, id : Ids, cfg : Configs]

\* The shape of the state, as far as the argument needs it.
Shape ==
    /\ {stored, life, index, app} \subseteq Configs
    /\ edit \in [Editors -> EditType]
    /\ kept \in [Ids -> [val : Values \cup {Absent}, known : BOOLEAN]]
    /\ alone \subseteq Editors
    /\ boot \in {"down", "cutover", "fresh", "up"} /\ config \in {"none", "legacy", "v2"}

\* The files are there whenever they are used: the fresh configuration, which
\* overwrites them, is only made where there is none.
Booted ==
    /\ boot \in {"cutover", "fresh"} => config = "none"
    /\ boot = "up" => config = "v2"
    /\ boot # "up" => Busy = {}

\* An edit that counts as alone is the only one, and the copies it has already
\* written are what it writes.
Alone ==
    \A e \in alone :
        /\ Busy = {e}
        /\ edit[e].pc \in {"index", "app"} => stored = edit[e].cfg /\ life = edit[e].cfg
        /\ edit[e].pc = "app" => index = edit[e].cfg

\* Whoever edits another server carries the kept value along.
Carried ==
    \A i \in Ids : kept[i].known =>
        /\ config = "v2"
        /\ \A e \in Busy : edit[e].id # i /\ edit[e].cfg[i] = kept[i].val

IInv == Shape /\ Booted /\ Alone /\ Carried /\ EditSurvives

-----------------------------------------------------------------------------
(* IdleEdit names a server, so there must be one.                          *)
LEMMA IdleEditType == Ids # {} => IdleEdit \in EditType /\ IdleEdit.pc = "idle"
  BY DEF IdleEdit, Empty, Configs, EditType

\* A first start, with or without a v2 configuration on disk.
LEMMA InitIInv == (Ids # {} /\ Init) => IInv
<1> SUFFICES ASSUME Ids # {}, Init PROVE IInv
  OBVIOUS
<1>2. Shape
  BY IdleEditType DEF Shape, Init, Empty, Configs, Nothing
<1>3. Busy = {}
  BY IdleEditType DEF Busy, Init
<1> QED BY <1>2, <1>3 DEF IInv, Booted, Alone, Carried, EditSurvives, Init, Nothing

-----------------------------------------------------------------------------
(* Loading copies the file, which holds every kept value, into the copies. *)
LEMMA LoadStep == IInv /\ Load => IInv'
<1> SUFFICES ASSUME IInv, Load PROVE IInv'
  OBVIOUS
<1> USE DEF IInv, Load
<1>1. Busy = {} /\ Busy' = Busy
  BY DEF Booted, Busy
<1>2. alone = {}
  BY <1>1 DEF Alone
<1>3. Shape' /\ Booted' /\ Alone'
  BY <1>1, <1>2 DEF Shape, Booted, Alone
<1>4. Carried' /\ EditSurvives'
  BY <1>1 DEF Carried, EditSurvives, Shape
<1> QED BY <1>3, <1>4

(* The cutover touches no copy, and nothing is kept while there is no v2   *)
(* configuration.                                                          *)
LEMMA CutoverDataStep == IInv /\ CutoverData => IInv'
<1> SUFFICES ASSUME IInv, CutoverData PROVE IInv'
  OBVIOUS
<1> USE DEF IInv, CutoverData, copies
<1>1. Busy = {} /\ Busy' = Busy
  BY DEF Booted, Busy
<1>2. Shape' /\ Booted' /\ Alone'
  BY <1>1 DEF Shape, Booted, Alone
<1>3. \A i \in Ids : ~kept[i].known
  BY DEF Booted, Carried
<1>4. Carried' /\ EditSurvives'
  BY <1>3 DEF Carried, EditSurvives
<1> QED BY <1>2, <1>4

(* The fresh configuration overwrites no kept value: it is made where      *)
(* there was no configuration, and then no edit was ever acknowledged.     *)
LEMMA CommitFreshStep == IInv /\ CommitFresh => IInv'
<1> SUFFICES ASSUME IInv, CommitFresh PROVE IInv'
  OBVIOUS
<1> USE DEF IInv, CommitFresh
<1>1. Busy = {} /\ Busy' = Busy
  BY DEF Booted, Busy
<1>2. alone = {}
  BY <1>1 DEF Alone
<1>3. Empty \in Configs
  BY DEF Empty, Configs
<1>4. Shape' /\ Booted' /\ Alone'
  BY <1>1, <1>2, <1>3 DEF Shape, Booted, Alone
<1>5. \A i \in Ids : ~kept[i].known
  BY DEF Booted, Carried
<1>6. Carried' /\ EditSurvives'
  BY <1>5 DEF Carried, EditSurvives
<1> QED BY <1>4, <1>6

(* A crash leaves the file, and the copies are not used until it is loaded.*)
LEMMA CrashStep == Ids # {} /\ IInv /\ Crash => IInv'
<1> SUFFICES ASSUME Ids # {}, IInv, Crash PROVE IInv'
  OBVIOUS
<1> USE DEF IInv, Crash
<1>1. Busy' = {}
  BY IdleEditType DEF Busy
<1>2. Empty \in Configs
  BY DEF Empty, Configs
<1>3. Shape'
  BY <1>2, IdleEditType DEF Shape
<1>4. Booted' /\ Alone'
  BY <1>1 DEF Booted, Alone
<1>5. Carried' /\ EditSurvives'
  BY <1>1 DEF Carried, EditSurvives
<1> QED BY <1>3, <1>4, <1>5

-----------------------------------------------------------------------------
(* The new edit reads the application's copy, which holds what is kept of  *)
(* every other server; what was kept of its own is no longer promised.     *)
LEMMA SubmitStep ==
    ASSUME IInv, NEW e \in Editors, NEW i \in Ids, NEW v \in Values \cup {Absent},
           Submit(e, i, v)
    PROVE  IInv'
<1> USE DEF IInv, Submit, diskVars, copies
<1> DEFINE c == [app EXCEPT ![i] = v]
           new == [pc |-> "save", id |-> i, cfg |-> c]
<1>1. c \in Configs /\ new \in EditType
  BY DEF Shape, Configs, EditType
<1>2. edit' \in [Editors -> EditType] /\ edit'[e] = new
      /\ \A f \in Editors \ {e} : edit'[f] = edit[f]
  BY <1>1 DEF Shape
<1>3. Busy' = Busy \cup {e}
  BY <1>2 DEF Busy
<1>4. kept' \in [Ids -> [val : Values \cup {Absent}, known : BOOLEAN]]
      /\ ~kept'[i].known /\ \A j \in Ids \ {i} : kept'[j] = kept[j]
  BY DEF Shape, Nothing
<1>5. Shape'
  BY <1>2, <1>4 DEF Shape
<1>6. Booted'
  BY DEF Booted
<1>7. Alone'
  BY <1>2, <1>3 DEF Alone
<1>8. EditSurvives'
  BY <1>4 DEF EditSurvives
<1>9. Carried'
  <2> SUFFICES ASSUME NEW j \in Ids, kept'[j].known
               PROVE  config' = "v2" /\ \A f \in Busy' : edit'[f].id # j
                                          /\ edit'[f].cfg[j] = kept'[j].val
    BY DEF Carried
  <2>1. j # i /\ kept'[j] = kept[j] /\ kept[j].known
    BY <1>4
  <2>2. c[j] = kept[j].val
    BY <2>1 DEF EditSurvives, Shape, Configs
  <2>3. edit'[e].id # j /\ edit'[e].cfg[j] = kept'[j].val
    BY <1>2, <2>1, <2>2
  <2>4. \A f \in Busy \ {e} : edit'[f].id # j /\ edit'[f].cfg[j] = kept'[j].val
    BY <1>2, <2>1 DEF Carried, Busy
  <2> QED BY <1>3, <2>1, <2>3, <2>4 DEF Carried
<1> QED BY <1>5, <1>6, <1>7, <1>8, <1>9

(* Writing the file and the lifecycle: the edit carries the kept values.   *)
LEMMA StateSaveStep ==
    ASSUME Ids # {}, IInv, NEW e \in Editors, StateSave(e)
    PROVE  IInv'
<1> USE DEF IInv, StateSave, WriteFile, diskVars
<1> DEFINE c == edit[e].cfg
<1>1. e \in Busy /\ c \in Configs /\ boot = "up"
  BY DEF Busy, Shape, EditType, Booted
<1>2. (stored' = stored /\ life' = life) \/ (stored' = c /\ life' = c)
  OBVIOUS
<1>3. EditSurvives'
  BY <1>1, <1>2 DEF EditSurvives, Carried
<1>4. CASE edit' = [edit EXCEPT ![e] = IdleEdit] /\ alone' = alone \ {e}
  <2>1. edit' \in [Editors -> EditType] /\ Busy' = Busy \ {e}
        /\ \A f \in Editors \ {e} : edit'[f] = edit[f]
    BY <1>4, IdleEditType DEF Shape, Busy
  <2>2. Shape'
    BY <1>1, <1>2, <1>4, <2>1 DEF Shape
  <2>3. Alone'
    BY <1>1, <1>4 DEF Alone
  <2>4. Booted' /\ Carried'
    BY <1>1, <2>1 DEF Booted, Carried, Busy
  <2> QED BY <1>3, <2>2, <2>3, <2>4
<1>5. CASE edit' = [edit EXCEPT ![e].pc = "index"] /\ stored' = c /\ life' = c /\ alone' = alone
  <2>1. edit' \in [Editors -> EditType] /\ edit'[e].pc = "index" /\ edit'[e].cfg = c
        /\ edit'[e].id = edit[e].id /\ \A f \in Editors \ {e} : edit'[f] = edit[f]
    BY <1>5 DEF Shape, EditType
  <2>2. Busy' = Busy
    BY <1>1, <2>1 DEF Busy
  <2>3. Shape'
    BY <1>1, <1>5, <2>1 DEF Shape
  <2>4. Alone'
    BY <1>1, <1>5, <2>1, <2>2 DEF Alone
  <2>5. Booted' /\ Carried'
    BY <1>1, <2>1, <2>2 DEF Booted, Carried, Busy
  <2> QED BY <1>3, <2>3, <2>4, <2>5
<1> QED BY <1>4, <1>5

(* The indexing service's copy.                                            *)
LEMMA IndexSetStep ==
    ASSUME IInv, NEW e \in Editors, IndexSet(e)
    PROVE  IInv'
<1> USE DEF IInv, IndexSet, diskVars
<1> DEFINE c == edit[e].cfg
<1>1. e \in Busy /\ c \in Configs /\ boot = "up"
  BY DEF Busy, Shape, EditType, Booted
<1>2. edit' \in [Editors -> EditType] /\ edit'[e].pc = "app" /\ edit'[e].cfg = c
      /\ edit'[e].id = edit[e].id /\ \A f \in Editors \ {e} : edit'[f] = edit[f]
  BY DEF Shape, EditType
<1>3. Busy' = Busy
  BY <1>1, <1>2 DEF Busy
<1>4. EditSurvives'
  BY <1>1 DEF EditSurvives, Carried
<1>5. Shape'
  BY <1>1, <1>2 DEF Shape
<1>6. Alone'
  BY <1>1, <1>2, <1>3 DEF Alone
<1>7. Booted' /\ Carried'
  BY <1>1, <1>2, <1>3 DEF Booted, Carried, Busy
<1> QED BY <1>4, <1>5, <1>6, <1>7

(* The acknowledgement: an edit that was alone has written every copy, and *)
(* any other promises nothing of its own server and carries the rest.      *)
LEMMA AppSetStep ==
    ASSUME Ids # {}, IInv, NEW e \in Editors, AppSet(e)
    PROVE  IInv'
<1> USE DEF IInv, AppSet, NewApp, diskVars
<1> DEFINE c == edit[e].cfg
           s == edit[e].id
<1>1. e \in Busy /\ c \in Configs /\ s \in Ids /\ boot = "up" /\ config = "v2"
  BY DEF Busy, Shape, EditType, Booted
<1>2. edit' \in [Editors -> EditType] /\ Busy' = Busy \ {e}
      /\ \A f \in Editors \ {e} : edit'[f] = edit[f]
  BY IdleEditType DEF Shape, Busy
<1>3. c[s] \in Values \cup {Absent}
  BY <1>1 DEF Configs
<1>4. kept' \in [Ids -> [val : Values \cup {Absent}, known : BOOLEAN]]
      /\ kept'[s] = (IF e \in alone THEN [val |-> c[s], known |-> TRUE] ELSE Nothing)
      /\ \A j \in Ids \ {s} : kept'[j] = kept[j]
  BY <1>1, <1>3 DEF Shape, Nothing
<1>5. Shape'
  BY <1>1, <1>2, <1>4 DEF Shape
<1>6. Alone'
  BY <1>1 DEF Alone
<1>7. Booted'
  BY <1>1 DEF Booted
<1>8. EditSurvives'
  <2> SUFFICES ASSUME NEW j \in Ids, kept'[j].known
               PROVE  /\ stored'[j] = kept'[j].val /\ life'[j] = kept'[j].val
                      /\ index'[j] = kept'[j].val /\ app'[j] = kept'[j].val
    BY DEF EditSurvives
  <2>1. CASE j = s
    BY <1>1, <1>4, <2>1 DEF Alone, Nothing
  <2>2. CASE j # s
    BY <1>1, <1>4, <2>2 DEF EditSurvives, Carried
  <2> QED BY <2>1, <2>2
<1>9. Carried'
  <2> SUFFICES ASSUME NEW j \in Ids, kept'[j].known
               PROVE  \A f \in Busy' : edit'[f].id # j /\ edit'[f].cfg[j] = kept'[j].val
    BY <1>1 DEF Carried
  <2>1. CASE j = s
    <3>1. e \in alone
      BY <1>4, <2>1 DEF Nothing
    <3> QED BY <1>2, <3>1 DEF Alone
  <2>2. CASE j # s
    BY <1>2, <1>4, <2>2 DEF Carried, Busy
  <2> QED BY <2>1, <2>2
<1> QED BY <1>5, <1>6, <1>7, <1>8, <1>9

-----------------------------------------------------------------------------
\* Every step keeps the invariant.
LEMMA NextIInv == Ids # {} /\ IInv /\ [Next]_vars => IInv'
<1> SUFFICES ASSUME Ids # {}, IInv, [Next]_vars PROVE IInv'
  OBVIOUS
<1>1. CASE Load \/ CutoverData \/ CommitFresh \/ Crash
  BY <1>1, LoadStep, CutoverDataStep, CommitFreshStep, CrashStep
<1>2. ASSUME NEW e \in Editors, SaveServer(e) \/ DeleteServer(e)
      PROVE  IInv'
  BY <1>2, SubmitStep DEF SaveServer, DeleteServer
<1>3. ASSUME NEW e \in Editors, StateSave(e) \/ IndexSet(e) \/ AppSet(e)
      PROVE  IInv'
  BY <1>3, StateSaveStep, IndexSetStep, AppSetStep
<1>4. CASE UNCHANGED vars
  BY <1>4 DEF vars, IInv, Shape, Booted, Alone, Carried, EditSurvives, Busy
<1> QED BY <1>1, <1>2, <1>3, <1>4 DEF Next

(* An acknowledged edit that no other edit overlapped stays in the file    *)
(* and, while the program is up, in every copy of the ServersConfig, until *)
(* its server is edited again: for any number of servers, editors, edits,  *)
(* failures and crashes (SaveServer and DeleteServer of V2App).            *)
THEOREM EditsSurvive == Spec => []EditSurvives
<1>1. Init => (Ids # {} => IInv)
  BY InitIInv
<1>2. (Ids # {} => IInv) /\ [Next]_vars => (Ids # {} => IInv)'
  BY NextIInv
<1>3. (Ids # {} => IInv) => EditSurvives
  BY DEF IInv, EditSurvives
<1> QED BY <1>1, <1>2, <1>3, PTL DEF Spec
=============================================================================

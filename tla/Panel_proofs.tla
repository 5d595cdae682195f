---------------------------- MODULE Panel_proofs -----------------------------
(***************************************************************************)
(* Proofs about Panel and about Toolbar, which extends it, for any         *)
(* directories, files and number of requests under way.  PanelInv is       *)
(* inductive however hasty the user is.  A user who waits for every answer *)
(* has one thing under way at a time, and with that PatientInv: what is    *)
(* known of the panel while it is under way.                               *)
(* The page with its toolbar (Toolbar) implements the panel; PageInv says  *)
(* that only a timer keeps what it has copied from being that of the panel.*)
(***************************************************************************)
EXTENDS Toolbar, TLAPS, NaturalsInduction, WellFoundedInduction, FiniteSetTheorems

Loads == [step : {"free", "sent", "read"}, dir : Dirs, refresh : BOOLEAN,
          name : Entries, then : {"none", "parent", "deleted"},
          child : Entries \cup {Root}, next : Entries, data : SUBSET Entries]
Tasks == [kind : {"none", "goto", "file", "directory", "rename", "delete"},
          step : {"none", "dialog", "sent", "answered"}, seen : Tables,
          names : SUBSET Entries, to : Entries, next : Entries, dir : Dirs,
          agreed : BOOLEAN, attached : BOOLEAN, ok : BOOLEAN]

\* A request the user has accepted: of an operation that has a dialog, for a name
\* that an entry of its kind can have.
Asked ==
    /\ task.step \in {"sent", "answered"} =>
         /\ task.kind \in {"file", "directory", "rename", "delete"}
         /\ task.kind # "delete" => task.to # Up
    /\ task.kind = "rename" => \E f \in Subs \cup Files : task.names = {f}
    /\ task.kind = "rename" /\ task.step \in {"sent", "answered"} /\ task.names \subseteq Files
         => task.to \in Files

\* A dialog for a new entry keeps its directory, one for a deletion its names.
SeenInDialog ==
    /\ task.kind \in {"file", "directory"} => task.dir = task.seen.dir
    /\ task.kind = "delete" => task.names \subseteq task.seen.names

\* No listing is empty: "..", or what nobody may remove.
DiskOK   == fs \in [Dirs -> SUBSET (Entries \ {Up})] /\ Fixed \subseteq fs[Root]
LoadsOK  ==
    /\ loads \in [Slots -> Loads]
    /\ \A l \in Slots : loads[l].step = "read" => loads[l].data # {}
TaskOK   == task \in Tasks /\ Asked /\ SeenInDialog
PanelOK  ==
    /\ shown \in Tables /\ current \in shown.names /\ selected \subseteq shown.names
    /\ Info \in [dirPath : Dirs, name : Entries, files : SUBSET Entries, isDir : BOOLEAN]
    /\ InfoOfDirOnDisplay

HistoryOK == changes \in 0..MaxChanges /\ alerted \in BOOLEAN

PanelInv == DiskOK /\ LoadsOK /\ TaskOK /\ PanelOK /\ HistoryOK

\* What waits for the user is the only thing under way.
OneAtATime ==
    /\ task # NoTask => \A l \in Slots : loads[l] = Free
    /\ \A k, l \in Slots : loads[k] # Free /\ loads[l] # Free => k = l
    /\ \A l \in Slots : loads[l].step = "free" => loads[l] = Free

\* The panel is as the dialog found it, up to the answer.
PanelAsSeen ==
    /\ task # NoTask => task.seen = shown /\ task.attached
    /\ task.kind = "rename" => task.names = {current}
    /\ task.step \in {"sent", "answered"} /\ task.kind = "delete" => task.to = current
    /\ \A l \in Slots : loads[l].then = "deleted" => loads[l].child = current
    /\ task.step \in {"sent", "answered"} /\ task.kind \in {"delete", "rename"} =>
           task.dir = shown.dir
    /\ task.step = "sent" /\ task.kind = "rename" => task.agreed = AlreadyExists(task.to)

Fresh == shown.names = Listing(shown.dir)

\* Unless others interfere, the directory on display exists, and the table is fresh, or
\* an error was shown, or one of both will be so: what follows an answer is a refresh or
\* an error, and what follows a refresh under way is a listing or an error.
FreshSoon ==
    /\ Exists(shown.dir)
    /\ \/ Fresh \/ alerted
       \/ task.step = "answered"
       \/ \E l \in Slots : loads[l].step \in {"sent", "read"} /\ loads[l].dir = shown.dir
    /\ \A l \in Slots : loads[l].step = "read" =>
           Exists(loads[l].dir) /\ loads[l].data = Listing(loads[l].dir)

PatientInv ==
    /\ PanelInv /\ OneAtATime /\ InfoMatchesPanel /\ PanelAsSeen
    /\ changes = 0 => FreshSoon

-----------------------------------------------------------------------------
(* Names are ordered: every set of names has a first and a last one.         *)

\* A set of naturals that is not empty has a least element.
LEMMA LeastExists ==
  ASSUME NEW S \in SUBSET Nat, S # {}
  PROVE  \E x \in S : \A y \in S : x <= y
<1>1. PICK x \in S : \A y \in S : <<y, x>> \notin OpToRel(<, Nat)
  <2>1. IsWellFoundedOn(OpToRel(<, Nat), Nat)
    BY NatLessThanWellFounded
  <2> HIDE DEF OpToRel
  <2> QED
    BY <2>1, WFMin
<1>2. \A y \in S : ~ (y < x)
  BY <1>1 DEF OpToRel
<1> QED
  BY <1>2

\* So Min chooses one.
LEMMA MinIn ==
  ASSUME NEW S \in SUBSET Nat, S # {}
  PROVE  Min(S) \in S
  BY LeastExists DEF Min

\* A finite one has a greatest element too.  Of the sets without, take a smallest:
\* it has more than one element, and without one of them it has a greatest.
LEMMA GreatestExists ==
  ASSUME NEW S \in SUBSET Nat, IsFiniteSet(S), S # {}
  PROVE  \E x \in S : \A y \in S : x >= y
<1> DEFINE Bad == {T \in SUBSET S : T # {} /\ ~ \E x \in T : \A y \in T : x >= y}
           Sizes == {Cardinality(T) : T \in Bad}
<1> SUFFICES ASSUME S \in Bad PROVE FALSE
  OBVIOUS
<1>1. \A T \in SUBSET S : IsFiniteSet(T) /\ Cardinality(T) \in Nat
  BY FS_Subset, FS_CardinalityType
<1>2. Sizes \in SUBSET Nat /\ Sizes # {}
  BY <1>1
<1>3. PICK T \in Bad : \A U \in Bad : Cardinality(T) <= Cardinality(U)
  <2>1. PICK n \in Sizes : \A k \in Sizes : n <= k
    <3> HIDE DEF Sizes
    <3> QED
      BY <1>2, LeastExists
  <2> HIDE DEF Bad
  <2> QED
    BY <2>1
<1>4. PICK x \in T : TRUE
  OBVIOUS
<1>5. T \ {x} # {}
  BY <1>4
<1>6. IsFiniteSet(T) /\ Cardinality(T \ {x}) = Cardinality(T) - 1 /\ Cardinality(T) \in Nat
  BY <1>1, <1>4, FS_RemoveElement
<1>7. T \ {x} \notin Bad
  <2> HIDE DEF Bad
  <2> QED
    BY <1>3, <1>6
<1>8. PICK m \in T \ {x} : \A y \in T \ {x} : m >= y
  BY <1>5, <1>7
<1>9. \A y \in T : IF m >= x THEN m >= y ELSE x >= y
  BY <1>4, <1>8
<1> QED
  BY <1>4, <1>9

\* So Max chooses one.
LEMMA MaxIn ==
  ASSUME NEW S \in SUBSET Nat, IsFiniteSet(S), S # {}
  PROVE  Max(S) \in S
  BY GreatestExists DEF Max

-----------------------------------------------------------------------------
(* Types. *)

\* What the names are, and what can be in a directory.
LEMMA Names ==
  /\ Dirs \subseteq Nat /\ Entries \subseteq Nat /\ IsFiniteSet(Entries)
  /\ Up \in Entries /\ Up \notin Subs \cup Files
  /\ Root \in Dirs /\ Root \notin Entries /\ Subs \subseteq Dirs
<1>1. IsFiniteSet(Subs \cup Files)
  BY PanelAssumption, FS_Union
<1>2. IsFiniteSet(Entries)
  BY <1>1, FS_AddElement DEF Entries
<1> QED
  BY <1>2, PanelAssumption DEF Dirs, Entries, Up

\* The fields of the record of a slot nobody uses, and of no task.
LEMMA Blank ==
  /\ Free \in Loads /\ Free.step = "free" /\ Free.then = "none"
  /\ NoTask \in Tasks /\ NoTask.kind = "none" /\ NoTask.step = "none"
  /\ ~NoTask.attached
  BY Names DEF Free, Loads, NoTask, Tasks, Tables, Up, Entries, Dirs

\* The first of a set of entries, the last, and the one at the place of another are
\* entries of the set.
LEMMA NeighbourIsEntry ==
  ASSUME NEW name, NEW names \in SUBSET Entries, NEW removed
  PROVE  NextCurrentName(name, names, removed) \in Entries
<1> DEFINE i == Cardinality({n \in names : n < name})
           rest == names \ removed
           atPlace == {n \in rest : Cardinality({m \in rest : m < n}) = i}
<1>1. IsFiniteSet(rest) /\ rest \in SUBSET Nat /\ atPlace \in SUBSET rest
  BY Names, FS_Subset
<1>2. rest # {} => Max(rest) \in rest
  <2> HIDE DEF rest
  <2> QED
    BY <1>1, MaxIn
<1>3. atPlace # {} => Min(atPlace) \in atPlace
  <2> HIDE DEF atPlace
  <2> QED
    BY <1>1, MinIn
<1>4. NextCurrentName(name, names, removed) =
        IF rest = {} THEN Up ELSE IF atPlace # {} THEN Min(atPlace) ELSE Max(rest)
  BY DEF NextCurrentName
<1>5. rest \subseteq Entries /\ Up \in Entries
  BY Names
<1> HIDE DEF i, rest, atPlace
<1> QED
  BY <1>1, <1>2, <1>3, <1>4, <1>5

\* After a directory has arrived the current file is one of it.
LEMMA CurrentOfTable ==
  ASSUME NEW load, NEW data \in SUBSET Entries, data # {}
  PROVE  CurrentAfter(load, data) \in data
<1>1. Min(data) \in data
  BY Names, MinIn
<1>2. FirstCurrent(data) \in data
  BY <1>1 DEF FirstCurrent
<1> QED
  BY <1>1, <1>2 DEF CurrentAfter

-----------------------------------------------------------------------------
(* What the actions are made of. *)

\* A table is put on display, or only another current file in it.
LEMMA Shows ==
  ASSUME NEW table \in Tables, NEW name \in table.names, SetCurrentFile(table, name),
         shown' = table, selected' \subseteq table.names
  PROVE  PanelOK'
<1>1. name \in Entries /\ table.dir \in Dirs /\ table.names \in SUBSET Entries
  BY DEF Tables
<1> QED
  BY <1>1 DEF SetCurrentFile, InfoOf, IsDir, PanelOK, InfoOfDirOnDisplay

\* What a free slot takes.
LEMMA Sends ==
  ASSUME LoadsOK, NEW request \in Loads, Send(request)
  PROVE  LoadsOK'
<1>1. PICK l \in Slots : loads' = [loads EXCEPT ![l] = [request EXCEPT !.step = "sent"]]
  BY DEF Send
<1>2. [request EXCEPT !.step = "sent"] \in Loads /\ [request EXCEPT !.step = "sent"].step = "sent"
  BY DEF Loads
<1> QED
  BY <1>1, <1>2 DEF LoadsOK

\* The requests for a directory.
LEMMA Requests ==
  /\ \A d \in Dirs : [Free EXCEPT !.dir = d] \in Loads
  /\ \A d \in Dirs : [Free EXCEPT !.then = "parent", !.child = d] \in Loads
  /\ PanelOK => \A name \in Entries : RefreshRequest(name) \in Loads
  /\ PanelOK => \A name, child, next \in Entries :
       [RefreshRequest(name) EXCEPT !.then = "deleted", !.child = child, !.next = next] \in Loads
<1>1. Free \in Loads
  BY Blank
<1>2. \A d \in Dirs : d \in Entries \cup {Root}
  BY DEF Dirs, Entries
<1>3. PanelOK => shown.dir \in Dirs
  BY DEF PanelOK, Tables
<1>4. PanelOK => \A name \in Entries : RefreshRequest(name) \in Loads
  BY <1>1, <1>3 DEF Loads, RefreshRequest
<1>5. ASSUME NEW r \in Loads, NEW child \in Entries, NEW next \in Entries
      PROVE  [r EXCEPT !.then = "deleted", !.child = child, !.next = next] \in Loads
  BY DEF Loads
<1> QED
  BY <1>1, <1>2, <1>4, <1>5 DEF Loads

\* A dialog opens.
LEMMA Asks ==
  ASSUME PanelOK, NEW kind \in {"goto", "file", "directory", "rename", "delete"},
         NEW names \in SUBSET shown.names, NEW dir \in Dirs, Ask(kind, names, dir),
         kind \in {"file", "directory"} => dir = shown.dir,
         kind = "rename" => \E f \in Subs \cup Files : names = {f}
  PROVE  TaskOK'
<1>1. task' = [NoTask EXCEPT !.kind = kind, !.step = "dialog", !.seen = shown,
                             !.names = names, !.dir = dir, !.attached = TRUE]
  BY DEF Ask
<1>2. NoTask \in Tasks /\ shown \in Tables /\ names \in SUBSET Entries
  BY Blank DEF PanelOK, Tables
<1>3. /\ task' \in Tasks /\ task'.kind = kind /\ task'.step = "dialog"
      /\ task'.seen = shown /\ task'.names = names /\ task'.dir = dir
  BY <1>1, <1>2 DEF Tasks
<1> QED
  BY <1>3 DEF TaskOK, Asked, SeenInDialog

\* No dialog, no request.
LEMMA Ends ==
  ASSUME task' = NoTask
  PROVE  TaskOK'
  BY Blank DEF TaskOK, Asked, SeenInDialog

\* Entries come and go; nothing removes what nobody may remove.
LEMMA DiskChanges ==
  ASSUME DiskOK, NEW d \in Dirs
  PROVE  /\ \A n \in Entries \ {Up} : fs' = Added(d, n) => DiskOK'
         /\ \A f \in Entries \ Fixed, n \in Entries \ {Up} :
              fs' = Renamed(d, f, n) /\ (f \in Dirs \/ n \in Files) => DiskOK'
         /\ \A names \in SUBSET Entries : fs' = Removed(d, names) => DiskOK'
<1>1. Files \cap Dirs = {} /\ Root \in Dirs /\ Root \notin Entries
  BY PanelAssumption, Names DEF Dirs
<1>2. ASSUME NEW n \in Entries \ {Up}, fs' = Added(d, n) PROVE DiskOK'
  BY <1>2 DEF Added, DiskOK
<1>3. ASSUME NEW f \in Entries \ Fixed, NEW n \in Entries \ {Up}, fs' = Renamed(d, f, n),
             f \in Dirs \/ n \in Files
      PROVE  DiskOK'
  <2>1. \A e \in Dirs : e = n => f \in Dirs
    BY <1>1, <1>3
  <2>2. \A e \in Dirs : fs'[e] = IF e = d THEN (fs[d] \ {f}) \cup {n}
                                 ELSE IF e = f THEN {}
                                 ELSE IF e = n THEN fs[f] ELSE fs[e]
    BY <1>3 DEF Renamed
  <2>3. \A e \in Dirs : fs'[e] \in SUBSET (Entries \ {Up})
    BY <2>1, <2>2 DEF DiskOK
  <2>4. Fixed \subseteq fs'[Root]
    BY <1>1, <2>2 DEF DiskOK
  <2>5. fs' = [e \in Dirs |-> fs'[e]]
    BY <1>3 DEF Renamed
  <2> QED
    BY <2>3, <2>4, <2>5 DEF DiskOK
<1>4. ASSUME NEW names \in SUBSET Entries, fs' = Removed(d, names) PROVE DiskOK'
  BY <1>1, <1>4, Names DEF Removed, DiskOK
<1> QED
  BY <1>2, <1>3, <1>4

-----------------------------------------------------------------------------
(* PanelInv is inductive. *)

\* The page opens at the root.
LEMMA InitPanelInv == Init => PanelInv
<1> SUFFICES ASSUME Init PROVE PanelInv
  OBVIOUS
<1>1. DiskOK
  <2>1. PICK sub \in [Subs -> SUBSET Files] :
          fs = [d \in Dirs |-> IF d = Root THEN Fixed
                               ELSE IF d \in Fixed THEN sub[d] ELSE {}]
    BY DEF Init
  <2>2. Fixed \subseteq Subs /\ Files \subseteq Entries \ {Up} /\ Subs \subseteq Entries \ {Up}
    BY PanelAssumption, Names DEF Entries
  <2>3. \A d \in Dirs : d # Root => d \in Subs
    BY DEF Dirs
  <2>4. \A d \in Dirs : fs[d] \in SUBSET (Entries \ {Up})
    BY <2>1, <2>2, <2>3
  <2> QED
    BY <2>1, <2>4, Names DEF DiskOK
<1>2. Listing(Root) \in SUBSET Entries /\ Listing(Root) # {}
  BY <1>1, PanelAssumption, Names DEF DiskOK, Listing
<1>3. shown = [dir |-> Root, names |-> Listing(Root)] /\ current = Min(shown.names)
      /\ selected = {} /\ Info = InfoOf(shown, current)
  BY DEF Init
<1>4. PanelOK
  <2>1. current \in shown.names
    BY <1>2, <1>3, Names, MinIn
  <2> QED
    BY <1>2, <1>3, <2>1, Names DEF PanelOK, Tables, InfoOf, IsDir, InfoOfDirOnDisplay
<1>5. LoadsOK
  BY Blank DEF Init, LoadsOK
<1>6. TaskOK
  BY Blank DEF Init, TaskOK, Asked, SeenInDialog
<1>7. HistoryOK
  <2>1. changes \in 0..MaxChanges
    BY PanelAssumption DEF Init
  <2>2. alerted \in BOOLEAN
    BY DEF Init
  <2> QED
    BY <2>1, <2>2 DEF HistoryOK
<1> QED
  BY <1>1, <1>4, <1>5, <1>6, <1>7 DEF PanelInv

\* What the user does to the panel and asks of the server.
LEMMA UserPanel ==
  ASSUME PanelInv, UserActs
  PROVE  PanelInv'
<1> USE DEF PanelInv, panel
<1>d. UNCHANGED fs => DiskOK'
  BY DEF DiskOK
<1>l. UNCHANGED loads => LoadsOK'
  BY DEF LoadsOK
<1>t. UNCHANGED task => TaskOK'
  BY DEF TaskOK, Asked, SeenInDialog
<1>p. UNCHANGED panel => PanelOK'
  BY DEF PanelOK, InfoOfDirOnDisplay
<1>c. UNCHANGED history => HistoryOK'
  BY DEF HistoryOK, history
<1>o. ASSUME NEW d \in Dirs, LoadDir(d), TaskOK' PROVE PanelInv'
  <2>1. LoadsOK'
    BY <1>o, Sends, Requests DEF LoadDir
  <2> QED
    BY <1>o, <2>1, <1>d, <1>p, <1>c DEF LoadDir
<1>n. \A n \in Subs \cup {Up} : Opened(n) \in Dirs
  BY Names DEF Opened
<1>s. shown.dir \in Dirs /\ Info.dirPath \in Dirs /\ Info.name \in Entries
      /\ shown.names \in SUBSET Entries /\ current \in Entries
  BY DEF PanelOK, Tables
<1>1. ASSUME NEW n \in Subs \cup Files \cup {Up}, SetCurrent(n) PROVE PanelInv'
  <2>1. PanelOK'
    BY <1>1, Shows DEF SetCurrent, PanelOK
  <2> QED
    BY <1>1, <2>1, <1>d, <1>l, <1>t, <1>c DEF SetCurrent
<1>2. ASSUME NEW n \in Subs \cup Files \cup {Up}, ToggleSelectedFile(n) PROVE PanelInv'
  <2>1. PanelOK'
    BY <1>2 DEF ToggleSelectedFile, PanelOK, InfoOfDirOnDisplay
  <2> QED
    BY <1>2, <2>1, <1>d, <1>l, <1>t, <1>c DEF ToggleSelectedFile
<1>3. CASE ToggleAllSelectedFiles
  <2>1. PanelOK'
    BY <1>3 DEF ToggleAllSelectedFiles, PanelOK, InfoOfDirOnDisplay
  <2> QED
    BY <1>3, <2>1, <1>d, <1>l, <1>t, <1>c DEF ToggleAllSelectedFiles
<1>4. CASE Enter
  BY <1>4, <1>n, <1>o, <1>t DEF Enter
<1>5. ASSUME NEW n \in Subs \cup {Up}, DblClick(n) PROVE PanelInv'
  BY <1>5, <1>n, <1>o, <1>t DEF DblClick
<1>6. ASSUME NEW d \in Dirs, Navigate(d) PROVE PanelInv'
  BY <1>6, <1>o, <1>t DEF Navigate
<1>7. ASSUME NEW d \in Dirs, GoToDirectory(d) PROVE PanelInv'
  BY <1>7, <1>o, Ends DEF GoToDirectory
<1>8. CASE PopState
  BY <1>8, <1>o, <1>t, Names DEF PopState
<1>9. CASE GoToParentDir
  <2>1. LoadsOK'
    BY <1>9, <1>s, Sends, Requests DEF GoToParentDir
  <2> QED
    BY <1>9, <2>1, <1>d, <1>t, <1>p, <1>c DEF GoToParentDir
<1>10. CASE Refresh
  <2>1. LoadsOK'
    BY <1>10, <1>s, Sends, Requests DEF Refresh
  <2> QED
    BY <1>10, <2>1, <1>d, <1>t, <1>p, <1>c DEF Refresh
<1>11. CASE PromptDirectory
  <2>1. TaskOK'
    BY <1>11, <1>s, Asks DEF PromptDirectory
  <2> QED
    BY <1>11, <2>1, <1>d, <1>l, <1>p, <1>c DEF PromptDirectory
<1>12. ASSUME NEW kind \in {"file", "directory"}, PromptNew(kind) PROVE PanelInv'
  <2>1. TaskOK'
    BY <1>12, <1>s, Asks DEF PromptNew
  <2> QED
    BY <1>12, <2>1, <1>d, <1>l, <1>p, <1>c DEF PromptNew
<1>13. CASE RenameCurrent
  <2>1. {current} \in SUBSET shown.names /\ current \in Subs \cup Files
    BY <1>13, <1>s DEF PanelOK, RenameCurrent, Entries
  <2>2. TaskOK'
    BY <1>13, <1>s, <2>1, Asks DEF RenameCurrent
  <2> QED
    BY <1>13, <2>2, <1>d, <1>l, <1>p, <1>c DEF RenameCurrent
<1>14. CASE PromptDelete
  <2>1. ActiveFiles \in SUBSET shown.names
    BY DEF PanelOK, ActiveFiles
  <2>2. TaskOK'
    BY <1>14, <1>s, <2>1, Asks DEF PromptDelete
  <2> QED
    BY <1>14, <2>2, <1>d, <1>l, <1>p, <1>c DEF PromptDelete
<1>15. CASE Cancel
  BY <1>15, Ends, <1>d, <1>l, <1>p, <1>c DEF Cancel
<1>16. ASSUME NEW to \in Subs \cup Files, AcceptNew(to) PROVE PanelInv'
  <2>1. to \in Entries /\ to # Up
    BY Names DEF Entries
  <2>2. TaskOK'
    BY <1>16, <2>1 DEF AcceptNew, DirOfNew, TaskOK, Tasks, Asked, SeenInDialog
  <2> QED
    BY <1>16, <2>2, <1>d, <1>l, <1>p, <1>c DEF AcceptNew
<1>17. ASSUME NEW to \in Subs \cup Files, AcceptRename(to) PROVE PanelInv'
  <2>1. to \in Entries /\ to # Up /\ AlreadyExists(to) \in BOOLEAN
    BY Names DEF Entries, AlreadyExists
  <2>2. TaskOK'
    <3>1. CASE to \in task.names
      BY <1>17, <3>1, Ends DEF AcceptRename
    <3>2. CASE to \notin task.names
      <4> DEFINE agreed == AlreadyExists(to)
      <4>1. task' = [task EXCEPT !.step = "sent", !.to = to, !.dir = shown.dir,
                                 !.agreed = agreed] /\ agreed \in BOOLEAN
        BY <1>17, <2>1, <3>2 DEF AcceptRename
      <4>2. task.kind = "rename" /\ (task.names \subseteq Files => to \in Files)
        BY <1>17 DEF AcceptRename
      <4> HIDE DEF agreed
      <4> QED
        BY <2>1, <4>1, <4>2, <1>s DEF TaskOK, Tasks, Asked, SeenInDialog
    <3> QED
      BY <3>1, <3>2
  <2> QED
    BY <1>17, <2>2, <1>d, <1>l, <1>p, <1>c DEF AcceptRename
<1>18. CASE AcceptDelete
  <2>1. TaskOK'
    <3>1. CASE ActiveFiles = {}
      BY <1>18, <3>1, Ends DEF AcceptDelete
    <3>2. CASE ActiveFiles # {}
      <4> DEFINE next == NextCurrentName(current, Info.files, task.names)
      <4>1. next \in Entries
        BY NeighbourIsEntry DEF PanelOK
      <4>2. task' = [task EXCEPT !.step = "sent", !.dir = Info.dirPath, !.names = task.names,
                                 !.to = current, !.next = next]
        BY <1>18, <3>2 DEF AcceptDelete
      <4>3. task.kind = "delete"
        BY <1>18 DEF AcceptDelete
      <4> HIDE DEF next
      <4> QED
        BY <4>1, <4>2, <4>3, <1>s DEF TaskOK, Tasks, Asked, SeenInDialog
    <3> QED
      BY <3>1, <3>2
  <2> QED
    BY <1>18, <2>1, <1>d, <1>l, <1>p, <1>c DEF AcceptDelete
<1> QED
  BY <1>1, <1>2, <1>3, <1>4, <1>5, <1>6, <1>7, <1>8, <1>9, <1>10, <1>11, <1>12, <1>13,
     <1>14, <1>15, <1>16, <1>17, <1>18 DEF UserActs

\* A directory is read, arrives, or does not.
LEMMA LoadPanel ==
  ASSUME PanelInv, NEW l \in Slots, ServerReads(l) \/ Render(l) \/ LoadFails(l)
  PROVE  PanelInv'
<1> USE DEF PanelInv, panel
<1>d. UNCHANGED fs => DiskOK'
  BY DEF DiskOK
<1>c. UNCHANGED history => HistoryOK'
  BY DEF HistoryOK, history
<1>t. UNCHANGED task => TaskOK'
  BY DEF TaskOK, Asked, SeenInDialog
<1>f. loads' = [loads EXCEPT ![l] = Free] => LoadsOK'
  BY Blank DEF LoadsOK
<1>1. CASE ServerReads(l)
  <2> DEFINE data == Listing(loads[l].dir)
  <2>1. loads[l] \in Loads /\ loads[l].dir \in Dirs
    BY DEF LoadsOK, Loads
  <2>2. data \in SUBSET Entries /\ data # {}
    BY <2>1, Names, PanelAssumption DEF Listing, DiskOK
  <2>3. LoadsOK'
    <3>1. loads' = [loads EXCEPT ![l].step = "read", ![l].data = data]
      BY <1>1 DEF ServerReads
    <3> HIDE DEF data
    <3> QED
      BY <2>1, <2>2, <3>1 DEF LoadsOK, Loads
  <2>4. PanelOK'
    BY <1>1 DEF ServerReads, PanelOK, InfoOfDirOnDisplay
  <2> QED
    BY <1>1, <2>3, <2>4, <1>d, <1>c, <1>t DEF ServerReads
<1>2. CASE Render(l)
  <2> DEFINE table == [dir |-> loads[l].dir, names |-> loads[l].data]
             name == CurrentAfter(loads[l], loads[l].data)
  <2>1. table \in Tables /\ loads[l].data # {}
    BY <1>2 DEF Render, LoadsOK, Loads, Tables
  <2>2. name \in table.names
    BY <2>1, CurrentOfTable DEF Tables
  <2>3. SetCurrentFile(table, name) /\ shown' = table /\ selected' \subseteq table.names
    BY <1>2 DEF Render
  <2>4. PanelOK'
    <3> HIDE DEF table, name
    <3> QED
      BY <2>1, <2>2, <2>3, Shows
  <2>5. TaskOK'
    BY <1>2 DEF Render, TaskOK, Tasks, Asked, SeenInDialog
  <2>6. HistoryOK'
    BY <1>2 DEF Render, HistoryOK
  <2> QED
    BY <1>2, <2>4, <2>5, <2>6, <1>d, <1>f DEF Render
<1>3. CASE LoadFails(l)
  <2>1. PanelOK'
    <3>1. CASE UNCHANGED <<current, Info>>
      BY <1>3, <3>1 DEF LoadFails, PanelOK, InfoOfDirOnDisplay
    <3>2. CASE SetCurrentFile(shown, CurrentAfter(loads[l], shown.names))
      <4>1. shown \in Tables /\ shown.names \in SUBSET Entries /\ shown.names # {}
        BY DEF PanelOK, Tables
      <4>2. CurrentAfter(loads[l], shown.names) \in shown.names
        BY <4>1, CurrentOfTable
      <4>3. shown' = shown /\ selected' \subseteq shown.names
        BY <1>3 DEF LoadFails, PanelOK
      <4> QED
        BY <3>2, <4>1, <4>2, <4>3, Shows
    <3> QED
      BY <1>3, <3>1, <3>2 DEF LoadFails
  <2>2. HistoryOK'
    BY <1>3 DEF LoadFails, HistoryOK
  <2> QED
    BY <1>3, <2>1, <2>2, <1>d, <1>f, <1>t DEF LoadFails
<1> QED
  BY <1>1, <1>2, <1>3

\* A request is carried out and answered, or others change something.
LEMMA ServerPanel ==
  ASSUME PanelInv,
         \/ ServerActs \/ CreatedThenRefresh \/ RenamedThenRefresh \/ RenameFails
         \/ DeletedThenRefresh \/ OthersChange
  PROVE  PanelInv'
<1> USE DEF PanelInv, panel
<1>d. UNCHANGED fs => DiskOK'
  BY DEF DiskOK
<1>l. UNCHANGED loads => LoadsOK'
  BY DEF LoadsOK
<1>p. UNCHANGED panel => PanelOK'
  BY DEF PanelOK, InfoOfDirOnDisplay
<1>c. UNCHANGED history => HistoryOK'
  BY DEF HistoryOK, history
<1>s. /\ Info.name \in Entries /\ task.to \in Entries /\ task.next \in Entries
      /\ task.dir \in Dirs /\ task.names \in SUBSET Entries
  BY DEF PanelOK, TaskOK, Tasks
<1>1. CASE ServerActs
  <2> DEFINE from == CHOOSE n \in task.names : TRUE
  <2>1. PICK ok \in BOOLEAN : task' = [task EXCEPT !.step = "answered", !.ok = ok]
    BY <1>1 DEF ServerActs
  <2>2. task.step = "sent"
    BY <1>1 DEF ServerActs
  <2>3. TaskOK'
    BY <2>1, <2>2 DEF TaskOK, Tasks, Asked, SeenInDialog
  <2>4. task.kind = "rename" => from \in Entries /\ (from \in Dirs \/ task.to \in Files)
    <3>1. ASSUME NEW f \in Subs \cup Files, task.names = {f} PROVE from = f
      BY <3>1
    <3> QED
      BY <2>2, <3>1 DEF TaskOK, Asked, Dirs, Entries
  <2>5. task.kind # "delete" => task.to \in Entries \ {Up}
    BY <1>s, <2>2 DEF TaskOK, Asked
  <2>6. \/ UNCHANGED fs
        \/ \E done \in SUBSET task.names : fs' = Removed(task.dir, done)
        \/ /\ task.kind = "rename" /\ from \notin Fixed
           /\ fs' = Renamed(task.dir, from, task.to)
        \/ task.kind # "delete" /\ fs' = Added(task.dir, task.to)
    BY <1>1 DEF ServerActs, MayRename
  <2>7. DiskOK'
    <3> HIDE DEF from
    <3>1. \A done \in SUBSET task.names : done \in SUBSET Entries
      BY <1>s
    <3> QED
      BY <1>s, <1>d, <2>4, <2>5, <2>6, <3>1, DiskChanges
  <2> QED
    BY <1>1, <2>3, <2>7, <1>l, <1>p, <1>c DEF ServerActs
<1>2. CASE CreatedThenRefresh
  <2>1. LoadsOK'
    BY <1>2, <1>s, Sends, Requests DEF CreatedThenRefresh
  <2> QED
    BY <1>2, <2>1, Ends, <1>d, <1>p, <1>c DEF CreatedThenRefresh
<1>3. CASE RenamedThenRefresh
  <2> DEFINE from == CHOOSE n \in task.names : TRUE
             put(S) == IF from \in S THEN (S \ {from}) \cup {task.to} ELSE S
  <2>1. LoadsOK'
    BY <1>3, <1>s, Sends, Requests DEF RenamedThenRefresh
  <2>2. /\ IF task.attached
             THEN /\ shown' = [shown EXCEPT !.names = put(@)]
                  /\ current' = IF current = from THEN task.to ELSE current
                  /\ selected' = put(selected)
             ELSE UNCHANGED <<shown, current, selected>>
        /\ Info' = [dirPath |-> shown.dir, name |-> task.to, files |-> put(task.seen.names),
                    isDir |-> IsDir(current')]
    BY <1>3 DEF RenamedThenRefresh
  <2>3. \A S \in SUBSET Entries : put(S) \in SUBSET Entries
    BY <1>s
  <2>4. shown' \in Tables /\ shown'.dir = shown.dir
    <3> HIDE DEF put
    <3> QED
      BY <2>2, <2>3 DEF PanelOK, Tables
  <2>5. Info' \in [dirPath : Dirs, name : Entries, files : SUBSET Entries, isDir : BOOLEAN]
        /\ Info'.dirPath = shown.dir /\ Info'.isDir = IsDir(current')
    <3>1. put(task.seen.names) \in SUBSET Entries /\ shown.dir \in Dirs
      BY <2>3 DEF TaskOK, Tasks, Tables, PanelOK
    <3> HIDE DEF put
    <3> QED
      BY <1>s, <2>2, <3>1 DEF IsDir
  <2>6. current' \in shown'.names /\ selected' \subseteq shown'.names
    <3>1. shown' = shown \/ shown'.names = put(shown.names)
      <4> HIDE DEF put
      <4> QED
        BY <2>2 DEF PanelOK, Tables
    <3>2. CASE ~task.attached
      BY <2>2, <3>2 DEF PanelOK
    <3>3. CASE task.attached
      <4>1. shown'.names = put(shown.names)
        <5> HIDE DEF put
        <5> QED
          BY <2>2, <3>3 DEF PanelOK, Tables
      <4>2. current' = (IF current = from THEN task.to ELSE current) /\ selected' = put(selected)
        BY <2>2, <3>3
      <4> HIDE DEF from
      <4> QED
        BY <4>1, <4>2 DEF PanelOK
    <3> QED
      BY <3>2, <3>3
  <2>7. PanelOK'
    BY <2>4, <2>5, <2>6 DEF PanelOK, IsDir, InfoOfDirOnDisplay
  <2> QED
    BY <1>3, <2>1, <2>7, Ends, <1>d, <1>c DEF RenamedThenRefresh
<1>4. CASE RenameFails
  <2>1. HistoryOK'
    BY <1>4 DEF RenameFails, HistoryOK
  <2> QED
    BY <1>4, <2>1, Ends, <1>d, <1>l, <1>p DEF RenameFails
<1>5. CASE DeletedThenRefresh
  <2>1. LoadsOK'
    BY <1>5, <1>s, Sends, Requests DEF DeletedThenRefresh
  <2> QED
    BY <1>5, <2>1, Ends, <1>d, <1>p, <1>c DEF DeletedThenRefresh
<1>6. CASE OthersChange
  <2>1. PICK d \in Dirs, f \in Files : fs' \in {Added(d, f), Removed(d, {f})}
    BY <1>6 DEF OthersChange
  <2>2. f \in Entries \ {Up}
    BY Names DEF Entries
  <2>3. DiskOK'
    BY <2>1, <2>2, DiskChanges
  <2>4. HistoryOK'
    BY <1>6, PanelAssumption DEF OthersChange, HistoryOK
  <2>5. TaskOK'
    BY <1>6 DEF OthersChange, TaskOK, Asked, SeenInDialog
  <2> QED
    BY <1>6, <2>3, <2>4, <2>5, <1>l, <1>p DEF OthersChange
<1> QED
  BY <1>1, <1>2, <1>3, <1>4, <1>5, <1>6

\* Every step preserves PanelInv.
LEMMA NextPanelInv == PanelInv /\ [Next]_vars => PanelInv'
<1> SUFFICES ASSUME PanelInv, [Next]_vars PROVE PanelInv'
  OBVIOUS
<1>1. CASE UNCHANGED vars
  BY <1>1 DEF vars, PanelInv, DiskOK, LoadsOK, TaskOK, Asked, SeenInDialog, PanelOK,
              InfoOfDirOnDisplay, HistoryOK
<1>2. CASE Next
  BY <1>2, UserPanel, LoadPanel, ServerPanel DEF Next
<1> QED
  BY <1>1, <1>2

\* The parts of PanelInv are the types, and what two runs check of the hasty user.
LEMMA PanelInvImplies ==
  PanelInv => PanelTypeOK /\ InfoOfDirOnDisplay /\ ActsOnWhatWasSeen
<1> SUFFICES ASSUME PanelInv PROVE PanelTypeOK /\ InfoOfDirOnDisplay /\ ActsOnWhatWasSeen
  OBVIOUS
<1>1. PanelTypeOK
  BY DEF PanelInv, DiskOK, LoadsOK, TaskOK, PanelOK, HistoryOK, Loads, Tasks, PanelTypeOK
<1>2. ActsOnWhatWasSeen
  BY DEF PanelInv, TaskOK, SeenInDialog, ActsOnWhatWasSeen
<1> QED
  BY <1>1, <1>2 DEF PanelInv, PanelOK

\* The current file is always an entry of the table on display.
THEOREM PanelTypeCorrect == Spec => []PanelTypeOK
  BY InitPanelInv, NextPanelInv, PanelInvImplies, PTL DEF Spec

\* However many answers race with a user who waits for none of them, CurrentInfo has
\* the directory of the table on display.
THEOREM InfoFollowsTable == Spec => []InfoOfDirOnDisplay
  BY InitPanelInv, NextPanelInv, PanelInvImplies, PTL DEF Spec

\* A new entry is created where the dialog was opened, and only names that were on
\* display then are deleted, whatever arrives during the dialog.
THEOREM ActsOnSeen == Spec => []ActsOnWhatWasSeen
  BY InitPanelInv, NextPanelInv, PanelInvImplies, PTL DEF Spec

-----------------------------------------------------------------------------
(* A user who waits: PatientInv is inductive. *)

\* Nothing is attached to no task.
LEMMA NothingToDetach == [NoTask EXCEPT !.attached = FALSE] = NoTask
<1>1. \A t \in Tasks : ~t.attached => [t EXCEPT !.attached = FALSE] = t
  BY DEF Tasks
<1> QED
  BY <1>1, Blank

\* No refresh is under way, nor to follow: the table is fresh, or an error was shown.
LEMMA Quiet ==
  ASSUME PatientInv, \A l \in Slots : loads[l] = Free, changes = 0, task.step # "answered"
  PROVE  Exists(shown.dir) /\ (Fresh \/ alerted)
  BY Blank DEF PatientInv, FreshSoon

\* The tables on the server are what they were.
LEMMA SameTables ==
  ASSUME UNCHANGED <<fs, shown>>
  PROVE  /\ \A d : Exists(d)' = Exists(d) /\ Listing(d)' = Listing(d)
         /\ Fresh' = Fresh
  BY DEF Exists, Listing, Fresh

\* Nothing is under way any more.
LEMMA ComesToRest ==
  ASSUME PanelInv', InfoMatchesPanel', task' = NoTask, \A l \in Slots : loads'[l] = Free,
         changes' = 0 => Exists(shown.dir)' /\ (Fresh' \/ alerted')
  PROVE  PatientInv'
  BY Blank DEF PatientInv, OneAtATime, PanelAsSeen, FreshSoon

\* A request for a directory is the only thing under way.
LEMMA SendsOne ==
  ASSUME PanelInv', InfoMatchesPanel', task' = NoTask, loads \in [Slots -> Loads],
         \A l \in Slots : loads[l] = Free, NEW request \in Loads, Send(request),
         request.then = "deleted" => request.child = current',
         changes' = 0 => Exists(shown.dir)' /\ (Fresh' \/ alerted' \/ request.dir = shown'.dir)
  PROVE  PatientInv'
<1> DEFINE sent == [request EXCEPT !.step = "sent"]
<1>1. PICK l \in Slots : loads' = [loads EXCEPT ![l] = sent]
  BY DEF Send
<1>2. /\ sent.step = "sent" /\ sent.then = request.then
      /\ sent.child = request.child /\ sent.dir = request.dir
  BY DEF Loads
<1> HIDE DEF sent
<1>3. loads'[l] = sent /\ \A k \in Slots \ {l} : loads'[k] = Free
  BY <1>1
<1>4. OneAtATime'
  BY <1>2, <1>3, Blank DEF OneAtATime
<1>5. PanelAsSeen'
  BY <1>2, <1>3, Blank DEF PanelAsSeen
<1>6. changes' = 0 => FreshSoon'
  BY <1>2, <1>3, Blank DEF FreshSoon
<1> QED
  BY <1>4, <1>5, <1>6 DEF PatientInv

\* A dialog is opened over a panel at rest.
LEMMA AsksOne ==
  ASSUME PatientInv, PanelInv', Idle, UNCHANGED <<fs, panel, loads, history>>,
         NEW kind, NEW names, NEW dir, Ask(kind, names, dir),
         kind = "rename" => names = {current}
  PROVE  PatientInv'
<1>0. NoTask \in Tasks
  BY Blank
<1>1. /\ task'.kind = kind /\ task'.step = "dialog" /\ task'.seen = shown
      /\ task'.names = names /\ task'.attached
  BY <1>0 DEF Ask, Tasks
<1>2. \A l \in Slots : loads'[l] = Free
  BY DEF Idle
<1>3. OneAtATime' /\ InfoMatchesPanel'
  BY <1>2 DEF OneAtATime, InfoMatchesPanel, PatientInv, panel
<1>4. PanelAsSeen'
  BY <1>1, <1>2, Blank DEF PanelAsSeen, panel
<1>5. changes' = 0 => FreshSoon'
  <2> SUFFICES ASSUME changes' = 0 PROVE FreshSoon'
    OBVIOUS
  <2>1. Exists(shown.dir) /\ (Fresh \/ alerted)
    BY Quiet, Blank DEF Idle, history
  <2> QED
    BY <1>2, <2>1, SameTables, Blank DEF FreshSoon, panel, history
<1> QED
  BY <1>3, <1>4, <1>5 DEF PatientInv

\* The dialog is answered: nothing but the task goes on.
LEMMA Accepts ==
  ASSUME PatientInv, PanelInv', UNCHANGED <<fs, panel, loads, history>>,
         task.step = "dialog", task'.step = "sent",
         task'.kind = task.kind, task'.seen = task.seen, task'.names = task.names,
         task'.attached = task.attached,
         task.kind = "delete" => task'.to = current /\ task'.dir = shown.dir,
         task.kind = "rename" => task'.dir = shown.dir /\ task'.agreed = AlreadyExists(task'.to)
  PROVE  PatientInv'
<1>1. task # NoTask /\ \A l \in Slots : loads[l] = Free
  BY Blank DEF PatientInv, OneAtATime
<1>2. OneAtATime' /\ InfoMatchesPanel'
  BY <1>1, Blank DEF OneAtATime, InfoMatchesPanel, PatientInv, panel
<1>3. AlreadyExists(task'.to) = AlreadyExists(task.to)'
  BY DEF AlreadyExists, panel
<1>4. PanelAsSeen'
  BY <1>1, <1>3 DEF PatientInv, PanelAsSeen, panel
<1>5. changes' = 0 => FreshSoon'
  <2> SUFFICES ASSUME changes' = 0 PROVE FreshSoon'
    OBVIOUS
  <2>1. Exists(shown.dir) /\ (Fresh \/ alerted)
    BY <1>1, Quiet DEF history
  <2> QED
    BY <1>1, <2>1, SameTables, Blank DEF FreshSoon, panel, history
<1> QED
  BY <1>2, <1>4, <1>5 DEF PatientInv

\* The user acts when nothing is under way, or answers the dialog.
LEMMA UserPatient ==
  ASSUME Patient, PatientInv, UserActs
  PROVE  PatientInv'
<1>p. PanelInv'
  BY UserPanel DEF PatientInv
<1>i. Idle => /\ \A l \in Slots : loads[l] = Free
              /\ task = NoTask /\ task.step = "none"
  BY Blank DEF Idle
<1>a. MayAct => Idle
  BY DEF MayAct
<1>t. loads \in [Slots -> Loads] /\ task \in Tasks
  BY DEF PatientInv, PanelInv, LoadsOK, TaskOK
<1>m. UNCHANGED panel => InfoMatchesPanel'
  BY DEF InfoMatchesPanel, PatientInv, panel
\* A selection, or another current file.
<1>s. ASSUME Idle, InfoMatchesPanel', UNCHANGED <<fs, shown, loads, task, history>>
      PROVE  PatientInv'
  BY <1>s, <1>p, <1>i, Quiet, ComesToRest, SameTables DEF history
\* A directory is asked for.
<1>o. ASSUME NEW d \in Dirs, LoadDir(d), task' = NoTask, \A l \in Slots : loads[l] = Free,
             task.step # "answered"
      PROVE  PatientInv'
  <2>1. [Free EXCEPT !.dir = d] \in Loads /\ [Free EXCEPT !.dir = d].then = "none"
    BY Blank, Requests DEF Loads
  <2>2. Send([Free EXCEPT !.dir = d]) /\ UNCHANGED <<fs, panel, history>>
    BY <1>o DEF LoadDir
  <2>3. changes' = 0 => Exists(shown.dir)' /\ (Fresh' \/ alerted')
    BY <1>o, <2>2, Quiet, SameTables DEF panel, history
  <2> HIDE DEF Free
  <2> QED
    BY <1>o, <1>p, <1>t, <1>m, <2>1, <2>2, <2>3, SendsOne
<1>n. \A n \in Subs \cup {Up} : Opened(n) \in Dirs
  BY Names DEF Opened
<1>1. ASSUME NEW n \in Subs \cup Files \cup {Up}, SetCurrent(n) PROVE PatientInv'
  <2>1. InfoMatchesPanel'
    BY <1>1 DEF SetCurrent, SetCurrentFile, InfoMatchesPanel
  <2> QED
    BY <1>1, <1>a, <1>s, <2>1 DEF SetCurrent
<1>2. ASSUME NEW n \in Subs \cup Files \cup {Up}, ToggleSelectedFile(n) PROVE PatientInv'
  <2>1. InfoMatchesPanel'
    BY <1>2 DEF ToggleSelectedFile, InfoMatchesPanel, PatientInv
  <2> QED
    BY <1>2, <1>a, <1>s, <2>1 DEF ToggleSelectedFile
<1>3. CASE ToggleAllSelectedFiles
  <2>1. InfoMatchesPanel'
    BY <1>3 DEF ToggleAllSelectedFiles, InfoMatchesPanel, PatientInv
  <2> QED
    BY <1>3, <1>a, <1>s, <2>1 DEF ToggleAllSelectedFiles
<1>4. CASE Enter
  BY <1>4, <1>n, <1>o, <1>i, <1>a DEF Enter
<1>5. ASSUME NEW n \in Subs \cup {Up}, DblClick(n) PROVE PatientInv'
  BY <1>5, <1>n, <1>o, <1>i, <1>a DEF DblClick
<1>6. ASSUME NEW d \in Dirs, Navigate(d) PROVE PatientInv'
  BY <1>6, <1>o, <1>i, <1>a DEF Navigate
<1>7. ASSUME NEW d \in Dirs, GoToDirectory(d) PROVE PatientInv'
  <2>1. \A l \in Slots : loads[l] = Free
    BY <1>7, Blank DEF GoToDirectory, PatientInv, OneAtATime
  <2> QED
    BY <1>7, <2>1, <1>o DEF GoToDirectory
<1>8. CASE PopState
  BY <1>8, <1>o, <1>i, Names DEF PopState
<1>9. CASE GoToParentDir
  <2> DEFINE request == [Free EXCEPT !.then = "parent", !.child = Info.dirPath]
  <2>1. request \in Loads /\ request.then = "parent"
    BY Blank, Requests DEF PatientInv, PanelInv, PanelOK, Loads
  <2>2. Send(request) /\ UNCHANGED <<fs, panel, task, history>> /\ Idle
    BY <1>9, <1>a DEF GoToParentDir
  <2>3. changes' = 0 => Exists(shown.dir)' /\ (Fresh' \/ alerted')
    BY <1>i, <2>2, Quiet, SameTables DEF panel, history
  <2> HIDE DEF request
  <2> QED
    BY <1>p, <1>t, <1>m, <1>i, <2>1, <2>2, <2>3, SendsOne
<1>10. CASE Refresh
  <2> DEFINE request == RefreshRequest(Info.name)
  <2>1. request \in Loads /\ request.then = "none"
    <3>1. request \in Loads
      BY Requests DEF PatientInv, PanelInv, PanelOK
    <3>2. Free \in Loads /\ Free.then = "none"
      BY Blank
    <3> QED
      BY <3>1, <3>2 DEF RefreshRequest, Loads
  <2>2. Send(request) /\ UNCHANGED <<fs, panel, task, history>> /\ Idle
    BY <1>10, <1>a DEF Refresh
  <2>3. changes' = 0 => Exists(shown.dir)' /\ (Fresh' \/ alerted')
    BY <1>i, <2>2, Quiet, SameTables DEF panel, history
  <2> HIDE DEF request
  <2> QED
    BY <1>p, <1>t, <1>m, <1>i, <2>1, <2>2, <2>3, SendsOne
<1>11. CASE PromptDirectory
  BY <1>11, <1>p, <1>a, AsksOne DEF PromptDirectory
<1>12. ASSUME NEW kind \in {"file", "directory"}, PromptNew(kind) PROVE PatientInv'
  BY <1>12, <1>p, <1>a, AsksOne DEF PromptNew
<1>13. CASE RenameCurrent
  BY <1>13, <1>p, <1>a, AsksOne DEF RenameCurrent
<1>14. CASE PromptDelete
  BY <1>14, <1>p, <1>a, AsksOne DEF PromptDelete
\* A dialog that is closed.
<1>e. ASSUME task.step = "dialog", task' = NoTask, UNCHANGED <<fs, panel, loads, history>>
      PROVE  PatientInv'
  <2>1. \A l \in Slots : loads[l] = Free
    BY <1>e, Blank DEF PatientInv, OneAtATime
  <2>2. changes' = 0 => Exists(shown.dir)' /\ (Fresh' \/ alerted')
    BY <1>e, <2>1, Quiet, SameTables DEF panel, history
  <2> QED
    BY <1>e, <1>p, <1>m, <2>1, <2>2, ComesToRest
<1>15. CASE Cancel
  BY <1>15, <1>e DEF Cancel
<1>16. ASSUME NEW to \in Subs \cup Files, AcceptNew(to) PROVE PatientInv'
  <2>1. /\ task'.step = "sent" /\ task'.kind = task.kind /\ task'.seen = task.seen
        /\ task'.names = task.names /\ task'.attached = task.attached
        /\ task.kind \in {"file", "directory"} /\ task.step = "dialog"
    BY <1>16, <1>t DEF AcceptNew, Tasks
  <2> QED
    BY <1>16, <1>p, <2>1, Accepts DEF AcceptNew
<1>17. ASSUME NEW to \in Subs \cup Files, AcceptRename(to) PROVE PatientInv'
  <2>1. CASE to \in task.names
    BY <1>17, <2>1, <1>e DEF AcceptRename
  <2>2. CASE to \notin task.names
    <3> DEFINE agreed == AlreadyExists(to)
    <3>1. task' = [task EXCEPT !.step = "sent", !.to = to, !.dir = shown.dir,
                               !.agreed = agreed]
      BY <1>17, <2>2 DEF AcceptRename
    <3>2. /\ task'.step = "sent" /\ task'.kind = task.kind /\ task'.seen = task.seen
          /\ task'.names = task.names /\ task'.attached = task.attached
          /\ task'.dir = shown.dir /\ task'.to = to /\ task'.agreed = agreed
      <4> HIDE DEF agreed
      <4> QED
        BY <3>1, <1>t DEF Tasks
    <3>3. task.kind = "rename" /\ task.step = "dialog"
      BY <1>17 DEF AcceptRename
    <3> QED
      BY <1>17, <1>p, <3>2, <3>3, Accepts DEF AcceptRename
  <2> QED
    BY <2>1, <2>2
<1>18. CASE AcceptDelete
  <2>1. CASE ActiveFiles = {}
    BY <1>18, <2>1, <1>e DEF AcceptDelete
  <2>2. CASE ActiveFiles # {}
    <3> DEFINE next == NextCurrentName(current, Info.files, task.names)
    <3>1. task' = [task EXCEPT !.step = "sent", !.dir = Info.dirPath, !.names = task.names,
                               !.to = current, !.next = next]
      BY <1>18, <2>2 DEF AcceptDelete
    <3>2. Info.dirPath = shown.dir
      BY DEF PatientInv, InfoMatchesPanel, InfoOf
    <3>3. /\ task'.step = "sent" /\ task'.kind = task.kind /\ task'.seen = task.seen
          /\ task'.names = task.names /\ task'.attached = task.attached
          /\ task'.dir = shown.dir /\ task'.to = current
      <4> HIDE DEF next
      <4> QED
        BY <3>1, <3>2, <1>t DEF Tasks
    <3>4. task.kind = "delete" /\ task.step = "dialog"
      BY <1>18 DEF AcceptDelete
    <3> QED
      BY <1>18, <1>p, <3>3, <3>4, Accepts DEF AcceptDelete
  <2> QED
    BY <2>1, <2>2
<1> QED
  BY <1>1, <1>2, <1>3, <1>4, <1>5, <1>6, <1>7, <1>8, <1>9, <1>10, <1>11, <1>12, <1>13,
     <1>14, <1>15, <1>16, <1>17, <1>18 DEF UserActs

\* A directory is read and shown while there is no task.
LEMMA LoadPatient ==
  ASSUME PatientInv, NEW l \in Slots, ServerReads(l) \/ Render(l) \/ LoadFails(l)
  PROVE  PatientInv'
<1>p. PanelInv'
  BY LoadPanel DEF PatientInv
<1>t. loads \in [Slots -> Loads] /\ loads[l] \in Loads
  BY DEF PatientInv, PanelInv, LoadsOK
<1>o. task = NoTask /\ \A k \in Slots \ {l} : loads[k] = Free
  <2>1. loads[l] # Free
    BY Blank DEF ServerReads, Render, LoadFails
  <2> QED
    BY <2>1 DEF PatientInv, OneAtATime
<1>1. CASE ServerReads(l)
  <2> DEFINE data == Listing(loads[l].dir)
  <2>u. UNCHANGED <<fs, panel, task, history>> /\ Exists(loads[l].dir)
    BY <1>1 DEF ServerReads
  <2>0. \A k \in Slots \ {l} : loads'[k] = Free
    BY <1>1, <1>o, <1>t DEF ServerReads
  <2>1. /\ loads'[l].dir = loads[l].dir /\ loads'[l].then = loads[l].then
        /\ loads'[l].child = loads[l].child
        /\ loads'[l].step = "read" /\ loads'[l].data = data
    <3>1. loads' = [loads EXCEPT ![l].step = "read", ![l].data = data]
      BY <1>1 DEF ServerReads
    <3> HIDE DEF data
    <3> QED
      BY <1>t, <3>1 DEF Loads
  <2> HIDE DEF data
  <2>2. InfoMatchesPanel'
    BY <2>u DEF InfoMatchesPanel, PatientInv, panel
  <2>3. OneAtATime'
    BY <1>o, <2>0, <2>1, <2>u, Blank DEF OneAtATime
  <2>4. PanelAsSeen'
    BY <1>o, <2>0, <2>1, <2>u, Blank DEF PanelAsSeen, PatientInv, panel
  <2>5. changes' = 0 => FreshSoon'
    <3> SUFFICES ASSUME changes' = 0 PROVE FreshSoon'
      OBVIOUS
    <3>1. FreshSoon
      BY <2>u DEF PatientInv, history
    <3>2. /\ \A d : Exists(d)' = Exists(d) /\ Listing(d)' = Listing(d)
          /\ Fresh' = Fresh /\ Exists(shown.dir)' = Exists(shown.dir)
      BY <2>u, SameTables DEF panel
    <3>3. \A k \in Slots : loads'[k].step = "read" =>
              k = l /\ Exists(loads[k].dir)' /\ loads'[k].data = Listing(loads[k].dir)'
      <4>1. \A k \in Slots : loads'[k].step = "read" => k = l
        BY <2>0, Blank
      <4>2. Exists(loads[l].dir)' /\ loads'[l].data = Listing(loads[l].dir)'
        BY <2>u, <2>1 DEF data, Exists, Listing, panel
      <4> QED
        BY <4>1, <4>2
    <3>4. \/ Fresh' \/ alerted'
          \/ loads'[l].step = "read" /\ loads'[l].dir = shown'.dir
      <4>1. CASE Fresh \/ alerted
        BY <2>u, <3>2, <4>1 DEF history
      <4>2. CASE ~(Fresh \/ alerted)
        <5>1. loads[l].dir = shown.dir
          BY <1>o, <3>1, <4>2, Blank DEF FreshSoon
        <5> QED
          BY <2>1, <2>u, <5>1 DEF panel
      <4> QED
        BY <4>1, <4>2
    <3>5. Exists(shown.dir)'
      BY <3>1, <3>2 DEF FreshSoon
    <3> QED
      BY <3>3, <3>4, <3>5 DEF FreshSoon
  <2> QED
    BY <1>p, <2>2, <2>3, <2>4, <2>5 DEF PatientInv
<1>2. CASE Render(l)
  <2>1. InfoMatchesPanel'
    BY <1>2 DEF Render, SetCurrentFile, InfoMatchesPanel
  <2>2. \A k \in Slots : loads'[k] = Free
    BY <1>2, <1>o, <1>t DEF Render
  <2>3. task' = NoTask
    BY <1>2, <1>o, NothingToDetach DEF Render
  <2>4. changes' = 0 => Exists(shown.dir)' /\ (Fresh' \/ alerted')
    <3> SUFFICES ASSUME changes' = 0 PROVE Exists(shown.dir)' /\ Fresh'
      OBVIOUS
    <3>1. Exists(loads[l].dir) /\ loads[l].data = Listing(loads[l].dir)
      BY <1>2 DEF Render, PatientInv, FreshSoon
    <3>2. shown'.dir = loads[l].dir /\ shown'.names = loads[l].data /\ fs' = fs
      BY <1>2 DEF Render
    <3> QED
      BY <3>1, <3>2 DEF Exists, Listing, Fresh
  <2> QED
    BY <1>p, <2>1, <2>2, <2>3, <2>4, ComesToRest
<1>3. CASE LoadFails(l)
  <2>1. InfoMatchesPanel'
    BY <1>3 DEF LoadFails, SetCurrentFile, InfoMatchesPanel, PatientInv
  <2>2. \A k \in Slots : loads'[k] = Free
    BY <1>3, <1>o, <1>t DEF LoadFails
  <2>3. task' = NoTask
    BY <1>3, <1>o DEF LoadFails
  <2>4. changes' = 0 => Exists(shown.dir)' /\ (Fresh' \/ alerted')
    BY <1>3, SameTables DEF LoadFails, PatientInv, FreshSoon
  <2> QED
    BY <1>p, <2>1, <2>2, <2>3, <2>4, ComesToRest
<1> QED
  BY <1>1, <1>2, <1>3

\* The directory on display is still there after an operation of the user's own.
LEMMA DisplayedStays ==
  ASSUME PatientInv, ServerActs, Exists(shown.dir)
  PROVE  Exists(shown.dir)'
<1> DEFINE from == CHOOSE n \in task.names : TRUE
<1>1. shown' = shown /\ shown.dir \in Dirs /\ fs \in [Dirs -> SUBSET (Entries \ {Up})]
  BY DEF ServerActs, panel, PatientInv, PanelInv, PanelOK, DiskOK, Tables
<1>2. CASE shown.dir = Root
  BY <1>1, <1>2 DEF Exists
<1>3. CASE shown.dir # Root
  <2>1. shown.dir \in fs[Root] /\ shown.dir \in Subs /\ Root \in Dirs
    BY <1>1, <1>3, Names DEF Exists, Dirs
  <2>2. task.kind = "delete" => task.dir # Root
    BY <1>3 DEF ServerActs, PatientInv, PanelAsSeen
  <2>3. task.kind = "rename" => task.dir # Root /\ from # Root /\ task.to # Root
    <3>1. ASSUME NEW f \in Subs \cup Files, task.names = {f} PROVE from = f /\ f \in Entries
      BY <3>1 DEF Entries
    <3> QED
      BY <1>3, <3>1, Names
         DEF ServerActs, PatientInv, PanelAsSeen, PanelInv, TaskOK, Asked, Tasks
  <2>4. \/ UNCHANGED fs
        \/ /\ task.kind = "delete"
           /\ \E done \in SUBSET task.names : fs' = Removed(task.dir, done)
        \/ task.kind = "rename" /\ fs' = Renamed(task.dir, from, task.to)
        \/ fs' = Added(task.dir, task.to)
    BY DEF ServerActs
  <2> HIDE DEF from
  <2>5. task.dir \in Dirs
    BY DEF PatientInv, PanelInv, TaskOK, Tasks
  <2>6. Root \notin task.names
    BY Names DEF PatientInv, PanelInv, TaskOK, Tasks
  <2>7. shown.dir \in fs'[Root]
    <3>1. CASE UNCHANGED fs
      BY <2>1, <3>1
    <3>2. ASSUME NEW done \in SUBSET task.names, task.kind = "delete",
                 fs' = Removed(task.dir, done)
          PROVE  shown.dir \in fs'[Root]
      BY <2>1, <2>2, <2>5, <2>6, <3>2 DEF Removed
    <3>3. CASE task.kind = "rename" /\ fs' = Renamed(task.dir, from, task.to)
      BY <1>1, <2>1, <2>3, <2>5, <3>3 DEF Renamed
    <3>4. CASE fs' = Added(task.dir, task.to)
      BY <1>1, <2>1, <2>5, <3>4 DEF Added
    <3> QED
      BY <2>4, <3>1, <3>2, <3>3, <3>4
  <2> QED
    BY <1>1, <2>7 DEF Exists
<1> QED
  BY <1>2, <1>3

\* The answer to the user's own request leads to a refresh of the table it changed.
LEMMA ServerPatient ==
  ASSUME PatientInv,
         \/ ServerActs \/ CreatedThenRefresh \/ RenamedThenRefresh \/ RenameFails
         \/ DeletedThenRefresh \/ OthersChange
  PROVE  PatientInv'
<1>p. PanelInv'
  BY ServerPanel DEF PatientInv
<1>t. loads \in [Slots -> Loads] /\ task \in Tasks
  BY DEF PatientInv, PanelInv, LoadsOK, TaskOK
<1>m. UNCHANGED panel => InfoMatchesPanel'
  BY DEF InfoMatchesPanel, PatientInv, panel
<1>o. task.step \in {"sent", "answered"} =>
         /\ task # NoTask /\ \A l \in Slots : loads[l] = Free
         /\ task.seen = shown /\ task.attached
  BY Blank DEF PatientInv, OneAtATime, PanelAsSeen
<1>e. changes = 0 => Exists(shown.dir)
  BY DEF PatientInv, FreshSoon
<1>r. \A name \in Entries : RefreshRequest(name) \in Loads
  BY Requests DEF PatientInv, PanelInv
<1>f. \A name \in Entries : RefreshRequest(name).dir = shown.dir
                              /\ RefreshRequest(name).then = "none"
  <2>1. Free \in Loads /\ Free.then = "none"
    BY Blank
  <2> QED
    BY <2>1 DEF RefreshRequest, Loads
<1>n. Info.name \in Entries /\ task.to \in Entries /\ task.next \in Entries
  BY DEF PatientInv, PanelInv, PanelOK, TaskOK, Tasks
<1>1. CASE ServerActs
  <2>1. PICK ok \in BOOLEAN : task' = [task EXCEPT !.step = "answered", !.ok = ok]
    BY <1>1 DEF ServerActs
  <2>u. UNCHANGED <<panel, loads, history>> /\ task.step = "sent"
    BY <1>1 DEF ServerActs
  <2>3. /\ task'.step = "answered" /\ task'.kind = task.kind
        /\ task'.seen = task.seen /\ task'.names = task.names /\ task'.dir = task.dir
        /\ task'.attached = task.attached /\ task'.to = task.to
    BY <2>1, <1>t DEF Tasks
  <2>4. OneAtATime'
    BY <1>o, <2>3, <2>u, Blank DEF OneAtATime
  <2>5. PanelAsSeen'
    BY <1>o, <2>3, <2>u, Blank DEF PanelAsSeen, PatientInv, panel
  <2>6. changes' = 0 => FreshSoon'
    BY <1>1, <1>e, <1>o, <2>3, <2>u, DisplayedStays, Blank DEF FreshSoon, history
  <2> QED
    BY <1>p, <1>m, <2>4, <2>5, <2>6, <2>u DEF PatientInv
<1>2. CASE CreatedThenRefresh
  <2> DEFINE request == RefreshRequest(task.to)
  <2>1. request \in Loads /\ request.dir = shown.dir /\ request.then = "none"
    BY <1>r, <1>f, <1>n
  <2>2. Send(request) /\ task' = NoTask /\ UNCHANGED <<fs, panel, history>>
        /\ task.step = "answered"
    BY <1>2 DEF CreatedThenRefresh
  <2>3. changes' = 0 => Exists(shown.dir)'
    BY <1>e, <2>2, SameTables DEF panel, history
  <2> HIDE DEF request
  <2> QED
    BY <1>p, <1>t, <1>m, <1>o, <2>1, <2>2, <2>3, SendsOne DEF panel
<1>3. CASE RenamedThenRefresh
  <2> DEFINE request == RefreshRequest(task.to)
             from == CHOOSE n \in task.names : TRUE
             put(S) == IF from \in S THEN (S \ {from}) \cup {task.to} ELSE S
  <2>1. request \in Loads /\ request.dir = shown.dir /\ request.then = "none"
    BY <1>r, <1>f, <1>n
  <2>2. Send(request) /\ task' = NoTask /\ UNCHANGED <<fs, history>>
        /\ task.step = "answered" /\ task.kind = "rename"
    BY <1>3 DEF RenamedThenRefresh
  <2>3. task.seen = shown /\ task.attached /\ from = current
    BY <1>o, <2>2 DEF PatientInv, PanelAsSeen
  <2>4. /\ shown' = [shown EXCEPT !.names = put(@)]
        /\ current' = IF current = from THEN task.to ELSE current
        /\ Info' = [dirPath |-> shown.dir, name |-> task.to, files |-> put(task.seen.names),
                    isDir |-> IsDir(current')]
    BY <1>3, <2>3 DEF RenamedThenRefresh
  <2>5. shown'.dir = shown.dir /\ shown'.names = put(shown.names)
    <3> HIDE DEF put
    <3> QED
      BY <2>4 DEF PatientInv, PanelInv, PanelOK, Tables
  <2>6. InfoMatchesPanel'
    <3> HIDE DEF put, from
    <3> QED
      BY <2>3, <2>4, <2>5 DEF InfoMatchesPanel, InfoOf
  <2>7. changes' = 0 => Exists(shown.dir)'
    BY <1>e, <2>2, <2>5 DEF Exists, history
  <2> HIDE DEF request
  <2> QED
    BY <1>p, <1>t, <1>o, <2>1, <2>2, <2>5, <2>6, <2>7, SendsOne
<1>4. CASE RenameFails
  <2>1. task.step = "answered" /\ task' = NoTask /\ alerted'
        /\ UNCHANGED <<fs, panel, loads, changes>>
    BY <1>4 DEF RenameFails
  <2>2. changes' = 0 => Exists(shown.dir)' /\ (Fresh' \/ alerted')
    BY <1>e, <2>1, SameTables DEF panel
  <2> QED
    BY <1>p, <1>m, <1>o, <2>1, <2>2, ComesToRest
<1>5. CASE DeletedThenRefresh
  <2> DEFINE request == [RefreshRequest(Info.name) EXCEPT
                           !.then = "deleted", !.child = task.to, !.next = task.next]
  <2>1. request \in Loads /\ request.dir = shown.dir /\ request.child = task.to
    <3>1. request \in Loads
      BY <1>n, Requests DEF PatientInv, PanelInv
    <3>2. RefreshRequest(Info.name) \in Loads /\ RefreshRequest(Info.name).dir = shown.dir
      BY <1>n, <1>r, <1>f
    <3> QED
      BY <3>1, <3>2 DEF Loads
  <2>2. Send(request) /\ task' = NoTask /\ UNCHANGED <<fs, panel, history>>
        /\ task.step = "answered" /\ task.kind = "delete"
    BY <1>5 DEF DeletedThenRefresh
  <2>3. task.to = current
    BY <2>2 DEF PatientInv, PanelAsSeen
  <2>4. changes' = 0 => Exists(shown.dir)'
    BY <1>e, <2>2, SameTables DEF panel, history
  <2> HIDE DEF request
  <2> QED
    BY <1>p, <1>t, <1>m, <1>o, <2>1, <2>2, <2>3, <2>4, SendsOne DEF panel
<1>6. CASE OthersChange
  <2>1. changes' # 0
    BY <1>6, PanelAssumption DEF OthersChange, PatientInv, PanelInv, HistoryOK
  <2>2. OneAtATime' /\ PanelAsSeen'
    BY <1>6 DEF OthersChange, OneAtATime, PanelAsSeen, AlreadyExists, PatientInv, panel
  <2>3. UNCHANGED panel
    BY <1>6 DEF OthersChange
  <2> QED
    BY <1>p, <1>m, <2>1, <2>2, <2>3 DEF PatientInv
<1> QED
  BY <1>1, <1>2, <1>3, <1>4, <1>5, <1>6

\* The page opens at rest, with the listing of the root.
LEMMA InitPatientInv == Init => PatientInv
<1> SUFFICES ASSUME Init PROVE PatientInv
  OBVIOUS
<1>1. PanelInv
  BY InitPanelInv
<1>2. task = NoTask /\ \A l \in Slots : loads[l] = Free
  BY DEF Init
<1>3. OneAtATime /\ PanelAsSeen
  BY <1>2, Blank DEF OneAtATime, PanelAsSeen
<1>4. InfoMatchesPanel
  BY DEF Init, InfoMatchesPanel
<1>5. FreshSoon
  BY <1>2, Blank DEF Init, FreshSoon, Exists, Fresh
<1> QED
  BY <1>1, <1>3, <1>4, <1>5 DEF PatientInv

\* Every step preserves PatientInv.
LEMMA NextPatientInv == Patient /\ PatientInv /\ [Next]_vars => PatientInv'
<1> SUFFICES ASSUME Patient, PatientInv, [Next]_vars PROVE PatientInv'
  OBVIOUS
<1>1. CASE UNCHANGED vars
  <2>1. PanelInv'
    BY <1>1, NextPanelInv DEF PatientInv
  <2>2. OneAtATime' /\ PanelAsSeen' /\ InfoMatchesPanel'
    BY <1>1 DEF vars, PatientInv, OneAtATime, PanelAsSeen, AlreadyExists, InfoMatchesPanel
  <2>3. changes' = 0 => FreshSoon'
    BY <1>1 DEF vars, PatientInv, FreshSoon, Exists, Fresh, Listing
  <2> QED
    BY <2>1, <2>2, <2>3 DEF PatientInv
<1>2. CASE Next
  BY <1>2, UserPatient, LoadPatient, ServerPatient DEF Next
<1> QED
  BY <1>1, <1>2

\* At rest the table is fresh, and a name that is taken on the server is in the table.
LEMMA PatientInvImplies ==
  PatientInv => InfoMatchesPanel /\ OwnChangesShown /\ ReplacesOnlyAgreed
<1> SUFFICES ASSUME PatientInv PROVE OwnChangesShown /\ ReplacesOnlyAgreed
  BY DEF PatientInv
<1>1. OwnChangesShown
  BY Quiet, Blank DEF OwnChangesShown, Idle, Fresh
<1>2. ReplacesOnlyAgreed
  <2> SUFFICES ASSUME task.step = "sent", task.kind = "rename", task.to \in fs[task.dir],
                      changes = 0, ~alerted
               PROVE  task.agreed
    BY DEF ReplacesOnlyAgreed
  <2>1. Fresh
    BY Quiet, Blank DEF PatientInv, OneAtATime
  <2>2. task.dir = shown.dir /\ task.agreed = AlreadyExists(task.to)
    BY DEF PatientInv, PanelAsSeen
  <2> QED
    BY <2>1, <2>2 DEF Fresh, Listing, AlreadyExists
<1> QED
  BY <1>1, <1>2

\* For a user who waits for the answers CurrentInfo describes the table on display and
\* its current file.
THEOREM InfoIsOfPanel ==
  ASSUME Patient
  PROVE  Spec => []InfoMatchesPanel
<1>1. PatientInv /\ [Next]_vars => PatientInv'
  BY NextPatientInv
<1> QED
  BY <1>1, InitPatientInv, PatientInvImplies, PTL DEF Spec

\* Whatever such a user creates, renames or deletes, in the end the table shows what is
\* on the server, unless others changed it.
THEOREM ShowsOwnChanges ==
  ASSUME Patient
  PROVE  Spec => []OwnChangesShown
<1>1. PatientInv /\ [Next]_vars => PatientInv'
  BY NextPatientInv
<1> QED
  BY <1>1, InitPatientInv, PatientInvImplies, PTL DEF Spec

\* The table the new name is looked up in is that of the server, so that no file is
\* replaced without a question.
THEOREM AsksBeforeReplacing ==
  ASSUME Patient
  PROVE  Spec => []ReplacesOnlyAgreed
<1>1. PatientInv /\ [Next]_vars => PatientInv'
  BY NextPatientInv
<1> QED
  BY <1>1, InitPatientInv, PatientInvImplies, PTL DEF Spec

\* Such a user deletes what the prompt named (the run panel_delete shows what happens to
\* one who does not wait).
THEOREM DeletesPrompted ==
  ASSUME Patient
  PROVE  Spec => []DeletesWhatWasPrompted
<1>1. PatientInv /\ [Next]_vars => PatientInv'
  BY NextPatientInv
<1>2. PatientInv => DeletesWhatWasPrompted
  BY Blank DEF PatientInv, PanelAsSeen, DeletesWhatWasPrompted
<1> QED
  BY <1>1, <1>2, InitPatientInv, PTL DEF Spec

-----------------------------------------------------------------------------
(* The cursor. *)

\* A request takes a free slot: the others go on as they were.
LEMMA SendsElsewhere ==
  ASSUME NEW l \in Slots, loads \in [Slots -> Loads], loads[l].step = "read",
         NEW request, Send(request)
  PROVE  loads'[l] = loads[l]
  BY Blank DEF Send

\* The listing of a directory leaves its slot when it is put on display.
LEMMA OnlyRender ==
  ASSUME PanelInv, Next, NEW l \in Slots, loads[l].step = "read", loads'[l] = Free
  PROVE  Render(l)
<1>1. loads \in [Slots -> Loads]
  BY DEF PanelInv, LoadsOK
<1>2. loads'[l] # loads[l]
  BY Blank
<1>3. loads' # loads
  BY <1>2
<1>4. \A request : ~Send(request)
  BY <1>1, <1>2, SendsElsewhere
<1>5. ASSUME NEW k \in Slots, ServerReads(k) \/ Render(k) \/ LoadFails(k) PROVE Render(l)
  <2>1. CASE k = l
    BY <1>5, <2>1 DEF ServerReads, LoadFails
  <2>2. CASE k # l
    BY <1>1, <1>2, <1>5, <2>2 DEF ServerReads, Render, LoadFails
  <2> QED
    BY <2>1, <2>2
<1>6. ~UserActs
  BY <1>3, <1>4
     DEF UserActs, SetCurrent, ToggleSelectedFile, ToggleAllSelectedFiles, Enter, DblClick,
         Navigate, GoToDirectory, LoadDir, GoToParentDir, PopState, Refresh, PromptDirectory,
         PromptNew, RenameCurrent, PromptDelete, Cancel, AcceptNew, AcceptRename, AcceptDelete
<1>7. ~( \/ ServerActs \/ CreatedThenRefresh \/ RenamedThenRefresh \/ RenameFails
         \/ DeletedThenRefresh \/ OthersChange)
  BY <1>3, <1>4
     DEF ServerActs, CreatedThenRefresh, RenamedThenRefresh, RenameFails,
         DeletedThenRefresh, OthersChange
<1> QED
  BY <1>5, <1>6, <1>7 DEF Next

\* Where the cursor is put by a listing that arrives.
Kept(l) ==
    CASE loads[l].then = "parent" ->
           loads[l].child \in shown'.names => current' = loads[l].child
      [] loads[l].then = "none" /\ loads[l].refresh ->
           loads[l].name \in shown'.names => current' = loads[l].name
      [] loads[l].then = "deleted" ->
           current \in shown'.names => current' = current
      [] OTHER -> TRUE

\* The cursor goes where CurrentAfter says; after a deletion the child of the request
\* is the file that is current, as the user has waited.
LEMMA RenderKeeps ==
  ASSUME PatientInv, NEW l \in Slots, Render(l)
  PROVE  Kept(l)
<1> DEFINE load == loads[l]
<1>1. shown'.names = load.data /\ current' = CurrentAfter(load, load.data)
  BY DEF Render, SetCurrentFile
<1>2. load.then = "parent" => (load.child \in load.data => current' = load.child)
  BY <1>1 DEF CurrentAfter
<1>3. load.then = "none" /\ load.refresh => (load.name \in load.data => current' = load.name)
  BY <1>1 DEF CurrentAfter
<1>4. load.then = "deleted" => load.child = current
  BY DEF PatientInv, PanelAsSeen
<1>5. load.then = "deleted" => (load.child \in load.data => current' = load.child)
  BY <1>1 DEF CurrentAfter
<1> HIDE DEF load
<1> QED
  BY <1>1, <1>2, <1>3, <1>4, <1>5 DEF Kept, load

\* A refresh keeps the cursor on its entry, going up puts it on the directory one comes
\* from, and a deletion that fails leaves it.
THEOREM CursorStays ==
  ASSUME Patient
  PROVE  Spec => CursorKept
<1>1. PatientInv /\ [Next]_vars => PatientInv'
  BY NextPatientInv
<1>2. PatientInv /\ [Next]_vars =>
        [\A l \in Slots : loads[l].step = "read" /\ loads'[l] = Free => Kept(l)]_vars
  BY OnlyRender, RenderKeeps DEF PatientInv
<1>3. PatientInv /\ [Next]_vars =>
        [\A l \in Slots :
          loads[l].step = "read" /\ loads'[l] = Free =>
              CASE loads[l].then = "parent" ->
                     loads[l].child \in shown'.names => current' = loads[l].child
                [] loads[l].then = "none" /\ loads[l].refresh ->
                     loads[l].name \in shown'.names => current' = loads[l].name
                [] loads[l].then = "deleted" ->
                     current \in shown'.names => current' = current
                [] OTHER -> TRUE]_vars
  BY <1>2 DEF Kept
<1> QED
  BY <1>1, <1>3, InitPatientInv, PTL DEF Spec, CursorKept
-----------------------------------------------------------------------------
(* The page around the panel.                                                *)

\* What the page has copied, unless a timer will copy it anew.
PageInv == ~told /\ page # Unknown => page = PageOf(shown.dir, IsDir(current))

\* Nothing is under way before the page connects.
RestsFirst == connected \/ Idle

\* Whoever presses a button does what can be done to the panel without it.
LEMMA PressesActOnPanel ==
  ASSUME NEW b, Press(b)
  PROVE  UserActs /\ UNCHANGED <<shown, current>>
<1>1. "file" \in {"file", "directory"} /\ "directory" \in {"file", "directory"}
  OBVIOUS
<1>2. /\ \/ GoToParentDir \/ PromptNew("file") \/ PromptNew("directory") \/ RenameCurrent
         \/ PromptDelete \/ ToggleAllSelectedFiles
  BY DEF Press
<1>3. UserActs
  BY <1>1, <1>2 DEF UserActs
<1>4. UNCHANGED <<shown, current>>
  BY <1>2 DEF GoToParentDir, PromptNew, RenameCurrent, PromptDelete, ToggleAllSelectedFiles,
              panel
<1> QED
  BY <1>3, <1>4

\* The directory the session asks for is opened like one the user asks for.
LEMMA ConnectNavigates ==
  ASSUME Idle, Connect
  PROVE  UserActs /\ UNCHANGED <<shown, current>>
<1>1. PICK d \in Dirs : LoadDir(d)
  BY DEF Connect
<1>2. MayAct
  BY Blank DEF Idle, MayAct
<1>3. Navigate(d)
  BY <1>1, <1>2 DEF Navigate, Connect
<1> QED
  BY <1>1, <1>3 DEF UserActs, LoadDir, panel

\* A step of the page is one of the panel, or none.
LEMMA PageStep ==
  ASSUME RestsFirst, [ToolbarNext]_toolbarVars
  PROVE  [Next]_vars /\ RestsFirst'
<1>1. CASE UNCHANGED toolbarVars
  BY <1>1 DEF toolbarVars, vars, RestsFirst, Idle
<1>2. CASE Connect
  <2>1. CASE Idle
    BY <1>2, <2>1, ConnectNavigates DEF Next, Connect, RestsFirst
  <2> QED
    BY <1>2, <2>1 DEF Connect, RestsFirst
<1>3. CASE PanelActs
  BY <1>3 DEF PanelActs, RestsFirst
<1>4. CASE TimerRuns
  BY <1>4 DEF TimerRuns, vars, RestsFirst, Idle
<1>5. ASSUME NEW b \in FileToolbar, Press(b) PROVE Next /\ RestsFirst'
  BY <1>5, PressesActOnPanel DEF Next, Press, RestsFirst
<1>6. ASSUME NEW d \in Dirs, PressBookmark(d) PROVE Next /\ RestsFirst'
  BY <1>6 DEF Next, UserActs, PressBookmark, RestsFirst
<1> QED
  BY <1>1, <1>2, <1>3, <1>4, <1>5, <1>6 DEF ToolbarNext

\* With its toolbar and the directory it opens by itself, the page does to the panel
\* what the panel allows: what is proved of Spec is true of the page.
THEOREM PageIsOfPanel == ToolbarSpec => Spec
<1>1. ToolbarInit => Init /\ RestsFirst
  BY DEF ToolbarInit, Init, RestsFirst, Idle
<1>2. RestsFirst /\ [ToolbarNext]_toolbarVars => [Next]_vars /\ RestsFirst'
  BY PageStep
<1> QED
  BY <1>1, <1>2, PTL DEF ToolbarSpec, Spec

\* A step nobody hears of leaves the directory and the current file on display.
LEMMA Unheard ==
  ASSUME Next, ~Emits
  PROVE  UNCHANGED <<shown, current>>
<1>1. \A n \in Subs \cup Files \cup {Up} : ~SetCurrent(n)
  BY DEF Emits
<1>2. ASSUME UserActs PROVE UNCHANGED <<shown, current>>
  BY <1>1, <1>2
     DEF UserActs, ToggleSelectedFile, ToggleAllSelectedFiles, Enter, DblClick,
         Navigate, GoToDirectory, LoadDir, GoToParentDir, PopState, Refresh, PromptDirectory,
         PromptNew, RenameCurrent, PromptDelete, Cancel, AcceptNew, AcceptRename, AcceptDelete,
         panel
<1>3. ASSUME NEW l \in Slots, ServerReads(l) \/ Render(l) \/ LoadFails(l)
      PROVE  UNCHANGED <<shown, current>>
  BY <1>3 DEF Emits, ServerReads, LoadFails, panel
<1>4. ASSUME \/ ServerActs \/ CreatedThenRefresh \/ RenamedThenRefresh \/ RenameFails
             \/ DeletedThenRefresh \/ OthersChange
      PROVE  UNCHANGED <<shown, current>>
  BY <1>4 DEF Emits, ServerActs, CreatedThenRefresh, RenameFails, DeletedThenRefresh,
              OthersChange, panel
<1> QED
  BY <1>2, <1>3, <1>4 DEF Next

\* PageInv rests on PanelInv: a timer reads what CurrentInfo has by then.
LEMMA NextPageInv ==
  ASSUME PanelInv, RestsFirst, PageInv, [ToolbarNext]_toolbarVars
  PROVE  PageInv'
<1>k. UNCHANGED <<shown, current, told, page>> => PageInv'
  BY DEF PageInv
<1>1. CASE UNCHANGED toolbarVars
  BY <1>1, <1>k DEF toolbarVars, vars
<1>2. CASE Connect
  <2>1. UNCHANGED <<shown, current>>
    BY <1>2 DEF Connect, LoadDir, panel
  <2> QED
    BY <1>2, <2>1, <1>k DEF Connect
<1>3. CASE PanelActs
  <2>1. told' = (told \/ Emits) /\ page' = page /\ Next
    BY <1>3 DEF PanelActs, Tells
  <2>2. CASE ~told /\ ~Emits
    BY <2>1, <2>2, Unheard DEF PageInv
  <2>3. CASE told \/ Emits
    BY <2>1, <2>3 DEF PageInv
  <2> QED
    BY <2>2, <2>3
<1>4. CASE TimerRuns
  <2>1. UNCHANGED <<shown, current>> /\ page' = PageOf(Info.dirPath, Info.isDir)
    BY <1>4 DEF TimerRuns, Updates, vars
  <2>2. Info.dirPath = shown.dir /\ Info.isDir = IsDir(current)
    BY DEF PanelInv, PanelOK, InfoOfDirOnDisplay
  <2> QED
    BY <2>1, <2>2 DEF PageInv
<1>5. ASSUME NEW b \in FileToolbar, Press(b) PROVE PageInv'
  BY <1>5, <1>k, PressesActOnPanel DEF Press
<1>6. ASSUME NEW d \in Dirs, PressBookmark(d) PROVE PageInv'
  BY <1>6, <1>k DEF PressBookmark, Navigate, LoadDir, panel
<1> QED
  BY <1>1, <1>2, <1>3, <1>4, <1>5, <1>6 DEF ToolbarNext

\* The buttons that depend on what the page has copied.
LEMMA Buttons ==
  /\ "goToParentDir" \in FileToolbar <=> ~page.isRootDir
  /\ {"view", "edit", "download"} \subseteq FileToolbar <=> page.isFileSelected
  BY DEF FileToolbar, NavButtons, NewFileFolderButtons, SelectionButtons, OperationsButtons,
         CopyPasteButtons, UpDownloadButtons, TarballButtons

\* So PageInv is what the toolbar is to follow.
LEMMA PageInvImplies == PageInv => ToolbarFollows
<1> SUFFICES ASSUME PageInv, ~told, page # Unknown
             PROVE  /\ page.dir = shown.dir
                    /\ "goToParentDir" \in FileToolbar <=> shown.dir # Root
                    /\ {"view", "edit", "download"} \subseteq FileToolbar <=> current \in Files
  BY DEF ToolbarFollows
<1>1. page = PageOf(shown.dir, IsDir(current))
  BY DEF PageInv
<1>2. /\ page.dir = shown.dir /\ page.isRootDir = (shown.dir = Root)
      /\ page.isFileSelected = (current \in Files)
  BY <1>1 DEF PageOf, IsDir
<1> QED
  BY <1>2, Buttons

\* For any user: a page whose timers have run offers what the panel on display allows,
\* however the answers to requests race with each other.
THEOREM ToolbarTracks == ToolbarSpec => []ToolbarFollows
<1>1. ToolbarInit => PanelInv /\ RestsFirst /\ PageInv
  BY InitPanelInv DEF ToolbarInit, Init, RestsFirst, Idle, PageInv
<1>2. PanelInv /\ RestsFirst /\ PageInv /\ [ToolbarNext]_toolbarVars
        => (PanelInv /\ RestsFirst /\ PageInv)'
  BY PageStep, NextPanelInv, NextPageInv
<1> QED
  BY <1>1, <1>2, PageInvImplies, PTL DEF ToolbarSpec

\* For any user, what is on display, CurrentInfo and the page agree on the directory and
\* on whether the current file is one.
THEOREM PageTracks == ToolbarSpec => []PageFollows
<1>1. Spec => []InfoOfDirOnDisplay
  BY InfoFollowsTable
<1>2. PageFollows <=> InfoOfDirOnDisplay /\ ToolbarFollows
  BY DEF PageFollows
<1> QED
  BY <1>1, <1>2, PageIsOfPanel, ToolbarTracks, PTL
=============================================================================

------------------------------- MODULE Panel --------------------------------
(***************************************************************************)
(* The file panel of the cloudcmd client (client/client.js and client/dom):*)
(* the table of a directory, its current file, CurrentInfo, and what a     *)
(* user does to them: open a directory, go up, refresh, create, rename and *)
(* delete.  Every one of them has an await, during which the answers to    *)
(* other requests come in.  Names are numbers in the order the table shows *)
(* them: "..", then directories, then files; a directory is named by its   *)
(* entry in the root.  dirStorage is off, as shipped (json/config.json).   *)
(***************************************************************************)
EXTENDS Naturals, FiniteSets, FiniteSetsExt

CONSTANTS
    Root, Subs, Files,  \* the root, the directories below it, names of files
    Fixed,              \* directories of the root nobody may remove
    Slots,              \* requests for a directory that may be under way
    Patient,            \* does the user wait until the last request is over?
    MaxChanges          \* changes made by others: a shell, another window

ASSUME PanelAssumption ==
    /\ {Root} \cup Subs \cup Files \subseteq Nat \ {0}
    /\ IsFiniteSet(Subs) /\ IsFiniteSet(Files)
    /\ Root \notin Subs /\ (Subs \cup {Root}) \cap Files = {}
    /\ Fixed \subseteq Subs /\ Fixed # {}
    /\ Patient \in BOOLEAN /\ MaxChanges \in Nat

VARIABLES
    fs,                 \* the entries of each directory on the server
    shown,              \* the table: [dir, names]
    current, selected,  \* the elements of class current-file, selected-file
    Info,               \* CurrentInfo: [dirPath, name, files, isDir]
    loads,              \* the calls of loadDir under way
    task,               \* the dialog on display, then the request it leads to
    changes,            \* history: how many of those there were
    alerted             \* history: an error was shown since the table was rendered

vars == <<fs, shown, current, selected, Info, loads, task, changes, alerted>>
panel == <<shown, current, selected, Info>>
history == <<changes, alerted>>

Up   == 0
Dirs == Subs \cup {Root}

\* updateCurrentInfo, of the current file of a table.
IsDir(name) == name \notin Files
InfoOf(table, name) == [dirPath |-> table.dir, name |-> name, files |-> table.names,
                        isDir |-> IsDir(name)]

Exists(d)  == d = Root \/ d \in fs[Root]
Listing(d) == fs[d] \cup IF d = Root THEN {} ELSE {Up}

Free == [step |-> "free", dir |-> Root, refresh |-> FALSE, name |-> Up,
         then |-> "none", child |-> Up, next |-> Up, data |-> {}]
NoTask == [kind |-> "none", step |-> "none", seen |-> [dir |-> Root, names |-> {}],
           names |-> {}, to |-> Up, next |-> Up, dir |-> Root, agreed |-> FALSE,
           attached |-> FALSE, ok |-> FALSE]

Init ==
    /\ \E sub \in [Subs -> SUBSET Files] :
           fs = [d \in Dirs |-> IF d = Root THEN Fixed
                                ELSE IF d \in Fixed THEN sub[d] ELSE {}]
    /\ shown = [dir |-> Root, names |-> Listing(Root)]
    /\ current = Min(Listing(Root)) /\ selected = {}
    /\ Info = InfoOf(shown, current)
    /\ loads = [l \in Slots |-> Free]
    /\ task = NoTask /\ changes = 0 /\ alerted = FALSE

Idle == task = NoTask /\ \A l \in Slots : loads[l] = Free

\* A dialog covers the page; otherwise the user may act at any time.
MayAct == task.step # "dialog" /\ (Patient => Idle)

-----------------------------------------------------------------------------
(* The current file and CurrentInfo.                                       *)

\* Mutant of SetCurrentFile: the listener of current-file is not called.
SetCurrentQuietly(table, name) == current' = name /\ UNCHANGED Info

\* setCurrentFile emits current-file, and updateCurrentInfo reads the panel.
SetCurrentFile(table, name) ==
    /\ current' = name
    /\ Info' = InfoOf(table, name)

ActiveFiles == IF selected = {} /\ current # Up THEN {current} ELSE selected

SetCurrent(name) ==
    /\ MayAct /\ name \in shown.names
    /\ SetCurrentFile(shown, name)
    /\ selected' = {}
    /\ UNCHANGED <<fs, shown, loads, task, history>>

ToggleSelectedFile(name) ==
    /\ MayAct /\ name \in shown.names \ {Up}
    /\ selected' = IF name \in selected THEN selected \ {name} ELSE selected \cup {name}
    /\ UNCHANGED <<fs, shown, current, Info, loads, task, history>>

ToggleAllSelectedFiles ==
    /\ MayAct
    /\ selected' = (shown.names \ {Up}) \ selected
    /\ UNCHANGED <<fs, shown, current, Info, loads, task, history>>

-----------------------------------------------------------------------------
(* loadDir.                                                                *)

Send(request) ==
    \E l \in Slots :
        /\ loads[l] = Free
        /\ loads' = [loads EXCEPT ![l] = [request EXCEPT !.step = "sent"]]

LoadDir(d) ==
    /\ Send([Free EXCEPT !.dir = d])
    /\ UNCHANGED <<fs, panel, history>>

\* The directory an entry stands for: itself, or that above.
Opened(name) == IF name = Up THEN Root ELSE name

\* Enter and F3, on a directory.  (After a rename in a table that is gone Info has the
\* name of that file and isDir of the one on display: what is then asked for is none.)
Enter ==
    /\ MayAct /\ Info.isDir /\ Info.name \in Subs \cup {Up}
    /\ LoadDir(Opened(Info.name))
    /\ UNCHANGED task

\* The second click of a double click; the first one has set the current file.
DblClick(name) ==
    /\ MayAct /\ name \in shown.names \cap (Subs \cup {Up})
    /\ LoadDir(Opened(name))
    /\ UNCHANGED task

\* A link of the path, Ctrl+\, a bookmark of the React page: of the client's navigate.
Navigate(d) ==
    /\ MayAct
    /\ LoadDir(d)
    /\ UNCHANGED task

\* "Go to directory:" leads to any.
GoToDirectory(d) ==
    /\ task.step = "dialog" /\ task.kind = "goto"
    /\ LoadDir(d)
    /\ task' = NoTask

\* Back and forward in the browser: the page has put one directory into the history,
\* that it was opened with.  A dialog does not hinder it.
PopState ==
    /\ Patient => Idle
    /\ LoadDir(Root)
    /\ UNCHANGED task

GoToParentDir ==
    /\ MayAct
    /\ Info.dirPath # Root
    /\ Send([Free EXCEPT !.then = "parent", !.child = Info.dirPath])
    /\ UNCHANGED <<fs, panel, task, history>>

\* Of CloudCmd.refresh: the directory on display, and the file to go back to.
RefreshRequest(name) == [Free EXCEPT !.dir = shown.dir, !.refresh = TRUE, !.name = name]

Refresh ==
    /\ MayAct
    /\ Send(RefreshRequest(Info.name))
    /\ UNCHANGED <<fs, panel, task, history>>

ServerReads(l) ==
    /\ loads[l].step = "sent" /\ Exists(loads[l].dir)
    /\ loads' = [loads EXCEPT ![l].step = "read", ![l].data = Listing(loads[l].dir)]
    /\ UNCHANGED <<fs, panel, task, history>>

\* Mutant of FirstCurrent: the directory one comes from, in the table or not.
FirstCurrentUnchecked(data) ==
    IF Info.name = Up /\ Info.dirPath # Root THEN Info.dirPath ELSE Min(data)

\* createFileTable: on the way up from "..", the directory one comes from.
FirstCurrent(data) ==
    IF Info.name = Up /\ Info.dirPath # Root /\ Info.dirPath \in data
      THEN Info.dirPath ELSE Min(data)

\* Mutant of CurrentAfter: ajaxLoad does not set the name after a refresh.
CurrentUnset(load, data) == FirstCurrent(data)

\* Then a refresh goes back to its name, goToParentDir to the child, and a
\* deletion to the neighbour of the file that was current.
CurrentAfter(load, data) ==
    CASE load.then = "none" /\ load.refresh /\ load.name \in data -> load.name
      [] load.then = "parent" -> IF load.child \in data THEN load.child ELSE Min(data)
      [] load.then = "deleted" /\ load.child \in data -> load.child
      [] load.then = "deleted" /\ load.child \notin data /\ load.next \in data -> load.next
      [] load.then = "deleted" /\ {load.child, load.next} \cap data = {}
           /\ load.name \in data -> load.name
      [] OTHER -> FirstCurrent(data)

Render(l) ==
    LET load == loads[l]
        table == [dir |-> load.dir, names |-> load.data]
    IN  /\ load.step = "read"
        /\ shown' = table
        /\ SetCurrentFile(table, CurrentAfter(load, load.data))
        /\ selected' = {}
        /\ task' = [task EXCEPT !.attached = FALSE]
        /\ loads' = [loads EXCEPT ![l] = Free]
        /\ alerted' = FALSE
        /\ UNCHANGED <<fs, changes>>

\* Does what follows the await of a request find a file to go to in the table?
FindsCurrent(load) ==
    \/ load.then = "parent"
    \/ load.then = "deleted" /\ {load.child, load.next} \cap shown.names # {}

\* There may be no such directory, no right to it, no session or no network any more:
\* "that's OK, error handled by RESTful", that is shown; the table stays, and what follows
\* the await still runs.
LoadFails(l) ==
    /\ loads[l].step = "sent"
    /\ IF FindsCurrent(loads[l])
         THEN SetCurrentFile(shown, CurrentAfter(loads[l], shown.names))
         ELSE UNCHANGED <<current, Info>>
    /\ loads' = [loads EXCEPT ![l] = Free]
    /\ alerted' = TRUE
    /\ UNCHANGED <<fs, shown, selected, task, changes>>

-----------------------------------------------------------------------------
(* Dialogs, and the requests they lead to.                                 *)

\* Mutant of DirOfNew: as in renameCurrent, after the dialog.
DirOnDisplay == shown.dir

DirOfNew == task.dir

Ask(kind, names, dir) ==
    task' = [NoTask EXCEPT !.kind = kind, !.step = "dialog", !.seen = shown,
                           !.names = names, !.dir = dir, !.attached = TRUE]

\* promptNew takes the directory before the await.
PromptNew(kind) ==
    /\ MayAct /\ task = NoTask
    /\ Ask(kind, {}, shown.dir)
    /\ UNCHANGED <<fs, panel, loads, history>>

PromptDirectory ==
    /\ MayAct /\ task = NoTask
    /\ Ask("goto", {}, Info.dirPath)
    /\ UNCHANGED <<fs, panel, loads, history>>

RenameCurrent ==
    /\ MayAct /\ task = NoTask /\ current # Up
    /\ Ask("rename", {current}, shown.dir)
    /\ UNCHANGED <<fs, panel, loads, history>>

PromptDelete ==
    /\ MayAct /\ task = NoTask /\ ActiveFiles # {}
    /\ Ask("delete", ActiveFiles, shown.dir)
    /\ UNCHANGED <<fs, panel, loads, history>>

Cancel ==
    /\ task.step = "dialog"
    /\ task' = NoTask
    /\ UNCHANGED <<fs, panel, loads, history>>

AcceptNew(to) ==
    /\ task.step = "dialog"
    /\ \/ task.kind = "file" /\ to \in Files
       \/ task.kind = "directory" /\ to \in Subs /\ task.dir = Root
    /\ task' = [task EXCEPT !.step = "sent", !.to = to, !.dir = DirOfNew]
    /\ UNCHANGED <<fs, panel, loads, history>>

\* Mutant of AlreadyExists: looks among the selected files.
ExistsSelected(to) == to \in selected

AlreadyExists(to) == to \in shown.names

\* The directory is read after the dialogs; the second one asks whether to
\* replace what has the name.  (A number is the name of a file or of a directory.)
AcceptRename(to) ==
    /\ task.step = "dialog" /\ task.kind = "rename"
    /\ to \in IF task.names \subseteq Files THEN Files ELSE Subs
    /\ task' = IF to \in task.names THEN NoTask
               ELSE [task EXCEPT !.step = "sent", !.to = to, !.dir = shown.dir,
                                 !.agreed = AlreadyExists(to)]
    /\ UNCHANGED <<fs, panel, loads, history>>

\* The name at the place of the current one once the others are gone, or the last.
NextCurrentName(name, names, removed) ==
    LET i == Cardinality({n \in names : n < name})
        rest == names \ removed
        atPlace == {n \in rest : Cardinality({m \in rest : m < n}) = i}
    IN  IF rest = {} THEN Up
        ELSE IF atPlace # {} THEN Min(atPlace) ELSE Max(rest)

\* deleteSilent reads the directory and the current file after the dialog, the
\* names of the elements found before it.
AcceptDelete ==
    /\ task.step = "dialog" /\ task.kind = "delete"
    /\ task' = IF ActiveFiles = {} THEN NoTask
               ELSE [task EXCEPT !.step = "sent", !.dir = Info.dirPath,
                                 !.names = task.names, !.to = current,
                                 !.next = NextCurrentName(current, Info.files, task.names)]
    /\ UNCHANGED <<fs, panel, loads, history>>

\* The operating system removes a directory with everything in it.
Removed(dir, names) ==
    LET gone == names \ Fixed
    IN  [d \in Dirs |-> IF dir = Root /\ d \in gone THEN {}
                        ELSE IF d = dir THEN fs[d] \ gone ELSE fs[d]]

Added(dir, name) == [fs EXCEPT ![dir] = @ \cup {name}]

\* A directory takes its entries with it.
Renamed(dir, from, to) ==
    [d \in Dirs |-> IF d = dir THEN (fs[d] \ {from}) \cup {to}
                    ELSE IF d = from THEN {}
                    ELSE IF d = to THEN fs[from] ELSE fs[d]]

\* What the operating system lets the name of an entry be changed to: a directory
\* replaces an empty one at most.
MayRename(dir, from, to) ==
    /\ from \in fs[dir] \ Fixed
    /\ from \in Subs /\ to \in fs[dir] => to \notin Fixed /\ fs[to] = {}

\* The request may be lost or refused, what it asked for may be done in part, and its
\* answer may be lost.  Only a rename looks at that.
ServerActs ==
    \E acted, answered \in BOOLEAN, done \in SUBSET task.names :
        LET from == CHOOSE n \in task.names : TRUE
            acts == /\ acted /\ Exists(task.dir)
                    /\ task.kind = "rename" => MayRename(task.dir, from, task.to)
        IN  /\ task.step = "sent"
            /\ task' = [task EXCEPT !.step = "answered",
                                    !.ok = task.kind = "rename" /\ acts /\ answered]
            /\ fs' = IF ~acts THEN fs
                     ELSE CASE task.kind = "delete" -> Removed(task.dir, done)
                            [] task.kind = "rename" -> Renamed(task.dir, from, task.to)
                            [] OTHER -> Added(task.dir, task.to)
            /\ UNCHANGED <<panel, loads, history>>

\* Mutant of CreatedThenRefresh: the table is left as it was.
CreatedUnshown ==
    /\ task.step = "answered" /\ task.kind \in {"file", "directory"}
    /\ task' = NoTask
    /\ UNCHANGED <<fs, panel, loads, history>>

CreatedThenRefresh ==
    /\ task.step = "answered" /\ task.kind \in {"file", "directory"}
    /\ Send(RefreshRequest(task.to))
    /\ task' = NoTask
    /\ UNCHANGED <<fs, panel, history>>

\* setCurrentName renames the element.  If its table is no longer on display,
\* CurrentInfo now describes that table, and the directory on display; isDir is
\* always that of the current file on display.
RenamedThenRefresh ==
    LET from == CHOOSE n \in task.names : TRUE
        put(S) == IF from \in S THEN (S \ {from}) \cup {task.to} ELSE S
    IN  /\ task.step = "answered" /\ task.kind = "rename" /\ task.ok
        /\ IF task.attached
             THEN /\ shown' = [shown EXCEPT !.names = put(@)]
                  /\ current' = IF current = from THEN task.to ELSE current
                  /\ selected' = put(selected)
             ELSE UNCHANGED <<shown, current, selected>>
        /\ Info' = [dirPath |-> shown.dir, name |-> task.to, files |-> put(task.seen.names),
                    isDir |-> IsDir(current')]
        /\ Send(RefreshRequest(task.to))
        /\ task' = NoTask
        /\ UNCHANGED <<fs, history>>

\* The error is shown; whether the server has renamed it or not, there is no refresh.
RenameFails ==
    /\ task.step = "answered" /\ task.kind = "rename" /\ ~task.ok
    /\ task' = NoTask
    /\ alerted' = TRUE
    /\ UNCHANGED <<fs, panel, loads, changes>>

\* The operation ends, well or not.
DeletedThenRefresh ==
    /\ task.step = "answered" /\ task.kind = "delete"
    /\ Send([RefreshRequest(Info.name) EXCEPT
               !.then = "deleted", !.child = task.to, !.next = task.next])
    /\ task' = NoTask
    /\ UNCHANGED <<fs, panel, history>>

-----------------------------------------------------------------------------
\* A shell or another window of the user.
OthersChange ==
    /\ changes < MaxChanges
    /\ changes' = changes + 1
    /\ \E d \in Dirs, f \in Files :
          /\ Exists(d)
          /\ fs' \in {Added(d, f), Removed(d, {f})}
    /\ UNCHANGED <<panel, loads, task, alerted>>

UserActs ==
    \/ \E n \in Subs \cup Files \cup {Up} : SetCurrent(n) \/ ToggleSelectedFile(n)
    \/ ToggleAllSelectedFiles
    \/ Enter \/ (\E n \in Subs \cup {Up} : DblClick(n))
    \/ \E d \in Dirs : Navigate(d) \/ GoToDirectory(d)
    \/ GoToParentDir \/ PopState \/ Refresh
    \/ PromptDirectory
    \/ \E kind \in {"file", "directory"} : PromptNew(kind)
    \/ RenameCurrent \/ PromptDelete \/ Cancel
    \/ \E to \in Subs \cup Files : AcceptNew(to) \/ AcceptRename(to)
    \/ AcceptDelete

Next ==
    \/ UserActs
    \/ \E l \in Slots : ServerReads(l) \/ Render(l) \/ LoadFails(l)
    \/ ServerActs \/ CreatedThenRefresh \/ RenamedThenRefresh \/ RenameFails
    \/ DeletedThenRefresh
    \/ OthersChange

Spec == Init /\ [][Next]_vars

-----------------------------------------------------------------------------
Entries == Subs \cup Files \cup {Up}
Tables  == [dir : Dirs, names : SUBSET Entries]

\* Types, and a current file that is in the table.
PanelTypeOK ==
    /\ fs \in [Dirs -> SUBSET (Entries \ {Up})]
    /\ shown \in Tables /\ current \in shown.names /\ selected \subseteq shown.names
    /\ Info \in [dirPath : Dirs, name : Entries, files : SUBSET Entries, isDir : BOOLEAN]
    /\ loads \in [Slots -> [step : {"free", "sent", "read"}, dir : Dirs,
                            refresh : BOOLEAN, name : Entries,
                            then : {"none", "parent", "deleted"}, child : Entries \cup {Root},
                            next : Entries, data : SUBSET Entries]]
    /\ task \in [kind : {"none", "goto", "file", "directory", "rename", "delete"},
                  step : {"none", "dialog", "sent", "answered"}, seen : Tables,
                  names : SUBSET Entries, to : Entries, next : Entries, dir : Dirs,
                  agreed : BOOLEAN, attached : BOOLEAN, ok : BOOLEAN]
    /\ changes \in 0..MaxChanges /\ alerted \in BOOLEAN

\* CurrentInfo, which the toolbar and every operation read, describes the table on
\* display and its current file (dom/index.js:802 updateCurrentInfo).
InfoMatchesPanel == Info = InfoOf(shown, current)

\* However answers race, CurrentInfo has the directory of the table on display, and
\* whether its current file is one: what is pasted or deleted next is pasted or
\* deleted there, what is viewed or downloaded is a file.
InfoOfDirOnDisplay == Info.dirPath = shown.dir /\ Info.isDir = IsDir(current)

\* After the user's own requests the panel shows what is on the server, or an error was
\* displayed since it last did (client.js:355, "error handled by RESTful"): whatever of
\* a change, its answer and its refresh is lost, the table is never stale in silence.
OwnChangesShown ==
    Idle /\ changes = 0 /\ ~alerted => shown.names = Listing(shown.dir)

\* promptNew acts in the directory the user saw, and a deletion on names the user
\* saw, however the panel changes during the dialog.
ActsOnWhatWasSeen ==
    task.step = "sent" =>
        CASE task.kind \in {"file", "directory"} -> task.dir = task.seen.dir
          [] task.kind = "delete" -> task.names \subseteq task.seen.names
          [] OTHER -> TRUE

\* operation/index.js:242, "prompt and delete current file or selected files": the
\* files of the prompt are the ones deleted.
DeletesWhatWasPrompted ==
    task.step = "sent" /\ task.kind = "delete" => task.dir = task.seen.dir

\* Unless others interfere, or an error told the user that the table may be stale, a
\* rename does not replace what the user did not agree to replace.
ReplacesOnlyAgreed ==
    task.step = "sent" /\ task.kind = "rename" /\ task.to \in fs[task.dir] =>
        task.agreed \/ changes # 0 \/ alerted

\* A refresh leaves the cursor on its entry as long as that is listed, and going up
\* puts it on the directory one comes from.
CursorKept ==
    [][\A l \in Slots :
          loads[l].step = "read" /\ loads'[l] = Free =>
              CASE loads[l].then = "parent" ->
                     loads[l].child \in shown'.names => current' = loads[l].child
                [] loads[l].then = "none" /\ loads[l].refresh ->
                     loads[l].name \in shown'.names => current' = loads[l].name
                [] loads[l].then = "deleted" ->
                     current \in shown'.names => current' = current
                [] OTHER -> TRUE]_vars
=============================================================================

------------------------------ MODULE Windows -------------------------------
(***************************************************************************)
(* The windows over the panel (client/modules: view, menu, edit,           *)
(* edit-file, edit-names, user-menu, help, markdown, upload) and the keys  *)
(* they take from it and give back (client/key/binder.js).  A window opens *)
(* when what it shows has come; until then the keys stay with the panel,   *)
(* so that the cursor moves, a table is replaced or another window is      *)
(* asked for before the first one is there.                                *)
(*                                                                         *)
(* The modal and the pop-up menu are external: open and show call          *)
(* beforeShow, close and hide call beforeClose.                            *)
(***************************************************************************)
EXTENDS Keyboard

CONSTANTS
    Slots,              \* calls of show that may be under way together
    MaxWindows          \* bound on the windows over one another

ASSUME WindowsAssumption == MaxWindows \in Nat \ {0} /\ IsFiniteSet(Slots)

Pages == {"help", "userMenu", "upload"}
Kinds == {"view", "edit", "names", "menu"} \cup Pages

VARIABLES
    bound,              \* binder.js
    loaded,             \* the modules that are there
    calls,              \* of show: what they wait for, and the file they took
    page,               \* what El holds, of view/index.js: texts of files, pages
    windows,            \* the modal's, the last on top
    menu,               \* the one on display: of a file, of the panel, or none
    editor,             \* of edit.js, the one both editing modules use
    asked,              \* the window whose "save?" or "apply?" is on display
    over,               \* history: something was opened over a window or menu
    renamed             \* history: the last names applied, and for which files

windowVars == <<bound, loaded, calls, page, windows, menu, editor, asked, over, renamed>>
allVars == <<vars, windowVars>>

\* pressed: history of a call of View, the file it was made on, as long as the cursor
\* has stayed there and no other show has used El.
NoCall   == [kind |-> "none", step |-> "none", file |-> Up, pressed |-> {}]
NoEditor == [names |-> TRUE, files |-> {}, changed |-> FALSE, still |-> FALSE]
NoRename == [from |-> {}, files |-> {}, names |-> TRUE, still |-> TRUE]

WindowsInit ==
    /\ Init
    /\ bound = TRUE /\ loaded = {}
    /\ calls = [c \in Slots |-> NoCall]
    /\ page = <<>> /\ windows = <<>> /\ menu = "none"
    /\ editor = NoEditor /\ asked = "none"
    /\ over = FALSE /\ renamed = NoRename

Active  == ActiveFiles(selected, current)
MenuShown == menu # "none"
Covered == windows # <<>> \/ MenuShown
OnTop(kinds) == windows # <<>> /\ windows[Len(windows)].kind \in kinds /\ asked = "none"

-----------------------------------------------------------------------------
(* view/index.js: Config, the element El, and the modal. *)

\* Mutant of BeforeClose: the keys stay where they are.
BeforeCloseKeeps == bound

BeforeShow == FALSE
BeforeClose == TRUE

\* Mutant of NewElement: View.show goes on with the element it has.
SameElement == page

NewElement == <<>>

\* modal.open over a window takes its place or lies over it.
Open(call, shown) ==
    LET w == [kind |-> call.kind, pressed |-> call.pressed,
              shown |-> IF call.pressed = {} THEN <<>> ELSE shown]
    IN  /\ bound' = BeforeShow
        /\ \/ windows' = <<w>>
           \/ Len(windows) < MaxWindows /\ windows' = Append(windows, w)
        /\ over' = (over \/ Covered)

NotOpen == UNCHANGED <<bound, windows, over>>

CloseWindow ==
    /\ windows' = SubSeq(windows, 1, Len(windows) - 1)
    /\ bound' = BeforeClose
    /\ over' = (over /\ (windows' # <<>> \/ MenuShown))

\* beforeClose of the editing modules asks about what the editor holds.
Close ==
    LET kind == windows[Len(windows)].kind IN
    /\ windows # <<>>
    /\ CloseWindow
    /\ asked' = IF kind \in {"edit", "names"} /\ editor.changed THEN kind ELSE asked
    /\ UNCHANGED <<loaded, page, menu, renamed>>

Leaves == asked = "none" /\ Close /\ UNCHANGED <<vars, calls, editor>>

\* What the calls and the editor took from the panel is out of date from now on.
Stales ==
    /\ calls' = [c \in Slots |-> [calls[c] EXCEPT !.pressed = {}]]
    /\ editor' = [editor EXCEPT !.still = FALSE]

\* A click beside the window goes to the file under it: setCurrentByPosition.
ClicksBeside(n) ==
    /\ asked = "none" /\ Close
    /\ n \in names /\ n # current /\ Clicked(n)
    /\ Stales
    /\ UNCHANGED <<keys, names, chosen, vim, command, search, chars, waiting, dialog>>

-----------------------------------------------------------------------------
(* The editor: edit.js, edit-file.js, edit-names.js. *)

\* setValueFirst: the text of a file, or the names of files.
Fills(isNames, files) ==
    editor' = [names |-> isNames, files |-> files, changed |-> FALSE, still |-> TRUE]

editUnchanged == <<vars, loaded, calls, page, menu>>

Edits ==
    /\ OnTop({"edit", "names"}) /\ ~editor.changed
    /\ editor' = [editor EXCEPT !.changed = TRUE]
    /\ UNCHANGED <<editUnchanged, bound, windows, asked, over, renamed>>

\* Ctrl+P: multiRename of the names that are active once the pattern is there.
AppliesPattern ==
    /\ OnTop({"names"})
    /\ editor' = [names |-> TRUE, files |-> Active, changed |-> TRUE, still |-> TRUE]
    /\ UNCHANGED <<editUnchanged, bound, windows, asked, over, renamed>>

\* Mutant of GetActiveNames: the name of the current file.
GetCurrentName == {current}

GetActiveNames == Active

\* applyNames: what the editor holds, for the files active by now.
ApplyNames ==
    renamed' = [from |-> GetActiveNames, files |-> editor.files, names |-> editor.names,
                still |-> editor.still]

\* "Save" of the context menu: the editor stays changed, so that hide asks again.
SavesNames ==
    /\ OnTop({"names"})
    /\ ApplyNames
    /\ CloseWindow
    /\ asked' = IF editor.changed THEN "names" ELSE "none"
    /\ UNCHANGED <<editUnchanged, editor>>

\* isChanged: editor.save for a file, applyNames for names.
Answers(yes) ==
    /\ asked # "none" /\ asked' = "none"
    /\ IF yes /\ asked = "names" THEN ApplyNames ELSE UNCHANGED renamed
    /\ editor' = [editor EXCEPT !.changed = @ /\ ~(yes /\ asked = "edit")]
    /\ UNCHANGED <<editUnchanged, bound, windows, over>>

-----------------------------------------------------------------------------
(* The show of a module. *)

\* A call goes on, or ends with NoCall; El is used by it alone if touches is FALSE.
Goes(c, call, touches) ==
    calls' = [d \in Slots |-> IF d = c THEN call
                              ELSE [calls[d] EXCEPT !.pressed = IF touches THEN {} ELSE @]]

\* What the show of a module does before its first await.
ShowView(c, call) ==
    /\ Goes(c, [call EXCEPT !.step = "type", !.file = current], TRUE)
    /\ page' = NewElement

ShowFile(c, call) ==
    /\ Goes(c, [call EXCEPT !.step = "data", !.file = current], FALSE)
    /\ UNCHANGED page

\* A page or template of the server's, or the user menu of the directory.
ShowPage(c, call) ==
    /\ Goes(c, [call EXCEPT !.step = "page"], FALSE)
    /\ UNCHANGED page

Waits(c, call) ==
    \/ call.kind = "view" /\ ShowView(c, call)
    \/ call.kind = "edit" /\ ShowFile(c, call)
    \/ call.kind \in Pages /\ ShowPage(c, call)

\* EditNames opens at once, also without files: names is a string, and its length
\* is 1 only for a file whose name has one character.
ShowNames(c, call) ==
    /\ call.kind = "names" /\ UNCHANGED menu
    /\ \/ /\ Goes(c, NoCall, TRUE)
          /\ Fills(TRUE, Active)
          /\ page' = NewElement
          /\ Open(call, <<>>)
       \/ /\ current = Up /\ Cardinality(Active) = 1
          /\ Goes(c, NoCall, FALSE)
          /\ NotOpen /\ UNCHANGED <<page, editor>>

\* getMenuNameByEl: beforeClick lets only the items of the menu of that name through.
MenuName == IF current = Up THEN "context" ELSE "contextFile"

ShowMenu(c, call) ==
    /\ call.kind = "menu" /\ Goes(c, NoCall, FALSE)
    /\ menu' = MenuName /\ bound' = BeforeShow
    /\ over' = (over \/ Covered)
    /\ UNCHANGED <<page, windows, editor>>

Show(c, call) ==
    \/ Waits(c, call) /\ NotOpen /\ UNCHANGED <<menu, editor>>
    \/ ShowNames(c, call)
    \/ ShowMenu(c, call)

NewCall(kind) == [NoCall EXCEPT !.kind = kind, !.step = "module",
                                !.pressed = IF kind = "view" THEN {current} ELSE {}]

\* load-module.js: at first the module is loaded, and its show called after that.
Call(kind) ==
    \E c \in Slots :
        /\ calls[c] = NoCall
        /\ \/ kind \in loaded /\ Show(c, NewCall(kind))
           \/ kind \notin loaded /\ Goes(c, NewCall(kind), FALSE) /\ NotOpen
                                 /\ UNCHANGED <<page, menu, editor>>

ModuleLoads(c) ==
    /\ calls[c].step = "module"
    /\ loaded' = loaded \cup {calls[c].kind}
    /\ Show(c, calls[c])
    /\ UNCHANGED <<vars, asked, renamed>>

ShowOf == [key \in {"F1", "F2", "F3", "F4", "F9", "Ctrl+M"} |->
             CASE key = "F1" -> "help" [] key = "F2" -> "userMenu" [] key = "F3" -> "view"
               [] key = "F4" -> "edit" [] key = "F9" -> "menu" [] key = "Ctrl+M" -> "names"]

\* F3 on a directory opens it, which Panel models; the F keys do not reach vim.
WindowKey(key) ==
    /\ bound /\ asked = "none" /\ Special(key)
    /\ key = "F3" => current \notin Dirs \cup {Up}
    /\ Call(ShowOf[key])
    /\ IF key = "Ctrl+M" THEN ThenVim ELSE UNCHANGED store
    /\ UNCHANGED <<keys, names, current, chosen, vim, visual, search, waiting, dialog>>
    /\ UNCHANGED <<loaded, asked, renamed>>

-----------------------------------------------------------------------------
(* The answers. *)

answerUnchanged == <<vars, loaded, menu, asked, renamed>>

\* The switch over the type: text and markdown are asked for, of the file that is
\* current by now; a film or a song is the file of the call, in a template.
TypeArrives(c) ==
    /\ calls[c].step = "type"
    /\ \E step \in {"text", "page", "media"} :
         Goes(c, [calls[c] EXCEPT !.step = step,
                                  !.file = IF step = "media" THEN @ ELSE current], FALSE)
    /\ NotOpen
    /\ UNCHANGED <<answerUnchanged, page, editor>>

OpensElement(c, file) ==
    /\ Goes(c, NoCall, FALSE) /\ Open(calls[c], <<file>>)
    /\ UNCHANGED <<answerUnchanged, page, editor>>

\* viewHtml, viewPDF: a frame of the path taken before the await.
ViewFrame(c) == calls[c].step = "type" /\ OpensElement(c, calls[c].file)

\* The images of the directory, from the one that is current by now.
ViewImage(c) == calls[c].step = "type" /\ OpensElement(c, current)

\* The path is that of the call; only its name and whether it is a song are Info's.
MediaElement(c) == calls[c].file

ViewMedia(c) == calls[c].step = "media" /\ OpensElement(c, MediaElement(c))

\* viewFile: the text goes into the element of the last show.
TextArrives(c) ==
    /\ calls[c].step = "text"
    /\ Goes(c, NoCall, TRUE)
    /\ page' = Append(page, calls[c].file)
    /\ Open(calls[c], page')
    /\ UNCHANGED <<answerUnchanged, editor>>

\* A page comes with an element of its own, as markdown does.
PageArrives(c) ==
    /\ calls[c].step = "page"
    /\ Goes(c, NoCall, TRUE)
    /\ page' = Append(NewElement, IF calls[c].kind = "view" THEN calls[c].file ELSE Up)
    /\ Open(calls[c], page')
    /\ UNCHANGED <<answerUnchanged, editor>>

DataArrive(c) ==
    /\ calls[c].step = "data"
    /\ Goes(c, NoCall, TRUE)
    /\ Fills(FALSE, {})
    /\ page' = NewElement
    /\ Open(calls[c], <<>>)
    /\ UNCHANGED answerUnchanged

\* A user menu with settings.run: nothing opens, and the hide of runUserMenu closes
\* what is on top.
RunsSelected(c) ==
    /\ calls[c].step = "page" /\ calls[c].kind = "userMenu"
    /\ Goes(c, NoCall, FALSE)
    /\ IF windows # <<>> THEN Close
       ELSE UNCHANGED <<bound, loaded, page, windows, menu, asked, over, renamed>>
    /\ UNCHANGED <<vars, editor>>

\* An error ends the call, with an alert or without.
Fails(c) ==
    /\ calls[c].step \notin {"none", "type"}
    /\ Goes(c, NoCall, FALSE)
    /\ UNCHANGED <<answerUnchanged, bound, page, windows, editor, over>>

-----------------------------------------------------------------------------
(* menu.js *)

menuUnchanged == <<vars, loaded, windows, asked, renamed>>

Hides ==
    /\ MenuShown /\ menu' = "none" /\ bound' = BeforeClose
    /\ over' = (over /\ windows # <<>>)

\* An item of another component does no more here.
HideMenu == Hides /\ UNCHANGED <<menuUnchanged, calls, page, editor>>

ItemOf == [item \in {"View", "Edit", "Upload"} |->
             CASE item = "View" -> "view" [] item = "Edit" -> "edit"
               [] item = "Upload" -> "upload"]

ItemsOf(name) == IF name = "contextFile" THEN DOMAIN ItemOf ELSE {"Upload"}

\* The menu has hidden when the function of an item is called.
MenuItem(item) ==
    /\ item \in keys \cap ItemsOf(menu) /\ Hides
    /\ \E c \in Slots :
         LET call == NewCall(ItemOf[item]) IN
         /\ calls[c] = NoCall
         /\ \/ call.kind \in loaded /\ Waits(c, call)
            \/ call.kind \notin loaded /\ Goes(c, call, FALSE) /\ UNCHANGED page
    /\ UNCHANGED <<menuUnchanged, editor>>

\* download: a file that was selected no longer is once its download has begun.
Download ==
    /\ "Download" \in keys /\ menu = "contextFile" /\ Hides
    /\ Select(Unselected)
    /\ editor' = [editor EXCEPT !.still = @ /\ ActiveFiles(selected', current) = Active]
    /\ UNCHANGED <<keys, names, current, vim, command, search, letters, waiting, dialog>>
    /\ UNCHANGED <<loaded, calls, page, windows, asked, renamed>>

-----------------------------------------------------------------------------
(* The panel, while calls are under way and windows are open. *)

\* The same, unless the step has left the cursor and the active files as they were.
Outdates ==
    LET same == current' = current /\ waiting' = waiting IN
    /\ calls' = [c \in Slots |-> [calls[c] EXCEPT !.pressed = IF same THEN @ ELSE {}]]
    /\ editor' = [editor EXCEPT !.still = @ /\ ActiveFiles(selected', current') = Active]

PanelNext ==
    /\ \/ bound /\ asked = "none" /\ (VimNext \/ KeyNext)
       \/ ~Covered /\ asked = "none" /\ MouseNext
       \/ \E i \in DOMAIN waiting : SizeArrives(i)
       \/ Found \/ SelectByPattern \/ CloseDialog
    /\ Outdates
    /\ UNCHANGED <<bound, loaded, page, windows, menu, asked, over, renamed>>

\* Another table, whatever its files are called.
NewTable ==
    /\ Render /\ Stales
    /\ UNCHANGED <<bound, loaded, page, windows, menu, asked, over, renamed>>

WindowNext ==
    \/ \E key \in DOMAIN ShowOf : WindowKey(key)
    \/ HideMenu \/ Download \/ (\E item \in DOMAIN ItemOf : MenuItem(item))
    \/ \E c \in Slots : \/ ModuleLoads(c) \/ TypeArrives(c) \/ TextArrives(c)
                        \/ ViewFrame(c) \/ ViewImage(c) \/ ViewMedia(c)
                        \/ PageArrives(c) \/ DataArrive(c) \/ RunsSelected(c) \/ Fails(c)
    \/ Leaves \/ (\E n \in names : ClicksBeside(n))
    \/ Edits \/ AppliesPattern \/ SavesNames \/ (\E yes \in BOOLEAN : Answers(yes))

WindowsNext == PanelNext \/ NewTable \/ WindowNext

WindowsSpec == WindowsInit /\ [][WindowsNext]_allVars

-----------------------------------------------------------------------------
\* Types, the keyboard's included; El holds what was put there since the last show.
WindowsTypeOK ==
    /\ KeyboardTypeOK
    /\ bound \in BOOLEAN /\ loaded \subseteq Kinds /\ over \in BOOLEAN
    /\ calls \in [Slots -> [kind : Kinds \cup {"none"}, file : Names, pressed : SUBSET Names,
                            step : {"none", "module", "type", "text", "media", "page", "data"}]]
    /\ menu \in {"none", "context", "contextFile"}
    /\ page \in UNION {[1..n -> Names] : n \in 0..Cardinality(Slots) + 1}
    /\ \A i \in DOMAIN windows : windows[i].kind \in Kinds
    /\ editor \in [names : BOOLEAN, files : SUBSET Names, changed : BOOLEAN, still : BOOLEAN]
    /\ asked \in {"none", "edit", "names"}

\* The keys belong to the panel whenever nothing lies over it, in whatever order
\* windows and the menu came and went; and they do not reach it under a window, up
\* to one that a late answer opened over another (binder.js; view/index.js:63, :68).
KeysComeBack ==
    /\ ~Covered => bound
    /\ Covered /\ ~over => ~bound

\* A window of View shows the file its key was pressed on, and nothing else, unless
\* the cursor has moved since (view/index.js:126 reads Info after an await) or
\* another show has used the module's element (view/index.js:107, :214).
ViewShowsAsked ==
    \A i \in DOMAIN windows :
        LET w == windows[i] IN
        w.pressed # {} => w.shown \in {<<n>> : n \in w.pressed}

\* Names are applied to the files they were typed for, unless the panel has changed
\* under the window (edit-names.js:101 asks which files are active by then).
NamesOfTheirFiles ==
    renamed.still /\ renamed.names => renamed.from = renamed.files
=============================================================================

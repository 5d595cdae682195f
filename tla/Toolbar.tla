------------------------------ MODULE Toolbar -------------------------------
(***************************************************************************)
(* The React page around the panel: what useFileManager.js copies of       *)
(* CurrentInfo into its state, and the buttons of FIleToolbar.js, which    *)
(* that state enables.  The page hears of a current file from the event    *)
(* current-file, and reads CurrentInfo in a timer set then: between the    *)
(* two the buttons are those of an earlier panel.                          *)
(***************************************************************************)
EXTENDS Panel

VARIABLES
    connected,          \* has the page called the client's loadDir?
    told,               \* is a timer of currentFileListener due?
    page                \* [dir, isFileSelected, isRootDir]

toolbarVars == <<vars, connected, told, page>>

\* currentAbsDir, isFileSelected and isRootDir are null at first.
Unknown == [dir |-> Up, isFileSelected |-> FALSE, isRootDir |-> FALSE]

PageOf(dir, isDir) == [dir |-> dir, isFileSelected |-> ~isDir, isRootDir |-> dir = Root]

ToolbarInit == Init /\ connected = FALSE /\ told = FALSE /\ page = Unknown

-----------------------------------------------------------------------------
(* The buttons one can press. *)

NavButtons           == IF page.isRootDir THEN {} ELSE {"goToParentDir"}
NewFileFolderButtons == {"promptNewFile", "promptNewDir"}
SelectionButtons     == {"toggleAllSelectedFiles"}
OperationsButtons    == {"rename", "del"} \cup
                            IF page.isFileSelected THEN {"view", "edit"} ELSE {}
CopyPasteButtons     == {"cut", "copy", "paste"}
UpDownloadButtons    == {"upload"} \cup IF page.isFileSelected THEN {"download"} ELSE {}
TarballButtons       == {"pack", "extract"}

\* Bookmarks are directories; without any the menu is off.
BookmarkButtons == Dirs

FileToolbar == UNION {NavButtons, NewFileFolderButtons, SelectionButtons, OperationsButtons,
                      CopyPasteButtons, UpDownloadButtons, TarballButtons}

-----------------------------------------------------------------------------
\* The steps that emit current-file: setCurrentFile, and setCurrentName of a rename.
Emits ==
    \/ \E n \in Subs \cup Files \cup {Up} : SetCurrent(n)
    \/ \E l \in Slots : Render(l) \/ (LoadFails(l) /\ FindsCurrent(loads[l]))
    \/ RenamedThenRefresh

\* currentFileListener: from the connection on, an emission sets a timer.
Tells == told' = (told \/ Emits)

\* onConnected: the listener, then the directory of the session.
Connect ==
    /\ ~connected
    /\ \E d \in Dirs : LoadDir(d)
    /\ connected' = TRUE
    /\ UNCHANGED <<task, told, page>>

\* Everything the panel does, other ways to do what a button does among it.  (The
\* client is initialised in the same turn as the page connects: nothing comes before.)
PanelActs ==
    /\ connected
    /\ Next
    /\ Tells
    /\ UNCHANGED <<connected, page>>

\* Of the buttons, what those of the panel lead to; none acts before the connection.
Press(button) ==
    /\ connected /\ button \in FileToolbar
    /\ \/ button = "goToParentDir" /\ GoToParentDir
       \/ button = "promptNewFile" /\ PromptNew("file")
       \/ button = "promptNewDir" /\ PromptNew("directory")
       \/ button = "rename" /\ RenameCurrent
       \/ button = "del" /\ PromptDelete
       \/ button = "toggleAllSelectedFiles" /\ ToggleAllSelectedFiles
    /\ UNCHANGED <<connected, told, page>>

PressBookmark(d) ==
    /\ connected /\ d \in BookmarkButtons
    /\ Navigate(d)
    /\ UNCHANGED <<connected, told, page>>

\* Mutant of Updates: whether that is the root stays what it was.
UpdatesDirOnly ==
    page' = [PageOf(Info.dirPath, Info.isDir) EXCEPT !.isRootDir = page.isRootDir]

Updates == page' = PageOf(Info.dirPath, Info.isDir)

\* The timer.
TimerRuns ==
    /\ told /\ told' = FALSE
    /\ Updates
    /\ UNCHANGED <<vars, connected>>

ToolbarNext ==
    \/ Connect \/ PanelActs \/ TimerRuns
    \/ \E b \in FileToolbar : Press(b)
    \/ \E d \in Dirs : PressBookmark(d)

ToolbarSpec == ToolbarInit /\ [][ToolbarNext]_toolbarVars

-----------------------------------------------------------------------------
\* However answers race, a page that has been told of a current file and whose timers
\* have run has the directory on display, and offers what that panel allows: the way
\* up unless it shows the root, view, edit and download if the current file is none of
\* a directory (useFileManager.js:58 currentFileListener, FIleToolbar.js).
ToolbarFollows ==
    ~told /\ page # Unknown =>
        /\ page.dir = shown.dir
        /\ "goToParentDir" \in FileToolbar <=> shown.dir # Root
        /\ {"view", "edit", "download"} \subseteq FileToolbar <=> current \in Files

\* So CurrentInfo and, once its timers have run, the page are about the directory and
\* the current file on display.
PageFollows == InfoOfDirOnDisplay /\ ToolbarFollows
=============================================================================

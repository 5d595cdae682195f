------------------------------ MODULE Keyboard ------------------------------
(***************************************************************************)
(* The keys and clicks of the file panel (client/key, client/listeners):   *)
(* the cursor, the selection, the vim commands with their unfinished       *)
(* command and visual mode, the search for a file and the search by its    *)
(* first letter.  They act on the table on display while the answers to    *)
(* earlier requests come in: a new table replaces the old one, and the     *)
(* size a Space asked for lets the rest of that key run.                   *)
(*                                                                         *)
(* Names are numbers in the order of the table, ".." is 0.  The vim        *)
(* command is kept to three characters, of which 2 stands for any digit    *)
(* and x for whatever has no meaning in a command: nothing behind an x or  *)
(* behind the third can make a difference.                                 *)
(***************************************************************************)
EXTENDS Integers, Sequences, FiniteSets, FiniteSetsExt

CONSTANTS
    Entries, Dirs,      \* the names that may be listed; directories of them
    Letter,             \* the first letter of a name
    Tables,             \* the tables the server may answer with
    Habits,             \* each the keys one user knows
    MaxWaiting,         \* bound on the sizes asked for and not answered
    MaxIndex            \* bound on n and N without anything found

Up == 0

ASSUME KeyboardAssumption ==
    /\ Entries \subseteq Nat \ {Up} /\ IsFiniteSet(Entries) /\ Dirs \subseteq Entries
    /\ DOMAIN Letter = Entries
    /\ Tables \subseteq (SUBSET (Entries \cup {Up})) \ {{}}
    \* parseInt skips a space and reads a sign in front of a number
    /\ \A habit \in Habits : "2" \in habit => habit \cap {"Space", "+", "-"} = {}
    /\ MaxWaiting \in Nat /\ MaxIndex \in Nat

VARIABLES
    keys,               \* what this user presses
    names,              \* the table
    current, selected,  \* the elements of class current-file, selected-file
    vim,                \* config('vim')
    store, visual,      \* of vim.js: the unfinished command, visual mode
    found, foundAt,     \* of find.js: the names found, in order; the last visited
    chars,              \* the letter pressed last and how often, as Chars has it
    waiting,            \* the Spaces that wait for a size, oldest first
    dialog,             \* the dialog on display; it takes the keys
    sweep,              \* history: what visual mode started from and went over
    wanted,             \* history: what selected is once no size is awaited
    presses             \* history: of chars.char, with no table and no click to
                        \* another file in between; 0: unknown

vars == <<keys, names, current, selected, vim, store, visual, found, foundAt,
          chars, waiting, dialog, sweep, wanted, presses>>
command == <<store, visual>>
search  == <<found, foundAt>>
letters == <<chars, presses>>
chosen  == <<selected, sweep, wanted>>

NoChars  == [char |-> "", n |-> 0]
NoDialog == [kind |-> "none", files |-> {}, attached |-> FALSE]
NoSweep  == [known |-> FALSE, base |-> {}, over |-> {}]

Init ==
    /\ keys \in Habits
    /\ names \in Tables
    /\ current = Min(names) /\ selected = {}
    /\ vim \in BOOLEAN
    /\ store = <<>> /\ visual = FALSE
    /\ found = {} /\ foundAt = 0
    /\ chars = NoChars /\ presses = 0
    /\ waiting = <<>> /\ dialog = NoDialog
    /\ sweep = NoSweep /\ wanted = {}

-----------------------------------------------------------------------------
(* The table. *)

AllFiles == names \ {Up}

\* The (i+1)-th of a sorted list of names, i counted from 0 as in the code.
At(list, i) == CHOOSE n \in list : Cardinality({m \in list : m < n}) = i

\* current and the next n of its siblings, or the previous n.
Span(direction, n) ==
    LET between(m) == {k \in names : IF direction = "next" THEN current < k /\ k <= m
                                                           ELSE m <= k /\ k < current}
    IN  {m \in names : /\ IF direction = "next" THEN m >= current ELSE m <= current
                       /\ Cardinality(between(m)) <= n}

Far(direction, span) == IF direction = "next" THEN Max(span) ELSE Min(span)

Sibling(direction) == Far(direction, Span(direction, 1))

\* Mutant of Toggled: without the test of the name.
ToggledUnchecked(files, name) ==
    IF name \in files THEN files \ {name} ELSE files \cup {name}

\* toggleSelectedFile leaves ".." alone.
Toggled(files, name) ==
    IF name = Up THEN files
    ELSE IF name \in files THEN files \ {name} ELSE files \cup {name}

\* unselectFiles toggles what is selected.
Unselected == selected \cap {Up}

ActiveFiles(files, name) == IF files = {} /\ name # Up THEN {name} ELSE files

\* Operation.show('delete') on a table left with this selection and cursor.
AskDelete(files, name) ==
    dialog' = IF ActiveFiles(files, name) = {} THEN NoDialog
              ELSE [kind |-> "delete", files |-> ActiveFiles(files, name), attached |-> TRUE]

\* files, once all the sizes awaited on this table have come and toggled theirs.
Settled(files) ==
    {n \in names : Cardinality({i \in DOMAIN waiting :
                       waiting[i] \in [name : {n}, attached : {TRUE}, vim : BOOLEAN]})
                   % 2 = IF n \in files THEN 0 ELSE 1}

Select(files) == selected' = files /\ sweep' = NoSweep /\ wanted' = Settled(files)

Toggle(name) ==
    /\ selected' = Toggled(selected, name)
    /\ sweep' = NoSweep
    /\ wanted' = Toggled(wanted, name)

-----------------------------------------------------------------------------
(* key/vim/vim.js and key/vim/index.js *)

\* store with one more character, as far as it matters.
Extended(key) ==
    IF Len(store) = 3 \/ "x" \in {store[i] : i \in DOMAIN store} THEN store
    ELSE Append(store, key)

Many == Cardinality(Entries) + 1
NaN  == -1

IsDelete == store # <<>> /\ Head(store) = "d"

\* getNumber of the command, without the d: parseInt takes the digits in front.
Count ==
    LET s == IF IsDelete THEN Tail(store) ELSE store
    IN  IF s \in {<<>>, <<"g">>} THEN 1
        ELSE IF Head(s) # "2" THEN NaN
        ELSE IF Len(s) > 1 /\ s[2] = "2" THEN Many ELSE 2

\* Mutant of SetCurrent: the file the motion starts from is left out.
SetCurrentFromNext(direction, n, isVisual) ==
    LET span == Span(direction, n) IN
    /\ current' = Far(direction, span)
    /\ selected' = IF isVisual THEN selected \cup (span \ {Up, current})
                               ELSE selected \ span
    /\ sweep' = IF sweep.known /\ isVisual THEN [sweep EXCEPT !.over = @ \cup span]
                                           ELSE NoSweep
    /\ wanted' = Settled(selected')

\* setCurrent: selects what it passes in visual mode, else unselects it.
SetCurrent(direction, n, isVisual) ==
    LET span == Span(direction, n) IN
    /\ current' = Far(direction, span)
    /\ selected' = IF isVisual THEN selected \cup (span \ {Up}) ELSE selected \ span
    /\ sweep' = IF sweep.known /\ isVisual THEN [sweep EXCEPT !.over = @ \cup span]
                                           ELSE NoSweep
    /\ wanted' = Settled(selected')

vimUnchanged == <<keys, names, vim, found, foundAt, waiting>>

\* Every key that gets this far has emptied Chars.
Vim(key) ==
    /\ dialog = NoDialog /\ vim /\ key \in keys
    /\ chars' = NoChars /\ presses' = 0

\* Keys that are no command, or not yet one.
VimPending(key) ==
    /\ Vim(key)
    /\ \/ key \in {"2", "x"}
       \/ key = "d" /\ ~visual /\ store # <<"d">>
       \/ key = "g" /\ store # <<"g">>
    /\ store' = Extended(key)
    /\ UNCHANGED <<vimUnchanged, current, chosen, visual, dialog>>

\* j, k: handleDelete turns visual mode on, and it stays on.
VimMove(key) ==
    LET direction == IF key = "j" THEN "next" ELSE "previous" IN
    /\ Vim(key) /\ key \in {"j", "k"}
    /\ visual' = (visual \/ IsDelete)
    /\ store' = <<>>
    /\ IF Count = NaN THEN UNCHANGED <<current, chosen, dialog>>
       ELSE /\ SetCurrent(direction, Count, visual')
            /\ IF IsDelete THEN AskDelete(selected', current') ELSE UNCHANGED dialog
    /\ UNCHANGED vimUnchanged

\* gg, ^, G and $; only ^ can find a d in front of it, and only it heeds one.
VimToEnd(key) ==
    /\ Vim(key)
    /\ \/ key \in {"G", "^"}
       \/ key = "g" /\ store = <<"g">>
    /\ visual' = (visual \/ (key = "^" /\ IsDelete))
    /\ store' = <<>>
    /\ SetCurrent(IF key = "G" THEN "next" ELSE "previous", Many, visual')
    /\ IF key = "^" /\ IsDelete THEN AskDelete(selected', current') ELSE UNCHANGED dialog
    /\ UNCHANGED vimUnchanged

VimRemove ==
    /\ Vim("d")
    /\ visual \/ store = <<"d">>
    /\ visual' = FALSE /\ store' = <<>>
    /\ AskDelete(selected, current)
    /\ sweep' = NoSweep
    /\ UNCHANGED <<vimUnchanged, current, selected, wanted>>

\* y: Buffer.copy, then unselectFiles.
VimCopy ==
    /\ Vim("y")
    /\ visual' = FALSE /\ store' = <<>>
    /\ IF visual THEN Select(Unselected) ELSE UNCHANGED chosen
    /\ UNCHANGED <<vimUnchanged, current, dialog>>

\* v toggles visual mode and the current file.
VimVisual ==
    /\ Vim("v")
    /\ visual' = ~visual /\ store' = <<>>
    /\ selected' = Toggled(selected, current)
    /\ sweep' = IF visual THEN NoSweep
                ELSE [known |-> TRUE, base |-> selected', over |-> {}]
    /\ wanted' = Toggled(wanted, current)
    /\ UNCHANGED <<vimUnchanged, current, dialog>>

\* p pastes and Enter opens, which Clipboard and Panel model.
VimEnd(key) ==
    /\ Vim(key) /\ key \in {"p", "Enter"}
    /\ store' = <<>>
    /\ UNCHANGED <<vimUnchanged, current, chosen, visual, dialog>>

VimFind ==
    /\ Vim("/")
    /\ store' = <<>>
    /\ dialog' = [kind |-> "find", files |-> {}, attached |-> TRUE]
    /\ UNCHANGED <<vimUnchanged, current, chosen, visual>>

\* limier chooses among the names on display once the prompt is answered.
Found ==
    /\ dialog.kind = "find"
    /\ found' \in SUBSET names /\ foundAt' = 0
    /\ current' = IF found' = {} THEN current ELSE At(found', 0)
    /\ dialog' = NoDialog
    /\ UNCHANGED <<keys, names, chosen, vim, command, letters, waiting>>

\* Mutant of NextIndex: goes past the last one.
NextIndexUnbounded(i, n) == i + 1

NextIndex(i, n) == IF i = n - 1 THEN 0 ELSE i + 1

PreviousIndex(i, n) == IF i = 0 THEN n - 1 ELSE i - 1

\* n and N: a name that is not in the table is no element to go to.
VimFindNext(key) ==
    LET n == Cardinality(found)
        i == IF key = "n" THEN NextIndex(foundAt, n) ELSE PreviousIndex(foundAt, n)
    IN  /\ Vim(key) /\ key \in {"n", "N"}
        /\ i \in -MaxIndex..MaxIndex
        /\ foundAt' = i
        /\ current' = IF i \in 0..n - 1 /\ At(found, i) \in names THEN At(found, i)
                      ELSE current
        /\ store' = <<>>
        /\ UNCHANGED <<keys, names, vim, found, waiting, chosen, visual, dialog>>

\* toggleVim comes first: the key that turns vim off is no vim command, the one
\* that turns it on is.
Escape ==
    /\ dialog = NoDialog /\ "Escape" \in keys
    /\ vim' = ~vim
    /\ chars' = NoChars /\ presses' = 0
    /\ IF vim THEN UNCHANGED <<command, chosen>>
       ELSE store' = <<>> /\ visual' = FALSE /\ Select(Unselected)
    /\ UNCHANGED <<keys, names, current, search, waiting, dialog>>

-----------------------------------------------------------------------------
(* switchKey, followed by vim for the same key: none is a command. *)

Special(key) ==
    /\ dialog = NoDialog /\ key \in keys
    /\ chars' = NoChars /\ presses' = 0

ThenVim == store' = IF vim THEN Extended("x") ELSE store

specialUnchanged == <<keys, names, vim, visual, search>>

Arrow(key) ==
    /\ Special(key) /\ key \in {"Down", "Up"}
    /\ current' = Sibling(IF key = "Down" THEN "next" ELSE "previous")
    /\ ThenVim
    /\ UNCHANGED <<specialUnchanged, chosen, waiting, dialog>>

\* Home and End set the first and the last of Info.
HomeEnd(key) ==
    /\ Special(key) /\ key \in {"Home", "End"}
    /\ current' = IF key = "Home" THEN Min(names) ELSE Max(names)
    /\ ThenVim
    /\ UNCHANGED <<specialUnchanged, chosen, waiting, dialog>>

\* Page Down and Page Up go over thirty files, or to the end.
PageLength == 30

Page(key) ==
    LET direction == IF key = "PageDown" THEN "next" ELSE "previous" IN
    /\ Special(key) /\ key \in {"PageDown", "PageUp"}
    /\ current' = Far(direction, Span(direction, PageLength))
    /\ ThenVim
    /\ UNCHANGED <<specialUnchanged, chosen, waiting, dialog>>

\* What toggleSelectedFile returns has no setCurrentFile: Insert toggles and throws, so
\* neither the cursor moves nor does vim hear of the key.
Insert ==
    /\ Special("Insert")
    /\ Toggle(current)
    /\ UNCHANGED <<specialUnchanged, current, store, waiting, dialog>>

\* Shift with an arrow.
ToggleAndMove ==
    /\ Special("ShiftUp")
    /\ Toggle(current)
    /\ current' = Sibling("previous")
    /\ ThenVim
    /\ UNCHANGED <<specialUnchanged, waiting, dialog>>

SelectKey(key) ==
    /\ Special(key) /\ key \in {"*", "Ctrl+A"}
    /\ Select(IF key = "*" THEN (selected \cap {Up}) \cup (AllFiles \ selected)
                           ELSE selected \cup AllFiles)
    /\ ThenVim
    /\ UNCHANGED <<specialUnchanged, current, waiting, dialog>>

\* Space on a file, a selected directory or "..".
Space ==
    /\ Special("Space")
    /\ current \notin Dirs \ selected
    /\ Toggle(current)
    /\ ThenVim
    /\ UNCHANGED <<specialUnchanged, current, waiting, dialog>>

\* Space on a directory asks for its size first; the key waits for the answer.
SpaceAsks ==
    /\ Special("Space")
    /\ current \in Dirs \ selected /\ Len(waiting) < MaxWaiting
    /\ waiting' = Append(waiting, [name |-> current, attached |-> TRUE, vim |-> vim])
    /\ wanted' = Toggled(wanted, current)
    /\ UNCHANGED <<specialUnchanged, current, selected, store, sweep, dialog>>

Answered(i) == SubSeq(waiting, 1, i - 1) \o SubSeq(waiting, i + 1, Len(waiting))

\* Mutant of SizeArrives: the file that is current by now.
SizeArrivesForCurrent(i) ==
    /\ selected' = Toggled(selected, current) /\ sweep' = NoSweep
    /\ store' = IF waiting[i].vim THEN Extended("x") ELSE store
    /\ waiting' = Answered(i)
    /\ UNCHANGED <<keys, names, vim, visual, search, current, dialog, letters, wanted>>

\* It toggles the element of then, on display or not.
SizeArrives(i) ==
    /\ IF waiting[i].attached
         THEN selected' = Toggled(selected, waiting[i].name) /\ sweep' = NoSweep
         ELSE UNCHANGED <<selected, sweep>>
    /\ store' = IF waiting[i].vim THEN Extended("x") ELSE store
    /\ waiting' = Answered(i)
    /\ UNCHANGED <<keys, names, vim, visual, search, current, dialog, letters, wanted>>

\* +, -: the files are those on display when the prompt opens.
AskPattern(key) ==
    /\ Special(key) /\ key \in {"+", "-"}
    /\ dialog' = [kind |-> IF key = "+" THEN "expand" ELSE "shrink", files |-> names,
                  attached |-> TRUE]
    /\ ThenVim
    /\ UNCHANGED <<specialUnchanged, current, chosen, waiting>>

SelectByPattern ==
    /\ dialog.kind \in {"expand", "shrink"}
    /\ \E matching \in SUBSET (dialog.files \ {Up}) :
         IF ~dialog.attached THEN UNCHANGED chosen
         ELSE Select(IF dialog.kind = "expand" THEN selected \cup matching
                                               ELSE selected \ matching)
    /\ dialog' = NoDialog
    /\ UNCHANGED <<keys, names, current, vim, command, search, letters, waiting>>

CloseDialog ==
    /\ dialog # NoDialog
    /\ dialog' = NoDialog
    /\ UNCHANGED <<keys, names, current, chosen, vim, command, search, letters, waiting>>

-----------------------------------------------------------------------------
(* key/set-current-by-char.js *)

Matching(c) == {n \in AllFiles : Letter[n] = c}

\* Mutant of Skip: the store is not emptied by another letter.
SkipAny(c) == chars.n

Skip(c) == IF chars.char = c THEN chars.n ELSE 0

SetCurrentByChar(c) ==
    LET n == Cardinality(Matching(c)) IN
    /\ dialog = NoDialog /\ ~vim /\ c \in keys
    /\ IF Skip(c) < n
         THEN /\ current' = At(Matching(c), Skip(c))
              /\ chars' = [char |-> c, n |-> Skip(c) + 1]
         ELSE /\ current' = IF n = 0 THEN current ELSE At(Matching(c), 0)
              /\ chars' = [char |-> c, n |-> 1]
    /\ presses' = IF chars.char # c THEN 1
                  ELSE IF presses = 0 THEN 0
                  ELSE IF n = 0 THEN 1
                  ELSE IF presses = 2 * n THEN n + 1
                  ELSE presses + 1
    /\ UNCHANGED <<keys, names, chosen, vim, command, search, waiting, dialog>>

-----------------------------------------------------------------------------
(* listeners/index.js: mousedown, then click *)

\* getFilesRange: ".." counts as the first file.
FilesRange(from, to) ==
    LET index(n) == IF n \in AllFiles THEN n ELSE Min(AllFiles)
    IN  {n \in AllFiles : \/ index(from) <= n /\ n <= index(to)
                          \/ index(to) <= n /\ n <= index(from)}

mouseUnchanged == <<keys, names, vim, command, search, chars, waiting, dialog>>

\* The letter and how often it was pressed stay with the store of Chars.
Clicked(n) == current' = n /\ presses' = IF n = current THEN presses ELSE 0

Click(n) ==
    /\ dialog = NoDialog /\ "Click" \in keys /\ n \in names
    /\ Clicked(n)
    /\ Select(Unselected)
    /\ UNCHANGED mouseUnchanged

CtrlClick(n) ==
    /\ dialog = NoDialog /\ "Ctrl+Click" \in keys /\ n \in names
    /\ Clicked(n)
    /\ Toggle(n)
    /\ UNCHANGED mouseUnchanged

\* Where there is no file the range is of one undefined element, and selectFile
\* then takes the current one: "..".
ShiftClick(n) ==
    /\ dialog = NoDialog /\ "Shift+Click" \in keys /\ n \in names
    /\ Clicked(n)
    /\ Select(selected \cup IF AllFiles = {} THEN {n} ELSE FilesRange(current, n))
    /\ UNCHANGED mouseUnchanged

-----------------------------------------------------------------------------
\* The answer to an earlier request: another table, with nothing selected.
Render ==
    /\ names' \in Tables
    /\ current' \in names'
    /\ selected' = {} /\ sweep' = NoSweep /\ wanted' = {}
    /\ waiting' = [i \in DOMAIN waiting |-> [waiting[i] EXCEPT !.attached = FALSE]]
    /\ dialog' = [dialog EXCEPT !.attached = FALSE]
    /\ presses' = 0
    /\ UNCHANGED <<keys, vim, command, search, chars>>

Commands == {"d", "g", "2", "x", "j", "k", "G", "^", "p", "Enter", "n", "N"}

VimNext ==
    \/ \E key \in Commands : \/ VimPending(key) \/ VimMove(key) \/ VimToEnd(key)
                             \/ VimEnd(key) \/ VimFindNext(key)
    \/ VimRemove \/ VimCopy \/ VimVisual \/ VimFind

KeyNext ==
    \/ \E key \in {"Down", "Up", "Home", "End", "*", "Ctrl+A", "+", "-"} :
          Arrow(key) \/ HomeEnd(key) \/ SelectKey(key) \/ AskPattern(key)
    \/ \E key \in {"PageDown", "PageUp"} : Page(key)
    \/ Insert \/ ToggleAndMove \/ Space \/ SpaceAsks \/ Escape
    \/ \E c \in {Letter[n] : n \in Entries} : SetCurrentByChar(c)

MouseNext == \E n \in names : Click(n) \/ CtrlClick(n) \/ ShiftClick(n)

Next ==
    \/ VimNext \/ KeyNext \/ MouseNext
    \/ \E i \in DOMAIN waiting : SizeArrives(i)
    \/ Found \/ SelectByPattern \/ CloseDialog \/ Render

Spec == Init /\ [][Next]_vars

-----------------------------------------------------------------------------
Names == Entries \cup {Up}

\* Types; the cursor is in the table, and the search on a name it found.
KeyboardTypeOK ==
    /\ keys \in Habits /\ names \in Tables
    /\ current \in names /\ selected \subseteq names
    /\ vim \in BOOLEAN /\ visual \in BOOLEAN
    /\ store \in UNION {[1..n -> {"d", "g", "2", "x"}] : n \in 0..3}
    /\ found \subseteq Names /\ foundAt \in Int
    /\ found # {} => foundAt \in 0..Cardinality(found) - 1
    /\ chars.char \in {Letter[n] : n \in Entries} \cup {""}
    /\ chars.n \in 0..Cardinality(Entries)
    /\ waiting \in UNION {[1..n -> [name : Dirs, attached : BOOLEAN, vim : BOOLEAN]] :
                            n \in 0..MaxWaiting}
    /\ dialog \in [kind : {"none", "delete", "find", "expand", "shrink"},
                   files : SUBSET Names, attached : BOOLEAN]
    /\ sweep \in [known : BOOLEAN, base : SUBSET Names, over : SUBSET Names]
    /\ wanted \subseteq names
    /\ presses \in 0..2 * Cardinality(Entries)

\* ".." is never part of what an operation works on, by whatever keys the files
\* were selected and however tables came in (dom/index.js:361, key/vim/index.js:79,
\* dom/index.js:385 each leave it out) - where the directory has a file at all.
ParentLeftAlone ==
    AllFiles # {} => /\ Up \notin selected
                     /\ dialog.kind = "delete" /\ dialog.attached => Up \notin dialog.files

\* In visual mode the selection is what it was when v was pressed and every file a
\* motion went over since, the one it started from included: HELP.md:217, y copies
\* the "selected in visual mode files".
VisualTakesSwept ==
    visual /\ sweep.known =>
        selected = sweep.base \cup (sweep.over \ {Up})

\* Each Space, Insert and Ctrl+click counts once for the file it was pressed on,
\* however late the size comes that a Space waits for and whatever is current,
\* selected or on display by then (key/index.js:287): two Spaces on a directory
\* leave it as it was, in whatever order the sizes come.
TogglesCountOnce == Settled(selected) = wanted

\* A letter pressed again and again goes round all the files it begins, none left
\* out, from the first one.
LetterGoesRound ==
    LET n == Cardinality(Matching(chars.char)) IN
    presses > 0 /\ n > 0 => current = At(Matching(chars.char), (presses - 1) % n)
=============================================================================

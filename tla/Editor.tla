------------------------------- MODULE Editor -------------------------------
(***************************************************************************)
(* Editing a file in the browser: EditFile.show and what closing the       *)
(* editor asks (client/modules/edit-file.js), and the way the text gets    *)
(* there, from the server or from the copy in localStorage that a hash     *)
(* vouches for (client/dom/index.js, getCurrentData).  A file that is not  *)
(* on display yet is being shown; the user may press F4 again meanwhile,   *)
(* or move the cursor.                                                     *)
(***************************************************************************)
EXTENDS Naturals, FiniteSets

CONSTANTS
    Files, Shows,       \* calls of show that may be under way together
    None,               \* what is missing, or what a failed request answers
    MaxVersions         \* texts written by the user and by others

\* A text: the file it was made for, and when.  A hash is as good as the text.
Texts == [of : Files, version : 0..MaxVersions]

ASSUME EditorAssumption == MaxVersions \in Nat /\ None \notin Files \cup Texts

VARIABLES
    content,            \* the files on the server
    hashStore, dataStore, \* `${path}-hash` and `${path}-data` in localStorage
    current,            \* the current file of the panel, Info.path
    show,               \* [step, path, hash, hashNew, data, since] of a call
    editor,             \* [open, path, value, changed, since]
    versions,           \* how many texts there are
    pending,            \* history: what was typed, and neither saved nor given up
    moved, doubled      \* history: the cursor moved; another call began or the
                        \* storage was cleared; while a call was under way

vars == <<content, hashStore, dataStore, current, show, editor, versions, pending,
          moved, doubled>>
store == <<hashStore, dataStore>>
history == <<pending, moved, doubled>>

Ended == [step |-> "ended", path |-> None, hash |-> None, hashNew |-> None,
          data |-> None, since |-> 0]

Init ==
    /\ content = [f \in Files |-> [of |-> f, version |-> 0]]
    /\ hashStore = [f \in Files |-> None] /\ dataStore = [f \in Files |-> None]
    /\ current \in Files
    /\ show = [s \in Shows |-> Ended]
    /\ editor = [open |-> "no", path |-> None, value |-> None, changed |-> FALSE,
                 since |-> 0]
    /\ versions = 0 /\ pending = 0
    /\ moved = FALSE /\ doubled = FALSE

UnderWay == {s \in Shows : show[s].step # "ended"}

NewText(f) == [of |-> f, version |-> versions + 1]

-----------------------------------------------------------------------------
(* show: the hash, and the data unless the store has them.                 *)

\* The keys of the panel are bound unless the editor or its dialog is open.
SetCurrentFile(f) ==
    /\ editor.open = "no" /\ f # current
    /\ current' = f
    /\ moved' = (moved \/ UnderWay # {})
    /\ UNCHANGED <<content, store, show, editor, versions, pending, doubled>>

\* Both hashes are asked for at once; that of the store is there at once.
CheckStorageHash(f) ==
    [step |-> "hash", path |-> f, hash |-> hashStore[f], hashNew |-> None,
     data |-> None, since |-> content[f].version]

Show(s) ==
    /\ editor.open = "no" /\ show[s].step = "ended"
    /\ show' = [show EXCEPT ![s] = CheckStorageHash(current)]
    /\ doubled' = (doubled \/ UnderWay # {})
    /\ UNCHANGED <<content, store, current, editor, versions, pending, moved>>

\* Ctrl+D clears localStorage, the hashes and texts of all files.
ClearStorage ==
    /\ editor.open = "no"
    /\ hashStore' = [f \in Files |-> None] /\ dataStore' = [f \in Files |-> None]
    /\ doubled' = (doubled \/ UnderWay # {})
    /\ UNCHANGED <<content, current, show, editor, versions, pending, moved>>

ServerHashes(s) ==
    /\ show[s].step = "hash"
    /\ \E h \in {content[show[s].path], None} :
         show' = [show EXCEPT ![s].step = "hashed", ![s].hashNew = h]
    /\ UNCHANGED <<content, store, current, editor, versions, history>>

\* Mutant of OpenedPath: the editor keeps the path it was first given.
FirstPath == IF editor.path = None THEN current ELSE editor.path

\* EditFile reads Info.path after the await.
OpenedPath == current

\* setValueFirst: whatever the editor holds is replaced, and counts as unchanged.  What
\* comes from a store that has been cleared since is no text at all.
Opens(s, data) ==
    /\ editor' = [open |-> "yes", path |-> OpenedPath, value |-> data,
                  changed |-> FALSE, since |-> show[s].since]
    /\ show' = [show EXCEPT ![s] = Ended]

HashKnown(h) == h # None

\* "Can't get hash of a file": nothing is opened.
HashMissing(s) ==
    /\ show[s].step = "hashed" /\ ~HashKnown(show[s].hashNew)
    /\ show' = [show EXCEPT ![s] = Ended]
    /\ UNCHANGED <<content, store, current, editor, versions, history>>

\* Mutant of Unchanged: what was stored once is good for ever.
StoredOnce(s) == show[s].hash # None

Unchanged(s) == show[s].hash = show[s].hashNew

OpensStored(s) ==
    /\ show[s].step = "hashed" /\ HashKnown(show[s].hashNew)
    /\ Unchanged(s)
    /\ Opens(s, dataStore[show[s].path])
    /\ UNCHANGED <<content, store, current, versions, history>>

AsksForData(s) ==
    /\ show[s].step = "hashed" /\ HashKnown(show[s].hashNew)
    /\ ~Unchanged(s)
    /\ show' = [show EXCEPT ![s].step = "data"]
    /\ UNCHANGED <<content, store, current, editor, versions, history>>

ServerReads(s) ==
    /\ show[s].step = "data"
    /\ \E d \in {content[show[s].path], None} :
         show' = [show EXCEPT ![s].step = "read", ![s].data = d]
    /\ UNCHANGED <<content, store, current, editor, versions, history>>

ReadFails(s) ==
    /\ show[s].step = "read" /\ show[s].data = None
    /\ show' = [show EXCEPT ![s] = Ended]
    /\ UNCHANGED <<content, store, current, editor, versions, history>>

\* saveDataToStorage, for a file that is in the store already.
OpensRead(s) ==
    LET f == show[s].path
        stored == show[s].hash # None
    IN  /\ show[s].step = "read" /\ show[s].data # None
        /\ hashStore' = IF stored THEN [hashStore EXCEPT ![f] = show[s].hashNew]
                                  ELSE hashStore
        /\ dataStore' = IF stored THEN [dataStore EXCEPT ![f] = show[s].data]
                                  ELSE dataStore
        /\ Opens(s, show[s].data)
        /\ UNCHANGED <<content, current, versions, history>>

-----------------------------------------------------------------------------
(* The editor.                                                             *)

Type ==
    LET f == IF editor.value = None THEN editor.path ELSE editor.value.of IN
    /\ editor.open = "yes" /\ versions < MaxVersions
    /\ versions' = versions + 1
    /\ editor' = [editor EXCEPT !.value = NewText(f), !.changed = TRUE]
    /\ pending' = versions'
    /\ UNCHANGED <<content, store, current, show, moved, doubled>>

\* The editor writes its text to its path, and text and hash to the store.
Write ==
    /\ content' = [content EXCEPT ![editor.path] = editor.value]
    /\ hashStore' = [hashStore EXCEPT ![editor.path] = editor.value]
    /\ dataStore' = [dataStore EXCEPT ![editor.path] = editor.value]
    /\ pending' = IF editor.value.version = pending THEN 0 ELSE pending

Save ==
    /\ editor.open = "yes" /\ editor.changed
    /\ Write
    /\ editor' = [editor EXCEPT !.changed = FALSE]
    /\ UNCHANGED <<current, show, versions, moved, doubled>>

\* Mutant of AfterClose: beforeClose does not ask.
ClosesUnasked == "no"

AfterClose == IF editor.changed THEN "asking" ELSE "no"

\* beforeClose: "Do you want to save changes?"
Close ==
    /\ editor.open = "yes"
    /\ editor' = [editor EXCEPT !.open = AfterClose]
    /\ UNCHANGED <<content, store, current, show, versions, history>>

\* The answer is about whatever the editor holds by then.
AgreeToSave ==
    /\ editor.open = "asking"
    /\ Write
    /\ editor' = [editor EXCEPT !.open = "no", !.changed = FALSE]
    /\ UNCHANGED <<current, show, versions, moved, doubled>>

Decline ==
    /\ editor.open = "asking"
    /\ editor' = [editor EXCEPT !.open = "no"]
    /\ pending' = 0
    /\ UNCHANGED <<content, store, current, show, versions, moved, doubled>>

\* Another program writes a file.
OthersWrite(f) ==
    /\ versions < MaxVersions
    /\ versions' = versions + 1
    /\ content' = [content EXCEPT ![f] = NewText(f)]
    /\ UNCHANGED <<store, current, show, editor, history>>

Next ==
    \/ \E f \in Files : SetCurrentFile(f) \/ OthersWrite(f)
    \/ \E s \in Shows :
         \/ Show(s) \/ ServerHashes(s) \/ HashMissing(s) \/ OpensStored(s)
         \/ AsksForData(s) \/ ServerReads(s) \/ ReadFails(s) \/ OpensRead(s)
    \/ ClearStorage
    \/ Type \/ Save \/ Close \/ AgreeToSave \/ Decline

Spec == Init /\ [][Next]_vars

-----------------------------------------------------------------------------
EditorTypeOK ==
    /\ content \in [Files -> Texts]
    /\ hashStore \in [Files -> Texts \cup {None}]
    /\ dataStore \in [Files -> Texts \cup {None}]
    /\ current \in Files
    /\ show \in [Shows -> [step : {"ended", "hash", "hashed", "data", "read"},
                           path : Files \cup {None}, hash : Texts \cup {None},
                           hashNew : Texts \cup {None}, data : Texts \cup {None},
                           since : 0..MaxVersions]]
    /\ editor \in [open : {"no", "yes", "asking"}, path : Files \cup {None},
                   value : Texts \cup {None}, changed : BOOLEAN, since : 0..MaxVersions]
    /\ editor.path = None => editor.open = "no"
    /\ editor.changed => editor.value \in Texts
    /\ versions \in 0..MaxVersions /\ pending \in 0..versions
    /\ moved \in BOOLEAN /\ doubled \in BOOLEAN

\* What the editor shows is no older than what the file held when it was asked for,
\* from the store or not, unless F4 was pressed twice or the storage cleared before
\* the answer: dom/index.js:313 compares a hash it took from the store earlier, and
\* takes what data are there by then.
OpensFresh ==
    editor.open = "yes" /\ ~doubled => editor.value.version >= editor.since

\* A file is overwritten with a text made for it, unless the cursor moved between
\* F4 and the answer: edit-file.js:79 then names the text after another file.
SavesOwnFile ==
    moved \/ \A f \in Files : content[f].of = f

\* What was typed stays in the editor until it is saved or given up when it closes
\* (edit-file.js:191), unless F4 was pressed twice: the second answer replaces it.
EditsKept ==
    pending # 0 /\ ~doubled => editor.changed /\ editor.value.version = pending
=============================================================================

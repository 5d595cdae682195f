--------------------------- MODULE Editor_proofs ----------------------------
(***************************************************************************)
(* Proofs about Editor, for any files, calls and number of texts.  TypeInv *)
(* adds to the types what a call has found out at each of its steps;       *)
(* OwnInv says that, while the cursor stays, every text on its way belongs *)
(* to the file it is on its way to; CountInv that no text is newer than    *)
(* the last one written; AloneInv that a call of show that      *)
(* nobody disturbs is alone with the editor and the store, and how old     *)
(* what it brings can be.                                                  *)
(***************************************************************************)
EXTENDS Editor, TLAPS

TypeInv ==
    /\ EditorTypeOK
    /\ editor.open = "asking" => editor.changed
    /\ \A s \in Shows : show[s].step # "ended" => show[s].path \in Files

MadeFor(f, text) == text = None \/ text.of = f

OwnInv ==
    ~moved =>
      /\ \A f \in Files : content[f].of = f /\ MadeFor(f, hashStore[f])
                          /\ MadeFor(f, dataStore[f])
      /\ \A s \in Shows : show[s].step # "ended" =>
            /\ show[s].path = current
            /\ MadeFor(current, show[s].data) /\ MadeFor(current, show[s].hashNew)
      /\ editor.open # "no" => MadeFor(editor.path, editor.value)

Counted(text) == text = None \/ text.version <= versions

CountInv ==
    /\ \A f \in Files : Counted(content[f]) /\ Counted(hashStore[f]) /\ Counted(dataStore[f])
    /\ \A s \in Shows : Counted(show[s].hashNew) /\ Counted(show[s].data)
                        /\ show[s].since <= versions
    /\ Counted(editor.value) /\ editor.since <= versions

\* The steps of a call at which it knows the server's hash.
Asked == {"hashed", "data", "read"}

AsNew(a, b) == a # None /\ a.version >= b

AloneInv ==
    ~doubled =>
      /\ \A s, t \in Shows : show[s].step # "ended" /\ show[t].step # "ended" => s = t
      /\ \A s \in Shows : show[s].step # "ended" =>
            LET f == show[s].path IN
            /\ editor.open = "no"
            /\ show[s].hash = hashStore[f]
            /\ content[f].version >= show[s].since
            /\ show[s].step \in Asked /\ show[s].hashNew # None =>
                  /\ show[s].hashNew.version >= show[s].since
                  /\ content[f].version >= show[s].hashNew.version
            /\ show[s].step \in {"data", "read"} => show[s].hashNew # None
            /\ show[s].step = "read" /\ show[s].data # None =>
                  show[s].data.version >= show[s].hashNew.version
      /\ \A f \in Files : hashStore[f] # None => AsNew(dataStore[f], hashStore[f].version)
      /\ editor.open # "no" => AsNew(editor.value, editor.since)
      /\ pending # 0 => editor.open # "no" /\ editor.changed
                        /\ editor.value.version = pending

-----------------------------------------------------------------------------

\* No show of the editor has begun.
LEMMA InitTypeInv == Init => TypeInv
<1> SUFFICES ASSUME Init PROVE TypeInv
  OBVIOUS
<1>1. 0 \in 0..MaxVersions /\ 0 \in 0..0
  BY EditorAssumption
<1>2. content \in [Files -> Texts]
  BY <1>1 DEF Init, Texts
<1>3. show \in [Shows -> {Ended}]
  BY DEF Init
<1>4. Ended \in [step : {"ended", "hash", "hashed", "data", "read"},
                 path : Files \cup {None}, hash : Texts \cup {None},
                 hashNew : Texts \cup {None}, data : Texts \cup {None},
                 since : 0..MaxVersions]
  BY <1>1 DEF Ended
<1>5. editor \in [open : {"no", "yes", "asking"}, path : Files \cup {None},
                 value : Texts \cup {None}, changed : BOOLEAN, since : 0..MaxVersions]
  BY <1>1 DEF Init
<1>6. EditorTypeOK
  BY <1>1, <1>2, <1>3, <1>4, <1>5 DEF Init, EditorTypeOK
<1> QED
  BY <1>3, <1>6 DEF Init, TypeInv, Ended

\* A text made for a file is one, as long as there may be another.
LEMMA NewTextIsText ==
  ASSUME TypeInv, versions < MaxVersions, NEW f \in Files
  PROVE  NewText(f) \in Texts /\ versions + 1 \in 0..MaxVersions
  BY EditorAssumption DEF NewText, Texts, TypeInv, EditorTypeOK

\* What typing leaves behind.
LEMMA TypesText ==
  ASSUME TypeInv, Type
  PROVE  /\ versions' = versions + 1 /\ pending' = versions'
         /\ UNCHANGED <<content, hashStore, dataStore, current, show, moved, doubled>>
         /\ editor'.open = "yes" /\ editor'.since = editor.since /\ editor'.changed
         /\ editor'.path = editor.path
         /\ editor'.value \in Texts /\ editor'.value.version = versions'
<1>1. PICK f \in Files : editor' = [editor EXCEPT !.value = NewText(f), !.changed = TRUE]
  BY DEF Type, Texts, TypeInv, EditorTypeOK
<1>2. NewText(f) \in Texts /\ NewText(f).version = versions + 1
  BY NewTextIsText DEF Type, NewText
<1>3. /\ editor'.open = editor.open /\ editor'.since = editor.since
      /\ editor'.path = editor.path
      /\ editor'.changed /\ editor'.value = NewText(f)
  BY <1>1 DEF TypeInv, EditorTypeOK
<1>4. editor.open = "yes" /\ versions' = versions + 1 /\ pending' = versions'
      /\ UNCHANGED <<content, hashStore, dataStore, current, show, moved, doubled>>
  BY DEF Type, store
<1> QED
  BY <1>2, <1>3, <1>4

\* TypeInv is inductive, for both stores, the panel and each show under way.
LEMMA NextTypeInv == TypeInv /\ [Next]_vars => TypeInv'
<1> SUFFICES ASSUME TypeInv, [Next]_vars PROVE TypeInv'
  OBVIOUS
<1> USE EditorAssumption DEF TypeInv, EditorTypeOK, store, history
<1>1. CASE UNCHANGED vars
  BY <1>1 DEF vars
<1>2. ASSUME NEW f \in Files, SetCurrentFile(f) PROVE TypeInv'
  BY <1>2 DEF SetCurrentFile
<1>3. ASSUME NEW f \in Files, OthersWrite(f) PROVE TypeInv'
  BY <1>3, NewTextIsText DEF OthersWrite
<1>4. ASSUME NEW s \in Shows, Show(s) PROVE TypeInv'
  <2>1. content[current].version \in 0..MaxVersions
    BY DEF Texts
  <2> QED
    BY <1>4, <2>1 DEF Show, CheckStorageHash
<1>5. ASSUME NEW s \in Shows, ServerHashes(s) \/ AsksForData(s) \/ ServerReads(s)
      PROVE  TypeInv'
  BY <1>5 DEF ServerHashes, AsksForData, ServerReads
<1>6. ASSUME NEW s \in Shows, HashMissing(s) \/ ReadFails(s) PROVE TypeInv'
  BY <1>6 DEF HashMissing, ReadFails, Ended
<1>7. ASSUME NEW s \in Shows, OpensStored(s) PROVE TypeInv'
  BY <1>7 DEF OpensStored, Opens, OpenedPath, Ended
<1>8. ASSUME NEW s \in Shows, OpensRead(s) PROVE TypeInv'
  BY <1>8 DEF OpensRead, Opens, OpenedPath, Ended
<1>9. CASE ClearStorage
  BY <1>9 DEF ClearStorage
<1>10. CASE Type
  <2>1. (IF editor.value = None THEN editor.path ELSE editor.value.of) \in Files
    BY <1>10 DEF Type, Texts
  <2>2. PICK f \in Files : editor' = [editor EXCEPT !.value = NewText(f), !.changed = TRUE]
    BY <1>10, <2>1 DEF Type
  <2>3. NewText(f) \in Texts /\ versions' \in 0..MaxVersions /\ pending' \in 0..versions'
    BY <1>10, NewTextIsText DEF Type
  <2> QED
    BY <1>10, <2>2, <2>3 DEF Type
<1>11. CASE Save \/ AgreeToSave
  <2>1. editor.path \in Files /\ editor.value \in Texts
    BY <1>11 DEF Save, AgreeToSave
  <2>2. /\ content' \in [Files -> Texts] /\ hashStore' \in [Files -> Texts \cup {None}]
        /\ dataStore' \in [Files -> Texts \cup {None}] /\ pending' \in 0..versions
    BY <1>11, <2>1 DEF Save, AgreeToSave, Write
  <2>3. CASE Save
    BY <2>2, <2>3 DEF Save
  <2>4. CASE AgreeToSave
    BY <2>2, <2>4 DEF AgreeToSave
  <2> QED
    BY <1>11, <2>3, <2>4
<1>12. CASE Close \/ Decline
  BY <1>12 DEF Close, Decline, AfterClose
<1> QED
  BY <1>1, <1>2, <1>3, <1>4, <1>5, <1>6, <1>7, <1>8, <1>9, <1>10, <1>11, <1>12 DEF Next

\* Every variable keeps its type, and the dialog asks only about a changed text.
THEOREM TypeCorrect == Spec => []EditorTypeOK
<1>1. TypeInv => EditorTypeOK
  BY DEF TypeInv
<1> QED
  BY InitTypeInv, NextTypeInv, <1>1, PTL DEF Spec

-----------------------------------------------------------------------------
(* The cursor stays.                                                       *)

\* There is no text that could be another file's.
LEMMA InitOwnInv == Init => OwnInv
  BY DEF Init, OwnInv, MadeFor, Ended

\* Without a move of the cursor during a show, path, text and hash stay those of one file.
LEMMA NextOwnInv == TypeInv /\ OwnInv /\ [Next]_vars => OwnInv'
<1> SUFFICES ASSUME TypeInv, OwnInv, [Next]_vars, ~moved' PROVE OwnInv'
  BY DEF OwnInv
<1>0. ~moved
  BY DEF Next, SetCurrentFile, OthersWrite, Show, ServerHashes, HashMissing, OpensStored,
         AsksForData, ServerReads, ReadFails, OpensRead, ClearStorage, Type, Save, Close,
         AgreeToSave, Decline, vars, history
<1> USE <1>0 DEF TypeInv, EditorTypeOK, OwnInv, MadeFor, store, history
<1>1. CASE UNCHANGED vars
  BY <1>1 DEF vars
<1>2. ASSUME NEW f \in Files, SetCurrentFile(f) PROVE OwnInv'
  <2>1. \A s \in Shows : show[s].step = "ended"
    BY <1>2 DEF SetCurrentFile, UnderWay
  <2> QED
    BY <1>2, <2>1 DEF SetCurrentFile
<1>3. ASSUME NEW f \in Files, OthersWrite(f) PROVE OwnInv'
  BY <1>3 DEF OthersWrite, NewText
<1>4. ASSUME NEW s \in Shows, Show(s) PROVE OwnInv'
  BY <1>4 DEF Show, CheckStorageHash
<1>5. ASSUME NEW s \in Shows, ServerHashes(s) \/ AsksForData(s) \/ ServerReads(s)
      PROVE  OwnInv'
  BY <1>5 DEF ServerHashes, AsksForData, ServerReads
<1>6. ASSUME NEW s \in Shows, HashMissing(s) \/ ReadFails(s) PROVE OwnInv'
  BY <1>6 DEF HashMissing, ReadFails, Ended
<1>7. ASSUME NEW s \in Shows, OpensStored(s) PROVE OwnInv'
  BY <1>7 DEF OpensStored, Opens, OpenedPath, Ended
<1>8. ASSUME NEW s \in Shows, OpensRead(s) PROVE OwnInv'
  BY <1>8 DEF OpensRead, Opens, OpenedPath, Ended
<1>9. CASE ClearStorage
  BY <1>9 DEF ClearStorage
<1>10. CASE Type
  BY <1>10 DEF Type, NewText
<1>11. CASE Save \/ AgreeToSave
  <2>1. editor.path \in Files /\ editor.value \in Texts /\ editor.value.of = editor.path
    BY <1>11, EditorAssumption DEF Save, AgreeToSave
  <2>2. CASE Save
    BY <2>1, <2>2 DEF Save, Write
  <2>3. CASE AgreeToSave
    BY <2>1, <2>3 DEF AgreeToSave, Write
  <2> QED
    BY <1>11, <2>2, <2>3
<1>12. CASE Close \/ Decline
  BY <1>12 DEF Close, Decline, AfterClose
<1> QED
  BY <1>1, <1>2, <1>3, <1>4, <1>5, <1>6, <1>7, <1>8, <1>9, <1>10, <1>11, <1>12 DEF Next

\* While the cursor stays where it was during F4, no file gets the text of another.
THEOREM OwnFile == Spec => []SavesOwnFile
<1>1. OwnInv => SavesOwnFile
  BY DEF OwnInv, SavesOwnFile
<1> QED
  BY InitTypeInv, NextTypeInv, InitOwnInv, NextOwnInv, <1>1, PTL DEF Spec

-----------------------------------------------------------------------------
(* F4 once at a time.                                                      *)

\* No show has counted a version.
LEMMA InitCountInv == Init => CountInv
  BY DEF Init, CountInv, Counted, Ended

\* Versions are given out in order, and a show remembers the one of its beginning.
LEMMA NextCountInv == TypeInv /\ CountInv /\ [Next]_vars => CountInv'
<1> SUFFICES ASSUME TypeInv, CountInv, [Next]_vars PROVE CountInv'
  OBVIOUS
<1>i. /\ versions \in Nat /\ \A t \in Texts : t.version \in Nat
      /\ \A s \in Shows : show[s].since \in Nat
      /\ editor.since \in Nat
  BY EditorAssumption DEF Texts, TypeInv, EditorTypeOK
<1> USE <1>i, EditorAssumption DEF TypeInv, EditorTypeOK, CountInv, Counted, store, history
<1>1. CASE UNCHANGED vars
  BY <1>1 DEF vars
<1>2. ASSUME NEW f \in Files, SetCurrentFile(f) PROVE CountInv'
  BY <1>2 DEF SetCurrentFile
<1>3. ASSUME NEW f \in Files, OthersWrite(f) PROVE CountInv'
  BY <1>3 DEF OthersWrite, NewText
<1>4. ASSUME NEW s \in Shows, Show(s) PROVE CountInv'
  BY <1>4 DEF Show, CheckStorageHash
<1>5. ASSUME NEW s \in Shows, ServerHashes(s) \/ AsksForData(s) \/ ServerReads(s)
      PROVE  CountInv'
  BY <1>5 DEF ServerHashes, AsksForData, ServerReads
<1>6. ASSUME NEW s \in Shows, HashMissing(s) \/ ReadFails(s) PROVE CountInv'
  BY <1>6 DEF HashMissing, ReadFails, Ended
<1>7. ASSUME NEW s \in Shows, OpensStored(s) PROVE CountInv'
  BY <1>7 DEF OpensStored, Opens, OpenedPath, Ended
<1>8. ASSUME NEW s \in Shows, OpensRead(s) PROVE CountInv'
  BY <1>8 DEF OpensRead, Opens, OpenedPath, Ended
<1>9. CASE ClearStorage
  BY <1>9 DEF ClearStorage
<1>10. CASE Type
  <2>1. \A t \in Texts : Counted(t) => t.version <= versions + 1
    BY EditorAssumption
  <2>2. editor'.value.version <= versions' /\ editor'.since <= versions'
    BY <1>10, TypesText
  <2> QED
    BY <1>10, <2>1, <2>2, TypesText
<1>11. CASE Save \/ AgreeToSave
  <2>1. CASE Save
    BY <2>1 DEF Save, Write
  <2>2. CASE AgreeToSave
    BY <2>2 DEF AgreeToSave, Write
  <2> QED
    BY <1>11, <2>1, <2>2
<1>12. CASE Close \/ Decline
  BY <1>12 DEF Close, Decline, AfterClose
<1> QED
  BY <1>1, <1>2, <1>3, <1>4, <1>5, <1>6, <1>7, <1>8, <1>9, <1>10, <1>11, <1>12 DEF Next

\* No show is under way and the stores are empty.
LEMMA InitAloneInv == Init => AloneInv
<1> SUFFICES ASSUME Init PROVE AloneInv
  OBVIOUS
<1>1. \A f \in Files : content[f].version = 0 /\ hashStore[f] = None
  BY DEF Init
<1>2. \A s \in Shows : show[s].step = "ended"
  BY DEF Init, Ended
<1>3. editor.open = "no" /\ pending = 0
  BY DEF Init
<1> QED
  BY <1>1, <1>2, <1>3 DEF AloneInv

\* With one show at a time, what a show has read is at least as new as its beginning, and
\* the stored text at least as new as its stored hash.
LEMMA NextAloneInv == TypeInv /\ CountInv /\ AloneInv /\ [Next]_vars => AloneInv'
<1> SUFFICES ASSUME TypeInv, CountInv, AloneInv, [Next]_vars, ~doubled' PROVE AloneInv'
  BY DEF AloneInv
<1>0. ~doubled
  BY DEF Next, SetCurrentFile, OthersWrite, Show, ServerHashes, HashMissing, OpensStored,
         AsksForData, ServerReads, ReadFails, OpensRead, ClearStorage, Type, Save, Close,
         AgreeToSave, Decline, vars, history
<1>i. /\ versions \in Nat /\ \A t \in Texts : t.version \in Nat
      /\ \A s \in Shows : show[s].since \in Nat
      /\ editor.since \in Nat
  BY EditorAssumption DEF Texts, TypeInv, EditorTypeOK
<1> USE <1>0, <1>i, EditorAssumption
    DEF TypeInv, EditorTypeOK, CountInv, Counted, AloneInv, AsNew, Asked, store, history
<1>1. CASE UNCHANGED vars
  BY <1>1 DEF vars
<1>2. ASSUME NEW f \in Files, SetCurrentFile(f) PROVE AloneInv'
  BY <1>2 DEF SetCurrentFile
<1>3. ASSUME NEW f \in Files, OthersWrite(f) PROVE AloneInv'
  BY <1>3 DEF OthersWrite, NewText
<1>4. ASSUME NEW s \in Shows, Show(s) PROVE AloneInv'
  <2>1. editor.open = "no" /\ \A t \in Shows : show[t].step = "ended"
    BY <1>4 DEF Show, UnderWay
  <2>2. show' = [show EXCEPT ![s] = CheckStorageHash(current)]
    BY <1>4 DEF Show
  <2>3. /\ show'[s].path = current /\ show'[s].hash = hashStore[current]
        /\ show'[s].step = "hash" /\ show'[s].since = content[current].version
    BY <2>2 DEF CheckStorageHash
  <2>4. \A t \in Shows : t # s => show'[t].step = "ended"
    BY <2>1, <2>2
  <2>5. UNCHANGED <<content, store, editor, versions, pending>>
    BY <1>4 DEF Show
  <2> QED
    BY <2>1, <2>3, <2>4, <2>5
<1>5. ASSUME NEW s \in Shows, ServerHashes(s) \/ AsksForData(s) \/ ServerReads(s)
      PROVE  AloneInv'
  <2>1. CASE ServerHashes(s)
    BY <2>1 DEF ServerHashes
  <2>2. CASE AsksForData(s)
    BY <2>2 DEF AsksForData, HashKnown
  <2>3. CASE ServerReads(s)
    BY <2>3 DEF ServerReads
  <2> QED
    BY <1>5, <2>1, <2>2, <2>3
<1>6. ASSUME NEW s \in Shows, HashMissing(s) \/ ReadFails(s) PROVE AloneInv'
  BY <1>6 DEF HashMissing, ReadFails, Ended
<1>7. ASSUME NEW s \in Shows, OpensStored(s) PROVE AloneInv'
  BY <1>7 DEF OpensStored, Opens, OpenedPath, Ended, HashKnown, Unchanged
<1>8. ASSUME NEW s \in Shows, OpensRead(s) PROVE AloneInv'
  BY <1>8 DEF OpensRead, Opens, OpenedPath, Ended
<1>9. CASE ClearStorage
  BY <1>9 DEF ClearStorage, UnderWay
<1>10. CASE Type
  <2>1. \A s \in Shows : show[s].step = "ended"
    BY <1>10 DEF Type
  <2>2. AsNew(editor'.value, editor'.since)
    BY <1>10, TypesText
  <2>3. editor'.value.version = pending' /\ editor'.changed /\ editor'.open # "no"
    BY <1>10, TypesText
  <2> QED
    BY <1>10, <2>1, <2>2, <2>3, TypesText
<1>11. CASE Save \/ AgreeToSave
  <2>1. editor.path \in Files /\ editor.value \in Texts
    BY <1>11 DEF Save, AgreeToSave
  <2>2. \A s \in Shows : show[s].step = "ended"
    BY <1>11 DEF Save, AgreeToSave
  <2>3. CASE Save
    BY <2>1, <2>2, <2>3 DEF Save, Write
  <2>4. CASE AgreeToSave
    BY <2>1, <2>2, <2>4 DEF AgreeToSave, Write
  <2> QED
    BY <1>11, <2>3, <2>4
<1>12. CASE Close \/ Decline
  BY <1>12 DEF Close, Decline, AfterClose
<1> QED
  BY <1>1, <1>2, <1>3, <1>4, <1>5, <1>6, <1>7, <1>8, <1>9, <1>10, <1>11, <1>12 DEF Next

\* With F4 pressed once at a time, neither an old text is shown for a new one, ...
THEOREM Fresh == Spec => []OpensFresh
<1>1. AloneInv => OpensFresh
  BY DEF AloneInv, OpensFresh, AsNew
<1> QED
  BY InitTypeInv, NextTypeInv, InitCountInv, NextCountInv, InitAloneInv,
     NextAloneInv, <1>1, PTL DEF Spec

\* ... nor is what was typed replaced before it is saved or given up.
THEOREM Kept == Spec => []EditsKept
<1>1. AloneInv => EditsKept
  BY DEF AloneInv, EditsKept
<1> QED
  BY InitTypeInv, NextTypeInv, InitCountInv, NextCountInv, InitAloneInv,
     NextAloneInv, <1>1, PTL DEF Spec
=============================================================================

--------------------------- MODULE Windows_proofs ---------------------------
(***************************************************************************)
(* Proofs about Windows and about Keyboard, which it extends, for any      *)
(* tables, keys, calls and number of windows.  KeysInv says who has the    *)
(* keys, and that two things over the panel are remembered by `over';      *)
(* NamesInv which files the names in the editor were typed for.            *)
(*                                                                         *)
(* A key takes its way through Next, another step only through what        *)
(* WindowsOnly names.  TableInv is what the table, the cursor, the         *)
(* selection and the dialog have in common, and most else rests on it:     *)
(* SelectionInv on what visual mode swept, TogglesCountOnce on the sizes   *)
(* still awaited, LetterInv on the presses of one letter since it was      *)
(* known where the cursor is.  CallsInv says what a call has on its way to *)
(* a window and WindowsInv what the window has; PageInv counts the texts.  *)
(***************************************************************************)
EXTENDS Windows, SequenceTheorems, FiniteSetTheorems, TLAPS

KeysInv ==
    /\ \E S : windows \in Seq(S)
    /\ KeysComeBack
    /\ Len(windows) > 1 \/ (windows # <<>> /\ MenuShown) => over

NamesInv ==
    /\ editor = [names |-> editor.names, files |-> editor.files,
                 changed |-> editor.changed, still |-> editor.still]
    /\ editor.still /\ editor.names => editor.files = Active
    /\ NamesOfTheirFiles

-----------------------------------------------------------------------------
\* Nothing is open and the keys are the panel's.
LEMMA InitKeysInv == WindowsInit => KeysInv
<1> SUFFICES ASSUME WindowsInit PROVE KeysInv
  OBVIOUS
<1>1. windows \in Seq({})
  BY DEF WindowsInit
<1>2. windows = <<>> /\ menu = "none" /\ bound = TRUE
  BY DEF WindowsInit
<1>3. Len(windows) = 0
  BY <1>2
<1> QED
  BY <1>1, <1>2, <1>3 DEF KeysInv, KeysComeBack, Covered, MenuShown

\* Whatever opens over the panel takes the keys.
LEMMA OpenKeys ==
  ASSUME KeysInv, NEW call, NEW shown, Open(call, shown), menu' = menu
  PROVE  KeysInv'
<1> DEFINE w == [kind |-> call.kind, pressed |-> call.pressed,
                 shown |-> IF call.pressed = {} THEN <<>> ELSE shown]
<1> HIDE DEF w
<1>1. PICK S : windows \in Seq(S)
  BY DEF KeysInv
<1>2. bound' = FALSE /\ over' = (over \/ Covered)
  BY DEF Open, BeforeShow
<1>3. CASE windows' = <<w>>
  <2>1. windows' \in Seq({w}) /\ Len(windows') = 1 /\ windows' # <<>>
    BY <1>3
  <2>2. Covered'
    BY <2>1 DEF Covered
  <2>3. MenuShown' => over'
    BY <1>2 DEF MenuShown, Covered
  <2> QED
    BY <1>2, <2>1, <2>2, <2>3 DEF KeysInv, KeysComeBack
<1>4. CASE windows' = Append(windows, w)
  <2>1. windows \in Seq(S \cup {w})
    BY <1>1
  <2>2. windows' \in Seq(S \cup {w}) /\ Len(windows') = Len(windows) + 1
    BY <1>4, <2>1
  <2>3. windows' # <<>> /\ (Len(windows') > 1 => windows # <<>>)
    BY <1>1, <2>2
  <2>4. Covered' /\ (Len(windows') > 1 \/ MenuShown' => over')
    BY <1>2, <2>3 DEF MenuShown, Covered
  <2> QED
    BY <1>2, <2>2, <2>4 DEF KeysInv, KeysComeBack
<1> QED
  BY <1>3, <1>4 DEF Open, w

\* How long a prefix is.
LEMMA PrefixLength ==
  ASSUME NEW S, NEW s, NEW n \in Nat, \A i \in 1 .. n : s[i] \in S
  PROVE  SubSeq(s, 1, n) \in Seq(S) /\ Len(SubSeq(s, 1, n)) = n
<1>1. /\ SubSeq(s, 1, n) \in Seq(S)
      /\ Len(SubSeq(s, 1, n)) = IF 1 <= n THEN n - 1 + 1 ELSE 0
  BY SubSeqProperties
<1>2. n = IF 1 <= n THEN n - 1 + 1 ELSE 0
  OBVIOUS
<1> QED
  BY <1>1, <1>2

\* What closes gives the keys back, over another window too.
LEMMA CloseKeys ==
  ASSUME KeysInv, windows # <<>>, CloseWindow, menu' = menu
  PROVE  KeysInv'
<1>1. PICK S : windows \in Seq(S)
  BY DEF KeysInv
<1>2. windows' \in Seq(S) /\ Len(windows') = Len(windows) - 1
  <2>1. PICK n \in Nat : n = Len(windows) - 1
    BY <1>1
  <2>2. windows' = SubSeq(windows, 1, n)
    BY <2>1 DEF CloseWindow
  <2>3. \A i \in 1 .. n : windows[i] \in S
    BY <1>1, <2>1
  <2>4. SubSeq(windows, 1, n) \in Seq(S) /\ Len(SubSeq(windows, 1, n)) = n
    BY <2>3, PrefixLength
  <2> QED
    BY <2>1, <2>2, <2>4
<1>3. bound' = TRUE /\ over' = (over /\ Covered')
  BY DEF CloseWindow, BeforeClose, Covered, MenuShown
<1>4. windows' # <<>> => Len(windows) > 1
  BY <1>1, <1>2
<1>5. Covered' => over'
  BY <1>3, <1>4 DEF Covered, MenuShown, KeysInv
<1>6. Len(windows') > 1 => windows' # <<>>
  BY <1>2
<1> QED
  BY <1>2, <1>3, <1>5, <1>6 DEF KeysInv, KeysComeBack, Covered, MenuShown

\* Steps that leave keys, windows and menu alone.
LEMMA SameKeys ==
  ASSUME KeysInv, UNCHANGED <<bound, windows, menu, over>>
  PROVE  KeysInv'
  BY DEF KeysInv, KeysComeBack, Covered, MenuShown

\* The menu comes and goes.
LEMMA MenuKeys ==
  ASSUME KeysInv, windows' = windows,
         \/ menu' # "none" /\ bound' = FALSE /\ over' = (over \/ Covered)
         \/ Hides
  PROVE  KeysInv'
<1>1. PICK S : windows \in Seq(S)
  BY DEF KeysInv
<1>2. windows' \in Seq(S) /\ (Len(windows') > 1 => windows' # <<>>)
  BY <1>1
<1>3. KeysComeBack'
  BY DEF KeysInv, KeysComeBack, Covered, MenuShown, Hides, BeforeClose
<1>4. Len(windows') > 1 \/ (windows' # <<>> /\ MenuShown') => over'
  <2>1. (Len(windows) > 1 => over) /\ (windows # <<>> /\ MenuShown => over)
    BY DEF KeysInv
  <2>2. CASE over' = (over \/ Covered)
    BY <1>2, <2>1, <2>2 DEF Covered
  <2>3. CASE Hides
    BY <1>2, <2>1, <2>3 DEF Hides, MenuShown
  <2> QED
    BY <2>2, <2>3
<1> QED
  BY <1>2, <1>3, <1>4 DEF KeysInv

\* A show: nothing, the names or the menu.
LEMMA ShowKeys ==
  ASSUME KeysInv, NEW c \in Slots, NEW call, Show(c, call)
  PROVE  KeysInv'
<1>1. CASE NotOpen /\ menu' = menu
  BY <1>1, SameKeys DEF NotOpen
<1>2. CASE ShowNames(c, call)
  BY <1>2, OpenKeys, SameKeys DEF ShowNames, NotOpen
<1>3. CASE ShowMenu(c, call)
  <2>1. menu' # "none" /\ bound' = FALSE /\ over' = (over \/ Covered) /\ windows' = windows
    BY <1>3 DEF ShowMenu, MenuName, BeforeShow
  <2> QED
    BY <2>1, MenuKeys
<1> QED
  BY <1>1, <1>2, <1>3 DEF Show

\* A call of any kind shows a window or waits for its data.
LEMMA CallKeys ==
  ASSUME KeysInv, NEW kind, Call(kind)
  PROVE  KeysInv'
  BY ShowKeys, SameKeys DEF Call, NotOpen

\* KeysInv is inductive: while nothing has been opened over a window, the one that closes
\* is the one that took the keys.
LEMMA NextKeysInv == KeysInv /\ [WindowsNext]_allVars => KeysInv'
<1> SUFFICES ASSUME KeysInv, [WindowsNext]_allVars PROVE KeysInv'
  OBVIOUS
<1>1. CASE PanelNext \/ NewTable \/ UNCHANGED allVars
  BY <1>1, SameKeys DEF PanelNext, NewTable, allVars, windowVars
<1>2. ASSUME NEW key \in DOMAIN ShowOf, WindowKey(key) PROVE KeysInv'
  BY <1>2, CallKeys DEF WindowKey
<1>3. CASE HideMenu \/ Download \/ \E item \in DOMAIN ItemOf : MenuItem(item)
  BY <1>3, MenuKeys DEF HideMenu, Download, MenuItem, menuUnchanged
<1>4. ASSUME NEW c \in Slots, ModuleLoads(c) PROVE KeysInv'
  BY <1>4, ShowKeys DEF ModuleLoads
<1>5. ASSUME NEW c \in Slots, TypeArrives(c) \/ Fails(c) PROVE KeysInv'
  BY <1>5, SameKeys DEF TypeArrives, Fails, NotOpen, answerUnchanged
<1>6. ASSUME NEW c \in Slots,
             \/ ViewFrame(c) \/ ViewImage(c) \/ ViewMedia(c)
             \/ TextArrives(c) \/ PageArrives(c) \/ DataArrive(c)
      PROVE  KeysInv'
  BY <1>6, OpenKeys DEF ViewFrame, ViewImage, ViewMedia, OpensElement, TextArrives,
                        PageArrives, DataArrive, answerUnchanged
<1>7. ASSUME NEW c \in Slots, RunsSelected(c) PROVE KeysInv'
  BY <1>7, CloseKeys, SameKeys DEF RunsSelected, Close
<1>8. CASE Leaves \/ \E n \in names : ClicksBeside(n)
  BY <1>8, CloseKeys DEF Leaves, ClicksBeside, Close
<1>9. CASE SavesNames
  BY <1>9, CloseKeys DEF SavesNames, OnTop, editUnchanged
<1>10. CASE Edits \/ AppliesPattern \/ \E yes \in BOOLEAN : Answers(yes)
  BY <1>10, SameKeys DEF Edits, AppliesPattern, Answers, editUnchanged
<1> QED
  BY <1>1, <1>2, <1>3, <1>4, <1>5, <1>6, <1>7, <1>8, <1>9, <1>10
     DEF WindowsNext, WindowNext

\* The keys come back to the panel, whatever opened and closed over it in whatever order.
THEOREM ComeBack == WindowsSpec => []KeysComeBack
<1>1. KeysInv => KeysComeBack
  BY DEF KeysInv
<1> QED
  BY InitKeysInv, NextKeysInv, <1>1, PTL DEF WindowsSpec

-----------------------------------------------------------------------------
\* The editor of names is empty.
LEMMA InitNamesInv == WindowsInit => NamesInv
  BY DEF WindowsInit, NamesInv, NamesOfTheirFiles, NoEditor, NoRename

\* The editor and the active files as they were, or the editor known to be out of
\* date, or filled with what is active.
LEMMA EditorKept ==
  ASSUME NamesInv, renamed' = renamed,
         \/ editor' = editor /\ Active' = Active
         \/ \E same : editor' = [editor EXCEPT !.still = same]
                      /\ (same => editor.still /\ Active' = Active)
         \/ \E isNames : Fills(isNames, Active) /\ Active' = Active
         \/ Fills(FALSE, {})
  PROVE  NamesInv'
<1>1. NamesOfTheirFiles'
  BY DEF NamesInv, NamesOfTheirFiles
<1>2. CASE editor' = editor /\ Active' = Active
  BY <1>1, <1>2 DEF NamesInv
<1>3. ASSUME NEW same, editor' = [editor EXCEPT !.still = same],
             same => editor.still /\ Active' = Active
      PROVE  NamesInv'
  BY <1>1, <1>3 DEF NamesInv
<1>4. ASSUME NEW isNames, Fills(isNames, Active), Active' = Active PROVE NamesInv'
  BY <1>1, <1>4 DEF NamesInv, Fills
<1>5. CASE Fills(FALSE, {})
  BY <1>1, <1>5 DEF NamesInv, Fills
<1> QED
  BY <1>2, <1>3, <1>4, <1>5

\* Names are applied from what the editor holds.
LEMMA AppliedNames ==
  ASSUME NamesInv, ApplyNames PROVE NamesOfTheirFiles'
  BY DEF NamesInv, ApplyNames, GetActiveNames, NamesOfTheirFiles

\* The active files are the panel's.
LEMMA VarsActive == ASSUME UNCHANGED vars PROVE Active' = Active
  BY DEF vars, chosen, Active, ActiveFiles

\* A show fills the editor with the active names or leaves it.
LEMMA ShowKeepsNames ==
  ASSUME NamesInv, NEW c \in Slots, NEW call, Show(c, call), renamed' = renamed,
         Active' = Active
  PROVE  NamesInv'
<1>1. editor' = editor \/ Fills(TRUE, Active)
  BY DEF Show, ShowNames, ShowMenu
<1> QED
  BY <1>1, EditorKept

\* NamesInv is inductive: while the panel stands still under it, the editor's names are
\* those of the active files.
LEMMA NextNamesInv == NamesInv /\ [WindowsNext]_allVars => NamesInv'
<1> SUFFICES ASSUME NamesInv, [WindowsNext]_allVars PROVE NamesInv'
  OBVIOUS
<1>1. CASE UNCHANGED allVars
  BY <1>1, EditorKept, VarsActive DEF allVars, windowVars
<1>2. CASE PanelNext \/ Download
  <2>1. editor' = [editor EXCEPT !.still = @ /\ ActiveFiles(selected', current') = Active]
    BY <1>2 DEF PanelNext, Outdates, Download
  <2>2. Active' = ActiveFiles(selected', current')
    BY DEF Active
  <2>3. renamed' = renamed
    BY <1>2 DEF PanelNext, Download
  <2> QED
    BY <2>1, <2>2, <2>3, EditorKept
<1>3. CASE NewTable \/ \E n \in names : ClicksBeside(n)
  <2>1. editor' = [editor EXCEPT !.still = FALSE] /\ renamed' = renamed
    BY <1>3 DEF NewTable, ClicksBeside, Stales, Close
  <2> QED
    BY <2>1, EditorKept
<1>4. ASSUME NEW key \in DOMAIN ShowOf, WindowKey(key) PROVE NamesInv'
  <2>1. Active' = Active /\ renamed' = renamed
    BY <1>4 DEF WindowKey, chosen, Active, ActiveFiles
  <2>2. Call(ShowOf[key])
    BY <1>4 DEF WindowKey
  <2>3. PICK c \in Slots : Show(c, NewCall(ShowOf[key])) \/ editor' = editor
    BY <2>2 DEF Call
  <2> QED
    BY <2>1, <2>3, ShowKeepsNames, EditorKept
<1>5. ASSUME NEW c \in Slots, ModuleLoads(c) PROVE NamesInv'
  BY <1>5, ShowKeepsNames, VarsActive DEF ModuleLoads
<1>6. CASE HideMenu \/ Leaves \/ \E item \in DOMAIN ItemOf : MenuItem(item)
  <2>1. editor' = editor /\ renamed' = renamed /\ UNCHANGED vars
    BY <1>6 DEF HideMenu, Leaves, MenuItem, menuUnchanged, Close
  <2> QED
    BY <2>1, EditorKept, VarsActive
<1>7. ASSUME NEW c \in Slots,
             \/ TypeArrives(c) \/ TextArrives(c) \/ ViewFrame(c) \/ ViewImage(c)
             \/ ViewMedia(c) \/ PageArrives(c) \/ RunsSelected(c) \/ Fails(c)
      PROVE  NamesInv'
  <2>1. editor' = editor /\ renamed' = renamed /\ UNCHANGED vars
    BY <1>7 DEF TypeArrives, TextArrives, ViewFrame, ViewImage, ViewMedia, OpensElement,
                PageArrives, RunsSelected, Fails, Close, answerUnchanged
  <2> QED
    BY <2>1, EditorKept, VarsActive
<1>8. ASSUME NEW c \in Slots, DataArrive(c) PROVE NamesInv'
  BY <1>8, EditorKept DEF DataArrive, answerUnchanged
<1>9. CASE Edits \/ AppliesPattern
  <2>1. Active' = Active /\ renamed' = renamed
    BY <1>9, VarsActive DEF Edits, AppliesPattern, editUnchanged
  <2> QED
    BY <1>9, <2>1 DEF Edits, AppliesPattern, NamesInv, NamesOfTheirFiles
<1>10. CASE SavesNames
  BY <1>10, AppliedNames, VarsActive DEF SavesNames, editUnchanged, NamesInv
<1>11. ASSUME NEW yes \in BOOLEAN, Answers(yes) PROVE NamesInv'
  <2>1. NamesOfTheirFiles'
    BY <1>11, AppliedNames DEF Answers, NamesInv, NamesOfTheirFiles
  <2>2. Active' = Active
    BY <1>11, VarsActive DEF Answers, editUnchanged
  <2>3. PICK left : editor' = [editor EXCEPT !.changed = left]
    BY <1>11 DEF Answers
  <2> QED
    BY <2>1, <2>2, <2>3 DEF NamesInv
<1> QED
  BY <1>1, <1>2, <1>3, <1>4, <1>5, <1>6, <1>7, <1>8, <1>9, <1>10, <1>11
     DEF WindowsNext, WindowNext

\* Names reach the files they were typed for, as long as the panel has stayed as it was.
THEOREM NamesReachTheirs == WindowsSpec => []NamesOfTheirFiles
<1>1. NamesInv => NamesOfTheirFiles
  BY DEF NamesInv
<1> QED
  BY InitNamesInv, NextNamesInv, <1>1, PTL DEF WindowsSpec
-----------------------------------------------------------------------------
(* Names are numbers: a finite set of them has a place for each of its own.   *)

\* A set of naturals that is not empty has a least element.
LEMMA LeastExists ==
  ASSUME NEW S \in SUBSET Nat, S # {}
  PROVE  \E x \in S : \A y \in S : x <= y
<1>1. PICK x \in S : \A y \in S : <<y, x>> \notin OpToRel(<, Nat)
  <2>1. IsWellFoundedOn(OpToRel(<, Nat), Nat)
    BY NatLessThanWellFounded
  <2> HIDE DEF OpToRel
  <2> QED
    BY <2>1, WFMin
<1>2. \A y \in S : ~ (y < x)
  BY <1>1 DEF OpToRel
<1> QED
  BY <1>2

\* Min chooses it.
LEMMA MinIn == ASSUME NEW S \in SUBSET Nat, S # {} PROVE Min(S) \in S
  BY LeastExists DEF Min

\* The names in front of one of a list: they do not fill it.
LEMMA InFront ==
  ASSUME NEW S \in SUBSET Nat, IsFiniteSet(S), NEW n \in S
  PROVE  LET front == {m \in S : m < n}
         IN  IsFiniteSet(front) /\ Cardinality(front) \in 0..Cardinality(S) - 1
<1> DEFINE front == {m \in S : m < n}
<1>1. IsFiniteSet(S \ {n}) /\ Cardinality(S \ {n}) = Cardinality(S) - 1
  BY FS_RemoveElement
<1>2. front \in SUBSET (S \ {n})
  OBVIOUS
<1> HIDE DEF front
<1>3. IsFiniteSet(front) /\ Cardinality(front) <= Cardinality(S) - 1
  BY <1>1, <1>2, FS_Subset
<1>4. Cardinality(front) \in Nat /\ Cardinality(S) \in Nat
  BY <1>3, FS_CardinalityType
<1> QED
  BY <1>3, <1>4 DEF front

\* A later one has more in front of it.
LEMMA MoreInFront ==
  ASSUME NEW S \in SUBSET Nat, IsFiniteSet(S), NEW k \in S, NEW n \in S, k < n
  PROVE  Cardinality({m \in S : m < k}) < Cardinality({m \in S : m < n})
<1> DEFINE a == {m \in S : m < k}
           b == {m \in S : m < n}
<1>1. IsFiniteSet(a) /\ IsFiniteSet(b) /\ Cardinality(a) \in Nat /\ Cardinality(b) \in Nat
  BY InFront
<1>2. a \cup {k} \in SUBSET b /\ k \notin a
  <2>1. \A m \in S : m < k => m < n
    OBVIOUS
  <2>2. ~(k < k)
    OBVIOUS
  <2> QED
    BY <2>1, <2>2
<1> HIDE DEF a, b
<1>3. Cardinality(a \cup {k}) = Cardinality(a) + 1
  BY <1>1, <1>2, FS_AddElement
<1>4. Cardinality(a \cup {k}) <= Cardinality(b)
  BY <1>1, <1>2, FS_Subset
<1> QED
  BY <1>1, <1>3, <1>4 DEF a, b

\* So every place of a list, counted from 0, is taken.
LEMMA PlaceTaken ==
  ASSUME NEW S \in SUBSET Nat, IsFiniteSet(S), NEW k \in 0..Cardinality(S) - 1
  PROVE  \E n \in S : Cardinality({m \in S : m < n}) = k
<1> DEFINE f == [n \in S |-> Cardinality({m \in S : m < n})]
           T == 0..Cardinality(S) - 1
<1>1. Cardinality(S) \in Nat
  BY FS_CardinalityType
<1>2. f \in [S -> T]
  BY InFront
<1>3. \A n, m \in S : f[n] = f[m] => n = m
  <2> SUFFICES ASSUME NEW n \in S, NEW m \in S, f[n] = f[m], n # m PROVE FALSE
    OBVIOUS
  <2>1. f[n] \in Nat /\ f[m] \in Nat
    BY InFront
  <2>2. (n < m => f[n] < f[m]) /\ (m < n => f[m] < f[n])
    BY MoreInFront
  <2>3. n < m \/ m < n
    OBVIOUS
  <2> HIDE DEF f
  <2> QED
    BY <2>1, <2>2, <2>3
<1>4. f \in Injection(S, T)
  <2> HIDE DEF f, T
  <2> QED
    BY <1>2, <1>3 DEF Injection, IsInjective
<1>5. IsFiniteSet(T) /\ Cardinality(T) = Cardinality(S)
  <2>1. PICK last \in Int : last = Cardinality(S) - 1
    BY <1>1
  <2>2. IsFiniteSet(0..last) /\ Cardinality(0..last) = IF 0 > last THEN 0 ELSE last - 0 + 1
    BY FS_Interval
  <2> QED
    BY <1>1, <2>1, <2>2
<1>6. f \in Surjection(S, T)
  <2> HIDE DEF f, T
  <2> QED
    BY <1>4, <1>5, FS_Injection
<1>7. PICK n \in S : f[n] = k
  <2> HIDE DEF f
  <2> QED
    BY <1>6 DEF Surjection
<1> QED
  BY <1>7

\* At finds a name there.
LEMMA AtPlace ==
  ASSUME NEW S \in SUBSET Nat, IsFiniteSet(S), NEW k \in 0..Cardinality(S) - 1
  PROVE  At(S, k) \in S
  BY PlaceTaken DEF At

\* The one at the last place is the greatest: Max finds it.
LEMMA MaxIn ==
  ASSUME NEW S \in SUBSET Nat, IsFiniteSet(S), S # {}
  PROVE  Max(S) \in S
<1>1. Cardinality(S) \in Nat /\ Cardinality(S) # 0
  BY FS_CardinalityType, FS_EmptySet
<1>2. PICK k \in 0..Cardinality(S) - 1 : k = Cardinality(S) - 1
  BY <1>1
<1>3. PICK n \in S : Cardinality({m \in S : m < n}) = k
  BY <1>2, PlaceTaken
<1> DEFINE front == {m \in S : m < n}
<1>4. IsFiniteSet(S \ {n}) /\ Cardinality(S \ {n}) = Cardinality(S) - 1
  BY FS_RemoveElement
<1>5. front \in SUBSET (S \ {n})
  OBVIOUS
<1>6. front = S \ {n}
  <2>1. Cardinality(S \ {n}) = Cardinality(front)
    BY <1>2, <1>3, <1>4
  <2> HIDE DEF front
  <2> QED
    BY <2>1, <1>4, <1>5, FS_Subset
<1>7. \A m \in S : n >= m
  BY <1>6
<1> QED
  BY <1>7 DEF Max

-----------------------------------------------------------------------------
(* The panel under the windows. *)

\* A key of a window, as the panel has it; the download of a selected file; a click
\* on a file beside the window.
WindowKeys ==
    /\ chars' = NoChars /\ presses' = 0
    /\ ThenVim \/ UNCHANGED store
    /\ UNCHANGED <<keys, names, current, chosen, vim, visual, search, waiting, dialog>>

Downloads ==
    /\ Select(Unselected)
    /\ UNCHANGED <<keys, names, current, vim, command, search, letters, waiting, dialog>>

ClicksUnder ==
    /\ \E n \in names : Clicked(n)
    /\ UNCHANGED <<keys, names, chosen, vim, command, search, chars, waiting, dialog>>

WindowsOnly == WindowKeys \/ Downloads \/ ClicksUnder \/ UNCHANGED vars

\* So a step is one of the keyboard's or leaves it to one of these.
LEMMA KeyboardSteps == [WindowsNext]_allVars => Next \/ WindowsOnly
<1> SUFFICES ASSUME [WindowsNext]_allVars PROVE Next \/ WindowsOnly
  OBVIOUS
<1>1. CASE UNCHANGED allVars
  BY <1>1 DEF allVars, WindowsOnly
<1>2. CASE PanelNext \/ NewTable
  BY <1>2 DEF PanelNext, NewTable, Next
<1>3. ASSUME NEW key \in DOMAIN ShowOf, WindowKey(key) PROVE WindowsOnly
  BY <1>3 DEF WindowKey, Special, WindowsOnly, WindowKeys
<1>4. CASE HideMenu \/ Leaves \/ \E item \in DOMAIN ItemOf : MenuItem(item)
  BY <1>4 DEF HideMenu, Leaves, MenuItem, menuUnchanged, WindowsOnly
<1>5. CASE Download
  BY <1>5 DEF Download, WindowsOnly, Downloads
<1>6. ASSUME NEW c \in Slots,
             \/ ModuleLoads(c) \/ TypeArrives(c) \/ TextArrives(c) \/ ViewFrame(c)
             \/ ViewImage(c) \/ ViewMedia(c) \/ PageArrives(c) \/ DataArrive(c)
             \/ RunsSelected(c) \/ Fails(c)
      PROVE  UNCHANGED vars
  BY <1>6 DEF ModuleLoads, TypeArrives, TextArrives, ViewFrame, ViewImage, ViewMedia,
              OpensElement, PageArrives, DataArrive, RunsSelected, Fails, answerUnchanged
<1>7. ASSUME NEW n \in names, ClicksBeside(n) PROVE WindowsOnly
  BY <1>7 DEF ClicksBeside, WindowsOnly, ClicksUnder
<1>8. CASE Edits \/ AppliesPattern \/ SavesNames \/ \E yes \in BOOLEAN : Answers(yes)
  BY <1>8 DEF Edits, AppliesPattern, SavesNames, Answers, editUnchanged, WindowsOnly
<1> QED
  BY <1>1, <1>2, <1>3, <1>4, <1>5, <1>6, <1>7, <1>8
     DEF WindowsNext, WindowNext, WindowsOnly

Sizes == [name : Dirs, attached : BOOLEAN, vim : BOOLEAN]
Dialogs == [kind : {"none", "delete", "find", "expand", "shrink"},
            files : SUBSET Names, attached : BOOLEAN]

\* A dialog of the table on display is about files of it.
OnTable == {d \in Dialogs : d.attached => d.files \subseteq names}

TableInv ==
    /\ keys \in Habits /\ names \in Tables /\ current \in names
    /\ vim \in BOOLEAN /\ visual \in BOOLEAN
    /\ selected \in SUBSET names /\ wanted \in SUBSET names
    /\ dialog \in OnTable
    /\ waiting \in Seq(Sizes) /\ Len(waiting) <= MaxWaiting
    /\ \A i \in 1..Len(waiting) : waiting[i].attached => waiting[i].name \in names

CharsOrNone == {Letter[n] : n \in Entries} \cup {""}

CharsInv == chars.char \in CharsOrNone /\ chars.n \in 0..Cardinality(Entries)

\* Nothing in the store of Chars.
LEMMA NoCharsFields == NoChars.char \in CharsOrNone /\ NoChars.n = 0
<1>1. NoChars.char = "" /\ NoChars.n = 0
  BY Zenon DEF NoChars
<1> QED
  BY <1>1, Zenon DEF CharsOrNone

\* A table is a finite set of numbers, not empty.
LEMMA TablesFinite ==
  ASSUME NEW table \in Tables
  PROVE  /\ table \in SUBSET Nat /\ IsFiniteSet(table) /\ table # {}
         /\ table \subseteq Names
<1>1. IsFiniteSet(Entries \cup {Up})
  BY KeyboardAssumption, FS_AddElement
<1>2. table \in (SUBSET (Entries \cup {Up})) \ {{}}
  BY KeyboardAssumption
<1>3. table \in SUBSET (Entries \cup {Up}) /\ table # {}
  BY <1>2
<1>4. Entries \cup {Up} \subseteq Nat
  BY KeyboardAssumption DEF Up
<1>5. IsFiniteSet(table)
  BY <1>1, <1>3, FS_Subset
<1> QED
  BY <1>3, <1>4, <1>5 DEF Names

\* The cursor and its neighbours are in the table.
LEMMA SpanIn ==
  ASSUME TableInv, NEW direction, NEW n \in Nat
  PROVE  /\ current \in Span(direction, n) /\ Span(direction, n) \in SUBSET names
         /\ Far(direction, Span(direction, n)) \in names
<1>1. /\ names \in SUBSET Nat /\ IsFiniteSet(names) /\ current \in names
  BY TablesFinite DEF TableInv
<1> DEFINE span == Span(direction, n)
           between == {k \in names : IF direction = "next"
                                       THEN current < k /\ k <= current
                                       ELSE current <= k /\ k < current}
<1>2. between = {}
  <2>1. \A k \in Nat : ~(current < k /\ k <= current) /\ ~(current <= k /\ k < current)
    BY <1>1
  <2> QED
    BY <1>1, <2>1
<1>3. Cardinality(between) = 0
  <2> HIDE DEF between
  <2> QED
    BY <1>2, FS_EmptySet
<1>4. current \in span
  BY <1>1, <1>3 DEF Span
<1>5. span \in SUBSET names
  BY DEF Span
<1> HIDE DEF span
<1>6. span \in SUBSET Nat /\ IsFiniteSet(span) /\ span # {}
  BY <1>1, <1>4, <1>5, FS_Subset
<1>7. Far(direction, span) \in span
  BY <1>6, MinIn, MaxIn DEF Far
<1> QED
  BY <1>4, <1>5, <1>7 DEF span

\* The numbers of files a motion goes over.
LEMMA Counts ==
  /\ Many \in Nat /\ PageLength \in Nat
  /\ Count # NaN => Count \in Nat
<1>1. Many \in Nat
  BY KeyboardAssumption, FS_CardinalityType DEF Many
<1> QED
  BY <1>1 DEF PageLength, Count

\* What is left of a sequence without one of its elements.
LEMMA WithoutOne ==
  ASSUME NEW S, NEW s \in Seq(S), NEW i \in 1..Len(s)
  PROVE  LET r == SubSeq(s, 1, i - 1) \o SubSeq(s, i + 1, Len(s))
         IN  /\ r \in Seq(S) /\ Len(r) = Len(s) - 1
             /\ \A j \in 1..Len(s) - 1 : r[j] = s[IF j < i THEN j ELSE j + 1]
<1> DEFINE a == SubSeq(s, 1, i - 1)
           b == SubSeq(s, i + 1, Len(s))
<1>1. Len(s) \in Nat
  OBVIOUS
<1>2. /\ a \in Seq(S) /\ Len(a) = i - 1
      /\ \A j \in 1..i - 1 : a[j] = s[j]
  OBVIOUS
<1>3. /\ b \in Seq(S) /\ Len(b) = Len(s) - i
      /\ \A j \in 1..Len(s) - i : b[j] = s[i + j]
  OBVIOUS
<1> HIDE DEF a, b
<1> DEFINE r == a \o b
<1>4. r \in Seq(S) /\ Len(r) = Len(s) - 1
  <2>1. r \in Seq(S) /\ Len(r) = Len(a) + Len(b)
    BY <1>2, <1>3, ConcatProperties
  <2>2. i \in Int /\ Len(a) + Len(b) = Len(s) - 1
    BY <1>1, <1>2, <1>3
  <2> QED
    BY <2>1, <2>2
<1>5. ASSUME NEW j \in 1..Len(s) - 1 PROVE r[j] = s[IF j < i THEN j ELSE j + 1]
  <2>1. CASE j < i
    BY <1>1, <1>2, <1>3, <2>1
  <2>2. CASE ~(j < i)
    <3>1. r[j] = b[j - (i - 1)]
      BY <1>1, <1>2, <1>3, <2>2
    <3>2. j - (i - 1) \in 1..Len(s) - i /\ i + (j - (i - 1)) = j + 1
      BY <1>1, <2>2
    <3> QED
      BY <1>3, <2>2, <3>1, <3>2
  <2> QED
    BY <2>1, <2>2
<1> QED
  BY <1>4, <1>5 DEF a, b

\* The question before a deletion.
LEMMA AskDeleteDialog ==
  ASSUME TableInv, NEW files \in SUBSET names, NEW name \in names, AskDelete(files, name)
  PROVE  dialog' \in OnTable
  BY TablesFinite DEF TableInv, AskDelete, ActiveFiles, NoDialog, Dialogs, OnTable

\* A step within a table that waits for no other size.
LEMMA SameTable ==
  ASSUME TableInv, UNCHANGED <<keys, names, waiting>>, current' \in names,
         vim' \in BOOLEAN, visual' \in BOOLEAN,
         selected' \in SUBSET names, wanted' \in SUBSET names, dialog' \in OnTable
  PROVE  TableInv'
  BY DEF TableInv, OnTable

\* What is selected and wanted once a set of files, or one more file, is selected.
LEMMA SelectsNames ==
  ASSUME TableInv
  PROVE  /\ \A files : Settled(files) \in SUBSET names
         /\ Unselected \in SUBSET names
         /\ \A name \in names : /\ Toggled(selected, name) \in SUBSET names
                                /\ Toggled(wanted, name) \in SUBSET names
         /\ names \in SUBSET Names /\ AllFiles \in SUBSET names
         /\ NoDialog \in OnTable
  BY TablesFinite DEF TableInv, Settled, Unselected, Toggled, AllFiles, NoDialog, Dialogs, OnTable

\* A motion stays in the table and selects in it.
LEMMA MotionInTable ==
  ASSUME TableInv, NEW direction, NEW n \in Nat, NEW isVisual,
         SetCurrent(direction, n, isVisual)
  PROVE  current' \in names /\ selected' \in SUBSET names /\ wanted' \in SUBSET names
<1> DEFINE span == Span(direction, n)
<1>1. span \in SUBSET names /\ Far(direction, span) \in names
  BY SpanIn
<1>2. /\ current' = Far(direction, span) /\ wanted' = Settled(selected')
      /\ selected' = IF isVisual THEN selected \cup (span \ {Up}) ELSE selected \ span
  BY DEF SetCurrent
<1> HIDE DEF span
<1> QED
  BY <1>1, <1>2, SelectsNames DEF TableInv

\* The vim commands.
LEMMA VimInTable == ASSUME TableInv, VimNext PROVE TableInv'
<1> USE DEF TableInv
<1>1. ASSUME NEW key, VimPending(key) \/ VimEnd(key) PROVE TableInv'
  BY <1>1, SameTable DEF VimPending, VimEnd, vimUnchanged, chosen
<1>2. ASSUME NEW key, NEW d, NEW n \in Nat, SetCurrent(d, n, visual'), vimUnchanged' = vimUnchanged,
             visual' \in BOOLEAN,
             AskDelete(selected', current') \/ UNCHANGED dialog
      PROVE  TableInv'
  <2>1. current' \in names /\ selected' \in SUBSET names /\ wanted' \in SUBSET names
    BY <1>2, MotionInTable
  <2>2. dialog' \in OnTable
    BY <1>2, <2>1, AskDeleteDialog, SelectsNames
  <2> QED
    BY <1>2, <2>1, <2>2, SameTable DEF vimUnchanged
<1>3. ASSUME NEW key, VimMove(key) PROVE TableInv'
  <2>1. visual' \in BOOLEAN /\ vimUnchanged' = vimUnchanged
    BY <1>3 DEF VimMove, vimUnchanged
  <2>2. CASE Count = NaN
    BY <1>3, <2>1, <2>2, SameTable DEF VimMove, vimUnchanged, chosen
  <2>3. CASE Count # NaN
    BY <1>2, <1>3, <2>1, <2>3, Counts DEF VimMove
  <2> QED
    BY <2>2, <2>3
<1>4. ASSUME NEW key, VimToEnd(key) PROVE TableInv'
  <2>1. visual' \in BOOLEAN /\ vimUnchanged' = vimUnchanged
    BY <1>4 DEF VimToEnd, vimUnchanged
  <2> QED
    BY <1>2, <1>4, <2>1, Counts DEF VimToEnd
<1>5. CASE VimRemove
  <2>1. dialog' \in OnTable
    BY <1>5, AskDeleteDialog, SelectsNames DEF VimRemove
  <2> QED
    BY <1>5, <2>1, SameTable DEF VimRemove, vimUnchanged
<1>6. CASE VimCopy
  BY <1>6, SameTable, SelectsNames DEF VimCopy, vimUnchanged, chosen, Select
<1>7. CASE VimVisual
  BY <1>7, SameTable, SelectsNames DEF VimVisual, vimUnchanged
<1>8. CASE VimFind
  BY <1>8, SameTable DEF VimFind, vimUnchanged, chosen, Dialogs, OnTable
<1>9. ASSUME NEW key, VimFindNext(key) PROVE TableInv'
  <2>1. current' \in names
    BY <1>9 DEF VimFindNext
  <2> QED
    BY <1>9, <2>1, SameTable DEF VimFindNext, chosen
<1> QED
  BY <1>1, <1>3, <1>4, <1>5, <1>6, <1>7, <1>8, <1>9 DEF VimNext

\* The other keys.
LEMMA KeysInTable == ASSUME TableInv, CharsInv, KeyNext PROVE TableInv'
<1> USE DEF TableInv
<1>1. \A direction : Sibling(direction) \in names
  BY SpanIn DEF Sibling
<1>2. Min(names) \in names /\ Max(names) \in names
  BY TablesFinite, MinIn, MaxIn
<1>3. ASSUME NEW key, Arrow(key) \/ HomeEnd(key) \/ SelectKey(key) \/ Insert
             \/ ToggleAndMove
      PROVE  TableInv'
  <2>1. UNCHANGED specialUnchanged /\ UNCHANGED <<waiting, dialog>>
    BY <1>3 DEF Arrow, HomeEnd, Insert, ToggleAndMove, SelectKey
  <2>2. current' \in names
    BY <1>1, <1>2, <1>3 DEF Arrow, HomeEnd, Insert, ToggleAndMove, SelectKey
  <2>3. selected' \in SUBSET names /\ wanted' \in SUBSET names
    BY <1>3, SelectsNames
       DEF Arrow, HomeEnd, Insert, ToggleAndMove, SelectKey, chosen, Toggle, Select
  <2> QED
    BY <2>1, <2>2, <2>3, SameTable DEF specialUnchanged
<1>4. ASSUME NEW key, AskPattern(key) PROVE TableInv'
  <2>1. dialog' \in OnTable
    BY <1>4, SelectsNames DEF AskPattern, Dialogs, OnTable
  <2> QED
    BY <1>4, <2>1, SameTable DEF AskPattern, specialUnchanged, chosen
<1>5. ASSUME NEW key, Page(key) PROVE TableInv'
  <2>1. current' \in names
    BY <1>5, SpanIn, Counts DEF Page
  <2> QED
    BY <1>5, <2>1, SameTable DEF Page, specialUnchanged, chosen
<1>6. CASE Space
  BY <1>6, SameTable, SelectsNames DEF Space, specialUnchanged, Toggle
<1>7. CASE SpaceAsks
  <2>1. current \in Dirs
    BY <1>7 DEF SpaceAsks
  <2> DEFINE w == [name |-> current, attached |-> TRUE, vim |-> vim]
  <2>2. w \in Sizes /\ w.name = current
    BY <2>1 DEF Sizes
  <2> HIDE DEF w
  <2>3. waiting' = Append(waiting, w) /\ Len(waiting) < MaxWaiting
    BY <1>7 DEF SpaceAsks, w
  <2>4. /\ waiting' \in Seq(Sizes) /\ Len(waiting') = Len(waiting) + 1
        /\ \A i \in 1..Len(waiting') : \/ i \in 1..Len(waiting) /\ waiting'[i] = waiting[i]
                                       \/ waiting'[i] = w
    BY <2>2, <2>3
  <2>5. Len(waiting') <= MaxWaiting
    BY <2>3, <2>4, KeyboardAssumption
  <2>6. \A i \in 1..Len(waiting') : waiting'[i].attached => waiting'[i].name \in names
    BY <2>2, <2>4
  <2>7. wanted' \in SUBSET names
    BY <1>7, SelectsNames DEF SpaceAsks
  <2> QED
    BY <1>7, <2>4, <2>5, <2>6, <2>7 DEF SpaceAsks, specialUnchanged, OnTable
<1>8. CASE Escape
  BY <1>8, SameTable, SelectsNames DEF Escape, command, chosen, Select
<1>9. ASSUME NEW c, SetCurrentByChar(c) PROVE TableInv'
  <2> DEFINE files == Matching(c)
  <2>1. files \in SUBSET names /\ files \in SUBSET Nat /\ IsFiniteSet(files)
    BY TablesFinite, FS_Subset DEF Matching, AllFiles
  <2>2. Cardinality(files) \in Nat
    BY <2>1, FS_CardinalityType
  <2>3. Skip(c) < Cardinality(files) => Skip(c) \in 0..Cardinality(files) - 1
    <3>1. chars.n \in Nat
      BY KeyboardAssumption, FS_CardinalityType DEF CharsInv
    <3> QED
      BY <2>2, <3>1 DEF Skip
  <2>4. current' \in names
    BY <1>9, <2>1, <2>2, <2>3, AtPlace DEF SetCurrentByChar
  <2> QED
    BY <1>9, <2>4, SameTable DEF SetCurrentByChar, chosen, command
<1> QED
  BY <1>3, <1>4, <1>5, <1>6, <1>7, <1>8, <1>9 DEF KeyNext

\* A size that comes.
LEMMA SizeInTable ==
  ASSUME TableInv, NEW i \in DOMAIN waiting, SizeArrives(i) PROVE TableInv'
<1> USE DEF TableInv
<1>1. i \in 1..Len(waiting) /\ Len(waiting) \in Nat
  OBVIOUS
<1>2. /\ waiting' \in Seq(Sizes) /\ Len(waiting') = Len(waiting) - 1
      /\ \A j \in 1..Len(waiting) - 1 : waiting'[j] = waiting[IF j < i THEN j ELSE j + 1]
  BY <1>1, WithoutOne DEF SizeArrives, Answered
<1>3. \A j \in 1..Len(waiting) - 1 : (IF j < i THEN j ELSE j + 1) \in 1..Len(waiting)
  BY <1>1
<1>4. \A j \in 1..Len(waiting') : waiting'[j].attached => waiting'[j].name \in names
  BY <1>2, <1>3
<1>5. selected' \in SUBSET names
  BY <1>1, SelectsNames DEF SizeArrives
<1>6. Len(waiting') <= MaxWaiting
  BY <1>1, <1>2, KeyboardAssumption
<1> QED
  BY <1>2, <1>4, <1>5, <1>6 DEF SizeArrives, OnTable

\* The mouse, the dialogs and what the windows do.
LEMMA OthersInTable ==
  ASSUME TableInv, \/ MouseNext \/ Found \/ SelectByPattern \/ CloseDialog \/ WindowsOnly
  PROVE  TableInv'
<1> USE DEF TableInv
<1>1. CASE MouseNext
  <2>1. PICK n \in names : Click(n) \/ CtrlClick(n) \/ ShiftClick(n)
    BY <1>1 DEF MouseNext
  <2>2. current' \in names /\ UNCHANGED mouseUnchanged
    BY <2>1 DEF Click, CtrlClick, ShiftClick, Clicked
  <2>3. selected' \in SUBSET names /\ wanted' \in SUBSET names
    BY <2>1, SelectsNames
       DEF Click, CtrlClick, ShiftClick, Select, Toggle, FilesRange
  <2> QED
    BY <2>2, <2>3, SameTable DEF mouseUnchanged, command
<1>2. CASE Found
  <2>1. found' \in SUBSET names /\ found' \in SUBSET Nat /\ IsFiniteSet(found')
    BY <1>2, TablesFinite, FS_Subset DEF Found
  <2>2. found' # {} => 0 \in 0..Cardinality(found') - 1
    BY <2>1, FS_CardinalityType, FS_EmptySet
  <2>3. current' \in names
    BY <1>2, <2>1, <2>2, AtPlace DEF Found
  <2> QED
    BY <1>2, <2>3, SameTable, SelectsNames DEF Found, chosen, command
<1>3. CASE SelectByPattern
  <2>1. dialog.attached => dialog.files \in SUBSET names
    BY DEF OnTable
  <2>2. selected' \in SUBSET names /\ wanted' \in SUBSET names
    BY <1>3, <2>1, SelectsNames DEF SelectByPattern, Select, chosen
  <2> QED
    BY <1>3, <2>2, SameTable, SelectsNames DEF SelectByPattern, command
<1>4. CASE CloseDialog
  BY <1>4, SameTable, SelectsNames DEF CloseDialog, chosen, command
<1>5. CASE WindowsOnly
  <2>1. CASE WindowKeys \/ UNCHANGED vars
    BY <2>1, SameTable DEF WindowKeys, chosen, vars
  <2>2. CASE Downloads
    BY <2>2, SameTable, SelectsNames DEF Downloads, Select, command
  <2>3. CASE ClicksUnder
    BY <2>3, SameTable DEF ClicksUnder, Clicked, chosen, command
  <2> QED
    BY <1>5, <2>1, <2>2, <2>3 DEF WindowsOnly
<1> QED
  BY <1>1, <1>2, <1>3, <1>4, <1>5

\* Another table.
LEMMA RenderTable == ASSUME TableInv, Render PROVE TableInv'
<1> USE DEF TableInv
<1>1. dialog' \in OnTable'
  BY DEF Render, Dialogs, OnTable
<1>2. /\ waiting' \in Seq(Sizes) /\ Len(waiting') = Len(waiting)
      /\ \A i \in 1..Len(waiting') : ~waiting'[i].attached
  <2>1. Len(waiting) \in Nat /\ DOMAIN waiting = 1..Len(waiting)
    OBVIOUS
  <2>2. \A i \in DOMAIN waiting : waiting[i] \in Sizes
    OBVIOUS
  <2>3. \A i \in DOMAIN waiting : /\ [waiting[i] EXCEPT !.attached = FALSE] \in Sizes
                                  /\ ~[waiting[i] EXCEPT !.attached = FALSE].attached
    BY <2>2 DEF Sizes
  <2>4. waiting' = [i \in DOMAIN waiting |-> [waiting[i] EXCEPT !.attached = FALSE]]
    BY DEF Render
  <2>5. PICK n \in Nat : n = Len(waiting)
    BY <2>1
  <2>6. waiting' \in [1..n -> Sizes]
    BY <2>1, <2>3, <2>4, <2>5
  <2>7. waiting' \in Seq(Sizes) /\ Len(waiting') = n
    BY <2>6
  <2> QED
    BY <2>1, <2>3, <2>4, <2>5, <2>7
<1> QED
  BY <1>1, <1>2 DEF Render, command

\* TableInv is inductive: what is selected, wanted or awaited here is in the table.
LEMMA NextTableInv == ASSUME TableInv, CharsInv, [WindowsNext]_allVars PROVE TableInv'
  BY KeyboardSteps, VimInTable, KeysInTable, SizeInTable, OthersInTable, RenderTable
     DEF Next

\* The store of Chars is emptied, left alone, or takes a letter.
LEMMA CharsStep ==
  ASSUME Next \/ WindowsOnly
  PROVE  \/ chars' = NoChars
         \/ chars' = chars
         \/ \E c \in {Letter[n] : n \in Entries} : SetCurrentByChar(c)
<1>1. CASE VimNext
  BY <1>1 DEF VimNext, VimPending, VimMove, VimToEnd, VimEnd, VimFindNext, VimRemove,
              VimCopy, VimVisual, VimFind, Vim
<1>2. CASE KeyNext
  BY <1>2 DEF KeyNext, Arrow, HomeEnd, Insert, ToggleAndMove, SelectKey, AskPattern, Page, Space,
              SpaceAsks, Escape, Special
<1>3. CASE MouseNext
  BY <1>3 DEF MouseNext, Click, CtrlClick, ShiftClick, mouseUnchanged
<1>4. ASSUME NEW i \in DOMAIN waiting, SizeArrives(i) PROVE chars' = chars
  BY <1>4 DEF SizeArrives, letters
<1>5. CASE Found \/ SelectByPattern \/ CloseDialog \/ Render
  BY <1>5 DEF Found, SelectByPattern, CloseDialog, Render, letters
<1>6. CASE WindowsOnly
  BY <1>6 DEF WindowsOnly, WindowKeys, Downloads, ClicksUnder, letters, vars
<1> QED
  BY <1>1, <1>2, <1>3, <1>4, <1>5, <1>6 DEF Next

\* A letter's files are files of the table.
LEMMA MatchingFinite ==
  ASSUME names \in Tables, NEW c
  PROVE  /\ Matching(c) \in SUBSET names /\ Matching(c) \in SUBSET Nat
         /\ IsFiniteSet(Matching(c))
         /\ Cardinality(Matching(c)) \in 0..Cardinality(Entries)
<1>1. Matching(c) \in SUBSET names /\ Matching(c) \in SUBSET Nat /\ IsFiniteSet(Matching(c))
  BY TablesFinite, FS_Subset DEF Matching, AllFiles
<1>2. Matching(c) \in SUBSET Entries
  BY TablesFinite DEF Matching, AllFiles, Names
<1>3. IsFiniteSet(Entries)
  BY KeyboardAssumption
<1>4. Cardinality(Matching(c)) <= Cardinality(Entries)
  BY <1>2, <1>3, FS_Subset
<1>5. Cardinality(Matching(c)) \in Nat /\ Cardinality(Entries) \in Nat
  BY <1>1, <1>3, FS_CardinalityType
<1> QED
  BY <1>1, <1>4, <1>5

\* A letter counts at most all files.
LEMMA NextCharsInv == ASSUME TableInv, CharsInv, [WindowsNext]_allVars PROVE CharsInv'
<1>1. Next \/ WindowsOnly
  BY KeyboardSteps
<1>2. Cardinality(Entries) \in Nat
  BY KeyboardAssumption, FS_CardinalityType
<1>3. CASE chars' = NoChars \/ chars' = chars
  BY <1>2, <1>3, NoCharsFields DEF CharsInv
<1>4. ASSUME NEW c \in {Letter[n] : n \in Entries}, SetCurrentByChar(c) PROVE CharsInv'
  <2>1. Cardinality(Entries) # 0 /\ c \in CharsOrNone
    BY KeyboardAssumption, FS_EmptySet, Zenon DEF CharsOrNone
  <2>2. Skip(c) \in Nat
    BY <1>2 DEF Skip, CharsInv
  <2>3. Cardinality(Matching(c)) \in 0..Cardinality(Entries)
    BY MatchingFinite DEF TableInv
  <2>4. CASE Skip(c) < Cardinality(Matching(c))
    <3>1. PICK k \in Nat : k = Skip(c) + 1
      BY <2>2
    <3>2. k \in 0..Cardinality(Entries)
      BY <1>2, <2>2, <2>3, <2>4, <3>1
    <3>3. chars' = [char |-> c, n |-> k]
      BY <1>4, <2>4, <3>1 DEF SetCurrentByChar
    <3> QED
      BY <2>1, <3>2, <3>3 DEF CharsInv
  <2>5. CASE ~(Skip(c) < Cardinality(Matching(c)))
    <3>1. chars' = [char |-> c, n |-> 1]
      BY <1>4, <2>5 DEF SetCurrentByChar
    <3> QED
      BY <1>2, <2>1, <3>1 DEF CharsInv
  <2> QED
    BY <2>4, <2>5
<1> QED
  BY <1>1, <1>3, <1>4, CharsStep

\* Where the two start.
LEMMA InitTableInv == WindowsInit => TableInv /\ CharsInv
<1> SUFFICES ASSUME WindowsInit PROVE TableInv /\ CharsInv
  OBVIOUS
<1> USE DEF WindowsInit, Init
<1>1. current \in names
  BY TablesFinite, MinIn
<1>2. waiting \in Seq(Sizes) /\ Len(waiting) = 0
  OBVIOUS
<1>3. dialog \in OnTable
  BY DEF NoDialog, OnTable, Dialogs
<1>4. Cardinality(Entries) \in Nat
  BY KeyboardAssumption, FS_CardinalityType
<1>5. TableInv
  <2>1. Len(waiting) <= MaxWaiting
    BY <1>2, KeyboardAssumption
  <2>2. \A i \in 1..Len(waiting) : waiting[i].attached => waiting[i].name \in names
    BY <1>2
  <2>3. /\ keys \in Habits /\ names \in Tables /\ vim \in BOOLEAN /\ visual \in BOOLEAN
        /\ selected = {} /\ wanted = {}
    OBVIOUS
  <2> QED
    BY <1>1, <1>2, <1>3, <2>1, <2>2, <2>3 DEF TableInv
<1>6. CharsInv
  BY <1>4, NoCharsFields DEF CharsInv
<1> QED
  BY <1>5, <1>6

-----------------------------------------------------------------------------
(* What is selected. *)

\* A step leaves what is selected, or selects other files or one more, or is a vim
\* command, a Space that waits, a size or another table.
Keeps == /\ UNCHANGED <<names, waiting, chosen>>
         /\ visual' \in BOOLEAN /\ (visual => visual')

Chooses(files) ==
    /\ Select(files) /\ UNCHANGED <<names, waiting>>
    /\ Up \in files => Up \in selected \/ AllFiles = {}
    /\ visual' \in {visual, FALSE}

Toggles(name) == Toggle(name) /\ UNCHANGED <<names, waiting, visual>>

Passes(direction, n) ==
    /\ SetCurrent(direction, n, visual') /\ UNCHANGED <<names, waiting>>
    /\ visual' \in BOOLEAN /\ (visual => visual')

ChoiceStep ==
    \/ Keeps \/ (\E files : Chooses(files)) \/ (\E name \in names : Toggles(name))
    \/ (\E direction : \E n \in Nat : Passes(direction, n))
    \/ VimVisual \/ VimRemove \/ SpaceAsks \/ Render
    \/ \E i \in DOMAIN waiting : SizeArrives(i)

\* The vim commands are among these.
LEMMA VimChoices == ASSUME TableInv, VimNext PROVE ChoiceStep
<1>1. ASSUME NEW key, VimPending(key) \/ VimEnd(key) \/ VimFindNext(key) \/ VimFind
      PROVE  Keeps
  BY <1>1 DEF VimPending, VimEnd, VimFindNext, VimFind, vimUnchanged, Keeps, TableInv
<1>2. ASSUME NEW key, VimMove(key) PROVE ChoiceStep
  <2>1. visual' \in BOOLEAN /\ (visual => visual') /\ UNCHANGED <<names, waiting>>
    BY <1>2 DEF VimMove, vimUnchanged
  <2>2. CASE Count = NaN
    BY <1>2, <2>1, <2>2 DEF VimMove, Keeps, ChoiceStep
  <2>3. CASE Count # NaN
    BY <1>2, <2>1, <2>3, Counts DEF VimMove, Passes, ChoiceStep
  <2> QED
    BY <2>2, <2>3
<1>3. ASSUME NEW key, VimToEnd(key) PROVE ChoiceStep
  <2>1. visual' \in BOOLEAN /\ (visual => visual') /\ UNCHANGED <<names, waiting>>
    BY <1>3 DEF VimToEnd, vimUnchanged
  <2> QED
    BY <1>3, <2>1, Counts DEF VimToEnd, Passes, ChoiceStep
<1>4. CASE VimCopy
  <2>1. CASE visual
    <3>1. Chooses(Unselected)
      BY <1>4, <2>1 DEF VimCopy, vimUnchanged, Chooses, Unselected
    <3> QED
      BY <3>1 DEF ChoiceStep
  <2>2. CASE ~visual
    BY <1>4, <2>2 DEF VimCopy, vimUnchanged, Keeps, ChoiceStep
  <2> QED
    BY <2>1, <2>2
<1> QED
  BY <1>1, <1>2, <1>3, <1>4 DEF VimNext, ChoiceStep

\* So are the other keys.
LEMMA KeyChoices == ASSUME TableInv, KeyNext PROVE ChoiceStep
<1>1. ASSUME NEW key, Arrow(key) \/ HomeEnd(key) \/ AskPattern(key) \/ Page(key) PROVE Keeps
  BY <1>1 DEF Arrow, HomeEnd, AskPattern, Page, specialUnchanged, Keeps, TableInv
<1>2. ASSUME NEW key, Insert \/ ToggleAndMove \/ Space PROVE Toggles(current)
  BY <1>2 DEF Insert, ToggleAndMove, Space, specialUnchanged, Toggles
<1>3. ASSUME NEW key, SelectKey(key) PROVE ChoiceStep
  <2>1. PICK files : /\ Select(files)
                     /\ files \in {(selected \cap {Up}) \cup (AllFiles \ selected),
                                   selected \cup AllFiles}
    BY <1>3 DEF SelectKey
  <2>2. Chooses(files)
    BY <1>3, <2>1 DEF SelectKey, specialUnchanged, Chooses, AllFiles
  <2> QED
    BY <2>2 DEF ChoiceStep
<1>4. CASE Escape
  <2>1. CASE vim
    BY <1>4, <2>1 DEF Escape, command, Keeps, TableInv, ChoiceStep
  <2>2. CASE ~vim
    <3>1. Chooses(Unselected)
      BY <1>4, <2>2 DEF Escape, Chooses, Unselected
    <3> QED
      BY <3>1 DEF ChoiceStep
  <2> QED
    BY <2>1, <2>2
<1>5. ASSUME NEW c, SetCurrentByChar(c) PROVE Keeps
  BY <1>5 DEF SetCurrentByChar, command, Keeps, TableInv
<1> QED
  BY <1>1, <1>2, <1>3, <1>4, <1>5 DEF KeyNext, ChoiceStep, TableInv

\* And every step.
LEMMA StepsChoose == ASSUME TableInv, Next \/ WindowsOnly PROVE ChoiceStep
<1>1. CASE MouseNext
  <2>1. PICK n \in names : Click(n) \/ CtrlClick(n) \/ ShiftClick(n)
    BY <1>1 DEF MouseNext
  <2>2. CASE Click(n)
    <3>1. Chooses(Unselected)
      BY <2>2 DEF Click, mouseUnchanged, command, Chooses, Unselected
    <3> QED
      BY <3>1 DEF ChoiceStep
  <2>3. CASE CtrlClick(n)
    <3>1. Toggles(n)
      BY <2>3 DEF CtrlClick, mouseUnchanged, command, Toggles
    <3> QED
      BY <3>1 DEF ChoiceStep
  <2>4. CASE ShiftClick(n)
    <3> DEFINE files == selected \cup IF AllFiles = {} THEN {n} ELSE FilesRange(current, n)
    <3>1. Select(files) /\ UNCHANGED <<names, waiting, visual>>
      BY <2>4 DEF ShiftClick, mouseUnchanged, command
    <3>2. Up \in files => Up \in selected \/ AllFiles = {}
      BY DEF FilesRange, AllFiles
    <3> HIDE DEF files
    <3>3. Chooses(files)
      BY <3>1, <3>2 DEF Chooses
    <3> QED
      BY <3>3 DEF ChoiceStep
  <2> QED
    BY <2>1, <2>2, <2>3, <2>4
<1>2. CASE Found \/ CloseDialog
  BY <1>2 DEF Found, CloseDialog, command, Keeps, TableInv, ChoiceStep
<1>3. CASE SelectByPattern
  <2>1. UNCHANGED <<names, waiting, visual>>
    BY <1>3 DEF SelectByPattern, command
  <2>2. CASE chosen' = chosen
    BY <2>1, <2>2 DEF Keeps, TableInv, ChoiceStep
  <2>3. CASE chosen' # chosen
    <3>1. PICK files : /\ Select(files)
                       /\ \E matching \in SUBSET (dialog.files \ {Up}) :
                            files \in {selected \cup matching, selected \ matching}
      BY <1>3, <2>3 DEF SelectByPattern
    <3>2. Chooses(files)
      BY <2>1, <3>1 DEF Chooses
    <3> QED
      BY <3>2 DEF ChoiceStep
  <2> QED
    BY <2>2, <2>3
<1>4. CASE WindowsOnly
  <2>1. CASE WindowKeys \/ ClicksUnder \/ UNCHANGED vars
    <3>1. UNCHANGED <<names, waiting, chosen, visual>>
      BY <2>1 DEF WindowKeys, ClicksUnder, vars, command, chosen
    <3> QED
      BY <3>1 DEF Keeps, TableInv, ChoiceStep
  <2>2. CASE Downloads
    <3>1. Chooses(Unselected)
      BY <2>2 DEF Downloads, command, Chooses, Unselected
    <3> QED
      BY <3>1 DEF ChoiceStep
  <2> QED
    BY <1>4, <2>1, <2>2 DEF WindowsOnly
<1>5. CASE \/ VimNext \/ KeyNext \/ Render \/ \E i \in DOMAIN waiting : SizeArrives(i)
  BY <1>5, VimChoices, KeyChoices DEF ChoiceStep
<1> QED
  BY <1>1, <1>2, <1>3, <1>4, <1>5 DEF Next

SelectionInv ==
    /\ sweep \in [known : BOOLEAN, base : SUBSET Names, over : SUBSET Names]
    /\ sweep.known => visual
    /\ VisualTakesSwept

\* No motion is followed, or the selection is as it was.
LEMMA NotSwept == ASSUME sweep' = NoSweep PROVE SelectionInv'
  BY DEF SelectionInv, VisualTakesSwept, NoSweep

\* SelectionInv is inductive: what is followed is the visual mode that v started.
LEMMA NextSelectionInv ==
  ASSUME TableInv, SelectionInv, [WindowsNext]_allVars PROVE SelectionInv'
<1>1. ChoiceStep
  BY KeyboardSteps, StepsChoose
<1>2. CASE Keeps
  BY <1>2 DEF Keeps, chosen, SelectionInv, VisualTakesSwept
<1>3. CASE \/ VimRemove \/ Render \/ (\E files : Chooses(files))
           \/ (\E name \in names : Toggles(name))
  BY <1>3, NotSwept DEF VimRemove, Render, Chooses, Select, Toggles, Toggle
<1>4. ASSUME NEW direction, NEW n \in Nat, Passes(direction, n) PROVE SelectionInv'
  <2> DEFINE span == Span(direction, n)
  <2>1. span \in SUBSET names /\ names \in SUBSET Names
    BY SpanIn, SelectsNames
  <2>2. /\ visual' \in BOOLEAN
        /\ selected' = IF visual' THEN selected \cup (span \ {Up}) ELSE selected \ span
        /\ sweep' = IF sweep.known /\ visual' THEN [sweep EXCEPT !.over = @ \cup span]
                                              ELSE NoSweep
    BY <1>4 DEF Passes, SetCurrent
  <2> HIDE DEF span
  <2>3. CASE sweep.known /\ visual'
    <3>1. sweep' = [sweep EXCEPT !.over = @ \cup span]
      BY <2>2, <2>3
    <3>2. /\ sweep' \in [known : BOOLEAN, base : SUBSET Names, over : SUBSET Names]
          /\ sweep'.base = sweep.base /\ sweep'.over = sweep.over \cup span
      BY <2>1, <3>1 DEF SelectionInv
    <3>3. selected = sweep.base \cup (sweep.over \ {Up})
      BY <2>3 DEF SelectionInv, VisualTakesSwept
    <3>4. selected' = sweep'.base \cup (sweep'.over \ {Up})
      BY <2>2, <2>3, <3>2, <3>3
    <3> QED
      BY <2>3, <3>2, <3>4 DEF SelectionInv, VisualTakesSwept
  <2>4. CASE ~(sweep.known /\ visual')
    BY <2>2, <2>4, NotSwept
  <2> QED
    BY <2>3, <2>4
<1>5. CASE VimVisual
  <2>1. CASE visual
    BY <1>5, <2>1, NotSwept DEF VimVisual
  <2>2. CASE ~visual
    <3>1. selected' \in SUBSET Names
      BY <1>5, SelectsNames DEF VimVisual, TableInv
    <3>2. sweep' = [known |-> TRUE, base |-> selected', over |-> {}] /\ visual'
      BY <1>5, <2>2 DEF VimVisual
    <3> QED
      BY <3>1, <3>2 DEF SelectionInv, VisualTakesSwept
  <2> QED
    BY <2>1, <2>2
<1>6. CASE SpaceAsks
  BY <1>6 DEF SpaceAsks, specialUnchanged, SelectionInv, VisualTakesSwept
<1>7. ASSUME NEW i \in DOMAIN waiting, SizeArrives(i) PROVE SelectionInv'
  <2>1. visual' = visual /\ (sweep' = NoSweep \/ UNCHANGED <<selected, sweep>>)
    BY <1>7 DEF SizeArrives
  <2> QED
    BY <2>1, NotSwept DEF SelectionInv, VisualTakesSwept
<1> QED
  BY <1>1, <1>2, <1>3, <1>4, <1>5, <1>6, <1>7 DEF ChoiceStep

\* The dialog of a deletion is on the files an operation takes.
LEMMA DialogStep ==
  ASSUME TableInv, Next \/ WindowsOnly
  PROVE  \/ dialog' = dialog /\ names' = names
         \/ dialog'.kind # "delete" \/ ~dialog'.attached
         \/ AskDelete(selected', current') /\ names' = names
<1>1. NoDialog.kind # "delete"
  BY DEF NoDialog
<1>2. CASE VimNext
  <2>1. names' = names
    BY <1>2 DEF VimNext, VimPending, VimMove, VimToEnd, VimEnd, VimFindNext, VimRemove,
                VimCopy, VimVisual, VimFind, vimUnchanged
  <2>2. ASSUME NEW key, VimMove(key) \/ VimToEnd(key)
        PROVE  dialog' = dialog \/ AskDelete(selected', current')
    BY <2>2 DEF VimMove, VimToEnd
  <2>3. CASE VimRemove
    BY <2>1, <2>3 DEF VimRemove
  <2>4. CASE VimFind
    BY <2>4 DEF VimFind
  <2>5. ASSUME NEW key, VimPending(key) \/ VimEnd(key) \/ VimFindNext(key) \/ VimCopy
                        \/ VimVisual
        PROVE  dialog' = dialog
    BY <2>5 DEF VimPending, VimEnd, VimFindNext, VimCopy, VimVisual
  <2> QED
    BY <1>2, <2>1, <2>2, <2>3, <2>4, <2>5 DEF VimNext
<1>3. CASE KeyNext
  <2>1. ASSUME NEW key, AskPattern(key) PROVE dialog'.kind # "delete"
    BY <2>1 DEF AskPattern
  <2> QED
    BY <1>3, <2>1 DEF KeyNext, Arrow, HomeEnd, Insert, ToggleAndMove, SelectKey, Page, Space,
                      SpaceAsks, Escape, SetCurrentByChar, specialUnchanged
<1>4. CASE MouseNext
  BY <1>4 DEF MouseNext, Click, CtrlClick, ShiftClick, mouseUnchanged
<1>5. CASE Found \/ SelectByPattern \/ CloseDialog
  BY <1>1, <1>5 DEF Found, SelectByPattern, CloseDialog
<1>6. CASE Render
  BY <1>6 DEF Render, TableInv, OnTable, Dialogs
<1>7. ASSUME NEW i \in DOMAIN waiting, SizeArrives(i) PROVE dialog' = dialog /\ names' = names
  BY <1>7 DEF SizeArrives
<1>8. CASE WindowsOnly
  BY <1>8 DEF WindowsOnly, WindowKeys, Downloads, ClicksUnder, vars
<1> QED
  BY <1>2, <1>3, <1>4, <1>5, <1>6, <1>7, <1>8 DEF Next

\* ".." is not selected where there is a file, nor deleted.
LEMMA NextParentLeftAlone ==
  ASSUME TableInv, ParentLeftAlone, [WindowsNext]_allVars PROVE ParentLeftAlone'
<1> SUFFICES ASSUME AllFiles' # {}
             PROVE  /\ Up \notin selected'
                    /\ dialog'.kind = "delete" /\ dialog'.attached => Up \notin dialog'.files
  BY DEF ParentLeftAlone
<1>1. Next \/ WindowsOnly
  BY KeyboardSteps
<1>2. Up \notin selected'
  <2>1. CASE Render
    BY <2>1 DEF Render
  <2>2. CASE names' = names
    <3>1. AllFiles # {} /\ Up \notin selected
      BY <2>2 DEF AllFiles, ParentLeftAlone
    <3>2. CASE Keeps \/ (\E files : Chooses(files)) \/ VimRemove \/ SpaceAsks
      BY <3>1, <3>2 DEF Keeps, Chooses, Select, VimRemove, SpaceAsks, chosen
    <3>3. \A name : Up \notin Toggled(selected, name)
      BY <3>1 DEF Toggled
    <3>4. CASE \/ (\E name \in names : Toggles(name)) \/ VimVisual
               \/ (\E i \in DOMAIN waiting : SizeArrives(i))
      BY <3>1, <3>3, <3>4 DEF Toggles, Toggle, VimVisual, SizeArrives
    <3>5. ASSUME NEW direction, NEW n \in Nat, Passes(direction, n) PROVE Up \notin selected'
      BY <3>1, <3>5 DEF Passes, SetCurrent
    <3> QED
      BY <1>1, <2>1, <3>2, <3>4, <3>5, StepsChoose DEF ChoiceStep
  <2>3. Render \/ names' = names
    BY <1>1, StepsChoose
       DEF ChoiceStep, Keeps, Chooses, Toggles, Passes, VimVisual, VimRemove, SpaceAsks,
           SizeArrives, vimUnchanged, specialUnchanged
  <2> QED
    BY <2>1, <2>2, <2>3
<1>3. ASSUME dialog'.kind = "delete", dialog'.attached PROVE Up \notin dialog'.files
  <2>1. CASE dialog' = dialog /\ names' = names
    BY <1>3, <2>1 DEF AllFiles, ParentLeftAlone
  <2>2. CASE AskDelete(selected', current')
    <3>1. Up \notin ActiveFiles(selected', current')
      BY <1>2 DEF ActiveFiles
    <3> QED
      BY <1>3, <2>2, <3>1 DEF AskDelete, NoDialog
  <2> QED
    BY <1>1, <1>3, <2>1, <2>2, DialogStep
<1> QED
  BY <1>2, <1>3

\* What visual mode has selected is what its motions went over, and nothing else, for any
\* tables and keys and whatever windows open over the panel meanwhile.
THEOREM TakesSwept == WindowsSpec => []VisualTakesSwept
<1>1. WindowsInit => SelectionInv
  BY NotSwept DEF WindowsInit, Init, SelectionInv, VisualTakesSwept, NoSweep
<1>2. TableInv /\ CharsInv /\ SelectionInv /\ [WindowsNext]_allVars
        => TableInv' /\ CharsInv' /\ SelectionInv'
  BY NextTableInv, NextCharsInv, NextSelectionInv
<1>3. SelectionInv => VisualTakesSwept
  BY DEF SelectionInv
<1> QED
  BY InitTableInv, <1>1, <1>2, <1>3, PTL DEF WindowsSpec

\* No key, click, pattern or motion makes ".." part of what an operation works on, in any
\* table that has a file.
THEOREM ParentAlone == WindowsSpec => []ParentLeftAlone
<1>1. WindowsInit => ParentLeftAlone
  BY DEF WindowsInit, Init, ParentLeftAlone, NoDialog
<1>2. TableInv /\ CharsInv /\ ParentLeftAlone /\ [WindowsNext]_allVars
        => TableInv' /\ CharsInv' /\ ParentLeftAlone'
  BY NextTableInv, NextCharsInv, NextParentLeftAlone
<1> QED
  BY InitTableInv, <1>1, <1>2, PTL DEF WindowsSpec

-----------------------------------------------------------------------------
(* The sizes that are awaited. *)

\* The Spaces on a file that wait for a size, on the table on display.
Awaited(n) == {i \in DOMAIN waiting :
                 waiting[i] \in [name : {n}, attached : {TRUE}, vim : BOOLEAN]}

Odd(n) == Cardinality(Awaited(n)) % 2

\* The places of a sequence that hold one of a kind.
Places(s, P) == {j \in DOMAIN s : s[j] \in P}

\* Without one element a sequence has as many of a kind as without that place.
LEMMA CountWithoutOne ==
  ASSUME NEW S, NEW s \in Seq(S), NEW i \in 1..Len(s), NEW P
  PROVE  LET r == SubSeq(s, 1, i - 1) \o SubSeq(s, i + 1, Len(s))
         IN  Cardinality(Places(r, P)) = Cardinality(Places(s, P) \ {i})
<1> DEFINE r == SubSeq(s, 1, i - 1) \o SubSeq(s, i + 1, Len(s))
           A == Places(r, P)
           B == Places(s, P) \ {i}
           f == [j \in A |-> IF j < i THEN j ELSE j + 1]
<1> USE DEF Places
<1>1. /\ r \in Seq(S) /\ Len(r) = Len(s) - 1
      /\ \A j \in 1..Len(s) - 1 : r[j] = s[IF j < i THEN j ELSE j + 1]
  BY WithoutOne
<1> HIDE DEF r
<1>2. Len(s) \in Nat /\ DOMAIN s = 1..Len(s) /\ DOMAIN r = 1..Len(s) - 1
  BY <1>1
<1>3. \A j \in A : f[j] \in B
  <2> SUFFICES ASSUME NEW j \in A PROVE f[j] \in B
    OBVIOUS
  <2>1. j \in 1..Len(s) - 1 /\ r[j] \in P
    BY <1>2
  <2>2. f[j] = IF j < i THEN j ELSE j + 1
    OBVIOUS
  <2>3. f[j] \in 1..Len(s) /\ f[j] # i
    BY <1>2, <2>1, <2>2
  <2>4. s[f[j]] \in P
    BY <1>1, <2>1, <2>2
  <2> QED
    BY <1>2, <2>3, <2>4
<1>4. \A j, k \in A : f[j] = f[k] => j = k
  <2>1. \A j \in A : j \in Int /\ f[j] = IF j < i THEN j ELSE j + 1
    BY <1>2
  <2> HIDE DEF f, A
  <2> QED
    BY <2>1
<1>5. \A k \in B : \E j \in A : f[j] = k
  <2> SUFFICES ASSUME NEW k \in B PROVE \E j \in A : f[j] = k
    OBVIOUS
  <2>1. k \in 1..Len(s) /\ k # i /\ s[k] \in P
    BY <1>2
  <2>2. PICK j \in Int : j = IF k < i THEN k ELSE k - 1
    BY <2>1
  <2>3. j \in 1..Len(s) - 1 /\ (IF j < i THEN j ELSE j + 1) = k
    BY <1>2, <2>1, <2>2
  <2>4. r[j] \in P
    BY <1>1, <2>1, <2>3
  <2>5. j \in A
    BY <1>2, <2>3, <2>4
  <2> QED
    BY <2>3, <2>5
<1>6. f \in Bijection(A, B)
  <2>1. f \in [A -> B]
    BY <1>3
  <2> HIDE DEF f, A, B
  <2> QED
    BY <1>4, <1>5, <2>1 DEF Bijection, Injection, Surjection, IsInjective
<1>7. IsFiniteSet(A)
  <2>1. PICK last \in Int : last = Len(s) - 1
    <3>1. Len(s) - 1 \in Int
      BY <1>2
    <3> HIDE DEF A, B, f
    <3> QED
      BY <3>1
  <2>2. IsFiniteSet(1..last)
    BY FS_Interval
  <2>3. A \in SUBSET (1..last)
    BY <1>2, <2>1
  <2> HIDE DEF A
  <2> QED
    BY <2>2, <2>3, FS_Subset
<1>8. Cardinality(B) = Cardinality(A)
  <2> HIDE DEF f, A, B
  <2> QED
    BY <1>6, <1>7, FS_Bijection DEF ExistsBijection
<1> QED
  BY <1>8 DEF r

\* The indices of what is awaited are finitely many.
LEMMA AwaitedFinite ==
  ASSUME TableInv, NEW n
  PROVE  /\ IsFiniteSet(Awaited(n)) /\ Cardinality(Awaited(n)) \in Nat
         /\ Odd(n) \in {0, 1}
<1>1. PICK last \in Int : last = Len(waiting) /\ DOMAIN waiting = 1..last
  BY DEF TableInv
<1>2. IsFiniteSet(1..last)
  BY FS_Interval
<1>3. Awaited(n) \in SUBSET (1..last)
  BY <1>1 DEF Awaited
<1>4. IsFiniteSet(Awaited(n)) /\ Cardinality(Awaited(n)) \in Nat
  BY <1>2, <1>3, FS_Subset, FS_CardinalityType
<1> QED
  BY <1>4 DEF Odd

\* Settled by parity.
LEMMA SettledOdd ==
  ASSUME NEW files
  PROVE  Settled(files) = {n \in names : Odd(n) = IF n \in files THEN 0 ELSE 1}
  BY DEF Settled, Odd, Awaited

\* Which place waits for which file.
LEMMA AwaitedPlaces ==
  ASSUME TableInv, NEW n, NEW i \in DOMAIN waiting
  PROVE  i \in Awaited(n) <=> waiting[i].attached /\ waiting[i].name = n
<1>1. waiting[i] \in Sizes
  BY DEF TableInv
<1> QED
  BY <1>1 DEF Awaited, Sizes

\* One more toggle before the sizes come is one after they have come.
LEMMA SettledToggled ==
  ASSUME TableInv, NEW files, NEW name \in names
  PROVE  Settled(Toggled(files, name)) = Toggled(Settled(files), name)
<1>1. \A n : Odd(n) \in {0, 1}
  BY AwaitedFinite
<1> QED
  BY <1>1, SettledOdd DEF Toggled

\* The same places are awaited in the same table.
LEMMA SettledSame ==
  ASSUME UNCHANGED <<names, waiting>> PROVE Settled(selected)' = Settled(selected')
  BY DEF Settled

\* A Space that waits counts as if its file were toggled.
LEMMA AsksCountsOnce == ASSUME TableInv, TogglesCountOnce, SpaceAsks PROVE TogglesCountOnce'
<1> DEFINE w == [name |-> current, attached |-> TRUE, vim |-> vim]
<1>1. current \in Dirs /\ current \in names /\ current # Up
  BY KeyboardAssumption DEF SpaceAsks, TableInv
<1>2. w \in Sizes /\ w.name = current /\ w.attached
  BY <1>1 DEF Sizes, TableInv
<1> HIDE DEF w
<1>3. waiting' = Append(waiting, w) /\ UNCHANGED <<names, selected>>
      /\ wanted' = Toggled(wanted, current)
  BY DEF SpaceAsks, specialUnchanged, w
<1>4. PICK k \in Nat : k = Len(waiting)
  BY DEF TableInv
<1>5. /\ DOMAIN waiting = 1..k /\ DOMAIN waiting' = 1..k + 1
      /\ waiting'[k + 1] = w /\ \A i \in 1..k : waiting'[i] = waiting[i]
  BY <1>3, <1>4 DEF TableInv
<1>6. \A n : Awaited(n)' = IF n = current THEN Awaited(n) \cup {k + 1} ELSE Awaited(n)
  <2> SUFFICES ASSUME NEW n
               PROVE  Awaited(n)' = IF n = current THEN Awaited(n) \cup {k + 1}
                                                   ELSE Awaited(n)
    OBVIOUS
  <2>1. w \in [name : {n}, attached : {TRUE}, vim : BOOLEAN] <=> n = current
    BY <1>2 DEF Sizes
  <2>2. \A i : i \in 1..k + 1 <=> i \in 1..k \/ i = k + 1
    BY <1>4
  <2> QED
    BY <1>5, <2>1, <2>2 DEF Awaited
<1>7. \A n : Odd(n)' = IF n = current THEN 1 - Odd(n) ELSE Odd(n)
  <2>1. k + 1 \notin Awaited(current)
    <3>1. k + 1 \notin 1..k
      BY <1>4
    <3> QED
      BY <1>5, <3>1 DEF Awaited
  <2>2. Cardinality(Awaited(current) \cup {k + 1}) = Cardinality(Awaited(current)) + 1
    BY <2>1, AwaitedFinite, FS_AddElement
  <2>3. PICK c \in Nat : c = Cardinality(Awaited(current))
    BY AwaitedFinite
  <2>4. (c + 1) % 2 = 1 - (c % 2)
    OBVIOUS
  <2> QED
    BY <1>6, <2>2, <2>3, <2>4 DEF Odd
<1>8. Settled(selected)' = {n \in names : Odd(n)' = IF n \in selected THEN 0 ELSE 1}
  BY <1>3 DEF Settled, Odd, Awaited
<1>9. \A n : Odd(n) \in {0, 1}
  BY AwaitedFinite
<1>10. Settled(selected)' = Toggled(Settled(selected), current)
  BY <1>1, <1>7, <1>8, <1>9, SettledOdd DEF Toggled
<1> QED
  BY <1>3, <1>10 DEF TogglesCountOnce

\* A size that comes toggles the file it was asked for, and is awaited no more.
LEMMA SizeCountsOnce ==
  ASSUME TableInv, TogglesCountOnce, NEW i \in DOMAIN waiting, SizeArrives(i)
  PROVE  TogglesCountOnce'
<1>1. waiting \in Seq(Sizes) /\ i \in 1..Len(waiting)
  BY DEF TableInv
<1>2. waiting[i].name # Up
  <2>1. waiting[i] \in Sizes
    BY <1>1
  <2>2. waiting[i].name \in Dirs
    BY <2>1 DEF Sizes
  <2> QED
    BY <2>2, KeyboardAssumption
<1>3. /\ UNCHANGED <<names, wanted>>
      /\ waiting' = SubSeq(waiting, 1, i - 1) \o SubSeq(waiting, i + 1, Len(waiting))
      /\ selected' = IF waiting[i].attached THEN Toggled(selected, waiting[i].name)
                                            ELSE selected
  BY DEF SizeArrives, Answered
<1>4. \A n : Cardinality(Awaited(n)') = Cardinality(Awaited(n) \ {i})
  <2> SUFFICES ASSUME NEW n
               PROVE  Cardinality(Awaited(n)') = Cardinality(Awaited(n) \ {i})
    OBVIOUS
  <2> DEFINE P == [name : {n}, attached : {TRUE}, vim : BOOLEAN]
  <2>1. Awaited(n)' = Places(waiting', P)
    BY DEF Awaited, Places
  <2>2. Awaited(n) = Places(waiting, P)
    BY DEF Awaited, Places
  <2> HIDE DEF P
  <2> DEFINE r == SubSeq(waiting, 1, i - 1) \o SubSeq(waiting, i + 1, Len(waiting))
  <2>3. Cardinality(Places(r, P)) = Cardinality(Places(waiting, P) \ {i})
    BY <1>1, CountWithoutOne
  <2>4. waiting' = r
    BY <1>3
  <2> HIDE DEF r
  <2> QED
    BY <2>1, <2>2, <2>3, <2>4
<1>5. \A n : Odd(n)' = IF waiting[i].attached /\ n = waiting[i].name THEN 1 - Odd(n)
                                                                     ELSE Odd(n)
  <2> SUFFICES ASSUME NEW n
               PROVE  Odd(n)' = IF waiting[i].attached /\ n = waiting[i].name
                                  THEN 1 - Odd(n) ELSE Odd(n)
    OBVIOUS
  <2>1. i \in Awaited(n) <=> waiting[i].attached /\ waiting[i].name = n
    BY AwaitedPlaces
  <2>2. Cardinality(Awaited(n) \ {i}) = IF i \in Awaited(n) THEN Cardinality(Awaited(n)) - 1
                                                            ELSE Cardinality(Awaited(n))
    BY AwaitedFinite, FS_RemoveElement
  <2>3. PICK c \in Nat : c = Cardinality(Awaited(n))
    BY AwaitedFinite
  <2>4. (c - 1) % 2 = 1 - (c % 2)
    OBVIOUS
  <2> QED
    BY <1>4, <2>1, <2>2, <2>3, <2>4 DEF Odd
<1>6. Settled(selected)' = {n \in names : Odd(n)' = IF n \in selected' THEN 0 ELSE 1}
  BY <1>3 DEF Settled, Odd, Awaited
<1>7. \A n : Odd(n) \in {0, 1}
  BY AwaitedFinite
<1>8. Settled(selected)' = Settled(selected)
  <2>1. CASE ~waiting[i].attached
    BY <1>3, <1>5, <1>6, <2>1, SettledOdd
  <2>2. CASE waiting[i].attached
    <3>1. PICK name : name = waiting[i].name /\ name # Up
      BY <1>2
    <3>2. \A n : n \in selected' <=> IF n = name THEN n \notin selected ELSE n \in selected
      BY <1>3, <2>2, <3>1 DEF Toggled
    <3>3. \A n : Odd(n)' = IF n = name THEN 1 - Odd(n) ELSE Odd(n)
      BY <1>5, <2>2, <3>1
    <3>4. \A n : Odd(n)' = (IF n \in selected' THEN 0 ELSE 1)
                   <=> Odd(n) = (IF n \in selected THEN 0 ELSE 1)
      BY <1>7, <3>2, <3>3
    <3> QED
      BY <1>6, <3>4, SettledOdd
  <2> QED
    BY <2>1, <2>2
<1> QED
  BY <1>3, <1>8 DEF TogglesCountOnce

\* On another table nothing is awaited.
LEMMA RenderCounts == ASSUME TableInv, Render PROVE TogglesCountOnce'
<1>1. selected' = {} /\ wanted' = {}
  BY DEF Render
<1>2. \A i \in DOMAIN waiting' : ~waiting'[i].attached
  <2>1. \A i \in DOMAIN waiting : waiting[i] \in Sizes
    BY DEF TableInv
  <2>2. waiting' = [i \in DOMAIN waiting |-> [waiting[i] EXCEPT !.attached = FALSE]]
    BY DEF Render
  <2> QED
    BY <2>1, <2>2 DEF Sizes
<1>3. \A n : Awaited(n)' = {}
  BY <1>2 DEF Awaited
<1>4. \A n : Odd(n)' = 0
  <2>1. 0 % 2 = 0
    OBVIOUS
  <2> QED
    BY <1>3, <2>1, FS_EmptySet DEF Odd
<1>5. Settled(selected)' = {n \in names' : Odd(n)' = IF n \in selected' THEN 0 ELSE 1}
  BY DEF Settled, Odd, Awaited
<1>6. Settled(selected)' = {}
  BY <1>1, <1>4, <1>5
<1> QED
  BY <1>1, <1>6 DEF TogglesCountOnce

\* Every toggle counts once.
LEMMA NextTogglesCountOnce ==
  ASSUME TableInv, TogglesCountOnce, [WindowsNext]_allVars PROVE TogglesCountOnce'
<1>1. ChoiceStep
  BY KeyboardSteps, StepsChoose
<1>2. CASE Keeps \/ VimRemove
  <2>1. UNCHANGED <<names, waiting, selected, wanted>>
    BY <1>2 DEF Keeps, chosen, VimRemove, vimUnchanged
  <2> QED
    BY <2>1, SettledSame DEF TogglesCountOnce
<1>3. CASE \/ (\E files : Chooses(files))
           \/ (\E direction : \E n \in Nat : Passes(direction, n))
  <2>1. UNCHANGED <<names, waiting>> /\ wanted' = Settled(selected')
    BY <1>3 DEF Chooses, Select, Passes, SetCurrent
  <2> QED
    BY <2>1, SettledSame DEF TogglesCountOnce
<1>4. ASSUME NEW name \in names, Toggles(name) \/ (VimVisual /\ name = current)
      PROVE  TogglesCountOnce'
  <2>1. /\ UNCHANGED <<names, waiting>>
        /\ selected' = Toggled(selected, name) /\ wanted' = Toggled(wanted, name)
    BY <1>4 DEF Toggles, Toggle, VimVisual, vimUnchanged
  <2> QED
    BY <2>1, SettledSame, SettledToggled DEF TogglesCountOnce
<1>5. current \in names
  BY DEF TableInv
<1> QED
  BY <1>1, <1>2, <1>3, <1>4, <1>5, AsksCountsOnce, SizeCountsOnce, RenderCounts
     DEF ChoiceStep

\* Each Space counts once for the file it was pressed on, however many sizes are awaited
\* and in whatever order they come.
THEOREM CountsOnce == WindowsSpec => []TogglesCountOnce
<1>1. WindowsInit => TogglesCountOnce
  <2> SUFFICES ASSUME WindowsInit PROVE TogglesCountOnce
    OBVIOUS
  <2>1. waiting = <<>> /\ selected = {} /\ wanted = {}
    BY DEF WindowsInit, Init
  <2>2. \A n : Awaited(n) = {}
    BY <2>1 DEF Awaited
  <2>3. \A n : Odd(n) = 0
    <3>1. 0 % 2 = 0
      OBVIOUS
    <3> QED
      BY <2>2, <3>1, FS_EmptySet DEF Odd
  <2>4. Settled(selected) = {}
    BY <2>1, <2>3, SettledOdd
  <2> QED
    BY <2>1, <2>4 DEF TogglesCountOnce
<1>2. TableInv /\ CharsInv /\ TogglesCountOnce /\ [WindowsNext]_allVars
        => TableInv' /\ CharsInv' /\ TogglesCountOnce'
  BY NextTableInv, NextCharsInv, NextTogglesCountOnce
<1> QED
  BY InitTableInv, <1>1, <1>2, PTL DEF WindowsSpec

-----------------------------------------------------------------------------
(* The letters. *)

\* How far the round of the letter pressed last has come: the presses are counted up to
\* twice its length.
LetterInv ==
    LET n == Cardinality(Matching(chars.char)) IN
    /\ presses \in 0..2 * Cardinality(Entries)
    /\ presses > 0 =>
         IF n = 0 THEN presses = 1
         ELSE /\ presses <= 2 * n
              /\ chars.n = IF presses <= n THEN presses ELSE presses - n
              /\ current = At(Matching(chars.char), chars.n - 1)
    /\ dialog.kind = "find" => presses = 0

\* A step forgets the presses, leaves them and the cursor, or is a letter; the names found
\* come without any.
LEMMA LetterStep ==
  ASSUME TableInv, Next \/ WindowsOnly
  PROVE  \/ presses' = 0
         \/ /\ UNCHANGED <<presses, chars, names, current>>
            /\ dialog' = dialog \/ dialog'.kind # "find"
         \/ Found
         \/ \E c \in {Letter[n] : n \in Entries} : SetCurrentByChar(c)
<1>1. NoDialog.kind # "find"
  BY DEF NoDialog
<1>2. CASE VimNext
  BY <1>2 DEF VimNext, VimPending, VimMove, VimToEnd, VimEnd, VimFindNext, VimRemove,
              VimCopy, VimVisual, VimFind, Vim
<1>3. CASE KeyNext
  BY <1>3 DEF KeyNext, Arrow, HomeEnd, Insert, ToggleAndMove, SelectKey, AskPattern, Page, Space,
              SpaceAsks, Escape, Special
<1>4. CASE MouseNext
  BY <1>4 DEF MouseNext, Click, CtrlClick, ShiftClick, Clicked, mouseUnchanged
<1>5. ASSUME NEW i \in DOMAIN waiting, SizeArrives(i)
      PROVE  UNCHANGED <<presses, chars, names, current, dialog>>
  BY <1>5 DEF SizeArrives, letters
<1>6. CASE SelectByPattern \/ CloseDialog
  BY <1>1, <1>6 DEF SelectByPattern, CloseDialog, letters
<1>7. CASE Render
  BY <1>7 DEF Render
<1>8. CASE WindowsOnly
  <2>1. CASE WindowKeys
    BY <2>1 DEF WindowKeys
  <2>2. CASE Downloads \/ UNCHANGED vars
    BY <2>2 DEF Downloads, letters, vars
  <2>3. CASE ClicksUnder
    BY <2>3 DEF ClicksUnder, Clicked
  <2> QED
    BY <1>8, <2>1, <2>2, <2>3 DEF WindowsOnly
<1> QED
  BY <1>2, <1>3, <1>4, <1>5, <1>6, <1>7, <1>8 DEF Next

\* No dialog is the search's while letters are pressed.
LEMMA FindStep ==
  ASSUME TableInv, Next \/ WindowsOnly, dialog'.kind = "find"
  PROVE  presses' = 0 \/ (dialog.kind = "find" /\ presses' = presses)
<1>1. NoDialog.kind = "none"
  BY DEF NoDialog
<1>2. CASE Found
  BY <1>1, <1>2 DEF Found
<1>3. ASSUME NEW c, SetCurrentByChar(c) PROVE FALSE
  BY <1>1, <1>3 DEF SetCurrentByChar
<1> QED
  BY <1>2, <1>3, LetterStep

\* A letter goes one further in its round.
LEMMA LetterPressed ==
  ASSUME TableInv, CharsInv, LetterInv,
         NEW c \in {Letter[n] : n \in Entries}, SetCurrentByChar(c)
  PROVE  LetterInv'
<1>1. PICK n \in Nat : n = Cardinality(Matching(c)) /\ n <= Cardinality(Entries)
  <2>1. Cardinality(Matching(c)) \in 0..Cardinality(Entries)
    BY MatchingFinite DEF TableInv
  <2> QED
    BY <2>1
<1>2. PICK all \in Nat : all = Cardinality(Entries) /\ all # 0
  BY KeyboardAssumption, FS_CardinalityType, FS_EmptySet
<1>3. chars.n \in Nat /\ presses \in Nat
  BY <1>2 DEF CharsInv, LetterInv
<1>4. names' = names /\ dialog' = dialog /\ dialog = NoDialog
  BY DEF SetCurrentByChar
<1>5. Matching(c)' = Matching(c)
  BY <1>4 DEF Matching, AllFiles
<1>6. chars'.char = c
  BY DEF SetCurrentByChar
<1>7. dialog'.kind # "find"
  BY <1>4 DEF NoDialog
<1> DEFINE k == IF chars.char = c THEN chars.n ELSE 0
<1>8. /\ k < n => current' = At(Matching(c), k) /\ chars'.n = k + 1
      /\ ~(k < n) /\ n # 0 => current' = At(Matching(c), 0) /\ chars'.n = 1
  BY <1>1, <1>3 DEF SetCurrentByChar, Skip
<1>9. presses' = IF chars.char # c THEN 1
                 ELSE IF presses = 0 THEN 0
                 ELSE IF n = 0 THEN 1
                 ELSE IF presses = 2 * n THEN n + 1
                 ELSE presses + 1
  BY <1>1 DEF SetCurrentByChar
<1>10. chars.char = c /\ presses > 0 /\ n # 0 =>
         presses <= 2 * n /\ k = IF presses <= n THEN presses ELSE presses - n
  BY <1>1 DEF LetterInv
<1>11. k \in Nat
  BY <1>3
<1>12. chars.char # c => k = 0
  OBVIOUS
<1> HIDE DEF k
<1>13. CASE presses' = 0
  BY <1>2, <1>7, <1>13 DEF LetterInv
<1>14. CASE n = 0 /\ presses' # 0
  <2>1. presses' = 1
    BY <1>9, <1>14
  <2>2. Cardinality(Matching(chars.char))' = 0
    BY <1>1, <1>5, <1>6, <1>14
  <2>3. 1 \in 0..2 * Cardinality(Entries)
    BY <1>2
  <2> QED
    BY <1>7, <2>1, <2>2, <2>3 DEF LetterInv
<1>15. CASE n # 0 /\ presses' # 0
  <2>1. presses' \in Nat /\ presses' <= 2 * n
    BY <1>1, <1>3, <1>9, <1>10, <1>15
  <2>2. chars'.n = IF presses' <= n THEN presses' ELSE presses' - n
    <3>1. CASE chars.char # c
      BY <1>1, <1>8, <1>9, <1>12, <1>15, <3>1
    <3>2. CASE chars.char = c /\ k < n
      BY <1>1, <1>3, <1>8, <1>9, <1>10, <1>15, <3>2
    <3>3. CASE chars.char = c /\ ~(k < n)
      <4>1. presses > 0
        BY <1>3, <1>9, <1>15, <3>3
      <4>2. presses = n \/ presses = 2 * n
        BY <1>1, <1>3, <1>10, <1>15, <3>3, <4>1
      <4>3. presses' = n + 1 /\ chars'.n = 1
        BY <1>1, <1>8, <1>9, <1>15, <3>3, <4>1, <4>2
      <4> QED
        BY <1>1, <4>3
    <3> QED
      BY <3>1, <3>2, <3>3
  <2>3. current' = At(Matching(c), chars'.n - 1)
    <3>1. CASE k < n
      <4>1. (k + 1) - 1 = k
        BY <1>11
      <4> QED
        BY <1>8, <3>1, <4>1
    <3>2. CASE ~(k < n)
      <4>1. 1 - 1 = 0
        OBVIOUS
      <4> QED
        BY <1>8, <1>15, <3>2, <4>1
    <3> QED
      BY <3>1, <3>2
  <2>4. presses' \in 0..2 * Cardinality(Entries)
    BY <1>1, <1>2, <2>1
  <2> QED
    BY <1>1, <1>5, <1>6, <1>7, <1>15, <2>1, <2>2, <2>3, <2>4 DEF LetterInv
<1> QED
  BY <1>13, <1>14, <1>15

\* LetterInv is inductive: whatever else moves the cursor ends the round.
LEMMA NextLetterInv ==
  ASSUME TableInv, CharsInv, LetterInv, [WindowsNext]_allVars PROVE LetterInv'
<1>1. Next \/ WindowsOnly
  BY KeyboardSteps
<1>2. dialog'.kind = "find" => presses' = 0
  BY <1>1, FindStep DEF LetterInv
<1>3. Cardinality(Entries) \in Nat
  BY KeyboardAssumption, FS_CardinalityType
<1>4. CASE presses' = 0
  BY <1>3, <1>4 DEF LetterInv
<1>5. CASE UNCHANGED <<presses, chars, names, current>>
  BY <1>2, <1>5 DEF LetterInv, Matching, AllFiles
<1>6. CASE Found
  BY <1>4, <1>6 DEF Found, letters, LetterInv
<1>7. ASSUME NEW c \in {Letter[n] : n \in Entries}, SetCurrentByChar(c) PROVE LetterInv'
  BY <1>7, LetterPressed
<1> QED
  BY <1>1, <1>4, <1>5, <1>6, <1>7, LetterStep

\* The place in the round, by what is left of the presses.
LEMMA Round ==
  ASSUME NEW n \in Nat, n # 0, NEW p \in 1..2 * n
  PROVE  (p - 1) % n = (IF p <= n THEN p ELSE p - n) - 1
<1>1. \A a \in 0..n - 1 : a % n = a
  OBVIOUS
<1>2. \A a \in 0..n - 1 : (a + n) % n = a
  OBVIOUS
<1> QED
  BY <1>1, <1>2

\* A letter pressed again and again goes to each of the files it begins in turn, however
\* many they are.
THEOREM GoesRound == WindowsSpec => []LetterGoesRound
<1>1. WindowsInit => LetterInv
  <2>1. Cardinality(Entries) \in Nat
    BY KeyboardAssumption, FS_CardinalityType
  <2> QED
    BY <2>1 DEF WindowsInit, Init, LetterInv
<1>2. TableInv /\ CharsInv /\ LetterInv /\ [WindowsNext]_allVars
        => TableInv' /\ CharsInv' /\ LetterInv'
  BY NextTableInv, NextCharsInv, NextLetterInv
<1>3. TableInv /\ LetterInv => LetterGoesRound
  <2> SUFFICES ASSUME TableInv, LetterInv PROVE LetterGoesRound
    OBVIOUS
  <2>1. PICK n \in Nat : n = Cardinality(Matching(chars.char))
    BY MatchingFinite, FS_CardinalityType DEF TableInv
  <2> SUFFICES ASSUME presses > 0, n > 0
               PROVE  current = At(Matching(chars.char), (presses - 1) % n)
    BY <2>1 DEF LetterGoesRound
  <2>2. presses \in 1..2 * n
    BY <2>1, FS_CardinalityType, KeyboardAssumption DEF LetterInv
  <2>3. current = At(Matching(chars.char), (IF presses <= n THEN presses ELSE presses - n) - 1)
    BY <2>1 DEF LetterInv
  <2> QED
    BY <2>2, <2>3, Round
<1> QED
  BY InitTableInv, <1>1, <1>2, <1>3, PTL DEF WindowsSpec

-----------------------------------------------------------------------------
(* The rest of the keyboard's state. *)

Pending == {"d", "g", "2", "x"}

StoreInv == store \in Seq(Pending) /\ Len(store) <= 3

FoundInv ==
    /\ found \subseteq Names /\ foundAt \in Int
    /\ found # {} => foundAt \in 0..Cardinality(found) - 1

\* The unfinished command is kept, emptied, or one key longer.
LEMMA StoreStep ==
  ASSUME Next \/ WindowsOnly
  PROVE  store' = store \/ store' = <<>> \/ \E key \in Pending : store' = Extended(key)
<1>1. CASE VimNext
  <2>1. ASSUME NEW key, VimPending(key) PROVE key \in Pending /\ store' = Extended(key)
    BY <2>1 DEF VimPending, Pending
  <2> QED
    BY <1>1, <2>1 DEF VimNext, VimMove, VimToEnd, VimEnd, VimFindNext, VimRemove,
                      VimCopy, VimVisual, VimFind
<1>2. "x" \in Pending
  BY DEF Pending
<1>3. ThenVim => store' = store \/ store' = Extended("x")
  BY DEF ThenVim
<1>4. CASE KeyNext
  BY <1>2, <1>3, <1>4 DEF KeyNext, Arrow, HomeEnd, Insert, ToggleAndMove, SelectKey, AskPattern,
                          Page, Space, SpaceAsks, Escape, SetCurrentByChar, command
<1>5. CASE MouseNext
  BY <1>5 DEF MouseNext, Click, CtrlClick, ShiftClick, mouseUnchanged, command
<1>6. ASSUME NEW i \in DOMAIN waiting, SizeArrives(i)
      PROVE  store' = store \/ store' = Extended("x")
  BY <1>6 DEF SizeArrives
<1>7. CASE Found \/ SelectByPattern \/ CloseDialog \/ Render
  BY <1>7 DEF Found, SelectByPattern, CloseDialog, Render, command
<1>8. CASE WindowsOnly
  BY <1>2, <1>3, <1>8 DEF WindowsOnly, WindowKeys, Downloads, ClicksUnder, command, vars
<1> QED
  BY <1>1, <1>2, <1>4, <1>5, <1>6, <1>7, <1>8 DEF Next

\* The command is kept to three characters.
LEMMA NextStoreInv == ASSUME StoreInv, [WindowsNext]_allVars PROVE StoreInv'
<1>1. \A key \in Pending : Extended(key) \in Seq(Pending) /\ Len(Extended(key)) <= 3
  <2> SUFFICES ASSUME NEW key \in Pending
               PROVE  Extended(key) \in Seq(Pending) /\ Len(Extended(key)) <= 3
    OBVIOUS
  <2>1. CASE Extended(key) = store
    BY <2>1 DEF StoreInv
  <2>2. CASE Len(store) # 3 /\ Extended(key) = Append(store, key)
    <3>1. Append(store, key) \in Seq(Pending) /\ Len(Append(store, key)) = Len(store) + 1
      BY DEF StoreInv
    <3>2. Len(store) \in Nat
      BY DEF StoreInv
    <3>3. Len(store) + 1 <= 3
      <4>1. PICK n \in Nat : n = Len(store)
        BY <3>2
      <4>2. n <= 3 /\ n # 3
        BY <2>2, <4>1 DEF StoreInv
      <4> QED
        BY <4>1, <4>2
    <3> QED
      BY <2>2, <3>1, <3>3
  <2> QED
    BY <2>1, <2>2 DEF Extended
<1>2. <<>> \in Seq(Pending) /\ Len(<<>>) = 0
  OBVIOUS
<1> QED
  <2>1. CASE store' = store \/ store' = <<>>
    <3>1. 0 <= 3
      OBVIOUS
    <3> QED
      BY <1>2, <2>1, <3>1 DEF StoreInv
  <2>2. ASSUME NEW key \in Pending, store' = Extended(key) PROVE StoreInv'
    BY <1>1, <2>2 DEF StoreInv
  <2> QED
    BY <2>1, <2>2, KeyboardSteps, StoreStep

\* The names found stay, are searched anew, or the next of them is visited.
LEMMA SearchStep ==
  ASSUME Next \/ WindowsOnly
  PROVE  UNCHANGED search \/ Found \/ \E key : VimFindNext(key)
<1>1. CASE VimNext
  BY <1>1 DEF VimNext, VimPending, VimMove, VimToEnd, VimEnd, VimRemove,
              VimCopy, VimVisual, VimFind, vimUnchanged, search
<1>2. CASE KeyNext
  BY <1>2 DEF KeyNext, Arrow, HomeEnd, Insert, ToggleAndMove, SelectKey, AskPattern, Page, Space,
              SpaceAsks, Escape, SetCurrentByChar, specialUnchanged
<1>3. CASE MouseNext
  BY <1>3 DEF MouseNext, Click, CtrlClick, ShiftClick, mouseUnchanged
<1>4. ASSUME NEW i \in DOMAIN waiting, SizeArrives(i) PROVE UNCHANGED search
  BY <1>4 DEF SizeArrives
<1>5. CASE SelectByPattern \/ CloseDialog \/ Render
  BY <1>5 DEF SelectByPattern, CloseDialog, Render
<1>6. CASE WindowsOnly
  BY <1>6 DEF WindowsOnly, WindowKeys, Downloads, ClicksUnder, vars, search
<1> QED
  BY <1>1, <1>2, <1>3, <1>4, <1>5, <1>6 DEF Next

\* The search stays on a name it found, round and round.
LEMMA NextFoundInv == ASSUME TableInv, FoundInv, [WindowsNext]_allVars PROVE FoundInv'
<1>1. CASE UNCHANGED search
  BY <1>1 DEF search, FoundInv
<1>2. CASE Found
  <2>1. found' \in SUBSET names /\ foundAt' = 0
    BY <1>2 DEF Found
  <2>2. IsFiniteSet(found') /\ found' \subseteq Names
    BY <2>1, TablesFinite, FS_Subset DEF TableInv
  <2>3. found' # {} => 0 \in 0..Cardinality(found') - 1
    BY <2>2, FS_CardinalityType, FS_EmptySet
  <2> QED
    BY <2>1, <2>2, <2>3 DEF FoundInv
<1>3. ASSUME NEW key, VimFindNext(key) PROVE FoundInv'
  <2>1. IsFiniteSet(Names)
    BY KeyboardAssumption, FS_AddElement DEF Names
  <2>2. PICK n \in Nat : n = Cardinality(found)
    BY <2>1, FS_Subset, FS_CardinalityType DEF FoundInv
  <2>3. /\ found' = found /\ foundAt' \in -MaxIndex..MaxIndex
        /\ foundAt' \in {NextIndex(foundAt, n), PreviousIndex(foundAt, n)}
    BY <1>3, <2>2 DEF VimFindNext
  <2>4. foundAt' \in Int
    BY <2>3, KeyboardAssumption
  <2>5. foundAt \in 0..n - 1 => foundAt' \in 0..n - 1
    BY <2>2, <2>3 DEF NextIndex, PreviousIndex
  <2> QED
    BY <2>2, <2>3, <2>4, <2>5 DEF FoundInv
<1> QED
  BY <1>1, <1>2, <1>3, KeyboardSteps, SearchStep

KeyboardInv ==
    TableInv /\ CharsInv /\ SelectionInv /\ LetterInv /\ StoreInv /\ FoundInv

\* All of it together is what KeyboardTypeOK says.
LEMMA KeyboardTypes == KeyboardInv => KeyboardTypeOK
<1> SUFFICES ASSUME KeyboardInv PROVE KeyboardTypeOK
  OBVIOUS
<1> USE DEF KeyboardInv
<1>1. store \in UNION {[1..n -> Pending] : n \in 0..3}
  <2>1. PICK n \in 0..3 : n = Len(store)
    <3>1. PICK k \in Nat : k = Len(store)
      BY DEF StoreInv
    <3>2. k <= 3
      BY <3>1 DEF StoreInv
    <3> QED
      BY <3>1, <3>2
  <2>2. store \in [1..n -> Pending]
    BY <2>1 DEF StoreInv
  <2> QED
    BY <2>2
<1>2. waiting \in UNION {[1..n -> Sizes] : n \in 0..MaxWaiting}
  <2>1. PICK n \in 0..MaxWaiting : n = Len(waiting)
    BY KeyboardAssumption DEF TableInv
  <2>2. waiting \in [1..n -> Sizes]
    BY <2>1 DEF TableInv
  <2> QED
    BY <2>2
<1>3. dialog \in Dialogs
  BY DEF TableInv, OnTable
<1>4. presses \in 0..2 * Cardinality(Entries)
  BY DEF LetterInv
<1>5. chars.char \in {Letter[n] : n \in Entries} \cup {""}
  BY Zenon DEF CharsInv, CharsOrNone
<1>6. chars.n \in 0..Cardinality(Entries)
  BY DEF CharsInv
<1>7. /\ keys \in Habits /\ names \in Tables
      /\ current \in names /\ selected \subseteq names
      /\ vim \in BOOLEAN /\ visual \in BOOLEAN /\ wanted \subseteq names
  BY DEF TableInv
<1>8. sweep \in [known : BOOLEAN, base : SUBSET Names, over : SUBSET Names]
  BY DEF SelectionInv
<1>9. /\ found \subseteq Names /\ foundAt \in Int
      /\ found # {} => foundAt \in 0..Cardinality(found) - 1
  BY DEF FoundInv
<1> QED
  BY <1>1, <1>2, <1>3, <1>4, <1>5, <1>6, <1>7, <1>8, <1>9, Zenon
     DEF KeyboardTypeOK, Pending, Sizes, Dialogs

-----------------------------------------------------------------------------
(* The calls of show. *)

Steps == {"none", "module", "type", "text", "media", "page", "data"}

Calls == [kind : Kinds \cup {"none"}, file : Names, pressed : SUBSET Names, step : Steps]

\* A call that still shows what its key was pressed on is one of View, on the file the
\* cursor is on; from its show on it has the element to itself, and that is empty.
CallOn(call, cursor, element) ==
    /\ call \in Calls
    /\ call.step # "none" => call.kind # "none"
    /\ call.pressed # {} => /\ call.kind = "view" /\ call.pressed = {cursor}
                            /\ call.step \in {"module", "type", "text", "media", "page"}
                            /\ call.step # "module" => element = <<>> /\ call.file = cursor

CallsInv == calls \in [Slots -> Calls] /\ \A c \in Slots : CallOn(calls[c], current, page)

\* No call.
LEMMA IdleCalls ==
  /\ NoCall.kind = "none" /\ NoCall.pressed = {} /\ NoCall.step = "none"
  /\ \A cursor, element : CallOn(NoCall, cursor, element)
<1>1. NoCall.kind = "none" /\ NoCall.pressed = {} /\ NoCall.step = "none"
  BY DEF NoCall
<1>2. NoCall \in Calls
  BY DEF NoCall, Calls, Steps, Names
<1> QED
  BY <1>1, <1>2 DEF CallOn

\* A call that another show has come across, or that the cursor has left.
LEMMA Emptied ==
  ASSUME NEW call, NEW old, NEW element, CallOn(call, old, element)
  PROVE  \A cursor, el : CallOn([call EXCEPT !.pressed = {}], cursor, el)
<1> DEFINE new == [call EXCEPT !.pressed = {}]
<1>1. call \in Calls
  BY DEF CallOn
<1>2. /\ new \in Calls /\ new.pressed = {} /\ new.step = call.step /\ new.kind = call.kind
  BY <1>1 DEF Calls
<1> HIDE DEF new
<1>3. call.step # "none" => call.kind # "none"
  BY DEF CallOn
<1>4. \A cursor, el : CallOn(new, cursor, el)
  BY <1>2, <1>3 DEF CallOn
<1> QED
  BY <1>4 DEF new

\* One that neither has.
LEMMA Untouched == ASSUME NEW call \in Calls PROVE [call EXCEPT !.pressed = @] = call
  BY DEF Calls

\* A step in which one call goes on.
LEMMA GoesOn ==
  ASSUME CallsInv, NEW c \in Slots, NEW call, NEW touches \in BOOLEAN,
         CallOn(call, current', page'), Goes(c, call, touches),
         current' = current, page' = page \/ touches
  PROVE  CallsInv'
<1>1. calls' = [d \in Slots |-> IF d = c THEN call
                ELSE [calls[d] EXCEPT !.pressed = IF touches THEN {} ELSE @]]
  BY DEF Goes
<1>2. \A d \in Slots : CallOn(calls[d], current, page)
  BY DEF CallsInv
<1>3. ASSUME NEW d \in Slots PROVE CallOn(calls'[d], current', page')
  <2>1. CASE d = c
    BY <1>1, <2>1
  <2>2. CASE d # c
    <3>1. PICK old : old = calls[d] /\ CallOn(old, current, page)
      BY <1>2
    <3>2. calls'[d] = [old EXCEPT !.pressed = IF touches THEN {} ELSE @]
      BY <1>1, <2>2, <3>1
    <3>3. CASE touches
      <4>1. calls'[d] = [old EXCEPT !.pressed = {}]
        BY <3>2, <3>3
      <4> QED
        BY <3>1, <4>1, Emptied
    <3>4. CASE ~touches
      <4>1. calls'[d] = [old EXCEPT !.pressed = @]
        BY <3>2, <3>4
      <4>2. calls'[d] = old
        BY <3>1, <4>1, Untouched DEF CallOn
      <4> QED
        BY <3>1, <3>4, <4>2
    <3> QED
      BY <3>3, <3>4
  <2> QED
    BY <2>1, <2>2
<1>4. \A d \in Slots : calls'[d] \in Calls
  BY <1>3 DEF CallOn
<1>5. calls' \in [Slots -> Calls]
  BY <1>1, <1>4
<1> QED
  BY <1>3, <1>5 DEF CallsInv

\* A call goes on to a step: one that still shows what its key was pressed on takes the
\* file the cursor is on and finds the element empty.
LEMMA Advances ==
  ASSUME NEW call, NEW cursor, NEW old, CallOn(call, cursor, old), call.kind # "none",
         NEW step \in Steps, NEW file \in Names, NEW element,
         call.pressed # {} => /\ step \in {"type", "text", "media", "page"}
                              /\ element = <<>> /\ file = cursor
  PROVE  CallOn([call EXCEPT !.step = step, !.file = file], cursor, element)
<1> DEFINE new == [call EXCEPT !.step = step, !.file = file]
<1>1. call \in Calls
  BY DEF CallOn
<1>2. /\ new \in Calls /\ new.pressed = call.pressed /\ new.kind = call.kind
      /\ new.step = step /\ new.file = file
  BY <1>1 DEF Calls
<1> HIDE DEF new
<1>3. call.pressed # {} => call.kind = "view" /\ call.pressed = {cursor}
  BY DEF CallOn
<1>4. CallOn(new, cursor, element)
  BY <1>2, <1>3 DEF CallOn
<1> QED
  BY <1>4 DEF new

\* What a key or an item of the menu starts.
LEMMA NewCalls ==
  ASSUME TableInv, NEW kind \in Kinds
  PROVE  /\ \A element : CallOn(NewCall(kind), current, element)
         /\ NewCall(kind).kind = kind
<1> DEFINE new == NewCall(kind)
<1>1. current \in Names
  BY SelectsNames DEF TableInv
<1>2. NoCall \in Calls
  BY DEF NoCall, Calls, Steps, Names
<1>3. /\ new.kind = kind /\ new.step = "module"
      /\ new.pressed = IF kind = "view" THEN {current} ELSE {}
      /\ new.file = NoCall.file
  BY <1>2 DEF NewCall, Calls
<1>4. new \in Calls
  BY <1>1, <1>2 DEF NewCall, Calls, Steps
<1>5. kind # "none"
  BY DEF Kinds, Pages
<1> HIDE DEF new
<1>6. \A element : CallOn(new, current, element)
  BY <1>3, <1>4, <1>5 DEF CallOn
<1> QED
  BY <1>3, <1>6 DEF new

\* The show of a module that waits.
LEMMA WaitsCalls ==
  ASSUME TableInv, CallsInv, NEW c \in Slots, NEW call, CallOn(call, current, page),
         Waits(c, call), current' = current
  PROVE  CallsInv'
<1>1. current \in Names
  BY SelectsNames DEF TableInv
<1>2. call \in Calls /\ (call.pressed # {} => call.kind = "view")
  BY DEF CallOn
<1>3. CASE call.kind = "view" /\ ShowView(c, call)
  <2>1. CallOn([call EXCEPT !.step = "type", !.file = current], current', page')
    <3>1. "type" \in Steps /\ page' = <<>>
      BY <1>3 DEF Steps, ShowView, NewElement
    <3> QED
      BY <1>1, <1>3, <3>1, Advances
  <2> QED
    BY <1>3, <2>1, GoesOn DEF ShowView
<1>4. CASE call.kind = "edit" /\ ShowFile(c, call)
  <2>1. CallOn([call EXCEPT !.step = "data", !.file = current], current', page')
    <3>1. "data" \in Steps
      BY DEF Steps
    <3> QED
      BY <1>1, <1>2, <1>4, <3>1, Advances
  <2> QED
    BY <1>4, <2>1, GoesOn DEF ShowFile
<1>5. CASE call.kind \in Pages /\ ShowPage(c, call)
  <2> DEFINE new == [call EXCEPT !.step = "page"]
  <2>1. new \in Calls /\ new.pressed = call.pressed /\ new.kind = call.kind
    BY <1>2 DEF Calls, Steps
  <2>2. Goes(c, new, FALSE) /\ page' = page
    BY <1>5 DEF ShowPage
  <2>3. call.kind # "none" /\ call.kind # "view"
    BY <1>5 DEF Pages
  <2> HIDE DEF new
  <2>4. CallOn(new, current', page')
    BY <1>2, <2>1, <2>3 DEF CallOn
  <2> QED
    BY <2>2, <2>4, GoesOn
<1> QED
  BY <1>3, <1>4, <1>5 DEF Waits

\* The show of any module.
LEMMA ShowCalls ==
  ASSUME TableInv, CallsInv, NEW c \in Slots, NEW call, CallOn(call, current, page),
         Show(c, call), current' = current
  PROVE  CallsInv'
<1>1. CASE Waits(c, call)
  BY <1>1, WaitsCalls
<1>2. CASE ShowNames(c, call)
  BY <1>2, GoesOn, IdleCalls DEF ShowNames
<1>3. CASE ShowMenu(c, call)
  BY <1>3, GoesOn, IdleCalls DEF ShowMenu
<1> QED
  BY <1>1, <1>2, <1>3 DEF Show

\* A call of a module, there or to be loaded.
LEMMA CallCalls ==
  ASSUME TableInv, CallsInv, NEW kind \in Kinds, NEW c \in Slots, current' = current,
         \/ Show(c, NewCall(kind)) \/ Waits(c, NewCall(kind))
         \/ Goes(c, NewCall(kind), FALSE) /\ page' = page
  PROVE  CallsInv'
<1>1. PICK call : call = NewCall(kind) /\ \A element : CallOn(call, current, element)
  BY NewCalls
<1>2. CASE Show(c, call) \/ Waits(c, call)
  BY <1>1, <1>2, ShowCalls, WaitsCalls
<1>3. CASE Goes(c, call, FALSE) /\ page' = page
  BY <1>1, <1>3, GoesOn
<1> QED
  BY <1>1, <1>2, <1>3

\* What the windows and the panel leave of the calls.
LEMMA LeftCalls ==
  ASSUME CallsInv, \/ UNCHANGED <<calls, page, current>>
                   \/ calls' = [c \in Slots |-> [calls[c] EXCEPT !.pressed = {}]]
  PROVE  CallsInv'
<1>1. CASE UNCHANGED <<calls, page, current>>
  BY <1>1 DEF CallsInv
<1>2. CASE calls' = [c \in Slots |-> [calls[c] EXCEPT !.pressed = {}]]
  <2>1. ASSUME NEW c \in Slots PROVE CallOn(calls'[c], current', page')
    <3>1. PICK old : old = calls[c] /\ CallOn(old, current, page)
      BY DEF CallsInv
    <3>2. calls'[c] = [old EXCEPT !.pressed = {}]
      BY <1>2, <3>1
    <3> QED
      BY <3>1, <3>2, Emptied
  <2>2. calls' \in [Slots -> Calls]
    BY <1>2, <2>1 DEF CallOn
  <2> QED
    BY <2>1, <2>2 DEF CallsInv
<1> QED
  BY <1>1, <1>2

\* A call goes on to another step, or the cursor or another show takes from it what its
\* key was pressed on.
LEMMA NextCallsInv ==
  ASSUME TableInv, CallsInv, [WindowsNext]_allVars PROVE CallsInv'
<1>1. CASE \/ UNCHANGED allVars \/ HideMenu \/ Download \/ Leaves \/ Edits \/ AppliesPattern
           \/ SavesNames \/ \E yes \in BOOLEAN : Answers(yes)
  <2>1. UNCHANGED <<calls, page, current>>
    BY <1>1 DEF allVars, windowVars, vars, HideMenu, menuUnchanged, Download, Leaves, Close,
                Edits, AppliesPattern, SavesNames, Answers, editUnchanged
  <2> QED
    BY <2>1, LeftCalls
<1>2. CASE PanelNext
  <2>1. CASE current' = current /\ waiting' = waiting
    <3>1. calls' = [c \in Slots |-> [calls[c] EXCEPT !.pressed = @]] /\ page' = page
      BY <1>2, <2>1 DEF PanelNext, Outdates
    <3>2. \A c \in Slots : [calls[c] EXCEPT !.pressed = @] = calls[c]
      BY Untouched DEF CallsInv
    <3>3. calls' = calls
      BY <3>1, <3>2 DEF CallsInv
    <3> QED
      BY <2>1, <3>1, <3>3, LeftCalls
  <2>2. CASE ~(current' = current /\ waiting' = waiting)
    BY <1>2, <2>2, LeftCalls DEF PanelNext, Outdates
  <2> QED
    BY <2>1, <2>2
<1>3. CASE NewTable \/ \E n \in names : ClicksBeside(n)
  BY <1>3, LeftCalls DEF NewTable, ClicksBeside, Stales
<1>4. ASSUME NEW key \in DOMAIN ShowOf, WindowKey(key) PROVE CallsInv'
  <2>1. ShowOf[key] \in Kinds /\ current' = current /\ Call(ShowOf[key])
    BY <1>4 DEF WindowKey, ShowOf, Kinds, Pages
  <2> QED
    BY <2>1, CallCalls DEF Call
<1>5. ASSUME NEW item \in DOMAIN ItemOf, MenuItem(item) PROVE CallsInv'
  <2>1. ItemOf[item] \in Kinds /\ current' = current
    BY <1>5 DEF MenuItem, menuUnchanged, vars, ItemOf, Kinds, Pages
  <2> QED
    BY <1>5, <2>1, CallCalls DEF MenuItem
<1>6. ASSUME NEW c \in Slots, ModuleLoads(c) PROVE CallsInv'
  <2>1. PICK call : call = calls[c] /\ CallOn(call, current, page)
    BY DEF CallsInv
  <2> QED
    BY <1>6, <2>1, ShowCalls DEF ModuleLoads, vars
<1>7. ASSUME NEW c \in Slots, TypeArrives(c) PROVE CallsInv'
  <2>1. PICK call : call = calls[c] /\ CallOn(call, current, page)
    BY DEF CallsInv
  <2>2. PICK step \in {"text", "page", "media"} :
          Goes(c, [call EXCEPT !.step = step,
                               !.file = IF step = "media" THEN @ ELSE current], FALSE)
    BY <1>7, <2>1 DEF TypeArrives
  <2>3. PICK file : file = IF step = "media" THEN call.file ELSE current
    OBVIOUS
  <2>4. [call EXCEPT !.step = step, !.file = IF step = "media" THEN @ ELSE current]
          = [call EXCEPT !.step = step, !.file = file]
    BY <2>3
  <2>5. call.step = "type" /\ page' = page /\ current' = current
    BY <1>7, <2>1 DEF TypeArrives, answerUnchanged, vars
  <2>6. file \in Names /\ step \in Steps /\ call.kind # "none"
    BY <2>1, <2>3, <2>5, SelectsNames DEF CallOn, Calls, TableInv, Steps
  <2>7. call.pressed # {} => page = <<>> /\ file = current
    BY <2>1, <2>3, <2>5 DEF CallOn
  <2>8. CallOn([call EXCEPT !.step = step, !.file = file], current', page')
    BY <2>1, <2>5, <2>6, <2>7, Advances
  <2> QED
    BY <2>2, <2>4, <2>5, <2>8, GoesOn
<1>8. ASSUME NEW c \in Slots,
             \/ ViewFrame(c) \/ ViewImage(c) \/ ViewMedia(c) \/ RunsSelected(c) \/ Fails(c)
      PROVE  CallsInv'
  <2>1. Goes(c, NoCall, FALSE) /\ page' = page /\ current' = current
    BY <1>8 DEF ViewFrame, ViewImage, ViewMedia, OpensElement, RunsSelected, Close, Fails,
                answerUnchanged, vars
  <2> QED
    BY <2>1, GoesOn, IdleCalls
<1>9. ASSUME NEW c \in Slots, TextArrives(c) \/ PageArrives(c) \/ DataArrive(c)
      PROVE  CallsInv'
  <2>1. Goes(c, NoCall, TRUE) /\ current' = current
    BY <1>9 DEF TextArrives, PageArrives, DataArrive, answerUnchanged, vars
  <2> QED
    BY <2>1, GoesOn, IdleCalls
<1> QED
  BY <1>1, <1>2, <1>3, <1>4, <1>5, <1>6, <1>7, <1>8, <1>9
     DEF WindowsNext, WindowNext

-----------------------------------------------------------------------------
(* The windows. *)

WindowOK(w) ==
    /\ w.kind \in Kinds
    /\ w.pressed # {} => w.shown \in {<<n>> : n \in w.pressed}

WindowsInv == (\E S : windows \in Seq(S)) /\ \A i \in DOMAIN windows : WindowOK(windows[i])

\* A window that opens shows what its call was pressed on.
LEMMA OpensShown ==
  ASSUME WindowsInv, NEW call, NEW shown, Open(call, shown), call.kind \in Kinds,
         call.pressed # {} => shown \in {<<n>> : n \in call.pressed}
  PROVE  WindowsInv'
<1> DEFINE w == [kind |-> call.kind, pressed |-> call.pressed,
                 shown |-> IF call.pressed = {} THEN <<>> ELSE shown]
<1>1. WindowOK(w)
  BY DEF WindowOK
<1>2. windows' = <<w>> \/ windows' = Append(windows, w)
  BY DEF Open
<1> HIDE DEF w
<1>3. PICK S : windows \in Seq(S)
  BY DEF WindowsInv
<1>4. CASE windows' = <<w>>
  <2>1. windows' \in Seq({w}) /\ DOMAIN windows' = {1} /\ windows'[1] = w
    BY <1>4
  <2> QED
    BY <1>1, <2>1 DEF WindowsInv
<1>5. CASE windows' = Append(windows, w)
  <2>1. windows \in Seq(S \cup {w})
    BY <1>3
  <2>2. /\ windows' \in Seq(S \cup {w})
        /\ \A i \in DOMAIN windows' :
             (i \in DOMAIN windows /\ windows'[i] = windows[i]) \/ windows'[i] = w
    BY <1>5, <2>1
  <2> QED
    BY <1>1, <2>2 DEF WindowsInv
<1> QED
  BY <1>2, <1>4, <1>5

\* The others stay as they are when the one on top closes.
LEMMA ClosesShown == ASSUME WindowsInv, windows # <<>>, CloseWindow PROVE WindowsInv'
<1>1. PICK S : windows \in Seq(S)
  BY DEF WindowsInv
<1>2. PICK n \in Nat : n = Len(windows) - 1
  BY <1>1
<1>3. windows' = SubSeq(windows, 1, n)
  BY <1>2 DEF CloseWindow
<1>4. \A i \in 1..n : windows[i] \in S /\ i \in DOMAIN windows
  BY <1>1, <1>2
<1>5. windows' \in Seq(S) /\ Len(windows') = n
  BY <1>3, <1>4, PrefixLength
<1>6. \A i \in 1..n : windows'[i] = windows[i]
  BY <1>1, <1>2, <1>3
<1> QED
  BY <1>4, <1>5, <1>6 DEF WindowsInv

\* A call that opens a window has what its key was pressed on.
LEMMA NextWindowsInv ==
  ASSUME TableInv, CallsInv, WindowsInv, [WindowsNext]_allVars PROVE WindowsInv'
<1>1. CASE UNCHANGED windows
  BY <1>1 DEF WindowsInv
<1>2. ASSUME NEW c \in Slots, NEW call, NEW cursor, NEW element,
             CallOn(call, cursor, element), Show(c, call)
      PROVE  WindowsInv'
  <2>1. CASE ShowNames(c, call)
    <3>1. call.kind \in Kinds /\ call.pressed = {}
      BY <1>2, <2>1 DEF ShowNames, Kinds, CallOn
    <3> QED
      BY <1>1, <2>1, <3>1, OpensShown DEF ShowNames, NotOpen
  <2>2. CASE (Waits(c, call) /\ NotOpen) \/ ShowMenu(c, call)
    BY <1>1, <2>2 DEF NotOpen, ShowMenu
  <2> QED
    BY <1>2, <2>1, <2>2 DEF Show
<1>3. ASSUME NEW key \in DOMAIN ShowOf, WindowKey(key) PROVE WindowsInv'
  <2>1. ShowOf[key] \in Kinds
    BY DEF ShowOf, Kinds, Pages
  <2>2. PICK call : call = NewCall(ShowOf[key]) /\ CallOn(call, current, page)
    BY <2>1, NewCalls
  <2>3. PICK c \in Slots : Show(c, call) \/ UNCHANGED windows
    BY <1>3, <2>2 DEF WindowKey, Call, NotOpen
  <2> QED
    BY <1>1, <1>2, <2>2, <2>3
<1>4. ASSUME NEW c \in Slots, ModuleLoads(c) PROVE WindowsInv'
  <2>1. PICK call : call = calls[c] /\ CallOn(call, current, page)
    BY DEF CallsInv
  <2> QED
    BY <1>2, <1>4, <2>1 DEF ModuleLoads
<1>5. ASSUME NEW c \in Slots,
             \/ ViewFrame(c) \/ ViewImage(c) \/ ViewMedia(c)
             \/ TextArrives(c) \/ PageArrives(c) \/ DataArrive(c)
      PROVE  WindowsInv'
  <2>1. PICK call : call = calls[c] /\ CallOn(call, current, page)
    BY DEF CallsInv
  <2>2. call.step \notin {"none", "module"} /\ call.kind \in Kinds
    BY <1>5, <2>1 DEF ViewFrame, ViewImage, ViewMedia, TextArrives, PageArrives, DataArrive,
                      CallOn, Calls
  <2>3. call.pressed # {} => /\ call.pressed = {current} /\ call.file = current
                             /\ page = <<>> /\ call.kind = "view" /\ call.step # "data"
    BY <2>1, <2>2 DEF CallOn
  <2>4. CASE ViewFrame(c) \/ ViewMedia(c)
    BY <2>1, <2>2, <2>3, <2>4, OpensShown DEF ViewFrame, ViewMedia, MediaElement, OpensElement
  <2>5. CASE ViewImage(c)
    BY <2>1, <2>2, <2>3, <2>5, OpensShown DEF ViewImage, OpensElement
  <2>6. CASE TextArrives(c)
    <3>1. page' = Append(page, call.file) /\ Open(call, page')
      BY <2>1, <2>6 DEF TextArrives
    <3>2. call.pressed # {} => page' = <<call.file>>
      <4>1. page = <<>> => Append(page, call.file) = <<call.file>>
        OBVIOUS
      <4> QED
        BY <2>3, <3>1, <4>1
    <3> QED
      BY <2>2, <2>3, <3>1, <3>2, OpensShown
  <2>7. CASE PageArrives(c)
    <3>1. /\ page' = Append(<<>>, IF call.kind = "view" THEN call.file ELSE Up)
          /\ Open(call, page')
      BY <2>1, <2>7 DEF PageArrives, NewElement
    <3>2. call.pressed # {} => page' = <<call.file>>
      BY <2>3, <3>1
    <3> QED
      BY <2>2, <2>3, <3>1, <3>2, OpensShown
  <2>8. CASE DataArrive(c)
    <3>1. Open(call, <<>>) /\ call.pressed = {}
      BY <2>1, <2>3, <2>8 DEF DataArrive
    <3> QED
      BY <2>2, <3>1, OpensShown
  <2> QED
    BY <1>5, <2>4, <2>5, <2>6, <2>7, <2>8
<1>6. CASE \/ Leaves \/ SavesNames \/ (\E n \in names : ClicksBeside(n))
           \/ (\E c \in Slots : RunsSelected(c))
  BY <1>1, <1>6, ClosesShown DEF Leaves, SavesNames, ClicksBeside, RunsSelected, Close, OnTop
<1>7. CASE \/ UNCHANGED allVars \/ PanelNext \/ NewTable \/ HideMenu \/ Download
           \/ Edits \/ AppliesPattern \/ (\E yes \in BOOLEAN : Answers(yes))
           \/ (\E item \in DOMAIN ItemOf : MenuItem(item))
           \/ (\E c \in Slots : TypeArrives(c) \/ Fails(c))
  BY <1>1, <1>7 DEF allVars, windowVars, PanelNext, NewTable, HideMenu, Download, Edits,
                    AppliesPattern, Answers, MenuItem, menuUnchanged, TypeArrives, Fails, NotOpen
<1> QED
  BY <1>3, <1>4, <1>5, <1>6, <1>7 DEF WindowsNext, WindowNext

\* At first nothing is asked for or shown.
LEMMA InitCalls == ASSUME WindowsInit PROVE CallsInv /\ WindowsInv
<1>1. calls = [c \in Slots |-> NoCall]
  BY DEF WindowsInit
<1>2. NoCall \in Calls
  BY IdleCalls DEF CallOn
<1>3. \A c \in Slots : CallOn(calls[c], current, page)
  BY <1>1, IdleCalls
<1>4. windows \in Seq({}) /\ DOMAIN windows = {}
  BY DEF WindowsInit
<1> QED
  BY <1>1, <1>2, <1>3, <1>4 DEF CallsInv, WindowsInv

\* A window that came from a key on a file shows that file, while neither the cursor nor
\* another show has come between (the Info and the El of view/index.js).
THEOREM ShowsAsked == WindowsSpec => []ViewShowsAsked
<1>1. TableInv /\ CharsInv /\ CallsInv /\ WindowsInv /\ [WindowsNext]_allVars
        => TableInv' /\ CharsInv' /\ CallsInv' /\ WindowsInv'
  BY NextTableInv, NextCharsInv, NextCallsInv, NextWindowsInv
<1>2. WindowsInv => ViewShowsAsked
  BY DEF WindowsInv, WindowOK, ViewShowsAsked
<1> QED
  BY InitTableInv, InitCalls, <1>1, <1>2, PTL DEF WindowsSpec

-----------------------------------------------------------------------------
(* What El holds, and the rest of the types. *)

Viewing(cs) == {c \in Slots : cs[c].step \in {"type", "text"}}

\* Every file in El came from a call that has ended since the last show emptied it.
PageInv == page \in Seq(Names) /\ Len(page) + Cardinality(Viewing(calls)) <= Cardinality(Slots)

PageStep ==
    \/ page' = <<>>
    \/ page' = page /\ Viewing(calls') \subseteq Viewing(calls)
    \/ \E c \in Viewing(calls), n \in Names :
         page' = Append(page, n) /\ Viewing(calls') \subseteq Viewing(calls) \ {c}
    \/ \E c \in Slots, n \in Names : page' = <<n>> /\ Viewing(calls') \subseteq Slots \ {c}

\* A call that goes on to anything but a text of View no longer counts.
LEMMA StopsViewing ==
  ASSUME CallsInv, NEW c \in Slots, NEW call, NEW touches, Goes(c, call, touches),
         call.step \notin {"type", "text"}
  PROVE  Viewing(calls') \subseteq Viewing(calls) \ {c}
<1>1. \A d \in Slots : calls'[d].step = IF d = c THEN call.step ELSE calls[d].step
  BY DEF Goes, CallsInv, Calls
<1> QED
  BY <1>1 DEF Viewing

\* Only the show of View begins to count, and it empties El.
LEMMA WaitsPage ==
  ASSUME CallsInv, NEW c \in Slots, NEW call, NEW cursor, NEW element,
         CallOn(call, cursor, element), Waits(c, call)
  PROVE  PageStep
<1>1. CASE ShowView(c, call)
  BY <1>1 DEF ShowView, NewElement, PageStep
<1>2. CASE ShowFile(c, call)
  <2>1. PICK file : file = current
    OBVIOUS
  <2>2. [call EXCEPT !.step = "data", !.file = file].step = "data"
    BY DEF CallOn, Calls
  <2> QED
    BY <1>2, <2>1, <2>2, StopsViewing DEF ShowFile, PageStep
<1>3. CASE ShowPage(c, call)
  <2>1. [call EXCEPT !.step = "page"].step = "page"
    BY DEF CallOn, Calls
  <2> QED
    BY <1>3, <2>1, StopsViewing DEF ShowPage, PageStep
<1> QED
  BY <1>1, <1>2, <1>3 DEF Waits

LEMMA ShowPages ==
  ASSUME CallsInv, NEW c \in Slots, NEW call, NEW cursor, NEW element,
         CallOn(call, cursor, element), Show(c, call)
  PROVE  PageStep
<1>1. CASE Waits(c, call)
  BY <1>1, WaitsPage
<1>2. CASE ShowNames(c, call) \/ ShowMenu(c, call)
  <2>1. NoCall.step \notin {"type", "text"}
    BY IdleCalls
  <2> QED
    BY <1>2, <2>1, StopsViewing DEF ShowNames, ShowMenu, NewElement, PageStep
<1> QED
  BY <1>1, <1>2 DEF Show

LEMMA PageSteps == ASSUME TableInv, CallsInv, [WindowsNext]_allVars PROVE PageStep
<1>1. ASSUME NEW c \in Slots, NEW kind \in Kinds, NEW call,
             call = NewCall(kind), page' = page, Goes(c, call, FALSE)
      PROVE  PageStep
  <2>1. call.step = "module"
    BY <1>1 DEF NewCall, NoCall
  <2> QED
    BY <1>1, <2>1, StopsViewing DEF PageStep
<1>2. ASSUME NEW key \in DOMAIN ShowOf, WindowKey(key) PROVE PageStep
  <2>1. ShowOf[key] \in Kinds
    BY DEF ShowOf, Kinds, Pages
  <2>2. PICK call : call = NewCall(ShowOf[key]) /\ CallOn(call, current, page)
    BY <2>1, NewCalls
  <2>3. PICK c \in Slots : Show(c, call) \/ (Goes(c, call, FALSE) /\ page' = page)
    BY <1>2, <2>2 DEF WindowKey, Call
  <2> QED
    BY <1>1, <2>1, <2>2, <2>3, ShowPages
<1>3. ASSUME NEW item \in DOMAIN ItemOf, MenuItem(item) PROVE PageStep
  <2>1. ItemOf[item] \in Kinds
    BY DEF ItemOf, Kinds, Pages
  <2>2. PICK call : call = NewCall(ItemOf[item]) /\ CallOn(call, current, page)
    BY <2>1, NewCalls
  <2>3. PICK c \in Slots : Waits(c, call) \/ (Goes(c, call, FALSE) /\ page' = page)
    BY <1>3, <2>2 DEF MenuItem
  <2> QED
    BY <1>1, <2>1, <2>2, <2>3, WaitsPage
<1>4. ASSUME NEW c \in Slots, ModuleLoads(c) PROVE PageStep
  BY <1>4, ShowPages DEF ModuleLoads, CallsInv
<1>5. ASSUME NEW c \in Slots, TypeArrives(c) PROVE PageStep
  <2>1. PICK call : call = calls[c] /\ call \in Calls
    BY DEF CallsInv
  <2>2. PICK step \in {"text", "page", "media"} :
          Goes(c, [call EXCEPT !.step = step,
                               !.file = IF step = "media" THEN @ ELSE current], FALSE)
    BY <1>5, <2>1 DEF TypeArrives
  <2>3. PICK file : file = IF step = "media" THEN call.file ELSE current
    OBVIOUS
  <2>4. PICK new : new = [call EXCEPT !.step = step, !.file = file] /\ new.step = step
    <3>1. [call EXCEPT !.step = step, !.file = file].step = step
      BY <2>1 DEF Calls
    <3> QED
      BY <3>1
  <2>5. Goes(c, new, FALSE)
    BY <2>2, <2>3, <2>4
  <2>6. call.step = "type" /\ page' = page
    BY <1>5, <2>1 DEF TypeArrives
  <2>7. \A d \in Slots : calls'[d].step = IF d = c THEN new.step ELSE calls[d].step
    BY <2>5 DEF Goes, CallsInv, Calls
  <2> QED
    BY <2>1, <2>6, <2>7 DEF Viewing, PageStep
<1>6. ASSUME NEW c \in Slots,
             \/ ViewFrame(c) \/ ViewImage(c) \/ ViewMedia(c) \/ RunsSelected(c) \/ Fails(c)
      PROVE  PageStep
  <2>1. Goes(c, NoCall, FALSE) /\ page' = page
    BY <1>6 DEF ViewFrame, ViewImage, ViewMedia, OpensElement, RunsSelected, Close, Fails
  <2> QED
    BY <2>1, IdleCalls, StopsViewing DEF PageStep
<1>7. ASSUME NEW c \in Slots, TextArrives(c) PROVE PageStep
  <2>1. c \in Viewing(calls) /\ calls[c].file \in Names
    BY <1>7 DEF TextArrives, Viewing, CallsInv, Calls
  <2>2. Viewing(calls') \subseteq Viewing(calls) \ {c}
    BY <1>7, IdleCalls, StopsViewing DEF TextArrives
  <2> QED
    BY <1>7, <2>1, <2>2 DEF TextArrives, PageStep
<1>8. ASSUME NEW c \in Slots, PageArrives(c) PROVE PageStep
  <2>1. Viewing(calls') \subseteq Slots \ {c}
    BY <1>8, IdleCalls, StopsViewing DEF PageArrives, Viewing
  <2>2. PICK n \in Names : n = IF calls[c].kind = "view" THEN calls[c].file ELSE Up
    BY DEF CallsInv, Calls, Names
  <2>3. page' = <<n>>
    BY <1>8, <2>2 DEF PageArrives, NewElement
  <2> QED
    BY <2>1, <2>3 DEF PageStep
<1>9. ASSUME NEW c \in Slots, DataArrive(c) PROVE PageStep
  BY <1>9 DEF DataArrive, NewElement, PageStep
<1>10. CASE \/ UNCHANGED allVars \/ PanelNext \/ NewTable \/ HideMenu \/ Download
            \/ Leaves \/ (\E n \in names : ClicksBeside(n))
            \/ Edits \/ AppliesPattern \/ SavesNames \/ (\E yes \in BOOLEAN : Answers(yes))
  <2>1. page' = page
    BY <1>10 DEF allVars, windowVars, PanelNext, NewTable, HideMenu, Download, Leaves, Close,
                 ClicksBeside, Edits, AppliesPattern, SavesNames, Answers, editUnchanged
  <2>2. calls' = calls \/ \A c \in Slots : calls'[c].step = calls[c].step
    BY <1>10 DEF allVars, windowVars, PanelNext, Outdates, NewTable, Stales, HideMenu, Download,
                 Leaves, ClicksBeside, Edits, AppliesPattern, SavesNames, Answers,
                 editUnchanged, CallsInv, Calls
  <2> QED
    BY <2>1, <2>2 DEF Viewing, PageStep
<1> QED
  BY <1>2, <1>3, <1>4, <1>5, <1>6, <1>7, <1>8, <1>9, <1>10 DEF WindowsNext, WindowNext

LEMMA NextPageInv == ASSUME TableInv, CallsInv, PageInv, [WindowsNext]_allVars PROVE PageInv'
<1>1. /\ Cardinality(Slots) \in Nat
      /\ \A S \in SUBSET Slots : /\ IsFiniteSet(S) /\ Cardinality(S) \in Nat
                                 /\ Cardinality(S) <= Cardinality(Slots)
  BY WindowsAssumption, FS_CardinalityType, FS_Subset
<1>2. Viewing(calls) \in SUBSET Slots /\ Viewing(calls') \in SUBSET Slots
  BY DEF Viewing
<1>3. \A c \in Slots : Cardinality(Slots \ {c}) = Cardinality(Slots) - 1
  BY WindowsAssumption, FS_RemoveElement
<1>4. PICK m \in Nat : m = Len(page)
  BY DEF PageInv
<1>5. CASE page' = <<>>
  <2>1. page' \in Seq(Names) /\ Len(page') = 0
    BY <1>5
  <2> QED
    BY <1>1, <1>2, <2>1 DEF PageInv
<1>6. CASE page' = page /\ Viewing(calls') \subseteq Viewing(calls)
  <2>1. Cardinality(Viewing(calls')) <= Cardinality(Viewing(calls))
    BY <1>1, <1>2, <1>6, FS_Subset
  <2> QED
    BY <1>1, <1>2, <1>4, <1>6, <2>1 DEF PageInv
<1>7. ASSUME NEW c \in Viewing(calls), NEW n \in Names, page' = Append(page, n),
             Viewing(calls') \subseteq Viewing(calls) \ {c}
      PROVE  PageInv'
  <2>1. Cardinality(Viewing(calls) \ {c}) = Cardinality(Viewing(calls)) - 1
    BY <1>1, <1>2, FS_RemoveElement
  <2>2. Cardinality(Viewing(calls')) <= Cardinality(Viewing(calls) \ {c})
    BY <1>1, <1>2, <1>7, FS_Subset
  <2>3. page' \in Seq(Names) /\ Len(page') = m + 1
    BY <1>4, <1>7 DEF PageInv
  <2> QED
    BY <1>1, <1>2, <1>4, <2>1, <2>2, <2>3 DEF PageInv
<1>8. ASSUME NEW c \in Slots, NEW n \in Names, page' = <<n>>,
             Viewing(calls') \subseteq Slots \ {c}
      PROVE  PageInv'
  <2>1. Cardinality(Viewing(calls')) <= Cardinality(Slots \ {c})
    BY <1>1, <1>8, FS_Subset
  <2>2. page' \in Seq(Names) /\ Len(page') = 1
    BY <1>8
  <2> QED
    BY <1>1, <1>2, <1>3, <2>1, <2>2 DEF PageInv
<1> QED
  BY PageSteps, <1>5, <1>6, <1>7, <1>8 DEF PageStep

\* What edit.js holds.
Editors == [names : BOOLEAN, files : SUBSET Names, changed : BOOLEAN, still : BOOLEAN]

LEMMA ActiveNames == ASSUME TableInv PROVE Active \subseteq Names
  BY SelectsNames DEF TableInv, Active, ActiveFiles

\* It is filled with names of files, or one of its two switches goes over.
LEMMA EditorStep ==
  ASSUME TableInv, editor \in Editors, [WindowsNext]_allVars
  PROVE  \/ editor' = editor
         \/ \E b \in BOOLEAN : \/ editor' = [editor EXCEPT !.still = b]
                               \/ editor' = [editor EXCEPT !.changed = b]
         \/ \E files \in SUBSET Names, isNames \in BOOLEAN, b \in BOOLEAN :
              editor' = [names |-> isNames, files |-> files, changed |-> b, still |-> TRUE]
<1> DEFINE EditorGoes ==
      \/ editor' = editor
      \/ \E b \in BOOLEAN : \/ editor' = [editor EXCEPT !.still = b]
                            \/ editor' = [editor EXCEPT !.changed = b]
      \/ \E files \in SUBSET Names, isNames \in BOOLEAN, b \in BOOLEAN :
           editor' = [names |-> isNames, files |-> files, changed |-> b, still |-> TRUE]
<1>1. editor.still \in BOOLEAN /\ editor.changed \in BOOLEAN
  BY DEF Editors
<1>2. CASE PanelNext \/ Download
  <2>1. editor' = [editor EXCEPT !.still = /\ editor.still
                                           /\ ActiveFiles(selected', current') = Active]
    BY <1>2 DEF PanelNext, Outdates, Download
  <2>2. PICK b : b = (editor.still /\ ActiveFiles(selected', current') = Active)
    OBVIOUS
  <2>3. b \in BOOLEAN
    BY <1>1, <2>2, Zenon
  <2> QED
    BY <2>1, <2>2, <2>3, Zenon
<1>3. CASE NewTable \/ \E n \in names : ClicksBeside(n)
  BY <1>3 DEF NewTable, ClicksBeside, Stales
<1>4. ASSUME NEW c, NEW call, Show(c, call) PROVE EditorGoes
  BY <1>4, ActiveNames DEF Show, ShowNames, ShowMenu, Fills
<1>5. CASE (\E key \in DOMAIN ShowOf : WindowKey(key)) \/ (\E c \in Slots : ModuleLoads(c))
  BY <1>4, <1>5 DEF WindowKey, Call, ModuleLoads
<1>6. CASE Edits
  BY <1>6 DEF Edits
<1>7. CASE AppliesPattern
  BY <1>7, ActiveNames DEF AppliesPattern
<1>8. ASSUME NEW yes \in BOOLEAN, Answers(yes) PROVE EditorGoes
  <2>1. editor' = [editor EXCEPT !.changed = editor.changed /\ ~(yes /\ asked = "edit")]
    BY <1>8 DEF Answers
  <2>2. PICK b : b = (editor.changed /\ ~(yes /\ asked = "edit"))
    OBVIOUS
  <2>3. b \in BOOLEAN
    BY <1>1, <2>2, Zenon
  <2> QED
    BY <2>1, <2>2, <2>3, Zenon
<1>9. ASSUME NEW c \in Slots, DataArrive(c) PROVE EditorGoes
  BY <1>9 DEF DataArrive, Fills
<1>10. CASE \/ UNCHANGED allVars \/ HideMenu \/ Leaves \/ SavesNames
            \/ (\E item \in DOMAIN ItemOf : MenuItem(item))
            \/ (\E c \in Slots : \/ TypeArrives(c) \/ TextArrives(c) \/ ViewFrame(c)
                                 \/ ViewImage(c) \/ ViewMedia(c) \/ PageArrives(c)
                                 \/ RunsSelected(c) \/ Fails(c))
  BY <1>10 DEF allVars, windowVars, HideMenu, Leaves, SavesNames, MenuItem, TypeArrives,
               TextArrives, ViewFrame, ViewImage, ViewMedia, OpensElement, PageArrives,
               RunsSelected, Fails
<1> QED
  BY <1>2, <1>3, <1>5, <1>6, <1>7, <1>8, <1>9, <1>10 DEF WindowsNext, WindowNext

LEMMA NextEditor ==
  ASSUME TableInv, editor \in Editors, [WindowsNext]_allVars PROVE editor' \in Editors
<1>1. ASSUME NEW b \in BOOLEAN,
             \/ editor' = [editor EXCEPT !.still = b]
             \/ editor' = [editor EXCEPT !.changed = b]
      PROVE  editor' \in Editors
  BY <1>1 DEF Editors
<1>2. ASSUME NEW files \in SUBSET Names, NEW isNames \in BOOLEAN, NEW b \in BOOLEAN,
             editor' = [names |-> isNames, files |-> files, changed |-> b, still |-> TRUE]
      PROVE  editor' \in Editors
  BY <1>2 DEF Editors
<1> QED
  BY EditorStep, <1>1, <1>2

\* The switches of binder.js, menu.js and load-module.js.
SwitchesInv ==
    /\ bound \in BOOLEAN /\ loaded \subseteq Kinds /\ over \in BOOLEAN
    /\ menu \in {"none", "context", "contextFile"}
    /\ asked \in {"none", "edit", "names"}

Switched ==
    /\ bound' = bound \/ bound' \in BOOLEAN
    /\ over' = over \/ over' \in BOOLEAN
    /\ menu' \in {menu, "none", "context", "contextFile"}
    /\ asked' \in {asked, "none", "edit", "names"}

\* What opens over the panel and what closes.
LEMMA OpensSwitch == ASSUME NEW call, NEW shown, Open(call, shown)
                     PROVE  bound' \in BOOLEAN /\ over' \in BOOLEAN
  BY DEF Open, BeforeShow

LEMMA ShowsSwitch == ASSUME NEW c, NEW call, Show(c, call), asked' = asked PROVE Switched
<1>1. CASE Waits(c, call) /\ NotOpen /\ menu' = menu
  BY <1>1 DEF NotOpen, Switched
<1>2. CASE ShowNames(c, call)
  BY <1>2, OpensSwitch DEF ShowNames, NotOpen, Switched
<1>3. CASE ShowMenu(c, call)
  <2>1. over' \in BOOLEAN
    BY <1>3, Zenon DEF ShowMenu
  <2> QED
    BY <1>3, <2>1 DEF ShowMenu, MenuName, BeforeShow, Switched
<1> QED
  BY <1>1, <1>2, <1>3 DEF Show

LEMMA ClosesSwitch == ASSUME Close PROVE Switched
<1>1. bound' \in BOOLEAN /\ over' \in BOOLEAN
  BY DEF Close, CloseWindow, BeforeClose
<1> QED
  BY <1>1 DEF Close, Switched

LEMMA HidesSwitch == ASSUME Hides, asked' = asked PROVE Switched
<1>1. bound' \in BOOLEAN /\ over' \in BOOLEAN
  BY DEF Hides, BeforeClose
<1> QED
  BY <1>1 DEF Hides, Switched

\* A module is loaded for a call of its own.
LEMMA LoadsModule ==
  ASSUME CallsInv, SwitchesInv, [WindowsNext]_allVars PROVE loaded' \subseteq Kinds
<1>1. ASSUME NEW c \in Slots, ModuleLoads(c) PROVE loaded' \subseteq Kinds
  <2>1. calls[c].kind \in Kinds
    BY <1>1 DEF ModuleLoads, CallsInv, CallOn, Calls
  <2> QED
    BY <1>1, <2>1 DEF ModuleLoads, SwitchesInv
<1>2. \/ \E c \in Slots : ModuleLoads(c)
      \/ loaded' = loaded
  BY DEF allVars, windowVars, WindowsNext, WindowNext, PanelNext, NewTable, WindowKey, HideMenu,
         Download, MenuItem, menuUnchanged, answerUnchanged, editUnchanged, Close, Leaves,
         ClicksBeside, Edits, AppliesPattern, SavesNames, Answers, TypeArrives, TextArrives,
         ViewFrame, ViewImage, ViewMedia, OpensElement, PageArrives, DataArrive, RunsSelected,
         Fails
<1> QED
  BY <1>1, <1>2 DEF SwitchesInv

LEMMA Switches == ASSUME [WindowsNext]_allVars PROVE Switched
<1>1. CASE \/ UNCHANGED allVars \/ PanelNext \/ NewTable
  BY <1>1 DEF allVars, windowVars, PanelNext, NewTable, Switched
<1>2. ASSUME NEW key \in DOMAIN ShowOf, WindowKey(key) PROVE Switched
  <2>1. PICK c \in Slots : Show(c, NewCall(ShowOf[key])) \/ (NotOpen /\ menu' = menu)
    BY <1>2 DEF WindowKey, Call
  <2> QED
    BY <1>2, <2>1, ShowsSwitch DEF WindowKey, NotOpen, Switched
<1>3. ASSUME NEW c \in Slots, ModuleLoads(c) PROVE Switched
  BY <1>3, ShowsSwitch DEF ModuleLoads
<1>4. CASE HideMenu \/ Download \/ (\E item \in DOMAIN ItemOf : MenuItem(item))
  BY <1>4, HidesSwitch DEF HideMenu, Download, MenuItem, menuUnchanged
<1>5. CASE Leaves \/ \E n \in names : ClicksBeside(n)
  BY <1>5, ClosesSwitch DEF Leaves, ClicksBeside
<1>6. CASE Edits \/ AppliesPattern \/ (\E yes \in BOOLEAN : Answers(yes))
  BY <1>6 DEF Edits, AppliesPattern, Answers, editUnchanged, Switched
<1>7. CASE SavesNames
  <2>1. bound' \in BOOLEAN /\ over' \in BOOLEAN
    BY <1>7 DEF SavesNames, CloseWindow, BeforeClose
  <2> QED
    BY <1>7, <2>1 DEF SavesNames, editUnchanged, Switched
<1>8. ASSUME NEW c \in Slots,
             \/ TextArrives(c) \/ ViewFrame(c) \/ ViewImage(c) \/ ViewMedia(c)
             \/ PageArrives(c) \/ DataArrive(c)
      PROVE  Switched
  <2>1. \E call, shown : Open(call, shown)
    BY <1>8 DEF TextArrives, ViewFrame, ViewImage, ViewMedia, OpensElement, PageArrives,
                DataArrive
  <2>2. menu' = menu /\ asked' = asked
    BY <1>8 DEF TextArrives, ViewFrame, ViewImage, ViewMedia, OpensElement, PageArrives,
                DataArrive, answerUnchanged
  <2> QED
    BY <2>1, <2>2, OpensSwitch DEF Switched
<1>9. ASSUME NEW c \in Slots, TypeArrives(c) \/ Fails(c) \/ RunsSelected(c) PROVE Switched
  BY <1>9, ClosesSwitch DEF TypeArrives, Fails, RunsSelected, NotOpen, answerUnchanged, Switched
<1> QED
  BY <1>1, <1>2, <1>3, <1>4, <1>5, <1>6, <1>7, <1>8, <1>9 DEF WindowsNext, WindowNext

LEMMA NextSwitches ==
  ASSUME CallsInv, SwitchesInv, [WindowsNext]_allVars PROVE SwitchesInv'
<1>1. bound' \in BOOLEAN /\ over' \in BOOLEAN
  BY Switches, Zenon DEF Switched, SwitchesInv
<1>2. menu' \in {"none", "context", "contextFile"} /\ asked' \in {"none", "edit", "names"}
  BY Switches DEF Switched, SwitchesInv
<1> QED
  BY LoadsModule, <1>1, <1>2 DEF SwitchesInv

\* The types of everything a window or a key writes, those of Keyboard included; what El
\* holds is bounded because a text comes once for a call.
THEOREM WindowsTypeCorrect == WindowsSpec => []WindowsTypeOK
<1> DEFINE Inv == /\ KeyboardInv /\ CallsInv /\ WindowsInv /\ PageInv
                  /\ editor \in Editors /\ SwitchesInv
<1>1. WindowsInit => Inv
  <2> SUFFICES ASSUME WindowsInit PROVE Inv
    OBVIOUS
  <2>1. TableInv /\ CharsInv
    BY InitTableInv
  <2>2. SelectionInv
    BY DEF WindowsInit, Init, SelectionInv, VisualTakesSwept, NoSweep
  <2>3. LetterInv
    <3>1. Cardinality(Entries) \in Nat
      BY KeyboardAssumption, FS_CardinalityType
    <3> QED
      BY <3>1 DEF WindowsInit, Init, LetterInv
  <2>4. StoreInv /\ FoundInv
    <3>1. store = <<>> /\ found = {} /\ foundAt = 0
      BY DEF WindowsInit, Init
    <3> QED
      BY <3>1 DEF StoreInv, FoundInv
  <2>5. CallsInv /\ WindowsInv
    BY InitCalls
  <2>6. PageInv
    <3>1. page = <<>> /\ Viewing(calls) = {}
      BY IdleCalls DEF WindowsInit, Viewing
    <3>2. page \in Seq(Names) /\ Len(page) = 0 /\ Cardinality(Viewing(calls)) = 0
      BY <3>1, FS_EmptySet
    <3> QED
      BY <3>2, WindowsAssumption, FS_CardinalityType DEF PageInv
  <2>7. editor \in Editors /\ SwitchesInv
    BY DEF WindowsInit, NoEditor, Editors, SwitchesInv
  <2> QED
    BY <2>1, <2>2, <2>3, <2>4, <2>5, <2>6, <2>7 DEF KeyboardInv
<1>2. Inv /\ [WindowsNext]_allVars => Inv'
  <2> SUFFICES ASSUME Inv, [WindowsNext]_allVars PROVE Inv'
    OBVIOUS
  <2>1. KeyboardInv'
    BY NextTableInv, NextCharsInv, NextSelectionInv, NextLetterInv, NextStoreInv, NextFoundInv
       DEF KeyboardInv
  <2> QED
    BY <2>1, NextCallsInv, NextWindowsInv, NextPageInv, NextEditor, NextSwitches DEF KeyboardInv
<1>3. Inv => WindowsTypeOK
  <2> SUFFICES ASSUME Inv PROVE WindowsTypeOK
    OBVIOUS
  <2>1. page \in UNION {[1..n -> Names] : n \in 0..Cardinality(Slots) + 1}
    <3>1. Viewing(calls) \subseteq Slots
      BY DEF Viewing
    <3>2. Cardinality(Slots) \in Nat /\ Cardinality(Viewing(calls)) \in Nat
      BY <3>1, WindowsAssumption, FS_CardinalityType, FS_Subset
    <3>3. PICK m \in Nat : m = Len(page)
      BY DEF PageInv
    <3>4. m \in 0..Cardinality(Slots) + 1
      BY <3>2, <3>3 DEF PageInv
    <3>5. page \in [1..m -> Names]
      BY <3>3 DEF PageInv
    <3> QED
      BY <3>4, <3>5
  <2>2. calls \in [Slots -> Calls] /\ \A i \in DOMAIN windows : windows[i].kind \in Kinds
    BY DEF CallsInv, WindowsInv, WindowOK
  <2>3. KeyboardTypeOK
    BY KeyboardTypes
  <2> QED
    BY <2>1, <2>2, <2>3, Zenon DEF WindowsTypeOK, Calls, Steps, Editors, SwitchesInv
<1> QED
  BY <1>1, <1>2, <1>3, PTL DEF WindowsSpec

=============================================================================
